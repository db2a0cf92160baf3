----------------------------- MODULE InputStack -----------------------------
(***************************************************************************)
(* The input of src/io.c: a stack of open files with their buffers, the    *)
(* names of the files loaded so far, the search paths, and io_fillbuf with *)
(* its reads that block or, while there are other tasks, do not.           *)
(*                                                                         *)
(* A file is named by a directory of the search paths and a name.  Names   *)
(* and texts are sequences of characters; a character may stand for a run  *)
(* of letters.  A buffer is what lies between pos, where the next          *)
(* character is taken, and end, up to where the file was read (bufp and cc *)
(* of the code count from the start of the buffer).  Names of directories  *)
(* end in a slash, so that io_path has none to add.  A directory is a file *)
(* without a name.                                                         *)
(***************************************************************************)
EXTENDS Integers, SequencesExt

CONSTANTS Stdin,          \* the standard input
          Disks,          \* the texts the files may have, the standard input among them
          Env,            \* what environment variables hold: sequences of directories
          BufSize,        \* BUFSIZE
          InfStackSize,   \* INFSTACKSIZE
          PathsSize       \* PATHSSIZE

Blank == " "
Newline == "\n"
IsSpace(c) == c \in {Blank, Newline}

ASSUME InputAssumption ==
  /\ BufSize \in Nat \ {0} /\ InfStackSize \in Nat \ {0} /\ PathsSize \in Nat \ {0}
  /\ \A name \in DOMAIN Env : Env[name] \in Seq(Range(Env[name]))
  /\ \A d \in Disks : Stdin \in DOMAIN d /\ \A f \in DOMAIN d : d[f] \in Seq(Range(d[f]))

VARIABLES disk,        \* the text of every file
          terminal,    \* the standard input is a terminal
          arrived,     \* how much of the standard input was sent; one more: its end
          infstack,    \* the open files, the one that is read last
          infiles,     \* the files loaded
          paths,       \* the search paths
          filling,     \* io_fillbuf: not called, with blocking reads, or sharing
          others,      \* there are other tasks in the ring of the foreground
          errno        \* whether the last system call that failed would have blocked

inputVars == <<disk, terminal, arrived, infstack, infiles, paths, filling, others, errno>>

Top == Last(infstack)
IsATty(f) == f = Stdin /\ terminal
IsDirectory(f) == f # Stdin /\ f[2] = <<>>
Opened(f) == [file |-> f, pos |-> 0, end |-> 0, ln |-> 1]
----------------------------------------------------------------------------
\* io_path with the name of a directory; first: IO_PATH_FIRST.
IoPath(ps, dir, first) ==
  CASE dir = <<>> \/ dir \in Range(ps) \/ Len(ps) = PathsSize -> ps
    [] OTHER -> IF first THEN <<dir>> \o ps ELSE Append(ps, dir)

\* io_path: the directories of an environment variable are added one by one.
IoPathList(ps, dirs, first) ==
  LET added[i \in 0 .. Len(dirs)] ==
        IF i = 0 THEN ps ELSE IoPath(added[i - 1], dirs[i], first)
  IN  added[Len(dirs)]

IoPathName(ps, name, first) ==
  IF name = <<>> \/ Head(name) # "$" THEN IoPath(ps, name, first)
  ELSE IF Tail(name) \notin DOMAIN Env THEN ps
  ELSE IoPathList(ps, Env[Tail(name)], first)

\* io_initiate
InitialPaths ==
  LET Add(ps, name) == IoPathName(ps, <<"$", name>>, FALSE)
  IN  Add(Add(Add(<<>>, "PWD"), "HOME"), "TILEPATH")

InputInit == /\ disk \in Disks /\ terminal \in BOOLEAN
             /\ arrived = 0 /\ infstack = <<>> /\ infiles = {} /\ paths = InitialPaths
             /\ filling = "no" /\ others = FALSE /\ errno = "other"
----------------------------------------------------------------------------
\* io_infile with the name of a file: the search ends at a file that was
\* loaded already, or at one that can be opened.
Candidate(name, i) == <<paths[i], name>>
Hits(name) ==
  {i \in DOMAIN paths : Candidate(name, i) \in infiles \cup (DOMAIN disk \ {Stdin})}

\* Mutant of io_infile: the name of the file is not recorded.
IoInfileForgets(name) ==
  /\ \/ Hits(name) = {} /\ UNCHANGED infstack
     \/ \E i \in Hits(name) :
          /\ \A j \in Hits(name) : i <= j
          /\ infstack' = IF Len(infstack) < InfStackSize
                         THEN Append(infstack, Opened(Candidate(name, i))) ELSE infstack
  /\ UNCHANGED infiles
  /\ errno' = IF 1 \in Hits(name) THEN errno ELSE "other"

\* A file for which there is no room is not loaded, nor recorded.  An open that
\* fails sets errno.
IoInfile(name) ==
  /\ \/ Hits(name) = {} /\ UNCHANGED <<infstack, infiles>>
     \/ \E i \in Hits(name) :
          /\ \A j \in Hits(name) : i <= j
          /\ IF Candidate(name, i) \in infiles \/ Len(infstack) >= InfStackSize
             THEN UNCHANGED <<infstack, infiles>>
             ELSE /\ infstack' = Append(infstack, Opened(Candidate(name, i)))
                  /\ infiles' = infiles \cup {Candidate(name, i)}
  /\ errno' = IF 1 \in Hits(name) THEN errno ELSE "other"

\* io_infile(STDIN)
IoInfileStdin ==
  infstack' = IF Len(infstack) < InfStackSize
              THEN Append(infstack, Opened(Stdin)) ELSE infstack

\* io_flush: all files are closed, but for a terminal at the bottom.
IoFlush ==
  IF infstack = <<>> THEN UNCHANGED <<infstack, errno>>
  ELSE IF IsATty(infstack[1].file) THEN infstack' = <<infstack[1]>> /\ UNCHANGED errno
  ELSE infstack' = <<>> /\ errno' = "other"

\* io_flush in a signal handler, while io_fillbuf reads: its loop goes on with
\* the bottom file, reads over what is left in the buffer, and waits, as only the
\* file above was set to return at once.
IoFlushFilling ==
  IF filling = "no" \/ Len(infstack) <= 1 THEN IoFlush /\ UNCHANGED filling
  ELSE /\ filling' = "blocking"
       /\ IF IsATty(infstack[1].file)
          THEN infstack' = <<[infstack[1] EXCEPT !.pos = infstack[1].end]>> /\ UNCHANGED errno
          ELSE infstack' = <<>> /\ errno' = "other"
----------------------------------------------------------------------------
\* The macro io_getchar, while the buffer of the top file is not empty; with
\* io_newline for a newline when lines are counted.
Buffered == infstack # <<>> /\ Top.pos < Top.end
Char == disk[Top.file][Top.pos + 1]

Getchar(counted) ==
  infstack' = [infstack EXCEPT ![Len(infstack)] =
                 [Top EXCEPT !.pos = @ + 1,
                             !.ln = @ + (IF counted /\ Char = Newline THEN 1 ELSE 0)]]

\* The end of what a read may return, and whether it has come to the end of the file.
Available == IF Top.file = Stdin /\ arrived <= Len(disk[Stdin]) THEN arrived
             ELSE Len(disk[Top.file])
AtEnd == Top.end = Len(disk[Top.file]) /\ (Top.file = Stdin => arrived > Len(disk[Stdin]))

CanFill == infstack # <<>> /\ ~ Buffered

\* io_fillbuf up to its loop.  isatty fails for a file.
FillEnter ==
  /\ CanFill /\ filling = "no"
  /\ filling' = IF others THEN "sharing" ELSE "blocking"
  /\ errno' = IF IsATty(Top.file) THEN errno ELSE "other"
  /\ UNCHANGED <<disk, terminal, arrived, infstack, infiles, paths, others>>

\* Mutant of io_fillbuf: a buffer is always taken to be full.
FillDataFull ==
  /\ CanFill /\ filling # "no" /\ Top.end < Available
  /\ infstack' = [infstack EXCEPT ![Len(infstack)] = [Top EXCEPT !.end = @ + BufSize]]
  /\ filling' = "no"
  /\ UNCHANGED <<disk, terminal, arrived, infiles, paths, others, errno>>

\* A read returns characters; a terminal or a pipe those that have arrived.
FillData ==
  /\ CanFill /\ filling # "no" /\ Top.end < Available
  /\ LET n == IF Available - Top.end < BufSize THEN Available - Top.end ELSE BufSize IN
     infstack' = [infstack EXCEPT ![Len(infstack)] = [Top EXCEPT !.end = @ + n]]
  /\ filling' = "no"
  /\ UNCHANGED <<disk, terminal, arrived, infiles, paths, others, errno>>

\* A read returns nothing at the end of the file: the file is closed, and the
\* next character comes from the file below.
FillEof ==
  /\ CanFill /\ filling # "no" /\ AtEnd /\ ~ IsDirectory(Top.file) /\ errno # "would block"
  /\ infstack' = Front(infstack)
  /\ filling' = "no"
  /\ UNCHANGED <<disk, terminal, arrived, infiles, paths, others, errno>>

\* A read finds nothing yet (when reads block, it does not return), or the end
\* of the file with errno left by such a read, which hides the end; a read of a
\* directory fails.  The other tasks run, and may all leave the ring, and the
\* loop goes on.
FillNone ==
  /\ CanFill /\ filling # "no" /\ Top.end = Available
  /\ \/ IsDirectory(Top.file) /\ errno' = "other"
     \/ /\ ~ IsDirectory(Top.file)
        /\ IF AtEnd THEN errno = "would block" ELSE filling = "sharing"
        /\ errno' = "would block"
  /\ others' \in BOOLEAN /\ (others' => others)
  /\ filling' = IF others' THEN "sharing" ELSE "blocking"
  /\ UNCHANGED <<disk, terminal, arrived, infstack, infiles, paths>>

Fill == FillEnter \/ FillData \/ FillEof \/ FillNone

\* Whoever is at the other end of the standard input sends some, or its end.
\* Only a read can tell when it came: the model lets it come when the input is
\* being read and what came before is used up.
Arrive ==
  /\ CanFill /\ filling # "no" /\ Top.file = Stdin /\ Top.end = arrived
  /\ arrived' \in arrived + 1 .. Len(disk[Stdin]) + 1
  /\ UNCHANGED <<disk, terminal, infstack, infiles, paths, filling, others, errno>>
=============================================================================
