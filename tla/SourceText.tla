----------------------------- MODULE SourceText -----------------------------
(***************************************************************************)
(* What the input promises to the outer interpreter (src/README, section   *)
(* 1; man/man3/forth.3, #include): one text without files, buffers or      *)
(* reads, in which a file stands where it is loaded, each at most once.    *)
(* The interpreter takes the words of that text in order, and leaves out   *)
(* comments, and sections up to the #else or #then that belongs to them;   *)
(* only an abort cuts a piece out of it.                                   *)
(***************************************************************************)
EXTENDS Integers, SequencesExt

CONSTANTS Stdin, IsSpace(_)

VARIABLES disk,      \* the texts of the files and of the standard input
          text,      \* what is still to be read
          word,      \* the word that was read and is to be acted on
          mode,      \* what is done with the text
          nest,      \* comments, or sections, open inside one
          loaded,    \* the files that were spliced in
          aborts     \* the number of aborts

textVars == <<disk, text, word, mode, nest, loaded, aborts>>

Init == /\ text = <<>> /\ word = <<>> /\ mode = "main" /\ nest = 0
        /\ loaded = {} /\ aborts = 0

Sections == {"#if", "#else"}
Naming == {"name", "nameless"}
WordModes == {"words"} \cup Naming \cup Sections
Delimiters == {"\n", ")"}

Without(n) == SubSeq(text, n + 1, Len(text))
Splice(f) == /\ f \in DOMAIN disk \ loaded
             /\ text' = disk[f] \o text
             /\ loaded' = loaded \cup {f}

\* The interpreter is started, on a file, on the standard input, or on what is left
\* when there is no room for either.
Start == /\ mode = "main" /\ mode' = "words"
         /\ \/ \E f \in DOMAIN disk : Splice(f)
            \/ UNCHANGED text /\ loaded' \in {loaded, loaded \cup {Stdin}}
         /\ UNCHANGED <<disk, word, nest, aborts>>

SkipSpace == /\ mode \in WordModes /\ word = <<>>
             /\ text # <<>> /\ IsSpace(Head(text))
             /\ text' = Tail(text)
             /\ UNCHANGED <<disk, word, mode, nest, loaded, aborts>>

\* A word goes up to the next space; but for the interpreter it may also end
\* with the text.
ReadWord ==
  /\ mode \in WordModes /\ word = <<>>
  /\ \E n \in 1 .. Len(text) :
       /\ \A i \in 1 .. n : ~ IsSpace(text[i])
       /\ IF n = Len(text) THEN mode # "words" ELSE IsSpace(text[n + 1])
       /\ word' = SubSeq(text, 1, n)
       /\ text' = Without(n + 1)
  /\ UNCHANGED <<disk, mode, nest, loaded, aborts>>

\* How a comment or a section begins.
Opening == nest' = CASE mode' = "comment" -> 1 [] mode' \in Sections -> 0 [] OTHER -> nest

\* A word is acted on; it may ask for the rest of a comment, for a name, for a
\* section to be left out, or to leave.
ActOn == /\ mode = "words" /\ word # <<>> /\ word' = <<>>
         /\ mode' \in {"words", "comment", "name", "leaving", "over"} \cup Sections \cup Delimiters
         /\ Opening
         /\ text' = IF mode' = "over" THEN <<>> ELSE text
         /\ UNCHANGED <<disk, loaded, aborts>>

\* A name is taken: a file that was not loaded yet may be spliced in, or a
\* section begins.
TakeName == /\ mode = "nameless" \/ (mode = "name" /\ (word # <<>> \/ text = <<>>))
            /\ word' = <<>>
            /\ \/ mode' = "words" /\ \E f \in DOMAIN disk \ {Stdin} : Splice(f)
               \/ mode' \in {"words", "#if"} /\ UNCHANGED <<text, loaded>>
            /\ Opening
            /\ UNCHANGED <<disk, aborts>>

\* A word in a section that is left out.  Sections inside begin with #if.
InSection ==
  /\ mode \in Sections /\ word # <<>> /\ word' = <<>>
  /\ nest' = CASE word = <<"#if">> -> nest + 1
               [] word = <<"#then">> /\ nest > 0 -> nest - 1
               [] OTHER -> nest
  /\ mode' = IF nest = 0 /\ (word = <<"#then">> \/ (word = <<"#else">> /\ mode = "#if"))
             THEN "words" ELSE mode
  /\ UNCHANGED <<disk, text, loaded, aborts>>

InComment == /\ mode = "comment" /\ text # <<>>
             /\ text' = Tail(text)
             /\ nest' = CASE Head(text) = "(" -> nest + 1
                          [] Head(text) = ")" -> nest - 1
                          [] OTHER -> nest
             /\ mode' = IF nest' = 0 THEN "words" ELSE mode
             /\ UNCHANGED <<disk, word, loaded, aborts>>

InLine == /\ mode \in Delimiters /\ text # <<>>
          /\ text' = Tail(text)
          /\ mode' = IF Head(text) = mode THEN "words" ELSE mode
          /\ UNCHANGED <<disk, word, nest, loaded, aborts>>

\* At the end of the text the interpreter is left, with a last word that no
\* space follows.
EndOfText ==
  /\ \/ mode = "leaving" /\ mode' = "main" /\ UNCHANGED text
     \/ mode = "words" /\ mode' = "main" /\ text' = <<>>
        /\ \A i \in DOMAIN text : ~ IsSpace(text[i])
     \/ mode \in {"comment"} \cup Delimiters /\ text = <<>>
        /\ mode' \in {"words", "over"} /\ UNCHANGED text
  /\ UNCHANGED <<disk, word, nest, loaded, aborts>>

\* An abort gives up a piece of the text, up to the rest of the standard input.
\* A word that was being read keeps its beginning, and a name that was about to
\* begin may be left without a character.
Abandon == /\ aborts' = aborts + 1
           /\ mode' \in {mode, "over"} \/ (mode \in Naming /\ mode' \in Naming \cup {"words"})
           /\ word' = <<>>
           /\ \E n, m \in 0 .. Len(text) :
                /\ \A i \in 1 .. n : ~ IsSpace(text[i])
                /\ text' = SubSeq(text, 1, n) \o Without(m)
           /\ UNCHANGED <<disk, nest, loaded>>

Finish == /\ mode = "main" /\ mode' = "over" /\ text' = <<>>
          /\ UNCHANGED <<disk, word, nest, loaded, aborts>>

Next == \/ Start \/ SkipSpace \/ ReadWord \/ ActOn \/ TakeName \/ InSection \/ InComment
        \/ InLine \/ EndOfText \/ Abandon \/ Finish

Spec == Init /\ [][Next]_textVars
=============================================================================
