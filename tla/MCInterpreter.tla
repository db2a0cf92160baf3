--------------------------- MODULE MCInterpreter ---------------------------
(***************************************************************************)
(* Sessions of up to two argument files and a standard input of one line   *)
(* or two, from a set that has every kind of word.                         *)
(***************************************************************************)
EXTENDS Interpreter

CONSTANTS Endings,     \* how the included file g ends
          Sessions     \* what the standard input may hold

W(does, effect) == [does |-> does, immediate |-> FALSE, effect |-> effect]
Now(does) == [does |-> does, immediate |-> TRUE, effect |-> 0]
Until(c) == [does |-> "until", immediate |-> TRUE, effect |-> 0, delimiter |-> c]

MCWords ==
  ( <<"w">> :> W("compute", 1) @@ <<"d">> :> W("compute", -1) @@
    <<"#include">> :> W("#include", 0) @@ <<"#path">> :> W("#path", 0) @@
    <<"abort">> :> W("abort", 0) @@ <<"bye">> :> W("bye", 0) @@ <<"task">> :> W("task", 0) @@
    <<"[">> :> Now("[") @@ <<"]">> :> W("]", 0) @@ <<"'">> :> W("'", 0) @@
    <<"(">> :> Now("(") @@ <<"\\">> :> Until(Newline) @@ <<".(">> :> Until(")") @@
    <<"#if">> :> Now("#if") @@ <<"#else">> :> Now("#else") @@ <<"#then">> :> Now("compute") @@
    <<"#ifdef">> :> Now("#ifdef") @@ <<"#ifundef">> :> Now("#ifundef") @@
    <<"v">> :> W("vocabulary", 0) @@
    <<"base-36">> :> [does |-> "radix", immediate |-> FALSE, effect |-> 0, radix |-> 36] @@
    <<"binary">> :> [does |-> "radix", immediate |-> FALSE, effect |-> 0, radix |-> 2] )

MCDictionary == Context :> MCWords @@ <<"v">> :> ( <<"m">> :> W("compute", 0) )

MCEnv == <<"PWD">> :> << <<"h">> >> @@ <<"HOME">> :> << <<"h">> >>
         @@ <<"TILEPATH">> :> << <<"h">>, <<"l">> >> @@ <<"V">> :> << <<"k">>, <<"i">> >>

InputLines == {
  <<"#include", " ", "f", "\n">>,
  <<"#include", " ", "f", " ", " ", "w", "\n">>,
  <<"w", " ", "d", " ", "d", "\n">>,
  <<"]", " ", "1", " ", "#include", " ", "[", " ", "-", "9", "\n">>,
  <<"(", " ", "#include", "\n", "(", " ", ")", "w", ")", "d", "\n">>,
  <<"\\", " ", "(", "\n">>,
  <<"?", " ", "w", "\n">>,
  <<"(", "v", ")", " ", "m", " ", "(", "v", ")", " ", "w", "\n">>,
  <<"w", " ", "(", "w", ")", "\n">>,
  <<"#path", " ", "$", "V", " ", "#include", " ", "g", "\n">>,
  <<"task", " ", "#path", " ", "k", "\n">>,
  <<"bye", " ", "w", "\n">>,
  <<"base-36", " ", "9", " ", "binary", "\n">>,
  <<".(", " ", "(", ")", "'", " ", "w", " ", "'", " ", "?", "\n">>,
  <<"w", " ", "#if", " ", "?", " ", "#else", " ", "w", " ", "#then", "\n">>,
  <<"#ifdef", " ", "w", " ", "d", " ", "#else", " ", "#if", " ", "#then", " ", "?", " ", "#then", "\n">>,
  <<"#ifundef", " ", "w", " ", "#if", " ", "#if", " ", "#then", " ", "#else", " ", "#then", " ", "?", " ",
    "#else", " ", "w", " ", "#then", "\n">>,
  <<"w", " ", "#if", " ", "w">>,
  <<"w", " ", "#include", "\n">>,
  <<"#include", " ", "g">>
}

\* One line of any kind, or two that leave something behind for each other.
Lasting == { <<"#include", " ", "f", "\n">>, <<"?", " ", "w", "\n">>, <<"]", " ", "w", "\n">>,
             <<"task", " ", "#path", " ", "k", "\n">>, <<"bye", " ", "w", "\n">> }
MCSessions == InputLines \cup { first \o second : first, second \in Lasting }

\* Two sections, one after the other, inside one that is left out.
MCSections == { <<"w", " ", "#if", " ", "#if", " ", "#then", " ", "#if", " ", "d", " ", "#then", " ",
                  "w", " ", "#then", "\n">> }

MCDisks ==
  { Stdin :> session
    @@ << <<"h">>, <<"f">> >> :> <<"#include", " ", "g", "\n", "w", "\n">>
    @@ << <<"l">>, <<"g">> >> :> <<"#include", " ", "f", "\n", "#include", " ", "k", " ">> \o ending
    @@ << <<"k">>, <<"g">> >> :> <<"bye", "\n", "abort", " ">>
    @@ << <<"h">>, <<"k">> >> :> <<"w", "\n">>
    @@ << <<"h">>, << >> >> :> << >> @@ << <<"l">>, << >> >> :> << >>
    @@ << <<"k">>, << >> >> :> << >>
    : session \in Sessions, ending \in Endings }

Characters == UNION {UNION {Range(d[f]) : f \in DOMAIN d} : d \in MCDisks}
MCCode == [c \in Characters |->
             CASE c = "-" -> 45 [] c = "1" -> 49 [] c = "9" -> 57 [] OTHER -> 35]

MCEndings == { <<"w", " ", "(", " ", "w", "\n">>, <<"d">> }

MCCommandLines == { << >>, << <<"g">>, <<"f">> >>, << <<"?">> >> }
=============================================================================
