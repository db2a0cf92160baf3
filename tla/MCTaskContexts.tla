--------------------------- MODULE MCTaskContexts ---------------------------
EXTENDS TaskContexts

CONSTANTS a, x, y, u, plain, framed, protected, both

MCWords == {plain, framed, protected, both}
MCFramed == {framed, both}
MCProtected == {protected, both}
MCArguments == [w \in MCWords |-> IF w = both THEN 1 ELSE 0]
MCLocals == [w \in MCWords |-> IF w = framed THEN 1 ELSE 0]

\* Different tasks and different levels push different values.
MCPushed == [t \in Tasks |-> IF t = foreground
                             THEN [n \in 0..2 |-> CASE n = 0 -> {x} [] n = 1 -> {y} [] n = 2 -> {}]
                             ELSE [n \in {0} |-> {u}]]
MCMaxCalls == [t \in Tasks |-> IF t = foreground THEN 2 ELSE 0]
=============================================================================
