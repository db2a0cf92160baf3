------------------------------ MODULE MCQueues -----------------------------
\* Two headers and three items: an item can be between two others, move
\* between queues, and be the first, the last or the only one.
EXTENDS Queues

CONSTANTS h1, h2, i1, i2, i3

MCHeaders == {h1, h2}
MCItems == {i1, i2, i3}
MCNodes == MCHeaders \cup MCItems
============================================================================
