--------------------------- MODULE MCVocabularies ---------------------------
EXTENDS Vocabularies

\* All names in one bucket.
MCHash == [n \in Names |-> 0]

NamesSymmetry == Permutations(Names)
=============================================================================
