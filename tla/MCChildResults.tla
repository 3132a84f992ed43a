--------------------------- MODULE MCChildResults ----------------------------
EXTENDS ChildResults

CONSTANTS c1, c2, q1

\* RestartStrategy of the children: RetryOnce for c1, LetCrash for c2.
RetryFirst == [c \in Children |-> IF c = c1 THEN 1 ELSE 0]
=============================================================================
