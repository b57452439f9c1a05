----------------------------- MODULE MCWebPages -----------------------------
EXTENDS WebPages, TLC

CONSTANTS w1, w2, i1, i2, c1, c2

MCFiles ==
    {[args |-> [id |-> i2, pk |-> w1, uploaded |-> TRUE],
      age |-> [id |-> i2, cutoff |-> c2, uploaded |-> TRUE]]}

\* The default is changed once; changing it back is as if it had not been.
MCChanges == {<<c1, c2>>}
=============================================================================
