-------------------------- MODULE MCProveDispatch --------------------------
EXTENDS ProveDispatch

CONSTANTS t1, t2, t3

MCPages == {t1, t2, t3}
\* The witness of t3 does not satisfy the circuit.
MCValidWitness == {t1, t2}
=============================================================================
