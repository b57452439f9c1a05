---------------------------- MODULE MCCliPresence ----------------------------
EXTENDS CliPresence

CONSTANTS t1, t2

MCPages == {t1, t2}
\* The witness of t2 does not satisfy the circuit.
MCValidWitness == {t1}
=============================================================================
