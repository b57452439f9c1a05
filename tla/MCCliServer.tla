---------------------------- MODULE MCCliServer ----------------------------
EXTENDS CliServer

CONSTANTS r1, r2, r3

MCRequests == {r1, r2, r3}
\* The witness of r3 does not satisfy the circuit.
MCValidWitness == {r1, r2}
=============================================================================
