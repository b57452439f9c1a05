-------------------------- MODULE MCCeremonyCoord --------------------------
EXTENDS CeremonyCoord, TLC

CONSTANTS a1, a2, c1, p1

MCAdmins == {a1, a2}
MCContributors == {c1}
MCPages == {p1}
MCSymmetry == Permutations(MCAdmins)
=============================================================================
