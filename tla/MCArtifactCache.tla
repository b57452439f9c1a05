-------------------------- MODULE MCArtifactCache --------------------------
EXTENDS ArtifactCache

CONSTANTS p1, p2

MCOne == {p1}
MCTwo == {p1, p2}
=============================================================================
