------------------------------- MODULE Visitor -------------------------------
(***************************************************************************)
(* What the pages of one visitor share: the connected wallet, the people   *)
(* and the cutoffs they deal with, and the provers they make.              *)
(***************************************************************************)
EXTENDS SnarkjsWorker, FiniteSets

CONSTANTS
    Wallets,                \* accounts the visitor connects
    Identities,             \* holders of a qualified signature
    Cutoffs, DefaultCutoff  \* birth dates to prove an age for

VARIABLE wallet             \* useAccount().address, or None
=============================================================================
