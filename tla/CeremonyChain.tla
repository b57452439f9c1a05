--------------------------- MODULE CeremonyChain ---------------------------
(***************************************************************************)
(* What the ceremony's public feed promises to those who will trust its    *)
(* parameters: a chain of contributions that only grows, one checked       *)
(* contribution on top of the last at a time; a beacon that is drawn only  *)
(* over a complete chain, and a final key only after a beacon.             *)
(* CeremonyCoord is shown to implement it.                                 *)
(***************************************************************************)
EXTENDS Integers, Sequences

CONSTANTS
    Beacons, Finals, Circuits,
    TotalRounds, None

VARIABLES
    chain,          \* zkeys, [ok |-> fits the circuit, history |-> contributions],
                    \* the seed first; empty before the ceremony
    drawn,          \* the beacon, or None
    closed,         \* the hash of the final key, or None
    advanced        \* circuit -> rounds counted for it

cvars == <<chain, drawn, closed, advanced>>

\* z is y and one contribution more.
Extends(z, y) ==
    /\ z.ok
    /\ Len(z.history) = Len(y.history) + 1
    /\ \A i \in 1 .. Len(y.history) : z.history[i] = y.history[i]

ChainInit ==
    /\ chain = <<>>
    /\ drawn = None
    /\ closed = None
    /\ advanced = [c \in Circuits |-> 0]

Plant ==
    /\ chain = <<>>
    /\ Len(chain') = 1
    /\ chain'[1].ok
    /\ UNCHANGED <<drawn, closed, advanced>>

Grow ==
    /\ chain # <<>>
    /\ Len(chain') = Len(chain) + 1
    /\ \A i \in 1 .. Len(chain) : chain'[i] = chain[i]
    /\ Extends(chain'[Len(chain')], chain[Len(chain)])
    /\ UNCHANGED <<drawn, closed, advanced>>

Draw ==
    /\ Len(chain) > TotalRounds
    /\ drawn' \in Beacons
    /\ UNCHANGED <<chain, closed, advanced>>

Close ==
    /\ drawn # None
    /\ closed' \in Finals
    /\ UNCHANGED <<chain, drawn, advanced>>

\* The count of one circuit; it stands apart from the chain.
Advance ==
    /\ chain # <<>>
    /\ \E c \in Circuits : advanced' = [advanced EXCEPT ![c] = @ + 1]
    /\ UNCHANGED <<chain, drawn, closed>>

ChainSpec == ChainInit /\ [][Plant \/ Grow \/ Draw \/ Close \/ Advance]_cvars
=============================================================================
