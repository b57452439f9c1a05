--------------------------- MODULE MCTrustedList ---------------------------
(***************************************************************************)
(* The functions of TrustedList against reference definitions, over all    *)
(* small inputs.                                                           *)
(***************************************************************************)
EXTENDS TrustedList, TLC

Bytes == 0 .. BYTE - 1
KeysUpTo(n) == UNION {[1 .. k -> Bytes] : k \in 0 .. n}

\* No two keys have one commitment, whatever their lengths and leading zeros
\* (the packing of KeyCommit.sol and keyCommit.ts).
CommitsApart ==
    \A a, b \in KeysUpTo(MAX_LEAF_SPKI) : commitSpki(a) = commitSpki(b) => a = b

\* The root of the complete tree over the leaves and as many zeros as fit.
FullRoot(leaves) ==
    LET node[level \in 0 .. TREE_DEPTH, i \in 0 .. 2 ^ TREE_DEPTH - 1] ==
            IF level = 0 THEN IF i < Len(leaves) THEN leaves[i + 1] ELSE Num(0)
            ELSE Poseidon(<<node[level - 1, 2 * i], node[level - 1, 2 * i + 1]>>)
    IN node[TREE_DEPTH, 0]

LeafSeqs == UNION {[1 .. n -> {Num(1), Num(2)}] : n \in 0 .. 2 ^ TREE_DEPTH}

\* The tree that stores only what it needs has the root of the complete one,
\* and the path of every leaf, or of a free place, climbs to it (merkle.ts,
\* merkleLookup.ts, PoseidonMerkle.sol).
TreesAgree ==
    \A leaves \in LeafSeqs :
        LET layers == Layers(leaves)
        IN /\ Root(layers) = FullRoot(leaves)
           /\ \A i \in 0 .. 2 ^ TREE_DEPTH - 1, leaf \in {Num(0), Num(1), Num(2)} :
                 LET p == [path |-> buildInclusionPath(i, layers), bits |-> pathBits(i)]
                 IN verify(leaf, p, Root(layers))
                    <=> leaf = IF i < Len(leaves) THEN leaves[i + 1] ELSE Num(0)

CONSTANTS ua, ee

SmallKeys == {<<1>>, <<0, 1>>}
SmallServices ==
    {s \in Services({ua, ee}, {<<>>, <<<<1>>>>, <<<<0, 1>>, <<1>>>>}) :
        \* what does not matter of a service that is refused anyway is fixed
        /\ ~(s.caQc /\ s.granted) => s.use = {} /\ s.nonRepudiation /\ (s.caQc \/ s.granted)
        /\ s.use # {} => s.nonRepudiation = (s.use = {"seals"})}

ServiceSeqs == UNION {[1 .. n -> SmallServices] : n \in 0 .. 2}

\* With the path that the page sends, the contract accepts a key under the
\* published root exactly when some service of the country that grants
\* qualified certificates for signatures has it: in any order of the services,
\* with keys listed twice, and with the tree full (run of the flattener's
\* index.ts, the page's pipeline, gate 4 of the registry).
AcceptsWhatIsGranted ==
    \A services \in ServiceSeqs : \A out \in Publishes(services, ua) : \A key \in SmallKeys :
        verify(commitSpki(key), TrustPath(out, key), Root(out.layers))
        <=> \E i \in DOMAIN services :
               LET s == services[i]
               IN /\ s.territory = ua /\ s.caQc /\ s.granted
                  /\ \E j \in DOMAIN s.certs : s.certs[j] = key
                  /\ \/ s.use \in {{"signatures"}, {"signatures", "seals"}}
                     \/ s.use = {} /\ s.nonRepudiation

ASSUME ListChecked == CommitsApart /\ TreesAgree /\ AcceptsWhatIsGranted
=============================================================================
