---------------------------- MODULE TrustedList ----------------------------
(***************************************************************************)
(* From the national lists of trust services to a key that the registry    *)
(* accepts: what the flattener keeps of the services and the tree it       *)
(* builds (packages/lotl-flattener), the path that the page takes from the *)
(* published layers (merkleLookup.ts, uaProofPipelineV5_2.ts), and the     *)
(* climb of the contract (PoseidonMerkle.sol, KeyCommit.sol).  Functions   *)
(* only: fetching, XML and its signatures, and X.509 are left out, so that *)
(* a certificate is the bytes of its public key.                           *)
(***************************************************************************)
EXTENDS Integers, Sequences

CONSTANTS
    TREE_DEPTH, CHUNK, RATE, MAX_LEAF_SPKI,
    BYTE,           \* number of values of a byte
    KEY_COMMIT_DOMAIN

ASSUME ListAssumption ==
    /\ TREE_DEPTH \in Nat
    /\ CHUNK \in Nat \ {0} /\ RATE \in Nat \ {0}
    /\ BYTE \in Nat \ {0}

\* A field element is a number or what Poseidon makes of a tuple of them, taken
\* to be injective and never a number.
Num(n) == <<n>>
Poseidon(inputs) == inputs

-----------------------------------------------------------------------------
(***************************************************************************)
(* Leaves                                                                  *)
(***************************************************************************)

\* The big-endian value of the bytes; leading zeros do not count.
Packed(bytes) ==
    LET v[i \in 0 .. Len(bytes)] == IF i = 0 THEN 0 ELSE BYTE * v[i - 1] + bytes[i]
    IN v[Len(bytes)]

\* The last chunk is as short as its bytes, and the length comes after it.
Chunks(spki) ==
    LET n == (Len(spki) + CHUNK - 1) \div CHUNK
        Chunk(i) == SubSeq(spki, CHUNK * (i - 1) + 1,
                           IF CHUNK * i < Len(spki) THEN CHUNK * i ELSE Len(spki))
    IN [i \in 1 .. n |-> Num(Packed(Chunk(i)))] \o <<Num(Len(spki))>>

\* Window r of the elements; the last one is filled with zeros.
Window(fe, r) ==
    [j \in 1 .. RATE |->
        IF RATE * (r - 1) + j <= Len(fe) THEN fe[RATE * (r - 1) + j] ELSE Num(0)]

\* The sponge.
poseidonChunkHashVarT7(spki) ==
    LET fe == Chunks(spki)
        n == (Len(fe) + RATE - 1) \div RATE
        state[r \in 0 .. n] ==
            IF r = 0 THEN Num(0) ELSE Poseidon(<<state[r - 1]>> \o Window(fe, r))
    IN state[n]

commitSpki(spki) == Poseidon(<<Num(KEY_COMMIT_DOMAIN), poseidonChunkHashVarT7(spki)>>)

-----------------------------------------------------------------------------
(***************************************************************************)
(* The flattener                                                           *)
(***************************************************************************)

\* What filterQes and the country filter look at.  use is what the qualifiers
\* say the certificates are for; nonRepudiation, whether some criterion asks
\* for that key usage, or there are none.
Services(territories, spkis) ==
    [territory : territories, caQc : BOOLEAN, granted : BOOLEAN,
     use : SUBSET {"signatures", "seals"}, nonRepudiation : BOOLEAN,
     certs : spkis]

Given(services) == {services[i] : i \in DOMAIN services}

\* An explicit qualifier decides before one that excludes.
isSignatureQualified(s) ==
    \/ "signatures" \in s.use
    \/ "seals" \notin s.use /\ s.nonRepudiation

\* Array.filter: the services that are in the set, in their order.
Filtered(services, set) ==
    LET kept[i \in 0 .. Len(services)] ==
            IF i = 0 THEN <<>>
            ELSE IF services[i] \in set THEN Append(kept[i - 1], services[i]) ELSE kept[i - 1]
    IN kept[Len(services)]

filterQes(services) ==
    Filtered(services,
        {s \in Given(services) : s.caQc /\ s.granted /\ s.certs # <<>> /\ isSignatureQualified(s)})

filterServicesByCountry(services, country) ==
    Filtered(services, {s \in Given(services) : s.territory = country})

\* The certificates of the services, in their order, duplicates included.
extractCAs(services) ==
    LET out[i \in 0 .. Len(services)] ==
            IF i = 0 THEN <<>> ELSE out[i - 1] \o services[i].certs
    IN out[Len(services)]

\* zeroHashes: the root of an empty tree of each depth.
zeroHashes[level \in 0 .. TREE_DEPTH] ==
    IF level = 0 THEN Num(0)
    ELSE Poseidon(<<zeroHashes[level - 1], zeroHashes[level - 1]>>)

\* 2 ^ level, which doubles from level to level.
capacity[level \in 0 .. TREE_DEPTH] == IF level = 0 THEN 1 ELSE 2 * capacity[level - 1]

\* buildTree: only the nodes with a leaf below are stored, over a layer whose
\* empty nodes are zero.
Above(cur, zero) ==
    [i \in 1 .. (Len(cur) + 1) \div 2 |->
        Poseidon(<<cur[2 * i - 1], IF 2 * i <= Len(cur) THEN cur[2 * i] ELSE zero>>)]

Layers(leaves) ==
    LET layers[level \in 0 .. TREE_DEPTH] ==
            IF level = 0 THEN leaves ELSE Above(layers[level - 1], zeroHashes[level - 1])
    IN layers

Root(layers) ==
    IF Len(layers[TREE_DEPTH]) = 1 THEN layers[TREE_DEPTH][1] ELSE zeroHashes[TREE_DEPTH]

\* run() throws, and publishes nothing, when no service is of the country, when
\* a key is too long for the commitment, or when the tree is full.
Publishes(services, country) ==
    LET ofCountry == filterServicesByCountry(filterQes(services), country)
        cas == extractCAs(ofCountry)
    IN IF \/ ofCountry = <<>>
          \/ \E i \in DOMAIN cas : Len(cas[i]) > MAX_LEAF_SPKI
          \/ Len(cas) > capacity[TREE_DEPTH]
       THEN {}
       ELSE {[cas |-> cas, layers |-> Layers([i \in DOMAIN cas |-> commitSpki(cas[i])])]}

-----------------------------------------------------------------------------
(***************************************************************************)
(* The page                                                                *)
(***************************************************************************)

\* The entry of the certificate, found by its bytes; 0 when there is none.
MerkleIndex(cas, spki) ==
    LET at == {i \in DOMAIN cas : cas[i] = spki}
    IN IF at = {} THEN 0 ELSE CHOOSE i \in at : \A j \in at : i <= j

\* buildInclusionPath, for an index from 0; and its packing for calldata.  The
\* index is halved from level to level.
IndexAt(index) ==
    LET i[level \in 0 .. TREE_DEPTH] == IF level = 0 THEN index ELSE i[level - 1] \div 2 IN i

RightAt(index, level) == IndexAt(index)[level] % 2 = 1

\* What layer holds at i, or the zero of its level.
Node(layer, zero, i) == IF i < Len(layer) THEN layer[i + 1] ELSE zero

buildInclusionPath(index, layers) ==
    [level \in 0 .. TREE_DEPTH - 1 |->
        LET i == IndexAt(index)[level]
        IN Node(layers[level], zeroHashes[level], IF RightAt(index, level) THEN i - 1 ELSE i + 1)]

pathBits(index) == [level \in 0 .. TREE_DEPTH - 1 |-> IF RightAt(index, level) THEN 1 ELSE 0]

\* A certificate that is not listed gets a path of zero words.
ZeroPath == [level \in 0 .. TREE_DEPTH - 1 |-> Num(0)]

\* The path sent with a key, from the published files.
TrustPath(out, spki) ==
    LET at == MerkleIndex(out.cas, spki)
    IN IF at = 0 THEN [path |-> ZeroPath, bits |-> pathBits(0)]
       ELSE [path |-> buildInclusionPath(at - 1, out.layers), bits |-> pathBits(at - 1)]

\* The policy is taken for the only leaf of its tree.
PolicyPath == [path |-> [level \in 0 .. TREE_DEPTH - 1 |-> zeroHashes[level]], bits |-> pathBits(0)]

-----------------------------------------------------------------------------
(***************************************************************************)
(* The contract                                                            *)
(***************************************************************************)
verify(leaf, p, root) ==
    LET cur[level \in 0 .. TREE_DEPTH] ==
            IF level = 0 THEN leaf
            ELSE IF p.bits[level - 1] = 0
                 THEN Poseidon(<<cur[level - 1], p.path[level - 1]>>)
                 ELSE Poseidon(<<p.path[level - 1], cur[level - 1]>>)
    IN cur[TREE_DEPTH] = root
=============================================================================
