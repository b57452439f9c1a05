------------------------- MODULE TrustedListProofs -------------------------
(***************************************************************************)
(* What the functions of TrustedList compute, for any depth of the tree,   *)
(* any sizes of chunks and windows, and any services and keys.             *)
(***************************************************************************)
EXTENDS TrustedList, WellFoundedInduction, TLAPS

-----------------------------------------------------------------------------
(***************************************************************************)
(* Loops                                                                   *)
(***************************************************************************)

\* A set of numbers that is not empty has a least one.
LEMMA LeastOf ==
    ASSUME NEW T, T \subseteq Nat, T # {}
    PROVE  \E x \in T : \A y \in T : x <= y
<1> DEFINE R == OpToRel(<, Nat)
<1>1. IsWellFoundedOn(R, Nat)
  BY NatLessThanWellFounded
<1>2. PICK x \in T : \A y \in T : ~ (<<y, x>> \in R)
  BY <1>1, WFMin
<1>3. \A y, z \in Nat : <<y, z>> \in R <=> y < z
  BY DEF OpToRel
<1> HIDE DEF R
<1>4. x \in Nat /\ \A y \in T : y \in Nat /\ ~(y < x)
  BY <1>2, <1>3
<1>5. \A y \in T : x <= y
  BY <1>4
<1> QED BY <1>5

\* Induction up to N, over a set in the place of a predicate.
LEMMA InductionOn ==
    ASSUME NEW N \in Nat, NEW T, 0 \in T, \A n \in 0 .. N - 1 : n \in T => n + 1 \in T
    PROVE  0 .. N \subseteq T
<1> DEFINE Bad == {n \in 0 .. N : n \notin T}
<1>1. SUFFICES ASSUME Bad # {} PROVE FALSE
  OBVIOUS
<1>2. PICK x \in Bad : \A y \in Bad : x <= y
  <2>1. Bad \subseteq Nat
    OBVIOUS
  <2> HIDE DEF Bad
  <2> QED BY <1>1, <2>1, LeastOf
<1>3. x # 0 /\ x - 1 \in T
  BY <1>2
<1> QED BY <1>2, <1>3

\* The states of a loop from a, whose step i is next[i].
Steps(N, S) == [1 .. N -> [S -> S]]

Loops(g, N, S, a, next) ==
    /\ g \in [0 .. N -> S]
    /\ g[0] = a
    /\ \A i \in 1 .. N : g[i - 1] \in S /\ g[i] = next[i][g[i - 1]]

\* A loop over N steps, on states of a set, has its states.
LEMMA Iterates ==
    ASSUME NEW N \in Nat, NEW S, NEW a \in S, NEW next \in Steps(N, S)
    PROVE  \E g : Loops(g, N, S, a, next)
<1> USE DEF Steps
<1> DEFINE P(g, n) == g[0] = a /\ \A i \in 1 .. n : g[i] = next[i][g[i - 1]]
           T == {n \in 0 .. N : \E g \in [0 .. n -> S] : P(g, n)}
<1>1. 0 \in T
  <2>1. [i \in 0 .. 0 |-> a] \in [0 .. 0 -> S] /\ P([i \in 0 .. 0 |-> a], 0)
    OBVIOUS
  <2> HIDE DEF P
  <2> QED BY <2>1
<1>2. ASSUME NEW n \in 0 .. N - 1, n \in T PROVE n + 1 \in T
  <2>1. PICK g \in [0 .. n -> S] : P(g, n)
    BY <1>2
  <2> DEFINE x == next[n + 1][g[n]]
             h == [i \in 0 .. n + 1 |-> IF i <= n THEN g[i] ELSE x]
  <2>2. x \in S
    <3>1. n + 1 \in 1 .. N /\ g[n] \in S
      OBVIOUS
    <3> QED BY <3>1
  <2>3. h \in [0 .. n + 1 -> S]
    BY <2>2
  <2>4. P(h, n + 1)
    BY <2>1
  <2>5. n + 1 \in 0 .. N
    OBVIOUS
  <2> HIDE DEF P, h
  <2> QED BY <2>3, <2>4, <2>5
<1>3. N \in T
  <2> HIDE DEF T
  <2>1. 0 .. N \subseteq T
    BY <1>1, <1>2, InductionOn
  <2> QED BY <2>1
<1>4. PICK g \in [0 .. N -> S] : P(g, N)
  BY <1>3
<1>5. \A i \in 1 .. N : g[i - 1] \in S
  OBVIOUS
<1> QED BY <1>4, <1>5 DEF Loops

\* What a loop keeps is kept to its end.
LEMMA StaysIn ==
    ASSUME NEW N \in Nat, NEW S, NEW v, v[0] \in S,
           \A i \in 1 .. N : v[i - 1] \in S => v[i] \in S
    PROVE  \A i \in 0 .. N : v[i] \in S
<1> DEFINE T == {i \in 0 .. N : v[i] \in S}
<1>1. 0 \in T
  OBVIOUS
<1>2. ASSUME NEW n \in 0 .. N - 1, n \in T PROVE n + 1 \in T
  <2>1. n + 1 \in 1 .. N /\ n + 1 - 1 = n
    OBVIOUS
  <2> QED BY <1>2, <2>1
<1> HIDE DEF T
<1>3. 0 .. N \subseteq T
  BY <1>1, <1>2, InductionOn
<1> QED BY <1>3 DEF T

\* A function on 1 .. n is a sequence of length n.
LEMMA FunctionIsSeq ==
    ASSUME NEW n \in Nat, NEW f, f = [i \in 1 .. n |-> f[i]]
    PROVE  f \in Seq({f[i] : i \in 1 .. n}) /\ Len(f) = n /\ DOMAIN f = 1 .. n
<1>1. f \in [1 .. n -> {f[i] : i \in 1 .. n}]
  OBVIOUS
<1> QED BY <1>1

\* The elements of one sequence after those of another.
LEMMA ConcatFacts ==
    ASSUME NEW V, NEW x \in Seq(V), NEW y \in Seq(V)
    PROVE  /\ x \o y \in Seq(V) /\ Len(x \o y) = Len(x) + Len(y)
           /\ Len(x) \in Nat /\ Len(y) \in Nat
           /\ \A j \in 1 .. Len(x) : (x \o y)[j] = x[j]
           /\ \A j \in 1 .. Len(y) : (x \o y)[Len(x) + j] = y[j]
OBVIOUS

-----------------------------------------------------------------------------
(***************************************************************************)
(* The functions that TrustedList defines by recursion                     *)
(***************************************************************************)
LEMMA CapacityFacts ==
    /\ capacity \in [0 .. TREE_DEPTH -> Nat \ {0}]
    /\ capacity[0] = 1
    /\ \A level \in 1 .. TREE_DEPTH : capacity[level] = 2 * capacity[level - 1]
<1> DEFINE S == Nat \ {0}
           D == TREE_DEPTH
           next == [i \in 1 .. D |-> [x \in S |-> 2 * x]]
<1>0. D \in Nat /\ 1 \in S /\ \A x \in S : 2 * x \in S
  BY ListAssumption
<1>1. PICK g : Loops(g, D, S, 1, next)
  <2>1. next \in Steps(D, S)
    BY <1>0 DEF Steps
  <2> HIDE DEF next, S, D
  <2> QED BY <1>0, <2>1, Iterates
<1> HIDE DEF D
<1>2. g = [i \in 0 .. D |-> IF i = 0 THEN 1 ELSE 2 * g[i - 1]]
  <2>1. \A i \in 1 .. D : g[i] = 2 * g[i - 1]
    BY <1>1 DEF Loops
  <2> QED BY <1>0, <1>1, <2>1 DEF Loops
<1>4. capacity = [i \in 0 .. D |-> IF i = 0 THEN 1 ELSE 2 * capacity[i - 1]]
  BY <1>2 DEF capacity, D
<1>5. capacity[0] = 1 /\ \A i \in 1 .. D : capacity[i] = 2 * capacity[i - 1]
  BY <1>0, <1>4
<1>6. \A i \in 0 .. D : capacity[i] \in S
  <2> HIDE DEF S
  <2> QED BY <1>0, <1>5, StaysIn
<1> QED BY <1>4, <1>5, <1>6 DEF D

\* The index of a node is half that of its child.
LEMMA IndexFacts ==
    ASSUME NEW index \in Nat
    PROVE  /\ IndexAt(index) \in [0 .. TREE_DEPTH -> Nat]
           /\ IndexAt(index)[0] = index
           /\ \A level \in 1 .. TREE_DEPTH :
                 IndexAt(index)[level] = IndexAt(index)[level - 1] \div 2
<1> DEFINE D == TREE_DEPTH
           next == [i \in 1 .. D |-> [x \in Nat |-> x \div 2]]
           v == IndexAt(index)
<1>0. D \in Nat /\ \A x \in Nat : x \div 2 \in Nat
  BY ListAssumption
<1>1. PICK g : Loops(g, D, Nat, index, next)
  <2>1. next \in Steps(D, Nat)
    BY <1>0 DEF Steps
  <2> HIDE DEF next, D
  <2> QED BY <1>0, <2>1, Iterates
<1> HIDE DEF D
<1>2. g = [i \in 0 .. D |-> IF i = 0 THEN index ELSE g[i - 1] \div 2]
  <2>1. \A i \in 1 .. D : g[i] = g[i - 1] \div 2
    BY <1>1 DEF Loops
  <2> QED BY <1>0, <1>1, <2>1 DEF Loops
<1>3. v = [i \in 0 .. D |-> IF i = 0 THEN index ELSE v[i - 1] \div 2]
  BY <1>2 DEF IndexAt, D
<1> HIDE DEF v
<1>4. v[0] = index /\ \A i \in 1 .. D : v[i] = v[i - 1] \div 2
  BY <1>0, <1>3
<1>5. \A i \in 0 .. D : v[i] \in Nat
  BY <1>0, <1>4, StaysIn
<1> QED BY <1>3, <1>4, <1>5 DEF D, v

\* The value of bytes, from the first to the last.
LEMMA PackedValue ==
    ASSUME NEW bytes \in Seq(0 .. BYTE - 1)
    PROVE  \E v \in [0 .. Len(bytes) -> Nat] :
              /\ v[0] = 0
              /\ \A i \in 1 .. Len(bytes) : v[i] = BYTE * v[i - 1] + bytes[i]
              /\ Packed(bytes) = v[Len(bytes)]
<1> DEFINE N == Len(bytes)
           next == [i \in 1 .. N |-> [x \in Nat |-> BYTE * x + bytes[i]]]
           v == CHOOSE v : v = [i \in 0 .. N |-> IF i = 0 THEN 0 ELSE BYTE * v[i - 1] + bytes[i]]
<1>0. N \in Nat /\ \A i \in 1 .. N, x \in Nat : BYTE * x + bytes[i] \in Nat
  <2>1. N \in Nat /\ BYTE \in Nat /\ \A i \in 1 .. N : bytes[i] \in 0 .. BYTE - 1
    BY ListAssumption
  <2> QED BY <2>1
<1>1. PICK g : Loops(g, N, Nat, 0, next)
  <2>1. next \in Steps(N, Nat)
    BY <1>0 DEF Steps
  <2> HIDE DEF next, N
  <2> QED BY <1>0, <2>1, Iterates
<1>2. g = [i \in 0 .. N |-> IF i = 0 THEN 0 ELSE BYTE * g[i - 1] + bytes[i]]
  <2>1. \A i \in 1 .. N : g[i] = BYTE * g[i - 1] + bytes[i]
    BY <1>1 DEF Loops
  <2> QED BY <1>0, <1>1, <2>1 DEF Loops
<1>3. Packed(bytes) = v[N]
  BY DEF Packed
<1> HIDE DEF N
<1>4. v = [i \in 0 .. N |-> IF i = 0 THEN 0 ELSE BYTE * v[i - 1] + bytes[i]]
  BY <1>2
<1> HIDE DEF v
<1>5. v[0] = 0 /\ \A i \in 1 .. N : v[i] = BYTE * v[i - 1] + bytes[i]
  <2>1. 0 \in 0 .. N /\ \A i \in 1 .. N : i \in 0 .. N /\ i # 0
    BY <1>0
  <2> QED BY <1>4, <2>1, Zenon
<1>6. \A i \in 0 .. N : v[i] \in Nat
  <2>1. ASSUME NEW i \in 1 .. N, v[i - 1] \in Nat PROVE v[i] \in Nat
    <3>1. BYTE * v[i - 1] + bytes[i] \in Nat
      BY <1>0, <2>1, Zenon
    <3> QED BY <1>5, <3>1, Zenon
  <2>2. v[0] \in Nat
    BY <1>5
  <2> QED BY <1>0, <2>1, <2>2, StaysIn
<1>7. v \in [0 .. N -> Nat]
  BY <1>4, <1>6
<1> QED BY <1>3, <1>5, <1>7 DEF N

\* The next three have field elements for states, which are in no set: a
\* longer function is made of a shorter one.
Longer(g, n, x) == [i \in 0 .. n + 1 |-> IF i <= n THEN g[i] ELSE x]

LEMMA LongerFacts ==
    ASSUME NEW n \in Nat, NEW g, NEW x
    PROVE  /\ Longer(g, n, x)[0] = g[0]
           /\ Longer(g, n, x)[n + 1] = x
           /\ \A i \in 1 .. n : /\ Longer(g, n, x)[i] = g[i]
                                /\ Longer(g, n, x)[i - 1] = g[i - 1]
           /\ Longer(g, n, x)[n] = g[n]
BY DEF Longer

LEMMA ZeroHashesFacts ==
    /\ zeroHashes[0] = Num(0)
    /\ \A level \in 1 .. TREE_DEPTH :
          zeroHashes[level] = Poseidon(<<zeroHashes[level - 1], zeroHashes[level - 1]>>)
<1> DEFINE D == TREE_DEPTH
           P(g, n) == /\ g[0] = Num(0)
                      /\ \A i \in 1 .. n : g[i] = Poseidon(<<g[i - 1], g[i - 1]>>)
           T == {n \in 0 .. D : \E g : P(g, n)}
<1>0. D \in Nat
  BY ListAssumption
<1> HIDE DEF D
<1>1. 0 \in T
  <2>1. P([i \in 0 .. 0 |-> Num(0)], 0)
    OBVIOUS
  <2> HIDE DEF P
  <2> QED BY <1>0, <2>1
<1>2. ASSUME NEW n \in 0 .. D - 1, n \in T PROVE n + 1 \in T
  <2>1. PICK g : P(g, n)
    BY <1>2
  <2> DEFINE h == Longer(g, n, Poseidon(<<g[n], g[n]>>))
  <2>2. P(h, n + 1)
    <3>1. h[0] = Num(0) /\ h[n + 1] = Poseidon(<<h[n], h[n]>>)
      BY <2>1, LongerFacts
    <3>2. ASSUME NEW i \in 1 .. n PROVE h[i] = Poseidon(<<h[i - 1], h[i - 1]>>)
      BY <2>1, LongerFacts
    <3> HIDE DEF h
    <3> QED BY <1>0, <3>1, <3>2
  <2>3. n + 1 \in 0 .. D
    BY <1>0
  <2> HIDE DEF P, h
  <2> QED BY <2>2, <2>3
<1>3. D \in T
  <2> HIDE DEF T
  <2>1. 0 .. D \subseteq T
    BY <1>0, <1>1, <1>2, InductionOn
  <2> QED BY <1>0, <2>1
<1>4. PICK g : P(g, D)
  BY <1>3
<1> DEFINE f == [i \in 0 .. D |-> g[i]]
<1>5. f = [i \in 0 .. D |-> IF i = 0 THEN Num(0) ELSE Poseidon(<<f[i - 1], f[i - 1]>>)]
  BY <1>0, <1>4
<1> HIDE DEF f
<1>6. zeroHashes = [i \in 0 .. D |-> IF i = 0 THEN Num(0)
                                     ELSE Poseidon(<<zeroHashes[i - 1], zeroHashes[i - 1]>>)]
  BY <1>5 DEF zeroHashes, D
<1>7. 0 \in 0 .. D /\ \A i \in 1 .. D : i \in 0 .. D /\ i # 0
  BY <1>0
<1>8. zeroHashes[0] = Num(0)
  BY <1>6, <1>7, Zenon
<1>9. \A i \in 1 .. D : zeroHashes[i] = Poseidon(<<zeroHashes[i - 1], zeroHashes[i - 1]>>)
  BY <1>6, <1>7, Zenon
<1> QED BY <1>8, <1>9 DEF D

\* The node over two children, and their zeros.
LEMMA AboveFacts ==
    ASSUME NEW S, NEW cur \in Seq(S), NEW zero
    PROVE  /\ \E V : Above(cur, zero) \in Seq(V)
           /\ Len(Above(cur, zero)) = (Len(cur) + 1) \div 2
           /\ \A i \in Nat :
                 Node(Above(cur, zero), Poseidon(<<zero, zero>>), i)
                 = Poseidon(<<Node(cur, zero, 2 * i), Node(cur, zero, 2 * i + 1)>>)
<1> DEFINE n == (Len(cur) + 1) \div 2
           over == Above(cur, zero)
           zz == Poseidon(<<zero, zero>>)
<1>1. n \in Nat /\ Len(cur) \in Nat /\ Len(cur) <= 2 * n /\ 2 * n <= Len(cur) + 1
  OBVIOUS
<1>2. over = [i \in 1 .. n |-> over[i]]
  BY DEF Above
<1>3. over \in Seq({over[i] : i \in 1 .. n}) /\ Len(over) = n
  <2> HIDE DEF over, n
  <2> QED BY <1>1, <1>2, FunctionIsSeq
<1>4. ASSUME NEW i \in Nat, i < n
      PROVE  Node(over, zz, i) = Poseidon(<<Node(cur, zero, 2 * i), Node(cur, zero, 2 * i + 1)>>)
  <2>1. Node(over, zz, i) = over[i + 1]
    <3> HIDE DEF over, n
    <3> QED BY <1>3, <1>4 DEF Node
  <2>2. over[i + 1] = Poseidon(<<cur[2 * (i + 1) - 1],
                                 IF 2 * (i + 1) <= Len(cur) THEN cur[2 * (i + 1)] ELSE zero>>)
    <3>1. i + 1 \in 1 .. n
      BY <1>1, <1>4
    <3> HIDE DEF n
    <3> QED BY <3>1 DEF Above, n
  <2>3. Node(cur, zero, 2 * i) = cur[2 * (i + 1) - 1]
    BY <1>1, <1>4 DEF Node
  <2>4. Node(cur, zero, 2 * i + 1)
        = IF 2 * (i + 1) <= Len(cur) THEN cur[2 * (i + 1)] ELSE zero
    BY <1>1 DEF Node
  <2> QED BY <2>1, <2>2, <2>3, <2>4
<1>5. ASSUME NEW i \in Nat, ~(i < n)
      PROVE  Node(over, zz, i) = Poseidon(<<Node(cur, zero, 2 * i), Node(cur, zero, 2 * i + 1)>>)
  <2>1. Node(over, zz, i) = zz
    <3> HIDE DEF over, n
    <3> QED BY <1>3, <1>5 DEF Node
  <2>2. Node(cur, zero, 2 * i) = zero /\ Node(cur, zero, 2 * i + 1) = zero
    BY <1>1, <1>5 DEF Node
  <2> QED BY <2>1, <2>2
<1> QED BY <1>3, <1>4, <1>5

LEMMA LayersFacts ==
    ASSUME NEW leaves
    PROVE  /\ Layers(leaves)[0] = leaves
           /\ \A level \in 1 .. TREE_DEPTH :
                 Layers(leaves)[level] = Above(Layers(leaves)[level - 1], zeroHashes[level - 1])
<1> DEFINE D == TREE_DEPTH
           P(g, n) == /\ g[0] = leaves
                      /\ \A i \in 1 .. n : g[i] = Above(g[i - 1], zeroHashes[i - 1])
           T == {n \in 0 .. D : \E g : P(g, n)}
           v == Layers(leaves)
<1>0. D \in Nat
  BY ListAssumption
<1> HIDE DEF D
<1>1. 0 \in T
  <2>1. P([i \in 0 .. 0 |-> leaves], 0)
    OBVIOUS
  <2> HIDE DEF P
  <2> QED BY <1>0, <2>1
<1>2. ASSUME NEW n \in 0 .. D - 1, n \in T PROVE n + 1 \in T
  <2>1. PICK g : P(g, n)
    BY <1>2
  <2> DEFINE h == Longer(g, n, Above(g[n], zeroHashes[n]))
  <2>2. P(h, n + 1)
    <3>1. h[0] = leaves /\ h[n + 1] = Above(h[n], zeroHashes[n])
      BY <2>1, LongerFacts
    <3>2. ASSUME NEW i \in 1 .. n PROVE h[i] = Above(h[i - 1], zeroHashes[i - 1])
      BY <2>1, LongerFacts
    <3> HIDE DEF h
    <3>3. ASSUME NEW i \in 1 .. n + 1 PROVE h[i] = Above(h[i - 1], zeroHashes[i - 1])
      <4>1. CASE i \in 1 .. n
        BY <3>2, <4>1
      <4>2. CASE i = n + 1
        <5>1. i - 1 = n
          BY <1>0, <4>2
        <5> QED BY <3>1, <4>2, <5>1
      <4> QED BY <1>0, <4>1, <4>2
    <3> QED BY <3>1, <3>3
  <2>3. n + 1 \in 0 .. D
    BY <1>0
  <2> HIDE DEF P, h
  <2> QED BY <2>2, <2>3
<1>3. D \in T
  <2> HIDE DEF T
  <2>1. 0 .. D \subseteq T
    BY <1>0, <1>1, <1>2, InductionOn
  <2> QED BY <1>0, <2>1
<1>4. PICK g : P(g, D)
  BY <1>3
<1> DEFINE f == [i \in 0 .. D |-> g[i]]
<1>7. 0 \in 0 .. D /\ \A i \in 0 .. D : i # 0 => i \in 1 .. D /\ i - 1 \in 0 .. D
  BY <1>0
<1>8. \A i \in 1 .. D : i \in 0 .. D /\ i # 0
  BY <1>0
<1>5. f = [i \in 0 .. D |-> IF i = 0 THEN leaves ELSE Above(f[i - 1], zeroHashes[i - 1])]
  BY <1>4, <1>7, Zenon
<1> HIDE DEF f
<1>6. v = [i \in 0 .. D |-> IF i = 0 THEN leaves ELSE Above(v[i - 1], zeroHashes[i - 1])]
  BY <1>5 DEF Layers, D
<1> HIDE DEF v
<1>9. v[0] = leaves
  BY <1>6, <1>7, Zenon
<1>10. \A i \in 1 .. D : v[i] = Above(v[i - 1], zeroHashes[i - 1])
  BY <1>6, <1>8, Zenon
<1> QED BY <1>9, <1>10 DEF D, v

\* The nodes that the contract computes, from the leaf to the root it compares.
Joined(p, i, x) ==
    IF p.bits[i - 1] = 0 THEN Poseidon(<<x, p.path[i - 1]>>) ELSE Poseidon(<<p.path[i - 1], x>>)

Climbs(cur, leaf, p) ==
    /\ cur[0] = leaf
    /\ \A i \in 1 .. TREE_DEPTH : cur[i] = Joined(p, i, cur[i - 1])

LEMMA ClimbFacts ==
    ASSUME NEW leaf, NEW p
    PROVE  \E cur : /\ Climbs(cur, leaf, p)
                    /\ \A root : verify(leaf, p, root) <=> cur[TREE_DEPTH] = root
<1> DEFINE D == TREE_DEPTH
           P(g, n) == /\ g[0] = leaf
                      /\ \A i \in 1 .. n : g[i] = Joined(p, i, g[i - 1])
           T == {n \in 0 .. D : \E g : P(g, n)}
           v == CHOOSE v : v = [i \in 0 .. D |->
                    IF i = 0 THEN leaf
                    ELSE IF p.bits[i - 1] = 0
                         THEN Poseidon(<<v[i - 1], p.path[i - 1]>>)
                         ELSE Poseidon(<<p.path[i - 1], v[i - 1]>>)]
<1>0. D \in Nat
  BY ListAssumption
<1>v. \A root : verify(leaf, p, root) <=> v[D] = root
  BY DEF verify
<1> HIDE DEF D
<1>1. 0 \in T
  <2>1. P([i \in 0 .. 0 |-> leaf], 0)
    OBVIOUS
  <2> HIDE DEF P
  <2> QED BY <1>0, <2>1
<1>2. ASSUME NEW n \in 0 .. D - 1, n \in T PROVE n + 1 \in T
  <2>1. PICK g : P(g, n)
    BY <1>2
  <2> DEFINE h == Longer(g, n, Joined(p, n + 1, g[n]))
  <2>2. P(h, n + 1)
    <3>1. h[0] = leaf /\ h[n + 1] = Joined(p, n + 1, h[n])
      BY <2>1, LongerFacts
    <3>2. ASSUME NEW i \in 1 .. n PROVE h[i] = Joined(p, i, h[i - 1])
      BY <2>1, LongerFacts
    <3> HIDE DEF h
    <3>3. ASSUME NEW i \in 1 .. n + 1 PROVE h[i] = Joined(p, i, h[i - 1])
      <4>1. CASE i \in 1 .. n
        BY <3>2, <4>1
      <4>2. CASE i = n + 1
        <5>1. i - 1 = n
          BY <1>0, <4>2
        <5> QED BY <3>1, <4>2, <5>1
      <4> QED BY <1>0, <4>1, <4>2
    <3> QED BY <3>1, <3>3
  <2>3. n + 1 \in 0 .. D
    BY <1>0
  <2> HIDE DEF P, h
  <2> QED BY <2>2, <2>3
<1>3. D \in T
  <2> HIDE DEF T
  <2>1. 0 .. D \subseteq T
    BY <1>0, <1>1, <1>2, InductionOn
  <2> QED BY <1>0, <2>1
<1>4. PICK g : P(g, D)
  BY <1>3
<1> DEFINE f == [i \in 0 .. D |-> g[i]]
<1>7. 0 \in 0 .. D /\ \A i \in 0 .. D : i # 0 => i \in 1 .. D /\ i - 1 \in 0 .. D
  BY <1>0
<1>8. \A i \in 1 .. D : i \in 0 .. D /\ i # 0
  BY <1>0
<1>5. f = [i \in 0 .. D |->
              IF i = 0 THEN leaf
              ELSE IF p.bits[i - 1] = 0
                   THEN Poseidon(<<f[i - 1], p.path[i - 1]>>)
                   ELSE Poseidon(<<p.path[i - 1], f[i - 1]>>)]
  <2>1. \A i \in 0 .. D : i # 0 =>
           g[i] = IF p.bits[i - 1] = 0 THEN Poseidon(<<f[i - 1], p.path[i - 1]>>)
                                       ELSE Poseidon(<<p.path[i - 1], f[i - 1]>>)
    BY <1>4, <1>7, Zenon DEF Joined
  <2> QED BY <1>4, <2>1, Zenon
<1> HIDE DEF f
<1>6. v = [i \in 0 .. D |->
              IF i = 0 THEN leaf
              ELSE IF p.bits[i - 1] = 0
                   THEN Poseidon(<<v[i - 1], p.path[i - 1]>>)
                   ELSE Poseidon(<<p.path[i - 1], v[i - 1]>>)]
  BY <1>5
<1> HIDE DEF v
<1>9. v[0] = leaf
  BY <1>6, <1>7, Zenon
<1>10. \A i \in 1 .. D : v[i] = Joined(p, i, v[i - 1])
  BY <1>6, <1>8, Zenon DEF Joined
<1> QED BY <1>v, <1>9, <1>10 DEF D, Climbs

\* The states of the sponge, one for each window of the elements.
Windows(fe) == (Len(fe) + RATE - 1) \div RATE

Absorbs(state, fe) ==
    /\ state[0] = Num(0)
    /\ \A r \in 1 .. Windows(fe) : state[r] = Poseidon(<<state[r - 1]>> \o Window(fe, r))

LEMMA SpongeFacts ==
    ASSUME NEW spki, Windows(Chunks(spki)) \in Nat
    PROVE  \E state : /\ Absorbs(state, Chunks(spki))
                      /\ poseidonChunkHashVarT7(spki) = state[Windows(Chunks(spki))]
<1> DEFINE fe == Chunks(spki)
           D == Windows(fe)
           Next(i, x) == Poseidon(<<x>> \o Window(fe, i))
           P(g, n) == /\ g[0] = Num(0)
                      /\ \A i \in 1 .. n : g[i] = Next(i, g[i - 1])
           T == {n \in 0 .. D : \E g : P(g, n)}
           v == CHOOSE v : v = [i \in 0 .. D |->
                    IF i = 0 THEN Num(0) ELSE Poseidon(<<v[i - 1]>> \o Window(fe, i))]
<1>0. D \in Nat
  OBVIOUS
<1>v. poseidonChunkHashVarT7(spki) = v[D]
  BY DEF poseidonChunkHashVarT7, Windows
<1> HIDE DEF D
<1> HIDE DEF Next
<1>1. 0 \in T
  <2>1. P([i \in 0 .. 0 |-> Num(0)], 0)
    OBVIOUS
  <2> HIDE DEF P
  <2> QED BY <1>0, <2>1
<1>2. ASSUME NEW n \in 0 .. D - 1, n \in T PROVE n + 1 \in T
  <2>1. PICK g : P(g, n)
    BY <1>2
  <2> DEFINE h == Longer(g, n, Next(n + 1, g[n]))
  <2>2. P(h, n + 1)
    <3>1. h[0] = Num(0) /\ h[n + 1] = Next(n + 1, h[n])
      BY <2>1, LongerFacts
    <3>2. ASSUME NEW i \in 1 .. n PROVE h[i] = Next(i, h[i - 1])
      BY <2>1, LongerFacts
    <3> HIDE DEF h
    <3>3. ASSUME NEW i \in 1 .. n + 1 PROVE h[i] = Next(i, h[i - 1])
      <4>1. CASE i \in 1 .. n
        BY <3>2, <4>1
      <4>2. CASE i = n + 1
        <5>1. i - 1 = n
          BY <1>0, <4>2
        <5> QED BY <3>1, <4>2, <5>1
      <4> QED BY <1>0, <4>1, <4>2
    <3> QED BY <3>1, <3>3
  <2>3. n + 1 \in 0 .. D
    BY <1>0
  <2> HIDE DEF P, h
  <2> QED BY <2>2, <2>3
<1>3. D \in T
  <2> HIDE DEF T
  <2>1. 0 .. D \subseteq T
    BY <1>0, <1>1, <1>2, InductionOn
  <2> QED BY <1>0, <2>1
<1>4. PICK g : P(g, D)
  BY <1>3
<1> DEFINE f == [i \in 0 .. D |-> g[i]]
<1>7. 0 \in 0 .. D /\ \A i \in 0 .. D : i # 0 => i \in 1 .. D /\ i - 1 \in 0 .. D
  BY <1>0
<1>8. \A i \in 1 .. D : i \in 0 .. D /\ i # 0
  BY <1>0
<1>5. f = [i \in 0 .. D |-> IF i = 0 THEN Num(0) ELSE Next(i, f[i - 1])]
  BY <1>4, <1>7, Zenon
<1> HIDE DEF f
<1>6. v = [i \in 0 .. D |-> IF i = 0 THEN Num(0) ELSE Next(i, v[i - 1])]
  BY <1>5 DEF Next
<1> HIDE DEF v
<1>9. v[0] = Num(0)
  BY <1>6, <1>7, Zenon
<1>10. \A i \in 1 .. D : v[i] = Next(i, v[i - 1])
  BY <1>6, <1>8, Zenon
<1> QED BY <1>v, <1>9, <1>10 DEF D, Absorbs, Next

\* Array.filter keeps the elements that are in the set, and no others.
LEMMA FilteredFacts ==
    ASSUME NEW S, NEW services \in Seq(S), NEW set
    PROVE  /\ Filtered(services, set) \in Seq(S)
           /\ Given(Filtered(services, set)) = Given(services) \cap set
<1> DEFINE N == Len(services)
           Q == Seq(S)
           next == [i \in 1 .. N |->
                       [x \in Q |-> IF services[i] \in set THEN Append(x, services[i]) ELSE x]]
           v == CHOOSE v : v = [i \in 0 .. N |->
                    IF i = 0 THEN <<>>
                    ELSE IF services[i] \in set THEN Append(v[i - 1], services[i]) ELSE v[i - 1]]
           First(i) == {services[j] : j \in 1 .. i} \cap set
<1>0. N \in Nat /\ <<>> \in Q /\ \A i \in 1 .. N : services[i] \in S
  OBVIOUS
<1>1. PICK g : Loops(g, N, Q, <<>>, next)
  <2>1. next \in Steps(N, Q)
    <3>1. \A i \in 1 .. N, x \in Q : Append(x, services[i]) \in Q
      BY <1>0
    <3> HIDE DEF N, Q
    <3> QED BY <3>1 DEF Steps
  <2> HIDE DEF next, N, Q
  <2> QED BY <1>0, <2>1, Iterates
<1>v. Filtered(services, set) = v[N]
  BY DEF Filtered
<1> HIDE DEF Q
<1>2. g = [i \in 0 .. N |->
              IF i = 0 THEN <<>>
              ELSE IF services[i] \in set THEN Append(g[i - 1], services[i]) ELSE g[i - 1]]
  <2>1. \A i \in 1 .. N : g[i] = IF services[i] \in set THEN Append(g[i - 1], services[i])
                                                        ELSE g[i - 1]
    BY <1>1 DEF Loops
  <2>2. \A i \in 0 .. N : i # 0 => i \in 1 .. N
    BY <1>0
  <2>3. g = [i \in 0 .. N |-> g[i]] /\ g[0] = <<>>
    BY <1>1 DEF Loops
  <2> HIDE DEF N
  <2> QED BY <2>1, <2>2, <2>3, Zenon
<1> HIDE DEF N
<1>3. v = [i \in 0 .. N |->
              IF i = 0 THEN <<>>
              ELSE IF services[i] \in set THEN Append(v[i - 1], services[i]) ELSE v[i - 1]]
  BY <1>2
<1> HIDE DEF v
<1>4. 0 \in 0 .. N /\ \A i \in 1 .. N : i \in 0 .. N /\ i # 0
  BY <1>0
<1>5. v[0] = <<>>
  BY <1>3, <1>4, Zenon
<1>6. \A i \in 1 .. N : v[i] = IF services[i] \in set THEN Append(v[i - 1], services[i])
                                                      ELSE v[i - 1]
  BY <1>3, <1>4, Zenon
<1>7. \A i \in 0 .. N : v[i] \in Q /\ Given(v[i]) = First(i)
  <2> DEFINE G == {i \in 0 .. N : v[i] \in Q /\ Given(v[i]) = First(i)}
  <2>1. 0 \in G
    <3>1. Given(<<>>) = {} /\ First(0) = {}
      BY DEF Given
    <3>2. 0 \in 0 .. N /\ <<>> \in Q
      BY <1>0
    <3> HIDE DEF First
    <3> QED BY <1>5, <3>1, <3>2, Zenon
  <2>2. ASSUME NEW n \in 0 .. N - 1, n \in G PROVE n + 1 \in G
    <3>1. n + 1 \in 1 .. N /\ n + 1 \in 0 .. N /\ n + 1 - 1 = n /\ services[n + 1] \in S
      BY <1>0
    <3>2. v[n] \in Q /\ Given(v[n]) = First(n)
      BY <2>2
    <3>3. v[n + 1] = IF services[n + 1] \in set THEN Append(v[n], services[n + 1]) ELSE v[n]
      BY <1>6, <3>1
    <3>4. First(n + 1) = IF services[n + 1] \in set THEN First(n) \cup {services[n + 1]} ELSE First(n)
      <4>1. \A j : j \in 1 .. n + 1 <=> j \in 1 .. n \/ j = n + 1
        BY <1>0
      <4>2. {services[j] : j \in 1 .. n + 1} = {services[j] : j \in 1 .. n} \cup {services[n + 1]}
        BY <4>1, Zenon
      <4> QED BY <4>2
    <3>5. ASSUME NEW x \in Q, NEW e \in S
          PROVE  Append(x, e) \in Q /\ Given(Append(x, e)) = Given(x) \cup {e}
      <4>1. Append(x, e) \in Q /\ Len(Append(x, e)) = Len(x) + 1 /\ Len(x) \in Nat
            /\ Append(x, e)[Len(x) + 1] = e /\ \A j \in 1 .. Len(x) : Append(x, e)[j] = x[j]
        BY DEF Q
      <4>2. DOMAIN x = 1 .. Len(x) /\ DOMAIN Append(x, e) = 1 .. Len(x) + 1
        BY <4>1 DEF Q
      <4>3. \A j : j \in 1 .. Len(x) + 1 <=> j \in 1 .. Len(x) \/ j = Len(x) + 1
        BY <4>1
      <4> QED BY <4>1, <4>2, <4>3, Zenon DEF Given
    <3> HIDE DEF First
    <3>6. CASE services[n + 1] \in set
      <4>1. v[n + 1] = Append(v[n], services[n + 1]) /\ First(n + 1) = First(n) \cup {services[n + 1]}
        BY <3>3, <3>4, <3>6
      <4>2. Append(v[n], services[n + 1]) \in Q
            /\ Given(Append(v[n], services[n + 1])) = Given(v[n]) \cup {services[n + 1]}
        BY <3>1, <3>2, <3>5, Zenon
      <4> QED BY <3>1, <3>2, <4>1, <4>2, Zenon
    <3>7. CASE services[n + 1] \notin set
      BY <3>1, <3>2, <3>3, <3>4, <3>7, Zenon
    <3> QED BY <3>6, <3>7
  <2> HIDE DEF G
  <2>3. 0 .. N \subseteq G
    BY <1>0, <2>1, <2>2, InductionOn
  <2> QED BY <2>3 DEF G
<1>8. First(N) = Given(services) \cap set
  <2>1. DOMAIN services = 1 .. N
    BY DEF N
  <2> QED BY <2>1 DEF Given
<1>9. v[N] \in Q /\ Given(v[N]) = First(N)
  BY <1>0, <1>7
<1> QED BY <1>v, <1>8, <1>9 DEF Q

\* The certificates of the services, all of them and no others.
LEMMA ExtractFacts ==
    ASSUME NEW X, NEW services \in Seq(X), NEW S,
           \A i \in 1 .. Len(services) : services[i].certs \in Seq(S)
    PROVE  /\ extractCAs(services) \in Seq(S)
           /\ \A x : x \in Given(extractCAs(services))
                     <=> \E i \in DOMAIN services : x \in Given(services[i].certs)
<1> DEFINE N == Len(services)
           Q == Seq(S)
           next == [i \in 1 .. N |-> [x \in Q |-> x \o services[i].certs]]
           v == CHOOSE v : v = [i \in 0 .. N |->
                    IF i = 0 THEN <<>> ELSE v[i - 1] \o services[i].certs]
<1>0. N \in Nat /\ <<>> \in Q /\ \A i \in 1 .. N : services[i].certs \in Q
  OBVIOUS
<1>c. ASSUME NEW x \in Q, NEW y \in Q
      PROVE  x \o y \in Q /\ Given(x \o y) = Given(x) \cup Given(y)
  <2>1. /\ x \o y \in Seq(S) /\ Len(x \o y) = Len(x) + Len(y) /\ Len(x) \in Nat /\ Len(y) \in Nat
        /\ \A j \in 1 .. Len(x) : (x \o y)[j] = x[j]
        /\ \A j \in 1 .. Len(y) : (x \o y)[Len(x) + j] = y[j]
    BY ConcatFacts
  <2>2. DOMAIN x = 1 .. Len(x) /\ DOMAIN y = 1 .. Len(y) /\ DOMAIN (x \o y) = 1 .. Len(x) + Len(y)
    BY <2>1
  <2>3. \A j : j \in 1 .. Len(x) + Len(y)
               <=> j \in 1 .. Len(x) \/ \E k \in 1 .. Len(y) : j = Len(x) + k
    <3>1. ASSUME NEW j \in 1 .. Len(x) + Len(y), j \notin 1 .. Len(x)
          PROVE  j - Len(x) \in 1 .. Len(y) /\ j = Len(x) + (j - Len(x))
      BY <2>1, <3>1
    <3>2. ASSUME NEW k \in 1 .. Len(y) PROVE Len(x) + k \in 1 .. Len(x) + Len(y)
      BY <2>1
    <3>3. ASSUME NEW j \in 1 .. Len(x) PROVE j \in 1 .. Len(x) + Len(y)
      BY <2>1
    <3> QED BY <3>1, <3>2, <3>3, Zenon
  <2>4. \A e : e \in Given(x \o y) <=> e \in Given(x) \/ e \in Given(y)
    <3>1. ASSUME NEW e, e \in Given(x \o y) PROVE e \in Given(x) \/ e \in Given(y)
      <4>1. PICK j \in 1 .. Len(x) + Len(y) : e = (x \o y)[j]
        BY <2>2, <3>1, Zenon DEF Given
      <4>2. CASE j \in 1 .. Len(x)
        BY <2>1, <2>2, <4>1, <4>2, Zenon DEF Given
      <4>3. ASSUME NEW k \in 1 .. Len(y), j = Len(x) + k PROVE e \in Given(y)
        BY <2>1, <2>2, <4>1, <4>3, Zenon DEF Given
      <4> QED BY <2>3, <4>1, <4>2, <4>3, Zenon
    <3>2. ASSUME NEW e, e \in Given(x) PROVE e \in Given(x \o y)
      BY <2>1, <2>2, <2>3, <3>2, Zenon DEF Given
    <3>3. ASSUME NEW e, e \in Given(y) PROVE e \in Given(x \o y)
      BY <2>1, <2>2, <2>3, <3>3, Zenon DEF Given
    <3> QED BY <3>1, <3>2, <3>3
  <2> QED BY <2>1, <2>4
<1>1. PICK g : Loops(g, N, Q, <<>>, next)
  <2>1. next \in Steps(N, Q)
    <3>1. \A i \in 1 .. N, x \in Q : x \o services[i].certs \in Q
      BY <1>0, <1>c, Zenon
    <3> HIDE DEF N, Q
    <3> QED BY <3>1 DEF Steps
  <2> HIDE DEF next, N, Q
  <2> QED BY <1>0, <2>1, Iterates
<1>v. extractCAs(services) = v[N]
  BY DEF extractCAs
<1> HIDE DEF Q
<1>2. g = [i \in 0 .. N |-> IF i = 0 THEN <<>> ELSE g[i - 1] \o services[i].certs]
  <2>1. \A i \in 1 .. N : g[i] = g[i - 1] \o services[i].certs
    BY <1>1 DEF Loops
  <2>2. \A i \in 0 .. N : i # 0 => i \in 1 .. N
    BY <1>0
  <2>3. g = [i \in 0 .. N |-> g[i]] /\ g[0] = <<>>
    BY <1>1 DEF Loops
  <2> HIDE DEF N
  <2> QED BY <2>1, <2>2, <2>3, Zenon
<1> HIDE DEF N
<1>3. v = [i \in 0 .. N |-> IF i = 0 THEN <<>> ELSE v[i - 1] \o services[i].certs]
  BY <1>2
<1> HIDE DEF v
<1>4. 0 \in 0 .. N /\ \A i \in 1 .. N : i \in 0 .. N /\ i # 0
  BY <1>0
<1>5. v[0] = <<>>
  BY <1>3, <1>4, Zenon
<1>6. \A i \in 1 .. N : v[i] = v[i - 1] \o services[i].certs
  BY <1>3, <1>4, Zenon
<1> DEFINE First(i) == UNION {Given(services[j].certs) : j \in 1 .. i}
           G == {i \in 0 .. N : v[i] \in Q /\ Given(v[i]) = First(i)}
<1>7. 0 .. N \subseteq G
  <2>1. 0 \in G
    <3>1. Given(<<>>) = {} /\ First(0) = {}
      BY DEF Given
    <3>2. 0 \in 0 .. N /\ <<>> \in Q
      BY <1>0
    <3> HIDE DEF First
    <3> QED BY <1>5, <3>1, <3>2, Zenon
  <2>2. ASSUME NEW n \in 0 .. N - 1, n \in G PROVE n + 1 \in G
    <3>1. n + 1 \in 1 .. N /\ n + 1 \in 0 .. N /\ n + 1 - 1 = n
      BY <1>0
    <3>2. v[n] \in Q /\ Given(v[n]) = First(n)
      BY <2>2
    <3>3. v[n + 1] = v[n] \o services[n + 1].certs /\ services[n + 1].certs \in Q
      <4> DEFINE Join(x, k) == x \o services[k].certs
      <4>1. \A i \in 1 .. N : v[i] = Join(v[i - 1], i)
        BY <1>6
      <4> HIDE DEF Join
      <4>2. v[n + 1] = Join(v[n], n + 1)
        BY <3>1, <4>1
      <4> QED BY <1>0, <3>1, <4>2, Zenon DEF Join
    <3>4. First(n + 1) = First(n) \cup Given(services[n + 1].certs)
      <4>1. \A j : j \in 1 .. n + 1 <=> j \in 1 .. n \/ j = n + 1
        BY <1>0
      <4> QED BY <4>1, Zenon
    <3> HIDE DEF First
    <3> QED BY <1>c, <3>1, <3>2, <3>3, <3>4, Zenon
  <2> HIDE DEF G
  <2> QED BY <1>0, <2>1, <2>2, InductionOn
<1>8. v[N] \in Q /\ Given(v[N]) = First(N)
  <2>1. N \in 0 .. N
    BY <1>0
  <2> HIDE DEF First
  <2> QED BY <1>7, <2>1, Zenon
<1>9. DOMAIN services = 1 .. N
  BY DEF N
<1>10. \A x : x \in First(N) <=> \E i \in DOMAIN services : x \in Given(services[i].certs)
  BY <1>9, Zenon
<1> HIDE DEF First
<1> QED BY <1>v, <1>8, <1>10, Zenon DEF Q

-----------------------------------------------------------------------------
(***************************************************************************)
(* The tree                                                                *)
(***************************************************************************)

\* The node at place i of a level, stored or not.
NodeAt(layers, level, i) == Node(layers[level], zeroHashes[level], i)

\* Every node of the tree is made of the two below it, down to the leaves and
\* zeros after them; its last layer holds the root.
LEMMA TreeFacts ==
    ASSUME NEW S, NEW leaves \in Seq(S)
    PROVE  /\ \A level \in 1 .. TREE_DEPTH, i \in Nat :
                 NodeAt(Layers(leaves), level, i)
                 = Poseidon(<<NodeAt(Layers(leaves), level - 1, 2 * i),
                              NodeAt(Layers(leaves), level - 1, 2 * i + 1)>>)
           /\ \A i \in Nat : NodeAt(Layers(leaves), 0, i)
                             = IF i < Len(leaves) THEN leaves[i + 1] ELSE Num(0)
           /\ Len(leaves) <= capacity[TREE_DEPTH]
              => Root(Layers(leaves)) = NodeAt(Layers(leaves), TREE_DEPTH, 0)
<1> DEFINE D == TREE_DEPTH
           L == Layers(leaves)
           T == {level \in 0 .. D : \E V : L[level] \in Seq(V)}
<1>0. D \in Nat /\ Len(leaves) \in Nat
  BY ListAssumption
<1>1. /\ L[0] = leaves
      /\ \A level \in 1 .. D : L[level] = Above(L[level - 1], zeroHashes[level - 1])
  BY LayersFacts
<1> HIDE DEF D, L
<1>2. 0 .. D \subseteq T
  <2>1. 0 \in T
    BY <1>0, <1>1
  <2>2. ASSUME NEW n \in 0 .. D - 1, n \in T PROVE n + 1 \in T
    <3>1. PICK V : L[n] \in Seq(V)
      BY <2>2
    <3>2. L[n + 1] = Above(L[n], zeroHashes[n])
      BY <1>0, <1>1
    <3>3. \E W : Above(L[n], zeroHashes[n]) \in Seq(W)
      BY <3>1, AboveFacts
    <3> QED BY <1>0, <3>2, <3>3
  <2> HIDE DEF T
  <2> QED BY <1>0, <2>1, <2>2, InductionOn
<1>3. ASSUME NEW level \in 1 .. D
      PROVE  /\ Len(L[level]) = (Len(L[level - 1]) + 1) \div 2
             /\ \A i \in Nat : NodeAt(L, level, i)
                               = Poseidon(<<NodeAt(L, level - 1, 2 * i), NodeAt(L, level - 1, 2 * i + 1)>>)
  <2>1. level - 1 \in T
    BY <1>0, <1>2
  <2>2. PICK V : L[level - 1] \in Seq(V)
    BY <2>1
  <2>3. L[level] = Above(L[level - 1], zeroHashes[level - 1])
        /\ zeroHashes[level] = Poseidon(<<zeroHashes[level - 1], zeroHashes[level - 1]>>)
    BY <1>1, ZeroHashesFacts DEF D
  <2> DEFINE cur == L[level - 1]
             zero == zeroHashes[level - 1]
  <2>4. Len(Above(cur, zero)) = (Len(cur) + 1) \div 2
    BY <2>2, AboveFacts
  <2>5. \A i \in Nat : Node(Above(cur, zero), Poseidon(<<zero, zero>>), i)
                       = Poseidon(<<Node(cur, zero, 2 * i), Node(cur, zero, 2 * i + 1)>>)
    BY <2>2, AboveFacts
  <2> QED BY <2>3, <2>4, <2>5, Zenon DEF NodeAt
<1>4. \A i \in Nat : NodeAt(L, 0, i) = IF i < Len(leaves) THEN leaves[i + 1] ELSE Num(0)
  BY <1>1, ZeroHashesFacts DEF NodeAt, Node
<1>5. ASSUME Len(leaves) <= capacity[D] PROVE Root(L) = NodeAt(L, D, 0)
  <2> DEFINE len(level) == Len(L[level])
             G == {level \in 0 .. D : len(level) \in Nat /\ len(level) <= capacity[D - level]}
  <2>1. len(0) = Len(leaves) /\ \A level \in 1 .. D : len(level) = (len(level - 1) + 1) \div 2
    BY <1>1, <1>3
  <2> HIDE DEF len
  <2>2. 0 \in G
    BY <1>0, <1>5, <2>1
  <2>3. ASSUME NEW n \in 0 .. D - 1, n \in G PROVE n + 1 \in G
    <3>1. n + 1 \in 1 .. D /\ n + 1 - 1 = n /\ n + 1 \in 0 .. D
      BY <1>0
    <3>2. len(n + 1) = (len(n) + 1) \div 2
      BY <2>1, <3>1
    <3>3. capacity[D - n] = 2 * capacity[D - (n + 1)] /\ capacity[D - (n + 1)] \in Nat
      <4>1. D - n \in 1 .. D /\ D - n - 1 = D - (n + 1) /\ D - (n + 1) \in 0 .. D
        BY <1>0
      <4> QED BY <4>1, CapacityFacts DEF D
    <3> QED BY <2>3, <3>1, <3>2, <3>3
  <2>4. 0 .. D \subseteq G
    <3> HIDE DEF G
    <3> QED BY <1>0, <2>2, <2>3, InductionOn
  <2>5. len(D) \in Nat /\ len(D) <= 1
    <3>1. D \in 0 .. D /\ D - D = 0
      BY <1>0
    <3>2. D \in G
      BY <2>4, <3>1
    <3> QED BY <3>1, <3>2, CapacityFacts
  <2>6. Root(L) = (IF len(D) = 1 THEN L[D][1] ELSE zeroHashes[D])
        /\ NodeAt(L, D, 0) = (IF 0 < len(D) THEN L[D][0 + 1] ELSE zeroHashes[D])
    BY DEF Root, NodeAt, Node, D, len
  <2> QED BY <2>5, <2>6
<1> QED BY <1>3, <1>4, <1>5 DEF D, L

\* A path whose bits are taken from the leaf to the root binds the leaf and
\* every sibling: two climbs with the same bits to the same root are one.
THEOREM PathBinds ==
    ASSUME NEW leaf, NEW other, NEW p, NEW q, NEW root,
           p.bits = q.bits, verify(leaf, p, root), verify(other, q, root)
    PROVE  leaf = other /\ \A i \in 0 .. TREE_DEPTH - 1 : p.path[i] = q.path[i]
<1> DEFINE D == TREE_DEPTH
<1>0. D \in Nat
  BY ListAssumption
<1>1. PICK a : Climbs(a, leaf, p) /\ a[D] = root
  BY ClimbFacts
<1>2. PICK b : Climbs(b, other, q) /\ b[D] = root
  BY ClimbFacts
<1>3. ASSUME NEW i \in 1 .. D, a[i] = b[i] PROVE a[i - 1] = b[i - 1] /\ p.path[i - 1] = q.path[i - 1]
  <2>1. Joined(p, i, a[i - 1]) = Joined(q, i, b[i - 1])
    BY <1>1, <1>2, <1>3 DEF Climbs
  <2> QED BY <2>1 DEF Joined, Poseidon
<1> HIDE DEF D
<1> DEFINE T == {k \in 0 .. D : a[D - k] = b[D - k]}
<1>4. 0 .. D \subseteq T
  <2>1. 0 \in T
    BY <1>0, <1>1, <1>2
  <2>2. ASSUME NEW n \in 0 .. D - 1, n \in T PROVE n + 1 \in T
    <3>1. D - n \in 1 .. D /\ D - n - 1 = D - (n + 1) /\ n + 1 \in 0 .. D
      BY <1>0
    <3>2. a[D - n] = b[D - n]
      BY <2>2
    <3>3. a[D - n - 1] = b[D - n - 1]
      BY <1>3, <3>1, <3>2
    <3> QED BY <3>1, <3>3
  <2> HIDE DEF T
  <2> QED BY <1>0, <2>1, <2>2, InductionOn
<1>5. \A i \in 0 .. D : a[i] = b[i]
  <2>1. ASSUME NEW i \in 0 .. D PROVE a[i] = b[i]
    <3>1. D - i \in T /\ D - (D - i) = i
      BY <1>0, <1>4
    <3> QED BY <3>1
  <2> QED BY <2>1
<1>6. \A i \in 0 .. D - 1 : p.path[i] = q.path[i]
  <2>1. ASSUME NEW i \in 0 .. D - 1 PROVE p.path[i] = q.path[i]
    <3>1. i + 1 \in 1 .. D /\ i + 1 - 1 = i /\ i + 1 \in 0 .. D
      BY <1>0
    <3>2. p.path[i + 1 - 1] = q.path[i + 1 - 1]
      BY <1>3, <1>5, <3>1
    <3> QED BY <3>1, <3>2
  <2> QED BY <2>1
<1>7. leaf = other
  BY <1>0, <1>1, <1>2, <1>5 DEF Climbs
<1> QED BY <1>6, <1>7 DEF D

\* What verifies under the root of a tree that is not overfull is one of its
\* leaves, or the zero of a free place, whatever path and bits come with it.
THEOREM OnlyLeavesVerify ==
    ASSUME NEW S, NEW leaves \in Seq(S), Len(leaves) <= capacity[TREE_DEPTH],
           NEW leaf, NEW p, verify(leaf, p, Root(Layers(leaves)))
    PROVE  leaf \in Given(leaves) \cup {Num(0)}
<1> DEFINE D == TREE_DEPTH
           L == Layers(leaves)
<1>0. D \in Nat
  BY ListAssumption
<1>1. PICK cur : Climbs(cur, leaf, p) /\ cur[D] = Root(L)
  BY ClimbFacts
<1>2. Root(L) = NodeAt(L, D, 0)
  BY TreeFacts
<1>3. \A level \in 1 .. D, i \in Nat :
         NodeAt(L, level, i) = Poseidon(<<NodeAt(L, level - 1, 2 * i), NodeAt(L, level - 1, 2 * i + 1)>>)
  BY TreeFacts
<1>4. \A i \in Nat : NodeAt(L, 0, i) = IF i < Len(leaves) THEN leaves[i + 1] ELSE Num(0)
  BY TreeFacts
<1> HIDE DEF D, L
\* Going down, every node of the climb is a node of the tree.
<1>5. ASSUME NEW level \in 1 .. D, NEW i \in Nat, cur[level] = NodeAt(L, level, i)
      PROVE  \E j \in Nat : cur[level - 1] = NodeAt(L, level - 1, j)
  <2>1. cur[level] = Joined(p, level, cur[level - 1])
    BY <1>1 DEF Climbs, D
  <2>2. NodeAt(L, level, i) = Poseidon(<<NodeAt(L, level - 1, 2 * i), NodeAt(L, level - 1, 2 * i + 1)>>)
    BY <1>3
  <2>3. \/ cur[level - 1] = NodeAt(L, level - 1, 2 * i)
        \/ cur[level - 1] = NodeAt(L, level - 1, 2 * i + 1)
    <3> DEFINE low == NodeAt(L, level - 1, 2 * i)
               high == NodeAt(L, level - 1, 2 * i + 1)
               x == cur[level - 1]
               y == p.path[level - 1]
    <3>1. Joined(p, level, x) = Poseidon(<<low, high>>)
      BY <1>5, <2>1, <2>2
    <3>2. Joined(p, level, x) = Poseidon(<<x, y>>) \/ Joined(p, level, x) = Poseidon(<<y, x>>)
      BY DEF Joined
    <3> HIDE DEF low, high, x, y
    <3>3. x = low \/ x = high
      BY <3>1, <3>2 DEF Poseidon
    <3> QED BY <3>3 DEF low, high, x
  <2>4. 2 * i \in Nat /\ 2 * i + 1 \in Nat
    OBVIOUS
  <2> QED BY <2>3, <2>4, Zenon
<1> DEFINE T == {k \in 0 .. D : \E i \in Nat : cur[D - k] = NodeAt(L, D - k, i)}
<1>6. 0 .. D \subseteq T
  <2>1. 0 \in T
    BY <1>0, <1>1, <1>2 DEF D
  <2>2. ASSUME NEW n \in 0 .. D - 1, n \in T PROVE n + 1 \in T
    <3>1. D - n \in 1 .. D /\ D - n - 1 = D - (n + 1) /\ n + 1 \in 0 .. D
      BY <1>0
    <3>2. PICK i \in Nat : cur[D - n] = NodeAt(L, D - n, i)
      BY <2>2
    <3>3. \E j \in Nat : cur[D - n - 1] = NodeAt(L, D - n - 1, j)
      BY <1>5, <3>1, <3>2
    <3> QED BY <3>1, <3>3
  <2> HIDE DEF T
  <2> QED BY <1>0, <2>1, <2>2, InductionOn
<1>7. PICK i \in Nat : leaf = NodeAt(L, 0, i)
  <2>1. D \in T /\ D - D = 0
    BY <1>0, <1>6
  <2> QED BY <1>1, <2>1 DEF Climbs
<1>8. CASE i < Len(leaves)
  <2>1. i + 1 \in DOMAIN leaves
    BY <1>8
  <2> QED BY <1>4, <1>7, <1>8, <2>1 DEF Given
<1> QED BY <1>4, <1>7, <1>8

\* The index of a place, halved, is below the capacity of what is left above.
LEMMA IndexInTree ==
    ASSUME NEW index \in Nat, index < capacity[TREE_DEPTH]
    PROVE  IndexAt(index)[TREE_DEPTH] = 0
<1> DEFINE D == TREE_DEPTH
           at == IndexAt(index)
           G == {level \in 0 .. D : at[level] \in Nat /\ at[level] < capacity[D - level]}
<1>0. D \in Nat
  BY ListAssumption
<1>1. /\ at \in [0 .. D -> Nat]
      /\ at[0] = index
      /\ \A level \in 1 .. D : at[level] = at[level - 1] \div 2
  BY IndexFacts
<1>2. /\ capacity \in [0 .. D -> Nat \ {0}]
      /\ capacity[0] = 1
      /\ \A level \in 1 .. D : capacity[level] = 2 * capacity[level - 1]
  BY CapacityFacts
<1>s. index < capacity[D]
  OBVIOUS
<1> HIDE DEF D, at
<1>3. 0 \in G
  BY <1>0, <1>1, <1>s
<1>4. ASSUME NEW n \in 0 .. D - 1, n \in G PROVE n + 1 \in G
  <2>1. n + 1 \in 1 .. D /\ n + 1 - 1 = n /\ n + 1 \in 0 .. D
    BY <1>0
  <2>2. at[n + 1] = at[n] \div 2
    BY <1>1, <2>1
  <2>3. D - n \in 1 .. D /\ D - n - 1 = D - (n + 1) /\ D - (n + 1) \in 0 .. D
    BY <1>0
  <2>4. capacity[D - n] = 2 * capacity[D - (n + 1)] /\ capacity[D - (n + 1)] \in Nat
    BY <1>2, <2>3
  <2> QED BY <1>4, <2>1, <2>2, <2>4
<1>5. 0 .. D \subseteq G
  <2> HIDE DEF G
  <2> QED BY <1>0, <1>3, <1>4, InductionOn
<1>6. D \in G /\ D - D = 0
  BY <1>0, <1>5
<1> QED BY <1>2, <1>6 DEF D, at

\* Every place of the tree, of a leaf or free, has a path: with it the leaf of
\* the place verifies under the published root, and nothing else does.
THEOREM EveryPlaceHasItsPath ==
    ASSUME NEW S, NEW leaves \in Seq(S), Len(leaves) <= capacity[TREE_DEPTH],
           NEW index \in Nat, index < capacity[TREE_DEPTH], NEW leaf
    PROVE  LET layers == Layers(leaves)
               p == [path |-> buildInclusionPath(index, layers), bits |-> pathBits(index)]
           IN verify(leaf, p, Root(layers))
              <=> leaf = IF index < Len(leaves) THEN leaves[index + 1] ELSE Num(0)
<1> DEFINE D == TREE_DEPTH
           L == Layers(leaves)
           at == IndexAt(index)
           p == [path |-> buildInclusionPath(index, L), bits |-> pathBits(index)]
           own == NodeAt(L, 0, index)
<1>0. D \in Nat
  BY ListAssumption
<1>1. PICK cur : Climbs(cur, own, p) /\ \A root : verify(own, p, root) <=> cur[D] = root
  BY ClimbFacts
<1>2. /\ at \in [0 .. D -> Nat]
      /\ at[0] = index
      /\ \A level \in 1 .. D : at[level] = at[level - 1] \div 2
  BY IndexFacts
<1>3. \A level \in 1 .. D, i \in Nat :
         NodeAt(L, level, i) = Poseidon(<<NodeAt(L, level - 1, 2 * i), NodeAt(L, level - 1, 2 * i + 1)>>)
  BY TreeFacts
<1>4. \A level \in 0 .. D - 1 :
         /\ p.bits[level] = IF at[level] % 2 = 1 THEN 1 ELSE 0
         /\ p.path[level] = NodeAt(L, level, IF at[level] % 2 = 1 THEN at[level] - 1 ELSE at[level] + 1)
  BY DEF pathBits, buildInclusionPath, RightAt, NodeAt
<1> HIDE DEF D, L, at, p
<1> DEFINE T == {level \in 0 .. D : cur[level] = NodeAt(L, level, at[level])}
<1>5. 0 .. D \subseteq T
  <2>1. 0 \in T
    BY <1>0, <1>1, <1>2 DEF Climbs
  <2>2. ASSUME NEW n \in 0 .. D - 1, n \in T PROVE n + 1 \in T
    <3>1. n + 1 \in 1 .. D /\ n + 1 - 1 = n /\ n + 1 \in 0 .. D /\ n \in 0 .. D - 1 /\ n \in 0 .. D
      BY <1>0
    <3>2. cur[n] = NodeAt(L, n, at[n])
      BY <2>2
    <3>3. cur[n + 1] = Joined(p, n + 1, cur[n])
      BY <1>1, <3>1 DEF Climbs, D
    <3> DEFINE here == at[n]
               over == at[n + 1]
    <3>4. here \in Nat /\ over \in Nat /\ over = here \div 2
      BY <1>2, <3>1
    <3>5. NodeAt(L, n + 1, over) = Poseidon(<<NodeAt(L, n, 2 * over), NodeAt(L, n, 2 * over + 1)>>)
      BY <1>3, <3>1, <3>4
    <3>6. /\ p.bits[n] = IF here % 2 = 1 THEN 1 ELSE 0
          /\ p.path[n] = NodeAt(L, n, IF here % 2 = 1 THEN here - 1 ELSE here + 1)
      BY <1>4
    <3>7. Joined(p, n + 1, cur[n]) = IF p.bits[n] = 0 THEN Poseidon(<<cur[n], p.path[n]>>)
                                                      ELSE Poseidon(<<p.path[n], cur[n]>>)
      BY <3>1 DEF Joined
    <3> HIDE DEF here, over
    <3>8. CASE here % 2 = 1
      <4>1. 2 * over = here - 1 /\ 2 * over + 1 = here
        BY <3>4, <3>8
      <4>2. Joined(p, n + 1, cur[n]) = Poseidon(<<p.path[n], cur[n]>>)
        BY <3>6, <3>7, <3>8
      <4>3. p.path[n] = NodeAt(L, n, 2 * over) /\ cur[n] = NodeAt(L, n, 2 * over + 1)
        BY <3>2, <3>6, <3>8, <4>1 DEF here
      <4>4. cur[n + 1] = NodeAt(L, n + 1, over)
        BY <3>3, <3>5, <4>2, <4>3
      <4> QED BY <3>1, <4>4 DEF over
    <3>9. CASE here % 2 # 1
      <4>1. 2 * over = here /\ 2 * over + 1 = here + 1
        BY <3>4, <3>9
      <4>2. Joined(p, n + 1, cur[n]) = Poseidon(<<cur[n], p.path[n]>>)
        BY <3>6, <3>7, <3>9
      <4>3. cur[n] = NodeAt(L, n, 2 * over) /\ p.path[n] = NodeAt(L, n, 2 * over + 1)
        BY <3>2, <3>6, <3>9, <4>1 DEF here
      <4>4. cur[n + 1] = NodeAt(L, n + 1, over)
        BY <3>3, <3>5, <4>2, <4>3
      <4> QED BY <3>1, <4>4 DEF over
    <3> QED BY <3>8, <3>9
  <2> HIDE DEF T
  <2> QED BY <1>0, <2>1, <2>2, InductionOn
<1>6. verify(own, p, Root(L))
  <2>1. cur[D] = NodeAt(L, D, at[D])
    BY <1>0, <1>5
  <2>2. at[D] = 0
    BY IndexInTree DEF at, D
  <2>3. Root(L) = NodeAt(L, D, 0)
    BY TreeFacts DEF L, D
  <2> QED BY <1>1, <2>1, <2>2, <2>3
<1>7. own = IF index < Len(leaves) THEN leaves[index + 1] ELSE Num(0)
  BY TreeFacts DEF L
<1>8. verify(leaf, p, Root(L)) <=> leaf = own
  BY <1>6, PathBinds
<1> QED BY <1>7, <1>8 DEF L, p

\* The nodes of the complete tree: the leaves, zeros after them as far as the
\* tree goes, and every node above made of its two children.
IsCompleteTree(node, leaves) ==
    /\ \A i \in 0 .. capacity[TREE_DEPTH] - 1 :
          node[0, i] = IF i < Len(leaves) THEN leaves[i + 1] ELSE Num(0)
    /\ \A level \in 1 .. TREE_DEPTH, i \in 0 .. capacity[TREE_DEPTH] - 1 :
          i < capacity[TREE_DEPTH - level]
          => node[level, i] = Poseidon(<<node[level - 1, 2 * i], node[level - 1, 2 * i + 1]>>)

\* The tree that stores only the nodes above its leaves publishes the root of
\* the complete one.
THEOREM SparseRootIsComplete ==
    ASSUME NEW S, NEW leaves \in Seq(S), Len(leaves) <= capacity[TREE_DEPTH],
           NEW node, IsCompleteTree(node, leaves)
    PROVE  Root(Layers(leaves)) = node[TREE_DEPTH, 0]
<1> DEFINE D == TREE_DEPTH
           L == Layers(leaves)
<1>0. D \in Nat
  BY ListAssumption
<1>1. \A level \in 1 .. D, i \in Nat :
         NodeAt(L, level, i) = Poseidon(<<NodeAt(L, level - 1, 2 * i), NodeAt(L, level - 1, 2 * i + 1)>>)
  BY TreeFacts
<1>2. \A i \in Nat : NodeAt(L, 0, i) = IF i < Len(leaves) THEN leaves[i + 1] ELSE Num(0)
  BY TreeFacts
<1>3. /\ capacity \in [0 .. D -> Nat \ {0}]
      /\ capacity[0] = 1
      /\ \A level \in 1 .. D : capacity[level] = 2 * capacity[level - 1]
  BY CapacityFacts
<1>4. \A level \in 0 .. D : capacity[level] <= capacity[D]
  <2> DEFINE H == {k \in 0 .. D : capacity[D - k] <= capacity[D]}
  <2> HIDE DEF D
  <2>1. 0 \in H
    BY <1>0, <1>3
  <2>2. ASSUME NEW n \in 0 .. D - 1, n \in H PROVE n + 1 \in H
    <3>1. D - n \in 1 .. D /\ D - n - 1 = D - (n + 1) /\ D - (n + 1) \in 0 .. D /\ n + 1 \in 0 .. D
          /\ D \in 0 .. D
      BY <1>0
    <3>2. capacity[D - n] = 2 * capacity[D - (n + 1)] /\ capacity[D - (n + 1)] \in Nat
          /\ capacity[D] \in Nat
      BY <1>3, <3>1
    <3>3. capacity[D - n] <= capacity[D]
      BY <2>2
    <3> QED BY <3>1, <3>2, <3>3
  <2>3. 0 .. D \subseteq H
    <3> HIDE DEF H
    <3> QED BY <1>0, <2>1, <2>2, InductionOn
  <2>4. ASSUME NEW level \in 0 .. D PROVE capacity[level] <= capacity[D]
    <3>1. D - level \in 0 .. D /\ D - (D - level) = level
      BY <1>0
    <3>2. D - level \in H
      BY <2>3, <3>1
    <3> QED BY <3>1, <3>2
  <2> QED BY <2>4
<1> DEFINE full(level, i) == node[level, i]
           stored(level, i) == NodeAt(L, level, i)
           G == {level \in 0 .. D :
                    \A i \in Nat : i < capacity[D - level] => full(level, i) = stored(level, i)}
<1>5. /\ \A i \in 0 .. capacity[D] - 1 : full(0, i) = stored(0, i)
      /\ \A level \in 1 .. D, i \in 0 .. capacity[D] - 1 :
            i < capacity[D - level]
            => full(level, i) = Poseidon(<<full(level - 1, 2 * i), full(level - 1, 2 * i + 1)>>)
  <2>1. \A i \in 0 .. capacity[D] - 1 :
           /\ node[0, i] = IF i < Len(leaves) THEN leaves[i + 1] ELSE Num(0)
           /\ i \in Nat
    <3>1. \A i : i \in 0 .. capacity[D] - 1 => i \in Nat
      OBVIOUS
    <3> QED BY <3>1, Zenon DEF IsCompleteTree
  <2>2. \A level \in 1 .. D, i \in 0 .. capacity[D] - 1 :
           i < capacity[D - level]
           => node[level, i] = Poseidon(<<node[level - 1, 2 * i], node[level - 1, 2 * i + 1]>>)
    BY Zenon DEF IsCompleteTree
  <2> QED BY <1>2, <2>1, <2>2, Zenon
<1>6. Root(L) = NodeAt(L, D, 0)
  BY TreeFacts
<1>u. \A level \in 1 .. D, i \in Nat :
         stored(level, i) = Poseidon(<<stored(level - 1, 2 * i), stored(level - 1, 2 * i + 1)>>)
  BY <1>1
<1> HIDE DEF D, L, full, stored
<1>7. 0 \in G
  <2>1. ASSUME NEW i \in Nat, i < capacity[D] PROVE full(0, i) = stored(0, i)
    <3>1. i \in 0 .. capacity[D] - 1
      BY <1>0, <1>3, <2>1
    <3> QED BY <1>5, <3>1
  <2>2. 0 \in 0 .. D /\ D - 0 = D
    BY <1>0
  <2> QED BY <2>1, <2>2
<1>8. ASSUME NEW n \in 0 .. D - 1, n \in G PROVE n + 1 \in G
  <2>1. D - n \in 1 .. D /\ D - n - 1 = D - (n + 1) /\ D - (n + 1) \in 0 .. D /\ n + 1 \in 0 .. D
        /\ n + 1 \in 1 .. D /\ n + 1 - 1 = n /\ D \in 0 .. D
    BY <1>0
  <2>2. capacity[D - n] = 2 * capacity[D - (n + 1)] /\ capacity[D - (n + 1)] \in Nat
        /\ capacity[D] \in Nat /\ capacity[D - (n + 1)] <= capacity[D]
    BY <1>3, <1>4, <2>1
  <2>3. ASSUME NEW i \in Nat, i < capacity[D - (n + 1)]
        PROVE  full(n + 1, i) = stored(n + 1, i)
    <3>1. 2 * i \in Nat /\ 2 * i + 1 \in Nat /\ 2 * i < capacity[D - n] /\ 2 * i + 1 < capacity[D - n]
          /\ i \in 0 .. capacity[D] - 1
      BY <2>2, <2>3
    <3>2. full(n, 2 * i) = stored(n, 2 * i) /\ full(n, 2 * i + 1) = stored(n, 2 * i + 1)
      BY <1>8, <3>1
    <3>3. full(n + 1, i) = Poseidon(<<full(n, 2 * i), full(n, 2 * i + 1)>>)
      BY <1>5, <2>1, <2>3, <3>1
    <3>4. stored(n + 1, i) = Poseidon(<<stored(n, 2 * i), stored(n, 2 * i + 1)>>)
      BY <1>u, <2>1
    <3> QED BY <3>2, <3>3, <3>4
  <2> QED BY <2>1, <2>3
<1>9. 0 .. D \subseteq G
  <2> HIDE DEF G
  <2> QED BY <1>0, <1>7, <1>8, InductionOn
<1>10. full(D, 0) = stored(D, 0)
  <2>1. D \in 0 .. D /\ D - D = 0 /\ 0 < capacity[0]
    BY <1>0, <1>3
  <2>2. D \in G
    BY <1>9, <2>1
  <2> QED BY <2>1, <2>2
<1> QED BY <1>6, <1>10 DEF D, L, full, stored

-----------------------------------------------------------------------------
(***************************************************************************)
(* The commitment                                                          *)
(***************************************************************************)
Keys == Seq(0 .. BYTE - 1)

\* Two numbers with the same last digit and the same value without it.
LEMMA DigitsBind ==
    ASSUME NEW base \in Nat \ {0}, NEW p \in Nat, NEW q \in Nat,
           NEW d \in 0 .. base - 1, NEW e \in 0 .. base - 1, base * p + d = base * q + e
    PROVE  p = q /\ d = e
OBVIOUS

\* Of keys of one length, the value is that of one of them only.
LEMMA PackedBinds ==
    ASSUME NEW x \in Keys, NEW y \in Keys, Len(x) = Len(y), Packed(x) = Packed(y)
    PROVE  x = y
<1> USE DEF Keys
<1> DEFINE N == Len(x)
<1>0. N \in Nat /\ BYTE \in Nat \ {0} /\ \A i \in 1 .. N : x[i] \in 0 .. BYTE - 1 /\ y[i] \in 0 .. BYTE - 1
  BY ListAssumption
<1>1. PICK v \in [0 .. N -> Nat] : /\ \A i \in 1 .. N : v[i] = BYTE * v[i - 1] + x[i]
                                   /\ Packed(x) = v[N]
  BY PackedValue
<1>2. PICK w \in [0 .. N -> Nat] : /\ \A i \in 1 .. N : w[i] = BYTE * w[i - 1] + y[i]
                                   /\ Packed(y) = w[N]
  BY PackedValue
<1> HIDE DEF N
<1>3. ASSUME NEW i \in 1 .. N, v[i] = w[i] PROVE v[i - 1] = w[i - 1] /\ x[i] = y[i]
  <2> DEFINE p == v[i - 1]
             q == w[i - 1]
             d == x[i]
             e == y[i]
  <2>1. p \in Nat /\ q \in Nat
    BY <1>0
  <2>2. d \in 0 .. BYTE - 1 /\ e \in 0 .. BYTE - 1
    BY <1>0
  <2>3. BYTE * p + d = BYTE * q + e
    <3>1. v[i] = BYTE * v[i - 1] + x[i]
      BY <1>1, Zenon
    <3>2. w[i] = BYTE * w[i - 1] + y[i]
      BY <1>2, Zenon
    <3> QED BY <1>3, <3>1, <3>2, Zenon
  <2> HIDE DEF p, q, d, e
  <2>4. p = q /\ d = e
    BY <1>0, <2>1, <2>2, <2>3, DigitsBind, Zenon
  <2> QED BY <2>4 DEF p, q, d, e
<1> DEFINE T == {k \in 0 .. N : v[N - k] = w[N - k]}
<1>4. 0 .. N \subseteq T
  <2>1. 0 \in T
    <3>1. N - 0 = N /\ 0 \in 0 .. N
      BY <1>0
    <3>2. v[N] = w[N]
      BY <1>1, <1>2, Zenon
    <3> QED BY <3>1, <3>2
  <2>2. ASSUME NEW n \in 0 .. N - 1, n \in T PROVE n + 1 \in T
    <3>1. N - n \in 1 .. N /\ N - n - 1 = N - (n + 1) /\ n + 1 \in 0 .. N
      BY <1>0
    <3>2. v[N - n] = w[N - n]
      BY <2>2
    <3>3. v[N - n - 1] = w[N - n - 1]
      BY <1>3, <3>1, <3>2
    <3> QED BY <3>1, <3>3
  <2> HIDE DEF T
  <2> QED BY <1>0, <2>1, <2>2, InductionOn
<1>5. ASSUME NEW i \in 1 .. N PROVE x[i] = y[i]
  <2>1. N - i \in 0 .. N /\ N - (N - i) = i
    BY <1>0
  <2>2. N - i \in T
    BY <1>4, <2>1
  <2> QED BY <1>3, <2>1, <2>2
<1> QED BY <1>5 DEF N

\* The elements that the sponge takes: the chunks, then the length.
Count(spki) == (Len(spki) + CHUNK - 1) \div CHUNK

ChunkOf(spki, i) ==
    SubSeq(spki, CHUNK * (i - 1) + 1, IF CHUNK * i < Len(spki) THEN CHUNK * i ELSE Len(spki))

LEMMA AppendedFacts ==
    ASSUME NEW V, NEW f \in Seq(V), NEW g \in Seq(V)
    PROVE  Len(g) = 1 => /\ Len(f \o g) = Len(f) + 1
                         /\ (f \o g)[Len(f) + 1] = g[1]
                         /\ \A i \in 1 .. Len(f) : (f \o g)[i] = f[i]
<1>1. /\ f \o g \in Seq(V) /\ Len(f \o g) = Len(f) + Len(g)
      /\ Len(f) \in Nat /\ Len(g) \in Nat
      /\ \A j \in 1 .. Len(f) : (f \o g)[j] = f[j]
      /\ \A j \in 1 .. Len(g) : (f \o g)[Len(f) + j] = g[j]
  BY ConcatFacts
<1>2. SUFFICES ASSUME Len(g) = 1 PROVE (f \o g)[Len(f) + 1] = g[1]
  BY <1>1
<1>3. 1 \in 1 .. Len(g)
  BY <1>2
<1> QED BY <1>1, <1>3, Zenon

LEMMA ChunksFacts ==
    ASSUME NEW spki \in Keys
    PROVE  /\ Count(spki) \in Nat
           /\ Len(Chunks(spki)) = Count(spki) + 1
           /\ \A i \in 1 .. Count(spki) : Chunks(spki)[i] = Num(Packed(ChunkOf(spki, i)))
           /\ Chunks(spki)[Count(spki) + 1] = Num(Len(spki))
<1> DEFINE n == Count(spki)
           f == [i \in 1 .. n |-> Num(Packed(ChunkOf(spki, i)))]
           l == Len(spki)
           V == {f[i] : i \in 1 .. n} \cup {Num(l)}
<1>1. l \in Nat /\ n \in Nat
  BY ListAssumption DEF Keys, Count
<1>2. Chunks(spki) = f \o <<Num(l)>>
  BY DEF Chunks, Count, ChunkOf
<1> HIDE DEF n, l
<1>3. \A i \in 1 .. n : f[i] = Num(Packed(ChunkOf(spki, i)))
  OBVIOUS
<1>4. f \in Seq(V) /\ Len(f) = n
  <2>1. f \in [1 .. n -> V]
    OBVIOUS
  <2> HIDE DEF f, V
  <2> QED BY <1>1, <2>1
<1>5. <<Num(l)>> \in Seq(V) /\ Len(<<Num(l)>>) = 1 /\ <<Num(l)>>[1] = Num(l)
  <2>1. Num(l) \in V
    OBVIOUS
  <2> HIDE DEF V
  <2> DEFINE e == Num(l)
  <2> HIDE DEF e
  <2>2. e \in V
    BY <2>1 DEF e
  <2>3. <<e>> \in Seq(V) /\ Len(<<e>>) = 1 /\ <<e>>[1] = e
    BY <2>2
  <2> QED BY <2>3 DEF e
<1> DEFINE g == <<Num(l)>>
<1> HIDE DEF f, V, g
<1>6. g \in Seq(V) /\ Len(g) = 1 /\ g[1] = Num(l)
  BY <1>5 DEF g
<1>7. /\ Len(f \o g) = Len(f) + 1 /\ (f \o g)[Len(f) + 1] = g[1]
      /\ \A i \in 1 .. Len(f) : (f \o g)[i] = f[i]
  BY <1>4, <1>6, AppendedFacts, Zenon
<1>8. Len(f \o g) = n + 1 /\ (f \o g)[n + 1] = g[1] /\ \A i \in 1 .. n : (f \o g)[i] = f[i]
  BY <1>4, <1>7, Zenon
<1> QED BY <1>1, <1>2, <1>3, <1>6, <1>8 DEF n, l, g

\* Two sponges that end in the same state took the same windows.
LEMMA SpongeBinds ==
    ASSUME NEW fe, NEW ge, Windows(fe) \in Nat, Windows(ge) \in Nat, Windows(fe) <= Windows(ge),
           NEW s, NEW u, Absorbs(s, fe), Absorbs(u, ge), s[Windows(fe)] = u[Windows(ge)]
    PROVE  /\ Windows(fe) = Windows(ge)
           /\ \A r \in 1 .. Windows(fe) : Window(fe, r) = Window(ge, r)
<1> DEFINE A == Windows(fe)
           B == Windows(ge)
<1>0. A \in Nat /\ B \in Nat /\ A <= B /\ RATE \in Nat \ {0} /\ s[A] = u[B]
  BY ListAssumption
<1>1. ASSUME NEW x, NEW y, NEW f, NEW g, NEW i, NEW j,
             Poseidon(<<x>> \o Window(f, i)) = Poseidon(<<y>> \o Window(g, j))
      PROVE  x = y /\ Window(f, i) = Window(g, j)
  <2> DEFINE X == {Window(f, i)[k] : k \in 1 .. RATE} \cup {Window(g, j)[k] : k \in 1 .. RATE} \cup {x, y}
             p == Window(f, i)
             q == Window(g, j)
  <2>1. p \in [1 .. RATE -> X] /\ q \in [1 .. RATE -> X]
    BY DEF Window
  <2>2. <<x>> \o p = <<y>> \o q
    BY <1>1 DEF Poseidon
  <2>3. x \in X /\ y \in X
    OBVIOUS
  <2> HIDE DEF X, p, q
  <2>4. x = y /\ p = q
    BY <1>0, <2>1, <2>2, <2>3
  <2> QED BY <2>4 DEF p, q
<1>2. ASSUME NEW x, NEW f, NEW i PROVE Poseidon(<<x>> \o Window(f, i)) # Num(0)
  <2> DEFINE p == Window(f, i)
             X == {p[k] : k \in 1 .. RATE} \cup {x}
  <2>1. p \in [1 .. RATE -> X]
    BY DEF Window
  <2>2. x \in X
    OBVIOUS
  <2> HIDE DEF X, p
  <2>3. Len(<<x>> \o p) = RATE + 1
    BY <1>0, <2>1, <2>2
  <2>4. Len(<<0>>) = 1
    OBVIOUS
  <2>5. <<x>> \o p # <<0>>
    BY <1>0, <2>3, <2>4
  <2> QED BY <2>5 DEF p, Poseidon, Num
<1> DEFINE After(x, f, i) == Poseidon(<<x>> \o Window(f, i))
<1>3. /\ s[0] = Num(0) /\ \A r \in 1 .. A : s[r] = After(s[r - 1], fe, r)
      /\ u[0] = Num(0) /\ \A r \in 1 .. B : u[r] = After(u[r - 1], ge, r)
  BY DEF Absorbs
<1>4. \A x, y, f, g, i, j : After(x, f, i) = After(y, g, j) => x = y /\ Window(f, i) = Window(g, j)
  BY <1>1
<1>5. \A x, f, i : After(x, f, i) # Num(0)
  BY <1>2
<1> HIDE DEF A, B, After
<1>6. ASSUME NEW k \in 0 .. A - 1, s[A - k] = u[B - k]
      PROVE  s[A - (k + 1)] = u[B - (k + 1)] /\ Window(fe, A - k) = Window(ge, B - k)
  <2>1. A - k \in 1 .. A /\ A - k - 1 = A - (k + 1) /\ B - k \in 1 .. B /\ B - k - 1 = B - (k + 1)
    BY <1>0
  <2>2. s[A - k] = After(s[A - (k + 1)], fe, A - k)
    BY <1>3, <2>1
  <2>3. u[B - k] = After(u[B - (k + 1)], ge, B - k)
    BY <1>3, <2>1
  <2>4. After(s[A - (k + 1)], fe, A - k) = After(u[B - (k + 1)], ge, B - k)
    BY <1>6, <2>2, <2>3, Zenon
  <2> DEFINE x == s[A - (k + 1)]
             y == u[B - (k + 1)]
             i == A - k
             j == B - k
  <2>5. After(x, fe, i) = After(y, ge, j)
    BY <2>4
  <2> HIDE DEF x, y, i, j
  <2>6. x = y /\ Window(fe, i) = Window(ge, j)
    BY <1>4, <2>5
  <2> QED BY <2>6 DEF x, y, i, j
<1> DEFINE T == {k \in 0 .. A : s[A - k] = u[B - k]}
<1>7. 0 .. A \subseteq T
  <2>1. 0 \in T
    BY <1>0
  <2>2. ASSUME NEW n \in 0 .. A - 1, n \in T PROVE n + 1 \in T
    BY <1>0, <1>6, <2>2
  <2> HIDE DEF T
  <2> QED BY <1>0, <2>1, <2>2, InductionOn
<1>8. A = B
  <2>1. A \in 0 .. A /\ A - A = 0
    BY <1>0
  <2>2. A \in T
    BY <1>7, <2>1
  <2>3. s[0] = u[B - A]
    BY <2>1, <2>2
  <2>4. CASE B - A \in 1 .. B
    BY <1>3, <1>5, <2>3, <2>4
  <2> QED BY <1>0, <2>4
<1>9. ASSUME NEW r \in 1 .. A PROVE Window(fe, r) = Window(ge, r)
  <2>1. A - r \in 0 .. A - 1 /\ A - (A - r) = r /\ A - r \in 0 .. A
    BY <1>0
  <2>2. A - r \in T
    BY <1>7, <2>1
  <2>3. s[A - (A - r)] = u[B - (A - r)]
    BY <2>2
  <2>4. Window(fe, A - (A - r)) = Window(ge, B - (A - r))
    BY <1>6, <2>1, <2>3
  <2> QED BY <1>8, <2>1, <2>4
<1> QED BY <1>8, <1>9 DEF A, B

\* What the windows hold at place k: the element, or the zero after the last.
At(fe, k) == IF k <= Len(fe) THEN fe[k] ELSE Num(0)

LEMMA WindowsCover ==
    ASSUME NEW fe, NEW ge, Len(fe) \in Nat, Len(ge) \in Nat, Windows(fe) = Windows(ge),
           \A r \in 1 .. Windows(fe) : Window(fe, r) = Window(ge, r),
           NEW k \in 1 .. Len(ge)
    PROVE  At(fe, k) = At(ge, k)
<1> DEFINE r == (k - 1) \div RATE + 1
           j == k - RATE * (r - 1)
           N == Len(ge)
           W == (N + RATE - 1) \div RATE
<1>0. RATE \in Nat \ {0} /\ k \in Nat /\ N \in Nat /\ 1 <= k /\ k <= N
  BY ListAssumption
<1>1. r \in Nat /\ 1 <= r /\ j \in 1 .. RATE /\ RATE * (r - 1) + j = k
  <2> DEFINE q == (k - 1) \div RATE
  <2>1. q \in Nat /\ RATE * q <= k - 1 /\ k - 1 < RATE * q + RATE
    BY <1>0
  <2>2. r - 1 = q
    BY <2>1
  <2> HIDE DEF q, r
  <2>3. j = k - RATE * q
    BY <2>2
  <2>4. RATE * q \in Nat
    BY <1>0, <2>1
  <2>5. j \in 1 .. RATE /\ RATE * q + j = k
    BY <1>0, <2>1, <2>3, <2>4
  <2>6. r = q + 1
    BY DEF q, r
  <2>7. RATE * (r - 1) = RATE * q
    BY <2>2
  <2> HIDE DEF j
  <2>8. r \in Nat /\ 1 <= r
    BY <2>1, <2>6
  <2> QED BY <2>5, <2>7, <2>8
<1>2. r <= W
  <2>1. W \in Nat /\ N + RATE - 1 < RATE * W + RATE
    BY <1>0
  <2>2. RATE * (r - 1) < RATE * W
    <3> HIDE DEF W, r
    <3>1. RATE * (r - 1) \in Nat /\ RATE * W \in Nat
      BY <1>0, <1>1, <2>1
    <3> HIDE DEF j
    <3> QED BY <1>0, <1>1, <2>1, <3>1
  <2> HIDE DEF W, r, j
  <2>3. r - 1 \in Nat
    BY <1>1
  <2>4. CASE r - 1 >= W
    <3>1. RATE * (r - 1) >= RATE * W
      <4> DEFINE q == r - 1
      <4>1. q \in Nat /\ q >= W
        BY <2>3, <2>4
      <4> HIDE DEF q
      <4>2. RATE * q >= RATE * W
        BY <1>0, <2>1, <4>1
      <4> QED BY <4>2 DEF q
    <3>2. RATE * (r - 1) \in Nat /\ RATE * W \in Nat
      BY <1>0, <2>1, <2>3
    <3> QED BY <2>2, <3>1, <3>2
  <2> QED BY <1>1, <2>1, <2>3, <2>4
<1>3. Window(fe, r) = Window(ge, r)
  <2>1. W = Windows(fe)
    BY DEF Windows
  <2> HIDE DEF r, W
  <2>2. r \in 1 .. W
    <3>1. W \in Nat
      BY <1>0, <1>2 DEF W
    <3> QED BY <1>1, <1>2, <3>1
  <2> QED BY <2>1, <2>2, Zenon
<1> HIDE DEF r, j, W, N
<1>4. Window(fe, r)[j] = At(fe, k) /\ Window(ge, r)[j] = At(ge, k)
  <2>1. \A f : Window(f, r)[j] = IF RATE * (r - 1) + j <= Len(f) THEN f[RATE * (r - 1) + j] ELSE Num(0)
    BY <1>1, Zenon DEF Window
  <2>2. \A f : Window(f, r)[j] = IF k <= Len(f) THEN f[k] ELSE Num(0)
    BY <1>1, <2>1
  <2> QED BY <2>2 DEF At
<1> QED BY <1>3, <1>4

LEMMA CountFacts ==
    ASSUME NEW l \in Nat, NEW k \in 1 .. l
    PROVE  LET i == (k - 1) \div CHUNK + 1
           IN /\ i \in 1 .. (l + CHUNK - 1) \div CHUNK
              /\ k - CHUNK * (i - 1) \in 1 .. (IF CHUNK * i < l THEN CHUNK * i ELSE l) - CHUNK * (i - 1)
<1> DEFINE q == (k - 1) \div CHUNK
           n == (l + CHUNK - 1) \div CHUNK
<1>0. CHUNK \in Nat \ {0}
  BY ListAssumption
<1>1. q \in Nat /\ CHUNK * q <= k - 1 /\ k - 1 < CHUNK * q + CHUNK
  BY <1>0
<1>2. n \in Nat /\ l + CHUNK - 1 < CHUNK * n + CHUNK
  BY <1>0
<1> HIDE DEF q, n
<1>3. CHUNK * q \in Nat /\ CHUNK * n \in Nat
  BY <1>0, <1>1, <1>2
<1>4. CHUNK * q < CHUNK * n
  BY <1>0, <1>1, <1>2, <1>3
<1>5. q < n
  <2>1. ASSUME q >= n PROVE CHUNK * q >= CHUNK * n
    BY <1>0, <1>1, <1>2, <2>1
  <2> QED BY <1>1, <1>2, <1>3, <1>4, <2>1
<1>6. q + 1 - 1 = q /\ CHUNK * (q + 1) = CHUNK * q + CHUNK
  BY <1>0, <1>1
<1>7. q + 1 \in 1 .. n
  BY <1>1, <1>2, <1>5
<1>8. k - CHUNK * q \in 1 .. (IF CHUNK * (q + 1) < l THEN CHUNK * (q + 1) ELSE l) - CHUNK * q
  BY <1>0, <1>1, <1>3, <1>6
<1> DEFINE i == q + 1
<1>9. i - 1 = q
  <2>1. q \in Nat
    BY <1>1
  <2> QED BY <2>1
<1> HIDE DEF i
<1>10. /\ i \in 1 .. n
       /\ k - CHUNK * (i - 1) \in 1 .. (IF CHUNK * i < l THEN CHUNK * i ELSE l) - CHUNK * (i - 1)
  BY <1>7, <1>8, <1>9 DEF i
<1> QED BY <1>10 DEF i, q, n

\* A key is not longer than its chunks, which are all of its bytes.
LEMMA ChunksCover ==
    ASSUME NEW a \in Keys, NEW b \in Keys, Len(a) = Len(b),
           \A i \in 1 .. Count(a) : Packed(ChunkOf(a, i)) = Packed(ChunkOf(b, i))
    PROVE  a = b
<1> DEFINE l == Len(a)
           low(i) == CHUNK * (i - 1) + 1
           high(i) == IF CHUNK * i < l THEN CHUNK * i ELSE l
<1>0. l \in Nat /\ CHUNK \in Nat \ {0}
  BY ListAssumption DEF Keys
<1>1. ASSUME NEW i \in 1 .. Count(a), NEW s \in Keys, Len(s) = l
      PROVE  /\ ChunkOf(s, i) = SubSeq(s, low(i), high(i))
             /\ ChunkOf(s, i) \in Keys
             /\ low(i) \in Nat /\ high(i) \in Nat /\ 1 <= low(i) /\ high(i) <= l /\ low(i) <= high(i)
  <2>1. i \in Nat /\ 1 <= i
    OBVIOUS
  <2>2. CHUNK * (i - 1) \in Nat /\ CHUNK * i \in Nat /\ CHUNK * (i - 1) < CHUNK * i
    BY <1>0, <2>1
  <2>3. CHUNK * (i - 1) < l
    <3> DEFINE n == Count(a)
    <3>1. n \in Nat /\ CHUNK * n <= l + CHUNK - 1
      BY <1>0 DEF Count
    <3>2. i <= n
      OBVIOUS
    <3> HIDE DEF n
    <3>3. CHUNK * i <= CHUNK * n
      BY <1>0, <2>1, <3>1, <3>2
    <3>4. CHUNK * i = CHUNK * (i - 1) + CHUNK
      BY <1>0, <2>1
    <3>5. CHUNK * n \in Nat
      BY <1>0, <3>1
    <3> QED BY <1>0, <2>2, <3>1, <3>3, <3>4, <3>5
  <2>4. low(i) \in Nat /\ high(i) \in Nat /\ 1 <= low(i) /\ high(i) <= l /\ low(i) <= high(i)
    BY <1>0, <2>2, <2>3
  <2>5. ChunkOf(s, i) = SubSeq(s, low(i), high(i))
    BY <1>1 DEF ChunkOf
  <2> HIDE DEF low, high
  <2>6. SubSeq(s, low(i), high(i)) \in Keys
    <3> DEFINE lo == low(i)
               hi == high(i)
               B == 0 .. BYTE - 1
    <3>1. lo \in Nat /\ hi \in Nat /\ 1 <= lo /\ hi <= Len(s) /\ s \in Seq(B)
      BY <1>1, <2>4 DEF Keys
    <3> HIDE DEF lo, hi, B
    <3>2. SubSeq(s, lo, hi) \in Seq(B)
      BY <3>1
    <3> QED BY <3>2 DEF lo, hi, B, Keys
  <2> QED BY <2>4, <2>5, <2>6
<1>2. ASSUME NEW i \in 1 .. Count(a) PROVE SubSeq(a, low(i), high(i)) = SubSeq(b, low(i), high(i))
  <2> DEFINE x == ChunkOf(a, i)
             y == ChunkOf(b, i)
  <2>1. /\ x = SubSeq(a, low(i), high(i)) /\ y = SubSeq(b, low(i), high(i))
        /\ x \in Keys /\ y \in Keys
        /\ low(i) \in Nat /\ high(i) \in Nat /\ 1 <= low(i) /\ high(i) <= l /\ low(i) <= high(i)
    BY <1>1
  <2>2. Packed(x) = Packed(y)
    OBVIOUS
  <2> HIDE DEF x, y, low, high, l
  <2>3. Len(x) = high(i) - low(i) + 1 /\ Len(y) = high(i) - low(i) + 1
    BY <2>1 DEF Keys
  <2>4. x = y
    BY <2>1, <2>2, <2>3, PackedBinds
  <2> QED BY <2>1, <2>4
<1>3. ASSUME NEW k \in 1 .. l PROVE a[k] = b[k]
  <2> DEFINE i == (k - 1) \div CHUNK + 1
             j == k - CHUNK * (i - 1)
  <2>1. i \in 1 .. Count(a) /\ j \in 1 .. high(i) - CHUNK * (i - 1)
    BY <1>0, CountFacts DEF Count
  <2>2. /\ low(i) \in Nat /\ high(i) \in Nat /\ 1 <= low(i) /\ high(i) <= l /\ low(i) <= high(i)
        /\ SubSeq(a, low(i), high(i)) = SubSeq(b, low(i), high(i))
    BY <1>1, <1>2, <2>1
  <2>3. CHUNK * (i - 1) = low(i) - 1 /\ low(i) + j - 1 = k
    <3>1. i \in Nat
      BY <2>1
    <3> HIDE DEF i
    <3>2. CHUNK * (i - 1) \in Int
      BY <1>0, <3>1
    <3> QED BY <3>2
  <2> DEFINE lo == low(i)
             hi == high(i)
  <2> HIDE DEF i
  <2>4. j \in 1 .. hi - lo + 1
    BY <2>1, <2>2, <2>3
  <2> HIDE DEF j, low, high
  <2>5. lo \in Nat /\ hi \in Nat /\ 1 <= lo /\ hi <= l /\ lo <= hi
    BY <2>2
  <2> HIDE DEF lo, hi
  <2>6. SubSeq(a, lo, hi)[j] = a[lo + j - 1] /\ SubSeq(b, lo, hi)[j] = b[lo + j - 1]
    BY <2>4, <2>5 DEF Keys
  <2> QED BY <2>2, <2>3, <2>6 DEF lo, hi
<1> QED BY <1>3 DEF Keys

\* No two keys have one commitment, whatever their lengths and leading zeros:
\* the length comes after the chunks, so that the zeros that fill the last
\* window, or a chunk, stand for nothing else.
THEOREM CommitBinds ==
    ASSUME NEW a \in Keys, NEW b \in Keys, commitSpki(a) = commitSpki(b)
    PROVE  a = b
<1> DEFINE Wins(s) == Windows(Chunks(s))
<1>0. RATE \in Nat \ {0} /\ CHUNK \in Nat \ {0}
  BY ListAssumption
<1>1. ASSUME NEW s \in Keys
      PROVE  /\ Len(Chunks(s)) = Count(s) + 1 /\ Count(s) \in Nat /\ Len(s) \in Nat /\ Wins(s) \in Nat
  <2>1. Len(Chunks(s)) = Count(s) + 1 /\ Count(s) \in Nat /\ Len(s) \in Nat
    BY ChunksFacts DEF Keys
  <2>2. Wins(s) \in Nat
    BY <1>0, <2>1 DEF Windows
  <2> QED BY <2>1, <2>2
<1> SUFFICES ASSUME NEW x \in Keys, NEW y \in Keys, commitSpki(x) = commitSpki(y), Wins(x) <= Wins(y)
             PROVE  x = y
  <2>1. Wins(a) \in Nat /\ Wins(b) \in Nat
    BY <1>1
  <2>2. Wins(a) <= Wins(b) \/ Wins(b) <= Wins(a)
    BY <2>1
  <2> HIDE DEF Wins
  <2> QED BY <2>2, Zenon
<1>2. poseidonChunkHashVarT7(x) = poseidonChunkHashVarT7(y)
  <2> DEFINE p == poseidonChunkHashVarT7(x)
             q == poseidonChunkHashVarT7(y)
  <2>1. <<Num(KEY_COMMIT_DOMAIN), p>> = <<Num(KEY_COMMIT_DOMAIN), q>>
    BY DEF commitSpki, Poseidon
  <2> HIDE DEF p, q
  <2>2. p = q
    BY <2>1
  <2> QED BY <2>2 DEF p, q
<1>3. PICK s : Absorbs(s, Chunks(x)) /\ poseidonChunkHashVarT7(x) = s[Wins(x)]
  <2>1. Wins(x) \in Nat
    BY <1>1
  <2> QED BY <2>1, SpongeFacts
<1>4. PICK u : Absorbs(u, Chunks(y)) /\ poseidonChunkHashVarT7(y) = u[Wins(y)]
  <2>1. Wins(y) \in Nat
    BY <1>1
  <2> QED BY <2>1, SpongeFacts
<1>5. Wins(x) = Wins(y) /\ \A r \in 1 .. Wins(x) : Window(Chunks(x), r) = Window(Chunks(y), r)
  <2> DEFINE fe == Chunks(x)
             ge == Chunks(y)
  <2>1. Windows(fe) \in Nat /\ Windows(ge) \in Nat /\ Windows(fe) <= Windows(ge)
    BY <1>1
  <2>2. s[Windows(fe)] = u[Windows(ge)]
    BY <1>2, <1>3, <1>4
  <2>3. Absorbs(s, fe) /\ Absorbs(u, ge)
    BY <1>3, <1>4
  <2> HIDE DEF fe, ge
  <2>4. Windows(fe) = Windows(ge) /\ \A r \in 1 .. Windows(fe) : Window(fe, r) = Window(ge, r)
    BY <2>1, <2>2, <2>3, SpongeBinds
  <2> QED BY <2>4 DEF fe, ge
<1> DEFINE A == Count(x)
           B == Count(y)
           fe == Chunks(x)
           ge == Chunks(y)
<1>6. /\ A \in Nat /\ B \in Nat /\ Len(fe) = A + 1 /\ Len(ge) = B + 1
      /\ Len(x) \in Nat /\ Len(y) \in Nat
  BY <1>1
<1>7. /\ \A k \in 1 .. B + 1 : At(fe, k) = At(ge, k)
      /\ \A k \in 1 .. A + 1 : At(ge, k) = At(fe, k)
  <2>1. /\ Len(fe) \in Nat /\ Len(ge) \in Nat /\ Windows(fe) = Windows(ge)
        /\ \A r \in 1 .. Windows(fe) : Window(fe, r) = Window(ge, r)
        /\ \A r \in 1 .. Windows(ge) : Window(ge, r) = Window(fe, r)
    BY <1>5, <1>6
  <2> HIDE DEF fe, ge, A, B
  <2>2. \A k \in 1 .. Len(ge) : At(fe, k) = At(ge, k)
    BY <2>1, WindowsCover
  <2>3. \A k \in 1 .. Len(fe) : At(ge, k) = At(fe, k)
    BY <2>1, WindowsCover
  <2> QED BY <1>6, <2>2, <2>3
<1>8. /\ \A i \in 1 .. A : fe[i] = Num(Packed(ChunkOf(x, i)))
      /\ \A i \in 1 .. B : ge[i] = Num(Packed(ChunkOf(y, i)))
      /\ fe[A + 1] = Num(Len(x)) /\ ge[B + 1] = Num(Len(y))
  BY ChunksFacts
<1>9. /\ B <= A
      /\ A <= B
  <2>1. ASSUME NEW c \in Keys, NEW d \in Keys, Count(c) < Count(d),
               At(Chunks(c), Count(d) + 1) = At(Chunks(d), Count(d) + 1)
        PROVE  FALSE
    <3>1. Count(c) \in Nat /\ Count(d) \in Nat /\ Len(Chunks(c)) = Count(c) + 1
          /\ Len(Chunks(d)) = Count(d) + 1 /\ Chunks(d)[Count(d) + 1] = Num(Len(d)) /\ Len(d) \in Nat
      BY <1>1, ChunksFacts
    <3>2. At(Chunks(d), Count(d) + 1) = Num(Len(d))
      BY <3>1 DEF At
    <3>3. At(Chunks(c), Count(d) + 1) = Num(0)
      BY <2>1, <3>1 DEF At
    <3>4. Len(d) = 0
      BY <2>1, <3>2, <3>3 DEF Num
    <3>5. Count(d) = 0
      BY <1>0, <3>4 DEF Count
    <3> QED BY <2>1, <3>1, <3>5
  <2>2. B + 1 \in 1 .. B + 1 /\ A + 1 \in 1 .. A + 1
    BY <1>6
  <2>3. At(fe, B + 1) = At(ge, B + 1) /\ At(ge, A + 1) = At(fe, A + 1)
    BY <1>7, <2>2, Zenon
  <2>4. ~(A < B) /\ ~(B < A)
    BY <2>1, <2>3
  <2> HIDE DEF A, B
  <2> QED BY <1>6, <2>4
<1>10. A = B
  <2> HIDE DEF A, B
  <2> QED BY <1>6, <1>9
<1>11. \A k \in 1 .. A + 1 : fe[k] = ge[k]
  <2> HIDE DEF A, B, fe, ge
  <2> QED BY <1>6, <1>7, <1>10 DEF At
<1>12. Len(x) = Len(y)
  <2>1. Num(Len(x)) = Num(Len(y))
    <3> HIDE DEF A, B, fe, ge
    <3>1. A + 1 \in 1 .. A + 1
      BY <1>6
    <3> QED BY <1>8, <1>10, <1>11, <3>1
  <2> DEFINE p == Len(x)
             q == Len(y)
  <2> HIDE DEF p, q
  <2>2. Num(p) = Num(q)
    BY <2>1 DEF p, q
  <2>3. p = q
    BY <2>2 DEF Num
  <2> QED BY <2>3 DEF p, q
<1>13. ASSUME NEW i \in 1 .. A PROVE Packed(ChunkOf(x, i)) = Packed(ChunkOf(y, i))
  <2> DEFINE p == Packed(ChunkOf(x, i))
             q == Packed(ChunkOf(y, i))
  <2>1. Num(p) = Num(q)
    <3> HIDE DEF A, B, fe, ge
    <3>1. i \in 1 .. A + 1 /\ i \in 1 .. B
      BY <1>6, <1>10
    <3> QED BY <1>8, <1>11, <3>1
  <2> HIDE DEF p, q
  <2>2. p = q
    BY <2>1 DEF Num
  <2> QED BY <2>2 DEF p, q
<1> QED BY <1>12, <1>13, ChunksCover

-----------------------------------------------------------------------------
(***************************************************************************)
(* From the lists of services to what the contract accepts                 *)
(***************************************************************************)

\* The service has the key and grants, in the country, certificates that are
\* qualified for signatures: by a qualifier, or by the key usage when there is
\* none for either use.
Grants(s, country, key) ==
    /\ s.territory = country /\ s.caQc /\ s.granted
    /\ "signatures" \in s.use \/ (s.use = {} /\ s.nonRepudiation)
    /\ key \in Given(s.certs)

\* What run() publishes, when it does: the keys of the services that grant, and
\* the layers over their commitments, not more than the tree has places.
LEMMA PublishedFacts ==
    ASSUME NEW territories, NEW country,
           NEW services \in Seq(Services(territories, Seq(Keys))),
           NEW out \in Publishes(services, country)
    PROVE  /\ out.cas \in Seq(Keys)
           /\ \A key : key \in Given(out.cas)
                       <=> \E i \in DOMAIN services : Grants(services[i], country, key)
           /\ Len(out.cas) <= capacity[TREE_DEPTH]
           /\ out.layers = Layers([i \in 1 .. Len(out.cas) |-> commitSpki(out.cas[i])])
<1> DEFINE S == Services(territories, Seq(Keys))
           qes == {s \in Given(services) :
                      s.caQc /\ s.granted /\ s.certs # <<>> /\ isSignatureQualified(s)}
           kept == filterQes(services)
           ours == {s \in Given(kept) : s.territory = country}
           of == filterServicesByCountry(kept, country)
           cas == extractCAs(of)
<1>2. kept \in Seq(S) /\ Given(kept) = Given(services) \cap qes
  <2>1. kept = Filtered(services, qes)
    BY DEF filterQes
  <2> HIDE DEF qes, S, kept
  <2>2. services \in Seq(S)
    BY DEF S
  <2> QED BY <2>1, <2>2, FilteredFacts
<1>3. of \in Seq(S) /\ Given(of) = Given(kept) \cap ours
  <2>1. of = Filtered(kept, ours)
    BY DEF filterServicesByCountry
  <2> HIDE DEF ours, S, of, kept
  <2> QED BY <1>2, <2>1, FilteredFacts
<1>4. \A i \in 1 .. Len(of) : of[i].certs \in Seq(Keys)
  <2>1. \A i \in 1 .. Len(of) : of[i] \in S
    <3> HIDE DEF of, S
    <3> QED BY <1>3
  <2> HIDE DEF of
  <2> QED BY <2>1 DEF Services
<1>5. cas \in Seq(Keys) /\ \A x : x \in Given(cas) <=> \E i \in DOMAIN of : x \in Given(of[i].certs)
  <2> HIDE DEF of, S
  <2> QED BY <1>3, <1>4, ExtractFacts
<1>1. /\ cas = out.cas
      /\ Len(cas) <= capacity[TREE_DEPTH]
      /\ out.layers = Layers([i \in DOMAIN cas |-> commitSpki(cas[i])])
  <2>1. ~(Len(cas) > capacity[TREE_DEPTH])
        /\ out = [cas |-> cas, layers |-> Layers([i \in DOMAIN cas |-> commitSpki(cas[i])])]
    BY DEF Publishes
  <2> DEFINE layers == Layers([i \in DOMAIN cas |-> commitSpki(cas[i])])
             c == capacity[TREE_DEPTH]
  <2>2. out = [cas |-> cas, layers |-> layers]
    BY <2>1
  <2>3. Len(cas) \in Nat /\ c \in Nat
    <3>1. TREE_DEPTH \in 0 .. TREE_DEPTH
      BY ListAssumption
    <3> QED BY <1>5, <3>1, CapacityFacts
  <2> DEFINE n == Len(cas)
  <2>4. ~(n > c) /\ n \in Nat /\ c \in Nat
    BY <2>1, <2>3
  <2> HIDE DEF n, c
  <2>5. n <= c
    BY <2>4
  <2> HIDE DEF cas, layers
  <2>6. out.cas = cas /\ out.layers = layers
    BY <2>2
  <2> QED BY <2>5, <2>6 DEF n, c, layers
<1>6. \A x : x \in Given(cas) <=> \E s \in Given(of) : x \in Given(s.certs)
  <2> HIDE DEF of, cas
  <2> QED BY <1>5, Zenon DEF Given
<1>7. \A s : s \in Given(of)
             <=> /\ s \in Given(services) /\ s.territory = country /\ s.caQc /\ s.granted
                 /\ s.certs # <<>> /\ isSignatureQualified(s)
  <2> HIDE DEF of, kept
  <2> QED BY <1>2, <1>3
<1>8. ASSUME NEW s \in Given(services), NEW key
      PROVE  Grants(s, country, key)
             <=> /\ s.territory = country /\ s.caQc /\ s.granted
                 /\ s.certs # <<>> /\ isSignatureQualified(s)
                 /\ key \in Given(s.certs)
  <2>1. s \in S
    <3> HIDE DEF S
    <3>1. services \in Seq(S)
      BY DEF S
    <3> QED BY <3>1 DEF Given
  <2>2. s.use \in SUBSET {"signatures", "seals"}
    BY <2>1 DEF Services
  <2>3. Given(<<>>) = {}
    BY DEF Given
  <2>4. key \in Given(s.certs) => s.certs # <<>>
    BY <2>3
  <2>5. isSignatureQualified(s) <=> "signatures" \in s.use \/ (s.use = {} /\ s.nonRepudiation)
    BY <2>2 DEF isSignatureQualified
  <2> QED BY <2>4, <2>5, Zenon DEF Grants
<1>9. \A key : key \in Given(cas) <=> \E i \in DOMAIN services : Grants(services[i], country, key)
  <2>1. \A key : key \in Given(cas) <=> \E s \in Given(services) : Grants(s, country, key)
    <3> HIDE DEF cas, of
    <3> QED BY <1>6, <1>7, <1>8, Zenon
  <2> HIDE DEF cas
  <2> QED BY <2>1, Zenon DEF Given
<1>10. DOMAIN cas = 1 .. Len(cas)
  <2> HIDE DEF cas
  <2> QED BY <1>5
<1> HIDE DEF cas
<1> QED BY <1>1, <1>5, <1>9, <1>10

\* The leaves of the published tree.
LEMMA LeavesFacts ==
    ASSUME NEW cas \in Seq(Keys)
    PROVE  LET leaves == [i \in 1 .. Len(cas) |-> commitSpki(cas[i])]
           IN /\ leaves \in Seq({commitSpki(cas[i]) : i \in 1 .. Len(cas)})
              /\ Len(leaves) = Len(cas)
              /\ \A i \in 1 .. Len(cas) : leaves[i] = commitSpki(cas[i])
              /\ Given(leaves) = {commitSpki(key) : key \in Given(cas)}
<1> DEFINE n == Len(cas)
           leaves == [i \in 1 .. n |-> commitSpki(cas[i])]
           V == {commitSpki(cas[i]) : i \in 1 .. n}
<1>1. n \in Nat /\ DOMAIN cas = 1 .. n
  OBVIOUS
<1>2. leaves \in [1 .. n -> V] /\ \A i \in 1 .. n : leaves[i] = commitSpki(cas[i])
  OBVIOUS
<1> HIDE DEF V, n
<1>3. leaves \in Seq(V) /\ Len(leaves) = n /\ DOMAIN leaves = 1 .. n
  <2> HIDE DEF leaves
  <2> QED BY <1>1, <1>2
<1>4. Given(leaves) = {commitSpki(key) : key \in Given(cas)}
  <2> HIDE DEF leaves
  <2> QED BY <1>1, <1>2, <1>3, Zenon DEF Given
<1> QED BY <1>2, <1>3, <1>4 DEF n, V

\* No other key than one of a service that grants is accepted under the
\* published root, with any path and bits.
THEOREM OnlyGrantedVerify ==
    ASSUME NEW territories, NEW country,
           NEW services \in Seq(Services(territories, Seq(Keys))),
           NEW out \in Publishes(services, country), NEW key \in Keys,
           NEW p, verify(commitSpki(key), p, Root(out.layers))
    PROVE  \E i \in DOMAIN services : Grants(services[i], country, key)
<1> DEFINE cas == out.cas
           leaves == [i \in 1 .. Len(cas) |-> commitSpki(cas[i])]
           V == {commitSpki(cas[i]) : i \in 1 .. Len(cas)}
<1>1. /\ cas \in Seq(Keys)
      /\ key \in Given(cas) => \E i \in DOMAIN services : Grants(services[i], country, key)
      /\ Len(cas) <= capacity[TREE_DEPTH]
      /\ out.layers = Layers(leaves)
  BY PublishedFacts
<1>2. /\ leaves \in Seq(V) /\ Len(leaves) = Len(cas)
      /\ Given(leaves) = {commitSpki(k) : k \in Given(cas)}
  <2> HIDE DEF cas
  <2> QED BY <1>1, LeavesFacts
<1>3. commitSpki(key) \in Given(leaves) \cup {Num(0)}
  <2>1. verify(commitSpki(key), p, Root(Layers(leaves)))
    BY <1>1
  <2> HIDE DEF cas, leaves, V
  <2> QED BY <1>1, <1>2, <2>1, OnlyLeavesVerify
<1>4. commitSpki(key) # Num(0)
  BY DEF commitSpki, Poseidon, Num
<1>5. PICK k \in Given(cas) : commitSpki(key) = commitSpki(k)
  BY <1>2, <1>3, <1>4
<1>6. k \in Keys
  <2> HIDE DEF cas
  <2> QED BY <1>1 DEF Given
<1>7. k = key
  BY <1>5, <1>6, CommitBinds
<1> QED BY <1>1, <1>5, <1>7

\* With the path that the page takes for a key from the published files, the
\* contract accepts the key exactly when some service of the country grants it.
THEOREM AcceptsWhatIsGranted ==
    ASSUME NEW territories, NEW country,
           NEW services \in Seq(Services(territories, Seq(Keys))),
           NEW out \in Publishes(services, country), NEW key \in Keys
    PROVE  verify(commitSpki(key), TrustPath(out, key), Root(out.layers))
           <=> \E i \in DOMAIN services : Grants(services[i], country, key)
<1> DEFINE cas == out.cas
           leaves == [i \in 1 .. Len(cas) |-> commitSpki(cas[i])]
           V == {commitSpki(cas[i]) : i \in 1 .. Len(cas)}
           at == {i \in DOMAIN cas : cas[i] = key}
           index == MerkleIndex(cas, key) - 1
           own == [path |-> buildInclusionPath(index, out.layers), bits |-> pathBits(index)]
<1>1. SUFFICES ASSUME \E i \in DOMAIN services : Grants(services[i], country, key)
               PROVE  verify(commitSpki(key), TrustPath(out, key), Root(out.layers))
  BY OnlyGrantedVerify
<1>2. /\ cas \in Seq(Keys) /\ key \in Given(cas)
      /\ Len(cas) <= capacity[TREE_DEPTH]
      /\ out.layers = Layers(leaves)
  BY <1>1, PublishedFacts
<1>3. /\ leaves \in Seq(V) /\ Len(leaves) = Len(cas)
      /\ \A i \in 1 .. Len(cas) : leaves[i] = commitSpki(cas[i])
  <2> HIDE DEF cas
  <2> QED BY <1>2, LeavesFacts
<1>4. PICK i \in at : \A j \in at : i <= j
  <2>1. at \subseteq Nat /\ at # {}
    <3>1. DOMAIN cas \subseteq Nat
      <4> HIDE DEF cas
      <4> QED BY <1>2
    <3> QED BY <1>2, <3>1 DEF Given
  <2> HIDE DEF at
  <2> QED BY <2>1, LeastOf
<1>5. MerkleIndex(cas, key) \in at
  <2>1. MerkleIndex(cas, key) = IF at = {} THEN 0 ELSE CHOOSE k \in at : \A j \in at : k <= j
    BY DEF MerkleIndex
  <2> HIDE DEF at
  <2> QED BY <1>4, <2>1
<1>6. /\ index \in Nat /\ index < Len(cas) /\ index < capacity[TREE_DEPTH]
      /\ cas[index + 1] = key /\ MerkleIndex(cas, key) # 0
  <2> DEFINE m == MerkleIndex(cas, key)
  <2>1. m \in 1 .. Len(cas) /\ cas[m] = key
    <3>1. DOMAIN cas = 1 .. Len(cas)
      <4> HIDE DEF cas
      <4> QED BY <1>2
    <3> HIDE DEF cas
    <3> QED BY <1>5, <3>1
  <2>2. index = m - 1
    OBVIOUS
  <2>3. Len(cas) \in Nat /\ capacity[TREE_DEPTH] \in Nat
    <3>1. Len(cas) \in Nat
      <4> HIDE DEF cas
      <4> QED BY <1>2
    <3>2. TREE_DEPTH \in 0 .. TREE_DEPTH
      BY ListAssumption
    <3> QED BY <3>1, <3>2, CapacityFacts
  <2> HIDE DEF m, index, cas
  <2>4. index + 1 = m
    BY <2>1, <2>2
  <2> QED BY <1>2, <2>1, <2>2, <2>3, <2>4 DEF m
<1>7. TrustPath(out, key) = own
  BY <1>6 DEF TrustPath
<1>8. leaves[index + 1] = commitSpki(key) /\ index < Len(leaves)
  <2>1. index + 1 \in 1 .. Len(cas)
    <3>1. Len(cas) \in Nat
      <4> HIDE DEF cas
      <4> QED BY <1>2
    <3> HIDE DEF index, cas
    <3> QED BY <1>6, <3>1
  <2> HIDE DEF leaves, index, cas
  <2> QED BY <1>3, <1>6, <2>1
<1>9. verify(commitSpki(key), own, Root(out.layers))
  <2> DEFINE p == [path |-> buildInclusionPath(index, Layers(leaves)), bits |-> pathBits(index)]
  <2>1. own = p /\ Root(out.layers) = Root(Layers(leaves))
    BY <1>2
  <2> HIDE DEF own, leaves, V, cas, index
  <2>2. \A leaf : verify(leaf, p, Root(Layers(leaves)))
                  <=> leaf = IF index < Len(leaves) THEN leaves[index + 1] ELSE Num(0)
    BY <1>2, <1>3, <1>6, EveryPlaceHasItsPath
  <2> QED BY <1>8, <2>1, <2>2
<1> QED BY <1>7, <1>9
====
