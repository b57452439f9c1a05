------------------------- MODULE PresentationProofs -------------------------
(***************************************************************************)
(* What a proof that passes the gates of the registry says, for any sizes  *)
(* of the circuit, any certificates and any signatures.                    *)
(***************************************************************************)
EXTENDS Presentation, TrustedListProofs, FiniteSetTheorems

-----------------------------------------------------------------------------
(***************************************************************************)
(* Identity                                                                *)
(***************************************************************************)

\* What is packed binds every byte of the window and the length.
LEMMA SubjectPackBinds ==
    ASSUME NEW f, NEW g, NEW m, NEW n, SubjectPack(f, m) = SubjectPack(g, n)
    PROVE  m = n /\ \A i \in 1 .. MAX_SERIAL : f[i] = g[i]
<1> DEFINE M == MAX_SERIAL
           p == [i \in 1 .. M |-> Num(f[i])]
           q == [i \in 1 .. M |-> Num(g[i])]
           x == Num(m)
           y == Num(n)
           V == {p[i] : i \in 1 .. M} \cup {q[i] : i \in 1 .. M} \cup {x, y}
<1>0. M \in Nat
  BY PresentationAssumption
<1>1. p \o <<x>> = q \o <<y>>
  BY DEF SubjectPack, Poseidon
<1>2. p \in [1 .. M -> V] /\ q \in [1 .. M -> V] /\ x \in V /\ y \in V
  OBVIOUS
<1>3. \A i \in 1 .. M : p[i] = Num(f[i]) /\ q[i] = Num(g[i])
  OBVIOUS
<1> HIDE DEF M, V, p, q, x, y
<1>4. p \in Seq(V) /\ q \in Seq(V) /\ Len(p) = M /\ Len(q) = M
  BY <1>0, <1>2
<1>5. <<x>> \in Seq(V) /\ <<y>> \in Seq(V) /\ Len(<<x>>) = 1 /\ Len(<<y>>) = 1
      /\ <<x>>[1] = x /\ <<y>>[1] = y
  BY <1>2
<1> DEFINE xs == <<x>>
           ys == <<y>>
<1>6. xs \in Seq(V) /\ ys \in Seq(V) /\ Len(xs) = 1 /\ Len(ys) = 1 /\ xs[1] = x /\ ys[1] = y
      /\ p \o xs = q \o ys
  BY <1>1, <1>5
<1> HIDE DEF xs, ys
<1>7. (p \o xs)[Len(p) + 1] = xs[1] /\ \A i \in 1 .. Len(p) : (p \o xs)[i] = p[i]
  BY <1>4, <1>6, AppendedFacts
<1>8. (q \o ys)[Len(q) + 1] = ys[1] /\ \A i \in 1 .. Len(q) : (q \o ys)[i] = q[i]
  BY <1>4, <1>6, AppendedFacts
<1>9. x = y /\ \A i \in 1 .. M : p[i] = q[i]
  BY <1>4, <1>6, <1>7, <1>8, Zenon
<1>10. m = n
  BY <1>9 DEF x, y, Num
<1>11. ASSUME NEW i \in 1 .. M PROVE f[i] = g[i]
  <2>1. Num(f[i]) = Num(g[i])
    BY <1>3, <1>9
  <2> QED BY <2>1 DEF Num
<1> QED BY <1>10, <1>11 DEF M

\* Two serials, within the size that the builder takes, do not have one
\* fingerprint, whatever zeros they end with.
THEOREM FingerprintBinds ==
    ASSUME NEW S, NEW a \in Seq(S), NEW b \in Seq(S), Len(a) <= MAX_SERIAL, Len(b) <= MAX_SERIAL,
           computeIdentityFingerprint(a) = computeIdentityFingerprint(b)
    PROVE  a = b
<1> DEFINE x == SubjectPack(ZeroFilled(a), Len(a))
           y == SubjectPack(ZeroFilled(b), Len(b))
           d == FINGERPRINT_DOMAIN
<1>1. <<x, d>> = <<y, d>>
  BY DEF computeIdentityFingerprint, Poseidon
<1> HIDE DEF x, y, d
<1>2. x = y
  BY <1>1
<1>3. Len(a) = Len(b) /\ \A i \in 1 .. MAX_SERIAL : ZeroFilled(a)[i] = ZeroFilled(b)[i]
  BY <1>2, SubjectPackBinds DEF x, y
<1>4. ASSUME NEW i \in 1 .. Len(a) PROVE a[i] = b[i]
  <2>1. i \in 1 .. MAX_SERIAL /\ i <= Len(a) /\ i <= Len(b)
    BY <1>3, PresentationAssumption
  <2>2. ZeroFilled(a)[i] = a[i] /\ ZeroFilled(b)[i] = b[i]
    BY <2>1 DEF ZeroFilled
  <2> QED BY <1>3, <2>1, <2>2
<1> QED BY <1>3, <1>4

\* The value of the serial number attribute that starts at p of the signed
\* part of a certificate.
SerialAt(tbs, p, value) ==
    /\ p + 7 + Len(value) <= Len(tbs)
    /\ Slice(tbs, p, 5) = OID_SERIAL
    /\ tbs[p + 6] \in {PRINTABLE, UTF8}
    /\ tbs[p + 7] = Len(value)
    /\ \A i \in 1 .. Len(value) : value[i] = tbs[p + 7 + i]

\* What a prover may choose: any bytes and any places in them.
Chosen(w) ==
    /\ w.leafTbs \in Seq(Nat) /\ w.leafSpki \in Keys /\ w.leafSpkiOffsetInTbs \in Nat
    /\ w.serialLength \in Nat /\ w.serialOidOffsetInTbs \in Nat /\ w.serialOffsetInTbs \in Nat

\* What the circuit packs is the whole value of a serial number attribute of
\* the signed part, and nothing else, wherever a witness points and whatever
\* certificate it takes the window from.
THEOREM OnlyTheSerial ==
    ASSUME NEW w, Chosen(w), SerialInCert(w), SerialInTbs(w), SerialAnchored(w)
    PROVE  \E value \in Seq(Nat) :
              /\ SerialAt(w.leafTbs, w.serialOidOffsetInTbs, value)
              /\ Len(value) \in 1 .. MAX_SERIAL
              /\ Pack(w) = SubjectPack(ZeroFilled(value), Len(value))
<1> DEFINE tbs == w.leafTbs
           p == w.serialOidOffsetInTbs
           n == w.serialLength
           value == [i \in 1 .. n |-> tbs[p + 7 + i]]
<1>1. tbs \in Seq(Nat) /\ p \in Nat /\ n \in 1 .. MAX_SERIAL /\ MAX_SERIAL \in Nat
  BY PresentationAssumption DEF Chosen, SerialInCert
<1>2. /\ p + 7 + n <= Len(tbs)
      /\ Slice(tbs, p, 5) = OID_SERIAL
      /\ tbs[p + 6] \in {PRINTABLE, UTF8}
      /\ tbs[p + 7] = n
      /\ \A i \in 1 .. n : tbs[p + 7 + i] = SerialBytes(w)[i]
  BY DEF SerialInTbs, SerialAnchored
<1>3. value \in [1 .. n -> Nat] /\ \A i \in 1 .. n : value[i] = tbs[p + 7 + i]
  <2>1. ASSUME NEW i \in 1 .. n PROVE tbs[p + 7 + i] \in Nat
    <3>1. p + 7 + i \in 1 .. Len(tbs)
      <4> HIDE DEF tbs, p, n
      <4> QED BY <1>1, <1>2
    <3> HIDE DEF tbs, p
    <3> QED BY <1>1, <3>1
  <2> QED BY <2>1
<1>4. \A i \in 1 .. MAX_SERIAL : i > n => SerialBytes(w)[i] = 0
  <2>1. \A i \in 1 .. MAX_SERIAL : i > n => ~(i <= n)
    <3> HIDE DEF n
    <3> QED BY <1>1
  <2> QED BY <2>1 DEF SerialBytes
<1> HIDE DEF value
<1>5. value \in Seq(Nat) /\ Len(value) = n
  <2> HIDE DEF n
  <2> QED BY <1>1, <1>3
<1>6. SerialAt(tbs, p, value)
  BY <1>2, <1>3, <1>5 DEF SerialAt
<1>7. \A i \in 1 .. MAX_SERIAL : SerialBytes(w)[i] = ZeroFilled(value)[i]
  <2>1. ASSUME NEW i \in 1 .. MAX_SERIAL PROVE SerialBytes(w)[i] = ZeroFilled(value)[i]
    <3>1. ZeroFilled(value)[i] = IF i <= n THEN value[i] ELSE 0
      BY <1>5 DEF ZeroFilled
    <3>2. CASE i <= n
      <4>1. i \in 1 .. n
        <5> HIDE DEF n
        <5> QED BY <1>1, <3>2
      <4> QED BY <1>2, <1>3, <3>1, <3>2, <4>1
    <3>3. CASE ~(i <= n)
      <4>1. i > n
        <5> HIDE DEF n
        <5> QED BY <1>1, <3>3
      <4> QED BY <1>4, <3>1, <3>3, <4>1
    <3> QED BY <3>2, <3>3
  <2> QED BY <2>1
<1>8. Pack(w) = SubjectPack(ZeroFilled(value), Len(value))
  <2>1. [i \in 1 .. MAX_SERIAL |-> Num(SerialBytes(w)[i])]
        = [i \in 1 .. MAX_SERIAL |-> Num(ZeroFilled(value)[i])]
    BY <1>7
  <2> QED BY <1>5, <2>1 DEF Pack, SubjectPack
<1> QED BY <1>1, <1>5, <1>6, <1>8

-----------------------------------------------------------------------------
(***************************************************************************)
(* Gates                                                                   *)
(***************************************************************************)

\* A digest is of one message.
LEMMA DigestBinds == ASSUME NEW m, NEW n, Sha256(m) = Sha256(n) PROVE m = n
<1>1. Sha256(m).digestOf = m /\ Sha256(n).digestOf = n
  BY DEF Sha256
<1> QED BY <1>1

\* A call that passes gates 1 to 4 with a proof of the circuit is made of
\* pieces that belong together.  A service of the country grants the key of
\* the intermediate, which signed the very certificate of the witness; the key
\* of the call is in that certificate, and signed the attributes of the call,
\* which hold the digest of the binding that the proof shows; and the identity
\* that the registry stores is of a serial number of that certificate.
THEOREM AcceptedIsAttested ==
    ASSUME NEW w, Chosen(w), Satisfies(w),
           NEW signed, NEW call, call.leafSpki \in Keys, call.intSpki \in Keys,
           ProofGates(signed, PublicSignals(w), call),
           NEW territories, NEW country,
           NEW services \in Seq(Services(territories, Seq(Keys))),
           NEW out \in Publishes(services, country),
           NEW path, verify(commitSpki(call.intSpki), path, Root(out.layers))
    PROVE  /\ \E i \in DOMAIN services : Grants(services[i], country, call.intSpki)
           /\ <<call.intSpki, Sha256(w.leafTbs)>> \in signed
           /\ \E at \in Nat : /\ at + Len(call.leafSpki) <= Len(w.leafTbs)
                              /\ Slice(w.leafTbs, at, Len(call.leafSpki)) = call.leafSpki
           /\ <<call.leafSpki, Sha256(call.signedAttrs)>> \in signed
           /\ \E i \in MdAttrs(call.signedAttrs) :
                 call.signedAttrs[i].value = PublicSignals(w).bindingHash
           /\ PublicSignals(w).bindingHash = Sha256(w.binding)
           /\ PublicSignals(w).bindingPk = w.binding.pk
           /\ \E p \in Nat, value \in Seq(Nat) :
                 /\ SerialAt(w.leafTbs, p, value)
                 /\ Len(value) <= MAX_SERIAL
                 /\ PublicSignals(w).identityFingerprint = computeIdentityFingerprint(value)
<1> DEFINE s == PublicSignals(w)
<1>1. /\ s.signedAttrsHash = Sha256(w.signedAttrs) /\ s.leafTbsHash = Sha256(w.leafTbs)
      /\ s.leafKeyCommit = commitSpki(w.leafSpki)
      /\ s.identityFingerprint = Poseidon(<<Pack(w), FINGERPRINT_DOMAIN>>)
      /\ s.bindingHash = Sha256(w.binding) /\ s.bindingPk = w.binding.pk
  BY DEF PublicSignals
<1> HIDE DEF s
<1>2. /\ Sha256(call.signedAttrs) = s.signedAttrsHash
      /\ commitSpki(call.leafSpki) = s.leafKeyCommit
      /\ <<call.leafSpki, Sha256(call.signedAttrs)>> \in signed
      /\ <<call.intSpki, s.leafTbsHash>> \in signed
  BY DEF ProofGates, HostSigVerify, s
<1>3. call.signedAttrs = w.signedAttrs
  BY <1>1, <1>2, DigestBinds
<1>4. call.leafSpki = w.leafSpki
  BY <1>1, <1>2, CommitBinds DEF Chosen
<1>5. \E i \in DOMAIN services : Grants(services[i], country, call.intSpki)
  BY OnlyGrantedVerify
<1>6. \E at \in Nat : /\ at + Len(call.leafSpki) <= Len(w.leafTbs)
                     /\ Slice(w.leafTbs, at, Len(call.leafSpki)) = call.leafSpki
  <2>1. /\ w.leafSpkiOffsetInTbs \in Nat
        /\ w.leafSpkiOffsetInTbs + Len(w.leafSpki) <= Len(w.leafTbs)
        /\ Slice(w.leafTbs, w.leafSpkiOffsetInTbs, Len(w.leafSpki)) = w.leafSpki
    BY DEF Satisfies, SpkiInTbs, Chosen
  <2> QED BY <1>4, <2>1, Zenon
<1>7. \E i \in MdAttrs(call.signedAttrs) : call.signedAttrs[i].value = s.bindingHash
  <2>1. PICK i \in MdAttrs(w.signedAttrs) : w.signedAttrs[i].value = Sha256(w.binding)
    BY DEF Satisfies, BindingSigned
  <2> QED BY <1>1, <1>3, <2>1
<1>8. PICK value \in Seq(Nat) : /\ SerialAt(w.leafTbs, w.serialOidOffsetInTbs, value)
                                /\ Len(value) \in 1 .. MAX_SERIAL
                                /\ Pack(w) = SubjectPack(ZeroFilled(value), Len(value))
  BY OnlyTheSerial DEF Satisfies
<1>9. s.identityFingerprint = computeIdentityFingerprint(value)
  BY <1>1, <1>8 DEF computeIdentityFingerprint
<1>10. Len(value) <= MAX_SERIAL
  BY <1>8, PresentationAssumption
<1>11. w.serialOidOffsetInTbs \in Nat
  BY DEF Chosen
<1>12. \E p \in Nat, v \in Seq(Nat) :
          /\ SerialAt(w.leafTbs, p, v)
          /\ Len(v) <= MAX_SERIAL
          /\ s.identityFingerprint = computeIdentityFingerprint(v)
  BY <1>8, <1>9, <1>10, <1>11, Zenon
<1>13. <<call.intSpki, Sha256(w.leafTbs)>> \in signed
  BY <1>1, <1>2
<1> QED BY <1>1, <1>2, <1>5, <1>6, <1>7, <1>12, <1>13, Zenon DEF s

\* Two proofs show one identity exactly when the serial numbers that they were
\* made of are the same, so that what the registry stores under a fingerprint
\* is of one serial, whatever certificates, keys and places came with it.
THEOREM OneIdentityOneSerial ==
    ASSUME NEW v, Chosen(v), Satisfies(v), NEW w, Chosen(w), Satisfies(w)
    PROVE  \E a \in Seq(Nat), b \in Seq(Nat) :
              /\ SerialAt(v.leafTbs, v.serialOidOffsetInTbs, a)
              /\ SerialAt(w.leafTbs, w.serialOidOffsetInTbs, b)
              /\ PublicSignals(v).identityFingerprint = PublicSignals(w).identityFingerprint
                 <=> a = b
<1>1. ASSUME NEW u, Chosen(u), Satisfies(u)
      PROVE  \E s \in Seq(Nat) :
                /\ SerialAt(u.leafTbs, u.serialOidOffsetInTbs, s) /\ Len(s) <= MAX_SERIAL
                /\ PublicSignals(u).identityFingerprint = computeIdentityFingerprint(s)
  <2>1. PICK s \in Seq(Nat) : /\ SerialAt(u.leafTbs, u.serialOidOffsetInTbs, s)
                              /\ Len(s) \in 1 .. MAX_SERIAL
                              /\ Pack(u) = SubjectPack(ZeroFilled(s), Len(s))
    BY <1>1, OnlyTheSerial DEF Satisfies
  <2>2. Len(s) <= MAX_SERIAL
    BY <2>1, PresentationAssumption
  <2>3. PublicSignals(u).identityFingerprint = Poseidon(<<Pack(u), FINGERPRINT_DOMAIN>>)
    BY DEF PublicSignals
  <2> QED BY <2>1, <2>2, <2>3 DEF computeIdentityFingerprint
<1>2. PICK a \in Seq(Nat) :
        /\ SerialAt(v.leafTbs, v.serialOidOffsetInTbs, a) /\ Len(a) <= MAX_SERIAL
        /\ PublicSignals(v).identityFingerprint = computeIdentityFingerprint(a)
  BY <1>1
<1>3. PICK b \in Seq(Nat) :
        /\ SerialAt(w.leafTbs, w.serialOidOffsetInTbs, b) /\ Len(b) <= MAX_SERIAL
        /\ PublicSignals(w).identityFingerprint = computeIdentityFingerprint(b)
  BY <1>1
<1>4. computeIdentityFingerprint(a) = computeIdentityFingerprint(b) <=> a = b
  BY <1>2, <1>3, FingerprintBinds
<1> QED BY <1>2, <1>3, <1>4, Zenon

\* A rotation whose old commitment is the one that an earlier proof left is by
\* the holder of its secret, and of the same serial: the identity stays.
THEOREM RotationIsOfTheHolder ==
    ASSUME NEW v, Chosen(v), Satisfies(v), NEW w, Chosen(w), Satisfies(w),
           PublicSignals(w).rotationMode = 1,
           PublicSignals(w).rotationOldCommitment = PublicSignals(v).identityCommitment
    PROVE  /\ w.oldWalletSecret = v.walletSecret
           /\ PublicSignals(w).identityFingerprint = PublicSignals(v).identityFingerprint
<1> DEFINE x == Pack(v)
           y == Pack(w)
<1>1. Poseidon(<<y, Num(w.oldWalletSecret)>>) = Poseidon(<<x, Num(v.walletSecret)>>)
  BY DEF Satisfies, RotationGates, Commitment, PublicSignals
<1> HIDE DEF x, y
<1>2. y = x /\ Num(w.oldWalletSecret) = Num(v.walletSecret)
  BY <1>1 DEF Poseidon
<1>3. w.oldWalletSecret = v.walletSecret
  BY <1>2 DEF Num
<1>4. PublicSignals(w).identityFingerprint = Poseidon(<<y, FINGERPRINT_DOMAIN>>)
      /\ PublicSignals(v).identityFingerprint = Poseidon(<<x, FINGERPRINT_DOMAIN>>)
  BY DEF PublicSignals, x, y
<1> QED BY <1>2, <1>3, <1>4

-----------------------------------------------------------------------------
(***************************************************************************)
(* The witness builder                                                     *)
(***************************************************************************)
LEMMA SliceFacts ==
    ASSUME NEW V, NEW bytes \in Seq(V), NEW at \in Nat, NEW n \in Nat, at + n <= Len(bytes)
    PROVE  /\ Slice(bytes, at, n) \in Seq(V) /\ Len(Slice(bytes, at, n)) = n
           /\ \A k \in 1 .. n : Slice(bytes, at, n)[k] = bytes[at + k]
<1> DEFINE c == SubSeq(bytes, at + 1, at + n)
<1>1. Slice(bytes, at, n) = c
  <2>1. (IF at + n < Len(bytes) THEN at + n ELSE Len(bytes)) = at + n
    OBVIOUS
  <2> QED BY <2>1 DEF Slice
<1>2. c \in Seq(V) /\ Len(c) = n /\ \A k \in 1 .. n : c[k] = bytes[at + 1 + k - 1]
  OBVIOUS
<1> HIDE DEF c
<1>3. \A k \in 1 .. n : at + 1 + k - 1 = at + k
  OBVIOUS
<1> QED BY <1>1, <1>2, <1>3

LEMMA SeqEqual ==
    ASSUME NEW V, NEW s \in Seq(V), NEW t \in Seq(V), Len(s) = Len(t),
           \A k \in 1 .. Len(s) : s[k] = t[k]
    PROVE  s = t
OBVIOUS

\* What a slice holds, and that two slices of the same bytes are the same.
LEMMA ByteSlices ==
    \A x \in Seq(Nat), i \in Nat, n \in Nat : i + n <= Len(x) =>
        /\ Slice(x, i, n) \in Seq(Nat) /\ Len(Slice(x, i, n)) = n
        /\ \A k \in 1 .. n : Slice(x, i, n)[k] = x[i + k]
<1> TAKE x \in Seq(Nat), i \in Nat, n \in Nat
<1> HAVE i + n <= Len(x)
<1> QED BY SliceFacts

LEMMA SlicesAgree ==
    \A n \in Nat : \A x \in Seq(Nat), y \in Seq(Nat), i \in Nat, j \in Nat :
        i + n <= Len(x) /\ j + n <= Len(y) /\ (\A k \in 1 .. n : x[i + k] = y[j + k])
        => Slice(x, i, n) = Slice(y, j, n)
<1> TAKE n \in Nat
<1> TAKE x \in Seq(Nat), y \in Seq(Nat), i \in Nat, j \in Nat
<1> HAVE i + n <= Len(x) /\ j + n <= Len(y) /\ (\A k \in 1 .. n : x[i + k] = y[j + k])
<1> DEFINE a == Slice(x, i, n)
           b == Slice(y, j, n)
<1>1. a \in Seq(Nat) /\ Len(a) = n /\ \A k \in 1 .. n : a[k] = x[i + k]
  BY ByteSlices, Zenon
<1>2. b \in Seq(Nat) /\ Len(b) = n /\ \A k \in 1 .. n : b[k] = y[j + k]
  BY ByteSlices, Zenon
<1> HIDE DEF a, b
<1>3. \A k \in 1 .. n : a[k] = b[k]
  BY <1>1, <1>2, Zenon
<1>4. a = b
  BY <1>1, <1>2, <1>3
<1> QED BY <1>4 DEF a, b

LEMMA FiveAgree ==
    \A x \in Seq(Nat), y \in Seq(Nat), i \in Nat, j \in Nat :
        i + 5 <= Len(x) /\ j + 5 <= Len(y) /\ (\A k \in 1 .. 5 : x[i + k] = y[j + k])
        => Slice(x, i, 5) = Slice(y, j, 5)
<1> DEFINE n == 5
<1>1. n \in Nat
  OBVIOUS
<1> SUFFICES \A x \in Seq(Nat), y \in Seq(Nat), i \in Nat, j \in Nat :
        i + n <= Len(x) /\ j + n <= Len(y) /\ (\A k \in 1 .. n : x[i + k] = y[j + k])
        => Slice(x, i, n) = Slice(y, j, n)
  OBVIOUS
<1> HIDE DEF n
<1> QED BY <1>1, SlicesAgree, Zenon

\* A certificate of which the walk knows the parts.
Walked(cert) ==
    /\ {cert.issuer, cert.subject, cert.spki, cert.extensions} \subseteq Seq(Nat)
    /\ cert.spki # <<>>

\* z is x and then y.
Joint(z, x, y) ==
    /\ z \in Seq(Nat) /\ Len(z) = Len(x) + Len(y)
    /\ Len(x) \in Nat /\ Len(y) \in Nat
    /\ \A j \in 1 .. Len(x) : z[j] = x[j]
    /\ \A j \in 1 .. Len(y) : z[Len(x) + j] = y[j]

LEMMA JointFacts ==
    ASSUME NEW x \in Seq(Nat), NEW y \in Seq(Nat)
    PROVE  Joint(x \o y, x, y)
BY ConcatFacts DEF Joint

\* The signed part is the certificate but for one byte on each side, and has
\* the key where the walk finds it.
LEMMA CertificateFacts ==
    ASSUME NEW cert, Walked(cert)
    PROVE  /\ Tbs(cert) \in Seq(Nat) /\ Der(cert) \in Seq(Nat)
           /\ Len(Der(cert)) = Len(Tbs(cert)) + 2
           /\ \A k \in 1 .. Len(Tbs(cert)) : Der(cert)[k + 1] = Tbs(cert)[k]
           /\ Len(cert.issuer \o cert.subject) \in Nat /\ Len(cert.spki) \in Nat \ {0}
           /\ Len(cert.issuer \o cert.subject) + Len(cert.spki) <= Len(Tbs(cert))
           /\ Slice(Tbs(cert), Len(cert.issuer \o cert.subject), Len(cert.spki)) = cert.spki
<1> DEFINE a == cert.issuer \o cert.subject
           b == cert.spki
           ab == a \o b
           tbs == ab \o cert.extensions
           front == HEADER \o tbs
<1>1. a \in Seq(Nat) /\ b \in Seq(Nat) /\ cert.extensions \in Seq(Nat) /\ b # <<>>
  <2>1. cert.issuer \in Seq(Nat) /\ cert.subject \in Seq(Nat) /\ b \in Seq(Nat)
        /\ cert.extensions \in Seq(Nat) /\ b # <<>>
    BY DEF Walked
  <2> QED BY <2>1, ConcatFacts
<1> HIDE DEF a, b
<1>2. Joint(ab, a, b)
  BY <1>1, JointFacts
<1> HIDE DEF ab
<1>3. Joint(tbs, ab, cert.extensions)
  BY <1>1, <1>2, JointFacts DEF Joint
<1> HIDE DEF tbs
<1>4. HEADER \in Seq(Nat) /\ Len(HEADER) = 1 /\ SIGNATURE \in Seq(Nat) /\ Len(SIGNATURE) = 1
  BY DEF HEADER, SIGNATURE
<1>5. Joint(front, HEADER, tbs)
  <2>1. tbs \in Seq(Nat)
    BY <1>3 DEF Joint
  <2> QED BY <1>4, <2>1, JointFacts, Zenon
<1> HIDE DEF front
<1> DEFINE der == front \o SIGNATURE
<1>6. Joint(der, front, SIGNATURE)
  <2>1. front \in Seq(Nat)
    BY <1>5, Zenon DEF Joint
  <2> QED BY <1>4, <2>1, JointFacts, Zenon
<1> HIDE DEF der
<1> DEFINE la == Len(a)
           lb == Len(b)
           lab == Len(ab)
           lt == Len(tbs)
           le == Len(cert.extensions)
           lf == Len(front)
           ld == Len(der)
<1>7. /\ la \in Nat /\ lb \in Nat \ {0} /\ lab = la + lb /\ lab <= lt /\ lt \in Nat
      /\ ld = lt + 2 /\ lf = lt + 1
  <2>1. lab = la + lb /\ la \in Nat /\ lb \in Nat
    BY <1>2, Zenon DEF Joint
  <2>2. lt = lab + le /\ le \in Nat
    BY <1>3, Zenon DEF Joint
  <2>3. lf = 1 + lt
    BY <1>4, <1>5, Zenon DEF Joint
  <2>4. ld = lf + 1
    BY <1>4, <1>6, Zenon DEF Joint
  <2>5. lb # 0
    BY <1>1
  <2> HIDE DEF la, lb, lab, lt, le, lf, ld
  <2> QED BY <2>1, <2>2, <2>3, <2>4, <2>5
<1>l. Len(front) = lt + 1 /\ Len(der) = lt + 2
  BY <1>7
<1>8. ASSUME NEW k \in 1 .. lt PROVE der[k + 1] = tbs[k]
  <2>1. k + 1 \in 1 .. Len(front) /\ 1 + k = k + 1
    <3> HIDE DEF lt
    <3> QED BY <1>7, <1>l
  <2>2. der[k + 1] = front[k + 1]
    BY <1>6, <2>1, Zenon DEF Joint
  <2>3. front[1 + k] = tbs[k]
    BY <1>4, <1>5, Zenon DEF Joint
  <2> QED BY <2>1, <2>2, <2>3
<1>9. ASSUME NEW k \in 1 .. lb PROVE tbs[la + k] = b[k]
  <2>1. la + k \in 1 .. lab
    <3> HIDE DEF la, lb, lab, lt
    <3> QED BY <1>7
  <2>2. tbs[la + k] = ab[la + k]
    BY <1>3, <2>1, Zenon DEF Joint
  <2>3. ab[la + k] = b[k]
    BY <1>2, Zenon DEF Joint
  <2> QED BY <2>2, <2>3
<1>10. Slice(tbs, la, lb) = b
  <2> DEFINE c == Slice(tbs, la, lb)
  <2>1. tbs \in Seq(Nat) /\ la \in Nat /\ lb \in Nat /\ la + lb <= Len(tbs)
    <3>1. la + lb <= lt /\ la \in Nat /\ lb \in Nat
      <4> HIDE DEF la, lb, lab, lt
      <4> QED BY <1>7
    <3> QED BY <1>3, <3>1, Zenon DEF Joint
  <2> HIDE DEF la, lb
  <2>2. c \in Seq(Nat) /\ Len(c) = lb /\ \A k \in 1 .. lb : c[k] = tbs[la + k]
    <3> HIDE DEF tbs
    <3> QED BY <2>1, SliceFacts
  <2>3. \A k \in 1 .. lb : c[k] = b[k]
    BY <1>9, <2>2, Zenon
  <2>4. Len(c) = Len(b)
    BY <2>2 DEF lb
  <2> HIDE DEF c
  <2>5. c = b
    <3> HIDE DEF lb
    <3>1. \A k \in 1 .. Len(c) : c[k] = b[k]
      BY <2>2, <2>3, Zenon
    <3> QED BY <1>1, <2>2, <2>4, <3>1, SeqEqual, Zenon
  <2> QED BY <2>5 DEF c
<1>11. tbs \in Seq(Nat) /\ der \in Seq(Nat)
  BY <1>3, <1>6, Zenon DEF Joint
<1>12. Tbs(cert) = tbs /\ Der(cert) = der
  BY DEF Tbs, Der, tbs, der, front, ab, a, b
<1>13. la + lb <= lt
  <2> HIDE DEF la, lb, lab, lt
  <2> QED BY <1>7
<1> QED BY <1>7, <1>l, <1>8, <1>10, <1>11, <1>12, <1>13 DEF a, b

\* What the builder puts in a witness of a serial that it found, and what it
\* has checked before.
Built(serial, cert, intSpki, attrs, binding, secret, rotation, w) ==
    /\ Len(Slice(Der(cert), serial.offset, serial.length)) <= MAX_SERIAL
    /\ serial.offset - 1 >= 7
    /\ Len(Der(cert)) <= MAX_CERT
    /\ PaddedLen(AttrsLength(attrs)) <= MAX_SA
    /\ PaddedLen(Len(Tbs(cert))) <= MAX_LEAF_TBS
    /\ detect(cert.spki) = "P256" /\ detect(intSpki) = "P256"
    /\ Len(cert.spki) <= MAX_LEAF_SPKI
    /\ w.binding = binding /\ w.signedAttrs = attrs
    /\ w.mdAttrOffset \in findMessageDigestAttrOffset(attrs)
    /\ w.leafTbs = Tbs(cert) /\ w.leafCert = Der(cert)
    /\ w.serialOffset = serial.offset /\ w.serialLength = serial.length
    /\ w.serialOffsetInTbs = serial.offset - 1
    /\ w.serialOidOffsetInTbs = serial.offset - 1 - 7
    /\ w.leafSpki = Slice(Tbs(cert), Len(cert.issuer \o cert.subject), Len(cert.spki))
    /\ w.leafSpkiOffsetInTbs = Len(cert.issuer \o cert.subject)
    /\ w.walletSecret = secret
    /\ rotation = <<>> =>
          /\ w.rotationMode = 0
          /\ w.rotationOldCommitment =
                Poseidon(<<SubjectPack(ZeroFilled(Slice(Der(cert), serial.offset, serial.length)),
                                       serial.length), Num(secret)>>)

LEMMA BuiltFields ==
    ASSUME NEW cert, NEW intSpki, NEW attrs, NEW binding, NEW secret, NEW rotation,
           NEW w \in buildWitness(cert, intSpki, attrs, binding, secret, rotation)
    PROVE  \E serial \in findSubjectSerial(Der(cert)) :
              Built(serial, cert, intSpki, attrs, binding, secret, rotation, w)
<1>1. Len(HEADER) = 1
  BY DEF HEADER
<1>2. findTbsInCert(cert).offset = 1 /\ findTbsInCert(cert).length = Len(Tbs(cert))
      /\ findLeafSpkiInTbs(cert).offset = Len(cert.issuer \o cert.subject)
      /\ findLeafSpkiInTbs(cert).length = Len(cert.spki)
  BY <1>1, Zenon DEF findTbsInCert, findLeafSpkiInTbs
<1> DEFINE tbs == findTbsInCert(cert)
           spki == findLeafSpkiInTbs(cert)
           Old(serial) ==
               IF rotation = <<>>
               THEN Poseidon(<<SubjectPack(ZeroFilled(Slice(Der(cert), serial.offset, serial.length)),
                                           serial.length), Num(secret)>>)
               ELSE rotation[1].rotationOldCommitment
           secrets ==
               IF rotation = <<>> THEN [old |-> secret, mode |-> 0]
               ELSE [old |-> rotation[1].oldWalletSecret, mode |-> 1]
           new == IF rotation = <<>> THEN binding.pk ELSE rotation[1].rotationNewWallet
           key == Slice(Tbs(cert), spki.offset, spki.length)
<1> DEFINE Record(md, serial) ==
               [binding |-> binding, signedAttrs |-> attrs, mdAttrOffset |-> md,
                leafTbs |-> Tbs(cert), leafCert |-> Der(cert),
                serialOffset |-> serial.offset, serialLength |-> serial.length,
                serialOffsetInTbs |-> serial.offset - tbs.offset,
                serialOidOffsetInTbs |-> serial.offset - tbs.offset - 7,
                leafSpki |-> key, leafSpkiOffsetInTbs |-> spki.offset,
                walletSecret |-> secret, oldWalletSecret |-> secrets.old,
                rotationMode |-> secrets.mode, rotationOldCommitment |-> Old(serial),
                rotationNewWallet |-> new]
           Checked(serial) ==
               /\ Len(Slice(Der(cert), serial.offset, serial.length)) <= MAX_SERIAL
               /\ serial.offset - tbs.offset >= 7
               /\ Len(Der(cert)) <= MAX_CERT
               /\ PaddedLen(AttrsLength(attrs)) <= MAX_SA
               /\ PaddedLen(tbs.length) <= MAX_LEAF_TBS
               /\ detect(cert.spki) = "P256" /\ detect(intSpki) = "P256"
               /\ spki.length <= MAX_LEAF_SPKI
           mds == findMessageDigestAttrOffset(attrs)
           serials == {v \in findSubjectSerial(Der(cert)) : Checked(v)}
<1>a. w \in {Record(md, serial) : md \in mds, serial \in serials}
  BY DEF buildWitness
<1>b. \A v \in serials : v \in findSubjectSerial(Der(cert)) /\ Checked(v)
  <2> HIDE DEF Checked
  <2> QED OBVIOUS
<1> HIDE DEF serials, Record
<1>3. PICK md \in mds, serial \in serials : w = Record(md, serial)
  BY <1>a
<1>c. serial \in findSubjectSerial(Der(cert)) /\ Checked(serial)
  BY <1>b, <1>3
<1> HIDE DEF tbs, spki, Old, secrets, new, key
<1>4. /\ w.binding = binding /\ w.signedAttrs = attrs /\ w.mdAttrOffset = md
      /\ w.leafTbs = Tbs(cert) /\ w.leafCert = Der(cert)
      /\ w.serialOffset = serial.offset /\ w.serialLength = serial.length
      /\ w.serialOffsetInTbs = serial.offset - tbs.offset
      /\ w.serialOidOffsetInTbs = serial.offset - tbs.offset - 7
      /\ w.leafSpki = key /\ w.leafSpkiOffsetInTbs = spki.offset
      /\ w.walletSecret = secret /\ w.rotationMode = secrets.mode
      /\ w.rotationOldCommitment = Old(serial)
  BY <1>3 DEF Record
<1>5. rotation = <<>> =>
         /\ secrets.mode = 0
         /\ Old(serial) =
               Poseidon(<<SubjectPack(ZeroFilled(Slice(Der(cert), serial.offset, serial.length)),
                                      serial.length), Num(secret)>>)
  BY DEF secrets, Old
<1>6. /\ serial.offset - 1 >= 7 /\ PaddedLen(Len(Tbs(cert))) <= MAX_LEAF_TBS
      /\ Len(cert.spki) <= MAX_LEAF_SPKI
      /\ Len(Slice(Der(cert), serial.offset, serial.length)) <= MAX_SERIAL
      /\ Len(Der(cert)) <= MAX_CERT
      /\ PaddedLen(AttrsLength(attrs)) <= MAX_SA
      /\ detect(cert.spki) = "P256" /\ detect(intSpki) = "P256"
  BY <1>2, <1>c, Zenon DEF tbs, spki
<1>7. /\ w.serialOffsetInTbs = serial.offset - 1 /\ w.serialOidOffsetInTbs = serial.offset - 1 - 7
      /\ w.leafSpkiOffsetInTbs = Len(cert.issuer \o cert.subject)
      /\ w.leafSpki = Slice(Tbs(cert), Len(cert.issuer \o cert.subject), Len(cert.spki))
  BY <1>2, <1>4, Zenon DEF tbs, spki, key
<1> HIDE DEF Checked
<1>8. Built(serial, cert, intSpki, attrs, binding, secret, rotation, w)
  BY <1>3, <1>4, <1>5, <1>6, <1>7, Zenon DEF Built
<1> QED BY <1>8, <1>c

\* A hit of the search, and what it found.
LEMMA SerialFound ==
    ASSUME NEW der, NEW v \in findSubjectSerial(der)
    PROVE  \E p \in 0 .. Len(der) - Len(OID_SERIAL) - 3 :
              /\ Slice(der, p, 5) = OID_SERIAL /\ der[p + 6] \in {UTF8, PRINTABLE}
              /\ v.offset = p + 7 /\ v.length = der[p + 7]
<1>1. PICK p \in SerialHits(der) : v = ValueOf(der, p)
  BY DEF findSubjectSerial, First
<1>2. v.offset = p + 7 /\ v.length = der[p + 7]
  BY <1>1 DEF ValueOf
<1> QED BY <1>1, <1>2 DEF SerialHits

\* The attribute that a witness points to, at offset q of the signed part: a
\* serial number attribute, wherever it is, is one in the signed part too.
LEMMA BuiltAnchor ==
    ASSUME NEW cert, Walked(cert), NEW w,
           w.leafTbs = Tbs(cert), w.leafCert = Der(cert),
           NEW p \in 1 .. Len(Der(cert)) - 8,
           Slice(Der(cert), p, 5) = OID_SERIAL, Der(cert)[p + 6] \in {UTF8, PRINTABLE},
           w.serialLength = Der(cert)[p + 7],
           w.serialOffsetInTbs = p + 6, w.serialOidOffsetInTbs = p - 1
    PROVE  SerialAnchored(w)
<1> DEFINE der == Der(cert)
           tbs == Tbs(cert)
           lt == Len(tbs)
           ld == Len(der)
           q == p - 1
<1>1. tbs \in Seq(Nat) /\ der \in Seq(Nat) /\ ld = lt + 2 /\ \A k \in 1 .. lt : der[k + 1] = tbs[k]
  BY CertificateFacts, Zenon
<1>2. lt \in Nat /\ p \in 1 .. ld - 8
  <2>1. p \in 1 .. ld - 8
    OBVIOUS
  <2> HIDE DEF tbs, ld
  <2> QED BY <1>1, <2>1
<1> HIDE DEF der, tbs
<1>3. q \in Nat /\ q + 7 <= lt /\ q + 5 <= lt /\ p + 5 <= ld /\ p \in Nat /\ p + 6 = q + 7
  <2> HIDE DEF lt, ld
  <2> QED BY <1>1, <1>2
<1>4. ASSUME NEW k \in 1 .. 7 PROVE der[p + k] = tbs[q + k]
  <2>1. q + k \in 1 .. lt /\ (q + k) + 1 = p + k
    <3> HIDE DEF lt, ld
    <3> QED BY <1>2, <1>3
  <2>2. der[(q + k) + 1] = tbs[q + k]
    BY <1>1, <2>1, Zenon
  <2> QED BY <2>1, <2>2, Zenon
<1>5. Slice(tbs, q, 5) = Slice(der, p, 5)
  <2>1. \A k \in 1 .. 5 : tbs[q + k] = der[p + k]
    <3>1. \A k \in 1 .. 5 : k \in 1 .. 7
      OBVIOUS
    <3> QED BY <1>4, <3>1, Zenon
  <2>2. /\ tbs \in Seq(Nat) /\ der \in Seq(Nat) /\ q \in Nat /\ p \in Nat
        /\ q + 5 <= Len(tbs) /\ p + 5 <= Len(der)
    BY <1>1, <1>3
  <2> HIDE DEF q
  <2> QED BY <2>1, <2>2, FiveAgree, Zenon
<1>6. tbs[q + 6] = der[p + 6] /\ tbs[q + 7] = der[p + 7]
  <2>1. 6 \in 1 .. 7 /\ 7 \in 1 .. 7
    OBVIOUS
  <2> HIDE DEF q
  <2> QED BY <1>4, <2>1, Zenon
<1>7. /\ w.leafTbs = tbs /\ w.serialOidOffsetInTbs = q /\ w.serialOffsetInTbs = q + 7
      /\ w.serialLength = der[p + 7] /\ Slice(der, p, 5) = OID_SERIAL
      /\ der[p + 6] \in {UTF8, PRINTABLE}
  <2>1. w.serialOffsetInTbs = q + 7
    BY <1>3
  <2> QED BY <2>1 DEF der, tbs
<1>8. q + 7 <= Len(w.leafTbs)
  BY <1>3, <1>7
<1> HIDE DEF q
<1>9. Slice(w.leafTbs, q, 5) = OID_SERIAL
  BY <1>5, <1>7, Zenon
<1>10. w.leafTbs[q + 6] \in {PRINTABLE, UTF8} /\ w.leafTbs[q + 7] = w.serialLength
  <2>1. w.leafTbs[q + 6] = der[p + 6] /\ w.leafTbs[q + 7] = der[p + 7]
    BY <1>6, <1>7, Zenon
  <2> HIDE DEF UTF8, PRINTABLE
  <2>2. der[p + 6] = UTF8 \/ der[p + 6] = PRINTABLE
    BY <1>7
  <2> QED BY <1>7, <2>1, <2>2, Zenon
<1> QED BY <1>7, <1>8, <1>9, <1>10, Zenon DEF SerialAnchored

\* When the value ends within the certificate, the circuit's window of it is
\* what the builder packs.
LEMMA BuiltWindow ==
    ASSUME NEW cert, Walked(cert), NEW w, w.leafCert = Der(cert),
           NEW at \in Nat, NEW n \in Nat, at + n <= Len(Der(cert)),
           Len(Slice(Der(cert), at, n)) <= MAX_SERIAL,
           w.serialOffset = at, w.serialLength = n
    PROVE  /\ n <= MAX_SERIAL /\ Len(Slice(Der(cert), at, n)) = n
           /\ \A i \in 1 .. n : SerialBytes(w)[i] = Der(cert)[at + i]
           /\ Pack(w) = SubjectPack(ZeroFilled(Slice(Der(cert), at, n)), n)
<1> DEFINE der == Der(cert)
           value == Slice(der, at, n)
           ld == Len(der)
<1>1. der \in Seq(Nat)
  BY CertificateFacts, Zenon
<1>2. value \in Seq(Nat) /\ Len(value) = n /\ \A k \in 1 .. n : value[k] = der[at + k]
  <2> HIDE DEF der
  <2>1. der \in Seq(Nat) /\ at + n <= Len(der)
    BY <1>1 DEF der
  <2>2. at \in Nat /\ n \in Nat
    OBVIOUS
  <2> QED BY <2>1, <2>2, ByteSlices, Zenon
<1>3. n <= MAX_SERIAL /\ at + n <= ld /\ w.leafCert = der /\ MAX_SERIAL \in Nat /\ ld \in Nat
  <2>1. n <= MAX_SERIAL
    BY <1>2
  <2> QED BY <1>1, <2>1, PresentationAssumption
<1> HIDE DEF value
<1>4. ASSUME NEW i \in 1 .. MAX_SERIAL
      PROVE  /\ i <= n => SerialBytes(w)[i] = der[at + i] /\ ZeroFilled(value)[i] = der[at + i]
             /\ ~(i <= n) => SerialBytes(w)[i] = 0 /\ ZeroFilled(value)[i] = 0
  <2>1. SerialBytes(w)[i] = IF i <= n /\ at + i <= ld THEN der[at + i] ELSE 0
    <3> HIDE DEF der
    <3> QED BY <1>3 DEF SerialBytes
  <2>2. ZeroFilled(value)[i] = IF i <= n THEN value[i] ELSE 0
    BY <1>2 DEF ZeroFilled
  <2> HIDE DEF der, ld
  <2>3. i <= n => at + i <= ld /\ i \in 1 .. n
    BY <1>3
  <2> QED BY <1>2, <2>1, <2>2, <2>3
<1> HIDE DEF der
<1>5. \A i \in 1 .. n : SerialBytes(w)[i] = der[at + i]
  <2>1. \A i \in 1 .. n : i \in 1 .. MAX_SERIAL /\ i <= n
    <3> HIDE DEF ld
    <3> QED BY <1>3
  <2> QED BY <1>4, <2>1, Zenon
<1>6. \A i \in 1 .. MAX_SERIAL : Num(SerialBytes(w)[i]) = Num(ZeroFilled(value)[i])
  <2>1. ASSUME NEW i \in 1 .. MAX_SERIAL PROVE SerialBytes(w)[i] = ZeroFilled(value)[i]
    BY <1>4, Zenon
  <2> QED BY <2>1, Zenon
<1>7. [i \in 1 .. MAX_SERIAL |-> Num(SerialBytes(w)[i])]
      = [i \in 1 .. MAX_SERIAL |-> Num(ZeroFilled(value)[i])]
  BY <1>6
<1>8. Pack(w) = SubjectPack(ZeroFilled(value), n)
  BY <1>7, Zenon DEF Pack, SubjectPack
<1> QED BY <1>2, <1>3, <1>5, <1>8 DEF value, der

\* The key that the builder takes is the key of the certificate.
LEMMA BuiltKey ==
    ASSUME NEW cert, Walked(cert), NEW w, w.leafTbs = Tbs(cert),
           w.leafSpki = Slice(Tbs(cert), Len(cert.issuer \o cert.subject), Len(cert.spki)),
           w.leafSpkiOffsetInTbs = Len(cert.issuer \o cert.subject),
           Len(cert.spki) <= MAX_LEAF_SPKI
    PROVE  /\ w.leafSpki = cert.spki
           /\ SpkiInTbs(w) <=> Selectable(w.leafSpkiOffsetInTbs, MAX_LEAF_SPKI, MAX_LEAF_TBS)
<1> DEFINE at == Len(cert.issuer \o cert.subject)
           n == Len(cert.spki)
           tbs == Tbs(cert)
<1>1. n \in Nat \ {0} /\ at + n <= Len(tbs) /\ Slice(tbs, at, n) = cert.spki
  BY CertificateFacts, Zenon
<1>2. w.leafSpki = cert.spki
  BY <1>1
<1>3. n \in 1 .. MAX_LEAF_SPKI
  <2>1. n <= MAX_LEAF_SPKI /\ MAX_LEAF_SPKI \in Nat
    BY PresentationAssumption
  <2> HIDE DEF n
  <2> QED BY <1>1, <2>1
<1> HIDE DEF tbs, at, n
<1>4. /\ Len(w.leafSpki) = n /\ w.leafTbs = tbs /\ w.leafSpkiOffsetInTbs = at
      /\ w.leafSpki = Slice(tbs, at, n)
  BY <1>2 DEF n, tbs, at
<1>5. /\ Len(w.leafSpki) \in 1 .. MAX_LEAF_SPKI
      /\ w.leafSpkiOffsetInTbs + Len(w.leafSpki) <= Len(w.leafTbs)
      /\ Slice(w.leafTbs, w.leafSpkiOffsetInTbs, Len(w.leafSpki)) = w.leafSpki
  BY <1>1, <1>3, <1>4, Zenon
<1> QED BY <1>2, <1>5, Zenon DEF SpkiInTbs

\* What a builder leaves to the circuit: whether the message digest is within
\* a byte's reach, and the windows of the key and of the serial within the
\* circuit's buffers; that the serial is not empty, and ends in the signed part.
LeftToTheCircuit(w) ==
    /\ w.mdAttrOffset < MAX_MD_OFFSET
    /\ Selectable(w.leafSpkiOffsetInTbs, MAX_LEAF_SPKI, MAX_LEAF_TBS)
    /\ w.serialLength # 0
    /\ w.serialOffsetInTbs + w.serialLength <= Len(w.leafTbs)
    /\ Selectable(w.serialOffset, MAX_SERIAL, MAX_CERT)
    /\ Selectable(w.serialOffsetInTbs, MAX_SERIAL, MAX_LEAF_TBS)

\* The circuit takes what the builder makes of any certificate whose holder
\* signed the binding, but for what the builder leaves to it; in rotation mode
\* the old commitment, which the builder only passes on, must open too.  No
\* other gate of the circuit refuses a witness that was built.
THEOREM BuiltIsTaken ==
    ASSUME NEW cert, Walked(cert), NEW intSpki, NEW attrs, NEW binding, NEW secret, NEW rotation,
           NEW w \in buildWitness(cert, intSpki, attrs, binding, secret, rotation),
           \A i \in First(MdAttrs(attrs)) : attrs[i].value = Sha256(binding)
    PROVE  Satisfies(w) <=> LeftToTheCircuit(w) /\ (rotation = <<>> \/ RotationGates(w))
<1> DEFINE der == Der(cert)
           tbs == Tbs(cert)
           at == Len(cert.issuer \o cert.subject)
           Old(v) == Poseidon(<<SubjectPack(ZeroFilled(Slice(der, v.offset, v.length)), v.length),
                                Num(secret)>>)
<1>p. PICK v \in findSubjectSerial(der) :
        Built(v, cert, intSpki, attrs, binding, secret, rotation, w)
  BY BuiltFields
<1>1. /\ Len(Slice(der, v.offset, v.length)) <= MAX_SERIAL
      /\ v.offset - 1 >= 7
      /\ PaddedLen(AttrsLength(attrs)) <= MAX_SA
      /\ PaddedLen(Len(tbs)) <= MAX_LEAF_TBS
      /\ Len(cert.spki) <= MAX_LEAF_SPKI
      /\ w.binding = binding /\ w.signedAttrs = attrs
      /\ w.mdAttrOffset \in findMessageDigestAttrOffset(attrs)
      /\ w.leafTbs = tbs /\ w.leafCert = der
      /\ w.serialOffset = v.offset /\ w.serialLength = v.length
      /\ w.serialOffsetInTbs = v.offset - 1
      /\ w.serialOidOffsetInTbs = v.offset - 1 - 7
      /\ w.leafSpki = Slice(tbs, at, Len(cert.spki)) /\ w.leafSpkiOffsetInTbs = at
      /\ w.walletSecret = secret
      /\ rotation = <<>> => w.rotationMode = 0 /\ w.rotationOldCommitment = Old(v)
  BY <1>p, Zenon DEF Built
<1>2. PICK p \in 0 .. Len(der) - Len(OID_SERIAL) - 3 :
        /\ Slice(der, p, 5) = OID_SERIAL /\ der[p + 6] \in {UTF8, PRINTABLE}
        /\ v.offset = p + 7 /\ v.length = der[p + 7]
  BY SerialFound, Zenon
<1> DEFINE n == v.length
           lt == Len(tbs)
           ld == Len(der)
<1>3. tbs \in Seq(Nat) /\ der \in Seq(Nat) /\ ld = lt + 2 /\ at \in Nat
  BY CertificateFacts, Zenon
<1>4. lt \in Nat /\ ld \in Nat
  <2> HIDE DEF tbs, der
  <2> QED BY <1>3
<1>5. Len(OID_SERIAL) = 5
  BY DEF OID_SERIAL
<1>6. p \in 0 .. ld - 5 - 3
  BY <1>2, <1>5
<1>7. p \in 1 .. ld - 8 /\ p \in Nat /\ p + 7 \in 1 .. ld /\ p + 7 - 1 = p + 6 /\ p + 7 - 1 - 7 = p - 1
  <2>1. p + 7 - 1 >= 7
    BY <1>1, <1>2
  <2> HIDE DEF ld
  <2> QED BY <1>4, <1>6, <2>1
<1>8. n \in Nat
  <2>1. der[p + 7] \in Nat
    <3> HIDE DEF der
    <3> QED BY <1>3, <1>7
  <2> QED BY <1>2, <2>1
<1> HIDE DEF der, tbs, at, n, lt, ld, Old
<1>9. /\ w.serialOffset = p + 7 /\ w.serialLength = n /\ n = der[p + 7]
      /\ w.serialOffsetInTbs = p + 6 /\ w.serialOidOffsetInTbs = p - 1
  BY <1>1, <1>2, <1>7 DEF n
<1>10. SerialAnchored(w)
  <2>1. p \in 1 .. Len(Der(cert)) - 8
    BY <1>7 DEF der, ld
  <2> QED BY <1>1, <1>2, <1>9, <2>1, BuiltAnchor, Zenon DEF der, tbs
<1>11. SpkiInTbs(w) <=> Selectable(w.leafSpkiOffsetInTbs, MAX_LEAF_SPKI, MAX_LEAF_TBS)
  BY <1>1, BuiltKey, Zenon DEF tbs, at
<1>12. BindingSigned(w) <=> w.mdAttrOffset < MAX_MD_OFFSET
  <2>1. PICK i \in First(MdAttrs(attrs)) : w.mdAttrOffset = SizeBefore(attrs, i)
    BY <1>1 DEF findMessageDigestAttrOffset
  <2>2. i \in MdAttrs(attrs)
    BY <2>1 DEF First
  <2>3. attrs[i].value = Sha256(binding)
    BY <2>1
  <2>4. \E j \in MdAttrs(w.signedAttrs) :
           /\ SizeBefore(w.signedAttrs, j) = w.mdAttrOffset
           /\ w.signedAttrs[j].value = Sha256(w.binding)
    BY <1>1, <2>1, <2>2, <2>3, Zenon
  <2> QED BY <2>4, Zenon DEF BindingSigned
<1>13. ASSUME w.serialOffsetInTbs + w.serialLength <= Len(w.leafTbs)
       PROVE  /\ n <= MAX_SERIAL
              /\ \A i \in 1 .. n : w.leafTbs[w.serialOffsetInTbs + i] = SerialBytes(w)[i]
              /\ rotation = <<>> => RotationGates(w)
  <2>1. p + 6 + n <= lt
    BY <1>1, <1>9, <1>13 DEF lt
  <2>2. p + 7 \in Nat /\ (p + 7) + n <= ld
    BY <1>3, <1>4, <1>7, <1>8, <2>1
  <2>3. /\ n <= MAX_SERIAL /\ \A i \in 1 .. n : SerialBytes(w)[i] = der[(p + 7) + i]
        /\ Pack(w) = SubjectPack(ZeroFilled(Slice(der, p + 7, n)), n)
    <3> DEFINE o == p + 7
    <3>1. o \in Nat /\ o + n <= Len(Der(cert)) /\ w.serialOffset = o /\ w.leafCert = Der(cert)
      BY <1>1, <1>9, <2>2 DEF ld, der
    <3>2. Len(Slice(Der(cert), o, n)) <= MAX_SERIAL
      BY <1>1, <1>2 DEF n, der
    <3> HIDE DEF o
    <3>3. /\ w.leafCert = Der(cert) /\ o \in Nat /\ n \in Nat /\ o + n <= Len(Der(cert))
          /\ Len(Slice(Der(cert), o, n)) <= MAX_SERIAL
          /\ w.serialOffset = o /\ w.serialLength = n
      BY <1>8, <1>9, <3>1, <3>2
    <3>4. /\ n <= MAX_SERIAL
          /\ \A i \in 1 .. n : SerialBytes(w)[i] = Der(cert)[o + i]
          /\ Pack(w) = SubjectPack(ZeroFilled(Slice(Der(cert), o, n)), n)
      BY <3>3, BuiltWindow
    <3> QED BY <3>4 DEF o, der
  <2>4. ASSUME NEW i \in 1 .. n PROVE w.leafTbs[w.serialOffsetInTbs + i] = SerialBytes(w)[i]
    <3>1. p + 6 + i \in 1 .. lt /\ (p + 6 + i) + 1 = (p + 7) + i
      BY <1>4, <1>7, <1>8, <2>1
    <3>2. der[(p + 6 + i) + 1] = tbs[p + 6 + i]
      BY <3>1, CertificateFacts, Zenon DEF der, tbs, lt
    <3>3. w.leafTbs[w.serialOffsetInTbs + i] = tbs[p + 6 + i]
      BY <1>1, <1>9, Zenon
    <3> QED BY <2>3, <3>1, <3>2, <3>3, Zenon
  <2>5. ASSUME rotation = <<>> PROVE RotationGates(w)
    <3>1. w.rotationMode = 0 /\ w.rotationOldCommitment = Old(v)
      BY <1>1, <2>5
    <3>2. Old(v) = Poseidon(<<Pack(w), Num(w.walletSecret)>>)
      BY <1>1, <1>2, <2>3, Zenon DEF Old, n
    <3> HIDE DEF Old
    <3>3. w.rotationOldCommitment = Commitment(w, w.walletSecret)
      BY <3>1, <3>2, Zenon DEF Commitment
    <3> QED BY <3>1, <3>3 DEF RotationGates
  <2> QED BY <2>3, <2>4, <2>5
<1>14. PaddedLen(AttrsLength(w.signedAttrs)) <= MAX_SA /\ PaddedLen(Len(w.leafTbs)) <= MAX_LEAF_TBS
  BY <1>1, Zenon
<1>15. ASSUME n <= MAX_SERIAL PROVE w.serialLength \in 1 .. MAX_SERIAL <=> w.serialLength # 0
  BY <1>8, <1>9, <1>15, PresentationAssumption
<1>16. ASSUME Satisfies(w)
       PROVE  LeftToTheCircuit(w) /\ (rotation = <<>> \/ RotationGates(w))
  <2>1. w.serialOffsetInTbs + w.serialLength <= Len(w.leafTbs)
    BY <1>16 DEF Satisfies, SerialInTbs
  <2>2. n <= MAX_SERIAL
    BY <1>13, <2>1
  <2> QED BY <1>11, <1>12, <1>15, <1>16, <2>1, <2>2, Zenon
          DEF Satisfies, SerialInTbs, SerialInCert, LeftToTheCircuit
<1>17. ASSUME LeftToTheCircuit(w), rotation = <<>> \/ RotationGates(w)
       PROVE  Satisfies(w)
  <2>1. w.serialOffsetInTbs + w.serialLength <= Len(w.leafTbs)
    BY <1>17 DEF LeftToTheCircuit
  <2>2. /\ n <= MAX_SERIAL
        /\ \A i \in 1 .. n : w.leafTbs[w.serialOffsetInTbs + i] = SerialBytes(w)[i]
        /\ rotation = <<>> => RotationGates(w)
    BY <1>13, <2>1
  <2>3. SerialInCert(w)
    BY <1>15, <1>17, <2>2, Zenon DEF SerialInCert, LeftToTheCircuit
  <2>4. SerialInTbs(w)
    BY <1>9, <1>17, <2>2, Zenon DEF SerialInTbs, LeftToTheCircuit
  <2>5. BindingSigned(w) /\ SpkiInTbs(w) /\ RotationGates(w)
    BY <1>11, <1>12, <1>17, <2>2, Zenon DEF LeftToTheCircuit
  <2> QED BY <1>10, <1>14, <2>3, <2>4, <2>5, Zenon DEF Satisfies
<1> QED BY <1>16, <1>17, Zenon

\* What the builder makes passes gates 1 to 3 with the signatures of the
\* holder and of the intermediate and with the attributes and the keys that
\* the builder had: the contract computes what the circuit shows.
THEOREM BuiltPassesTheGates ==
    ASSUME NEW cert, Walked(cert), NEW intSpki, NEW attrs, NEW binding, NEW secret, NEW rotation,
           NEW w \in buildWitness(cert, intSpki, attrs, binding, secret, rotation),
           NEW signed, <<cert.spki, Sha256(attrs)>> \in signed, <<intSpki, Sha256(Tbs(cert))>> \in signed
    PROVE  ProofGates(signed, PublicSignals(w),
                      [signedAttrs |-> attrs, leafSpki |-> cert.spki, intSpki |-> intSpki])
<1> DEFINE call == [signedAttrs |-> attrs, leafSpki |-> cert.spki, intSpki |-> intSpki]
           s == PublicSignals(w)
<1>p. PICK v \in findSubjectSerial(Der(cert)) :
        Built(v, cert, intSpki, attrs, binding, secret, rotation, w)
  BY BuiltFields
<1>1. /\ detect(cert.spki) = "P256" /\ detect(intSpki) = "P256"
      /\ Len(cert.spki) <= MAX_LEAF_SPKI
      /\ w.signedAttrs = attrs /\ w.leafTbs = Tbs(cert)
      /\ w.leafSpki = Slice(Tbs(cert), Len(cert.issuer \o cert.subject), Len(cert.spki))
      /\ w.leafSpkiOffsetInTbs = Len(cert.issuer \o cert.subject)
  BY <1>p, Zenon DEF Built
<1>2. w.leafSpki = cert.spki
  BY <1>1, BuiltKey, Zenon
<1>3. /\ s.signedAttrsHash = Sha256(w.signedAttrs) /\ s.leafTbsHash = Sha256(w.leafTbs)
      /\ s.leafKeyCommit = commitSpki(w.leafSpki)
  BY DEF PublicSignals
<1>4. call.signedAttrs = attrs /\ call.leafSpki = cert.spki /\ call.intSpki = intSpki
  OBVIOUS
<1> HIDE DEF call, s
<1>5. "P256" \in {"P256", "RSA_2048"}
  OBVIOUS
<1>6. ProofGates(signed, s, call)
  BY <1>1, <1>2, <1>3, <1>4, <1>5, Zenon DEF ProofGates, HostSigVerify
<1> QED BY <1>6 DEF call, s

\* When the circuit takes it, it shows the fingerprint that the SDK computes of
\* the serial that it found; and outside of rotation mode the commitment that
\* the contract compares the old one with is the one that the proof shows.
THEOREM BuiltShowsTheSerial ==
    ASSUME NEW cert, Walked(cert), NEW intSpki, NEW attrs, NEW binding, NEW secret, NEW rotation,
           NEW w \in buildWitness(cert, intSpki, attrs, binding, secret, rotation),
           Satisfies(w)
    PROVE  /\ \E v \in findSubjectSerial(Der(cert)) :
                 PublicSignals(w).identityFingerprint =
                    computeIdentityFingerprint(Slice(Der(cert), v.offset, v.length))
           /\ w.rotationMode = 0 =>
                 PublicSignals(w).rotationOldCommitment = PublicSignals(w).identityCommitment
<1>1. PICK v \in findSubjectSerial(Der(cert)) :
        Built(v, cert, intSpki, attrs, binding, secret, rotation, w)
  BY BuiltFields
<1>2. PICK p \in 0 .. Len(Der(cert)) - Len(OID_SERIAL) - 3 :
        v.offset = p + 7 /\ v.length = Der(cert)[p + 7]
  BY SerialFound, Zenon
<1> DEFINE at == v.offset
           n == v.length
           ld == Len(Der(cert))
           lt == Len(Tbs(cert))
<1>3. ld = lt + 2 /\ ld \in Nat /\ lt \in Nat /\ Der(cert) \in Seq(Nat)
  <2>1. Der(cert) \in Seq(Nat) /\ Tbs(cert) \in Seq(Nat) /\ ld = lt + 2
    BY CertificateFacts, Zenon
  <2> QED BY <2>1
<1>4. Len(OID_SERIAL) = 5
  BY DEF OID_SERIAL
<1>5. p \in 0 .. ld - 5 - 3
  BY <1>4
<1>6. /\ w.leafCert = Der(cert) /\ w.serialOffset = at /\ w.serialLength = n
      /\ w.serialOffsetInTbs = at - 1 /\ Len(w.leafTbs) = lt
      /\ Len(Slice(Der(cert), at, n)) <= MAX_SERIAL
  BY <1>1, Zenon DEF Built
<1>7. w.serialOffsetInTbs + w.serialLength <= Len(w.leafTbs)
  BY DEF Satisfies, SerialInTbs
<1> HIDE DEF ld, lt
<1>8. at \in Nat /\ p + 7 \in 1 .. ld
  BY <1>2, <1>3, <1>5
<1>9. n \in Nat
  <2>1. Der(cert)[p + 7] \in Nat
    BY <1>3, <1>8 DEF ld
  <2> QED BY <1>2, <2>1
<1> HIDE DEF at, n
<1>10. at + n <= ld
  BY <1>3, <1>6, <1>7, <1>8, <1>9
<1>11. /\ w.leafCert = Der(cert) /\ at \in Nat /\ n \in Nat /\ at + n <= Len(Der(cert))
       /\ Len(Slice(Der(cert), at, n)) <= MAX_SERIAL
       /\ w.serialOffset = at /\ w.serialLength = n
  BY <1>6, <1>8, <1>9, <1>10 DEF ld
<1>12. /\ Len(Slice(Der(cert), at, n)) = n
       /\ Pack(w) = SubjectPack(ZeroFilled(Slice(Der(cert), at, n)), n)
  BY <1>11, BuiltWindow
<1>13. PublicSignals(w).identityFingerprint = computeIdentityFingerprint(Slice(Der(cert), at, n))
  <2>1. PublicSignals(w).identityFingerprint = Poseidon(<<Pack(w), FINGERPRINT_DOMAIN>>)
    BY DEF PublicSignals
  <2> QED BY <1>12, <2>1, Zenon DEF computeIdentityFingerprint
<1>14. ASSUME w.rotationMode = 0
       PROVE  PublicSignals(w).rotationOldCommitment = PublicSignals(w).identityCommitment
  <2>1. PublicSignals(w).rotationOldCommitment = w.rotationOldCommitment
        /\ PublicSignals(w).identityCommitment = Commitment(w, w.walletSecret)
    BY DEF PublicSignals
  <2>2. w.rotationOldCommitment = Commitment(w, w.walletSecret)
    BY <1>14 DEF Satisfies, RotationGates
  <2> QED BY <2>1, <2>2
<1> QED BY <1>13, <1>14 DEF at, n

-----------------------------------------------------------------------------
(***************************************************************************)
(* Birth dates                                                             *)
(***************************************************************************)

\* The block of a birth date at p of the signed part, as the circuit takes it,
\* in which the string is the first byte 19 after the inner identifier.
BlockAt(tbs, p) ==
    /\ {q \in Positions(tbs, OUTER_OID, 0) : q + BLOCK_LEN <= Len(tbs)} = {p}
    /\ Slice(tbs, p + 11, 14) = INNER_OID
    /\ tbs[p + 26] # PRINTABLE /\ tbs[p + 27] # PRINTABLE
    /\ tbs[p + 28] = PRINTABLE /\ tbs[p + 29] >= 8

\* What a slice says of the bytes that it is taken from.
LEMMA SliceAt ==
    \A n \in Nat : \A x \in Seq(Nat), i \in Nat, s \in Seq(Nat) :
        i + n <= Len(x) /\ Slice(x, i, n) = s => \A k \in 1 .. n : x[i + k] = s[k]
<1> TAKE n \in Nat
<1> TAKE x \in Seq(Nat), i \in Nat, s \in Seq(Nat)
<1> HAVE i + n <= Len(x) /\ Slice(x, i, n) = s
<1> QED BY ByteSlices, Zenon

\* A slice of the certificate is the one of the signed part a byte before.
LEMMA SliceMoves ==
    ASSUME NEW cert, Walked(cert), NEW n \in Nat, NEW p \in Nat, p + n <= Len(Tbs(cert))
    PROVE  Slice(Der(cert), p + 1, n) = Slice(Tbs(cert), p, n)
<1> DEFINE der == Der(cert)
           tbs == Tbs(cert)
           lt == Len(tbs)
           i == p + 1
<1>1. tbs \in Seq(Nat) /\ der \in Seq(Nat) /\ Len(der) = lt + 2
      /\ \A k \in 1 .. lt : der[k + 1] = tbs[k]
  BY CertificateFacts, Zenon
<1>2. lt \in Nat /\ p + n <= lt
  BY <1>1
<1> HIDE DEF der, tbs, lt
<1>3. i \in Nat /\ i + n <= lt + 2
  BY <1>2
<1>4. ASSUME NEW k \in 1 .. n PROVE der[i + k] = tbs[p + k]
  <2>1. p + k \in 1 .. lt /\ (p + k) + 1 = i + k
    BY <1>2
  <2>2. der[(p + k) + 1] = tbs[p + k]
    BY <1>1, <2>1, Zenon
  <2> QED BY <2>1, <2>2, Zenon
<1>5. i + n <= Len(der) /\ p + n <= Len(tbs)
  BY <1>1, <1>2, <1>3 DEF lt
<1> HIDE DEF i
<1>6. Slice(der, i, n) = Slice(tbs, p, n)
  BY <1>1, <1>3, <1>4, <1>5, SlicesAgree, Zenon
<1> QED BY <1>6 DEF der, tbs, i

\* The first of some places, when it is known.
LEMMA FirstIs ==
    \A S \in SUBSET Nat : \A c \in S : (\A q \in S : c <= q) => First(S) = {c}
<1> TAKE S \in SUBSET Nat
<1> TAKE c \in S
<1> HAVE \A q \in S : c <= q
<1>1. c \in First(S)
  BY DEF First
<1>2. ASSUME NEW x \in First(S) PROVE x = c
  <2>1. x \in S /\ x <= c /\ c <= x
    BY <1>2 DEF First
  <2>2. x \in Nat /\ c \in Nat
    BY <2>1
  <2> QED BY <2>1, <2>2
<1> QED BY <1>1, <1>2

\* The certificate starts with its header.
LEMMA HeaderFirst == ASSUME NEW cert, Walked(cert) PROVE Der(cert)[1] = 48
<1> DEFINE tbs == Tbs(cert)
           front == HEADER \o tbs
<1>1. tbs \in Seq(Nat)
  BY CertificateFacts, Zenon
<1>2. HEADER \in Seq(Nat) /\ SIGNATURE \in Seq(Nat) /\ Len(HEADER) = 1 /\ HEADER[1] = 48
  BY DEF HEADER, SIGNATURE
<1>3. Der(cert) = front \o SIGNATURE
  BY DEF Der
<1> HIDE DEF tbs
<1>4. Joint(front, HEADER, tbs)
  BY <1>1, <1>2, JointFacts, Zenon
<1>5. front[1] = 48
  <2>1. 1 \in 1 .. Len(HEADER)
    BY <1>2
  <2> QED BY <1>2, <1>4, <2>1, Zenon DEF Joint
<1>6. front \in Seq(Nat) /\ Len(front) = Len(HEADER) + Len(tbs) /\ Len(tbs) \in Nat
  BY <1>4, Zenon DEF Joint
<1> HIDE DEF front
<1>7. Joint(front \o SIGNATURE, front, SIGNATURE)
  BY <1>2, <1>6, JointFacts, Zenon
<1>8. 1 \in 1 .. Len(front)
  BY <1>2, <1>6
<1> QED BY <1>3, <1>5, <1>7, <1>8, Zenon DEF Joint

\* A byte of the inner identifier, but for its first, is not its first one
\* until the eighth: none starts within six bytes before another.
LEMMA InnerApart ==
    ASSUME NEW x \in Seq(Nat), NEW i \in Nat, NEW j \in Nat, i + 14 <= Len(x), j + 14 <= Len(x),
           Slice(x, i, 14) = INNER_OID, Slice(x, j, 14) = INNER_OID, j - i \in 1 .. 6
    PROVE  FALSE
<1> DEFINE n == 14
<1>1. /\ INNER_OID \in Seq(Nat) /\ n \in Nat
      /\ i + n <= Len(x) /\ Slice(x, i, n) = INNER_OID
      /\ j + n <= Len(x) /\ Slice(x, j, n) = INNER_OID
  BY DEF INNER_OID
<1> HIDE DEF n
<1>2. \A m \in 1 .. n : x[i + m] = INNER_OID[m]
  BY <1>1, SliceAt, Zenon
<1>3. \A m \in 1 .. n : x[j + m] = INNER_OID[m]
  BY <1>1, SliceAt, Zenon
<1> DEFINE k == j - i + 1
<1>4. k \in 2 .. 7 /\ i + k = j + 1 /\ k \in 1 .. n /\ 1 \in 1 .. n
  BY DEF n
<1> HIDE DEF k
<1>5. INNER_OID[k] = INNER_OID[1]
  BY <1>2, <1>3, <1>4, Zenon
<1>6. /\ INNER_OID[1] = 6 /\ INNER_OID[2] = 12 /\ INNER_OID[3] = 42 /\ INNER_OID[4] = 134
      /\ INNER_OID[5] = 36 /\ INNER_OID[6] = 2 /\ INNER_OID[7] = 1
  BY DEF INNER_OID
<1>7. k = 2 \/ k = 3 \/ k = 4 \/ k = 5 \/ k = 6 \/ k = 7
  BY <1>4
<1> DEFINE y == INNER_OID[k]
<1>8. y = 12 \/ y = 42 \/ y = 134 \/ y = 36 \/ y = 2 \/ y = 1
  <2>1. /\ k = 2 => y = INNER_OID[2]
        /\ k = 3 => y = INNER_OID[3]
        /\ k = 4 => y = INNER_OID[4]
        /\ k = 5 => y = INNER_OID[5]
        /\ k = 6 => y = INNER_OID[6]
        /\ k = 7 => y = INNER_OID[7]
    OBVIOUS
  <2> HIDE DEF y
  <2> QED BY <1>6, <1>7, <2>1
<1>9. y = 6
  BY <1>5, <1>6
<1> HIDE DEF y
<1> QED BY <1>8, <1>9

\* The block in the certificate, and not only in its signed part, with nothing
\* before it that starts like it.
LEMMA OuterFirst ==
    ASSUME NEW cert, Walked(cert), NEW p \in Nat, BlockAt(Tbs(cert), p)
    PROVE  First(Positions(Der(cert), OUTER_OID, 0)) = {p + 1}
<1> DEFINE der == Der(cert)
           tbs == Tbs(cert)
           lt == Len(tbs)
           places == Positions(der, OUTER_OID, 0)
           c == p + 1
<1>1. der \in Seq(Nat) /\ tbs \in Seq(Nat) /\ Len(der) = lt + 2
  BY CertificateFacts, Zenon
<1>2. lt \in Nat /\ OUTER_OID \in Seq(Nat) /\ Len(OUTER_OID) = 5 /\ BLOCK_LEN = 37
  BY <1>1 DEF OUTER_OID, BLOCK_LEN
<1>3. \A q : q \in places <=> q \in 0 .. (lt + 2) - 5 /\ Slice(der, q, 5) = OUTER_OID
  BY <1>1, <1>2 DEF Positions
<1>4. \A q : q = p <=> q \in 0 .. lt - 5 /\ Slice(tbs, q, 5) = OUTER_OID /\ q + 37 <= lt
  <2>1. \A q : q = p <=> q \in Positions(tbs, OUTER_OID, 0) /\ q + 37 <= lt
    BY <1>2 DEF BlockAt
  <2> QED BY <1>2, <2>1 DEF Positions
<1>5. ASSUME NEW q \in 0 .. lt - 5 PROVE Slice(der, q + 1, 5) = Slice(tbs, q, 5)
  <2>1. q \in Nat /\ 5 \in Nat /\ q + 5 <= lt
    BY <1>2
  <2> QED BY <2>1, SliceMoves, Zenon
<1> HIDE DEF der, tbs, lt, places
<1>6. c \in places
  <2>1. p \in 0 .. lt - 5 /\ Slice(tbs, p, 5) = OUTER_OID
    BY <1>4
  <2>2. Slice(der, p + 1, 5) = OUTER_OID
    BY <1>5, <2>1, Zenon
  <2>3. p + 1 \in 0 .. (lt + 2) - 5
    BY <1>2, <2>1
  <2> QED BY <1>3, <2>2, <2>3
<1>7. ASSUME NEW q \in places PROVE c <= q
  <2>1. q \in 0 .. (lt + 2) - 5 /\ Slice(der, q, 5) = OUTER_OID
    BY <1>3
  <2>2. q # 0
    <3> SUFFICES ASSUME q = 0 PROVE FALSE
      OBVIOUS
    <3> DEFINE n == 5
               zero == 0
    <3>1. /\ der \in Seq(Nat) /\ OUTER_OID \in Seq(Nat) /\ n \in Nat /\ zero \in Nat
          /\ zero + n <= Len(der) /\ Slice(der, zero, n) = OUTER_OID
      BY <1>1, <1>2, <2>1 DEF lt
    <3>2. 1 \in 1 .. n /\ zero + 1 = 1
      OBVIOUS
    <3> HIDE DEF n, zero
    <3>3. \A k \in 1 .. n : der[zero + k] = OUTER_OID[k]
      BY <3>1, SliceAt, Zenon
    <3>4. der[zero + 1] = OUTER_OID[1]
      BY <3>2, <3>3, Zenon
    <3>5. OUTER_OID[1] = 6
      BY DEF OUTER_OID
    <3>6. der[1] = 48
      BY HeaderFirst, Zenon DEF der
    <3> QED BY <3>2, <3>4, <3>5, <3>6
  <2>3. ASSUME q < c PROVE FALSE
    <3> DEFINE r == q - 1
    <3>1. p \in 0 .. lt - 5 /\ p + 37 <= lt
      BY <1>4
    <3>2. r \in 0 .. lt - 5 /\ r + 1 = q /\ r + 37 <= lt /\ r # p
      BY <1>2, <2>1, <2>2, <2>3, <3>1
    <3> HIDE DEF r
    <3>3. Slice(tbs, r, 5) = OUTER_OID
      BY <1>5, <2>1, <3>2
    <3> QED BY <1>4, <3>2, <3>3
  <2> QED BY <1>2, <2>1, <2>3
<1>8. places \in SUBSET Nat
  BY <1>2, <1>3
<1> HIDE DEF c
<1>9. First(places) = {c}
  BY <1>6, <1>7, <1>8, FirstIs, Zenon
<1> QED BY <1>9 DEF places, der, c

LEMMA InnerFirst ==
    ASSUME NEW cert, Walked(cert), NEW p \in Nat, BlockAt(Tbs(cert), p)
    PROVE  First(Positions(Der(cert), INNER_OID, p + 1 + 5)) = {p + 12}
<1> DEFINE der == Der(cert)
           tbs == Tbs(cert)
           lt == Len(tbs)
           places == Positions(der, INNER_OID, p + 1 + 5)
           c == p + 12
<1>1. der \in Seq(Nat) /\ tbs \in Seq(Nat) /\ Len(der) = lt + 2
  BY CertificateFacts, Zenon
<1>2. lt \in Nat /\ Len(INNER_OID) = 14 /\ BLOCK_LEN = 37
  BY <1>1 DEF INNER_OID, BLOCK_LEN
<1>3. \A q : q \in places <=> q \in (p + 6) .. (lt + 2) - 14 /\ Slice(der, q, 14) = INNER_OID
  BY <1>1, <1>2 DEF Positions
<1>4. p + 37 <= lt
  <2>1. p \in {q \in Positions(tbs, OUTER_OID, 0) : q + BLOCK_LEN <= lt}
    BY DEF BlockAt
  <2> QED BY <1>2, <2>1
<1>5. Slice(der, c, 14) = INNER_OID
  <2> DEFINE a == p + 11
             n == 14
  <2>1. a \in Nat /\ n \in Nat /\ a + n <= lt /\ a + 1 = c
    BY <1>2, <1>4
  <2>2. Slice(tbs, a, n) = INNER_OID
    BY DEF BlockAt
  <2> HIDE DEF a, n, c
  <2>3. Slice(der, a + 1, n) = Slice(tbs, a, n)
    BY <2>1, SliceMoves
  <2> QED BY <2>1, <2>2, <2>3 DEF n
<1> HIDE DEF der, tbs, lt, places
<1>6. c \in places
  <2>1. c \in (p + 6) .. (lt + 2) - 14
    BY <1>2, <1>4
  <2> QED BY <1>3, <1>5, <2>1
<1>7. ASSUME NEW q \in places PROVE c <= q
  <2>1. q \in (p + 6) .. (lt + 2) - 14 /\ Slice(der, q, 14) = INNER_OID
    BY <1>3
  <2>2. ASSUME q < c PROVE FALSE
    <3>1. c - q \in 1 .. 6 /\ q \in Nat /\ c \in Nat
      BY <1>2, <2>1, <2>2
    <3>2. q + 14 <= Len(der) /\ c + 14 <= Len(der)
      BY <1>1, <1>2, <1>4, <2>1
    <3> HIDE DEF c
    <3> QED BY <1>1, <1>5, <2>1, <3>1, <3>2, InnerApart
  <2> QED BY <1>2, <2>1, <2>2
<1>8. places \in SUBSET Nat
  BY <1>2, <1>3
<1> HIDE DEF c
<1>9. First(places) = {c}
  BY <1>6, <1>7, <1>8, FirstIs, Zenon
<1> QED BY <1>9 DEF places, der, c

LEMMA TagFirst ==
    ASSUME NEW cert, Walked(cert), NEW p \in Nat, BlockAt(Tbs(cert), p)
    PROVE  First(Positions(Der(cert), <<PRINTABLE>>, p + 12 + 14)) = {p + 28}
<1> DEFINE der == Der(cert)
           tbs == Tbs(cert)
           lt == Len(tbs)
           tag == <<PRINTABLE>>
           places == Positions(der, tag, p + 12 + 14)
           c == p + 28
<1>1. der \in Seq(Nat) /\ tbs \in Seq(Nat) /\ Len(der) = lt + 2
      /\ \A k \in 1 .. lt : der[k + 1] = tbs[k]
  BY CertificateFacts, Zenon
<1>2. lt \in Nat /\ Len(tag) = 1 /\ BLOCK_LEN = 37 /\ tag[1] = PRINTABLE /\ tag \in Seq(Nat)
  BY <1>1 DEF BLOCK_LEN, PRINTABLE
<1>3. \A q : q \in places <=> q \in (p + 26) .. (lt + 2) - 1 /\ Slice(der, q, 1) = tag
  <2> HIDE DEF tag
  <2> QED BY <1>1, <1>2 DEF Positions
<1>4. p + 37 <= lt
  <2>1. p \in {q \in Positions(tbs, OUTER_OID, 0) : q + BLOCK_LEN <= lt}
    BY DEF BlockAt
  <2> QED BY <1>2, <2>1
<1>5. tbs[p + 26] # PRINTABLE /\ tbs[p + 27] # PRINTABLE /\ tbs[p + 28] = PRINTABLE
  BY DEF BlockAt
<1> HIDE DEF der, tbs, lt, places
<1>6. /\ p + 26 \in 1 .. lt /\ p + 27 \in 1 .. lt /\ p + 28 \in 1 .. lt
      /\ (p + 26) + 1 = p + 27 /\ (p + 27) + 1 = p + 28 /\ (p + 28) + 1 = p + 29
  BY <1>2, <1>4
<1>7. der[p + 27] # PRINTABLE /\ der[p + 28] # PRINTABLE /\ der[p + 29] = PRINTABLE
  BY <1>1, <1>5, <1>6, Zenon
<1>8. \A q \in Nat : q + 1 <= lt + 2 => (Slice(der, q, 1) = tag <=> der[q + 1] = PRINTABLE)
  <2> TAKE q \in Nat
  <2> HAVE q + 1 <= lt + 2
  <2> DEFINE n == 1
             z == Slice(der, q, n)
  <2>1. n \in Nat /\ q + n <= Len(der)
    BY <1>1 DEF lt
  <2> HIDE DEF n
  <2>2. z \in Seq(Nat) /\ Len(z) = n /\ \A k \in 1 .. n : z[k] = der[q + k]
    BY <1>1, <2>1, ByteSlices, Zenon
  <2> HIDE DEF z, tag
  <2>3. Len(z) = 1 /\ z[1] = der[q + 1]
    BY <2>2 DEF n
  <2>4. z = tag <=> z[1] = PRINTABLE
    <3>1. ASSUME z[1] = PRINTABLE PROVE z = tag
      <4>1. \A k \in 1 .. Len(z) : z[k] = tag[k]
        BY <1>2, <2>3, <3>1
      <4> QED BY <1>2, <2>2, <2>3, <4>1
    <3>2. ASSUME z = tag PROVE z[1] = PRINTABLE
      BY <1>2, <3>2
    <3> QED BY <3>1, <3>2
  <2> QED BY <2>3, <2>4 DEF z, n
<1> HIDE DEF tag
<1>9. c \in places
  <2>1. c \in (p + 26) .. (lt + 2) - 1 /\ c \in Nat /\ c + 1 <= lt + 2 /\ c + 1 = p + 29
    BY <1>2, <1>4
  <2> HIDE DEF c
  <2> QED BY <1>3, <1>7, <1>8, <2>1
<1>10. ASSUME NEW q \in places PROVE c <= q
  <2>1. q \in (p + 26) .. (lt + 2) - 1 /\ Slice(der, q, 1) = tag
    BY <1>3
  <2>2. q \in Nat /\ q + 1 <= lt + 2
    BY <1>2, <2>1
  <2>3. der[q + 1] = PRINTABLE
    BY <1>8, <2>1, <2>2, Zenon
  <2>4. q + 1 # p + 27 /\ q + 1 # p + 28
    BY <1>7, <2>3
  <2> QED BY <1>2, <2>1, <2>2, <2>4
<1>11. places \in SUBSET Nat
  BY <1>2, <1>3
<1> HIDE DEF c
<1>12. First(places) = {c}
  BY <1>9, <1>10, <1>11, FirstIs, Zenon
<1> QED BY <1>12 DEF places, der, c, tag

\* The SDK and the circuit read one date, whatever stands around the block and
\* wherever it starts, as long as the circuit finds one block and no byte 19
\* comes between the inner identifier and the string; so an age proof shows
\* what the builder of its witness promised.
THEOREM BirthDatesAgree ==
    ASSUME NEW cert, Walked(cert), NEW p \in Nat, BlockAt(Tbs(cert), p),
           NEW ageCutoffDate, NEW nullifierCtx
    PROVE  /\ extractDobFromDiiaUA(Der(cert)) = DobExtractor(Tbs(cert))
           /\ buildAgeWitness(cert, ageCutoffDate, nullifierCtx)
              = AgeSignals(Tbs(cert), ageCutoffDate, nullifierCtx)
<1> DEFINE der == Der(cert)
           tbs == Tbs(cert)
           lt == Len(tbs)
           date == Ymd(Slice(tbs, p + 29, 8))
<1>1. der \in Seq(Nat) /\ tbs \in Seq(Nat) /\ Len(der) = lt + 2 /\ lt \in Nat
      /\ \A k \in 1 .. lt : der[k + 1] = tbs[k]
  <2>1. der \in Seq(Nat) /\ tbs \in Seq(Nat) /\ Len(der) = lt + 2
        /\ \A k \in 1 .. lt : der[k + 1] = tbs[k]
    BY CertificateFacts, Zenon
  <2> QED BY <2>1
<1>2. {q \in Positions(tbs, OUTER_OID, 0) : q + BLOCK_LEN <= lt} = {p}
      /\ Slice(tbs, p + 11, 14) = INNER_OID
      /\ tbs[p + 29] >= 8
  BY DEF BlockAt
<1>3. p + 37 <= lt
  <2>1. p \in {q \in Positions(tbs, OUTER_OID, 0) : q + BLOCK_LEN <= lt}
    BY <1>2
  <2> QED BY <2>1 DEF BLOCK_LEN
<1>4. DobExtractor(tbs) = date
  <2>1. Cardinality({p}) = 1
    BY FS_Singleton, Zenon
  <2>2. {q \in {p} : Slice(tbs, q + 11, 14) = INNER_OID} = {p}
    BY <1>2
  <2>3. DobExtractor(tbs) = UNION {Ymd(Slice(tbs, q + 29, 8)) : q \in {p}}
    BY <1>2, <2>1, <2>2, Zenon DEF DobExtractor
  <2> HIDE DEF tbs
  <2> QED BY <2>3
<1>5. extractDobFromDiiaUA(der) = date
  <2> DEFINE outer == First(Positions(der, OUTER_OID, 0))
             inner == UNION {First(Positions(der, INNER_OID, q + 5)) : q \in outer}
             tag == UNION {First(Positions(der, <<PRINTABLE>>, q + 14)) : q \in inner}
             c == p + 28
  <2>1. extractDobFromDiiaUA(der)
        = UNION {Ymd(Slice(der, q + 2, 8)) : q \in {t \in tag : t + 10 <= Len(der) /\ der[t + 2] >= 8}}
    BY DEF extractDobFromDiiaUA
  <2>2. outer = {p + 1}
    BY OuterFirst
  <2>3. inner = {p + 12}
    <3>1. First(Positions(der, INNER_OID, (p + 1) + 5)) = {p + 12}
      BY InnerFirst
    <3> HIDE DEF outer, der
    <3> QED BY <2>2, <3>1
  <2>4. tag = {c}
    <3>1. First(Positions(der, <<PRINTABLE>>, (p + 12) + 14)) = {c}
      BY TagFirst
    <3> HIDE DEF inner, der, c
    <3> QED BY <2>3, <3>1
  <2> HIDE DEF tag, der, tbs, lt
  <2>5. c + 10 <= Len(der) /\ c + 2 = (p + 29) + 1 /\ p + 29 \in 1 .. lt /\ p + 29 + 8 <= lt
    <3> DEFINE ld == Len(der)
    <3>1. ld = lt + 2 /\ lt \in Nat
      BY <1>1
    <3> HIDE DEF ld
    <3>2. c + 10 <= ld /\ c + 2 = (p + 29) + 1 /\ p + 29 \in 1 .. lt /\ p + 29 + 8 <= lt
      BY <1>3, <3>1
    <3> QED BY <3>2 DEF ld
  <2>6. der[c + 2] >= 8
    <3>1. der[(p + 29) + 1] = tbs[p + 29]
      BY <1>1, <2>5, Zenon
    <3> QED BY <1>2, <2>5, <3>1
  <2> HIDE DEF c
  <2>7. {t \in tag : t + 10 <= Len(der) /\ der[t + 2] >= 8} = {c}
    BY <2>4, <2>5, <2>6
  <2>8. extractDobFromDiiaUA(der) = Ymd(Slice(der, c + 2, 8))
    BY <2>1, <2>7
  <2>9. Slice(der, (p + 29) + 1, 8) = Slice(tbs, p + 29, 8)
    <3> DEFINE a == p + 29
    <3>1. a \in Nat /\ 8 \in Nat /\ a + 8 <= lt
      BY <2>5
    <3> HIDE DEF a
    <3>2. Slice(Der(cert), a + 1, 8) = Slice(Tbs(cert), a, 8)
      BY <3>1, SliceMoves DEF lt, tbs
    <3> QED BY <3>2 DEF a, der, tbs
  <2> QED BY <2>5, <2>8, <2>9, Zenon
<1>6. findTbsInCert(cert).length = lt
  BY DEF findTbsInCert
<1> HIDE DEF der, tbs, lt, date
<1>7. buildAgeWitness(cert, ageCutoffDate, nullifierCtx)
      = AgeSignals(tbs, ageCutoffDate, nullifierCtx)
  <2>1. (IF findTbsInCert(cert).length <= AGE_MAX_TBS THEN extractDobFromDiiaUA(Der(cert)) ELSE {})
        = (IF Len(tbs) <= AGE_MAX_TBS THEN DobExtractor(tbs) ELSE {})
    BY <1>4, <1>5, <1>6 DEF lt, der
  <2> QED BY <2>1, Zenon DEF buildAgeWitness, AgeSignals
<1> QED BY <1>4, <1>5, <1>7 DEF der, tbs
=============================================================================
