---------------------------- MODULE Presentation ----------------------------
(***************************************************************************)
(* The proofs that the registry takes: what the identity circuit           *)
(* (ZkqesPresentationV5_5.circom) and the age circuit (AgeDiiaUA.circom)   *)
(* ask of a witness, what the page puts in one (the witness builders of    *)
(* packages/sdk), and what the contract checks of the call around a proof  *)
(* (Gates 1 to 3 of _register).  Functions only.                           *)
(*                                                                         *)
(* Positions count from 0, as in the code.  Certificates are byte strings  *)
(* in which the DER walk knows the parts; a binding is a record of what    *)
(* the circuit parses from it; the signed attributes are a sequence of     *)
(* attributes with their sizes.  Limbs of 64 and 128 bits stand for the    *)
(* bytes they hold, and a proof for its public signals.                    *)
(***************************************************************************)
EXTENDS TrustedList, FiniteSets

CONSTANTS
    MAX_SA, MAX_LEAF_TBS, MAX_CERT, MAX_SERIAL,
    AGE_MAX_TBS,
    MAX_MD_OFFSET,      \* 2 ^ 8
    SHA_BLOCK, SHA_TAIL \* 64, and the 9 bytes that padding takes at least

ASSUME PresentationAssumption ==
    /\ {MAX_SA, MAX_LEAF_SPKI, MAX_LEAF_TBS, MAX_CERT, MAX_SERIAL} \subseteq Nat
    /\ SHA_BLOCK \in Nat \ {0} /\ SHA_TAIL \in Nat

\* No wallet secret; a secret is the field element it reduces to.
FINGERPRINT_DOMAIN == Num(1)

\* A digest is its preimage, marked.
Sha256(message) == [digestOf |-> message]

\* Buffer.subarray, which stops at the end.
Slice(bytes, at, n) == SubSeq(bytes, at + 1, IF at + n < Len(bytes) THEN at + n ELSE Len(bytes))

-----------------------------------------------------------------------------
(***************************************************************************)
(* Certificates and signed attributes                                      *)
(***************************************************************************)
OID_SERIAL == <<6, 3, 85, 4, 5>>    \* 2.5.4.5
UTF8 == 12
PRINTABLE == 19
HEADER == <<48>>
SIGNATURE == <<3>>

Tbs(cert) == cert.issuer \o cert.subject \o cert.spki \o cert.extensions
Der(cert) == HEADER \o Tbs(cert) \o SIGNATURE

findTbsInCert(cert) == [offset |-> Len(HEADER), length |-> Len(Tbs(cert))]
findLeafSpkiInTbs(cert) == [offset |-> Len(cert.issuer \o cert.subject), length |-> Len(cert.spki)]

\* Of some places, the first; none of none.
First(places) == {p \in places : \A q \in places : p <= q}

\* The key algorithm, by the byte that stands for its object identifier.
detect(spki) == CASE spki[1] = 1 -> "P256" [] spki[1] = 0 -> "RSA_2048" [] OTHER -> "UNKNOWN"

\* The three letters of an ETSI semantics identifier (TIN, PNO, IDC, PAS,
\* CPI), as one byte.
ETSI == 84
EtsiPrefixed(value) == value # <<>> /\ value[1] = ETSI

\* Where a serial number attribute seems to start.
SerialHits(der) ==
    {p \in 0 .. Len(der) - Len(OID_SERIAL) - 3 :
        Slice(der, p, 5) = OID_SERIAL /\ der[p + 6] \in {UTF8, PRINTABLE}}

\* The value of a hit.
ValueOf(der, p) == [offset |-> p + 7, length |-> der[p + 7]]

\* The first one with an ETSI prefix, else the second one, which follows the
\* issuer's, else the only one; nothing when it throws.
findSubjectSerial(der) ==
    LET hits == SerialHits(der)
        etsi == {p \in hits : EtsiPrefixed(Slice(der, p + 7, der[p + 7]))}
        second == First(hits \ First(hits))
    IN {ValueOf(der, p) : p \in IF etsi # {} THEN First(etsi)
                                ELSE IF second # {} THEN second ELSE hits}

\* Attribute i of the set starts after its header and the ones before it.
ATTRS_HEADER == 2
SizeBefore(attrs, i) ==
    LET size[k \in 1 .. i] == IF k = 1 THEN ATTRS_HEADER ELSE size[k - 1] + attrs[k - 1].size
    IN size[i]

AttrsLength(attrs) ==
    IF attrs = <<>> THEN ATTRS_HEADER
    ELSE SizeBefore(attrs, Len(attrs)) + attrs[Len(attrs)].size

MdAttrs(attrs) == {i \in DOMAIN attrs : attrs[i].type = "messageDigest"}

\* The offset of the first message digest; nothing when it throws.
findMessageDigestAttrOffset(attrs) ==
    {SizeBefore(attrs, i) : i \in First(MdAttrs(attrs))}

-----------------------------------------------------------------------------
(***************************************************************************)
(* Identity                                                                *)
(***************************************************************************)

\* subjectSerialBytesToLimbs and Poseidon5: the value filled with zeros, and
\* its length.
SubjectPack(padded, length) ==
    Poseidon([i \in 1 .. MAX_SERIAL |-> Num(padded[i])] \o <<Num(length)>>)

ZeroFilled(value) == [i \in 1 .. MAX_SERIAL |-> IF i <= Len(value) THEN value[i] ELSE 0]

computeIdentityFingerprint(value) ==
    Poseidon(<<SubjectPack(ZeroFilled(value), Len(value)), FINGERPRINT_DOMAIN>>)

-----------------------------------------------------------------------------
(***************************************************************************)
(* The identity circuit                                                    *)
(***************************************************************************)

\* No assignment satisfies a Multiplexer whose selector is past its last
\* input, and the windows are read in full, whatever part of them counts.
Selectable(at, window, max) == at + window <= max

\* Sha256CanonPad: whole blocks, with room for the marker and the length.
PaddedLen(n) == SHA_BLOCK * ((n + SHA_TAIL + SHA_BLOCK - 1) \div SHA_BLOCK)

\* 6.4: the binding is what the signed attributes are about.
BindingSigned(w) ==
    /\ w.mdAttrOffset < MAX_MD_OFFSET
    /\ \E i \in MdAttrs(w.signedAttrs) :
          /\ SizeBefore(w.signedAttrs, i) = w.mdAttrOffset
          /\ w.signedAttrs[i].value = Sha256(w.binding)

\* 6.5: the key is a piece of the certificate.
SpkiInTbs(w) ==
    /\ Len(w.leafSpki) \in 1 .. MAX_LEAF_SPKI
    /\ w.leafSpkiOffsetInTbs + Len(w.leafSpki) <= Len(w.leafTbs)
    /\ Selectable(w.leafSpkiOffsetInTbs, MAX_LEAF_SPKI, MAX_LEAF_TBS)
    /\ Slice(w.leafTbs, w.leafSpkiOffsetInTbs, Len(w.leafSpki)) = w.leafSpki

\* X509SubjectSerial: the window of the certificate, masked to the length.
SerialBytes(w) ==
    [i \in 1 .. MAX_SERIAL |->
        IF i <= w.serialLength /\ w.serialOffset + i <= Len(w.leafCert)
        THEN w.leafCert[w.serialOffset + i] ELSE 0]

SerialInCert(w) ==
    /\ w.serialLength \in 1 .. MAX_SERIAL
    /\ Selectable(w.serialOffset, MAX_SERIAL, MAX_CERT)

\* 6.9: the same bytes are in the signed part.
SerialInTbs(w) ==
    /\ w.serialOffsetInTbs + w.serialLength <= Len(w.leafTbs)
    /\ Selectable(w.serialOffsetInTbs, MAX_SERIAL, MAX_LEAF_TBS)
    /\ \A i \in 1 .. w.serialLength : w.leafTbs[w.serialOffsetInTbs + i] = SerialBytes(w)[i]

\* 6.9b: they are the value of a serial number attribute.
SerialAnchored(w) ==
    LET p == w.serialOidOffsetInTbs
    IN  /\ p + 7 <= Len(w.leafTbs)
        /\ Slice(w.leafTbs, p, 5) = OID_SERIAL
        /\ w.leafTbs[p + 6] \in {PRINTABLE, UTF8}
        /\ w.leafTbs[p + 7] = w.serialLength
        /\ w.serialOffsetInTbs = p + 7

Pack(w) == SubjectPack(SerialBytes(w), w.serialLength)
Commitment(w, secret) == Poseidon(<<Pack(w), Num(secret)>>)

\* The old commitment is this one, or opens to the old secret.
RotationGates(w) ==
    /\ w.rotationMode \in {0, 1}
    /\ w.rotationOldCommitment =
          Commitment(w, IF w.rotationMode = 0 THEN w.walletSecret ELSE w.oldWalletSecret)

Satisfies(w) ==
    /\ PaddedLen(AttrsLength(w.signedAttrs)) <= MAX_SA
    /\ PaddedLen(Len(w.leafTbs)) <= MAX_LEAF_TBS
    /\ BindingSigned(w)
    /\ SpkiInTbs(w)
    /\ SerialInCert(w)
    /\ SerialInTbs(w)
    /\ SerialAnchored(w)
    /\ RotationGates(w)

\* The public signals that a proof for this witness shows.
PublicSignals(w) ==
    [timestamp |-> w.binding.timestamp,
     nullifier |-> Poseidon(<<Num(w.walletSecret), w.binding.context>>),
     ctxHash |-> Sha256(w.binding.context),
     bindingHash |-> Sha256(w.binding),
     signedAttrsHash |-> Sha256(w.signedAttrs),
     leafTbsHash |-> Sha256(w.leafTbs),
     policyLeafHash |-> w.binding.policyLeafHash,
     leafKeyCommit |-> commitSpki(w.leafSpki),
     identityFingerprint |-> Poseidon(<<Pack(w), FINGERPRINT_DOMAIN>>),
     identityCommitment |-> Commitment(w, w.walletSecret),
     rotationMode |-> w.rotationMode,
     rotationOldCommitment |-> w.rotationOldCommitment,
     rotationNewWallet |-> w.rotationNewWallet,
     bindingPk |-> w.binding.pk]

\* Gates 1, 2a, 2b and 3: a proof, for the attributes and the key of the call,
\* which its holder signed, and a certificate that the intermediate signed.
\* signed holds the pairs of a key and a digest that have a signature.
HostSigVerify(signed, spki, digest) ==
    detect(spki) \in {"P256", "RSA_2048"} /\ <<spki, digest>> \in signed

ProofGates(signed, s, call) ==
    /\ Sha256(call.signedAttrs) = s.signedAttrsHash
    /\ commitSpki(call.leafSpki) = s.leafKeyCommit
    /\ HostSigVerify(signed, call.leafSpki, Sha256(call.signedAttrs))
    /\ HostSigVerify(signed, call.intSpki, s.leafTbsHash)

-----------------------------------------------------------------------------
(***************************************************************************)
(* The witness builder                                                     *)
(***************************************************************************)

\* buildWitnessV5_5, with the two builders it calls; nothing when they throw.
\* rotation is the inputs of rotation mode, or empty.  Both keys must be P-256
\* (parseP256Spki), whatever the circuit and the contract take.
buildWitness(cert, intSpki, attrs, binding, walletSecret, rotation) ==
    LET der == Der(cert)
        tbs == findTbsInCert(cert)
        spki == findLeafSpkiInTbs(cert)
        Value(serial) == Slice(der, serial.offset, serial.length)
        Packed5(serial) == SubjectPack(ZeroFilled(Value(serial)), serial.length)
        secrets ==
            IF rotation = <<>> THEN [old |-> walletSecret, mode |-> 0]
            ELSE [old |-> rotation[1].oldWalletSecret, mode |-> 1]
        OldCommitment(serial) ==
            IF rotation = <<>> THEN Poseidon(<<Packed5(serial), Num(walletSecret)>>)
            ELSE rotation[1].rotationOldCommitment
    IN {[binding |-> binding, signedAttrs |-> attrs, mdAttrOffset |-> md,
         leafTbs |-> Tbs(cert), leafCert |-> der,
         serialOffset |-> serial.offset, serialLength |-> serial.length,
         serialOffsetInTbs |-> serial.offset - tbs.offset,
         serialOidOffsetInTbs |-> serial.offset - tbs.offset - 7,
         leafSpki |-> Slice(Tbs(cert), spki.offset, spki.length),
         leafSpkiOffsetInTbs |-> spki.offset,
         walletSecret |-> walletSecret, oldWalletSecret |-> secrets.old,
         rotationMode |-> secrets.mode, rotationOldCommitment |-> OldCommitment(serial),
         rotationNewWallet |->
            IF rotation = <<>> THEN binding.pk ELSE rotation[1].rotationNewWallet] :
        md \in findMessageDigestAttrOffset(attrs),
        serial \in {v \in findSubjectSerial(der) :
            /\ Len(Value(v)) <= MAX_SERIAL
            /\ v.offset - tbs.offset >= 7
            /\ Len(der) <= MAX_CERT
            /\ PaddedLen(AttrsLength(attrs)) <= MAX_SA
            /\ PaddedLen(tbs.length) <= MAX_LEAF_TBS
            /\ detect(cert.spki) = "P256" /\ detect(intSpki) = "P256"
            /\ spki.length <= MAX_LEAF_SPKI}}

-----------------------------------------------------------------------------
(***************************************************************************)
(* Age                                                                     *)
(***************************************************************************)
OUTER_OID == <<6, 3, 85, 29, 9>>
INNER_OID == <<6, 12, 42, 134, 36, 2, 1, 1, 1, 11, 1, 4, 11, 1>>
BLOCK_LEN == 37

Positions(bytes, pattern, from) ==
    {p \in from .. Len(bytes) - Len(pattern) : Slice(bytes, p, Len(pattern)) = pattern}

\* The value of eight digits; nothing when one is none.
Ymd(bytes) ==
    LET v[i \in 0 .. 8] == IF i = 0 THEN 0 ELSE 10 * v[i - 1] + bytes[i] - 48
    IN IF \A i \in 1 .. 8 : bytes[i] \in 48 .. 57 THEN {v[8]} ELSE {}

\* DobExtractor: the one outer identifier with room for the block, and the
\* inner identifier and the digits at fixed distances from it; several are
\* refused (hitSum), as is anything else that dobSupported does not cover.
DobExtractor(tbs) ==
    LET hits == {p \in Positions(tbs, OUTER_OID, 0) : p + BLOCK_LEN <= Len(tbs)}
    IN IF Cardinality(hits) # 1 THEN {}
       ELSE UNION {Ymd(Slice(tbs, p + 29, 8)) : p \in {q \in hits : Slice(tbs, q + 11, 14) = INNER_OID}}

\* The SDK looks for each part after the one before it, in the whole
\* certificate.
extractDobFromDiiaUA(der) ==
    LET outer == First(Positions(der, OUTER_OID, 0))
        inner == UNION {First(Positions(der, INNER_OID, p + 5)) : p \in outer}
        tag == UNION {First(Positions(der, <<PRINTABLE>>, p + 14)) : p \in inner}
    IN UNION {Ymd(Slice(der, p + 2, 8)) :
                p \in {q \in tag : q + 10 <= Len(der) /\ der[q + 2] >= 8}}

\* The signals of an age proof: whether the holder was born by the cutoff, and
\* the context as it came.
AgeSignals(tbs, ageCutoffDate, nullifierCtx) ==
    {[ageQualified |-> IF dob <= ageCutoffDate THEN 1 ELSE 0,
      ageCutoffDate |-> ageCutoffDate, nullifierCtx |-> nullifierCtx] :
        dob \in IF Len(tbs) <= AGE_MAX_TBS THEN DobExtractor(tbs) ELSE {}}

\* buildAgeWitness: the signals it promises; nothing when it throws.
buildAgeWitness(cert, ageCutoffDate, nullifierCtx) ==
    {[ageQualified |-> IF dob <= ageCutoffDate THEN 1 ELSE 0,
      ageCutoffDate |-> ageCutoffDate, nullifierCtx |-> nullifierCtx] :
        dob \in IF findTbsInCert(cert).length <= AGE_MAX_TBS
                THEN extractDobFromDiiaUA(Der(cert)) ELSE {}}
=============================================================================
