--------------------------- MODULE MCPresentation ---------------------------
(***************************************************************************)
(* The functions of Presentation against what a holder, the circuits and   *)
(* the contract expect of each other, over all small inputs.               *)
(***************************************************************************)
EXTENDS Presentation

Serial(tag, value) == OID_SERIAL \o <<tag, Len(value)>> \o value

Certificate(issuer, subject, spki, extensions) ==
    [issuer |-> issuer, subject |-> subject, spki |-> spki, extensions |-> extensions]

ContentType(n) == [type |-> "contentType", size |-> n]
MessageDigest(binding) == [type |-> "messageDigest", size |-> 3, value |-> Sha256(binding)]

SomeBinding(pk) == [pk |-> pk, context |-> Num(8), policyLeafHash |-> Num(9), timestamp |-> 0]

-----------------------------------------------------------------------------
(***************************************************************************)
(* What an accepted proof says.  Two holders have a certificate each, of   *)
(* the same intermediate, and each has signed one binding.  A third        *)
(* certificate, with the key of one and the serial of the other, has no    *)
(* signature.                                                              *)
(***************************************************************************)
issuerKey == <<1>>
Holders == {1, 2}
KeyOf == <<<<1, 1>>, <<0, 0>>>>
SerialOf == <<<<ETSI, 2>>, <<ETSI>>>>
\* Another attribute of one letter, 2.5.4.3.
CommonName == <<6, 3, 85, 4, 3, PRINTABLE, 1, 65>>
CertOf == [h \in Holders |-> Certificate(<<5>>, Serial(UTF8, SerialOf[h]), KeyOf[h], CommonName)]
Mixed == Certificate(<<5>>, Serial(UTF8, SerialOf[2]), KeyOf[1], CommonName)
AttrsOf == [h \in Holders |-> <<ContentType(2), MessageDigest(SomeBinding(h))>>]

HolderSigned ==
    {<<issuerKey, Sha256(Tbs(CertOf[h]))>> : h \in Holders}
    \cup {<<KeyOf[h], Sha256(AttrsOf[h])>> : h \in Holders}

Certificates == {CertOf[1], CertOf[2], Mixed}

\* Every way to point a witness at a certificate, with the true number of
\* bytes or another, in it or in a copy of another one.
Witnesses(cert) ==
    [binding : {SomeBinding(h) : h \in Holders}, signedAttrs : {AttrsOf[h] : h \in Holders},
     mdAttrOffset : {2, 4}, leafTbs : {Tbs(cert)}, leafCert : {Der(c) : c \in Certificates},
     serialOffset : {8, 9, 10}, serialLength : 1 .. 2, serialOffsetInTbs : {8},
     serialOidOffsetInTbs : {0, 1},
     leafSpki : {KeyOf[h] : h \in Holders}, leafSpkiOffsetInTbs : 8 .. 10,
     walletSecret : {2}, oldWalletSecret : {2}, rotationMode : {0},
     rotationOldCommitment : {Poseidon(<<SubjectPack(ZeroFilled(SerialOf[h]), Len(SerialOf[h])), Num(2)>>) :
                                h \in Holders},
     rotationNewWallet : {1}]

\* The windows alone, everywhere in the certificate and in another one.
Windows(cert) ==
    [leafTbs : {Tbs(cert)}, leafCert : {Der(c) : c \in Certificates},
     serialOffset : 0 .. Len(Der(cert)), serialLength : 0 .. MAX_SERIAL + 1,
     serialOffsetInTbs : 0 .. Len(Tbs(cert)), serialOidOffsetInTbs : 0 .. Len(Tbs(cert)) - 7]

\* A witness that the circuit takes shows the whole value of the serial number
\* attribute of the certificate in its signed part, and nothing else
\* (X509SubjectSerial and sections 6.9 and 6.9b of the circuit).
OnlyTheSerial ==
    \A h \in Holders : \A w \in Windows(CertOf[h]) :
        SerialAnchored(w) /\ SerialInCert(w) /\ SerialInTbs(w) =>
            /\ SerialBytes(w) = ZeroFilled(SerialOf[h])
            /\ w.serialLength = Len(SerialOf[h])

\* A proof that passes the gates is of a holder of a certificate that the
\* intermediate signed, and shows the binding which that very holder signed:
\* no piece of it is of somebody else (Gates 1 to 3 and the whole circuit).
AcceptedIsAttested ==
    \A cert \in Certificates : \A w \in {v \in Witnesses(cert) : Satisfies(v)} :
        LET s == PublicSignals(w)
        IN \A call \in [signedAttrs : {AttrsOf[h] : h \in Holders},
                        leafSpki : {KeyOf[h] : h \in Holders}, intSpki : {issuerKey, KeyOf[1]}] :
              ProofGates(HolderSigned, s, call) =>
                  \E h \in Holders :
                      /\ s.identityFingerprint = computeIdentityFingerprint(SerialOf[h])
                      /\ s.bindingPk = SomeBinding(h).pk
                      /\ s.bindingHash = Sha256(SomeBinding(h))
                      /\ call.leafSpki = KeyOf[h]

-----------------------------------------------------------------------------
(***************************************************************************)
(* What an honest holder gets.                                             *)
(***************************************************************************)
SerialValues == {<<ETSI>>, <<ETSI, 0>>, <<0, ETSI>>, <<7>>, <<ETSI, 7, 7>>, <<ETSI, 7, 7, 7>>}

\* An issuer may have a serial number of its own, without the prefix of a
\* person's, and comes first; what stands around the names varies.
HonestCertificates ==
    {Certificate(issuer, Serial(tag, value), spki, extensions) :
        issuer \in {<<>>, <<5, 5>>, Serial(PRINTABLE, <<9>>), Serial(UTF8, <<9, 9, 9>>)},
        tag \in {UTF8, PRINTABLE}, value \in SerialValues,
        spki \in {<<1, 1>>, <<0, 1>>}, extensions \in {<<>>, <<6, 3>>}}

SubjectValue(cert) == SubSeq(cert.subject, 8, Len(cert.subject))

HonestAttrs ==
    LET md == MessageDigest(SomeBinding(1))
    IN {<<md>>, <<ContentType(2), md>>, <<md, ContentType(9)>>, <<ContentType(4), md>>,
        <<ContentType(2), ContentType(2), md>>, <<ContentType(1), ContentType(2), md>>,
        <<ContentType(2), md, ContentType(14)>>, <<ContentType(2), md, ContentType(15)>>}

RightCommitment(cert) ==
    Poseidon(<<SubjectPack(ZeroFilled(SubjectValue(cert)), Len(SubjectValue(cert))), Num(3)>>)

Rotations(cert) ==
    {<<>>} \cup {<<[oldWalletSecret |-> 3, rotationOldCommitment |-> c, rotationNewWallet |-> 2]>> :
                    c \in {RightCommitment(cert), Num(0)}}

\* What the builder does not check: the window of the key, the place of the
\* message digest, and that the old commitment opens.
LeftToTheCircuit(cert, attrs, rotation) ==
    /\ Len(cert.issuer) + Len(cert.subject) + MAX_LEAF_SPKI <= MAX_LEAF_TBS
    /\ \A i \in MdAttrs(attrs) : SizeBefore(attrs, i) < MAX_MD_OFFSET
    /\ rotation # <<>> => rotation[1].rotationOldCommitment = RightCommitment(cert)

\* The circuit takes what the builder makes, except for those three, so a
\* certificate within every size that the builder checks may still have no
\* proof.  What it takes shows the serial of the subject, never the issuer's,
\* and passes the gates with the holder's and the intermediate's signatures
\* (buildWitnessV5_5, findSubjectSerial and the circuit).
HonestIsAccepted ==
    \A cert \in HonestCertificates, attrs \in HonestAttrs : \A rotation \in Rotations(cert) :
        \A w \in buildWitness(cert, issuerKey, attrs, SomeBinding(1), 2, rotation) :
            /\ Satisfies(w) <=> LeftToTheCircuit(cert, attrs, rotation)
            /\ LET s == PublicSignals(w)
               IN /\ s.identityFingerprint = computeIdentityFingerprint(SubjectValue(cert))
                  /\ s.leafKeyCommit = commitSpki(cert.spki)
                  /\ s.rotationMode = 0 => s.rotationOldCommitment = s.identityCommitment
                  /\ ProofGates({<<cert.spki, Sha256(attrs)>>, <<issuerKey, Sha256(Tbs(cert))>>}, s,
                                [signedAttrs |-> attrs, leafSpki |-> cert.spki, intSpki |-> issuerKey])

\* The builder refuses exactly the certificates that are too long, with their
\* padding, have a serial of more than MAX_SERIAL bytes, or an RSA key.
BuilderTakes ==
    \A cert \in HonestCertificates, attrs \in HonestAttrs :
        buildWitness(cert, issuerKey, attrs, SomeBinding(1), 2, <<>>) # {}
        <=> /\ Len(Tbs(cert)) + SHA_TAIL <= MAX_LEAF_TBS
            /\ AttrsLength(attrs) + SHA_TAIL <= MAX_SA
            /\ Len(SubjectValue(cert)) <= MAX_SERIAL
            /\ cert.spki[1] = 1

\* One person has one fingerprint, and two have two: whatever the issuer, the
\* string type, the key and the extensions, and whatever zeros end a serial.
OneFingerprintEach ==
    LET Shown(cert) ==
            {PublicSignals(w).identityFingerprint :
                w \in buildWitness(cert, issuerKey, <<MessageDigest(SomeBinding(1))>>, SomeBinding(1), 2, <<>>)}
        shown == {<<SubjectValue(cert), Shown(cert)>> : cert \in {c \in HonestCertificates : Shown(c) # {}}}
    IN \A a, b \in shown : a[1] = b[1] <=> a[2] = b[2]

-----------------------------------------------------------------------------
(***************************************************************************)
(* Birth dates.                                                            *)
(***************************************************************************)
Digits(ymd) == [i \in 1 .. 8 |-> 48 + ((ymd \div 10 ^ (8 - i)) % 10)]

\* The extension of a birth date: a value of the eight digits and a tail.
BirthDate(digits, tail) ==
    LET n == 8 + Len(tail)
    IN OUTER_OID \o <<4, n + 22, 48, n + 20, 48, n + 18>> \o INNER_OID
       \o <<49, n + 2, PRINTABLE, n>> \o digits \o tail

Births == {Digits(18991231), Digits(20070101), Digits(20071231), [Digits(20070101) EXCEPT ![4] = 45]}

\* The SDK and the circuit read the same date, with anything around it, but for
\* a value of 17 bytes: the set that holds it then has the length 19, which
\* the SDK takes for the tag of a string (extractDobFromDiiaUA, DobExtractor).
BirthDatesAgree ==
    \A digits \in Births, n \in 0 .. 10, before \in {<<>>, <<6, 3, 85, 29>>, <<PRINTABLE, 8>>},
       after \in {<<>>, OUTER_OID} :
        LET cert == Certificate(<<5>>, <<>>, <<1>>,
                                before \o BirthDate(digits, [i \in 1 .. n |-> 45]) \o after)
        IN /\ DobExtractor(Tbs(cert)) = Ymd(digits)
           /\ extractDobFromDiiaUA(Der(cert)) = IF n = 9 THEN {} ELSE Ymd(digits)
           /\ \A cutoff \in {18991231, 20070101, 20071230} :
                 buildAgeWitness(cert, cutoff, 0) \subseteq AgeSignals(Tbs(cert), cutoff, 0)

\* A certificate with two such extensions has no proof, although the SDK reads
\* the first one.
TwoBirthDates ==
    LET cert == Certificate(<<>>, <<>>, <<1>>,
                            BirthDate(Digits(19900101), <<>>) \o BirthDate(Digits(20070101), <<>>))
    IN DobExtractor(Tbs(cert)) = {} /\ extractDobFromDiiaUA(Der(cert)) = {19900101}

ASSUME PresentationChecked ==
    /\ OnlyTheSerial /\ AcceptedIsAttested
    /\ HonestIsAccepted /\ BuilderTakes /\ OneFingerprintEach
    /\ BirthDatesAgree /\ TwoBirthDates
=============================================================================
