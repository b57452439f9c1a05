---------------------------- MODULE CertificateUA ----------------------------
(***************************************************************************)
(* The certificate token, packages/contracts/src/ZKQESCertificateUA.sol,   *)
(* running beside the registry it asks through the modifier of             *)
(* packages/contracts-sdk/src/VerifiedUkrainian.sol.  The registry keeps   *)
(* all its steps: a binding can be rebound, revoked and restored between   *)
(* any two calls to the certificate contract.                              *)
(*                                                                         *)
(* A call writes its storage before _safeMint hands control to the         *)
(* receiver, so a mint is one step.  ERC721 ownership is the library's.    *)
(***************************************************************************)
EXTENDS RegistryUA

CONSTANT MintDeadline

ASSUME MintAssumption == MintDeadline \in Nat

VARIABLES
    tokenIdByNullifier,   \* 0 is the empty slot
    nextTokenId,
    minted,    \* _nullifierByTokenId and the CertificateMinted events: a set of records
    ownerOf    \* owner of every minted token, kept by ERC721

certVars == <<tokenIdByNullifier, nextTokenId, minted, ownerOf>>
allVars == <<vars, certVars>>

Certificate ==
    [tokenId : Nat \ {0}, nullifier : Nullifiers, holder : Accounts, bindingId : Identities]

Tokens == {c.tokenId : c \in minted}

CertTypeOK ==
    /\ tokenIdByNullifier \in [Nullifiers -> Nat]
    /\ nextTokenId \in Nat
    /\ minted \subseteq Certificate
    /\ ownerOf \in [Tokens -> Accounts]

CertInit ==
    /\ Init
    /\ tokenIdByNullifier = [n \in Nullifiers |-> 0]
    /\ nextTokenId = 0
    /\ minted = {}
    /\ ownerOf = << >>

\* onlyVerifiedUkrainian(id).
OnlyVerifiedUkrainian(caller, id) ==
    LET b == bindings[id]
    IN  /\ b.pk # Zero
        /\ b.pk = caller
        /\ ~b.revoked

\* Variant: uniqueness by the wallet that minted instead of the nullifier.
NotMintedByWallet(caller, n) == \A c \in minted : c.holder # caller

\* AlreadyMinted: one token for each nullifier.
NotMinted(caller, n) == tokenIdByNullifier[n] = 0

\* Variant: the counter is read before it is incremented.
FreshTokenIdPostIncrement == nextTokenId

\* ++_nextTokenId
FreshTokenId == nextTokenId + 1

Mint(caller, id) ==
    LET n == bindings[id].nullifier
        tokenId == FreshTokenId
    IN  /\ OnlyVerifiedUkrainian(caller, id)
        /\ now <= MintDeadline
        /\ NotMinted(caller, n)
        /\ nextTokenId' = nextTokenId + 1
        /\ tokenIdByNullifier' = [tokenIdByNullifier EXCEPT ![n] = tokenId]
        /\ minted' = minted \cup
              {[tokenId |-> tokenId, nullifier |-> n, holder |-> caller, bindingId |-> id]}
        /\ ownerOf' = [t \in Tokens \cup {tokenId} |-> IF t = tokenId THEN caller ELSE ownerOf[t]]
        /\ UNCHANGED vars

\* ERC721 transfer by the owner: certificates are transferable.
Transfer(from, to, t) ==
    /\ t \in Tokens
    /\ ownerOf[t] = from
    /\ ownerOf' = [ownerOf EXCEPT ![t] = to]
    /\ UNCHANGED <<tokenIdByNullifier, nextTokenId, minted>>
    /\ UNCHANGED vars

CertNext ==
    \/ Next /\ UNCHANGED certVars
    \/ \E caller \in Accounts, id \in Identities : Mint(caller, id)
    \/ \E from, to \in Accounts, t \in Tokens : Transfer(from, to, t)

CertSpec == CertInit /\ [][CertNext]_allVars

-----------------------------------------------------------------------------
\* One certificate for each identity, however often its binding changes
\* wallet, is revoked and restored, and wherever its certificate was sent;
\* and token ids are not reused (mint, tokenIdByNullifier).
OneCertificatePerIdentity ==
    \A c1, c2 \in minted : (c1.bindingId = c2.bindingId \/ c1.tokenId = c2.tokenId) => c1 = c2

\* The nullifier a certificate shows (tokenURI reads _nullifierByTokenId) is
\* for ever the one its binding carries in the registry, and leads back to
\* the token: no later call of the other contract separates them.
CertificateNamesItsBinding ==
    \A c \in minted :
        /\ c.bindingId \in Registered
        /\ bindings[c.bindingId].nullifier = c.nullifier
        /\ tokenIdByNullifier[c.nullifier] = c.tokenId
=============================================================================
