# zkqes: specifications, model checks and proofs

zkqes lets the holder of a Ukrainian qualified electronic signature bind a
wallet to an identity on chain, by a zero-knowledge proof of a signed
declaration. This directory holds TLA+ modules of the parts of the repository
that keep state and interact, TLC configurations that check them on small
instances, and proofs checked by TLAPS. Paths below are relative to
`packages/` of the repository unless they start elsewhere.

## 1. Inventory

### The system's parts

| part | code | state it keeps | operations | modelled |
|---|---|---|---|---|
| Identity registry | `contracts/src/ZKQESRegistryUA.sol` | roots, admin, bindings, used nullifiers, proven age cutoffs, events | `register`, `registerWithAge`, `proveAge`, `setTrustedRoot`, `setPolicyRoot`, `setRevoked`, `transferAdmin` | `RegistryUA`, `IdentityLedger` |
| Certificate token | `contracts/src/ZKQESCertificateUA.sol`, `contracts-sdk/src/VerifiedUkrainian.sol` | token of each nullifier, token counter, owners | `mint` behind `onlyVerifiedUkrainian`, ERC721 transfers | `CertificateUA` (partly) |
| Local prove server | `zkqes-cli/src/server/*.ts`, `circuit/prove.ts`, `commands/serve.ts` | listening socket, busy flag, handlers, child processes, temporary directories | `GET /status`, `POST /prove`, preflights, `start`, `stop`, signals | `CliServer`, `ProveService` |
| Prove dispatch in the page | `web/src/lib/cliFallbackProver.ts`, `sdk/src/cli/proveViaCli.ts` | one run: where it is, its error, its outcome | post to the server, fall back to the browser prover | `ProveDispatch` |
| Artifact download | `zkqes-cli/src/circuit/download.ts`, `rapidsnark/postinstall.ts` | final file, temporary file, extracted prover | download, verify, rename, extract | `ArtifactCache` |
| Presence probe | `web/src/hooks/useCliPresence.ts`, `sdk/src/cli/detectCli.ts` | last verdict, probe id, mounted flag | probe on mount, on a visible tab, at a click | `CliPresence` |
| Snarkjs worker protocol | `sdk/src/prover/snarkjsWorker*.ts` | worker, listeners of each pending prove | prove, reply, uncaught error, terminate | `SnarkjsWorker` (partly) |
| Registration wizard | `web/src/components/civic-terminal/HomeDocument.tsx`, `components/ua/v5/Step4ProveAndRegister.tsx` | step, wallet key, signed file, age opt-in, cutoff; stage, proofs, transaction | sign, prove, age prove, review, submit, back, reset, upload | `RegisterFlow`, `Visitor`, `WebPages` (partly) |
| Account age page | `web/src/components/account/ProveAgeFlow.tsx`, `hooks/useV5_4BindingsForWallet.ts` | step, owned bindings, cutoff, file, proof, transaction | list, pick, prove, submit, retry | `AccountAge`, `Visitor`, `WebPages` |
| Ceremony coordinator | `scripts/ceremony-coord/` at the root, `web/src/hooks/useCeremonyPhase.ts`, `web/src/routes/ceremony/status.tsx` | objects in a bucket, the published status, files on each admin's machine | `round-zero`, `mint-signed-url`, `verify-contribution`, `publish-status`, uploads, polls | `CeremonyCoord`, `CeremonyChain` (partly) |
| Trusted-list flattener and Merkle trees | `lotl-flattener/src`, `web/src/lib/merkleLookup.ts`, `contracts/src/libs/PoseidonMerkle.sol`, `KeyCommit.sol` | none (functions) | fetch, filter, commit to keys, build, path, climb | `TrustedList` (partly) |
| Signature and key libraries | `contracts/src/libs/HostSig.sol`, `SpkiAlg.sol`, `P256Verify.sol` | none | choice of the verifier, cryptographic checks | `Presentation` (partly: a signature is in a set) |
| Circuits, witness builders, certificate parsing | `circuits/`, `sdk/src/witness`, `sdk/src/dob`, `sdk/src/cert`, `sdk/src/binding` | none (functions) | build a witness, ask of a witness, show signals; arithmetic, DER and CMS parsing | `Presentation` (partly) |
| Other CLI commands, artwork, web pages, deployment scripts | `zkqes-cli/src/commands`, `contracts/src/*Renderer.sol`, `web/src` | none that outlives a call | text and layout | no |

### How they interact

The page builds a witness and hands it to the *prove dispatch*, which posts it
to the *prove server* on the same machine and falls back to a browser worker.
The server runs the witness calculator and a `rapidsnark` child, a binary the
*artifact cache* put there at `npm install`. The page then sends the proof to
the *registry*; the admin rotates the list roots (from the *flattener*) and
sets revocations concurrently. Other contracts, the *certificate* among them,
read the registry's bindings through the modifiers of `contracts-sdk`.

In the browser, the *registration wizard* asks the *presence probe* whether the
server is there and hands that verdict to the dispatch; its age proof, and the
one of the *account page*, go through a *snarkjs worker* instead. The account
page knows which bindings to offer from three sets of registry events. Apart
from all of these, the *ceremony coordinator* makes the proving key that every
prover loads: its admins and contributors meet only in one bucket, whose
conditional writes are the whole of the synchronisation, and the pages poll
what it publishes.

### What is hard, and what makes each part correct

* **Registry.** A transaction runs alone, so the difficulty is in series of
  legal calls: proofs are public and can be sent again, roots rotate under
  callers, revocation races rebinding, one nullifier must never serve two
  identities. Correct: nullifiers are used exactly once, wallets were bound by
  a fresh proof, cutoffs were earned, a revoked binding is frozen, events tell
  what storage says.
* **Certificate.** It reads another contract's storage, which moves between
  two mints. Correct: one certificate for an identity for ever, naming the
  nullifier its binding carries.
* **Prove server.** Handlers interleave at every `await`; each await may fail,
  clients hang up, the process stops, dies and restarts while its child lives.
  Correct: the busy flag is exact, every path releases it and hands over its
  directory, what was accepted is answered.
* **Dispatch.** It decides on a status that may be stale or lost. Correct: no
  witness is at both provers, a refusal has a cause, every run settles.
* **Artifact cache.** Kills between file system calls, re-runs over what they
  left, concurrent installs. Correct: the final path only names verified
  bytes.

* **Presence probe.** Probes started by a mount, a tab and a click overlap and
  answer in any order, and StrictMode remounts the hook. Correct: what is shown
  is the verdict of the last probe.
* **Pages.** Asynchronous runs keep what they captured at a click, and outlive
  the form that started them; nothing disables the button during a run;
  terminating a worker loses the replies of its other proves. Correct: what is
  sent to the registry is what was proved, the two proofs of a form are of one
  person, and nobody waits for a proof that will never come, except where one
  worker was given two proves.
* **Ceremony.** Commands of several machines interleave between any two
  requests and die there; a signed URL may be used by anyone, late and twice.
  Correct: the published feed is one verified chain that only grows.

The list of hazards, each with its line and the properties that cover
it, is `hazards` in `PROJECT.json`.

## 2. Modules

Definitions keep the names of the code where TLA+ allows it. `PROJECT.json`
`map` gives the source lines of every one. Definitions commented `Variant`
are mutated forms of the definition that follows; no specification uses them.
They show that each property can fail: put in place of that definition, TLC
finds the property violated.

### `RegistryUA` with `IdentityLedger`

One action is one successful transaction; a call that would revert is a call
whose guard is false. `Register` is `_register`, gate by gate: `WalletGate`
(0, 0a'), `ListGate` (0b, 4, 5), `TimingGate` (6), `WriteGate` with
`BindingAfter` and `NullifiersAfter` (7), and `HolderLogged` for the event it
emits. `RegisterWithAge` is the same core followed by the age gate reading the
binding just written, so that a failing age gate undoes both. Gates 1, 2 and 3
(Groth16, attribute hash, signatures) are the constant `Proofs`: the leaf
proofs they accept, including any number of proofs of one identity with
different nullifiers, accounts and times. The run takes them from
`Presentation`. The three hashes that derive the
binding id, the address and the age context are taken to be injective. `Tick`
is the block clock. `eventLog` is what an observer learns by folding the
events.

`IdentityLedger` is the abstract promise, without gates: identities are
claimed once under a mark nobody else holds, move unless frozen, and facts
only grow. `LedgerSpec` says the registry implements it.

### `TrustedList`

What lies between the national lists and gates 4 and 5 of the registry, as
functions: `filterQes`, `filterServicesByCountry` and `extractCAs` of the
flattener, `commitSpki` (keys in chunks, the length, the sponge over `Window`s),
`Layers`, level by level `Above` the leaves, and `Root` of the tree, `TrustPath`
and `PolicyPath` that the page sends, and `verify`, the climb of the contract.
`Publishes` is what `run` writes, or nothing where it throws. A field element is
a number or what Poseidon makes of a tuple, injectively; a certificate is the
bytes of its key. `MCTrustedList` has three reference definitions, which TLC
evaluates as `ListChecked` on every registry run: `CommitsApart` (no two keys
share a commitment), `TreesAgree` (the sparse tree has the root of the complete
one, and a path climbs to it from its own leaf only) and `AcceptsWhatIsGranted`
(the contract accepts a key under a published root exactly when a service of the
country that grants qualified signature certificates has it). These are
evaluations over small inputs: depth 2, chunks of 2 bytes, a
window of 2, keys of up to 5 bytes of two values, up to two services. That is
enough for a short last chunk, a second window, an odd layer, a full tree and a
duplicate key. `TrustedListProofs` proves all three for any depth, sizes, keys
and lists. Its functions are recursive functions on levels and lengths, so
that they can be reasoned about. `MCRegistryUA` takes the leaves of its roots from the same
functions: a list in which both intermediates are granted and one in which the
first was withdrawn, a policy tree of one leaf and an empty one.

### `Presentation`

What makes a proof acceptable, as functions. `Satisfies` is the identity
circuit, section by section: `BindingSigned` (6.4), `SpkiInTbs` (6.5),
`SerialInCert` with `SerialBytes` (the serial extractor), `SerialInTbs` (6.9),
`SerialAnchored` (6.9b) and `RotationGates`; `PublicSignals` is what a proof
shows. `ProofGates` is what the contract compares and verifies around it.
`buildWitness` is the builder of the page, with the walk over the certificate
(`findTbsInCert`, `findLeafSpkiInTbs`, `findSubjectSerial`), and empty where it
throws. `DobExtractor` and `AgeSignals` are the age circuit,
`extractDobFromDiiaUA` and `buildAgeWitness` the SDK's side of it. A hash is its
preimage, a signature a pair of a key and a digest, a certificate the bytes of
its parts, and a binding a record of what the circuit parses.

`MCPresentation` says what the sides expect of each other; TLC evaluates it as
`PresentationChecked` on every registry run. `OnlyTheSerial`: whatever offsets a
witness has, the identity is the whole serial number. `AcceptedIsAttested`: an
accepted proof is put together from one holder's certificate, key and binding.
`HonestIsAccepted` and `BuilderTakes`: what the builder takes, and that the
circuit and the gates take what it makes, except as listed below.
`OneFingerprintEach`: a person is the same under another certificate, and two
persons are not. `BirthDatesAgree` and `TwoBirthDates` compare the two readers
of a birth date. These are evaluations over small inputs, with short lengths in
place of the circuit's: two holders with an unsigned third
certificate; issuers with a serial of their own or none, both string types,
serials up to one byte too long, both key algorithms, attributes in several
orders and lengths up to both edges of their limits; birth dates with a tail of
up to ten bytes and every offset of a serial window. `OnlyTheSerial` and
`AcceptedIsAttested` are about certificates with one serial number attribute,
as the comment at `ZkqesPresentationV5_5.circom:887-890` says of production
certificates; the theorems of `PresentationProofs` are about certificates with
any number of them.

`MCRegistryUA` builds witnesses for two persons, each with two certificates,
keeps those that satisfy the circuit and pass the gates, and gives their signals
to the registry; proofs in rotation mode and proofs for another target, which
the registry refuses, are among them.

### `CertificateUA`

EXTENDS the registry and adds `Mint` and `Transfer`; the registry keeps all
its steps. Not modelled: approvals, the receiver callback of `_safeMint` (the
contract has written its storage before it), `tokenURI`, and
`onlyAgeQualified`.

### `CliServer` with `ProveService`

An action is the code between two awaits. `phase[r]` is the await a request's
handler is at: `body`, `mkdtemp`, `witness`, `proving`, `outputs`, `verify`.
`Fail` is the catch and finally block, used by every action that stands for a
failing await; `Complete` is the success path. `HangUp`, `Signal`,
`SecondSignal`, `Drained`, `Crash`, `OrphanExits` and `Start` are the world
around it. `answer = "lost"` stands for a request whose process ended under
it. Checks that `serve` makes before it listens are left out: no state exists
yet.

`ProveService` is what pages rely on: one request served at a time, 429 only
while serving, one answer to each, 200 only for a valid witness.
`ServiceSpec` (with fairness) says that `CliServer` implements it, under the
mapping `serving <- Serving`.

### `ProveDispatch`

EXTENDS `ProveService`, so that pages run against the promise and not against
the server's details; the refinement carries the results over. `stage` is the
await of `runCliFirstProver`, `status` the status of its `CliProveError`
(0 no response, -1 malformed 200), `outcome` how the run ended. `SkipCli` is a
run with `cliPresent` false; whether the server is really there plays no part,
because the probe's verdict may be stale. The browser prover is `proveV5`
with its length check. A page's loopback connection is assumed not to break
while the server works on its request; it does break when the server ends.

### `ArtifactCache`

Each file system call of `downloadAndVerify` is an action, and paths name
inodes, so that an open stream follows its file through a rename or removal.
`Launch` is `npm` running the hook; `CallFails` and `DownloadFails` are
errors outside and inside the try block; `Crash` kills the process at any
await. `source` is what the URL serves in this run. `EndUnzip` covers the
extraction. `stat` is taken to fail only for a missing file.

### `CliPresence`

EXTENDS `ProveDispatch` with the hook of one page, `Viewer`, and the click that
reads it; the other pages begin with any verdict. `probe[i]` is what probe `i`
awaits or brings. `Answered` is `detectCli` settling, `Commit` the rest of
`runProbe` with its two tests (still mounted, still the latest). `ClickTakes`
and `ClickRechecks` are the two ways `onProveAndRegister` gets `cliReady`, and
`Begin` the call of `runCliFirstProver` with it. `hook.saw` is a history
variable: the verdict of the latest probe. Other instances of the hook only
display their verdict, and after `Begin` nothing reads this one, so that it is
reset.

### `WebPages` over `RegisterFlow`, `AccountAge`, `Visitor`, `SnarkjsWorker`

`WebPages` is one visitor going from page to page. `SnarkjsWorker` is what both
pages use: `Prove`, `Reply` (the worker posts a result or an error),
`HandleMessage` (the page hears it and terminates the worker, `Cleanup`) and
`HandleError` (an uncaught error rejects every listening prove). A prove posted
to a terminated worker, or whose worker is terminated under it, is `lost`.

`RegisterFlow` is the wizard. `home` is the state of `HomeDocument`, `form` the
mounted `Step4ProveAndRegister` or `None`, and `runs[k]` what click `k` started,
with the inputs it captured. `Render` is what React makes of a changed state or
wallet: the form unmounts when the step, file or wallet goes and a new form
makes a new prover. A run goes from `starting` (signature, probe and fetches)
through `Progress`, `Proved`, `ProveAge` to `AgeAnswer`; its `setState` calls
reach the form only if that is still the form that was clicked (`Mounted`),
while `onProveComplete` moves the page in any case (`Complete`). `form.clicked`
and `form.loose` are history variables. `Accepted` stands for the registry's
gates, so that only a transaction they accept is mined and leaves the page.

`AccountAge` is `ProveAgeFlow`: one action for each handler and effect. `Owned`
is the list of bindings computed from the events that `Registers` emits;
`Elsewhere` is a registration from any other session.

### `CeremonyCoord` and `CeremonyChain`

An action is the code of a command between two requests to the bucket;
`machine[a]` is the request it waits for with what it has read, `Abort` a
request that fails or a command that is interrupted. `PutOnce` is a write with
`If-None-Match: *`, `WriteStatusConditional` one with `If-Match`. A zkey is a
history of contributions with a flag that says whether it fits the circuit;
`Upload` puts anything a contributor can have made, from any earlier round,
from a setup of their own, or broken. `pending` and `attested` are the files on
each machine. `Poll` and `Forget` let a page hold and show answers in any order.

`CeremonyChain` is the promise: a chain of checked contributions that only
grows, a beacon over a complete chain, a final key after a beacon. `ChainSpec`
says that the scripts implement it, under the mapping of `chain` to `Published`:
the seed followed by the zkeys that the status attests.

### Proof modules

`RegistryUAProofs` (with the certificate), `CliServerProofs`,
`CliPresenceProofs` (with the dispatch), `ArtifactCacheProofs`,
`CeremonyCoordProofs`, `WebPagesProofs`, `TrustedListProofs` and
`PresentationProofs` EXTEND their components; see section 4.
`PresentationProofs` also extends `TrustedListProofs`.

## 3. Runs

| run | shows | bounds |
|---|---|---|
| `registry` | the seven registry properties and `LedgerSpec` | 2 identities, 2 accounts (either may be admin), 2 nullifiers (the two persons share a wallet secret, so that each nullifier is contested), 2 trusted roots (the flattener's, one without one of the intermediates), 2 policy roots (one empty), proofs signed at 0 and (one account only) 2, clock to 2, window of 1, four cutoffs: two in range, one of which has no proof for its own context, one below and one above |
| `registry_revocation` | a disagreement with a comment, below | as above |
| `certificate` | one certificate per identity, and its name | 2 identities, 2 accounts, 3 nullifiers, mint deadline at 1 of 2 ticks, one root |
| `server` | flag, children, directories, refinement with liveness | 3 requests, one with an invalid witness |
| `server_restart` | a disagreement, below | as above |
| `dispatch` | `ProveDispatch` behind the presence probe: no double proving, refusals explained, the last verdict is shown, runs and detections settle | 2 pages, one with an invalid witness; the other has its hook, with 3 probes |
| `dispatch_fallback`, `dispatch_invalid` | disagreements, below | `ProveDispatch` alone, 3 pages, one with an invalid witness |
| `artifact` | verified final path, through failures, kills and re-runs | 1 installer, 3 runs, 2 chunks, an old file or none |
| `artifact_race` | a disagreement, below | 2 installers, 1 run each |
| `ceremony` | the feed is a verified chain, counters count verified rounds, pages show earlier states of it, and `ChainSpec` | 2 admins (symmetric), 1 contributor, 1 circuit, 1 page, 1 round required, `MaxRound` 2, `MaxPolls` 1 |
| `registration` | what is sent is what was proved, the list of bindings, empty reviews, proves settle | 1 wallet of the visitor and 1 other holder, 2 identities, 2 cutoffs with one change of the default, 1 proof file, 2 forms with a prover each, 2 clicks, `MaxMoves` 2 |

Why the bounds are enough. *Registry:* a conflict takes two identities or two
accounts; nullifier reuse takes two identities and two proofs of one; a proof
is fresh, at the edge of its window, stale, or in the future, and three clock
values reach all of it; every constant treats the identities, which are
symmetric, alike. *Server and dispatch:* one holder of the
flag, one that is refused, and a third after both; the third also follows a
restart. *Artifact:* a run that is killed, one over what it left and one over
a finished installation; two chunks tell a half-written file from a complete
one. *Dispatch with presence:* the number of pages matters to the server alone,
which is checked with three; three probes are one that is late, one that
replaces it and one after both. *Ceremony:* a conflict takes two machines; two
rounds let a round be minted, verified and published while another one is
under way, and go past the last required one; one contributor already brings
zkeys over every round, over a setup of their own and broken ones. *Pages:* two
clicks give two runs of one form as well as one run that outlives its form; two
identities and two cutoffs tell what was proved from what is sent; two moves
take a binding away and bring it back. The theorems remove these bounds for all
that is proved.

Deadlock is checked except in the two artifact runs, where the number of runs
of an installer is bounded (`Runs`), so that the model stops. The registry
and the certificate always can take an administrative step; the server can
always be started again.

### Fairness

* `CliServer!Fairness`: weak fairness of a handler's steps. Every await of
  `handleProve` settles: file operations and the calculator return or throw,
  `rapidsnark` exits, and Node's `requestTimeout` ends the wait for a body
  while the server listens. Nothing is assumed of clients (`BodyArrives`,
  `HangUp`), signals, restarts or the removal of directories.
* `ProveService!ServiceFairness`: a server that is up answers what it serves.
  A stopping server owes nothing, because its timer no longer runs.
* `ProveDispatch!DispatchFairness`: the above, and a page receives an answer
  that was sent, and the browser worker ends. `Post` and `Leave` are not fair.
* `ArtifactCache!Spec`: every file system call and download ends, well or not.
* `CliPresence!PresenceFairness`: a probe ends, since `detectCli` aborts its
  request after 500 ms.
* `WebPages!Fairness`: snarkjs ends, well or not, and the browser delivers what
  a live worker posts. Nothing is assumed of the visitor, of the wallet or of
  the network.
* `CeremonyCoord` has no fairness and states no liveness: people run the
  commands.

### What the violation runs show

1. `registry_revocation`: the comment at `setRevoked`
   (`ZKQESRegistryUA.sol:174`) says later calls revert. A flag set before an
   identity's first claim is cleared by that claim (line 308).
2. `server_restart`: `busy-flag.ts:11-17` excludes a second concurrent prove.
   A server ended by a second signal or a crash leaves its child; a restarted
   one has a new flag and spawns another.
3. `dispatch_fallback`: `proveViaCli.ts:15-20` says the browser prove works
   after a 429. `proveV5` accepts 14, 19 or 22 public signals only
   (`sdk/src/prover/index.ts:150`), the circuit has 21 and the decoder
   requires 21, so every fallback ends in an error.
4. `dispatch_invalid`: the comments expect 400 or 422 for a bad witness, which
   is surfaced. The server answers 500 to every error, so the page takes the
   witness to the browser prover.
5. `artifact_race`: `download.ts:10-14` says the final name never holds a
   half-file. Two installs share the temporary path, and one renames what the
   other is still writing.

### Limits of what holds

Some properties carry a condition, because the code does not keep them without
it. These are differences from comments of the code that no run refutes on its
own; the condition in the property is the model's account of them.

* `OffersAsProved` asks for one click and no change of the cutoff before the
  first progress. The comment at `Step4ProveAndRegister.tsx:898-900` says that
  the inputs are locked once the pipeline starts; they are locked from its first
  progress, and a second click captures whatever the page shows then. (Of an
  age proof that fails, 510-513 says that the registration goes on without it
  and 541-542 that it does not; the code follows the second.)
* `ProvesSettle` excludes proves that are lost. `routes/account/proveAge.tsx:37-38`
  says that the worker is made anew for each prove; the page makes one prover,
  so that the retry after a refused transaction or an error waits for ever.
* `OwnedAreHeld` is two inclusions: nothing is listed that another wallet has,
  and nothing is missing that the wallet has and never lost. It is silent about
  the bindings that a wallet lost and got back:
  `useV5_4BindingsForWallet.ts:40` and `:66` promise the currently active
  bindings, while the code takes away every binding that was ever rotated out of
  the wallet. A hook that listed them would keep the property.
* `TreesAgree` is about a tree filled up with zeros, which is what the flattener,
  the page and the contract use. `circuits/circuits/primitives/MerkleProofPoseidon.circom:9-13`
  says that an orphan is paired with itself, and `PoseidonMerkle.sol:12-13` that
  an empty leaf is the hash of zero.
* `HonestIsAccepted` leaves out the certificates whose key starts too late in
  the signed part for the window that the circuit reads (`SpkiInTbs`), and
  attributes whose message digest comes too late (`BindingSigned`): the builder
  checks neither, so that the prover fails on what it built.
* `BuilderTakes` says that the builder refuses RSA keys (`parseP256Spki`,
  `build-witness-v5.ts:182-183`), while `ZkqesPresentationV5_5.circom:540` calls
  the commitment algorithm-agnostic and the contract verifies RSA.
* `BirthDatesAgree` leaves out values of 17 bytes, which `sdk/src/dob/index.ts`
  does not read although line 194 calls it a byte-exact mirror of the circuit,
  and `TwoBirthDates` says that the two differ on two extensions.
* `EmptyReviewByOutsiders` names the two ways in which the review step shows
  nothing to review.

## 4. Theorems

Every theorem holds for all values of the constants under the named
assumptions of the modules (`RegistryAssumption`, `MintAssumption`,
`CliServerAssumption`, `ServiceAssumption`, `CacheAssumption`,
`PresenceAssumption`, `FlowAssumption`, `AccountAssumption`,
`AgeProofAssumption`, `CeremonyAssumption`, `NoneAssumption`, `FormAssumption`,
`ListAssumption`, `PresentationAssumption`), which say no
more than that distinguished values are distinct, that sets have the types
the code gives them, and that bounds are numbers, those that the code divides by
not zero.

* **Registry** (`RegistryUAProofs`). `TypeCorrect`; `NullifiersAccounted`,
  `BindingsFresh`, `AgesEarned`, `EventsComplete` for the four state
  invariants; `PersonhoodKept` and `RevokedKept` for the two action
  properties; `ImplementsLedger` for the refinement. The steps are sorted into
  those that touch flags and clocks only (`QuietSteps`), those that write one
  binding (`ClaimFacts`) and those that add a cutoff, and each invariant is
  proved once per sort. The invariants need each other only through the type
  invariant; the refinement also needs `NullifierLedger`, since an unused
  nullifier must be one that no claimed identity holds.
* **Certificate** (`RegistryUAProofs`). `CertificateIsRegistry` carries
  every registry theorem over. `CertTypeCorrect`, `CertificateUniqueness` and
  `CertificateNames` state the three invariants of the run.
  `OneCertificatePerIdentity` is not inductive: `CertInv` adds that ids come from the counter, and uses `NullifierLedger`
  and `PersonhoodPersists` of the registry.
* **Server** (`CliServerProofs`). `IInv` adds to `TypeOK` that there is no
  handler without a process, that a request is answered when its handler ended
  and not before, and where its directory and child are at each await. From
  it: `FlagExact`, `ChildrenAccounted`, `DirsHandedOver`, and
  `ImplementsService`, the safety half of `ServiceSpec`.
* **Dispatch** (`CliPresenceProofs`). `Posted` relates a page's stage to
  what the server holds of it, `RefusalsExplained` turns the 429 into a
  statement about answers, which are final. From them `OneProverPerWitness`
  and `RefusalsOwed`.
* **Artifact cache** (`ArtifactCacheProofs`). `TypeCorrect` for any
  installers, with `Started`. The rest assumes `OneInstaller`, without which
  run `artifact_race` refutes it: `Positions` says what an installer knows of
  the paths at each await and what its file holds so far, `OnePath` that the
  two paths never both exist. From them `FinalIsVerified`,
  `InstalledVerified`, `RenamesHashed`, `FinalOrderly`.

* **Presence** (`CliPresenceProofs`). Every step is a step of `ProveDispatch` or
  leaves it alone (`StepDispatches`), so that a page with the hook implements
  the dispatch, fairness included (`DispatchKept`: `PresenceSpec => DispatchSpec`).
  The dispatch theorems carry over (`PresenceOneProver`, `PresenceRefusalsOwed`).
  `LatestVerdictShown` follows from `LatestKnown`, which says what the hook owes
  to the latest probe at each of its stages.
* **Ceremony** (`CeremonyCoordProofs`). `IInv` says that every attestation is of
  an object that extends the one before it, that every machine knows only what
  the bucket has or what the feed has grown from, and that the status is a
  gapless chain. It rests on the write-once keys: a round that is there stays
  (`LinkedKept`). `AdvancesKept` and `UpdateAdvances` show once, for all four
  kinds of update, that a written status grows from the one it replaces. From
  it: `PublishedVerified`, `CountsVerified`, `SeenPublished` and
  `ImplementsChain`, the refinement as a whole.
* **Pages** (`WebPagesProofs`). `IInv` has a part for each page. `RunsFit` says
  of every run what its captured inputs have to do with the form and the page,
  `FormFits` the same of the proofs a form holds: while a form is mounted the
  signed file of the page does not change, which is why two proofs from two
  runs are of one person. `EventsTell` says what the event sets know of the
  bindings. From them: `OfferedAsProved`, `SameIdentity`, `AccountSends`,
  `OwnedHeld`. `EmptyReview`, about the steps that make an empty review step,
  needs one more invariant, `AsShown`: what React shows is of the step that the
  page is at, so that a form is there before its own run completes. TLC checked
  it on the `registration` run before it was proved.
* **Trust lists** (`TrustedListProofs`). `CommitBinds`: no two keys share a
  commitment, whatever their lengths and leading zeros; a shorter key is told
  from a longer one by the length that follows the chunks, and the sponge is
  unrolled from its end, window by window (`SpongeBinds`), to the chunks and
  then to the digits of each (`DigitsBind`). `PathBinds`: a path, its bits and
  the root fix the leaf. `OnlyLeavesVerify` and `EveryPlaceHasItsPath`: under
  the root of a tree only its leaves verify, or the zero of a free place, and the
  path that the page builds is the one that does. `SparseRootIsComplete`: the
  layers without their empty nodes have the root of the complete tree.
  `OnlyGrantedVerify` and `AcceptsWhatIsGranted` join them with the filters: the
  contract accepts a key exactly when a service of the country grants it.
  A `Key` is any sequence of bytes.
* **Presentations** (`PresentationProofs`). `FingerprintBinds`: two serials
  have two fingerprints. `OnlyTheSerial`: whatever places a prover chooses
  (`Chosen`), the identity is the whole value of one serial number attribute of
  the signed part. `OneIdentityOneSerial`: two proofs show one identity exactly
  when they were made of one serial. `AcceptedIsAttested` goes through the gates in one
  statement: the intermediate's key is granted (`OnlyGrantedVerify`), it signed
  the certificate, whose key (`CommitBinds`) signed the attributes, which hold
  the digest of the binding. `RotationIsOfTheHolder`: a commitment opens to one
  secret and one identity. Of the builder, for any certificate whose parts the
  walk knows (`Walked`): `BuiltIsTaken`, that the circuit takes what it makes
  exactly when the conditions hold which it does not check
  (`LeftToTheCircuit`); `BuiltPassesTheGates`; `BuiltShowsTheSerial`.
  `BirthDatesAgree` says when the two readers of a birth date agree (`BlockAt`),
  for any certificate with one block: the SDK's first matches are the circuit's
  places (`OuterFirst`, `InnerFirst`, `TagFirst`), as nothing that starts like
  the block comes before it.

A recursive definition is proved about by least counterexample: the set of
places where a statement fails has a least one (`LeastOf`, from the
well-foundedness of the numbers), so that a set that has 0 and the successor of
each member is everything (`InductionOn`). `Iterates` says of the functions
defined by recursion what their equations say, which the provers cannot see for
themselves.

Only model-checked: everything about liveness (`RunsSettle`, `DetectingSettles`,
`ProvesSettle`, `InstallerEnds`, the fairness half of `ServiceSpec`), which
TLAPS does not prove; and of the functions, that the serial which
`findSubjectSerial` finds is the subject's and not the issuer's
(`HonestIsAccepted`, `OneFingerprintEach`: where a search stops among the bytes
of any two names is a statement about those names), exactly what the builder
refuses (`BuilderTakes`), and what the two readers of a birth date do where they
differ (`TwoBirthDates`, the 17 bytes of `BirthDatesAgree`).

## 5. Not modelled, and why

* Cryptography, parsing and encoding: the arithmetic of hashes and signatures,
  DER lengths, the CMS envelope, the text of the binding and its parser in the
  circuit, limbs, and the derivation of wallet secrets. A match of the byte
  patterns inside another attribute or another value is possible in the
  certificate of `Presentation`, but not in its signed attributes, which are a
  sequence. The chain circuit (`Accepted` of the trust lists stands for it) and
  earlier versions of the circuits are left out.
* `setTrustedRoot` and `setPolicyRoot` choose among the roots of the model;
  the code takes any word. A root without leaves stands for a wrong one.
* The disk after a power failure: nothing in `download.ts` syncs. The hash
  check of the next run is what repairs it.
* What a stalled client does to `server.close()`: it depends on the version of
  Node, so the model lets a stopping server wait for ever and states no
  termination of `stop()`.
* The replacement of the prover binary under a running server: boot and
  install are separate processes, and the server model does not read the binary.
* *Trusted-list flattener.* Fetching and its retries, the signatures of the XML,
  the combination of outputs, `diagnose`, and the written files are I/O around
  the functions of `TrustedList`. An issuer that the signed file does not embed
  is found by name and key identifier, which is X.509.
* *Certificate.* Approvals, the receiver callback of `_safeMint`, and
  `onlyAgeQualified`, which no contract of the repository uses.
* *Snarkjs worker.* The abort signal and the mode that keeps the worker after a
  prove: no page uses them.
* *Registration.* A chain with a registry and the real prover are assumed, so
  that the branches for their absence are left out. The wallet secret, the mint
  and download buttons and the separate transaction for an uploaded age proof
  are left out. `isSmartContractWallet` may answer either way. The stage
  `starting` merges the signature, the probe and two fetches, before which
  nothing on the form changes; the awaits of the steps before the form, of
  `onUploadProof` and of the read of the trusted root at submission are each
  part of one action. The visitor has one page at a time and does not reopen the
  home page, which starts afresh. `navigate('/ua/mintNft')` leads to a retired
  route (`web/src/router.tsx:186-191`), which the model takes for a page.
* *Presence.* The hooks of the other pages.
* *Ceremony.* The phase label that `derivePhase` computes from the other fields,
  dates, profile links, `lastContributor` and the hash of each circuit's final
  key; the expiry of URLs, which only takes uploads away; dry runs; two commands
  at once on one machine, which would share a temporary file
  (`verify-contribution.ts:61`); and the deletion of objects by hand, which is
  the only way to give a round again whose upload was rejected.
* Other commands of the CLI, artwork, page layout and deployment scripts: they
  keep no state.

## 6. Order of the work, and what is left

The modules came in this order: registry and ledger, certificate, server and
service, dispatch, artifact cache, then presence, ceremony and pages; in each,
first the model and its run, then the invariants, then the proofs; then
`TrustedList` and `Presentation`, first evaluated over small inputs and then
proved about.

What could be added: `ArtifactCache` composed with `CliServer`,
for a prover replaced while it is used; approvals and the receiver callback of
the certificate; and a refinement of `ArtifactCache` to an abstract cache for
installers that do not overlap.
