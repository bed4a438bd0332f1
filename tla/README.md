# Verification of melda-sec

melda-sec puts a trust layer between the Melda CRDT and its storage. Anybody may
store a delta; a `TrustAdapter` decides, each time a delta is read, whether it
contributes to the reconstructed state. It does so from the endorsement records
stored next to the delta and from its own configuration: trusted keys with roles,
a policy of allow and deny rules, an endorsement mode, a whitelist and a blacklist.
The examples build more on it: a trust configuration that is itself a CRDT, whose
versions are endorsed under the versions before (`endorsements.rs`), and nodes that
replicate by melding (`simple.rs`, `encrypted.rs`, `compressed.rs`).

This directory holds TLA+ models of that layer and of what the examples build on it,
TLC runs of them and proofs checked by TLAPS. Line numbers below are of files in
`src/src` unless another directory is given.

## The system

| Component | State | Operations | Model |
|---|---|---|---|
| `KeyStore` (keystore.rs) | endorsement key, trusted keys, roles | set credentials (with role), add trusted key (with role), `to_json`, `from_json` | `KeyStore` |
| `PolicyEngine` (policy/) | rules, `strict_write` | `add_rule`, `from_yaml`, `parse_yaml`, `strict_write`, `allows`, JSON | `PolicyEngine` |
| `DeltaFilter` (deltafilter.rs) | whitelist, blacklist | add to either, JSON | `TrustRules` |
| `TrustAdapter` (trustadapter.rs) | the three above, endorsement mode, the inner storage | `read_object`, `write_object`, `endorse`, `fetch_endorsements`, setters, JSON | `TrustRules`, `TrustConfiguration`, `TrustAdapter`, `Governance` |
| Record names (trustadapter.rs:37-71) | files `<delta>.<key>.sig` | found by a pattern, read by the exact name | `EndorsementNames` |
| `EncryptionAdapter` (encryptionadapter.rs) | a key, the inner storage | encrypted writes, whole and ranged reads | `EncryptionAdapter`, `ObjectStore` |
| Trust CRDT (examples/endorsements.rs) | proposals, their endorsements | propose, endorse, search the latest version | `TrustEvolution` |
| Data CRDT (examples/endorsements.rs) | deltas, replicas, exemptions | bootstrap, commit, endorse, reload | `DualCrdt`, `EndorsementsExample` |
| Replication (examples/simple.rs, Melda) | a folder and a memory per node | open, commit, endorse, copy, meld, refresh | `Replication`, `SimpleExample` |

How they interact. Melda calls the adapter through an `RwLock`: reads, writes and
`endorse` borrow it shared, and several may be under way over one storage (in the
model each adapter has one at a time, so two of one process are two adapters), while
everything that changes the configuration needs
the adapter exclusively and happens between operations. The storage has no lock at
all: `fetch_endorsements` lists the records and reads them one by one, `endorse`
looks for a record and later writes one, and between any two of these accesses other
adapters and replication write. A restart keeps nothing but the storage and the
saved JSON document. A participant of the endorsements example reads the proposals
of a trust document through an adapter set up by the version it holds, sets up the
adapter of its data by the version it finds, and goes on to later versions in the
same way. A meld reads through the adapter of the one node and writes through that
of the other.

What is hard, and what makes each component correct:

- *Reads.* The set of endorsers a read collects need never have been in the storage
  at one instant, records may be damaged, the listing may fail. Yet data must be
  delivered only with a sufficient set of valid endorsements by trusted and
  authorised keys, and a delta that was readable throughout must not be refused.
- *endorse.* It checks, then writes; it may crash in between or tear the record.
  `Ok` must mean that a valid record is stored, and a torn record must be repaired.
- *Configuration.* Long sequences of calls, half-loaded policy texts, saves and
  loads must keep it well formed, and saving must lose nothing a restart needs.
- *Thresholds.* Majority at even counts, Unanimous as an equality, the policy's
  second test, the order of the two lists.
- *Record files.* The pattern of a record's name is not anchored: copies under longer
  names must add nothing and hide nothing.
- *Trust CRDT.* Versions fork and are endorsed while somebody searches them. What is
  held must have a chain of quorums to the trust anchor, must not fall back, and
  the search must end.
- *Data CRDT.* Each version exempts what its author held. These copied exemptions
  must create no approval, lose none, and give way to a revocation.
- *Replication.* Deltas and records travel one by one, in any order, from nodes that
  admit anything; what enough peers approved must come through, and nothing else.
- *Encryption.* Foreign keys, damaged blobs, and ranges that overflow.

## Modules

`KeyStore` <- `PolicyEngine` <- `TrustRules` (each extends the one on its left), and
then three branches:

- `TrustRules` <- `TrustConfiguration` <- `TrustAdapter`, with `Governance` (on
  `TrustRules`) as its abstract specification;
- `TrustRules` <- `TrustEvolution` <- `DualCrdt` <- `EndorsementsExample`;
- `TrustRules` <- `Replication` <- `SimpleExample`.

`TrustEvolution` has an abstract specification too, `TrustChain`.
`EncryptionAdapter`, with `ObjectStore` as its abstract specification, and
`EndorsementNames` stand alone. A module `MC...` gives constants their values for
one run; the two examples are instances already.

- **KeyStore** is a record and operators on it. A key pair is one element of `Keys`,
  so a private key signs for its own public key by construction.
- **PolicyEngine** keeps the *set* of rules: `allows` only asks which rules match.
  A glob pattern is the set of object ids it matches. The order of a policy text
  matters in one case, a text with an invalid rule, and `RulesBeforeError` says
  which rules `parse_yaml` has added when it fails.
- **TrustRules** has the decisions: `MayWrite` (the check of `write_object`),
  `SkipsEndorsements`, `Enough`, `EnoughEndorsers` (the two tests of `read_object`),
  `Shows` (the whole of it, given who signed), and the JSON form of a configuration.
- **TrustConfiguration** has one action per operation that changes a configuration,
  `SaveJson` and `LoadJson`. `SigningKeys[a]` are the private keys at hand where `a`
  runs.
- **TrustAdapter** adds the storage (`deltas`, `sigs`) and one operation per adapter
  (`op`). A record is in one of six states, named after what the code does with it.

  | Action | Code |
  |---|---|
  | `ReadObjectAtOnce` | `read_object` up to line 437: missing, blacklisted, exempt |
  | `ReadObject` | the listing of `fetch_endorsements`, lines 270-278 |
  | `FetchRecord` | one turn of its loop, lines 279-296 |
  | `Decide` | both tests, lines 441-497 |
  | `Endorse` | the look for a valid record, lines 304-328 |
  | `WriteEndorsement` | signing and writing, lines 329-340 |
  | `WriteObject` | `write_object` of a delta, lines 386-400 |
  | `ConfigureAdapter` | any action of `TrustConfiguration`, between operations |
  | `Crash`, `CrashDuringWrite` | a new process; the second leaves half a record |
  | `DeltaArrives`, `RecordArrives` | replication |

  The delta itself is read together with the listing: deltas are never removed or
  changed, so nothing can happen between the two that matters.
  Reads are of whole deltas, as Melda reads them: a read with an offset or a length
  returns bytes of any delta unchecked (lines 407-416) and is in `EncryptionAdapter`
  only. `op[a].doubted` is a history bit for `NoSpuriousRefusal`.
- **Governance** is the abstract specification: approvals that are never withdrawn,
  and deliveries that need, at one instant, a quorum of trusted and authorised
  approvers. It says what a quorum is without counting as the code does (a
  majority outnumbers the rest; unanimity is equality of sets).
- **EndorsementNames** is one folder of record files. A name is the delta and the
  digits the pattern finds in it, and whether there is anything else; `RecordOf` is the
  name of the file that is read for it. A signature is of the digest in a delta's id, not
  of the id (lines 291, 324), so deltas with one digest share their signatures. Files are
  copied, torn and lost. It is why `TrustAdapter` may speak of *the* record of a key for
  a delta.
- **TrustEvolution** has the proposals (`proposals`, `based`, `endorsed`) and one search
  per participant: `GetTrustConfiguration` lists the proposals, `ReadProposal` reads one
  under the version held, `FinishLoad` takes what resulted, or fails, or settles. Melda
  applies a delta with all it is based on and prefers the highest revision; `Versions`
  are numbered in that order. An author may have loaded any earlier state of the store
  (`loads`), so versions fork. **TrustChain** is what it promises, without store,
  endorsements or loads: ratifications are never withdrawn, and who holds a version goes
  on only to one that it ratifies at that instant, or starts again.
- **DualCrdt** adds replicas of the data. `Bootstrap` joins the version a search has
  found, `CommitData` writes on what is loaded, `Propose` makes a version that exempts
  what a replica holds (`carried`). A load of the data is one step here.
- **EndorsementsExample** runs the program of endorsements.rs: its people, its four
  documents, and its parts in their order, as a control (`stage`) over the actions of
  `DualCrdt`. Within a part people act in any order. Its assertions are stated as
  tables of who is refused and who is seen.
- **Replication** has a folder and a memory per node. `MeldDelta` and `MeldRecord`
  transfer one object through both adapters, `CopyEntry` one file of
  `copy_recursively`, so that a transfer may end anywhere. `loaded` keeps what the node
  committed itself even before it is endorsed, until the process ends.
- **SimpleExample** has the three configurations of simple.rs, with `Strict` for
  `strict_write` of Alice and Bob.
- **EncryptionAdapter** has blobs that open under one key, and reads of the adapter alone
  and through a `TrustAdapter`, which slices the whole itself. Words wrap around at
  `WordSize`. **ObjectStore** has unbounded numbers and no keys.

## Runs

| Run | Properties | Bounds |
|---|---|---|
| reads | `Inv`, `GovSpec`, `NoSpuriousRefusal`, `EndorseOkIsDurable`, `OwnWriteIsReadable`, `ReadableStaysReadable` | two adapters, each in Single, Majority, Unanimous or Permissive mode, two signing keys, a third key whose record arrives valid, mismatched or undecodable; torn writes and crashes; 344,076 states |
| lifecycle | `Inv`, `ConfigInv`, `ReloadLosesOnlyLocalState`, `GovSpec`, `EndorseOkIsDurable`, `OwnWriteIsReadable` | one adapter, every configuration operation any number of times, one broken policy text, save and restart, failing storage; 1,508,110 states |
| completion | `ApprovedIsDelivered` | two adapters that both have to endorse, torn writes; 11,905 states |
| endorsement_names | `CountedHaveSigned`, `OneRecordPerKey` | three deltas, two of which share a digest, two keys, both kinds of bad digits, three files at once, symmetric; 121,131 states |
| trust_evolution | `TrustInv`, `ChainOfQuorums`, `ForksShareApprover`, `OneBranch`, `ChainSpec`, `NoRollback`, `SelfSupportedSearchArrives` | one participant, four versions with a fork, three keys, majorities of two and of three, one key that is trusted and may not approve; 110,980 states |
| dual_crdt | `DataInv`, `Provenance`, `RevokedIsGone`, `SameVersionSameView`, `SnapshotStays`, `NothingLost` | three versions, two replicas, one of which does not check its writes, three keys, one of them trusted and allowed nothing, two data deltas, one of them revoked; 93,934 states |
| endorsements_example | `AssertionsHold`, `ProgramEnds` | the program as it is: five people, four versions; 956 states |
| simple | `ReplicationInv`, `LoadedIsApproved`, `MeldedPeersAgree`, `RestartForgetsOwnOnly`, `Converges` | the three nodes of the program, three of its four commits; 129,271 states |
| encryption | `StoreSpec` | two clients with a key each, two names, empty and four-byte data, three-bit words, ranges that are whole, inside, too long, and wrapping; 103,684 states |
| foreign_record, previous_trustees, converges_strict | one each, violated | as reads, trust_evolution with a chain of three versions (2 replaces one of two trustees), simple with two commits |

The state spaces are finite because the models are: nothing counts up, sets of
deltas, records, rules and keys come from small constants; `MaxFiles` bounds the copies
of record files. One delta is enough where the decision about a delta is at stake,
since no step of an adapter relates two deltas; the runs about what deltas build on
have two to eighteen, and the run about names has three, so that a record can be copied to
a delta with its digest and to one with another. Three keys give every relation of one key to a configuration
(own, other trusted, untrusted or trusted without permission); a majority of two
makes its boundary even. Two adapters are enough for every race, which is between one
operation and one foreign write. Four versions have a fork and a successor of either
side; the documents of trust_evolution have trustees whose majorities meet pairwise, so
that `OneBranch` is about the fork: its sides gather a majority each if somebody endorses
both, and split the votes if nobody does. One participant is enough for the search, since participants only read what
others propose, and authors and endorsers are not bound to it. `alice_1` of simple.rs is
left out of its run: it is in everybody's copy from the start.

Each property of a passing run is broken by a plausible bug, kept in the modules as an
operator whose name says what it changes (`Endorse_Exists`, `Enough_Half`, ...).

What they show, beyond the names:

- `GovSpec` says that the one-by-one reads are as good as a read at one instant, because
  valid records are never lost. That holds with torn writes only if every record has
  one writer and that writer's reads do not fail (`TornWritesAssumption`): a second
  process with the same key could be interrupted while it rewrites a record the first
  has written, and `endorse` writes again whenever its read of the record fails.
- `ReadableStaysReadable` is why late endorsements, even by keys that are not trusted,
  never hurt; `NothingLost` says the same of a whole view: one more signature, by whoever
  is not allowed the change, must not take it away.
- `ForksShareApprover` is about one version that accepts two proposals. `OneBranch` is what
  a user of the trust document relies on, across versions: as long as nobody endorses two
  conflicting proposals, all that participants hold or can come to hold (`Adoptable`: what
  uninterrupted loads lead to from the anchor) is on one branch. It needs that the
  majorities of any two of these versions meet, which exchanging several trustees at once
  does not guarantee, and that none exempts proposals but the anchor, as the example's do.
- `RestartForgetsOwnOnly` is where memory and folder differ: a node holds its own
  commits before they are endorsed, and all that came from others must be what a fresh
  start would find, in whatever order it arrived.
- `NoRollback` bounds the search too: each load settles it or takes it strictly further.
  `NoRollback` and `SelfSupportedSearchArrives` assume that the version held accepts itself
  (`Supported`). They are stated with this condition because without it the loop
  of endorsements.rs:1141-1152 need not end: two versions each readable only under the
  other replace each other for ever. The example's own versions satisfy it
  (`ProgramEnds`).
- `Provenance` and `SameVersionSameView` need documents that trust the keys replicas join
  under (`SignersTrusted`): `set_endorsement_credentials` trusts the key it is given
  (keystore.rs:75) in one process only, and a participant whom the document does not
  trust counts itself, as endorser and in the number a majority is taken of.
- `Converges` is about what a node may write: with `strict_write` on, a meld stores only
  that. `MeldedPeersAgree` says what is left when every transfer that the adapters admit
  has been made (`MeldsDone`), refusals included: a delta that one peer has in memory and
  the other has not is one the other may not write, or one that lacks endorsements and was
  committed where it is, or builds on such a delta. In its run peers end up with both of
  their commits, with one that `strict_write` refuses the other, and with one nobody
  endorsed. A meld that brought records only with their delta would leave more.

### Disagreements with the documentation

- **foreign_record.** A record is decoded before its key is looked up
  (trustadapter.rs:279-290) and an error ends the read, so one damaged record of an
  untrusted key hides a delta from everybody. README.md:86 says endorsements of
  others are ignored.
- **previous_trustees.** A search from the anchor reads all proposals under the rules of
  the anchor. A version proposed on version 2 and endorsed by the trustees of version 1,
  one of whom version 2 has replaced, is adopted without a majority of version 2's.
  README.md:279 says a configuration takes effect with the endorsements of the trustees
  of the previous one. `ChainOfQuorums` is what does hold: each version is ratified by *some* version with a chain to the anchor.
- **converges_strict.** `strict_write`, on by default, is asked about the deltas a meld
  brings (trustadapter.rs:387). Bob, an editor, never stores what Alice, the owner, has
  changed beyond his rights, so they keep different views. README.md:252 says honest
  nodes converge.

### Fairness

- `FairSpec` (completion). Weak fairness for the steps of a started read and for taking a
  result: they are a thread that runs on. Strong fairness for starting a read or an
  endorsement of each delta, because each needs the adapter idle, which it is again and
  again: the application keeps trying, as `Melda::reload` and the loops of the examples
  do. Strong fairness for restoring the credentials after a restart: `from_json` never
  brings them back and the application always sets them (`bootstrap`). Strong fairness
  for the write of a record: not every attempt is torn. The property itself assumes that
  crashes outside a write end (`NoMoreCrashes`); it does not assume that torn writes do,
  also not those over a record that is torn already. With nothing saved, taking a result
  is the same step as a restart with the same configuration, so `NoMoreCrashes` excepts it.
  Loading the saved document between operations does to an adapter what a restart does, and
  counts as one.
- `FairTrustSpec` (trust_evolution). A search goes on, is repeated after it settled, and a
  program that panicked is started again; all weakly fair, since nobody else disables
  them. The property assumes that other restarts end (`NoMoreCrashes`).
- `FairReplicationSpec` (simple, converges_strict). While a peer is closed or another has
  an object it lacks and may store, one such step is taken. A meld goes on after an
  object that is refused: simple.rs:230 unwraps a meld that brings Bob a delta he may
  not write. Nothing is assumed of Joe, of copies, or of who commits or endorses.
- `ExampleSpec` (endorsements_example). The program runs on, and those who endorse an
  update get their turn beside the loop that looks for it.

## Proofs

All theorems hold for any number of adapters, keys, deltas, versions, nodes and objects,
any policy and any constants within the named assumptions. They are checked by TLAPS
to the last step.

- **TrustRulesProofs** has the lemmas about the decisions: counts are quorums
  (`CountsAreQuorums`), more endorsers are still enough (`MoreSignersShow`), a saved
  configuration decides as it did (`DecisiveParts`).
- **TrustConfigurationProofs.** `ConfigInvariant`: `ConfigSpec => []ConfigInv`, by one
  case per operation; `ConfigInv` is inductive as it stands, because an operation
  that records a role also trusts the key. `ReloadIsFaithful` follows from it: `to_json`
  walks the trusted keys, so it loses a role only if that invariant fails.
- **TrustAdapterProofs.** `Invariant`: `Spec => []Inv`. The strengthening is
  `OperationInv`: a read under way has collected only trusted keys whose records are
  valid *now*, a delivered answer still has the endorsers it was given on, and where
  writes may be torn a record about to be written is not valid (`NobodyElseWrites`
  needs the last for one adapter against the others, with `HoldsOwnKey`). From it
  `ValidRecordsStay`, hence `GroundsStay`: no step of others takes the grounds of an
  operation away. `EndorseIsDurable` is a consequence. `RefusalsAreGenuine` proves
  `NoSpuriousRefusal` where the storage does not fail; its strengthening says that a read
  that was never doubted has, among collected and listed records, all that were
  trusted and valid when it listed them.
  `Refinement`: `Spec => GovSpec`. The endorsers the policy allows are the abstract quorum
  (`EnoughIsQuorum`), and each step maps to an approval, a delivery, a withdrawal, an
  adoption or a stutter. `ReadableStays` (through `MoreEndorsersAreEnough`) and
  `OwnWriteReads` are the other two.
- **TrustEvolutionProofs.** `SearchIsSound`: what a load has shown is acceptable to the
  version held now (`TrustInv`), because endorsements only grow. From it `HeldHasChain`
  (`ChainOfQuorums`: the version a load ends on is ratified by the one it began on, and
  `InEffect` is closed under that and never shrinks), `SearchNeverFallsBack`
  (`NoRollback`: the version held is among what is applied, and the preferred one is the
  greatest) and `ForkNeedsCommonApprover` (`ForksShareApprover`: two majorities of the
  same finite set meet). `SearchFollowsChain`: `TrustSpec => ChainSpec`; `FinishLoad` is
  the step that advances, proposing and endorsing only add ratifications
  (`RatifiedGrows`), the rest stutters. `TrustDoesNotSplit` (`OneBranch`): what is held
  is adoptable (`HeldIsAdoptable`: a load finds no more than an uninterrupted one would
  now, and what is adoptable stays so), and every adoptable version but the anchor was
  found under an adoptable one (`AdoptableIsFound`), so two conflicting ones have two
  majorities of approvers, which meet in somebody who endorsed both. `OneTrusteeAtATime` shows its hypothesis can be kept: adding or removing
  one trustee leaves majorities that meet.
- **DualCrdtProofs.** `DataLeavesTrustAlone`: the composed system implements `TrustSpec`,
  so what is proved of it carries over. `DataIsClosed` (`DataInv`), then `LoadedWasApproved`
  (`Provenance`: every exemption was copied from something loaded, so by induction over
  steps everything loaded is `Known`, which never shrinks), `RevocationHolds`,
  `OneVersionOneView` and `SnapshotSurvives`. `LoadedStays` (`NothingLost`) is by the
  invariant that what a replica has loaded is in its view now (`LoadedStaysVisible`): no
  step takes an approval, an exemption or an anchor away (`ApprovalsStay`,
  `ExemptionsStay`, `AnchorsStay`), so views under a version only grow (`ViewOnlyGrows`).
- **ExampleProofs** is about the program endorsements.rs, whose constants are given
  (`ExampleAssumption`); whatever order its people act in is covered, and how often they
  look for the rules. `ProgramIsDual`: it is a behaviour of `DualSpec`, so all of the above
  holds of it. `AssertionsAreTrue`: `ExampleSpec => []AssertionsHold`. The strengthening
  `ExampleInv` says for each part of the program what the versions are and who has
  endorsed them (`VersionsInv`), what the search cannot miss (`SearchFindsInv`), which
  changes are stored, approved and carried over after how many rounds (`ChangesInv`) and
  what each participant has loaded (`ReplicasInv`); `ProgramIsOnCourse` is that it holds.
  Who may write, and who approves what, is computed from the four documents
  (`MayWriteIs`, `WriterApproves`, `ViewIs`, `TwoOfThree`).
- **ReplicationProofs.** `MemoryIsClosed` (`ReplicationInv`), `MemoryIsApproved`
  (`LoadedIsApproved`: a delta in memory is one's own or shown by the records in one's
  own folder, and records are never lost), `RestartKeepsTheRest` (`RestartForgetsOwnOnly`,
  from the same invariant: what a start does not show has no such records) and
  `MeldedPeersLoadTheSame` (`MeldedPeersAgree`): what a peer has in memory is its own or
  shown there, by the same invariant, so with all records melded it is shown at the other
  peer, who decides alike (`PeersAssumption`), and is in its folder unless it may not write
  it. The same goes for all it builds on, so a refresh would bring it.
- **StorageProofs.** `EncryptionIsTransparent`: `EncSpec => StoreSpec`. A range whose sum
  wraps around ends before it starts, so it is refused or panics (`SliceIsExact`), and
  slicing twice is slicing once (`ThroughIsTheSame`). `CountedKeysHaveSigned` and
  `FetchReadsOneRecordPerKey` are about record files; the invariant is that a file holds
  what somebody signed, or garbage.

The assumptions: `Keys` and `Versions` are finite; `None` is not a key, a role, a delta or
a set of deltas, and `Unparsable` is not a set of objects; the people of the example differ
(`PeopleAssumption`) and its constants are those of the program (`ExampleAssumption`);
later revisions have greater numbers (`VersionsAssumption`); peers decide alike
(`PeersAssumption`); records have one writer where writes are torn
(`TornWritesAssumption`); and those about the choices of the environment. `SignersTrusted`
is a hypothesis inside the two properties that need it.

Checked by TLC only: the liveness properties (`ApprovedIsDelivered`,
`SelfSupportedSearchArrives`, `Converges`, `ProgramEnds`), which are out of the prover's
reach, as ENABLED and fairness are. The three properties that runs refute are not theorems.

## Not modelled

- Cryptography: a record is valid or not, keys do not collide, a key pair is one value,
  and a cipher text opens under its own key only.
- YAML, JSON, base64 and globs beyond what the record states and `InvalidRule` say.
  `KeyStore::endorse` and `verify` change nothing and are not called by the adapter.
- Melda itself: an application sees it apply deltas with what they are based on and
  prefer the highest revision, and that is all the models have of it. Blocks of data
  that are not deltas, `stage` and conflicts between objects are left out.
- `BrotliAdapter` of compressed.rs, a lossless compression in the Melda library.
- The panic that a name with a wrong key causes in a process is an unsuccessful fetch in
  `EndorsementNames`; `TrustAdapter` has no such names.
- Ranged reads of deltas under `TrustAdapter`'s checks: there are none in the code
  (lines 407-416). `EncryptionAdapter` has what such reads return.
- A snapshot for the next version that is taken while its author holds commits of its own:
  the program reloads first (examples/endorsements.rs:285-291, 383), and such a snapshot
  would exempt commits nobody approved. Deltas the author failed to load are not carried
  over, in the code as in the model.
- The policy after `parse_yaml` has failed: it is modelled, but nothing is promised of it.
- A record of one's own key whose signature is not base64 makes each `endorse` fail:
  modelled (`undecodable`), but in no run does an adapter meet such a record of its own,
  and nothing in the repository promises a repair.

## Plan

Done, in this order: key store and policy; configuration with save and load; adapters
over a storage with their abstract specification; the trust document and its search;
the data it governs, with the whole example; replication with convergence; encryption;
record names; and the proofs above.

What could follow: reads of several deltas by one load under a `TrustAdapter` whose
storage fails, in `DualCrdt` as in `TrustEvolution`; two participants that search and
propose from what they themselves hold; blocks of data in `Replication`.
