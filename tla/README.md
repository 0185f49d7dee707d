# A TLA+ development of mcuhome-packagetool

The repository holds the tool that writes a package registry (`mcuhome/packagetool`),
the three programs that run it unattended on a server (`deploy/roles/*/files/packagetool-*`)
and a reference verifier (`verify.py`). This directory holds TLA+ models of them, the TLC
configurations that check the models on small instances, and theorems about them that
TLAPS proves for every value of the constants.

Every definition is read off the code; `PROJECT.json` names, under `map`, the lines each
one stands for.

    cd tla
    tlc -workers 2 -config MCSnapshot_compose.cfg MCSnapshot
    tlapm SnapshotProofs.tla

## 1. The system

    upstream releases
          |  download, verify
          v
    packagetool-publish ----calls----> mcuhome-packagetool (add, add-meta, refresh, ...)
          |                                  |
          |                                  v
          |                        working/<source>/   documents + detached signatures
          |  always calls at the end
          v
    packagetool-snapshot: working/ -> snapshots/<source>/snapshot-<time>
                                   -> trees/tree-<time>   (a copy of one snapshot per source)
                                   -> current             (symlink: what the web server serves)
          |  then
          v
    packagetool-mirror-sync: snapshots/ -> btrfs/<source>/*.dump + index.json
          |                                        ^
          v                                        | polls
    clients, which verify the signed documents     mirrors

The programs share state only through the file system. `packagetool-publish` and
`packagetool-snapshot` each have a lock of their own, and so has `packagetool-mirror-sync`;
the command line tool has none.

### Components

| Component | State | Operations | Interacts through | What is hard |
|---|---|---|---|---|
| `packagetool-snapshot` (bash) | snapshots per source, trees and their manifests, the `current` symlink, `.snapshot.lock` | one run: remove incomplete trees, plan, pick a timestamp, snapshot, compose, seal, write the manifest, switch the docroot, tree retention, snapshot retention | `working/`, which others edit; readers of the docroot; `snapshots/`, which mirror-sync reads | death at every step; lists made early and acted on late; edits in between; names of one-second resolution and a clock that can be set back; deletions that fail half way |
| source writer (`source.py`, `documents.py`, `add`, `add-meta`, `refresh`) | `index.json`, `mirrors.json`, a `.sig` beside each | read, check, write the document, write the signature | the files of a source, without a lock | two files that should change together; torn writes; read-check-write races; whole seconds against fractions; a clock that goes back |
| `packagetool-mirror-sync` (bash) | incremental and full dumps, the chain index | send missing dumps, send the newest in full, keep the contiguous part of the chain, write the index, remove the rest | `snapshots/`, deleted under a foreign lock; mirrors, which poll and download at any time | gaps cut into the chain by retention; dumps left by a run that died; order of index and removals; hashes that are taken over unread |
| `packagetool-publish` (bash) | the working tree of every source, a staging directory, `.publish.lock` | for every source: list releases, fetch, record each package, record meta packages, or, with `--refresh`, sign both documents anew; then verify, snapshot and mirror-sync | all of the above, GitHub | partial releases, retries, an interrupted record, two kinds of run, two writes in a second |
| index parts and `prune` (`source.py`, `__main__.py`) | part files named by their hash, the head that names them | place an entry by coverage, write the part before the head, delete what is no longer referenced after a grace period | writers and a prune without a lock between them; clients that hold an older head | a prune's list against heads that change; parts that killed writers leave; the head looked into first by one side and last by the other |
| key documents (`source.py`, `keys.py`) | `keys.json`, the archived `keys/<issued>.json`, a signature beside each | `write_keys`: archive, write, sign; `init` | clients that were offline across rotations; publishers, whose windows and revocation a key set states | four files that should change together, written one by one by a ceremony that may be killed |
| reference verifier (`verify.py`) | the last seen `issued` of each document, where `--state` is used | check keys, mirror list, index, parts, entries | documents of any age, key sets of any age | a walk back and forward along the archived key sets; anti-rollback against documents that are not rewritten; validity windows |
| package meta files (`metafile.py`) | none | check that a sidecar describes the archive it is beside | `add` | two ways to name one package |
| catalogue (`catalog.py`) | none | project the configuration into `sources.json` | | |
| deployment roles, pages, scripts | none of the program's own | configure btrfs, nginx, rsync; lint | | |

### What makes each component correct

* **packagetool-snapshot**: a reader of the docroot sees one whole composition at every
  moment and never an older source after a newer one; what is served is never deleted;
  a kept tree stays explained by the snapshots it was made of; the served tree catches up
  with the working tree whatever earlier runs left behind.
* **source writer**: what was published is never changed or lost; `issued` never goes
  back; a document ends up with its signature; a meta package exists only where all of its
  members do.
* **packagetool-mirror-sync**: what the index names is there, with the recorded hash, in one
  unbroken line; a dump is not given another parent as long as it stays listed; every mirror gets to the newest
  snapshot again.
* **packagetool-publish**: what is published verifies, nothing that was published disappears, and a
  release that was interrupted is completed by a later run.
* **parts**: every part the head names is there, whole, whenever a client looks; an entry that was
  resolved once stays what it was, wherever it is recorded; a client recomputes of a meta package what the
  writer recorded; a superseded part stays for the grace period.
* **key documents, verifier**: a client that trusts any earlier key set reaches the current
  one; a key set without its signature is refused; what a listed publisher signed since the key set in place was issued
  stays valid until it expires; a newer index is accepted.
* **meta files**: a sidecar is recorded with one package only.

`PROJECT.json` lists, under `hazards`, each thing that can go wrong and that a test would hardly
reach, at its line, with the properties that cover it.

## 2. The modules

| Module | Models |
|---|---|
| `AtomicDocroot` | what `packagetool-snapshot` promises to readers of the docroot (an abstract specification) |
| `Snapshot` | `packagetool-snapshot` |
| `MCSnapshot` + 2 cfgs | its instances for TLC |
| `SnapshotProofs` | theorems about `Snapshot`: what is served is whole |
| `DocrootProofs` | theorems about what `Snapshot` keeps of the past, and that it implements `AtomicDocroot` |
| `Source` | `add`, `add-meta` and `refresh` on one source: `source.py`, `documents.py`, `__main__.py` |
| `MCSource` + 1 cfg | its instances for TLC |
| `SourceProofs` | theorems about `Source` |
| `MirrorSync` + 2 cfgs | `packagetool-mirror-sync` for one source, and a mirror that follows the documented loop |
| `MirrorSyncProofs` | theorems about `MirrorSync` |
| `Publish` | `packagetool-publish`: from the releases upstream to the served tree |
| `MCPublish` + 2 cfgs | its instances for TLC |
| `PublishProofs` | theorems about `Publish` |
| `Verifier` | the checks of `verify.py` on key sets and signed documents, as operators without state |
| `KeyChain` | `write_keys` and `init`, publishers that sign, and what `Verifier` makes of it for clients with any anchor |
| `MCKeyChain` + 3 cfgs | its instances for TLC |
| `KeyChainProofs` | theorems about `KeyChain` |
| `IndexParts` | the head, its part files and meta packages, `prune`, and the checks of `verify.py` on parts and entries |
| `MCIndexParts` + 2 cfgs | its instances for TLC |
| `IndexPartsProofs` | theorems about `IndexParts` |

A definition with an underscore after another definition's name (`TakeLock_Open`) is a
deliberately wrong version of it: a property that still held with it in place would say
nothing about the code.

### Snapshot

`trees[t]` stands for `trees/tree-<t>` and for the manifest `trees/tree-<t>.sources` beside it.
The two are one record but not one fate: `dir` says whether the tree is there, `listed` whether the
manifest file is, and either can be without the other, since `delete_tree` removes the copies,
then the tree, then the manifest, and gives up at the first failure (`TreeDeletionFailed`), and
since the shell creates the manifest file (`OpenManifest`) before its lines are written
(`WriteManifest`). `snapshots[s][t]` is the content of a btrfs snapshot.

A run is a program counter and the shell's variables: which sources are still to be visited
(`todo`), what the manifest will say (`planned`), the timestamp, the trees to be deleted
(`queue`) and those kept. Each step that can be told from outside is an action, and `Die` can take the
place of any: it covers both the script's own `die` and a kill, for the flock goes with the
process and nothing is cleaned up on the way out. The listings that the script makes early
and uses late (`Start`, `StartRetention`) are state of the run.

A source's content is a version number and a fingerprint is that version: the code compares
fingerprints for equality only. The environment edits the working tree between any two steps.
The clock is a counter, or, where `Monotone` is `FALSE`, set to anything at any time.

### AtomicDocroot

One variable for what is served, and one action that changes it, to a composition under another name,
whose sources were all in the working tree at some time and none of which is older than the one it
replaces. `Snapshot` implements it under the mapping `Composition`: what a reader sees
through the symlink. All the steps of a run but the switch are invisible there, and retention
and cleaning must be.

### Source

The writer is a sequence of read, write, sign, with the decision (the guards of `Add`,
`AddMeta`, `Refresh`) made on what was read and the document carried along until it is written.
`write_bytes` truncates and fills, so a writer that is killed leaves a torn file (`Tear`), which every
later invocation refuses to read. `Torn` is the empty document of second 0, which no invocation
writes. A moment of the clock has a fraction (`Resolution` moments a second), as
`assert_advances` compares the unrounded moment with the rounded one it has published.

A signature is the document it was made of: keys and cryptography are left out.

### MirrorSync

A dump is identified with what it was sent against, so a stale hash or a wrong parent is
visible in the state. A run lists the snapshots (`Start`), visits each (`ReuseDump`,
`SendDump`), sends the newest in full, cuts the chain at its first gap (`Decide`), writes the
index and removes what it does not name. Snapshots come and go meanwhile: `packagetool-snapshot`
holds another lock, and keeps the newest.

The mirror is not under `src/` as a program. Its loop is the one the role's README
documents: find the snapshot you have in the index, apply the dumps after it in order, or fetch
the full dump when it is not listed. Hash and parent of a dump are checked where it is used,
because btrfs refuses a stream whose parent is missing.

### Publish

`working[s]` is a source as it is prepared and `served[s]` the source that clients see. What a publish
needs to know of it is whether it is laid down, what the index records, which of the two documents carries a
signature that is not of what it says (`unsigned`) and which is no JSON (`torn`). The index and the
mirror list that `Source` describes in full are reduced to that; each is still written and
signed in two steps (`WriteDocument`, `SignDocument`), and a run can die in between or in the middle of
the first (`Tear`).

A run's phase is its place in the script: `source` and `version` for the loops of `publish_source`,
`refresh`, `write` and `sign` for a document on its way to disk, `verify`, `snapshot`, `report`. `wanted`
is what `source_names` returns. The listing of releases is taken once (`Start`), the plan for a source
once (`PlanSource`), and both are used while builds go on uploading. `RecordPackage` and `RecordMeta`
read the index again, as each call of the tool does. The versions that are visited are those of the
missing packages, and, for a source with a meta package, all those that are offered, which is what
lets a later run complete a family. `Die` takes the place of any step and stands for
failed downloads, failed calls and kills; `Refuse` is what a run cannot get past.

`PublishTree` copies the working tree in one step. That `packagetool-snapshot` looks that way is what
`AtomicDocroot` says; that nothing is edited meanwhile follows from the lock, as long as only
packagetool-publish writes to the sources and starts snapshots. It takes every source, also when
`--source` was given.

### Verifier and KeyChain

`Verifier` holds the checks of a client: each function of `verify.py` that decides something is an
operator of the same name, over key files and documents that are given to it. A key file is the document and what is
beside it: a signature is the document it was made of and who made it, or is missing. `keys[0]` is `keys.json` and
`keys[n]` is `keys/<n>.json`. `verify_keys` walks back until it finds a key set that the anchor signed and then
forward again over the same list; `Reached` states that as a set of key files that holds the one in
place and in which each is either signed by the anchor or by the roots of the one before.

`KeyChain` has one ceremony at a time, which is a whole `init`, as no other command calls `write_keys`. `Begin` reads the key set in place and decides
about the next, then `ArchiveKeys`, `ArchiveSignature` (or `AlreadyArchived`), `WriteKeys` and `SignKeys` each write one file, and `WriteMirrors` and
`WriteIndex` the two documents, the first of which is held to be newer than the one it replaces (`RefuseMirrors`) and the second is not. `Die` may take
the place of each of them that `Killable` names.

`Replacing` is the key set that `init` makes: it lists the publishers it was given, each with a window that begins now, and says nothing of those that the key set
in place lists, so a publisher may be dropped, taken in, or start anew. Its `revoked` list is empty, since no command passes one; the checks on
revocation are in `Verifier` and nothing here exercises them.

Nothing in the code says who signs a key set: `write_keys` counts
signers and no more. `SignedByBoth` is therefore what the operators have to see to, and the properties show that it is
enough: the outgoing and the incoming roots both reach their thresholds. Nor does anything look whether the publishers' keys that are
loaded are listed: `Begin` has them among the listed ones and `MaySign` says that the publishing machine uses keys that are
listed and valid. Clients have no state of their own in the module: their anchors are all the root sets
the source ever had, and `NewerIndexAccepted` relates what was seen in one state to what is there in the next.

### IndexParts

`head.packages` are the entries in `index.json` itself and `head.parts` the parts it names, in their
order, each with the versions it covers. A source is laid down without parts; one is added by whoever edits the head by hand
(`DeclarePart`, as the tests of the tool do it: an empty part, and the head signed anew), also over versions that are in the head already. A part file is its label and its content, since its name is made of both and hashes do not
collide; `disk` says when it was written and whether it is whole. A writer reads the head and the parts, decides
(`AddPackage`, `AddMetaPackage`, `Refresh`), writes the part (`WritePart`, or `TearPart` where it is killed in the middle), and
then the head. `disk[f].superseded` is a history variable: since when the head does not name the file; nothing but `NotCutOff` reads it.

`prune` computes its cutoff and its list once (`StartPrune`), looks at the modification time of one file after the other
(`Look`), and removes one that is old in a step of its own (`Remove`), beside a writer. Nothing in the code keeps a writer out in between: a part that a killed writer
left more than a grace period ago, and that is written again in exactly that moment, is removed from under the new head. `raced` is a history variable that says whether that ever
happened; `HeadResolves` excepts it, and nothing else reads it.

The writer asks for an entry in the head first and in the parts in their order (`EntryOf`), a client merges them so that the
last one wins (`AllEntries`). Both are modelled as they are. A part declared over versions that the head has makes the two places possible; they agree because
`_entry_of` asks all places before anything is recorded, so that no version is ever in two of them.

### How they fit together

`packagetool-snapshot` treats the content of a source as opaque, which is why `Snapshot` can give it a
number; what the number stands for is the state of `Source` at one moment. `MirrorSync` sees only
names of snapshots: `TakeSnapshot` and `DeleteSnapshot` are what `CreateSnapshot` and
`PruneSnapshots` of `Snapshot` do to one source, the newest snapshot always staying since
retention keeps at least one.

## 3. What is checked

Run | Property | What it shows
---|---|---
`compose` | `TypeOK`, `ServedIntact`, `ServedInv`, `DocrootAtomic` | two sources, two runs (one may be limited by `--source`), edits and deaths: the docroot is a whole sealed tree at every moment, the inductive invariant behind that holds, and the script implements `AtomicDocroot`
`retention` | `ManifestsExplain`, `EventuallyServed` | three seconds, two kept trees, a day of retention: what a manifest names still exists and is what the tree's copy was made of, also after deletions that failed half way; runs that recur and stop dying bring the served tree up to date, whatever was left behind
`alone` | `TypeOK`, `SignedWhenDone`, `FamilyWhole`, `RecordedStays`, `IssuedNeverBack` | one invocation at a time, half seconds, a jumping clock, torn files
`mirror` | `TypeOK`, `IndexKept`, `ParentStays`, `MirrorCatchesUp` | four snapshots, deletions under the run, deaths: the index keeps its promise at every moment a mirror may look, and a mirror reaches the newest snapshot from wherever it stood
`label` | `ParentTrue` *(violated)* | finding 1
`pipeline` | `PublishInv`, `ServedVerifies`, `ServedStays`, `EventuallyPublished` | two runs of either kind, a source with a family and one without that is laid down late, deaths, torn documents: what is served verifies and never shrinks; once runs stop dying everything that is offered is served, and every complete version has its meta package
`limited` | `ServedVerifies` *(violated)* | finding 2
`keys` | `TypeOK`, `OfflineClientsCatchUp`, `HalfSignedRefused`, `SignedStaysValid`, `ChainInv` | rotations of roots and publishers, windows that start anew, documents signed before, during and after, ceremonies that are killed where no signature is missing: clients with any anchor of the past reach the key set in place and accept what its publishers signed since it was issued
`archive` | `OfflineClientsCatchUp` *(violated)* | finding 3
`freshness` | `NewerIndexAccepted` *(violated)* | finding 4
`parts` | `TypeOK`, `HeadResolves`, `EntriesVerify`, `SidecarsTheirOwn`, `PublishedKept` | packages of two versions, a part that is declared over one of them before or after it is recorded, a meta package, killed and torn writes, a prune that looks and removes in two steps: the head resolves (unless a part was written between these two) and verifies at every moment, and what it says of a version never changes
`grace` | `NotCutOff` *(violated)* | finding 5

### Bounds, and why they are enough

* `Snapshot`. `MaxTime` 3 allows three trees with `KeepTrees` 1 (`compose`) or 2 (`retention`), so that tree
  retention has work while a tree is served. The clock goes forward in both: one that is set back is in the model
  (`Monotone`) and in the proofs of `ServedInv` and `ServedIntact`, and section 5 says what it breaks. Two sources are what a composition of different ages needs; one
  is enough where the sources do not interact (`retention`). Two runs contend for the
  lock; only one of them is ever inside. `MaxVersion` 2 or 3 allows an edit before and during
  a run. The `retention` run has one process, started again and again: the lock makes a second one
  wait outside.
* `Source`. Two members make a family with a hole possible, two digests make a second, different archive of
  a version possible. `FamilyWhole` is checked for one invocation at
  a time; for any number that interleave it is proved. `Resolution` 2 is the smallest that tells a
  second from a moment.
* `MirrorSync`. Four snapshots are a chain of three dumps, out of which a gap can be cut in the
  middle while something hangs off either side; a mirror can be before, at and behind the gap.
* `Publish`. A family of two in one source and a third package in another is the smallest registry
  in which a family, a source and a release can each be half done. One version: versions of a
  source are independent but for their order. Two runs contend for the lock in
  `pipeline`; one that is started again and again, in either kind, is enough in `limited`. Uploads come in two goes, the first of which
  leaves the family half there. `limited` begins with the sources laid down, so that the trace is about the publish.
* `KeyChain`. Three root keys, in a set of one and a set of two, neither of which can sign for the other: an anchor that is not walked from
  reaches nothing. Four seconds are three ceremonies, so that a client walks over two archived key sets, and one that was
  killed is followed by others. A key set lives three seconds, a document two, a publisher's window closes after one: each runs out
  while what it covers is still in use. Two publishers, which are interchangeable and treated as such, are one that is dropped and one that takes over, or that signs
  beside a ceremony that does not list it. `keys` and `freshness` let a ceremony be killed in `SafePhases`, `archive` between
  an archive and its signature. With a third set of roots, one key of the second by itself, the properties of `keys` hold as well (1.5 million states).
* `IndexParts`. Two names, a family and its package for one platform, are what a meta package and an ambiguous sidecar take. Two versions,
  of which one is covered, are an entry in a part and one in the head. `MaxFiles` 3 leaves room for the part in use and two that are superseded
  or left behind by killed writers. With `Grace` 1 three moments let a part that a killed writer left become old and be wanted again, four let one be superseded and
  removed besides (`grace`); the properties of `parts` hold in four as well (2.4 million states). The order of several parts is beyond the
  instance and is in the proofs, which are about any covers, overlapping ones included.
* Deadlock is not checked: the counters are bounded, and an instance that has used them up
  stops, as does the real system when nobody publishes.

### Fairness

* `Snapshot!Fairness`: a run is started again and again (`packagetool-publish` runs from a
  systemd timer and calls it), a run that is under way takes its next step, and time
  passes. Nothing is assumed of editors or of deaths; `EventuallyServed` holds on
  the behaviours in which runs die only finitely often, for a registry whose every run is killed publishes
  nothing. Weak fairness is on each run's own program counter, which stays enabled until it
  moves, as a process that is scheduled does. The clock of an instance ends; `ClockExhausted` excuses the state
  in which no name is left.
* `MirrorSync!Fairness`: every publish that made a snapshot calls a run, the run goes on, a mirror polls
  and applies. The premise of `MirrorCatchesUp` is that snapshots come to rest and runs
  stop dying, and that the index was never wrong about a parent, which finding 1
  shows it can be: a mirror that is told that cannot receive the stream.
* `Publish!Fairness`: a run that is under way goes on. Both kinds of run are started again and again (the
  publish by hand or by its timer, the refresh by a weekly one), at moments that have nothing to do with each other,
  and `flock -n` gives up at once: so it is not enough that the lock is free again and again, and
  starting is strongly fair for each kind. Both kinds are needed: a publish takes a package in
  an index without a signature as recorded, and only a refresh signs it. The premise of
  `EventuallyPublished` is that runs stop dying and that no document is torn, which only an
  operator can repair. No fairness is assumed of uploads or of laying down a source.

## 4. What is proved

For every value of the constants that the modules' `ASSUME`s allow (they say that bounds are natural
numbers, that the keep-counts, thresholds and the grace period are not zero, that package names are not empty, and that model values are distinct from what they
must not be mistaken for):

Theorem | Statement | Argument
---|---|---
`SnapshotProofs!TypeCorrect` | `Spec => []TypeOK` | inductive as it stands, one step per action
`SnapshotProofs!ServedInvariant` | `Spec => []ServedInv` | inductive
`SnapshotProofs!ServedTreeIntact` | `Spec => []ServedIntact` | from `ServedInv`
`DocrootProofs!HistoryInvariant` | `Monotone` implies `Spec => []HistoryInv` | inductive
`DocrootProofs!ManifestsAlwaysExplain` | `Monotone` implies `Spec => []ManifestsExplain` | from `HistoryInv`
`DocrootProofs!DocrootIsAtomic` | `Monotone` implies `Spec => DocrootAtomic` | from `HistoryInv`: the switch is `Publish`, all else a stutter
`SourceProofs!TypeCorrect` | `Spec => []TypeOK` | inductive as it stands
`SourceProofs!FamilyIsWhole` | `Spec => []FamilyWhole` | inductive together with `TypeOK`
`SourceProofs!SignedInTheEnd` | `Spec /\ []OneAtATime => []SignedWhenDone` | from `SerialInv`
`SourceProofs!RecordedIsKept` | `Spec /\ []OneAtATime => RecordedStays` | from `SerialInv`
`SourceProofs!IssuedStaysAhead` | `Spec /\ []OneAtATime => IssuedNeverBack` | from `SerialInv`
`MirrorSyncProofs!TypeCorrect` | `Spec => []TypeOK` | inductive as it stands
`MirrorSyncProofs!IndexInvariant` | `Spec => []IndexInv` | inductive
`MirrorSyncProofs!IndexKeepsItsPromise` | `Spec => []IndexKept` | from `IndexInv`
`MirrorSyncProofs!ParentsStay` | `Spec => ParentStays` | from `IndexInv` and `ParentsKept`
`PublishProofs!TypeCorrect` | `Spec => []TypeOK` | inductive; a run that writes is at a source
`PublishProofs!PublishInvariant` | `Selections \subseteq {Sources}` implies `Spec => []PublishInv` | inductive
`PublishProofs!ServedSourcesVerify` | `Selections \subseteq {Sources}` implies `Spec => []ServedVerifies` | from `PublishInv`
`PublishProofs!KeptInvariant` | `Selections \subseteq {Sources}` implies `Spec => []KeptInv` | inductive
`PublishProofs!ServedIsKept` | `Selections \subseteq {Sources}` implies `Spec => ServedStays` | from `KeptInv`
`KeyChainProofs!TypeCorrect` | `Spec => []TypeOK` | inductive as it stands
`KeyChainProofs!ChainStaysSound` | `Killable \subseteq SafePhases` implies `Spec => []ChainInv` | inductive
`KeyChainProofs!EveryoneCatchesUp` | the same for `OfflineClientsCatchUp` | from `ChainInv`
`KeyChainProofs!HalfSignedIsRefused` | the same for `HalfSignedRefused` | from `ChainInv`
`KeyChainProofs!SignedIsValid` | the same for `SignedStaysValid` | from `ChainInv`
`IndexPartsProofs!TypeCorrect` | `Spec => []TypeOK` | inductive as it stands
`IndexPartsProofs!HeadAlwaysResolves` | `Spec => []HeadResolves` | from `PartsInv`
`IndexPartsProofs!EntriesAlwaysVerify` | `Spec => []EntriesVerify` | from `EntriesInv`
`IndexPartsProofs!PublishedIsKept` | `Spec => PublishedKept` | from `EntriesInv`
`IndexPartsProofs!SidecarsAreTheirOwn` | `Spec => []SidecarsTheirOwn` | from `EntriesInv` and a lemma on `Describes`

**ServedInv.** `ServedIntact` alone is not inductive: nothing in it says that a run about to delete a tree does not
have the served one on its list, nor that a run about to switch the docroot has a finished tree.
`ServedInv` adds that only the lock's holder is at work (`Exclusive`), so that lists
made under the lock stay true of the docroot; that the served tree is on no list of trees to be
deleted (`SparesServed`), which holds because no step between the switch and the end of
retention moves the docroot; and what is finished of the tree under construction at each program counter
(`Composing`), which is never the served one since its name was free when it was picked. The clock
plays no part: the proof never uses `now`, so it holds for one that is set back.

**HistoryInv.** `ManifestsExplain` and the refinement speak of the past: of what a tree was made of and of what was served before.
Neither is inductive. `HistoryInv` adds

* `NothingAhead`: trees and snapshots have the names of seconds that have come, so the name a run reserves is newer than all there are, and
  a manifest that was left behind by its tree is never found by another tree of that name;
* `Planned`: what a run has planned of a source is its newest snapshot, which stays so while the lock is held, and those it is still to
  take get a name newer than all of that source;
* `Composed`: the tree under construction has the copies of what was planned, and the manifest that it will get is not there yet;
* `InOrder`: what is served is no newer than the newest snapshots and these no newer than the working tree, so that a composition of the
  newest snapshots takes no source back;
* `Retaining`: cleaning deletes trees that have no manifest, retention those that are not the newest, and a tree that is still there has been asked for its manifest before a snapshot goes.
  That the newest snapshot is never prunable is a lemma on `BeyondNewest` (`NewestSpared`), where `KeepCount` has to be positive.

For the refinement, trees change only where they are not served (`ServedInv`), so of all the steps only the switch is seen through `Composition`; and it
shows what `Planned` and `Composed` say it does, which is what `Publish` of `AtomicDocroot` asks for. The hypothesis is that the clock goes forward. Without it TLC finds both properties violated:
a tree gets the name of an older one whose manifest was left behind, and a source goes back that was served (see section 5).

**FamilyWhole.** It is stated of the index, of what was signed and of what each invocation is about to
write, so it carries itself: an invocation derives its document from an index that is
whole, and an index is only ever replaced by such a document. That is why it survives unlocked
interleaving, in which an entry that somebody else added may well be lost.

**SerialInv.** What an invocation is about to write was derived from what it has read, so that nothing is lost or goes back needs the
document to be there still as it was read: `Carries` says of each program counter what the invocation has in hand compared with what is on disk.
A torn file needs no case of its own, as it is never read to the end. The theorems have `[]OneAtATime` as a hypothesis: no invocation is under way
together with another. It is a property of behaviours, not an assumption on the model. `packagetool-publish` sees to it with its lock (`take_lock`) for
all the invocations it makes; the tool by itself does not, and two invocations do violate all three (section 5). Deaths need no
exception: one that died is no longer under way, and what it left is what the next one reads.

**IndexInv.** `IndexKept` needs `RunKept`: what the run lists is on disk when it is listed, and what it
removes is not listed in its chain; once it removes anything the published index is that chain. A dump
is only removed by the run, so a promise made before is kept while the run works.
`ParentStays` compares two indexes. `ParentsKept` says that the chain under construction agrees with the published one wherever both name a
parent, and two consecutive indexes are related by it: a run takes over the parent that the index records and derives one from adjacency only where the index has none. That is why the parent of a dump
stays while it is listed, although that of a dump which is not listed, because its run died before the index or because it was cut from the chain by
a run that died before removing it, can be wrong in the next index (finding 1).

**PublishInv.** `ServedVerifies` needs to know what a run about to call `packagetool-snapshot` knows: that
every source of the working tree verifies now (`Verified`), although it looked at them one by one, some
time ago. That follows from `Exclusive`: nobody else holds the lock, so nobody writes. The hypothesis
says that `--source` is not used. It cannot be dropped, which is finding 2: what is verified is what was selected,
and what is published is everything. A source that is laid down while a run verifies is no exception, for it is
laid down signed.

**KeptInv.** `ServedStays` needs the working tree to have all that is served of every source, unless its index is torn (`SourceKept`), and an index that is about
to be written to have it too (`Recording`). A torn index is not filled anew: a run that meets it finds nothing recorded in it, fails where it
tries to record, and a meta package is recorded only of what is listed. What is snapshotted verifies (`PublishInv`), so it is not torn. The hypothesis is again that `--source`
is not used.

**ChainInv.** That clients catch up is not inductive: it says nothing of a ceremony under way. `ChainSound` adds that every
archived key set is under its own second, signed by enough of its own roots and by enough of those of the one it names as its
predecessor, and what a ceremony at each program counter has so far; `NothingSkipped` that none is left out on the way from a newer one, which is what lets
*every* anchor be walked to; `SignedInWindow` that the windows of a key set begin with it and no document is later than
they last, so that what a listed publisher signed under it is inside; `OldSignature` that the signature beside a new key set is of
another one until it is written. The walk itself is the set of all archived key sets between the anchor's and the one in place. The hypothesis
`Killable \subseteq SafePhases` excludes two deaths: between an archive and its signature, which is finding 3, and between the key set and
its signature. The second leaves a source that is refused until the next ceremony, which then archives the unsigned key set beside the signature of
the one before, so that the chain is broken there for good.

**PartsInv.** `HeadResolves` has to survive a prune that acts on an old list. A writer is never older than the grace period
(`Tick` says so), so whatever it wrote was not old enough when the prune took the time, and a look after that spares it; and a part that is yet to be written is not one that
the head names, because it holds an entry that no place of the head has, or is new there. That keeps a torn write, and a rewrite of what a killed writer
left, away from what clients read. `PartsSafe` says so of each place: what the head names is whole and not held by the prune as aged, and what the writer
has put down neither. The step that breaks it is `WritePart` on the very file the prune holds, which sets `raced`; so the invariant is
`raced \/ PartsSafe`, and without `raced` TLC finds the head unresolved (section 5).

**EntriesInv.** The head there is and the one being written are both sound (`Single`: the order of places makes no difference; every sidecar describes its
package; every meta package recomputes), and the second extends the first. A step that records is one lemma (`Recording`) for the
head and for any part.

Only model-checked: the liveness properties `EventuallyServed`, `MirrorCatchesUp` and `EventuallyPublished` (liveness under fairness and `ENABLED` are
out of the prover's reach). They hold on the instances of section 3.

## 5. Where the code and its words disagree

Each of these is a run that is expected to end in a violation:

1. **label**. `packagetool-mirror-sync:318-322` says a dump's parent must never be recomputed from today's
   adjacency, "exactly the lie a mirror must never be told". A dump whose run died before its index is
   given the snapshot that precedes it today.
2. **limited**. `deploy/roles/registry_publish/README.md:16-18` says a run "verifies the result with the reference verifier,
   and only then takes a snapshot and switches the served tree onto it". With `--source`,
   `verify_tree` looks at the sources that were named, and the snapshot takes them all: one that an earlier run left with a
   document that does not verify is served.
3. **archive**. `source.py:138-142` says that predecessors are archived so that "a client that has been offline across rotations can walk backwards to a key
   set it still trusts and then verify forward". A ceremony killed between the archive and its signature leaves an archive that
   no later ceremony completes, as it exists; older anchors are locked out.
4. **freshness**. `verify.py:28-30` asks for "freshness against state" of the index and for a publisher's signature of the mirror list. The code
   holds both to the state, `add` rewrites the index only, and a client with `--state` refuses the newer index until a refresh.
5. **grace**. `__main__.py:60-63` says that a superseded part goes "only after this long". The time is counted from when the file was written:
   a part that was in use for longer is removed the moment it is superseded.

Others showed up while the models were written, without a run of their own here:

* A snapshot run that dies between creating the manifest (`packagetool-snapshot:584`) and filling it leaves a tree that counts as finished, is
  kept, and protects none of its snapshots, which `deploy/README.md:90` says are deleted "never while a tree that is still kept was composed
  from it". `ManifestsExplain` is about what manifests do name.
* Two invocations of the tool that both read before either writes put an older `issued` over a newer one, which `documents.py:126` calls "closed at the
  writing end". `IssuedNeverBack` is checked for one invocation at a time.
* `assert_advances` compares an unrounded moment with a rounded one: a second write in the same second passes, with the same `issued`, where
  `documents.py:124` says "strictly newer". For two ceremonies in one second that means one archive name for two key sets.
* A publish that dies between two packages leaves the first recorded, and a refresh, which looks for no releases and finds that
  everything verifies, publishes the half of what `packagetool-publish:18-22` wants to be "one tree and one flip".
* A clock that is set back makes an older snapshot the newest by name, and a source that is served goes back. A tree can get the name
  of an older one whose manifest a half-failed deletion left behind, and is then explained by snapshots it was not made of. `DocrootAtomic` and `ManifestsExplain` are checked and
  proved for a clock that goes forward; `ServedIntact` is proved for any.
* A part that a killed writer left for longer than the grace period, and that the same add writes again after a prune has looked at the old file
  and before it removes it, is gone when the head names it: `__main__.py:60-63` lets a part be removed "once nothing references it". TLC shows it when `HeadResolves` is stated
  without `raced`: `DeclarePart`, killed with its part torn; time; the prune finds it aged; `DeclarePart` again; the head; the removal.
* `init` is the only command that writes a key set. Run again to renew one, it writes an empty index over the one there is, without `assert_advances`, so that an
  `add` made beside the ceremony is undone by an older index. It starts every window anew, lists none but the publishers it is given and passes no `revoked`: `verify.py:325-326`
  has a retired key's "what it signed while valid stays valid", and no document that is older than the key set is inside a window of it. `SignedStaysValid` is about documents of
  the key set in place for that reason. Between the new key set and the ceremony's own documents the source is refused; a `refresh` with the old keys in the
  meantime makes `write_mirrors` refuse, and the ceremony ends with the new key set in place and without its own documents.
* A document that is signed by a listed key whose window holds and by one that is listed with another window is refused on account of the second. `init` gives
  all publishers one window, so no command makes such a key set.
* A client that verifies an unchanged copy again with its state is refused, as nothing in it is newer.

## 6. What is not modelled

* Data that no decision depends on: sizes, file names, the text of documents, release notes; of meta files, whether what they
  require is well formed is one Boolean.
* Cryptography: a signature is the document it was made of; a hash is injective.
* A machine crash that loses what the file system had not committed: processes are killed, the file
  system stays.
* A `packagetool-snapshot` that is started by hand while a publish is recording, and another writer of a
  source next to it: the two locks do not know of each other (planned: `Publish` with `Snapshot`).
* A dry run of any of the scripts, which changes nothing.
* A grace period shorter than an `add`, and files that are read while they are replaced.
* What a renewal by `init` does to what is in the index (it empties it): `KeyChain` has dates and signatures of documents, `IndexParts` has no ceremony. Revocations, which no command makes.
* A signature file that names a key twice, which `verify.py:151-166` counts twice: signers are a set here, which is what the tool writes when no key file is given twice.
* Who takes part in a ceremony: `SignedByBoth` is what the holders of the root keys have to see to.
* The order of publishers' two writes within `KeyChain`, and their deaths: `Source` has them.
* `status`, which only reads; `anchor` and `keygen`, which write a file that nothing else here reads.
* Key generation, the catalogue, deployment roles, pages: stateless, or not the program's own
  logic.

## 7. Plan

In the order in which they matter:

1. `Snapshot`, `AtomicDocroot`: what readers see. *Done.*
2. `Source`: what a source says. *Done.*
3. `MirrorSync`: what mirrors follow. *Done.*
4. `Publish`: the pipeline over sources. *Done*; to come: its composition with `Snapshot`, where a snapshot can be
   taken at any moment, and with `Source`, which its documents abstract.
5. `IndexParts`: parts, meta packages, prune, and a client's view of them. *Done.*
6. `Verifier` and `KeyChain`: ceremonies, rotations, and the walk of clients with any anchor. *Done.*
7. The composition of `IndexParts` with `Publish`: a client that holds the head of one served tree and resolves its parts in the next.

Theorems to come: those of the two compositions, for which `ServedInv` (no tree is served that is not whole) and `PartsInv` (the head
resolves at every moment, so in every copy) are the lemmas; that a limited run (`--source`) keeps what it does not select.
