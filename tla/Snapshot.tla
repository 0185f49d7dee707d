------------------------------ MODULE Snapshot ------------------------------
(***************************************************************************)
(* packagetool-snapshot: publish the registry's working tree.              *)
(*                                                                         *)
(* A run takes a snapshot of every source that changed, composes a tree    *)
(* out of one snapshot copy per source and the files above the sources,    *)
(* points the docroot symlink at the tree and lets retention delete old    *)
(* trees and old snapshots. Runs exclude each other with a lock; each may  *)
(* die at any step, and the working tree is edited while a run works.      *)
(*                                                                         *)
(* Simplifications:                                                        *)
(*  - the content of a source is a version number, that of the files above *)
(*    the sources another; a fingerprint is the version it stands for;     *)
(*  - a timestamp is a number, and the name built from it is that number;  *)
(*    a day of retention is one tick of the clock;                         *)
(*  - the set of sources does not change;                                  *)
(*  - planning reads every source and the files above them in one step:    *)
(*    an edit in between is one before or after it;                        *)
(*  - a loop over sources visits them in any order;                        *)
(*  - the files above the sources are copied in one step, and not one by   *)
(*    one: nothing serves the tree before it is sealed;                    *)
(*  - a dry run, which takes no lock and changes nothing, is left out;     *)
(*  - a machine crash that loses what the file system had not committed    *)
(*    is left out: a run is killed, the file system stays.                 *)
(***************************************************************************)
EXTENDS Naturals, FiniteSets

CONSTANTS
    Sources,        \* the sources of the registry
    Runs,           \* the invocations that may be under way
    Selections,     \* what --source may name; all of Sources stands for none given
    KeepCount,      \* registry_snapshot_keep_count
    KeepDays,       \* registry_snapshot_keep_days
    KeepTrees,      \* registry_snapshot_keep_trees
    Monotone,       \* whether the system clock only ever goes forward
    NoRun,          \* nobody holds the lock
    MaxTime,        \* bound: the last second of the clock
    MaxVersion,     \* bound: the contents of a source
    MaxTop          \* bound: the contents of the files above the sources

ASSUME SnapshotAssumption ==
    /\ Selections \subseteq SUBSET Sources
    /\ KeepCount \in Nat \ {0}
    /\ KeepDays \in Nat
    /\ KeepTrees \in Nat \ {0}
    /\ Monotone \in BOOLEAN
    /\ NoRun \notin Runs
    /\ MaxTime \in Nat \ {0}
    /\ MaxVersion \in Nat \ {0}
    /\ MaxTop \in Nat \ {0}

Stamps == 1 .. MaxTime
Versions == 1 .. MaxVersion
TopVersions == 1 .. MaxTop
None == 0               \* no such stamp, no such version

VARIABLES
    now,            \* the second of the clock
    working,        \* working[s]: the content of working/<s>
    top,            \* the content of the files above the sources
    snapshots,      \* snapshots[s][t]: the content of snapshots/<s>/snapshot-<t>
    trees,          \* trees[t]: the tree trees/tree-<t> and its manifest
    current,        \* the tree the docroot points at; None is the placeholder
    lock,           \* the run that holds .snapshot.lock
    run             \* run[r]: the local state of an invocation

vars == <<now, working, top, snapshots, trees, current, lock, run>>

-----------------------------------------------------------------------------
(* The state of a tree and of a run *)

NoCopy == [from |-> None, version |-> None]
NoManifest == [s \in Sources |-> None]

Copy == [from : Stamps \cup {None}, version : Versions \cup {None}]
Manifest == [Sources -> Stamps \cup {None}]

\* A file trees/tree-<t>.sources that exists (listed) may still be empty.
Tree == [dir      : BOOLEAN,
         sealed   : BOOLEAN,
         copies   : [Sources -> Copy],
         top      : TopVersions \cup {None},
         listed   : BOOLEAN,
         manifest : Manifest]

NoTree == [dir      |-> FALSE,
           sealed   |-> FALSE,
           copies   |-> [s \in Sources |-> NoCopy],
           top      |-> None,
           listed   |-> FALSE,
           manifest |-> NoManifest]

Phases == {"idle", "clean", "plan", "stamp", "snapshot", "create", "copy",
           "top", "seal", "open", "write", "flip", "retain", "trees",
           "snapshots"}

\* todo: the sources the phase has still to visit; queue: the trees it has.
RunState == [pc      : Phases,
             todo    : SUBSET Sources,
             planned : Manifest,
             stamp   : Stamps \cup {None},
             queue   : SUBSET Stamps,
             kept    : SUBSET Stamps]

IdleRun == [pc      |-> "idle",
            todo    |-> {},
            planned |-> NoManifest,
            stamp   |-> None,
            queue   |-> {},
            kept    |-> {}]

TypeOK ==
    /\ now \in Stamps
    /\ working \in [Sources -> Versions]
    /\ top \in TopVersions
    /\ snapshots \in [Sources -> [Stamps -> Versions \cup {None}]]
    /\ trees \in [Stamps -> Tree]
    /\ current \in Stamps \cup {None}
    /\ lock \in Runs \cup {NoRun}
    /\ run \in [Runs -> RunState]

\* The registry as the storage set-up leaves it: the sources are there, the
\* docroot points at the placeholder, nothing was published yet.
Init ==
    /\ now = 1
    /\ working = [s \in Sources |-> 1]
    /\ top = 1
    /\ snapshots = [s \in Sources |-> [t \in Stamps |-> None]]
    /\ trees = [t \in Stamps |-> NoTree]
    /\ current = None
    /\ lock = NoRun
    /\ run = [r \in Runs |-> IdleRun]

-----------------------------------------------------------------------------
(* What a run reads *)

TreeDirs == {t \in Stamps : trees[t].dir}
SnapshotsOf(s) == {t \in Stamps : snapshots[s][t] # None}

\* Mutant: the sorted list is read from the wrong end.
IsNewest_Oldest(s, t) ==
    /\ t # None => t \in SnapshotsOf(s)
    /\ \A u \in SnapshotsOf(s) : t # None /\ t <= u

\* t is the newest snapshot of s by name, or None when s has none.
IsNewest(s, t) ==
    /\ t # None => t \in SnapshotsOf(s)
    /\ \A u \in SnapshotsOf(s) : u <= t

\* The names that sort before the newest n of them.
BeyondNewest(names, n) ==
    {t \in names : Cardinality({u \in names : u > t}) >= n}

\* The tree the docroot points at, when it is still there.
Served == {t \in TreeDirs : t = current}

Taken(t) == trees[t].dir \/ \E s \in Sources : snapshots[s][t] # None

\* Mutant: only what is being edited counts, not what the served tree holds.
AnythingToPublish_Unlisted(changed, planned) ==
    changed # {} \/ Served = {}

\* Whether a tree composed of what was planned would differ from the served one.
AnythingToPublish(changed, planned) ==
    \/ changed # {}
    \/ Served = {}
    \/ \E t \in Served : \/ ~trees[t].listed
                         \/ trees[t].manifest # planned
                         \/ trees[t].top # top

\* Mutant: only the served tree holds on to its snapshots.
Protected_ServedOnly(s, t, kept) ==
    \E k \in kept \cap Served : trees[k].manifest[s] = t

Protected(s, t, kept) ==
    \E k \in kept : trees[k].listed /\ trees[k].manifest[s] = t

\* The trees retention lets go of: those beyond the newest KeepTrees, the
\* served one excepted.
Doomed ==
    BeyondNewest(TreeDirs, KeepTrees) \ Served

\* The snapshots of s that neither bound covers and no kept tree names.
Prunable(s, kept) ==
    {t \in BeyondNewest(SnapshotsOf(s), KeepCount) :
        t + KeepDays < now /\ ~Protected(s, t, kept)}

-----------------------------------------------------------------------------
(* delete_tree: the copies, then the tree, then the manifest. It gives up   *)
(* at the first step that fails, and so does a run killed in the middle.    *)

TreeBecomes(t, state) == trees' = [trees EXCEPT ![t] = state]

TreeDeleted(t) == TreeBecomes(t, NoTree)

TreeDeletionFailed(t) ==
    \/ UNCHANGED trees
    \/ \E gone \in SUBSET Sources :
         TreeBecomes(t, [trees[t] EXCEPT
                           !.sealed = FALSE,
                           !.copies = [s \in Sources |->
                                         IF s \in gone THEN NoCopy ELSE @[s]]])
    \/ TreeBecomes(t, [NoTree EXCEPT !.listed   = trees[t].listed,
                                     !.manifest = trees[t].manifest])

-----------------------------------------------------------------------------
(* The steps of a run *)

At(r, phase) == run[r].pc = phase
Becomes(r, state) == run' = [run EXCEPT ![r] = state]
Goto(r, phase) == Becomes(r, [run[r] EXCEPT !.pc = phase])

\* The tree a run composes, and a step that adds to it.
TreeOf(r) == trees[run[r].stamp]
Composes(r, state) == TreeBecomes(run[r].stamp, state)

\* Mutant: the lock file is opened and not locked.
TakeLock_Open(r) == lock' = r

TakeLock(r) == lock = NoRun /\ lock' = r

\* The lock is taken, and remove_incomplete_trees lists the trees that have
\* no manifest and are not served.
Start(r, wanted) ==
    /\ At(r, "idle")
    /\ TakeLock(r)
    /\ Becomes(r, [run[r] EXCEPT !.pc = "clean",
                                 !.todo = wanted,
                                 !.queue = {t \in TreeDirs \ Served :
                                                ~trees[t].listed}])
    /\ UNCHANGED <<now, working, top, snapshots, trees, current>>

\* A leftover is removed; one that cannot be removed is left where it is.
CleanTree(r) ==
    /\ At(r, "clean")
    /\ \E t \in run[r].queue :
         /\ \A u \in run[r].queue : t <= u
         /\ TreeDeleted(t) \/ TreeDeletionFailed(t)
         /\ Becomes(r, [run[r] EXCEPT !.queue = @ \ {t}])
    /\ UNCHANGED <<now, working, top, snapshots, current, lock>>

CleaningDone(r) ==
    /\ At(r, "clean")
    /\ run[r].queue = {}
    /\ Goto(r, "plan")
    /\ UNCHANGED <<now, working, top, snapshots, trees, current, lock>>

\* plan_sources and anything_to_publish: a wanted source that differs from
\* its newest snapshot is to be snapshotted, every other one is taken from
\* its newest snapshot, and has to have one.
PlanSources(r) ==
    /\ At(r, "plan")
    /\ \E newest \in Manifest :
         LET wanted == run[r].todo
             changed == {s \in wanted : \/ newest[s] = None
                                        \/ working[s] # snapshots[s][newest[s]]}
             planned == [s \in Sources |-> IF s \in changed THEN None
                                                            ELSE newest[s]]
         IN  /\ \A s \in Sources : IsNewest(s, newest[s])
             /\ \A s \in Sources \ wanted : newest[s] # None
             /\ Becomes(r, [run[r] EXCEPT
                               !.pc = IF AnythingToPublish(changed, planned)
                                      THEN "stamp" ELSE "retain",
                               !.todo = changed,
                               !.planned = planned])
    /\ UNCHANGED <<now, working, top, snapshots, trees, current, lock>>

\* Mutant: the next second is reserved, without a look at what it names.
PickStamp_Next(r) ==
    /\ At(r, "stamp")
    /\ Becomes(r, [run[r] EXCEPT !.pc = "snapshot", !.stamp = now + 1])
    /\ UNCHANGED <<now, working, top, snapshots, trees, current, lock>>

\* A second no tree and no snapshot is named after; the run sleeps until
\* there is one, and dies (Die) when it has waited too long.
PickStamp(r) ==
    /\ At(r, "stamp")
    /\ ~Taken(now)
    /\ Becomes(r, [run[r] EXCEPT !.pc = "snapshot", !.stamp = now])
    /\ UNCHANGED <<now, working, top, snapshots, trees, current, lock>>

\* btrfs takes the snapshot of one source atomically, of what it holds now.
CreateSnapshot(r, s) ==
    /\ At(r, "snapshot")
    /\ s \in run[r].todo
    /\ snapshots' = [snapshots EXCEPT ![s][run[r].stamp] = working[s]]
    /\ Becomes(r, [run[r] EXCEPT !.todo = @ \ {s},
                                 !.planned = [@ EXCEPT ![s] = run[r].stamp]])
    /\ UNCHANGED <<now, working, top, trees, current, lock>>

SnapshotsCreated(r) ==
    /\ At(r, "snapshot")
    /\ run[r].todo = {}
    /\ Goto(r, "create")
    /\ UNCHANGED <<now, working, top, snapshots, trees, current, lock>>

\* compose_tree: the empty tree. A manifest left behind by an older tree of
\* that name stays.
CreateTree(r) ==
    /\ At(r, "create")
    /\ ~TreeOf(r).dir
    /\ Composes(r, [TreeOf(r) EXCEPT !.dir = TRUE])
    /\ Becomes(r, [run[r] EXCEPT !.pc = "copy", !.todo = Sources])
    /\ UNCHANGED <<now, working, top, snapshots, current, lock>>

CopySnapshot(r, s) ==
    LET t == run[r].planned[s]
    IN  /\ At(r, "copy")
        /\ s \in run[r].todo
        /\ t \in SnapshotsOf(s)
        /\ Composes(r, [TreeOf(r) EXCEPT
                            !.copies = [@ EXCEPT ![s] =
                               [from |-> t, version |-> snapshots[s][t]]]])
        /\ Becomes(r, [run[r] EXCEPT !.todo = @ \ {s}])
        /\ UNCHANGED <<now, working, top, snapshots, current, lock>>

SnapshotsCopied(r) ==
    /\ At(r, "copy")
    /\ run[r].todo = {}
    /\ Goto(r, "top")
    /\ UNCHANGED <<now, working, top, snapshots, trees, current, lock>>

CopyTopFiles(r) ==
    /\ At(r, "top")
    /\ Composes(r, [TreeOf(r) EXCEPT !.top = top])
    /\ Goto(r, "seal")
    /\ UNCHANGED <<now, working, top, snapshots, current, lock>>

Seal(r) ==
    /\ At(r, "seal")
    /\ Composes(r, [TreeOf(r) EXCEPT !.sealed = TRUE])
    /\ Goto(r, "open")
    /\ UNCHANGED <<now, working, top, snapshots, current, lock>>

\* The redirection creates or empties the manifest file ...
OpenManifest(r) ==
    /\ At(r, "open")
    /\ Composes(r, [TreeOf(r) EXCEPT !.listed = TRUE,
                                     !.manifest = NoManifest])
    /\ Goto(r, "write")
    /\ UNCHANGED <<now, working, top, snapshots, current, lock>>

\* ... and the lines follow.
WriteManifest(r) ==
    /\ At(r, "write")
    /\ Composes(r, [TreeOf(r) EXCEPT !.manifest = run[r].planned])
    /\ Goto(r, "flip")
    /\ UNCHANGED <<now, working, top, snapshots, current, lock>>

\* The symlink is replaced by a rename.
FlipDocroot(r) ==
    /\ At(r, "flip")
    /\ current' = run[r].stamp
    /\ Goto(r, "retain")
    /\ UNCHANGED <<now, working, top, snapshots, trees, lock>>

\* run_tree_retention works out what goes ...
StartRetention(r) ==
    /\ At(r, "retain")
    /\ Becomes(r, [run[r] EXCEPT !.pc = "trees",
                                 !.queue = Doomed,
                                 !.kept = TreeDirs \ Doomed])
    /\ UNCHANGED <<now, working, top, snapshots, trees, current, lock>>

\* ... and deletes it. A tree that could not be deleted counts as kept.
PruneTree(r) ==
    /\ At(r, "trees")
    /\ \E t \in run[r].queue :
         /\ \A u \in run[r].queue : t <= u
         /\ \/ /\ TreeDeleted(t)
               /\ Becomes(r, [run[r] EXCEPT !.queue = @ \ {t}])
            \/ /\ TreeDeletionFailed(t)
               /\ Becomes(r, [run[r] EXCEPT !.queue = @ \ {t},
                                            !.kept = @ \cup {t}])
    /\ UNCHANGED <<now, working, top, snapshots, current, lock>>

TreesPruned(r) ==
    /\ At(r, "trees")
    /\ run[r].queue = {}
    /\ Becomes(r, [run[r] EXCEPT !.pc = "snapshots", !.todo = Sources])
    /\ UNCHANGED <<now, working, top, snapshots, trees, current, lock>>

\* run_snapshot_retention_for: each prunable snapshot of a source goes, or
\* stays when btrfs refuses to delete it.
PruneSnapshots(r, s) ==
    /\ At(r, "snapshots")
    /\ s \in run[r].todo
    /\ \E gone \in SUBSET Prunable(s, run[r].kept) :
         snapshots' = [snapshots EXCEPT
                         ![s] = [t \in Stamps |-> IF t \in gone THEN None
                                                  ELSE snapshots[s][t]]]
    /\ Becomes(r, [run[r] EXCEPT !.todo = @ \ {s}])
    /\ UNCHANGED <<now, working, top, trees, current, lock>>

Finish(r) ==
    /\ At(r, "snapshots")
    /\ run[r].todo = {}
    /\ Becomes(r, IdleRun)
    /\ lock' = NoRun
    /\ UNCHANGED <<now, working, top, snapshots, trees, current>>

\* die, or a kill: whatever was done stays, and the lock goes with the
\* process.
Die(r) ==
    /\ ~At(r, "idle")
    /\ Becomes(r, IdleRun)
    /\ lock' = NoRun
    /\ UNCHANGED <<now, working, top, snapshots, trees, current>>

Step(r) ==
    \/ CleanTree(r)
    \/ CleaningDone(r)
    \/ PlanSources(r)
    \/ PickStamp(r)
    \/ \E s \in Sources : CreateSnapshot(r, s)
    \/ SnapshotsCreated(r)
    \/ CreateTree(r)
    \/ \E s \in Sources : CopySnapshot(r, s)
    \/ SnapshotsCopied(r)
    \/ CopyTopFiles(r)
    \/ Seal(r)
    \/ OpenManifest(r)
    \/ WriteManifest(r)
    \/ FlipDocroot(r)
    \/ StartRetention(r)
    \/ PruneTree(r)
    \/ TreesPruned(r)
    \/ \E s \in Sources : PruneSnapshots(r, s)
    \/ Finish(r)

-----------------------------------------------------------------------------
(* What goes on around a run *)

\* Somebody records a release in the working tree of a source.
Edit(s) ==
    /\ working[s] < MaxVersion
    /\ working' = [working EXCEPT ![s] = @ + 1]
    /\ UNCHANGED <<now, top, snapshots, trees, current, lock, run>>

EditTop ==
    /\ top < MaxTop
    /\ top' = top + 1
    /\ UNCHANGED <<now, working, snapshots, trees, current, lock, run>>

\* Time passes; a clock that is not monotone may be set to anything.
Tick ==
    /\ now' \in IF Monotone THEN {now + 1} \cap Stamps ELSE Stamps \ {now}
    /\ UNCHANGED <<working, top, snapshots, trees, current, lock, run>>

Next ==
    \/ \E r \in Runs, wanted \in Selections : Start(r, wanted)
    \/ \E r \in Runs : Step(r)
    \/ \E r \in Runs : Die(r)
    \/ \E s \in Sources : Edit(s)
    \/ EditTop
    \/ Tick

Spec == Init /\ [][Next]_vars

\* A timer starts runs again and again, a run that is under way goes on, and
\* the clock runs.
Fairness ==
    /\ WF_vars(\E r \in Runs, wanted \in Selections : Start(r, wanted))
    /\ \A r \in Runs : WF_vars(Step(r))
    /\ WF_vars(Tick)

FairSpec == Spec /\ Fairness

-----------------------------------------------------------------------------
(* Properties *)

\* A tree that holds everything a client may ask for, and cannot be edited.
Intact(t) ==
    /\ trees[t].dir
    /\ trees[t].sealed
    /\ trees[t].top # None
    /\ \A s \in Sources : trees[t].copies[s].version # None

\* The docroot points at the placeholder or at a whole, sealed tree: no
\* cleaning and no retention run ever takes it or a part of it away,
\* whatever dies in the middle and whatever the clock does.
ServedIntact ==
    current # None => Intact(current)

\* A tree whose manifest names a snapshot can be explained by it: the
\* snapshot is still there, and it is what the tree's copy was made of.
\* Retention deletes the snapshots, and the manifest is what it asks.
ManifestsExplain ==
    \A t \in TreeDirs, s \in Sources :
        LET m == trees[t].manifest[s]
            c == trees[t].copies[s]
        IN  m # None => /\ m \in SnapshotsOf(s)
                        /\ c.version # None =>
                               c = [from |-> m, version |-> snapshots[s][m]]

\* The composition a reader of the docroot sees.
Composition ==
    IF current = None
    THEN [tree |-> None, copies |-> [s \in Sources |-> None], top |-> None]
    ELSE [tree   |-> current,
          copies |-> [s \in Sources |-> trees[current].copies[s].version],
          top    |-> trees[current].top]

Docroot == INSTANCE AtomicDocroot WITH served <- Composition

\* Every step of a run is one the promise allows: most are invisible to a
\* reader, and the flip shows a whole composition no source of which is
\* older than before, though runs die, are limited with --source, and race
\* with edits of the working tree.
DocrootAtomic == Docroot!Spec

UpToDate ==
    /\ \A s \in Sources : Composition.copies[s] = working[s]
    /\ Composition.top = top

\* The bound of the clock is reached and no name is left for another tree.
ClockExhausted == now = MaxTime /\ Taken(now)

\* A run dies before it has finished.
Dies == \E r \in Runs : Die(r) /\ ~Finish(r)

\* Once runs stop dying, the served tree catches up with the working tree
\* and stays so, whatever earlier runs left behind: snapshots without a
\* tree, trees without a manifest, a manifest without its lines, a tree
\* that was composed and not switched to. (Edits are bounded.)
EventuallyServed ==
    <>[][~Dies]_vars => <>[](UpToDate \/ ClockExhausted)

-----------------------------------------------------------------------------
(* What makes ServedIntact inductive *)

\* Only the run that holds the lock is at work.
Exclusive ==
    \A r \in Runs : ~At(r, "idle") => lock = r

\* The trees a run is about to delete do not include the served one.
SparesServed(r) ==
    run[r].pc \in {"clean", "trees"} => current \notin run[r].queue

\* What is finished of the tree a run composes. It is not the served one.
Composing(r) ==
    LET t == run[r].stamp
    IN  /\ run[r].pc \in {"snapshot", "create", "copy", "top", "seal", "open",
                          "write", "flip"}
           => t \in Stamps /\ t # current
        /\ run[r].pc \in {"copy", "top", "seal", "open", "write", "flip"}
           => trees[t].dir
        /\ run[r].pc = "copy"
           => \A s \in Sources \ run[r].todo : trees[t].copies[s].version # None
        /\ run[r].pc \in {"top", "seal", "open", "write", "flip"}
           => \A s \in Sources : trees[t].copies[s].version # None
        /\ run[r].pc \in {"seal", "open", "write", "flip"}
           => trees[t].top # None
        /\ run[r].pc \in {"open", "write", "flip"}
           => trees[t].sealed

ServedInv ==
    /\ TypeOK
    /\ Exclusive
    /\ ServedIntact
    /\ \A r \in Runs : SparesServed(r)
    /\ \A r \in Runs : Composing(r)

-----------------------------------------------------------------------------
(* What makes ManifestsExplain and DocrootAtomic inductive, where the clock  *)
(* is monotone                                                               *)

\* The newest snapshot of s there is.
Latest(s, t) == t # None /\ IsNewest(s, t)

\* Trees and snapshots are named after seconds that have come, so the name
\* reserved next is the newest; and a manifest whose tree is gone is never
\* found by another tree of its name.
NothingAhead ==
    /\ \A t \in TreeDirs : t <= now
    /\ \A s \in Sources : \A t \in SnapshotsOf(s) : t <= now
    /\ \A t \in Stamps :
         /\ ~trees[t].listed => trees[t].manifest = NoManifest
         /\ trees[t].manifest # NoManifest => trees[t].dir \/ t < now

\* What is served is no newer than the newest snapshots, which retention
\* spares, and these are no newer than the working tree.
InOrder ==
    /\ \A s \in Sources : \A t \in SnapshotsOf(s) :
         snapshots[s][t] <= working[s]
    /\ current # None =>
         /\ trees[current].top <= top
         /\ \A s \in Sources : \E t \in Stamps :
              /\ Latest(s, t)
              /\ trees[current].copies[s].version <= snapshots[s][t]

\* The tree t has, of source s, the copy of snapshot m.
Copied(t, s, m) ==
    trees[t].copies[s] = [from |-> m, version |-> snapshots[s][m]]

\* What a run has planned of a source is its newest snapshot, also when the
\* clock or an edit goes on; those it still takes will be.
Planned(r) ==
    LET t == run[r].stamp
        planned == run[r].planned
    IN  /\ run[r].pc \in {"stamp", "snapshot"}
           => \A s \in Sources \ run[r].todo : Latest(s, planned[s])
        /\ run[r].pc = "snapshot"
           => \A s \in run[r].todo : \A u \in SnapshotsOf(s) : u < t
        /\ run[r].pc \in {"create", "copy", "top", "seal", "open", "write",
                          "flip"}
           => \A s \in Sources : Latest(s, planned[s])
        /\ run[r].pc \in {"snapshot", "create", "copy", "top", "seal", "open",
                          "write", "flip"}
           => t <= now

\* The tree a run composes is made of what it has planned, shows nothing older
\* than the served one, and finds no manifest of an older tree.
Composed(r) ==
    LET t == run[r].stamp
        planned == run[r].planned
    IN  /\ run[r].pc \in {"snapshot", "create", "copy", "top", "seal", "open",
                          "write"}
           => trees[t].manifest = NoManifest
        /\ run[r].pc = "write"
           => trees[t].listed
        /\ run[r].pc = "copy"
           => \A s \in Sources \ run[r].todo : Copied(t, s, planned[s])
        /\ run[r].pc \in {"top", "seal", "open", "write", "flip"}
           => \A s \in Sources : Copied(t, s, planned[s])
        /\ run[r].pc \in {"seal", "open", "write", "flip"}
           => /\ trees[t].top <= top
              /\ current # None => trees[current].top <= trees[t].top

\* Cleaning removes trees that no manifest explains, retention those that are
\* older than another; and whatever tree is still there is asked before a
\* snapshot goes.
Retaining(r) ==
    /\ run[r].pc = "clean" => \A t \in run[r].queue : ~trees[t].listed
    /\ run[r].pc = "trees" => /\ TreeDirs \subseteq run[r].queue \cup run[r].kept
                              /\ \A t \in run[r].queue : t < now
    /\ run[r].pc = "snapshots" => TreeDirs \subseteq run[r].kept

HistoryInv ==
    /\ ServedInv
    /\ NothingAhead
    /\ ManifestsExplain
    /\ InOrder
    /\ \A r \in Runs : Planned(r) /\ Composed(r) /\ Retaining(r)

=============================================================================
