---------------------------- MODULE DocrootProofs ----------------------------
(***************************************************************************)
(* Proofs about what Snapshot keeps of the past, for every value of its    *)
(* constants and a clock that only goes forward: manifests explain their   *)
(* trees, and the docroot is as atomic as AtomicDocroot promises.          *)
(***************************************************************************)
EXTENDS SnapshotProofs, FiniteSetTheorems

-----------------------------------------------------------------------------
(* Newest snapshots *)

LEMMA NewestIsOne ==
    ASSUME TypeOK, NEW s \in Sources, NEW t \in Stamps, NEW u \in Stamps,
           Latest(s, t), Latest(s, u)
    PROVE  t = u
BY DEF Latest, IsNewest, Stamps, None

\* Nothing is newer than the newest, so nothing is beyond the newest n there.
LEMMA BeyondMeansOlder ==
    ASSUME NEW names \in SUBSET Stamps, NEW n \in Nat \ {0},
           NEW t \in BeyondNewest(names, n)
    PROVE  t \in names /\ \E u \in names : u > t
<1>1. t \in names /\ Cardinality({u \in names : u > t}) >= n
  BY DEF BeyondNewest
<1>2. {u \in names : u > t} # {}
  BY <1>1, FS_EmptySet
<1> QED BY <1>1, <1>2

LEMMA NewestSpared ==
    ASSUME TypeOK, NEW s \in Sources, NEW t \in Stamps, Latest(s, t),
           NEW kept
    PROVE  t \notin Prunable(s, kept)
<1>1. SnapshotsOf(s) \in SUBSET Stamps
  BY DEF SnapshotsOf
<1>2. \A u \in SnapshotsOf(s) : u <= t
  BY DEF Latest, IsNewest
<1>3. t \notin BeyondNewest(SnapshotsOf(s), KeepCount)
  <2> SUFFICES ASSUME t \in BeyondNewest(SnapshotsOf(s), KeepCount)
               PROVE  FALSE
    OBVIOUS
  <2>1. PICK u \in SnapshotsOf(s) : u > t
    BY <1>1, BeyondMeansOlder, SnapshotAssumption
  <2> QED BY <1>1, <1>2, <2>1 DEF Stamps
<1> QED BY <1>3 DEF Prunable

-----------------------------------------------------------------------------
(* What a step leaves of the registry's history *)

\* A step of the run at work: nothing is to show of the others.
LEMMA HistoryOfOne ==
    ASSUME HistoryInv, ServedInv', NothingAhead', ManifestsExplain', InOrder',
           NEW r \in Runs, ~At(r, "idle") \/ lock = NoRun,
           NEW state \in RunState, Becomes(r, state),
           Planned(r)', Composed(r)', Retaining(r)'
    PROVE  HistoryInv'
<1>1. ASSUME NEW q \in Runs \ {r}
      PROVE  Planned(q)' /\ Composed(q)' /\ Retaining(q)'
  <2>1. run'[q].pc = "idle"
    BY <1>1, OthersIdle DEF HistoryInv
  <2> QED BY <2>1 DEF Planned, Composed, Retaining
<1> QED BY <1>1 DEF HistoryInv

\* In these phases a run has nothing to answer for.
LEMMA NothingPlanned ==
    ASSUME NEW r \in Runs, run'[r].pc \in {"idle", "plan", "retain"}
    PROVE  Planned(r)' /\ Composed(r)' /\ Retaining(r)'
BY DEF Planned, Composed, Retaining

\* Neither trees nor snapshots change; time passes, and edits are made.
LEMMA RegistryUntouched ==
    ASSUME HistoryInv, TypeOK', trees' = trees, snapshots' = snapshots,
           current' = current, now <= now', top <= top',
           \A s \in Sources : working[s] <= working'[s]
    PROVE  NothingAhead' /\ ManifestsExplain' /\ InOrder'
<1> USE DEF HistoryInv
<1>1. TypeOK
  BY DEF ServedInv
<1>2. \A s \in Sources : SnapshotsOf(s)' = SnapshotsOf(s)
  BY DEF SnapshotsOf
<1>3. NothingAhead'
  <2>1. \A t \in Stamps : t <= now => t <= now'
    BY <1>1 DEF TypeOK, Stamps
  <2>2. \A t \in Stamps : t < now => t < now'
    BY <1>1 DEF TypeOK, Stamps
  <2> QED BY <2>1, <2>2 DEF NothingAhead, TreeDirs, SnapshotsOf
<1>4. ManifestsExplain'
  BY DEF ManifestsExplain, TreeDirs, SnapshotsOf
<1>5. InOrder'
  <2>1. ASSUME NEW s \in Sources, NEW t \in SnapshotsOf(s)'
        PROVE  snapshots'[s][t] <= working'[s]
    <3>1. t \in Stamps /\ snapshots[s][t] <= working[s]
      BY <2>1 DEF SnapshotsOf, InOrder
    <3>2. snapshots[s][t] \in Versions \cup {None} /\ working[s] \in Versions
      BY <1>1, <3>1 DEF TypeOK
    <3>3. working'[s] \in Versions /\ working[s] <= working'[s]
      BY DEF TypeOK
    <3> QED BY <3>1, <3>2, <3>3 DEF Versions, None
  <2>2. ASSUME current # None
        PROVE  trees[current].top <= top'
    <3>1. trees[current] \in Tree
      BY <1>1, <2>2, TreeType DEF TypeOK
    <3> QED BY <1>1, <2>2, <3>1 DEF InOrder, Tree, TypeOK, TopVersions, None
  <2> QED BY <2>1, <2>2 DEF InOrder, Latest, IsNewest, SnapshotsOf
<1> QED BY <1>3, <1>4, <1>5

\* One tree changes, and it is not the served one.
LEMMA OneTree ==
    ASSUME HistoryInv, NEW t \in Stamps, t # current, NEW tree \in Tree,
           TreeBecomes(t, tree),
           UNCHANGED <<now, working, top, snapshots, current>>,
           tree.dir => t <= now,
           ~tree.listed => tree.manifest = NoManifest,
           tree.manifest # NoManifest => tree.dir \/ t < now,
           tree.dir =>
             \A s \in Sources :
               tree.manifest[s] # None =>
                 /\ tree.manifest[s] \in SnapshotsOf(s)
                 /\ tree.copies[s].version # None =>
                      tree.copies[s] =
                        [from    |-> tree.manifest[s],
                         version |-> snapshots[s][tree.manifest[s]]]
    PROVE  /\ \A u \in Stamps : trees'[u] = IF u = t THEN tree ELSE trees[u]
           /\ NothingAhead' /\ ManifestsExplain' /\ InOrder'
<1> USE DEF HistoryInv
<1>1. \A u \in Stamps : trees'[u] = IF u = t THEN tree ELSE trees[u]
  BY DEF ServedInv, TypeOK, TreeBecomes
<1>2. NothingAhead'
  BY <1>1 DEF NothingAhead, TreeDirs, SnapshotsOf
<1>3. ManifestsExplain'
  BY <1>1 DEF ManifestsExplain, TreeDirs, SnapshotsOf
<1>4. current # None => trees'[current] = trees[current]
  BY <1>1 DEF ServedInv, TypeOK
<1>5. InOrder'
  BY <1>4 DEF InOrder, Latest, IsNewest, SnapshotsOf
<1> QED BY <1>1, <1>2, <1>3, <1>5

\* So when a tree is deleted, or is not, where its manifest may stay.
LEMMA OneDeletion ==
    ASSUME HistoryInv, NEW t \in Stamps, t # current,
           TreeDeleted(t) \/ TreeDeletionFailed(t),
           UNCHANGED <<now, working, top, snapshots, current>>,
           trees[t].manifest # NoManifest => t < now
    PROVE  /\ \A u \in Stamps \ {t} : trees'[u] = trees[u]
           /\ TreeDirs' \subseteq TreeDirs
           /\ TreeDeleted(t) => t \notin TreeDirs'
           /\ NothingAhead' /\ ManifestsExplain' /\ InOrder'
<1> USE DEF HistoryInv
<1>0. TypeOK /\ trees[t] \in Tree
  BY TreeType DEF ServedInv
<1>1. /\ trees[t].dir => t <= now
      /\ ~trees[t].listed => trees[t].manifest = NoManifest
      /\ trees[t].dir =>
           \A s \in Sources :
             trees[t].manifest[s] # None =>
               /\ trees[t].manifest[s] \in SnapshotsOf(s)
               /\ trees[t].copies[s].version # None =>
                    trees[t].copies[s] =
                      [from    |-> trees[t].manifest[s],
                       version |-> snapshots[s][trees[t].manifest[s]]]
  BY DEF NothingAhead, ManifestsExplain, TreeDirs
<1>2. ASSUME NEW tree \in Tree, TreeBecomes(t, tree),
             tree.dir => trees[t].dir,
             tree.listed = trees[t].listed,
             tree.manifest = trees[t].manifest,
             \A s \in Sources : tree.copies[s].version # None
                                  => tree.copies[s] = trees[t].copies[s]
      PROVE  /\ \A u \in Stamps \ {t} : trees'[u] = trees[u]
             /\ TreeDirs' \subseteq TreeDirs
             /\ trees'[t].dir = tree.dir
             /\ NothingAhead' /\ ManifestsExplain' /\ InOrder'
  <2>1. /\ \A u \in Stamps : trees'[u] = IF u = t THEN tree ELSE trees[u]
        /\ NothingAhead' /\ ManifestsExplain' /\ InOrder'
    BY <1>1, <1>2, OneTree
  <2> QED BY <1>2, <2>1 DEF TreeDirs
<1>3. CASE TreeDeleted(t)
  <2>1. /\ NoTree \in Tree /\ ~NoTree.dir
        /\ NoTree.manifest = NoManifest
    BY InitialTypes DEF NoTree
  <2>2. TreeBecomes(t, NoTree)
    BY <1>3 DEF TreeDeleted
  <2>3. /\ \A u \in Stamps : trees'[u] = IF u = t THEN NoTree ELSE trees[u]
        /\ NothingAhead' /\ ManifestsExplain' /\ InOrder'
    BY <2>1, <2>2, OneTree
  <2> QED BY <2>1, <2>3 DEF TreeDirs
<1>4. ASSUME TreeDeletionFailed(t)
      PROVE  /\ \A u \in Stamps \ {t} : trees'[u] = trees[u]
             /\ TreeDirs' \subseteq TreeDirs
             /\ NothingAhead' /\ ManifestsExplain' /\ InOrder'
  <2>1. CASE UNCHANGED trees
    <3>1. NothingAhead' /\ ManifestsExplain' /\ InOrder'
      BY <2>1
      DEF NothingAhead, ManifestsExplain, InOrder, TreeDirs, SnapshotsOf,
          Latest, IsNewest
    <3> QED BY <2>1, <3>1 DEF TreeDirs
  <2>2. ASSUME NEW gone \in SUBSET Sources,
               TreeBecomes(t, [trees[t] EXCEPT
                             !.sealed = FALSE,
                             !.copies = [s \in Sources |->
                                           IF s \in gone THEN NoCopy ELSE @[s]]])
        PROVE  /\ \A u \in Stamps \ {t} : trees'[u] = trees[u]
               /\ TreeDirs' \subseteq TreeDirs
               /\ NothingAhead' /\ ManifestsExplain' /\ InOrder'
    <3> DEFINE copies == [s \in Sources |->
                            IF s \in gone THEN NoCopy ELSE trees[t].copies[s]]
               tree == [trees[t] EXCEPT !.sealed = FALSE, !.copies = copies]
    <3>1. copies \in [Sources -> Copy]
      BY <1>0 DEF Tree, NoCopy, Copy, None
    <3>2. \A s \in Sources : copies[s].version # None
                               => copies[s] = trees[t].copies[s]
      BY DEF NoCopy
    <3>3. TreeBecomes(t, tree)
      BY <2>2
    <3> HIDE DEF copies
    <3>4. /\ tree \in Tree
          /\ tree.dir = trees[t].dir
          /\ tree.listed = trees[t].listed
          /\ tree.manifest = trees[t].manifest
          /\ tree.copies = copies
      BY <1>0, <3>1 DEF Tree
    <3> HIDE DEF tree
    <3> QED BY <1>2, <3>2, <3>3, <3>4
  <2>3. CASE TreeBecomes(t, [NoTree EXCEPT !.listed   = trees[t].listed,
                                           !.manifest = trees[t].manifest])
    <3> DEFINE tree == [NoTree EXCEPT !.listed   = trees[t].listed,
                                      !.manifest = trees[t].manifest]
    <3>1. /\ tree \in Tree
          /\ ~tree.dir
          /\ tree.listed = trees[t].listed
          /\ tree.manifest = trees[t].manifest
      BY <1>0, InitialTypes DEF Tree, NoTree
    <3>2. \A s \in Sources : tree.copies[s].version = None
      BY DEF NoTree, NoCopy
    <3> HIDE DEF tree
    <3>3. TreeBecomes(t, tree)
      BY <2>3 DEF tree
    <3> QED BY <1>2, <3>1, <3>2, <3>3
  <2> QED BY <1>4, <2>1, <2>2, <2>3 DEF TreeDeletionFailed
<1>5. TreeDeleted(t) => t \notin TreeDirs'
  BY <1>0 DEF TreeDeleted, TreeBecomes, TypeOK, TreeDirs, NoTree
<1> QED BY <1>3, <1>4, <1>5

-----------------------------------------------------------------------------
(* A run that composes a tree *)

LEMMA PlanStays ==
    ASSUME NEW r \in Runs, Planned(r), NEW state, run'[r] = state,
           state.planned = run[r].planned, state.stamp = run[r].stamp,
           snapshots' = snapshots, now' = now,
           run[r].pc \in {"create", "copy", "top", "seal", "open", "write"},
           state.pc \in {"copy", "top", "seal", "open", "write", "flip"}
    PROVE  Planned(r)' /\ Retaining(r)'
BY DEF Planned, Retaining, Latest, IsNewest, SnapshotsOf

\* What a run adds to its tree before the manifest says what is in there.
LEMMA Adding ==
    ASSUME HistoryInv, NEW r \in Runs,
           run[r].pc \in {"create", "copy", "top", "seal", "open"},
           NEW tree \in Tree, Composes(r, tree), tree.manifest = NoManifest,
           UNCHANGED <<now, working, top, snapshots, current>>
    PROVE  /\ run[r].stamp \in Stamps
           /\ trees'[run[r].stamp] = tree
           /\ current # None => trees'[current] = trees[current]
           /\ NothingAhead' /\ ManifestsExplain' /\ InOrder'
<1> DEFINE t == run[r].stamp
<1>1. t \in Stamps /\ t # current
  BY DEF HistoryInv, ServedInv, Composing
<1>2. t <= now
  BY DEF HistoryInv, Planned
<1>3. \A s \in Sources : tree.manifest[s] = None
  BY DEF NoManifest
<1>4. TreeBecomes(t, tree)
  BY DEF Composes
<1> HIDE DEF t
<1>5. /\ \A u \in Stamps : trees'[u] = IF u = t THEN tree ELSE trees[u]
      /\ NothingAhead' /\ ManifestsExplain' /\ InOrder'
  BY <1>1, <1>2, <1>3, <1>4, OneTree
<1>6. current # None => current \in Stamps
  BY DEF HistoryInv, ServedInv, TypeOK
<1> QED BY <1>1, <1>5, <1>6 DEF t

\* The tree a run composes, as a tree.
LEMMA OwnTree ==
    ASSUME HistoryInv, NEW r \in Runs,
           run[r].pc \in {"create", "copy", "top", "seal", "open", "write"}
    PROVE  /\ run[r] \in RunState
           /\ TreeOf(r) \in Tree
           /\ TreeOf(r) = trees[run[r].stamp]
           /\ TreeOf(r).manifest = NoManifest
<1>1. TypeOK /\ run[r].stamp \in Stamps
  BY DEF HistoryInv, ServedInv, Composing
<1>2. TreeOf(r) \in Tree /\ run[r] \in RunState
  BY <1>1, TreeOfType, RunType
<1> QED BY <1>2 DEF HistoryInv, Composed, TreeOf

\* The manifest is written: the run has planned what it has copied.
LEMMA Listing ==
    ASSUME HistoryInv, ServedInv', NEW r \in Runs, WriteManifest(r)
    PROVE  HistoryInv'
<1> DEFINE t == run[r].stamp
           tree == [TreeOf(r) EXCEPT !.manifest = run[r].planned]
           state == [run[r] EXCEPT !.pc = "flip"]
<1>1. run[r].pc = "write" /\ Becomes(r, state) /\ Composes(r, tree)
  BY DEF WriteManifest, At, Goto
<1>2. run[r] \in RunState /\ TreeOf(r) \in Tree /\ TreeOf(r) = trees[t]
  BY <1>1, OwnTree
<1>3. /\ state \in RunState /\ state.pc = "flip"
      /\ state.planned = run[r].planned /\ state.stamp = t
      /\ state.todo = run[r].todo
  BY <1>2 DEF RunState, Phases
<1>4. /\ tree \in Tree /\ tree.dir = trees[t].dir
      /\ tree.listed = trees[t].listed
      /\ tree.manifest = run[r].planned
      /\ tree.copies = trees[t].copies /\ tree.top = trees[t].top
  BY <1>2 DEF RunState, Tree
<1>5. t \in Stamps /\ t # current /\ trees[t].dir
  BY <1>1 DEF HistoryInv, ServedInv, Composing
<1>6. t <= now /\ \A s \in Sources : Latest(s, run[r].planned[s])
  BY <1>1 DEF HistoryInv, Planned
<1>7. \A s \in Sources : Copied(t, s, run[r].planned[s])
  BY <1>1 DEF HistoryInv, Composed
<1>8. /\ trees[t].top <= top
      /\ current # None => trees[current].top <= trees[t].top
  BY <1>1 DEF HistoryInv, Composed
<1>9. trees[t].listed
  BY <1>1 DEF HistoryInv, Composed
<1>10. UNCHANGED <<now, working, top, snapshots, current, lock>>
  BY DEF WriteManifest
<1>11. TreeBecomes(t, tree)
  BY <1>1 DEF Composes
<1>12. \A s \in Sources :
         /\ run[r].planned[s] \in SnapshotsOf(s)
         /\ tree.copies[s] = [from    |-> run[r].planned[s],
                              version |-> snapshots[s][run[r].planned[s]]]
  BY <1>4, <1>6, <1>7 DEF Latest, IsNewest, Copied
<1> HIDE DEF t, tree, state
<1>13. /\ \A u \in Stamps : trees'[u] = IF u = t THEN tree ELSE trees[u]
       /\ NothingAhead' /\ ManifestsExplain' /\ InOrder'
  BY <1>4, <1>5, <1>6, <1>9, <1>10, <1>11, <1>12, OneTree
<1>14. run'[r] = state
  BY <1>1, <1>3, OthersIdle DEF HistoryInv, At
<1>15. Planned(r)' /\ Retaining(r)'
  BY <1>1, <1>3, <1>10, <1>14, PlanStays DEF HistoryInv, t
<1>16. /\ trees'[t] = tree
       /\ current # None => trees'[current] = trees[current]
  BY <1>5, <1>13 DEF HistoryInv, ServedInv, TypeOK
<1>17. Composed(r)'
  <2>1. \A s \in Sources :
          trees'[t].copies[s] = [from    |-> run[r].planned[s],
                                 version |-> snapshots'[s][run[r].planned[s]]]
    BY <1>10, <1>12, <1>16
  <2>2. /\ trees'[t].top <= top'
        /\ current' # None => trees'[current'].top <= trees'[t].top
    BY <1>4, <1>8, <1>10, <1>16
  <2> QED BY <1>3, <1>14, <2>1, <2>2 DEF Composed, Copied
<1> QED
  BY <1>1, <1>3, <1>13, <1>15, <1>17, HistoryOfOne DEF At

-----------------------------------------------------------------------------
(* A run that takes and deletes snapshots *)

\* A snapshot that is taken is the newest of its source by name.
LEMMA Taking ==
    ASSUME HistoryInv, ServedInv', NEW r \in Runs, NEW s \in Sources,
           CreateSnapshot(r, s)
    PROVE  HistoryInv'
<1>0. PICK t, planned : /\ t = run[r].stamp
                        /\ planned = [run[r].planned EXCEPT ![s] = t]
  OBVIOUS
<1> DEFINE state == [run[r] EXCEPT !.todo = @ \ {s}, !.planned = planned]
<1>1. /\ run[r].pc = "snapshot" /\ s \in run[r].todo
      /\ Becomes(r, state)
      /\ snapshots' = [snapshots EXCEPT ![s][t] = working[s]]
      /\ UNCHANGED <<now, working, top, trees, current, lock>>
  BY <1>0 DEF CreateSnapshot, At
<1>2. TypeOK /\ run[r] \in RunState
  BY RunType DEF HistoryInv, ServedInv
<1>3. t \in Stamps
  BY <1>0, <1>1 DEF HistoryInv, ServedInv, Composing
<1>4. t <= now /\ \A u \in SnapshotsOf(s) : u < t
  BY <1>0, <1>1 DEF HistoryInv, Planned
<1>5. planned \in Manifest
  BY <1>0, <1>2, <1>3 DEF RunState, Manifest
<1>6. \A x \in Sources : planned[x] = IF x = s THEN t ELSE run[r].planned[x]
  BY <1>0, <1>2 DEF RunState, Manifest
<1>7. /\ state \in RunState /\ state.pc = "snapshot" /\ state.stamp = t
      /\ state.planned = planned /\ state.todo = run[r].todo \ {s}
  BY <1>0, <1>1, <1>2, <1>5 DEF RunState
<1> HIDE DEF state
<1>8. run'[r] = state
  BY <1>1, <1>7, OthersIdle DEF HistoryInv, At
<1>9. \A x \in Sources : \A u \in Stamps :
        snapshots'[x][u] = IF x = s /\ u = t THEN working[s]
                                             ELSE snapshots[x][u]
  BY <1>1, <1>2, <1>3 DEF TypeOK
<1>10. working[s] \in Versions /\ working[s] # None
  BY <1>2 DEF TypeOK, Versions, None
<1>11. /\ SnapshotsOf(s)' = SnapshotsOf(s) \cup {t}
       /\ \A x \in Sources \ {s} : SnapshotsOf(x)' = SnapshotsOf(x)
  BY <1>3, <1>9, <1>10 DEF SnapshotsOf
<1>12. t \notin SnapshotsOf(s)
  BY <1>3, <1>4 DEF Stamps
<1>13. NothingAhead'
  BY <1>1, <1>4, <1>11 DEF HistoryInv, NothingAhead, TreeDirs
<1>14. ManifestsExplain'
  <2>1. ASSUME NEW u \in TreeDirs, NEW x \in Sources,
               trees[u].manifest[x] # None
        PROVE  /\ trees[u].manifest[x] \in SnapshotsOf(x)'
               /\ snapshots'[x][trees[u].manifest[x]]
                    = snapshots[x][trees[u].manifest[x]]
    <3>1. trees[u].manifest[x] \in SnapshotsOf(x)
      BY <2>1 DEF HistoryInv, ManifestsExplain
    <3>2. trees[u].manifest[x] \in Stamps
      BY <3>1 DEF SnapshotsOf
    <3>3. x = s => trees[u].manifest[x] # t
      BY <3>1, <1>12
    <3> QED BY <1>9, <1>11, <3>1, <3>2, <3>3
  <2>2. TreeDirs' = TreeDirs
    BY <1>1 DEF TreeDirs
  <2> QED BY <1>1, <2>1, <2>2 DEF HistoryInv, ManifestsExplain
<1>15. \A x \in Sources \ {s} : \A u \in Stamps : Latest(x, u) => Latest(x, u)'
  BY <1>9 DEF Latest, IsNewest, SnapshotsOf
<1>16. Latest(s, t)'
  <2>1. t # None
    BY <1>3 DEF Stamps, None
  <2>2. t <= t
    BY <1>3 DEF Stamps
  <2>3. \A u \in SnapshotsOf(s)' : u <= t
    BY <1>3, <1>4, <1>11, <2>2 DEF SnapshotsOf, Stamps
  <2> QED BY <1>11, <2>1, <2>3 DEF Latest, IsNewest
<1>17. InOrder'
  <2>1. ASSUME NEW x \in Sources, NEW u \in SnapshotsOf(x)'
        PROVE  snapshots'[x][u] <= working'[x]
    <3>1. u \in Stamps
      BY <2>1 DEF SnapshotsOf
    <3>2. CASE x = s /\ u = t
      BY <1>1, <1>3, <1>9, <1>10, <3>2 DEF Versions
    <3>3. CASE ~(x = s /\ u = t)
      BY <1>1, <1>9, <1>11, <2>1, <3>1, <3>3 DEF HistoryInv, InOrder
    <3> QED BY <3>2, <3>3
  <2>2. ASSUME current # None, NEW x \in Sources
        PROVE  \E u \in Stamps :
                 /\ Latest(x, u)'
                 /\ trees[current].copies[x].version <= snapshots'[x][u]
    <3>1. PICK u \in Stamps :
            /\ Latest(x, u)
            /\ trees[current].copies[x].version <= snapshots[x][u]
      BY <2>2 DEF HistoryInv, InOrder
    <3>2. CASE x # s
      BY <1>9, <1>15, <3>1, <3>2
    <3>3. CASE x = s
      <4>1. u \in SnapshotsOf(s) /\ snapshots[s][u] <= working[s]
        BY <3>1, <3>3 DEF Latest, IsNewest, HistoryInv, InOrder
      <4>2. snapshots[s][u] \in Nat /\ working[s] \in Nat
        BY <1>2 DEF TypeOK, Versions, None
      <4>3. trees[current].copies[s].version \in Nat
        <5>1. trees[current] \in Tree
          BY <1>2, <2>2, TreeType DEF TypeOK
        <5> QED BY <5>1 DEF Tree, Copy, Versions, None
      <4>4. trees[current].copies[s].version <= working[s]
        BY <3>1, <3>3, <4>1, <4>2, <4>3
      <4> QED BY <1>3, <1>9, <1>16, <3>3, <4>4
    <3> QED BY <3>2, <3>3
  <2>3. current' # None => trees'[current'].top <= top'
    BY <1>1 DEF HistoryInv, InOrder
  <2> QED BY <1>1, <2>1, <2>2, <2>3 DEF InOrder
<1>18. Planned(r)'
  <2>1. ASSUME NEW x \in Sources \ (run[r].todo \ {s})
        PROVE  Latest(x, planned[x])'
    <3>1. CASE x = s
      BY <1>6, <1>16, <3>1
    <3>2. CASE x # s
      <4>1. Latest(x, run[r].planned[x])
        BY <1>1, <2>1, <3>2 DEF HistoryInv, Planned
      <4>2. run[r].planned[x] \in Stamps
        BY <4>1 DEF Latest, IsNewest, SnapshotsOf
      <4>3. planned[x] = run[r].planned[x]
        BY <1>6, <3>2
      <4>4. PICK p \in Stamps : Latest(x, p) /\ planned[x] = p
        BY <4>1, <4>2, <4>3
      <4>5. \A u \in SnapshotsOf(x)' : u <= p
        BY <1>11, <3>2, <4>4 DEF Latest, IsNewest
      <4>6. p \in SnapshotsOf(x)'
        BY <1>11, <3>2, <4>4 DEF Latest, IsNewest
      <4> QED BY <4>4, <4>5, <4>6 DEF Latest, IsNewest
    <3> QED BY <3>1, <3>2
  <2>2. ASSUME NEW x \in run[r].todo \ {s}
        PROVE  \A u \in SnapshotsOf(x)' : u < t
    BY <1>0, <1>1, <1>2, <1>11, <2>2 DEF HistoryInv, Planned, RunState
  <2> QED BY <1>1, <1>4, <1>7, <1>8, <2>1, <2>2 DEF Planned
<1>19. Composed(r)' /\ Retaining(r)'
  BY <1>0, <1>1, <1>7, <1>8 DEF HistoryInv, Composed, Retaining
<1> QED
  BY <1>1, <1>7, <1>13, <1>14, <1>17, <1>18, <1>19, HistoryOfOne DEF At

\* A snapshot that is deleted is neither the newest nor named by a tree.
LEMMA Pruning ==
    ASSUME HistoryInv, ServedInv', NEW r \in Runs, NEW s \in Sources,
           PruneSnapshots(r, s)
    PROVE  HistoryInv'
<1> DEFINE state == [run[r] EXCEPT !.todo = @ \ {s}]
<1>1. /\ run[r].pc = "snapshots" /\ Becomes(r, state)
      /\ UNCHANGED <<now, working, top, trees, current, lock>>
  BY DEF PruneSnapshots, At
<1>2. PICK gone \in SUBSET Prunable(s, run[r].kept) :
        snapshots' = [snapshots EXCEPT
                        ![s] = [t \in Stamps |-> IF t \in gone THEN None
                                                 ELSE snapshots[s][t]]]
  BY DEF PruneSnapshots
<1>3. TypeOK /\ run[r] \in RunState
  BY RunType DEF HistoryInv, ServedInv
<1>4. state \in RunState /\ state.pc = "snapshots" /\ state.kept = run[r].kept
  BY <1>1, <1>3 DEF RunState
<1> HIDE DEF state
<1>5. run'[r] = state
  BY <1>1, <1>4, OthersIdle DEF HistoryInv, At
<1>6. \A x \in Sources : \A u \in Stamps :
        snapshots'[x][u] = IF x = s /\ u \in gone THEN None
                                                  ELSE snapshots[x][u]
  BY <1>2, <1>3 DEF TypeOK
<1>7. \A x \in Sources : SnapshotsOf(x)' \subseteq SnapshotsOf(x)
  BY <1>6 DEF SnapshotsOf
<1>8. \A x \in Sources : \A u \in SnapshotsOf(x)' :
        snapshots'[x][u] = snapshots[x][u]
  BY <1>6 DEF SnapshotsOf
<1>9. NothingAhead'
  BY <1>1, <1>7 DEF HistoryInv, NothingAhead, TreeDirs
<1>10. ManifestsExplain'
  <2>1. ASSUME NEW u \in TreeDirs, NEW x \in Sources,
               trees[u].manifest[x] # None
        PROVE  /\ trees[u].manifest[x] \in SnapshotsOf(x)'
               /\ snapshots'[x][trees[u].manifest[x]]
                    = snapshots[x][trees[u].manifest[x]]
    <3> DEFINE m == trees[u].manifest[x]
    <3>1. m \in SnapshotsOf(x)
      BY <2>1 DEF HistoryInv, ManifestsExplain
    <3>2. m \in Stamps
      BY <3>1 DEF SnapshotsOf
    <3>3. u \in Stamps /\ u \in run[r].kept
      BY <1>1 DEF HistoryInv, Retaining, TreeDirs
    <3>4. trees[u].listed
      <4>1. trees[u].manifest # NoManifest
        BY <2>1 DEF NoManifest
      <4> QED BY <3>3, <4>1 DEF HistoryInv, NothingAhead
    <3>5. x = s => m \notin gone
      BY <1>2, <3>3, <3>4 DEF Prunable, Protected
    <3> HIDE DEF m
    <3>6. m \in SnapshotsOf(x)'
      BY <1>6, <3>1, <3>2, <3>5 DEF SnapshotsOf
    <3> QED BY <1>8, <3>6 DEF m
  <2>2. TreeDirs' = TreeDirs
    BY <1>1 DEF TreeDirs
  <2> QED BY <1>1, <2>1, <2>2 DEF HistoryInv, ManifestsExplain
<1>11. InOrder'
  <2>1. \A x \in Sources : \A u \in SnapshotsOf(x)' :
          snapshots'[x][u] <= working'[x]
    BY <1>1, <1>7, <1>8 DEF HistoryInv, InOrder
  <2>2. ASSUME current # None, NEW x \in Sources
        PROVE  \E u \in Stamps :
                 /\ Latest(x, u)'
                 /\ trees[current].copies[x].version <= snapshots'[x][u]
    <3>1. PICK u \in Stamps :
            /\ Latest(x, u)
            /\ trees[current].copies[x].version <= snapshots[x][u]
      BY <2>2 DEF HistoryInv, InOrder
    <3>2. x = s => u \notin gone
      BY <1>2, <1>3, <3>1, NewestSpared
    <3>3. u \in SnapshotsOf(x)' /\ snapshots'[x][u] = snapshots[x][u]
      BY <1>6, <3>1, <3>2 DEF Latest, IsNewest, SnapshotsOf
    <3>4. Latest(x, u)'
      BY <1>7, <3>1, <3>3 DEF Latest, IsNewest
    <3> QED BY <3>1, <3>3, <3>4
  <2>3. current' # None => trees'[current'].top <= top'
    BY <1>1 DEF HistoryInv, InOrder
  <2> QED BY <1>1, <2>1, <2>2, <2>3 DEF InOrder
<1>12. Planned(r)' /\ Composed(r)' /\ Retaining(r)'
  BY <1>1, <1>4, <1>5 DEF HistoryInv, Planned, Composed, Retaining, TreeDirs
<1> QED
  BY <1>1, <1>4, <1>9, <1>10, <1>11, <1>12, HistoryOfOne DEF At

-----------------------------------------------------------------------------
(* No step breaks it *)

\* A step that moves a run to a phase in which it answers for nothing.
LEMMA Leading ==
    ASSUME HistoryInv, ServedInv', NEW r \in Runs, ~At(r, "idle"),
           NEW state \in RunState, Becomes(r, state),
           state.pc \in {"idle", "plan", "retain"},
           UNCHANGED <<now, working, top, snapshots, trees, current>>
    PROVE  HistoryInv'
<1>1. NothingAhead' /\ ManifestsExplain' /\ InOrder'
  <2>1. TypeOK /\ TypeOK'
    BY DEF HistoryInv, ServedInv
  <2>2. now <= now' /\ top <= top' /\ \A s \in Sources : working[s] <= working'[s]
    BY <2>1 DEF TypeOK, Stamps, Versions, TopVersions
  <2> QED BY <2>1, <2>2, RegistryUntouched
<1>2. run'[r] = state
  BY OthersIdle DEF HistoryInv
<1>3. Planned(r)' /\ Composed(r)' /\ Retaining(r)'
  BY <1>2, NothingPlanned
<1> QED BY <1>1, <1>3, HistoryOfOne

\* A step of a run that touches neither trees nor snapshots.
LEMMA RunOnly ==
    ASSUME HistoryInv, ServedInv', NEW r \in Runs,
           ~At(r, "idle") \/ lock = NoRun,
           NEW state \in RunState, Becomes(r, state),
           UNCHANGED <<now, working, top, snapshots, trees, current>>,
           Planned(r)', Composed(r)', Retaining(r)'
    PROVE  HistoryInv'
<1>1. TypeOK /\ TypeOK'
  BY DEF HistoryInv, ServedInv
<1>2. now <= now' /\ top <= top' /\ \A s \in Sources : working[s] <= working'[s]
  BY <1>1 DEF TypeOK, Stamps, Versions, TopVersions
<1>3. NothingAhead' /\ ManifestsExplain' /\ InOrder'
  BY <1>1, <1>2, RegistryUntouched
<1> QED BY <1>3, HistoryOfOne

\* Planning takes the newest snapshot of every source that it does not take
\* a new one of.
LEMMA Planning ==
    ASSUME HistoryInv, ServedInv', NEW r \in Runs, PlanSources(r)
    PROVE  HistoryInv'
<1>0. TypeOK /\ run[r] \in RunState /\ run[r].pc = "plan"
  BY RunType DEF HistoryInv, ServedInv, PlanSources, At
<1>1. PICK newest \in Manifest :
     LET wanted == run[r].todo
         changed == {s \in wanted : \/ newest[s] = None
                                    \/ working[s] # snapshots[s][newest[s]]}
         planned == [s \in Sources |-> IF s \in changed THEN None
                                                        ELSE newest[s]]
     IN  /\ \A s \in Sources : IsNewest(s, newest[s])
         /\ \A s \in Sources \ wanted : newest[s] # None
         /\ Becomes(r, [run[r] EXCEPT
                           !.pc = IF AnythingToPublish(changed, planned)
                                  THEN "stamp" ELSE "retain",
                           !.todo = changed,
                           !.planned = planned])
  BY DEF PlanSources
<1>2. UNCHANGED <<now, working, top, snapshots, trees, current>>
  BY DEF PlanSources
<1> DEFINE changed == {s \in run[r].todo :
                          \/ newest[s] = None
                          \/ working[s] # snapshots[s][newest[s]]}
           planned == [s \in Sources |-> IF s \in changed THEN None
                                                          ELSE newest[s]]
           next == IF AnythingToPublish(changed, planned)
                   THEN "stamp" ELSE "retain"
           state == [run[r] EXCEPT !.pc = next, !.todo = changed,
                                   !.planned = planned]
<1>3. changed \in SUBSET Sources /\ planned \in Manifest
  BY <1>0 DEF RunState, Manifest, None
<1>4. next \in {"stamp", "retain"}
  OBVIOUS
<1>5. Becomes(r, state)
  BY <1>1
<1>6. \A s \in Sources \ changed : newest[s] # None /\ planned[s] = newest[s]
  BY <1>1
<1> HIDE DEF changed, planned, next
<1>7. /\ state \in RunState /\ state.pc = next
      /\ state.todo = changed /\ state.planned = planned
  BY <1>0, <1>3, <1>4 DEF RunState, Phases
<1> HIDE DEF state
<1>8. run'[r] = state
  BY <1>0, <1>5, <1>7, OthersIdle DEF HistoryInv, At
<1>9. CASE next = "retain"
  BY <1>0, <1>2, <1>5, <1>7, <1>9, Leading DEF At
<1>10. CASE next = "stamp"
  <2>1. \A s \in Sources \ changed : Latest(s, planned[s])
    BY <1>1, <1>6 DEF Latest
  <2>2. PICK todo, plan : todo = changed /\ plan = planned
    OBVIOUS
  <2>3. \A s \in Sources \ todo : Latest(s, plan[s])'
    BY <1>2, <2>1, <2>2 DEF Latest, IsNewest, SnapshotsOf
  <2>4. Planned(r)'
    BY <1>7, <1>8, <1>10, <2>2, <2>3 DEF Planned
  <2>5. Composed(r)' /\ Retaining(r)'
    BY <1>7, <1>8, <1>10 DEF Composed, Retaining
  <2> QED BY <1>0, <1>2, <1>5, <1>7, <2>4, <2>5, RunOnly DEF At
<1> QED BY <1>4, <1>9, <1>10

\* A name that is reserved is the last one given.
LEMMA Reserving ==
    ASSUME HistoryInv, ServedInv', NEW r \in Runs, PickStamp(r)
    PROVE  HistoryInv'
<1> DEFINE state == [run[r] EXCEPT !.pc = "snapshot", !.stamp = now]
<1>0. TypeOK /\ run[r] \in RunState
  BY RunType DEF HistoryInv, ServedInv
<1>1. /\ run[r].pc = "stamp" /\ Becomes(r, state) /\ ~Taken(now)
      /\ UNCHANGED <<now, working, top, snapshots, trees, current>>
  BY DEF PickStamp, At
<1>2. /\ state \in RunState /\ state.pc = "snapshot" /\ state.stamp = now
      /\ state.todo = run[r].todo /\ state.planned = run[r].planned
  BY <1>0 DEF RunState, Phases, TypeOK
<1> HIDE DEF state
<1>3. run'[r] = state
  BY <1>1, <1>2, OthersIdle DEF HistoryInv, At
<1>4. \A s \in Sources : \A u \in SnapshotsOf(s) : u < now
  <2>1. ASSUME NEW s \in Sources, NEW u \in SnapshotsOf(s) PROVE u < now
    <3>1. u \in Stamps /\ u <= now /\ snapshots[s][u] # None
      BY DEF HistoryInv, NothingAhead, SnapshotsOf
    <3>2. u # now
      BY <1>1, <3>1 DEF Taken
    <3> QED BY <1>0, <3>1, <3>2 DEF TypeOK, Stamps
  <2> QED BY <2>1
<1>5. trees[now].manifest = NoManifest
  BY <1>0, <1>1 DEF TypeOK, Taken, HistoryInv, NothingAhead, Stamps
<1>6. now <= now
  BY <1>0 DEF TypeOK, Stamps
<1>7. Planned(r)'
  <2>1. \A s \in Sources \ run[r].todo : Latest(s, run[r].planned[s])
    BY <1>1 DEF HistoryInv, Planned
  <2>2. run[r].todo \subseteq Sources
    BY <1>0 DEF RunState
  <2> QED
    BY <1>1, <1>2, <1>3, <1>4, <1>6, <2>1, <2>2
    DEF Planned, Latest, IsNewest, SnapshotsOf
<1>8. Composed(r)' /\ Retaining(r)'
  BY <1>1, <1>2, <1>3, <1>5 DEF Composed, Retaining
<1> QED BY <1>1, <1>2, <1>7, <1>8, RunOnly DEF At

\* A tree that goes is not the newest, or has no manifest.
LEMMA Deleting ==
    ASSUME HistoryInv, ServedInv', NEW r \in Runs, CleanTree(r) \/ PruneTree(r)
    PROVE  HistoryInv'
<1>0. TypeOK /\ run[r] \in RunState
  BY RunType DEF HistoryInv, ServedInv
<1>1. CASE CleanTree(r)
  <2>1. PICK t \in run[r].queue :
          /\ TreeDeleted(t) \/ TreeDeletionFailed(t)
          /\ Becomes(r, [run[r] EXCEPT !.queue = @ \ {t}])
    BY <1>1 DEF CleanTree
  <2> DEFINE state == [run[r] EXCEPT !.queue = @ \ {t}]
  <2>2. /\ run[r].pc = "clean"
        /\ UNCHANGED <<now, working, top, snapshots, current, lock>>
    BY <1>1 DEF CleanTree, At
  <2>3. t \in Stamps /\ t # current
    BY <1>0, <2>1, <2>2 DEF RunState, HistoryInv, ServedInv, SparesServed
  <2>4. trees[t].manifest = NoManifest
    BY <2>1, <2>2, <2>3 DEF HistoryInv, Retaining, NothingAhead
  <2>5. /\ \A u \in Stamps \ {t} : trees'[u] = trees[u]
        /\ NothingAhead' /\ ManifestsExplain' /\ InOrder'
    BY <2>1, <2>2, <2>3, <2>4, OneDeletion
  <2>6. Becomes(r, state)
    BY <2>1
  <2>7. /\ state \in RunState /\ state.pc = "clean"
        /\ state.queue = run[r].queue \ {t}
    BY <1>0, <2>2 DEF RunState
  <2> HIDE DEF state
  <2>8. run'[r] = state
    BY <2>2, <2>6, <2>7, OthersIdle DEF HistoryInv, At
  <2>9. Retaining(r)'
    <3>1. run[r].queue \subseteq Stamps
      BY <1>0 DEF RunState
    <3> QED BY <2>2, <2>5, <2>7, <2>8, <3>1 DEF HistoryInv, Retaining
  <2>10. Planned(r)' /\ Composed(r)'
    BY <2>7, <2>8 DEF Planned, Composed
  <2> QED BY <2>2, <2>5, <2>6, <2>7, <2>9, <2>10, HistoryOfOne DEF At
<1>2. CASE PruneTree(r)
  <2>1. PICK t \in run[r].queue :
          \/ /\ TreeDeleted(t)
             /\ Becomes(r, [run[r] EXCEPT !.queue = @ \ {t}])
          \/ /\ TreeDeletionFailed(t)
             /\ Becomes(r, [run[r] EXCEPT !.queue = @ \ {t},
                                          !.kept = @ \cup {t}])
    BY <1>2 DEF PruneTree
  <2>2. /\ run[r].pc = "trees"
        /\ UNCHANGED <<now, working, top, snapshots, current, lock>>
    BY <1>2 DEF PruneTree, At
  <2>3. t \in Stamps /\ t # current
    BY <1>0, <2>1, <2>2 DEF RunState, HistoryInv, ServedInv, SparesServed
  <2>4. /\ TreeDirs \subseteq run[r].queue \cup run[r].kept
        /\ \A u \in run[r].queue : u < now
    BY <2>2 DEF HistoryInv, Retaining
  <2>5. /\ TreeDirs' \subseteq TreeDirs
        /\ TreeDeleted(t) => t \notin TreeDirs'
        /\ NothingAhead' /\ ManifestsExplain' /\ InOrder'
    BY <2>1, <2>2, <2>3, <2>4, OneDeletion
  <2>6. \E state \in RunState :
          /\ Becomes(r, state)
          /\ state.pc = "trees"
          /\ state.queue = run[r].queue \ {t}
          /\ TreeDirs' \subseteq state.queue \cup state.kept
    <3>1. CASE /\ TreeDeleted(t)
               /\ Becomes(r, [run[r] EXCEPT !.queue = @ \ {t}])
      <4> DEFINE state == [run[r] EXCEPT !.queue = @ \ {t}]
      <4>1. /\ state \in RunState /\ state.pc = "trees"
            /\ state.queue = run[r].queue \ {t} /\ state.kept = run[r].kept
        BY <1>0, <2>2 DEF RunState
      <4>2. Becomes(r, state)
        BY <3>1
      <4> HIDE DEF state
      <4> QED BY <2>4, <2>5, <3>1, <4>1, <4>2
    <3>2. CASE /\ TreeDeletionFailed(t)
               /\ Becomes(r, [run[r] EXCEPT !.queue = @ \ {t},
                                            !.kept = @ \cup {t}])
      <4> DEFINE state == [run[r] EXCEPT !.queue = @ \ {t}, !.kept = @ \cup {t}]
      <4>1. /\ state \in RunState /\ state.pc = "trees"
            /\ state.queue = run[r].queue \ {t}
            /\ state.kept = run[r].kept \cup {t}
        BY <1>0, <2>2, <2>3 DEF RunState
      <4>2. Becomes(r, state)
        BY <3>2
      <4> HIDE DEF state
      <4> QED BY <2>4, <2>5, <4>1, <4>2
    <3> QED BY <2>1, <3>1, <3>2
  <2>7. PICK state \in RunState :
          /\ Becomes(r, state)
          /\ state.pc = "trees"
          /\ state.queue = run[r].queue \ {t}
          /\ TreeDirs' \subseteq state.queue \cup state.kept
    BY <2>6
  <2>8. run'[r] = state
    BY <2>2, <2>7, OthersIdle DEF HistoryInv, At
  <2>9. Planned(r)' /\ Composed(r)' /\ Retaining(r)'
    BY <2>2, <2>4, <2>7, <2>8 DEF Planned, Composed, Retaining
  <2> QED BY <2>2, <2>5, <2>7, <2>9, HistoryOfOne DEF At
<1> QED BY <1>1, <1>2

\* The flip shows what was planned.
LEMMA Flipping ==
    ASSUME HistoryInv, ServedInv', NEW r \in Runs, FlipDocroot(r)
    PROVE  HistoryInv'
<1>0. TypeOK /\ run[r] \in RunState
  BY RunType DEF HistoryInv, ServedInv
<1>1. PICK t : t = run[r].stamp
  OBVIOUS
<1> DEFINE state == [run[r] EXCEPT !.pc = "retain"]
<1>2. /\ run[r].pc = "flip" /\ Becomes(r, state) /\ current' = t
      /\ UNCHANGED <<now, working, top, snapshots, trees>>
  BY <1>1 DEF FlipDocroot, At, Goto
<1>3. state \in RunState /\ state.pc = "retain"
  BY <1>0 DEF RunState, Phases
<1> HIDE DEF state
<1>4. run'[r] = state
  BY <1>2, <1>3, OthersIdle DEF HistoryInv, At
<1>5. Planned(r)' /\ Composed(r)' /\ Retaining(r)'
  BY <1>3, <1>4, NothingPlanned
<1>6. NothingAhead' /\ ManifestsExplain'
  BY <1>2
  DEF HistoryInv, NothingAhead, ManifestsExplain, TreeDirs, SnapshotsOf
<1>7. InOrder'
  <2>1. trees[t].top <= top
    BY <1>1, <1>2 DEF HistoryInv, Composed
  <2>2. ASSUME NEW s \in Sources
        PROVE  \E u \in Stamps :
                 /\ Latest(s, u)'
                 /\ trees[t].copies[s].version <= snapshots[s][u]
    <3>1. /\ Latest(s, run[r].planned[s])
          /\ Copied(t, s, run[r].planned[s])
      BY <1>1, <1>2 DEF HistoryInv, Planned, Composed
    <3>2. PICK u \in Stamps : u = run[r].planned[s]
      BY <3>1 DEF Latest, IsNewest, SnapshotsOf
    <3>3. Latest(s, u)'
      BY <1>2, <3>1, <3>2 DEF Latest, IsNewest, SnapshotsOf
    <3>4. trees[t].copies[s].version = snapshots[s][u]
      BY <3>1, <3>2 DEF Copied
    <3>5. snapshots[s][u] <= snapshots[s][u]
      BY <1>0, <3>2 DEF TypeOK, Versions, None
    <3> QED BY <3>3, <3>4, <3>5
  <2>3. \A s \in Sources : \A u \in SnapshotsOf(s) : snapshots[s][u] <= working[s]
    BY DEF HistoryInv, InOrder
  <2> QED BY <1>2, <2>1, <2>2, <2>3 DEF InOrder, SnapshotsOf
<1> QED BY <1>2, <1>3, <1>5, <1>6, <1>7, HistoryOfOne DEF At

\* The tree a run composes grows, before the manifest is written.
LEMMA Growing ==
    ASSUME HistoryInv, ServedInv', NEW r \in Runs,
           \/ CreateTree(r)
           \/ \E s \in Sources : CopySnapshot(r, s)
           \/ CopyTopFiles(r)
           \/ Seal(r)
           \/ OpenManifest(r)
    PROVE  HistoryInv'
<1>0. TypeOK /\ run[r] \in RunState
  BY RunType DEF HistoryInv, ServedInv
<1>1. PICK t, plan : t = run[r].stamp /\ plan = run[r].planned
  OBVIOUS
<1>2. UNCHANGED <<now, working, top, snapshots, current>>
  BY DEF CreateTree, CopySnapshot, CopyTopFiles, Seal, OpenManifest
<1>3. run[r].pc \in {"create", "copy", "top", "seal", "open"}
  BY DEF CreateTree, CopySnapshot, CopyTopFiles, Seal, OpenManifest, At
<1>4. /\ t \in Stamps /\ trees[t] \in Tree /\ TreeOf(r) = trees[t]
      /\ trees[t].manifest = NoManifest
  BY <1>1, <1>3, OwnTree DEF HistoryInv, ServedInv, Composing
\* What is left to show of each.
<1>5. ASSUME NEW tree \in Tree, Composes(r, tree), tree.manifest = NoManifest,
             NEW state \in RunState, Becomes(r, state),
             state.planned = plan, state.stamp = t,
             state.pc \in {"copy", "top", "seal", "open", "write"},
             state.pc = "write" => tree.listed,
             state.pc = "copy" =>
               \A s \in Sources \ state.todo :
                 tree.copies[s] = [from |-> plan[s], version |-> snapshots[s][plan[s]]],
             state.pc # "copy" =>
               \A s \in Sources :
                 tree.copies[s] = [from |-> plan[s], version |-> snapshots[s][plan[s]]],
             state.pc \in {"seal", "open", "write"} =>
               /\ tree.top <= top
               /\ current # None => trees[current].top <= tree.top
      PROVE  HistoryInv'
  <2>1. /\ trees'[t] = tree
        /\ current # None => trees'[current] = trees[current]
        /\ NothingAhead' /\ ManifestsExplain' /\ InOrder'
    BY <1>1, <1>2, <1>3, <1>5, Adding
  <2>2. run'[r] = state
    BY <1>3, <1>5, OthersIdle DEF HistoryInv, At
  <2>3. Planned(r)
    BY DEF HistoryInv
  <2>4. Planned(r)' /\ Retaining(r)'
    BY <1>1, <1>2, <1>3, <1>5, <2>2, <2>3, PlanStays
  <2>5. trees'[t].manifest = NoManifest
    BY <1>5, <2>1
  <2>6. Composed(r)'
    BY <1>2, <1>5, <2>1, <2>2, <2>5 DEF Composed, Copied, NoManifest
  <2> QED BY <1>3, <1>5, <2>1, <2>4, <2>6, HistoryOfOne DEF At
<1>6. ASSUME CreateTree(r) PROVE HistoryInv'
  <2> DEFINE tree == [TreeOf(r) EXCEPT !.dir = TRUE]
             state == [run[r] EXCEPT !.pc = "copy", !.todo = Sources]
  <2>1. Composes(r, tree) /\ Becomes(r, state)
    BY <1>6 DEF CreateTree
  <2>2. tree \in Tree /\ tree.manifest = NoManifest
    BY <1>4 DEF Tree
  <2>3. /\ state \in RunState /\ state.pc = "copy" /\ state.todo = Sources
        /\ state.planned = plan /\ state.stamp = t
    BY <1>0, <1>1 DEF RunState, Phases
  <2> HIDE DEF tree, state
  <2> QED BY <1>5, <2>1, <2>2, <2>3
<1>7. ASSUME NEW s \in Sources, CopySnapshot(r, s) PROVE HistoryInv'
  <2> DEFINE copy == [from |-> plan[s], version |-> snapshots[s][plan[s]]]
             tree == [TreeOf(r) EXCEPT !.copies = [@ EXCEPT ![s] = copy]]
             state == [run[r] EXCEPT !.todo = @ \ {s}]
  <2>1. /\ Composes(r, tree) /\ Becomes(r, state)
        /\ run[r].pc = "copy" /\ plan[s] \in SnapshotsOf(s)
    BY <1>1, <1>7 DEF CopySnapshot, At
  <2>2. copy \in Copy
    BY <1>0, <2>1 DEF SnapshotsOf, Copy, TypeOK
  <2>3. \A x \in Sources \ run[r].todo :
          trees[t].copies[x] = [from |-> plan[x], version |-> snapshots[x][plan[x]]]
    BY <1>1, <2>1 DEF HistoryInv, Composed, Copied
  <2>4. PICK it : it = copy
    OBVIOUS
  <2> HIDE DEF copy
  <2>5. /\ tree \in Tree /\ tree.manifest = NoManifest
        /\ \A x \in Sources :
             tree.copies[x] = IF x = s THEN copy ELSE trees[t].copies[x]
    BY <1>4, <2>2 DEF Tree
  <2>6. /\ state \in RunState /\ state.pc = "copy"
        /\ state.todo = run[r].todo \ {s}
        /\ state.planned = plan /\ state.stamp = t
    BY <1>0, <1>1, <2>1 DEF RunState
  <2> HIDE DEF tree, state
  <2>7. \A x \in Sources \ state.todo :
          tree.copies[x] = [from |-> plan[x], version |-> snapshots[x][plan[x]]]
    BY <2>3, <2>5, <2>6 DEF copy
  <2> QED BY <1>5, <2>1, <2>5, <2>6, <2>7
<1>8. ASSUME CopyTopFiles(r) PROVE HistoryInv'
  <2> DEFINE tree == [TreeOf(r) EXCEPT !.top = top]
             state == [run[r] EXCEPT !.pc = "seal"]
  <2>1. Composes(r, tree) /\ Becomes(r, state) /\ run[r].pc = "top"
    BY <1>8 DEF CopyTopFiles, At, Goto
  <2>2. /\ tree \in Tree /\ tree.manifest = NoManifest
        /\ tree.copies = trees[t].copies /\ tree.top = top
    BY <1>0, <1>4 DEF Tree, TypeOK
  <2>3. /\ state \in RunState /\ state.pc = "seal"
        /\ state.planned = plan /\ state.stamp = t
    BY <1>0, <1>1 DEF RunState, Phases
  <2>4. \A s \in Sources :
          trees[t].copies[s] = [from |-> plan[s], version |-> snapshots[s][plan[s]]]
    BY <1>1, <2>1 DEF HistoryInv, Composed, Copied
  <2>5. top <= top /\ (current # None => trees[current].top <= top)
    BY <1>0 DEF TypeOK, TopVersions, HistoryInv, InOrder
  <2> HIDE DEF tree, state
  <2> QED BY <1>5, <2>1, <2>2, <2>3, <2>4, <2>5
<1>9. ASSUME Seal(r) \/ OpenManifest(r) PROVE HistoryInv'
  <2>1. /\ run[r].pc \in {"seal", "open"}
        /\ \A s \in Sources :
             trees[t].copies[s] = [from |-> plan[s], version |-> snapshots[s][plan[s]]]
        /\ trees[t].top <= top
        /\ current # None => trees[current].top <= trees[t].top
    BY <1>1, <1>9 DEF Seal, OpenManifest, At, HistoryInv, Composed, Copied
  <2>2. CASE Seal(r)
    <3> DEFINE tree == [TreeOf(r) EXCEPT !.sealed = TRUE]
               state == [run[r] EXCEPT !.pc = "open"]
    <3>1. Composes(r, tree) /\ Becomes(r, state)
      BY <2>2 DEF Seal, Goto
    <3>2. /\ tree \in Tree /\ tree.manifest = NoManifest
          /\ tree.copies = trees[t].copies /\ tree.top = trees[t].top
      BY <1>4 DEF Tree
    <3>3. /\ state \in RunState /\ state.pc = "open"
          /\ state.planned = plan /\ state.stamp = t
      BY <1>0, <1>1 DEF RunState, Phases
    <3> HIDE DEF tree, state
    <3> QED BY <1>5, <2>1, <3>1, <3>2, <3>3
  <2>3. CASE OpenManifest(r)
    <3> DEFINE tree == [TreeOf(r) EXCEPT !.listed = TRUE, !.manifest = NoManifest]
               state == [run[r] EXCEPT !.pc = "write"]
    <3>1. Composes(r, tree) /\ Becomes(r, state)
      BY <2>3 DEF OpenManifest, Goto
    <3>2. /\ tree \in Tree /\ tree.manifest = NoManifest /\ tree.listed
          /\ tree.copies = trees[t].copies /\ tree.top = trees[t].top
      BY <1>4 DEF Tree
    <3>3. /\ state \in RunState /\ state.pc = "write"
          /\ state.planned = plan /\ state.stamp = t
      BY <1>0, <1>1 DEF RunState, Phases
    <3> HIDE DEF tree, state
    <3> QED BY <1>5, <2>1, <3>1, <3>2, <3>3
  <2> QED BY <1>9, <2>2, <2>3
<1> QED BY <1>6, <1>7, <1>8, <1>9

LEMMA HistoryStep ==
    ASSUME Monotone, HistoryInv, ServedInv', [Next]_vars
    PROVE  HistoryInv'
<1>0. TypeOK /\ TypeOK' /\ \A r \in Runs : run[r] \in RunState
  BY RunType DEF HistoryInv, ServedInv
<1>1. ASSUME NEW r \in Runs, NEW wanted \in Selections, Start(r, wanted)
      PROVE  HistoryInv'
  <2> DEFINE leftover == {t \in TreeDirs \ Served : ~trees[t].listed}
             state == [run[r] EXCEPT !.pc = "clean", !.todo = wanted,
                                     !.queue = leftover]
  <2>1. /\ Becomes(r, state) /\ lock = NoRun
        /\ UNCHANGED <<now, working, top, snapshots, trees, current>>
    BY <1>1 DEF Start, TakeLock
  <2>2. leftover \in SUBSET Stamps /\ \A t \in leftover : ~trees[t].listed
    BY DEF TreeDirs
  <2>3. state \in RunState /\ state.pc = "clean" /\ state.queue = leftover
    <3>1. leftover \in SUBSET Stamps /\ wanted \in SUBSET Sources
      BY <2>2, SnapshotAssumption
    <3> HIDE DEF leftover
    <3> QED BY <1>0, <3>1 DEF RunState, Phases
  <2> HIDE DEF leftover
  <2> HIDE DEF state
  <2>4. run'[r] = state
    BY <2>1, <2>3, OthersIdle DEF HistoryInv
  <2>5. Planned(r)' /\ Composed(r)' /\ Retaining(r)'
    BY <2>1, <2>2, <2>3, <2>4 DEF Planned, Composed, Retaining
  <2> QED BY <2>1, <2>3, <2>5, RunOnly
<1>2. ASSUME NEW r \in Runs, CleanTree(r) \/ PruneTree(r) PROVE HistoryInv'
  BY <1>2, Deleting
<1>3. ASSUME NEW r \in Runs, CleaningDone(r) PROVE HistoryInv'
  <2> DEFINE state == [run[r] EXCEPT !.pc = "plan"]
  <2>1. /\ Becomes(r, state) /\ ~At(r, "idle")
        /\ UNCHANGED <<now, working, top, snapshots, trees, current>>
    BY <1>3 DEF CleaningDone, Goto, At
  <2>2. state \in RunState /\ state.pc = "plan"
    BY <1>0 DEF RunState, Phases
  <2> HIDE DEF state
  <2> QED BY <2>1, <2>2, Leading
<1>4. ASSUME NEW r \in Runs, PlanSources(r) PROVE HistoryInv'
  BY <1>4, Planning
<1>5. ASSUME NEW r \in Runs, PickStamp(r) PROVE HistoryInv'
  BY <1>5, Reserving
<1>6. ASSUME NEW r \in Runs, NEW s \in Sources, CreateSnapshot(r, s)
      PROVE  HistoryInv'
  BY <1>6, Taking
<1>7. ASSUME NEW r \in Runs, SnapshotsCreated(r) PROVE HistoryInv'
  <2> DEFINE state == [run[r] EXCEPT !.pc = "create"]
  <2>1. /\ Becomes(r, state) /\ run[r].pc = "snapshot" /\ run[r].todo = {}
        /\ UNCHANGED <<now, working, top, snapshots, trees, current>>
    BY <1>7 DEF SnapshotsCreated, Goto, At
  <2>2. /\ state \in RunState /\ state.pc = "create"
        /\ state.planned = run[r].planned /\ state.stamp = run[r].stamp
    BY <1>0 DEF RunState, Phases
  <2> HIDE DEF state
  <2>3. run'[r] = state
    BY <2>1, <2>2, OthersIdle DEF HistoryInv, At
  <2>4. \A s \in Sources : Latest(s, run[r].planned[s])
    BY <2>1 DEF HistoryInv, Planned
  <2>5. run[r].stamp <= now /\ trees[run[r].stamp].manifest = NoManifest
    BY <2>1 DEF HistoryInv, Planned, Composed
  <2>6. Planned(r)'
    BY <2>1, <2>2, <2>3, <2>4, <2>5 DEF Planned, Latest, IsNewest, SnapshotsOf
  <2>7. Composed(r)' /\ Retaining(r)'
    BY <2>1, <2>2, <2>3, <2>5 DEF Composed, Retaining
  <2> QED BY <2>1, <2>2, <2>6, <2>7, RunOnly DEF At
<1>8. ASSUME NEW r \in Runs,
             \/ CreateTree(r)
             \/ \E s \in Sources : CopySnapshot(r, s)
             \/ CopyTopFiles(r)
             \/ Seal(r)
             \/ OpenManifest(r)
      PROVE  HistoryInv'
  BY <1>8, Growing
<1>9. ASSUME NEW r \in Runs, SnapshotsCopied(r) PROVE HistoryInv'
  <2> DEFINE state == [run[r] EXCEPT !.pc = "top"]
  <2>1. /\ Becomes(r, state) /\ run[r].pc = "copy" /\ run[r].todo = {}
        /\ UNCHANGED <<now, working, top, snapshots, trees, current>>
    BY <1>9 DEF SnapshotsCopied, Goto, At
  <2>2. /\ state \in RunState /\ state.pc = "top"
        /\ state.planned = run[r].planned /\ state.stamp = run[r].stamp
    BY <1>0 DEF RunState, Phases
  <2> HIDE DEF state
  <2>3. run'[r] = state
    BY <2>1, <2>2, OthersIdle DEF HistoryInv, At
  <2>4. Planned(r)' /\ Retaining(r)'
    BY <2>1, <2>2, <2>3, PlanStays DEF HistoryInv
  <2>5. Composed(r)'
    BY <2>1, <2>2, <2>3 DEF HistoryInv, Composed, Copied
  <2> QED BY <2>1, <2>2, <2>4, <2>5, RunOnly DEF At
<1>10. ASSUME NEW r \in Runs, WriteManifest(r) PROVE HistoryInv'
  BY <1>10, Listing
<1>11. ASSUME NEW r \in Runs, FlipDocroot(r) PROVE HistoryInv'
  BY <1>11, Flipping
<1>12. ASSUME NEW r \in Runs, StartRetention(r) PROVE HistoryInv'
  <2>1. PICK doomed, kept : doomed = Doomed /\ kept = TreeDirs \ doomed
    OBVIOUS
  <2> DEFINE state == [run[r] EXCEPT !.pc = "trees", !.queue = doomed,
                                     !.kept = kept]
  <2>2. /\ Becomes(r, state) /\ run[r].pc = "retain"
        /\ UNCHANGED <<now, working, top, snapshots, trees, current>>
    BY <1>12, <2>1 DEF StartRetention, At
  <2>3. TreeDirs \in SUBSET Stamps
    BY DEF TreeDirs
  <2>4. \A t \in doomed : t \in Stamps /\ t < now
    <3>1. ASSUME NEW t \in doomed PROVE t \in Stamps /\ t < now
      <4>1. t \in BeyondNewest(TreeDirs, KeepTrees)
        BY <2>1 DEF Doomed
      <4>2. PICK u \in TreeDirs : t \in TreeDirs /\ u > t
        BY <2>3, <4>1, BeyondMeansOlder, SnapshotAssumption
      <4>3. u <= now
        BY DEF HistoryInv, NothingAhead
      <4> QED BY <1>0, <2>3, <4>2, <4>3 DEF Stamps, TypeOK
    <3> QED BY <3>1
  <2>5. doomed \in SUBSET Stamps /\ kept \in SUBSET Stamps
    BY <2>1, <2>3, <2>4
  <2>6. /\ state \in RunState /\ state.pc = "trees"
        /\ state.queue = doomed /\ state.kept = kept
    BY <1>0, <2>5 DEF RunState, Phases
  <2> HIDE DEF state
  <2>7. run'[r] = state
    BY <2>2, <2>6, OthersIdle DEF HistoryInv, At
  <2>8. TreeDirs' = TreeDirs
    BY <2>2 DEF TreeDirs
  <2>9. Planned(r)' /\ Composed(r)' /\ Retaining(r)'
    BY <2>1, <2>2, <2>4, <2>6, <2>7, <2>8 DEF Planned, Composed, Retaining
  <2> QED BY <2>2, <2>6, <2>9, RunOnly DEF At
<1>13. ASSUME NEW r \in Runs, TreesPruned(r) PROVE HistoryInv'
  <2> DEFINE state == [run[r] EXCEPT !.pc = "snapshots", !.todo = Sources]
  <2>1. /\ Becomes(r, state) /\ run[r].pc = "trees" /\ run[r].queue = {}
        /\ UNCHANGED <<now, working, top, snapshots, trees, current>>
    BY <1>13 DEF TreesPruned, At
  <2>2. state \in RunState /\ state.pc = "snapshots" /\ state.kept = run[r].kept
    BY <1>0 DEF RunState, Phases
  <2> HIDE DEF state
  <2>3. run'[r] = state
    BY <2>1, <2>2, OthersIdle DEF HistoryInv, At
  <2>4. TreeDirs' \subseteq run[r].kept
    BY <2>1 DEF HistoryInv, Retaining, TreeDirs
  <2>5. Planned(r)' /\ Composed(r)' /\ Retaining(r)'
    BY <2>2, <2>3, <2>4 DEF Planned, Composed, Retaining
  <2> QED BY <2>1, <2>2, <2>5, RunOnly DEF At
<1>14. ASSUME NEW r \in Runs, NEW s \in Sources, PruneSnapshots(r, s)
       PROVE  HistoryInv'
  BY <1>14, Pruning
<1>15. ASSUME NEW r \in Runs, Finish(r) \/ Die(r) PROVE HistoryInv'
  <2>1. /\ Becomes(r, IdleRun) /\ ~At(r, "idle")
        /\ UNCHANGED <<now, working, top, snapshots, trees, current>>
    BY <1>15 DEF Finish, Die, At
  <2>2. IdleRun \in RunState /\ IdleRun.pc = "idle"
    BY InitialTypes DEF IdleRun
  <2> QED BY <2>1, <2>2, Leading
<1>16. CASE (\E s \in Sources : Edit(s)) \/ EditTop \/ Tick \/ UNCHANGED vars
  <2>1. UNCHANGED <<snapshots, trees, current, run>>
    BY <1>16 DEF Edit, EditTop, Tick, vars
  <2>2. now <= now'
    BY <1>0, <1>16 DEF Edit, EditTop, Tick, vars, TypeOK, Stamps
  <2>3. top <= top'
    BY <1>0, <1>16 DEF Edit, EditTop, Tick, vars, TypeOK, TopVersions
  <2>4. \A s \in Sources : working[s] <= working'[s]
    BY <1>0, <1>16 DEF Edit, EditTop, Tick, vars, TypeOK, Versions
  <2>5. NothingAhead' /\ ManifestsExplain' /\ InOrder'
    BY <1>0, <2>1, <2>2, <2>3, <2>4, RegistryUntouched
  <2>6. ASSUME NEW r \in Runs
        PROVE  Planned(r)' /\ Composed(r)' /\ Retaining(r)'
    <3>1. \A t \in Stamps : (t <= now => t <= now') /\ (t < now => t < now')
      BY <1>0, <2>2 DEF TypeOK, Stamps
    <3>2. run[r].pc \in {"snapshot", "create", "copy", "top", "seal", "open",
                         "write", "flip"} => run[r].stamp \in Stamps
      BY DEF HistoryInv, ServedInv, Composing
    <3>3. Planned(r)'
      BY <2>1, <3>1, <3>2
      DEF HistoryInv, Planned, Latest, IsNewest, SnapshotsOf
    <3>4. run[r].pc \in {"seal", "open", "write", "flip"}
             => trees[run[r].stamp].top <= top'
      <4>1. run[r].stamp \in Stamps => trees[run[r].stamp] \in Tree
        BY <1>0 DEF TypeOK
      <4> QED
        BY <1>0, <2>3, <3>2, <4>1
        DEF HistoryInv, Composed, Tree, TypeOK, TopVersions, None
    <3>5. Composed(r)'
      BY <2>1, <3>4 DEF HistoryInv, Composed, Copied
    <3>6. run[r].queue \subseteq Stamps
      BY <1>0 DEF RunState
    <3>7. Retaining(r)'
      BY <2>1, <3>1, <3>6 DEF HistoryInv, Retaining, TreeDirs
    <3> QED BY <3>3, <3>5, <3>7
  <2> QED BY <2>5, <2>6 DEF HistoryInv
<1> QED
  BY <1>1, <1>2, <1>3, <1>4, <1>5, <1>6, <1>7, <1>8, <1>9, <1>10, <1>11,
     <1>12, <1>13, <1>14, <1>15, <1>16
  DEF Next, Step

-----------------------------------------------------------------------------
(* Manifests explain their trees *)

\* Whatever the numbers of sources and runs, the bounds of retention and what
\* dies, the registry's history is in order as long as the clock is.
THEOREM HistoryInvariant ==
    ASSUME Monotone
    PROVE  Spec => []HistoryInv
<1>1. ASSUME Init, ServedInv PROVE HistoryInv
  <2>1. /\ \A t \in Stamps : trees[t] = NoTree
        /\ \A s \in Sources, t \in Stamps : snapshots[s][t] = None
    BY <1>1 DEF Init
  <2>2. ~NoTree.dir /\ NoTree.manifest = NoManifest
    BY DEF NoTree
  <2>3. TreeDirs = {} /\ \A s \in Sources : SnapshotsOf(s) = {}
    BY <2>1, <2>2 DEF TreeDirs, SnapshotsOf
  <2>4. NothingAhead /\ ManifestsExplain
    BY <2>1, <2>2, <2>3 DEF NothingAhead, ManifestsExplain
  <2>5. InOrder
    BY <1>1, <2>3 DEF Init, InOrder
  <2>6. ASSUME NEW r \in Runs PROVE Planned(r) /\ Composed(r) /\ Retaining(r)
    <3>1. run[r].pc = "idle"
      BY <1>1 DEF Init, IdleRun
    <3> QED BY <3>1 DEF Planned, Composed, Retaining
  <2> QED BY <1>1, <2>4, <2>5, <2>6 DEF HistoryInv
<1>2. ServedInv' /\ HistoryInv /\ [Next]_vars => HistoryInv'
  BY HistoryStep
<1> QED BY <1>1, <1>2, ServedInvariant, PTL DEF Spec

\* The snapshot a manifest names is there and is what the tree was made of.
THEOREM ManifestsAlwaysExplain ==
    ASSUME Monotone
    PROVE  Spec => []ManifestsExplain
<1>1. HistoryInv => ManifestsExplain
  BY DEF HistoryInv
<1> QED BY <1>1, HistoryInvariant, PTL

-----------------------------------------------------------------------------
(* The docroot is atomic *)

\* A reader sees nothing of a step that is not the flip: whatever is added to
\* or deleted from the trees, it is not the served one.
LEMMA InvisibleStep ==
    ASSUME HistoryInv, [Next]_vars, current' = current
    PROVE  Composition' = Composition
<1>1. CASE current = None
  BY <1>1 DEF Composition
<1>2. ASSUME current # None, trees'[current] = trees[current]
      PROVE  Composition' = Composition
  BY <1>2 DEF Composition
<1>3. TypeOK
  BY DEF HistoryInv, ServedInv
<1>4. ASSUME current # None, NEW t \in Stamps, t # current, NEW state,
             TreeBecomes(t, state)
      PROVE  Composition' = Composition
  <2>1. trees'[current] = trees[current]
    BY <1>3, <1>4 DEF TypeOK, TreeBecomes
  <2> QED BY <1>2, <1>4, <2>1
<1>5. ASSUME current # None, NEW r \in Runs, CleanTree(r) \/ PruneTree(r)
      PROVE  Composition' = Composition
  <2>1. PICK t \in run[r].queue : TreeDeleted(t) \/ TreeDeletionFailed(t)
    BY <1>5 DEF CleanTree, PruneTree
  <2>2. run[r].pc \in {"clean", "trees"}
    BY <1>5 DEF CleanTree, PruneTree, At
  <2>3. t \in Stamps /\ t # current
    BY <1>3, <2>1, <2>2, RunType DEF RunState, HistoryInv, ServedInv, SparesServed
  <2>4. trees' = trees \/ \E state : TreeBecomes(t, state)
    BY <2>1 DEF TreeDeleted, TreeDeletionFailed
  <2> QED BY <1>2, <1>4, <1>5, <2>3, <2>4
<1>6. ASSUME current # None, NEW r \in Runs, NEW state, Composes(r, state),
             run[r].pc \in {"create", "copy", "top", "seal", "open", "write"}
      PROVE  Composition' = Composition
  <2>1. run[r].stamp \in Stamps /\ run[r].stamp # current
    BY <1>6 DEF HistoryInv, ServedInv, Composing
  <2> QED BY <1>4, <1>6, <2>1 DEF Composes
<1>7. ASSUME current # None, NEW r \in Runs,
             \/ CreateTree(r)
             \/ \E s \in Sources : CopySnapshot(r, s)
             \/ CopyTopFiles(r)
             \/ Seal(r)
             \/ OpenManifest(r)
             \/ WriteManifest(r)
      PROVE  Composition' = Composition
  BY <1>6, <1>7 DEF CreateTree, CopySnapshot, CopyTopFiles, Seal, OpenManifest,
                    WriteManifest, At
<1>8. \/ trees' = trees
      \/ \E r \in Runs : CleanTree(r) \/ PruneTree(r)
      \/ \E r \in Runs : \/ CreateTree(r)
                         \/ \E s \in Sources : CopySnapshot(r, s)
                         \/ CopyTopFiles(r)
                         \/ Seal(r)
                         \/ OpenManifest(r)
                         \/ WriteManifest(r)
  BY DEF Next, Step, vars, Start, CleaningDone, PlanSources, PickStamp,
         CreateSnapshot, SnapshotsCreated, SnapshotsCopied, FlipDocroot,
         StartRetention, TreesPruned, PruneSnapshots, Finish, Die, Edit,
         EditTop, Tick
<1> QED BY <1>1, <1>2, <1>5, <1>7, <1>8

\* The flip shows a composition no part of which is older than before or newer
\* than the working tree.
LEMMA FlipPublishes ==
    ASSUME HistoryInv, HistoryInv', NEW r \in Runs, FlipDocroot(r)
    PROVE  Docroot!Publish
<1> DEFINE t == run[r].stamp
<1>0. TypeOK
  BY DEF HistoryInv, ServedInv
<1>1. /\ run[r].pc = "flip" /\ current' = t
      /\ UNCHANGED <<now, working, top, snapshots, trees>>
  BY DEF FlipDocroot, At
<1>2. t \in Stamps /\ t # current /\ t # None
  BY <1>1 DEF HistoryInv, ServedInv, Composing, Stamps, None
<1>3. trees[t] \in Tree
  BY <1>0, <1>2, TreeType
<1>4. /\ trees[t].top # None
      /\ \A s \in Sources : trees[t].copies[s].version # None
  BY <1>1 DEF HistoryInv, ServedInv, Composing
<1>5. /\ trees[t].top \in 1 .. MaxTop
      /\ \A s \in Sources : trees[t].copies[s].version \in 1 .. MaxVersion
  BY <1>3, <1>4 DEF Tree, Copy, TopVersions, Versions
<1>6. \A s \in Sources :
        /\ Latest(s, run[r].planned[s])
        /\ run[r].planned[s] \in SnapshotsOf(s)
        /\ trees[t].copies[s].version = snapshots[s][run[r].planned[s]]
  <2>1. \A s \in Sources : /\ Latest(s, run[r].planned[s])
                           /\ Copied(t, s, run[r].planned[s])
    BY <1>1 DEF HistoryInv, Planned, Composed
  <2>2. \A s \in Sources : run[r].planned[s] \in SnapshotsOf(s)
    BY <2>1 DEF Latest, IsNewest
  <2>3. ASSUME NEW s \in Sources
        PROVE  trees[t].copies[s].version = snapshots[s][run[r].planned[s]]
    <3>1. Copied(t, s, run[r].planned[s])
      BY <2>1
    <3> HIDE DEF t
    <3> QED BY <3>1 DEF Copied
  <2> QED BY <2>1, <2>2, <2>3
<1>7. \A s \in Sources : trees[t].copies[s].version <= working[s]
  BY <1>6 DEF HistoryInv, InOrder
<1>8. trees[t].top <= top
  BY <1>1 DEF HistoryInv, Composed
<1> HIDE DEF t
<1>9. Composition' = [tree   |-> t,
                      copies |-> [s \in Sources |-> trees[t].copies[s].version],
                      top    |-> trees[t].top]
  BY <1>1, <1>2 DEF Composition
<1>10. /\ Composition.tree = current
       /\ \A s \in Sources : Composition.copies[s] <= trees[t].copies[s].version
       /\ Composition.top <= trees[t].top
  <2>1. CASE current = None
    BY <1>5, <2>1 DEF Composition, None
  <2>2. CASE current # None
    <3>1. trees[current].top <= trees[t].top
      BY <1>1, <2>2 DEF HistoryInv, Composed, t
    <3>2. ASSUME NEW s \in Sources
          PROVE  trees[current].copies[s].version <= trees[t].copies[s].version
      <4>1. PICK u \in Stamps :
              /\ Latest(s, u)
              /\ trees[current].copies[s].version <= snapshots[s][u]
        BY <2>2 DEF HistoryInv, InOrder
      <4>2. run[r].planned[s] \in Stamps
        BY <1>6 DEF SnapshotsOf
      <4>3. u = run[r].planned[s]
        BY <1>0, <1>6, <4>1, <4>2, NewestIsOne
      <4> QED BY <1>6, <4>1, <4>3
    <3> QED BY <2>2, <3>1, <3>2 DEF Composition
  <2> QED BY <2>1, <2>2
<1>11. Composition' \in [tree   : (1 .. MaxTime) \ {Composition.tree},
                         copies : [Sources -> 1 .. MaxVersion],
                         top    : 1 .. MaxTop]
  BY <1>2, <1>5, <1>9, <1>10 DEF Stamps
<1>12. /\ \A s \in Sources : /\ Composition.copies[s] <= Composition'.copies[s]
                             /\ Composition'.copies[s] <= working[s]
       /\ Composition.top <= Composition'.top
       /\ Composition'.top <= top
  BY <1>7, <1>8, <1>9, <1>10
<1> QED BY <1>1, <1>11, <1>12 DEF Docroot!Publish

\* Whatever packagetool-snapshot does is, for a reader who goes through the
\* symlink, what AtomicDocroot allows, as long as the clock goes forward: one
\* whole composition after the other, and no source of one goes back. Only
\* the switch is seen; cleaning, retention and deaths are not.
THEOREM DocrootIsAtomic ==
    ASSUME Monotone
    PROVE  Spec => DocrootAtomic
<1>1. Init => Docroot!Init
  BY DEF Init, Docroot!Init, Docroot!Placeholder, Composition, None
<1>2. HistoryInv /\ HistoryInv' /\ [Next]_vars => [Docroot!Next]_(Docroot!vars)
  <2> SUFFICES ASSUME HistoryInv, HistoryInv', [Next]_vars
               PROVE  [Docroot!Next]_(Docroot!vars)
    OBVIOUS
  <2>1. ASSUME NEW r \in Runs, FlipDocroot(r)
        PROVE  [Docroot!Next]_(Docroot!vars)
    BY <2>1, FlipPublishes DEF Docroot!Next
  <2>2. ASSUME NEW s \in Sources, Edit(s)
        PROVE  [Docroot!Next]_(Docroot!vars)
    <3>1. Composition' = Composition
      BY <2>2, InvisibleStep DEF Edit
    <3>2. Docroot!Edit(s)
      BY <2>2, <3>1 DEF Edit, Docroot!Edit
    <3> QED BY <3>2 DEF Docroot!Next
  <2>3. CASE EditTop
    <3>1. Composition' = Composition
      BY <2>3, InvisibleStep DEF EditTop
    <3>2. Docroot!EditTop
      BY <2>3, <3>1 DEF EditTop, Docroot!EditTop
    <3> QED BY <3>2 DEF Docroot!Next
  <2>4. CASE UNCHANGED <<working, top, current>>
    <3>1. Composition' = Composition
      BY <2>4, InvisibleStep
    <3> QED BY <2>4, <3>1 DEF Docroot!vars
  <2>5. \/ \E r \in Runs : FlipDocroot(r)
        \/ \E s \in Sources : Edit(s)
        \/ EditTop
        \/ UNCHANGED <<working, top, current>>
    BY DEF Next, Step, vars, Start, CleanTree, CleaningDone, PlanSources,
           PickStamp, CreateSnapshot, SnapshotsCreated, CreateTree,
           CopySnapshot, SnapshotsCopied, CopyTopFiles, Seal, OpenManifest,
           WriteManifest, StartRetention, PruneTree, TreesPruned,
           PruneSnapshots, Finish, Die, Tick
  <2> QED BY <2>1, <2>2, <2>3, <2>4, <2>5
<1> QED BY <1>1, <1>2, HistoryInvariant, PTL
        DEF Spec, DocrootAtomic, Docroot!Spec

=============================================================================
