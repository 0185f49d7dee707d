--------------------------- MODULE SnapshotProofs ---------------------------
(* Proofs about Snapshot, for every value of its constants. *)
EXTENDS Snapshot, TLAPS

-----------------------------------------------------------------------------
(* Types of the parts a step assigns *)

LEMMA InitialTypes ==
    NoTree \in Tree /\ IdleRun \in RunState
BY DEF NoTree, Tree, NoCopy, Copy, NoManifest, Manifest, None, IdleRun,
       RunState, Phases

LEMMA RunType ==
    ASSUME TypeOK, NEW r \in Runs
    PROVE  /\ run[r] \in RunState
           /\ \A state \in RunState :
                 Becomes(r, state) => run' \in [Runs -> RunState]
BY DEF TypeOK, Becomes

LEMMA GotoType ==
    ASSUME TypeOK, NEW r \in Runs, NEW phase \in Phases, Goto(r, phase)
    PROVE  run' \in [Runs -> RunState]
<1>1. [run[r] EXCEPT !.pc = phase] \in RunState
  BY RunType DEF RunState
<1> QED BY <1>1, RunType DEF Goto

LEMMA TreeType ==
    ASSUME TypeOK, NEW t \in Stamps
    PROVE  /\ trees[t] \in Tree
           /\ \A state \in Tree :
                 TreeBecomes(t, state) => trees' \in [Stamps -> Tree]
BY DEF TypeOK, TreeBecomes

\* A stamp that was not picked is no tree, and nothing is assigned there.
LEMMA ComposesType ==
    ASSUME TypeOK, NEW r \in Runs, NEW state,
           Composes(r, state), run[r].stamp \in Stamps => state \in Tree
    PROVE  trees' \in [Stamps -> Tree]
BY DEF TypeOK, Composes, TreeBecomes

LEMMA TreeOfType ==
    ASSUME TypeOK, NEW r \in Runs, run[r].stamp \in Stamps
    PROVE  TreeOf(r) \in Tree
BY DEF TypeOK, TreeOf

\* The state of a tree after delete_tree is the state of a tree.
LEMMA DeletionType ==
    ASSUME TypeOK, NEW t \in Stamps, TreeDeleted(t) \/ TreeDeletionFailed(t)
    PROVE  trees' \in [Stamps -> Tree]
<1>1. CASE TreeDeleted(t)
  BY <1>1, InitialTypes, TreeType DEF TreeDeleted
<1>2. CASE UNCHANGED trees
  BY <1>2 DEF TypeOK
<1>3. ASSUME NEW gone \in SUBSET Sources,
             TreeBecomes(t, [trees[t] EXCEPT
                           !.sealed = FALSE,
                           !.copies = [s \in Sources |->
                                         IF s \in gone THEN NoCopy ELSE @[s]]])
      PROVE  trees' \in [Stamps -> Tree]
  <2> DEFINE copies == [s \in Sources |->
                          IF s \in gone THEN NoCopy ELSE trees[t].copies[s]]
  <2>1. copies \in [Sources -> Copy]
    BY TreeType DEF Tree, NoCopy, Copy, None
  <2>2. TreeBecomes(t, [trees[t] EXCEPT !.sealed = FALSE, !.copies = copies])
    BY <1>3
  <2> HIDE DEF copies
  <2>3. [trees[t] EXCEPT !.sealed = FALSE, !.copies = copies] \in Tree
    BY <2>1, TreeType DEF Tree
  <2> QED BY <2>2, <2>3, TreeType
<1>4. CASE TreeBecomes(t, [NoTree EXCEPT !.listed   = trees[t].listed,
                                         !.manifest = trees[t].manifest])
  <2>1. [NoTree EXCEPT !.listed = trees[t].listed,
                       !.manifest = trees[t].manifest] \in Tree
    BY TreeType, InitialTypes DEF Tree
  <2> QED BY <1>4, <2>1, TreeType
<1> QED BY <1>1, <1>2, <1>3, <1>4 DEF TreeDeletionFailed

\* What planning comes to, whatever it found.
LEMMA PlanEffect ==
    ASSUME TypeOK, NEW r \in Runs, PlanSources(r)
    PROVE  \E next \in {"stamp", "retain"}, todo \in SUBSET Sources,
              planned \in Manifest :
             Becomes(r, [run[r] EXCEPT !.pc = next, !.todo = todo,
                                       !.planned = planned])
<1>1. PICK newest \in Manifest :
     LET wanted == run[r].todo
         changed == {s \in wanted : \/ newest[s] = None
                                    \/ working[s] # snapshots[s][newest[s]]}
         planned == [s \in Sources |-> IF s \in changed THEN None
                                                        ELSE newest[s]]
     IN  Becomes(r, [run[r] EXCEPT
                       !.pc = IF AnythingToPublish(changed, planned)
                              THEN "stamp" ELSE "retain",
                       !.todo = changed,
                       !.planned = planned])
  BY DEF PlanSources
<1> DEFINE changed == {s \in run[r].todo :
                          \/ newest[s] = None
                          \/ working[s] # snapshots[s][newest[s]]}
           planned == [s \in Sources |-> IF s \in changed THEN None
                                                          ELSE newest[s]]
           next == IF AnythingToPublish(changed, planned)
                   THEN "stamp" ELSE "retain"
<1>2. changed \in SUBSET Sources /\ planned \in Manifest
  BY RunType DEF RunState, Manifest, None
<1>3. next \in {"stamp", "retain"}
  OBVIOUS
<1>4. Becomes(r, [run[r] EXCEPT !.pc = next, !.todo = changed,
                                !.planned = planned])
  BY <1>1
<1> HIDE DEF changed, planned, next
<1> QED BY <1>2, <1>3, <1>4

-----------------------------------------------------------------------------
(* Type correctness *)

\* No step stores anything of the wrong type, whatever the constants are.
THEOREM TypeCorrect == Spec => []TypeOK
<1>1. Init => TypeOK
  BY SnapshotAssumption, InitialTypes
  DEF Init, TypeOK, Stamps, Versions, TopVersions, None
<1>2. TypeOK /\ [Next]_vars => TypeOK'
  <2> SUFFICES ASSUME TypeOK, [Next]_vars PROVE TypeOK'
    OBVIOUS
  <2>1. ASSUME NEW r \in Runs, NEW wanted \in Selections, Start(r, wanted)
        PROVE TypeOK'
    <3> DEFINE leftover == {t \in TreeDirs \ Served : ~trees[t].listed}
    <3>3. leftover \in SUBSET Stamps /\ wanted \in SUBSET Sources
      BY SnapshotAssumption DEF TreeDirs
    <3>4. Becomes(r, [run[r] EXCEPT !.pc = "clean", !.todo = wanted,
                                    !.queue = leftover])
      BY <2>1 DEF Start
    <3> HIDE DEF leftover
    <3>1. [run[r] EXCEPT !.pc = "clean", !.todo = wanted, !.queue = leftover]
             \in RunState
      BY <3>3, RunType DEF RunState, Phases
    <3>2. run' \in [Runs -> RunState]
      BY <3>1, <3>4, RunType
    <3> QED BY <2>1, <3>2 DEF Start, TakeLock, TypeOK
  <2>2. ASSUME NEW r \in Runs, CleanTree(r) PROVE TypeOK'
    <3>1. PICK t \in run[r].queue :
            /\ TreeDeleted(t) \/ TreeDeletionFailed(t)
            /\ Becomes(r, [run[r] EXCEPT !.queue = @ \ {t}])
      BY <2>2 DEF CleanTree
    <3>2. /\ t \in Stamps
          /\ [run[r] EXCEPT !.queue = @ \ {t}] \in RunState
      BY <3>1, RunType DEF RunState
    <3>3. trees' \in [Stamps -> Tree]
      BY <3>1, <3>2, DeletionType
    <3>4. run' \in [Runs -> RunState]
      BY <3>1, <3>2, RunType
    <3> QED BY <2>2, <3>3, <3>4 DEF CleanTree, TypeOK
  <2>3. ASSUME NEW r \in Runs, CleaningDone(r) PROVE TypeOK'
    <3>1. run' \in [Runs -> RunState]
      BY <2>3, GotoType DEF CleaningDone, Phases
    <3> QED BY <2>3, <3>1 DEF CleaningDone, TypeOK
  <2>4. ASSUME NEW r \in Runs, PlanSources(r) PROVE TypeOK'
    <3>1. PICK next \in {"stamp", "retain"}, todo \in SUBSET Sources,
               planned \in Manifest :
            Becomes(r, [run[r] EXCEPT !.pc = next, !.todo = todo,
                                      !.planned = planned])
      BY <2>4, PlanEffect
    <3>2. [run[r] EXCEPT !.pc = next, !.todo = todo, !.planned = planned]
             \in RunState
      BY RunType DEF RunState, Phases
    <3>3. run' \in [Runs -> RunState]
      BY <3>1, <3>2, RunType
    <3> QED BY <2>4, <3>3 DEF PlanSources, TypeOK
  <2>5. ASSUME NEW r \in Runs, PickStamp(r) PROVE TypeOK'
    <3>1. [run[r] EXCEPT !.pc = "snapshot", !.stamp = now] \in RunState
      BY RunType DEF RunState, Phases, TypeOK
    <3>2. run' \in [Runs -> RunState]
      BY <2>5, <3>1, RunType DEF PickStamp
    <3> QED BY <2>5, <3>2 DEF PickStamp, TypeOK
  <2>6. ASSUME NEW r \in Runs, NEW s \in Sources, CreateSnapshot(r, s)
        PROVE TypeOK'
    <3> DEFINE planned == [run[r].planned EXCEPT ![s] = run[r].stamp]
    <3>3. planned \in Manifest
      BY RunType DEF RunState, Manifest
    <3>4. Becomes(r, [run[r] EXCEPT !.todo = @ \ {s}, !.planned = planned])
      BY <2>6 DEF CreateSnapshot
    <3> HIDE DEF planned
    <3>1. [run[r] EXCEPT !.todo = @ \ {s}, !.planned = planned] \in RunState
      BY <3>3, RunType DEF RunState
    <3>2. run' \in [Runs -> RunState]
      BY <3>1, <3>4, RunType
    <3>5. snapshots' \in [Sources -> [Stamps -> Versions \cup {None}]]
      BY <2>6 DEF CreateSnapshot, TypeOK
    <3> QED BY <2>6, <3>2, <3>5 DEF CreateSnapshot, TypeOK
  <2>7. ASSUME NEW r \in Runs, SnapshotsCreated(r) PROVE TypeOK'
    <3>1. run' \in [Runs -> RunState]
      BY <2>7, GotoType DEF SnapshotsCreated, Phases
    <3> QED BY <2>7, <3>1 DEF SnapshotsCreated, TypeOK
  <2>8. ASSUME NEW r \in Runs, CreateTree(r) PROVE TypeOK'
    <3>1. [run[r] EXCEPT !.pc = "copy", !.todo = Sources] \in RunState
      BY RunType DEF RunState, Phases
    <3>2. run' \in [Runs -> RunState]
      BY <2>8, <3>1, RunType DEF CreateTree
    <3>3. ASSUME run[r].stamp \in Stamps
          PROVE  [TreeOf(r) EXCEPT !.dir = TRUE] \in Tree
      BY <3>3, TreeOfType DEF Tree
    <3>4. trees' \in [Stamps -> Tree]
      BY <2>8, <3>3, ComposesType DEF CreateTree
    <3> QED BY <2>8, <3>2, <3>4 DEF CreateTree, TypeOK
  <2>9. ASSUME NEW r \in Runs, NEW s \in Sources, CopySnapshot(r, s)
        PROVE TypeOK'
    <3>1. [run[r] EXCEPT !.todo = @ \ {s}] \in RunState
      BY RunType DEF RunState
    <3>2. run' \in [Runs -> RunState]
      BY <2>9, <3>1, RunType DEF CopySnapshot
    <3> DEFINE copy == [from |-> run[r].planned[s],
                        version |-> snapshots[s][run[r].planned[s]]]
    <3>3. run[r].planned[s] \in Stamps
      BY <2>9 DEF CopySnapshot, SnapshotsOf
    <3>4. copy \in Copy
      BY <3>3 DEF Copy, TypeOK
    <3>5. Composes(r, [TreeOf(r) EXCEPT
                         !.copies = [@ EXCEPT ![s] = copy]])
      BY <2>9 DEF CopySnapshot
    <3> HIDE DEF copy
    <3>6. ASSUME run[r].stamp \in Stamps
          PROVE  [TreeOf(r) EXCEPT !.copies = [@ EXCEPT ![s] = copy]] \in Tree
      BY <3>4, <3>6, TreeOfType DEF Tree
    <3>7. trees' \in [Stamps -> Tree]
      BY <3>5, <3>6, ComposesType
    <3> QED BY <2>9, <3>2, <3>7 DEF CopySnapshot, TypeOK
  <2>10. ASSUME NEW r \in Runs, SnapshotsCopied(r) PROVE TypeOK'
    <3>1. run' \in [Runs -> RunState]
      BY <2>10, GotoType DEF SnapshotsCopied, Phases
    <3> QED BY <2>10, <3>1 DEF SnapshotsCopied, TypeOK
  <2>11. ASSUME NEW r \in Runs, CopyTopFiles(r) PROVE TypeOK'
    <3>1. run' \in [Runs -> RunState]
      BY <2>11, GotoType DEF CopyTopFiles, Phases
    <3>2. ASSUME run[r].stamp \in Stamps
          PROVE  [TreeOf(r) EXCEPT !.top = top] \in Tree
      BY <3>2, TreeOfType DEF Tree, TypeOK
    <3>3. trees' \in [Stamps -> Tree]
      BY <2>11, <3>2, ComposesType DEF CopyTopFiles
    <3> QED BY <2>11, <3>1, <3>3 DEF CopyTopFiles, TypeOK
  <2>12. ASSUME NEW r \in Runs, Seal(r) PROVE TypeOK'
    <3>1. run' \in [Runs -> RunState]
      BY <2>12, GotoType DEF Seal, Phases
    <3>2. ASSUME run[r].stamp \in Stamps
          PROVE  [TreeOf(r) EXCEPT !.sealed = TRUE] \in Tree
      BY <3>2, TreeOfType DEF Tree
    <3>3. trees' \in [Stamps -> Tree]
      BY <2>12, <3>2, ComposesType DEF Seal
    <3> QED BY <2>12, <3>1, <3>3 DEF Seal, TypeOK
  <2>13. ASSUME NEW r \in Runs, OpenManifest(r) PROVE TypeOK'
    <3>1. run' \in [Runs -> RunState]
      BY <2>13, GotoType DEF OpenManifest, Phases
    <3>2. ASSUME run[r].stamp \in Stamps
          PROVE  [TreeOf(r) EXCEPT !.listed = TRUE,
                                  !.manifest = NoManifest] \in Tree
      BY <3>2, TreeOfType DEF Tree, NoManifest, Manifest, None
    <3>3. trees' \in [Stamps -> Tree]
      BY <2>13, <3>2, ComposesType DEF OpenManifest
    <3> QED BY <2>13, <3>1, <3>3 DEF OpenManifest, TypeOK
  <2>14. ASSUME NEW r \in Runs, WriteManifest(r) PROVE TypeOK'
    <3>1. run' \in [Runs -> RunState]
      BY <2>14, GotoType DEF WriteManifest, Phases
    <3>2. ASSUME run[r].stamp \in Stamps
          PROVE  [TreeOf(r) EXCEPT !.manifest = run[r].planned] \in Tree
      BY <3>2, TreeOfType, RunType DEF Tree, RunState
    <3>3. trees' \in [Stamps -> Tree]
      BY <2>14, <3>2, ComposesType DEF WriteManifest
    <3> QED BY <2>14, <3>1, <3>3 DEF WriteManifest, TypeOK
  <2>15. ASSUME NEW r \in Runs, FlipDocroot(r) PROVE TypeOK'
    <3>1. run' \in [Runs -> RunState]
      BY <2>15, GotoType DEF FlipDocroot, Phases
    <3>2. current' \in Stamps \cup {None}
      BY <2>15, RunType DEF FlipDocroot, RunState
    <3> QED BY <2>15, <3>1, <3>2 DEF FlipDocroot, TypeOK
  <2>16. ASSUME NEW r \in Runs, StartRetention(r) PROVE TypeOK'
    <3> DEFINE doomed == Doomed
               kept == TreeDirs \ doomed
    <3>3. doomed \in SUBSET Stamps /\ kept \in SUBSET Stamps
      BY DEF TreeDirs, Doomed, BeyondNewest
    <3>4. Becomes(r, [run[r] EXCEPT !.pc = "trees", !.queue = doomed,
                                    !.kept = kept])
      BY <2>16 DEF StartRetention
    <3> HIDE DEF doomed, kept
    <3>1. [run[r] EXCEPT !.pc = "trees", !.queue = doomed,
                           !.kept = kept] \in RunState
      BY <3>3, RunType DEF RunState, Phases
    <3>2. run' \in [Runs -> RunState]
      BY <3>1, <3>4, RunType
    <3> QED BY <2>16, <3>2 DEF StartRetention, TypeOK
  <2>17. ASSUME NEW r \in Runs, PruneTree(r) PROVE TypeOK'
    <3>1. PICK t \in run[r].queue :
            /\ TreeDeleted(t) \/ TreeDeletionFailed(t)
            /\ \/ Becomes(r, [run[r] EXCEPT !.queue = @ \ {t}])
               \/ Becomes(r, [run[r] EXCEPT !.queue = @ \ {t},
                                            !.kept = @ \cup {t}])
      BY <2>17 DEF PruneTree
    <3>2. /\ t \in Stamps
          /\ [run[r] EXCEPT !.queue = @ \ {t}] \in RunState
          /\ [run[r] EXCEPT !.queue = @ \ {t}, !.kept = @ \cup {t}] \in RunState
      BY <3>1, RunType DEF RunState
    <3>3. trees' \in [Stamps -> Tree]
      BY <3>1, <3>2, DeletionType
    <3>4. run' \in [Runs -> RunState]
      BY <3>1, <3>2, RunType
    <3> QED BY <2>17, <3>3, <3>4 DEF PruneTree, TypeOK
  <2>18. ASSUME NEW r \in Runs, TreesPruned(r) PROVE TypeOK'
    <3>1. [run[r] EXCEPT !.pc = "snapshots", !.todo = Sources] \in RunState
      BY RunType DEF RunState, Phases
    <3>2. run' \in [Runs -> RunState]
      BY <2>18, <3>1, RunType DEF TreesPruned
    <3> QED BY <2>18, <3>2 DEF TreesPruned, TypeOK
  <2>19. ASSUME NEW r \in Runs, NEW s \in Sources, PruneSnapshots(r, s)
        PROVE TypeOK'
    <3>1. [run[r] EXCEPT !.todo = @ \ {s}] \in RunState
      BY RunType DEF RunState
    <3>2. run' \in [Runs -> RunState]
      BY <2>19, <3>1, RunType DEF PruneSnapshots
    <3>3. snapshots' \in [Sources -> [Stamps -> Versions \cup {None}]]
      BY <2>19 DEF PruneSnapshots, TypeOK
    <3> QED BY <2>19, <3>2, <3>3 DEF PruneSnapshots, TypeOK
  <2>20. ASSUME NEW r \in Runs, Finish(r) \/ Die(r) PROVE TypeOK'
    <3>1. run' \in [Runs -> RunState]
      BY <2>20, InitialTypes, RunType DEF Finish, Die
    <3> QED BY <2>20, <3>1 DEF Finish, Die, TypeOK
  <2>21. ASSUME NEW s \in Sources, Edit(s) PROVE TypeOK'
    BY <2>21, SnapshotAssumption DEF Edit, TypeOK, Versions
  <2>22. CASE EditTop
    BY <2>22, SnapshotAssumption DEF EditTop, TypeOK, TopVersions
  <2>23. CASE Tick
    BY <2>23, SnapshotAssumption DEF Tick, TypeOK, Stamps
  <2>24. CASE UNCHANGED vars
    BY <2>24 DEF vars, TypeOK
  <2> QED
    BY <2>1, <2>2, <2>3, <2>4, <2>5, <2>6, <2>7, <2>8, <2>9, <2>10, <2>11,
       <2>12, <2>13, <2>14, <2>15, <2>16, <2>17, <2>18, <2>19, <2>20, <2>21,
       <2>22, <2>23, <2>24
    DEF Next, Step
<1> QED BY <1>1, <1>2, PTL DEF Spec

-----------------------------------------------------------------------------
(* The served tree *)

\* A run at work is the only one, so its step concerns no other run.
LEMMA OthersIdle ==
    ASSUME ServedInv, NEW r \in Runs, ~At(r, "idle") \/ lock = NoRun,
           NEW state \in RunState, Becomes(r, state)
    PROVE  /\ run'[r] = state
           /\ \A q \in Runs \ {r} : run'[q] = run[q] /\ run'[q].pc = "idle"
BY SnapshotAssumption DEF ServedInv, Exclusive, At, Becomes, TypeOK

\* What is left to show of a step of run r.
LEMMA StepOfOne ==
    ASSUME ServedInv, TypeOK', NEW r \in Runs, ~At(r, "idle") \/ lock = NoRun,
           NEW state \in RunState, Becomes(r, state),
           lock' = r \/ state.pc = "idle",
           ServedIntact', SparesServed(r)', Composing(r)'
    PROVE  ServedInv'
<1>1. Exclusive'
  BY OthersIdle DEF Exclusive, At
<1>2. \A q \in Runs \ {r} : SparesServed(q)' /\ Composing(q)'
  BY OthersIdle DEF SparesServed, Composing
<1> QED BY <1>1, <1>2 DEF ServedInv

\* A step that leaves the trees and the docroot alone.
LEMMA TreesUntouched ==
    ASSUME ServedInv, current' = current, trees' = trees
    PROVE  ServedIntact'
BY DEF ServedInv, ServedIntact, Intact

\* A step that works on a tree that is not served.
LEMMA TreeElsewhere ==
    ASSUME ServedInv, current' = current, NEW t \in Stamps, t # current,
           NEW state, TreeBecomes(t, state)
    PROVE  ServedIntact'
BY DEF ServedInv, ServedIntact, Intact, TypeOK, TreeBecomes

LEMMA DeletionElsewhere ==
    ASSUME ServedInv, current' = current, NEW t \in Stamps, t # current,
           TreeDeleted(t) \/ TreeDeletionFailed(t)
    PROVE  ServedIntact'
<1>1. CASE UNCHANGED trees
  BY <1>1, TreesUntouched
<1>2. ASSUME NEW state, TreeBecomes(t, state) PROVE ServedIntact'
  BY <1>2, TreeElsewhere
<1> QED BY <1>1, <1>2 DEF TreeDeleted, TreeDeletionFailed

\* The tree a run composes is not the served one, whatever it adds to it.
LEMMA ComposesElsewhere ==
    ASSUME ServedInv, current' = current, NEW r \in Runs,
           run[r].stamp \in Stamps, run[r].stamp # current,
           NEW state, Composes(r, state)
    PROVE  /\ ServedIntact'
           /\ trees'[run[r].stamp] = state
<1>1. ServedIntact'
  BY TreeElsewhere DEF Composes
<1>2. trees'[run[r].stamp] = state
  BY DEF Composes, TreeBecomes, ServedInv, TypeOK
<1> QED BY <1>1, <1>2

\* No step breaks it.
LEMMA ServedStep ==
    ASSUME ServedInv, TypeOK', [Next]_vars
    PROVE  ServedInv'
<1> USE DEF At
<1>0. TypeOK
  BY DEF ServedInv
<1>1. ASSUME NEW r \in Runs, NEW wanted \in Selections, Start(r, wanted)
      PROVE  ServedInv'
  <2> DEFINE leftover == {t \in TreeDirs \ Served : ~trees[t].listed}
             state == [run[r] EXCEPT !.pc = "clean", !.todo = wanted,
                                     !.queue = leftover]
  <2>1. Becomes(r, state)
    BY <1>1 DEF Start
  <2>2. current \notin leftover
    BY <1>0 DEF Served, TreeDirs
  <2>3. leftover \in SUBSET Stamps /\ wanted \in SUBSET Sources
    BY SnapshotAssumption DEF TreeDirs
  <2> HIDE DEF leftover
  <2>4. state \in RunState /\ state.pc = "clean" /\ state.queue = leftover
    BY <1>0, <2>3, RunType DEF RunState, Phases
  <2> HIDE DEF state
  <2>5. run'[r] = state
    BY <1>1, <2>1, <2>4, OthersIdle DEF Start, TakeLock
  <2>6. SparesServed(r)' /\ Composing(r)'
    BY <1>1, <2>2, <2>4, <2>5 DEF SparesServed, Composing, Start
  <2>7. ServedIntact'
    BY <1>1, TreesUntouched DEF Start
  <2> QED BY <1>1, <2>1, <2>4, <2>6, <2>7, StepOfOne DEF Start, TakeLock
<1>2. ASSUME NEW r \in Runs, CleanTree(r) PROVE ServedInv'
  <2>1. PICK t \in run[r].queue :
          /\ TreeDeleted(t) \/ TreeDeletionFailed(t)
          /\ Becomes(r, [run[r] EXCEPT !.queue = @ \ {t}])
    BY <1>2 DEF CleanTree
  <2> DEFINE state == [run[r] EXCEPT !.queue = @ \ {t}]
  <2>2. /\ t \in Stamps
        /\ state \in RunState
        /\ state.pc = "clean" /\ state.queue = run[r].queue \ {t}
    BY <1>0, <1>2, <2>1, RunType DEF RunState, CleanTree
  <2>3. Becomes(r, state)
    BY <2>1
  <2> HIDE DEF state
  <2>4. run'[r] = state
    BY <1>2, <2>2, <2>3, OthersIdle DEF CleanTree
  <2>5. current \notin run[r].queue
    BY <1>2 DEF CleanTree, ServedInv, SparesServed
  <2>6. SparesServed(r)' /\ Composing(r)'
    BY <1>2, <2>2, <2>4, <2>5 DEF CleanTree, SparesServed, Composing
  <2>7. ServedIntact'
    BY <1>2, <2>1, <2>2, <2>5, DeletionElsewhere DEF CleanTree
  <2>8. lock' = r
    BY <1>2 DEF CleanTree, ServedInv, Exclusive
  <2> QED BY <1>2, <2>2, <2>3, <2>6, <2>7, <2>8, StepOfOne DEF CleanTree
<1>3. ASSUME NEW r \in Runs, CleaningDone(r) PROVE ServedInv'
  <2> DEFINE state == [run[r] EXCEPT !.pc = "plan"]
  <2>1. Becomes(r, state) /\ run[r].pc = "clean"
    BY <1>3 DEF CleaningDone, Goto
  <2>2. /\ state \in RunState
        /\ state.pc = "plan"
    BY <1>0, RunType DEF RunState, Phases
  <2> HIDE DEF state
  <2>3. run'[r] = state
    BY <2>1, <2>2, OthersIdle
  <2>4. SparesServed(r)' /\ Composing(r)'
    BY <1>3, <2>1, <2>2, <2>3 DEF SparesServed, Composing, CleaningDone
  <2>5. ServedIntact'
    BY <1>3, TreesUntouched DEF CleaningDone
  <2>6. lock' = r
    BY <1>3, <2>1 DEF CleaningDone, ServedInv, Exclusive
  <2> QED BY <2>1, <2>2, <2>4, <2>5, <2>6, StepOfOne
<1>4. ASSUME NEW r \in Runs, PlanSources(r) PROVE ServedInv'
  <2>1. PICK next \in {"stamp", "retain"}, todo \in SUBSET Sources,
             planned \in Manifest :
          Becomes(r, [run[r] EXCEPT !.pc = next, !.todo = todo,
                                    !.planned = planned])
    BY <1>0, <1>4, PlanEffect
  <2> DEFINE state == [run[r] EXCEPT !.pc = next, !.todo = todo,
                                     !.planned = planned]
  <2>2. state \in RunState /\ state.pc = next
    BY <1>0, <2>1, RunType DEF RunState, Phases
  <2>3. Becomes(r, state) /\ run[r].pc = "plan"
    BY <1>4, <2>1 DEF PlanSources
  <2> HIDE DEF state
  <2>4. run'[r] = state
    BY <2>2, <2>3, OthersIdle
  <2>5. SparesServed(r)' /\ Composing(r)'
    BY <2>2, <2>4 DEF SparesServed, Composing
  <2>6. ServedIntact'
    BY <1>4, TreesUntouched DEF PlanSources
  <2>7. lock' = r
    BY <1>4 DEF PlanSources, ServedInv, Exclusive
  <2> QED BY <2>2, <2>3, <2>5, <2>6, <2>7, StepOfOne
<1>5. ASSUME NEW r \in Runs, PickStamp(r) PROVE ServedInv'
  <2> DEFINE state == [run[r] EXCEPT !.pc = "snapshot", !.stamp = now]
  <2>0. now \in Stamps /\ now # current
    BY <1>0, <1>5
    DEF PickStamp, Taken, TypeOK, Stamps, None, ServedInv, ServedIntact, Intact
  <2>1. Becomes(r, state) /\ run[r].pc = "stamp"
    BY <1>5 DEF PickStamp
  <2>2. /\ state \in RunState
        /\ state.pc = "snapshot" /\ state.stamp = now
    BY <1>0, RunType DEF RunState, Phases, TypeOK
  <2> HIDE DEF state
  <2>3. run'[r] = state
    BY <2>1, <2>2, OthersIdle
  <2>4. SparesServed(r)' /\ Composing(r)'
    BY <1>5, <2>0, <2>1, <2>2, <2>3 DEF SparesServed, Composing, PickStamp
  <2>5. ServedIntact'
    BY <1>5, TreesUntouched DEF PickStamp
  <2>6. lock' = r
    BY <1>5, <2>1 DEF PickStamp, ServedInv, Exclusive
  <2> QED BY <2>1, <2>2, <2>4, <2>5, <2>6, StepOfOne
<1>6. ASSUME NEW r \in Runs, NEW s \in Sources, CreateSnapshot(r, s)
      PROVE  ServedInv'
  <2> DEFINE planned == [run[r].planned EXCEPT ![s] = run[r].stamp]
             state == [run[r] EXCEPT !.todo = @ \ {s}, !.planned = planned]
  <2>0. planned \in Manifest
    BY <1>0, RunType DEF RunState, Manifest
  <2>1. Becomes(r, state) /\ run[r].pc = "snapshot"
    BY <1>6 DEF CreateSnapshot
  <2> HIDE DEF planned
  <2>2. /\ state \in RunState
        /\ state.pc = "snapshot" /\ state.stamp = run[r].stamp
    BY <1>0, <2>0, <2>1, RunType DEF RunState, Phases
  <2> HIDE DEF state
  <2>3. run'[r] = state
    BY <2>1, <2>2, OthersIdle
  <2>4. SparesServed(r)' /\ Composing(r)'
    BY <1>6, <2>1, <2>2, <2>3
    DEF SparesServed, Composing, CreateSnapshot, ServedInv
  <2>5. ServedIntact'
    BY <1>6, TreesUntouched DEF CreateSnapshot
  <2>6. lock' = r
    BY <1>6, <2>1 DEF CreateSnapshot, ServedInv, Exclusive
  <2> QED BY <2>1, <2>2, <2>4, <2>5, <2>6, StepOfOne
<1>7. ASSUME NEW r \in Runs, SnapshotsCreated(r) PROVE ServedInv'
  <2> DEFINE state == [run[r] EXCEPT !.pc = "create"]
  <2>1. Becomes(r, state) /\ run[r].pc = "snapshot"
    BY <1>7 DEF SnapshotsCreated, Goto
  <2>2. /\ state \in RunState
        /\ state.pc = "create" /\ state.stamp = run[r].stamp
    BY <1>0, RunType DEF RunState, Phases
  <2> HIDE DEF state
  <2>3. run'[r] = state
    BY <2>1, <2>2, OthersIdle
  <2>4. SparesServed(r)' /\ Composing(r)'
    BY <1>7, <2>1, <2>2, <2>3
    DEF SparesServed, Composing, SnapshotsCreated, ServedInv
  <2>5. ServedIntact'
    BY <1>7, TreesUntouched DEF SnapshotsCreated
  <2>6. lock' = r
    BY <1>7, <2>1 DEF SnapshotsCreated, ServedInv, Exclusive
  <2> QED BY <2>1, <2>2, <2>4, <2>5, <2>6, StepOfOne
<1>8. ASSUME NEW r \in Runs, CreateTree(r) PROVE ServedInv'
  <2> DEFINE state == [run[r] EXCEPT !.pc = "copy", !.todo = Sources]
             tree == [TreeOf(r) EXCEPT !.dir = TRUE]
  <2>1. Becomes(r, state) /\ Composes(r, tree) /\ run[r].pc = "create"
    BY <1>8 DEF CreateTree
  <2>2. /\ state \in RunState
        /\ state.pc = "copy" /\ state.stamp = run[r].stamp
        /\ state.todo = Sources
    BY <1>0, RunType DEF RunState, Phases
  <2>3. run[r].stamp \in Stamps /\ run[r].stamp # current
    BY <2>1 DEF ServedInv, Composing
  <2> HIDE DEF state
  <2>4. run'[r] = state
    BY <2>1, <2>2, OthersIdle
  <2>5. ServedIntact' /\ trees'[run[r].stamp] = tree
    BY <1>8, <2>1, <2>3, ComposesElsewhere DEF CreateTree
  <2>6. SparesServed(r)'
    BY <2>2, <2>4 DEF SparesServed
  <2>7. Composing(r)'
    BY <1>0, <1>8, <2>1, <2>2, <2>3, <2>4, <2>5, TreeOfType
    DEF ServedInv, Composing, CreateTree, Tree, TreeOf
  <2>8. lock' = r
    BY <1>8, <2>1 DEF CreateTree, ServedInv, Exclusive
  <2> QED BY <2>1, <2>2, <2>5, <2>6, <2>7, <2>8, StepOfOne
<1>9. ASSUME NEW r \in Runs, NEW s \in Sources, CopySnapshot(r, s)
      PROVE  ServedInv'
  <2> DEFINE state == [run[r] EXCEPT !.todo = @ \ {s}]
             copy == [from |-> run[r].planned[s],
                      version |-> snapshots[s][run[r].planned[s]]]
             tree == [TreeOf(r) EXCEPT !.copies = [@ EXCEPT ![s] = copy]]
  <2>1. Becomes(r, state) /\ Composes(r, tree) /\ run[r].pc = "copy"
    BY <1>9 DEF CopySnapshot
  <2>2. /\ state \in RunState
        /\ state.pc = "copy" /\ state.stamp = run[r].stamp
        /\ state.todo = run[r].todo \ {s}
    BY <1>0, <2>1, RunType DEF RunState, Phases
  <2>3. run[r].stamp \in Stamps /\ run[r].stamp # current
    BY <2>1 DEF ServedInv, Composing
  <2>9. copy.version # None
    BY <1>9 DEF CopySnapshot, SnapshotsOf
  <2> HIDE DEF copy
  <2>10. /\ tree.dir
         /\ \A x \in Sources \ state.todo : tree.copies[x].version # None
    <3>1. TreeOf(r).dir /\ TreeOf(r).copies \in [Sources -> Copy]
      BY <1>0, <2>1, <2>3, TreeOfType DEF ServedInv, Composing, Tree, TreeOf
    <3>2. \A x \in Sources \ run[r].todo : TreeOf(r).copies[x].version # None
      BY <2>1 DEF ServedInv, Composing, TreeOf
    <3>3. tree.dir /\ tree.copies = [TreeOf(r).copies EXCEPT ![s] = copy]
      BY <1>0, <2>3, <3>1, TreeOfType DEF Tree
    <3> QED BY <2>2, <2>9, <3>1, <3>2, <3>3
  <2> HIDE DEF tree
  <2> HIDE DEF state
  <2>4. run'[r] = state
    BY <2>1, <2>2, OthersIdle
  <2>5. ServedIntact' /\ trees'[run[r].stamp] = tree
    BY <1>9, <2>1, <2>3, ComposesElsewhere DEF CopySnapshot
  <2>6. SparesServed(r)'
    BY <2>2, <2>4 DEF SparesServed
  <2>7. Composing(r)'
    BY <1>0, <1>9, <2>1, <2>2, <2>3, <2>4, <2>5, TreeOfType, <2>10
    DEF ServedInv, Composing, CopySnapshot, Tree, TreeOf
  <2>8. lock' = r
    BY <1>9, <2>1 DEF CopySnapshot, ServedInv, Exclusive
  <2> QED BY <2>1, <2>2, <2>5, <2>6, <2>7, <2>8, StepOfOne
<1>10. ASSUME NEW r \in Runs, SnapshotsCopied(r) PROVE ServedInv'
  <2> DEFINE state == [run[r] EXCEPT !.pc = "top"]
  <2>1. Becomes(r, state) /\ run[r].pc = "copy"
    BY <1>10 DEF SnapshotsCopied, Goto
  <2>2. /\ state \in RunState
        /\ state.pc = "top" /\ state.stamp = run[r].stamp
    BY <1>0, RunType DEF RunState, Phases
  <2> HIDE DEF state
  <2>3. run'[r] = state
    BY <2>1, <2>2, OthersIdle
  <2>4. SparesServed(r)' /\ Composing(r)'
    BY <1>10, <2>1, <2>2, <2>3
    DEF SparesServed, Composing, SnapshotsCopied, ServedInv
  <2>5. ServedIntact'
    BY <1>10, TreesUntouched DEF SnapshotsCopied
  <2>6. lock' = r
    BY <1>10, <2>1 DEF SnapshotsCopied, ServedInv, Exclusive
  <2> QED BY <2>1, <2>2, <2>4, <2>5, <2>6, StepOfOne
<1>11. ASSUME NEW r \in Runs, CopyTopFiles(r) PROVE ServedInv'
  <2> DEFINE state == [run[r] EXCEPT !.pc = "seal"]
             tree == [TreeOf(r) EXCEPT !.top = top]
  <2>1. Becomes(r, state) /\ Composes(r, tree) /\ run[r].pc = "top"
    BY <1>11 DEF CopyTopFiles, Goto
  <2>2. /\ state \in RunState
        /\ state.pc = "seal" /\ state.stamp = run[r].stamp
    BY <1>0, RunType DEF RunState, Phases
  <2>3. run[r].stamp \in Stamps /\ run[r].stamp # current
    BY <2>1 DEF ServedInv, Composing
  <2>9. top # None
    BY <1>0 DEF TypeOK, TopVersions, None
  <2> HIDE DEF state
  <2>4. run'[r] = state
    BY <2>1, <2>2, OthersIdle
  <2>5. ServedIntact' /\ trees'[run[r].stamp] = tree
    BY <1>11, <2>1, <2>3, ComposesElsewhere DEF CopyTopFiles
  <2>6. SparesServed(r)'
    BY <2>2, <2>4 DEF SparesServed
  <2>7. Composing(r)'
    BY <1>0, <1>11, <2>1, <2>2, <2>3, <2>4, <2>5, TreeOfType, <2>9
    DEF ServedInv, Composing, CopyTopFiles, Tree, TreeOf
  <2>8. lock' = r
    BY <1>11, <2>1 DEF CopyTopFiles, ServedInv, Exclusive
  <2> QED BY <2>1, <2>2, <2>5, <2>6, <2>7, <2>8, StepOfOne
<1>12. ASSUME NEW r \in Runs, Seal(r) PROVE ServedInv'
  <2> DEFINE state == [run[r] EXCEPT !.pc = "open"]
             tree == [TreeOf(r) EXCEPT !.sealed = TRUE]
  <2>1. Becomes(r, state) /\ Composes(r, tree) /\ run[r].pc = "seal"
    BY <1>12 DEF Seal, Goto
  <2>2. /\ state \in RunState
        /\ state.pc = "open" /\ state.stamp = run[r].stamp
    BY <1>0, RunType DEF RunState, Phases
  <2>3. run[r].stamp \in Stamps /\ run[r].stamp # current
    BY <2>1 DEF ServedInv, Composing
  <2> HIDE DEF state
  <2>4. run'[r] = state
    BY <2>1, <2>2, OthersIdle
  <2>5. ServedIntact' /\ trees'[run[r].stamp] = tree
    BY <1>12, <2>1, <2>3, ComposesElsewhere DEF Seal
  <2>6. SparesServed(r)'
    BY <2>2, <2>4 DEF SparesServed
  <2>7. Composing(r)'
    BY <1>0, <1>12, <2>1, <2>2, <2>3, <2>4, <2>5, TreeOfType
    DEF ServedInv, Composing, Seal, Tree, TreeOf
  <2>8. lock' = r
    BY <1>12, <2>1 DEF Seal, ServedInv, Exclusive
  <2> QED BY <2>1, <2>2, <2>5, <2>6, <2>7, <2>8, StepOfOne
<1>13. ASSUME NEW r \in Runs, OpenManifest(r) PROVE ServedInv'
  <2> DEFINE state == [run[r] EXCEPT !.pc = "write"]
             tree == [TreeOf(r) EXCEPT !.listed = TRUE, !.manifest = NoManifest]
  <2>1. Becomes(r, state) /\ Composes(r, tree) /\ run[r].pc = "open"
    BY <1>13 DEF OpenManifest, Goto
  <2>2. /\ state \in RunState
        /\ state.pc = "write" /\ state.stamp = run[r].stamp
    BY <1>0, RunType DEF RunState, Phases
  <2>3. run[r].stamp \in Stamps /\ run[r].stamp # current
    BY <2>1 DEF ServedInv, Composing
  <2>9. /\ tree.dir = TreeOf(r).dir /\ tree.sealed = TreeOf(r).sealed
        /\ tree.copies = TreeOf(r).copies /\ tree.top = TreeOf(r).top
    BY <1>0, <2>3, TreeOfType DEF Tree
  <2> HIDE DEF tree
  <2> HIDE DEF state
  <2>4. run'[r] = state
    BY <2>1, <2>2, OthersIdle
  <2>5. ServedIntact' /\ trees'[run[r].stamp] = tree
    BY <1>13, <2>1, <2>3, ComposesElsewhere DEF OpenManifest
  <2>6. SparesServed(r)'
    BY <2>2, <2>4 DEF SparesServed
  <2>7. Composing(r)'
    BY <1>0, <1>13, <2>1, <2>2, <2>3, <2>4, <2>5, TreeOfType, <2>9
    DEF ServedInv, Composing, OpenManifest, Tree, TreeOf
  <2>8. lock' = r
    BY <1>13, <2>1 DEF OpenManifest, ServedInv, Exclusive
  <2> QED BY <2>1, <2>2, <2>5, <2>6, <2>7, <2>8, StepOfOne
<1>14. ASSUME NEW r \in Runs, WriteManifest(r) PROVE ServedInv'
  <2> DEFINE state == [run[r] EXCEPT !.pc = "flip"]
             tree == [TreeOf(r) EXCEPT !.manifest = run[r].planned]
  <2>1. Becomes(r, state) /\ Composes(r, tree) /\ run[r].pc = "write"
    BY <1>14 DEF WriteManifest, Goto
  <2>2. /\ state \in RunState
        /\ state.pc = "flip" /\ state.stamp = run[r].stamp
    BY <1>0, RunType DEF RunState, Phases
  <2>3. run[r].stamp \in Stamps /\ run[r].stamp # current
    BY <2>1 DEF ServedInv, Composing
  <2>9. /\ tree.dir = TreeOf(r).dir /\ tree.sealed = TreeOf(r).sealed
        /\ tree.copies = TreeOf(r).copies /\ tree.top = TreeOf(r).top
    BY <1>0, <2>3, TreeOfType DEF Tree
  <2> HIDE DEF tree
  <2> HIDE DEF state
  <2>4. run'[r] = state
    BY <2>1, <2>2, OthersIdle
  <2>5. ServedIntact' /\ trees'[run[r].stamp] = tree
    BY <1>14, <2>1, <2>3, ComposesElsewhere DEF WriteManifest
  <2>6. SparesServed(r)'
    BY <2>2, <2>4 DEF SparesServed
  <2>7. Composing(r)'
    BY <1>0, <1>14, <2>1, <2>2, <2>3, <2>4, <2>5, TreeOfType, <2>9
    DEF ServedInv, Composing, WriteManifest, Tree, TreeOf
  <2>8. lock' = r
    BY <1>14, <2>1 DEF WriteManifest, ServedInv, Exclusive
  <2> QED BY <2>1, <2>2, <2>5, <2>6, <2>7, <2>8, StepOfOne
<1>15. ASSUME NEW r \in Runs, FlipDocroot(r) PROVE ServedInv'
  <2> DEFINE state == [run[r] EXCEPT !.pc = "retain"]
  <2>1. Becomes(r, state) /\ run[r].pc = "flip"
    BY <1>15 DEF FlipDocroot, Goto
  <2>2. /\ state \in RunState
        /\ state.pc = "retain"
    BY <1>0, RunType DEF RunState, Phases
  <2> HIDE DEF state
  <2>3. run'[r] = state
    BY <2>1, <2>2, OthersIdle
  <2>4. SparesServed(r)' /\ Composing(r)'
    BY <1>15, <2>1, <2>2, <2>3 DEF SparesServed, Composing, FlipDocroot
  <2>5. ServedIntact'
    BY <1>15, <2>1 DEF FlipDocroot, ServedInv, Composing, ServedIntact, Intact
  <2>6. lock' = r
    BY <1>15, <2>1 DEF FlipDocroot, ServedInv, Exclusive
  <2> QED BY <2>1, <2>2, <2>4, <2>5, <2>6, StepOfOne
<1>16. ASSUME NEW r \in Runs, StartRetention(r) PROVE ServedInv'
  <2> DEFINE doomed == Doomed
             kept == TreeDirs \ doomed
             state == [run[r] EXCEPT !.pc = "trees", !.queue = doomed,
                                     !.kept = kept]
  <2>1. Becomes(r, state) /\ run[r].pc = "retain"
    BY <1>16 DEF StartRetention
  <2>2. /\ doomed \in SUBSET Stamps /\ kept \in SUBSET Stamps
        /\ current \notin doomed
    BY DEF TreeDirs, Doomed, BeyondNewest, Served
  <2> HIDE DEF doomed, kept
  <2>3. /\ state \in RunState
        /\ state.pc = "trees" /\ state.queue = doomed
    BY <1>0, <2>2, RunType DEF RunState, Phases
  <2> HIDE DEF state
  <2>4. run'[r] = state
    BY <2>1, <2>3, OthersIdle
  <2>5. SparesServed(r)' /\ Composing(r)'
    BY <1>16, <2>2, <2>3, <2>4 DEF SparesServed, Composing, StartRetention
  <2>6. ServedIntact'
    BY <1>16, TreesUntouched DEF StartRetention
  <2>7. lock' = r
    BY <1>16 DEF StartRetention, ServedInv, Exclusive
  <2> QED BY <2>1, <2>3, <2>5, <2>6, <2>7, StepOfOne
<1>17. ASSUME NEW r \in Runs, PruneTree(r) PROVE ServedInv'
  <2>1. PICK t \in run[r].queue :
          /\ TreeDeleted(t) \/ TreeDeletionFailed(t)
          /\ \/ Becomes(r, [run[r] EXCEPT !.queue = @ \ {t}])
             \/ Becomes(r, [run[r] EXCEPT !.queue = @ \ {t},
                                          !.kept = @ \cup {t}])
    BY <1>17 DEF PruneTree
  <2>2. t \in Stamps
    BY <1>0, <2>1, RunType DEF RunState
  <2>3. PICK state \in RunState :
          /\ Becomes(r, state)
          /\ state.pc = "trees" /\ state.queue = run[r].queue \ {t}
    <3>1. /\ [run[r] EXCEPT !.queue = @ \ {t}] \in RunState
          /\ [run[r] EXCEPT !.queue = @ \ {t}, !.kept = @ \cup {t}] \in RunState
      BY <1>0, <2>2, RunType DEF RunState
    <3>2. /\ [run[r] EXCEPT !.queue = @ \ {t}].pc = "trees"
          /\ [run[r] EXCEPT !.queue = @ \ {t}].queue = run[r].queue \ {t}
          /\ [run[r] EXCEPT !.queue = @ \ {t}, !.kept = @ \cup {t}].pc = "trees"
          /\ [run[r] EXCEPT !.queue = @ \ {t}, !.kept = @ \cup {t}].queue
               = run[r].queue \ {t}
      BY <1>0, <1>17, RunType DEF RunState, PruneTree
    <3> QED BY <2>1, <3>1, <3>2
  <2>4. run'[r] = state
    BY <1>17, <2>3, OthersIdle DEF PruneTree
  <2>5. current \notin run[r].queue
    BY <1>17 DEF PruneTree, ServedInv, SparesServed
  <2>6. SparesServed(r)' /\ Composing(r)'
    BY <1>17, <2>3, <2>4, <2>5 DEF PruneTree, SparesServed, Composing
  <2>7. ServedIntact'
    BY <1>17, <2>1, <2>2, <2>5, DeletionElsewhere DEF PruneTree
  <2>8. lock' = r
    BY <1>17 DEF PruneTree, ServedInv, Exclusive
  <2> QED BY <1>17, <2>3, <2>6, <2>7, <2>8, StepOfOne DEF PruneTree
<1>18. ASSUME NEW r \in Runs, TreesPruned(r) PROVE ServedInv'
  <2> DEFINE state == [run[r] EXCEPT !.pc = "snapshots", !.todo = Sources]
  <2>1. Becomes(r, state) /\ run[r].pc = "trees"
    BY <1>18 DEF TreesPruned
  <2>2. /\ state \in RunState
        /\ state.pc = "snapshots"
    BY <1>0, RunType DEF RunState, Phases
  <2> HIDE DEF state
  <2>3. run'[r] = state
    BY <2>1, <2>2, OthersIdle
  <2>4. SparesServed(r)' /\ Composing(r)'
    BY <1>18, <2>1, <2>2, <2>3 DEF SparesServed, Composing, TreesPruned
  <2>5. ServedIntact'
    BY <1>18, TreesUntouched DEF TreesPruned
  <2>6. lock' = r
    BY <1>18, <2>1 DEF TreesPruned, ServedInv, Exclusive
  <2> QED BY <2>1, <2>2, <2>4, <2>5, <2>6, StepOfOne
<1>19. ASSUME NEW r \in Runs, NEW s \in Sources, PruneSnapshots(r, s)
      PROVE  ServedInv'
  <2> DEFINE state == [run[r] EXCEPT !.todo = @ \ {s}]
  <2>1. Becomes(r, state) /\ run[r].pc = "snapshots"
    BY <1>19 DEF PruneSnapshots
  <2>2. /\ state \in RunState
        /\ state.pc = "snapshots"
    BY <1>0, <2>1, RunType DEF RunState, Phases
  <2> HIDE DEF state
  <2>3. run'[r] = state
    BY <2>1, <2>2, OthersIdle
  <2>4. SparesServed(r)' /\ Composing(r)'
    BY <1>19, <2>1, <2>2, <2>3 DEF SparesServed, Composing, PruneSnapshots
  <2>5. ServedIntact'
    BY <1>19, TreesUntouched DEF PruneSnapshots
  <2>6. lock' = r
    BY <1>19, <2>1 DEF PruneSnapshots, ServedInv, Exclusive
  <2> QED BY <2>1, <2>2, <2>4, <2>5, <2>6, StepOfOne
<1>20. ASSUME NEW r \in Runs, Finish(r) \/ Die(r) PROVE ServedInv'
  <2>1. ~At(r, "idle") /\ Becomes(r, IdleRun)
    BY <1>20 DEF Finish, Die
  <2>2. IdleRun \in RunState /\ IdleRun.pc = "idle"
    BY InitialTypes DEF IdleRun
  <2>3. run'[r].pc = "idle"
    BY <2>1, <2>2, OthersIdle
  <2>4. SparesServed(r)' /\ Composing(r)'
    BY <2>3 DEF SparesServed, Composing
  <2>5. ServedIntact'
    BY <1>20, TreesUntouched DEF Finish, Die
  <2> QED BY <2>1, <2>2, <2>4, <2>5, StepOfOne
<1>21. CASE /\ UNCHANGED <<trees, current, lock, run>>
            /\ (\E s \in Sources : Edit(s)) \/ EditTop \/ Tick \/ UNCHANGED vars
  <2>1. ServedIntact'
    BY <1>21, TreesUntouched
  <2>2. Exclusive' /\ \A r \in Runs : SparesServed(r)' /\ Composing(r)'
    BY <1>21 DEF ServedInv, Exclusive, SparesServed, Composing
  <2> QED BY <2>1, <2>2 DEF ServedInv
<1> QED
  BY <1>1, <1>2, <1>3, <1>4, <1>5, <1>6, <1>7, <1>8, <1>9, <1>10, <1>11,
     <1>12, <1>13, <1>14, <1>15, <1>16, <1>17, <1>18, <1>19, <1>20, <1>21
  DEF Next, Step, vars, Edit, EditTop, Tick

\* What a run plans to delete is never what is served, and what it composes is
\* neither, under one lock: for any number of sources and runs, whatever dies
\* and whatever the clock does.
THEOREM ServedInvariant == Spec => []ServedInv
<1>1. Init => ServedInv
  <2> SUFFICES ASSUME Init PROVE ServedInv
    OBVIOUS
  <2>1. TypeOK
    BY SnapshotAssumption, InitialTypes
    DEF Init, TypeOK, Stamps, Versions, TopVersions, None
  <2>2. ServedIntact
    BY DEF Init, ServedIntact
  <2>3. \A r \in Runs : run[r].pc = "idle"
    BY DEF Init, IdleRun
  <2> QED BY <2>1, <2>2, <2>3
          DEF ServedInv, Exclusive, SparesServed, Composing, At
<1>2. TypeOK' /\ ServedInv /\ [Next]_vars => ServedInv'
  BY ServedStep
<1> QED BY <1>1, <1>2, TypeCorrect, PTL DEF Spec

\* The docroot points at the placeholder or at a whole, sealed tree.
THEOREM ServedTreeIntact == Spec => []ServedIntact
<1>1. ServedInv => ServedIntact
  BY DEF ServedInv
<1> QED BY <1>1, ServedInvariant, PTL

=============================================================================
