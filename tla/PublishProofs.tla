---------------------------- MODULE PublishProofs ----------------------------
(* Proofs about Publish, for every value of its constants. *)
EXTENDS Publish, TLAPS

-----------------------------------------------------------------------------
(* Types of the parts a step assigns *)

LEMMA InitialTypes ==
    /\ IdleRun \in RunState /\ Sited(IdleRun)
    /\ \A b \in BOOLEAN : [NoSource EXCEPT !.laid = b] \in Source
    /\ NoSource \in Source
BY DEF IdleRun, RunState, Phases, Documents, NoIndex, Index, NoSource, Source,
       Sited

LEMMA RunType ==
    ASSUME TypeOK, NEW r \in Runs
    PROVE  /\ run[r] \in RunState
           /\ Sited(run[r])
           /\ \A state \in RunState :
                 Sited(state) /\ Becomes(r, state) => RunsOK'
<1>1. ASSUME NEW state \in RunState, Sited(state), Becomes(r, state)
      PROVE  RunsOK'
  <2>1. \A q \in Runs : run'[q] = IF q = r THEN state ELSE run[q]
    BY <1>1 DEF TypeOK, RunsOK, Becomes
  <2>2. run' \in [Runs -> RunState]
    BY <1>1 DEF TypeOK, RunsOK, Becomes
  <2>3. \A q \in Runs : Sited(run[q])
    BY DEF TypeOK, RunsOK
  <2> QED BY <1>1, <2>1, <2>2, <2>3 DEF RunsOK, Sited
<1> QED BY <1>1 DEF TypeOK, RunsOK

LEMMA SourceType ==
    ASSUME TypeOK, NEW s \in Sources
    PROVE  /\ working[s] \in Source
           /\ \A state \in Source :
                 SourceBecomes(s, state) => working' \in [Sources -> Source]
BY DEF TypeOK, SourceBecomes

\* The run that leaves is idle again.
LEMMA LeavesType ==
    ASSUME TypeOK, NEW r \in Runs, Leaves(r)
    PROVE  RunsOK' /\ lock' \in Runs \cup {NoRun}
BY InitialTypes, RunType DEF Leaves

LEMMA WritesType ==
    ASSUME TypeOK, NEW r \in Runs, NEW index \in Index, NEW state \in RunState,
           state.source \in Sources, Writes(r, index, state)
    PROVE  RunsOK'
<1>1. [state EXCEPT !.pc = "write", !.document = "index", !.index = index]
        \in RunState
  BY DEF RunState, Phases, Documents
<1>2. Sited([state EXCEPT !.pc = "write", !.document = "index",
                          !.index = index])
  BY DEF Sited, RunState
<1> QED BY <1>1, <1>2, RunType DEF Writes

-----------------------------------------------------------------------------
(* Type correctness *)

\* No step of packagetool-publish stores anything of the wrong type, whatever
\* the sources, packages and releases are.
THEOREM TypeCorrect == Spec => []TypeOK
<1>1. ASSUME Init PROVE TypeOK
  <2>1. RunsOK
    BY <1>1, InitialTypes DEF Init, RunsOK
  <2>2. working \in [Sources -> Source]
    <3>1. ASSUME NEW s \in Sources
          PROVE  [NoSource EXCEPT !.laid = s \in LaidDown] \in Source
      <4>1. (s \in LaidDown) \in BOOLEAN
        OBVIOUS
      <4> QED BY <4>1, InitialTypes, Zenon
    <3> QED BY <1>1, <3>1 DEF Init
  <2>3. served \in [Sources -> Source]
    BY <1>1, InitialTypes DEF Init
  <2> QED BY <1>1, <2>1, <2>2, <2>3 DEF Init, TypeOK
<1>2. TypeOK /\ [Next]_vars => TypeOK'
  <2> SUFFICES ASSUME TypeOK, [Next]_vars PROVE TypeOK'
    OBVIOUS
  <2>1. ASSUME NEW r \in Runs, NEW wanted \in Selections,
               NEW refreshing \in BOOLEAN, Start(r, wanted, refreshing)
        PROVE  TypeOK'
    <3> DEFINE next == IF refreshing THEN "refresh" ELSE "source"
               listing == IF refreshing THEN {} ELSE offered
               state == [IdleRun EXCEPT !.pc = next, !.refreshing = refreshing,
                                        !.wanted = wanted, !.todo = wanted,
                                        !.listing = listing]
    <3>1. /\ next \in Phases
          /\ next \notin {"version", "write", "sign"}
          /\ listing \in SUBSET Releases
          /\ wanted \in SUBSET Sources
      BY PublishAssumption DEF Phases, TypeOK
    <3>2. Becomes(r, state)
      BY <2>1 DEF Start
    <3> HIDE DEF next, listing
    <3>3. state \in RunState /\ Sited(state)
      BY <3>1, InitialTypes DEF RunState, Sited
    <3>4. RunsOK'
      BY <3>2, <3>3, RunType
    <3> QED BY <2>1, <3>4 DEF Start, TakeLock, TypeOK
  <2>2. ASSUME NEW r \in Runs, NEW s \in Sources, PlanSource(r, s)
        PROVE  TypeOK'
    <3> DEFINE listed == {e \in run[r].listing : Home[e[1]] = s}
               pending == listed \ working[s].index.packages
               versions == VersionsOf(s, listed, pending)
               state == [run[r] EXCEPT !.pc = "version", !.todo = @ \ {s},
                                       !.source = s, !.pending = pending,
                                       !.versions = versions]
    <3>1. run[r].listing \in SUBSET Releases
      BY RunType DEF RunState
    <3>2. listed \in SUBSET Releases /\ pending \in SUBSET Releases
      BY <3>1
    <3>3. versions \in SUBSET Versions
      BY <3>2 DEF VersionsOf, Releases
    <3>4. Becomes(r, state)
      BY <2>2 DEF PlanSource
    <3> HIDE DEF listed, pending, versions
    <3>5. state \in RunState /\ Sited(state)
      BY <3>2, <3>3, RunType DEF RunState, Phases, Sited
    <3>6. RunsOK'
      BY <3>4, <3>5, RunType
    <3> QED BY <2>2, <3>6 DEF PlanSource, TypeOK
  <2>3. ASSUME NEW r \in Runs, NEW s \in Sources,
               SkipSource(r, s) \/ VerifySource(r, s)
        PROVE  TypeOK'
    <3>1. /\ [run[r] EXCEPT !.todo = @ \ {s}] \in RunState
          /\ Sited([run[r] EXCEPT !.todo = @ \ {s}])
      BY RunType DEF RunState, Sited
    <3>2. RunsOK'
      BY <2>3, <3>1, RunType DEF SkipSource, VerifySource
    <3> QED BY <2>3, <3>2 DEF SkipSource, VerifySource, TypeOK
  <2>4. ASSUME NEW r \in Runs, NEW s \in Sources, RefreshSource(r, s)
        PROVE  TypeOK'
    <3>1. /\ [run[r] EXCEPT !.todo = @ \ {s}, !.source = s] \in RunState
          /\ [run[r] EXCEPT !.todo = @ \ {s}, !.source = s].source \in Sources
      BY RunType DEF RunState
    <3>2. working[s].index \in Index
      BY SourceType DEF Source
    <3>3. RunsOK'
      BY <2>4, <3>1, <3>2, WritesType DEF RefreshSource
    <3> QED BY <2>4, <3>3 DEF RefreshSource, TypeOK
  <2>5. ASSUME NEW r \in Runs, NEW p \in Packages, NEW v \in Versions,
               RecordPackage(r, p, v)
        PROVE  TypeOK'
    <3> DEFINE state == [run[r] EXCEPT !.pending = @ \ {<<p, v>>}]
               source == working[run[r].source]
               index == [source.index EXCEPT !.packages = @ \cup {<<p, v>>}]
    <3>1. run[r].source \in Sources
      BY <2>5, RunType DEF RecordPackage, At, Sited
    <3>2. state \in RunState /\ state.source \in Sources
      BY <3>1, RunType DEF RunState
    <3>3. index \in Index
      BY <3>1, SourceType DEF Source, Index, Releases
    <3>4. Writes(r, index, state)
      BY <2>5 DEF RecordPackage
    <3> HIDE DEF state, index
    <3>5. RunsOK'
      BY <3>2, <3>3, <3>4, WritesType
    <3> QED BY <2>5, <3>5 DEF RecordPackage, TypeOK
  <2>6. ASSUME NEW r \in Runs, NEW v \in Versions, RecordMeta(r, v)
        PROVE  TypeOK'
    <3> DEFINE state == [run[r] EXCEPT !.versions = @ \ {v}]
               source == working[run[r].source]
               index == [source.index EXCEPT !.metas = @ \cup {v}]
    <3>1. run[r].source \in Sources
      BY <2>6, RunType DEF RecordMeta, At, Sited
    <3>2. state \in RunState /\ state.source \in Sources
      BY <3>1, RunType DEF RunState
    <3>3. index \in Index
      BY <3>1, SourceType DEF Source, Index
    <3>4. Writes(r, index, state)
      BY <2>6 DEF RecordMeta
    <3> HIDE DEF state, index
    <3>5. RunsOK'
      BY <3>2, <3>3, <3>4, WritesType
    <3> QED BY <2>6, <3>5 DEF RecordMeta, TypeOK
  <2>7. ASSUME NEW r \in Runs, NEW v \in Versions, LeaveVersion(r, v)
        PROVE  TypeOK'
    <3>1. /\ [run[r] EXCEPT !.versions = @ \ {v}] \in RunState
          /\ Sited([run[r] EXCEPT !.versions = @ \ {v}])
      BY RunType DEF RunState, Sited
    <3>2. RunsOK'
      BY <2>7, <3>1, RunType DEF LeaveVersion
    <3> QED BY <2>7, <3>2 DEF LeaveVersion, TypeOK
  <2>8. ASSUME NEW r \in Runs, SourceDone(r) PROVE TypeOK'
    <3>1. /\ [run[r] EXCEPT !.pc = "source"] \in RunState
          /\ Sited([run[r] EXCEPT !.pc = "source"])
      BY RunType DEF RunState, Phases, Sited
    <3>2. RunsOK'
      BY <2>8, <3>1, RunType DEF SourceDone
    <3> QED BY <2>8, <3>2 DEF SourceDone, TypeOK
  <2>9. ASSUME NEW r \in Runs, SourcesDone(r) PROVE TypeOK'
    <3>1. /\ [run[r] EXCEPT !.pc = "verify", !.todo = run[r].wanted] \in RunState
          /\ Sited([run[r] EXCEPT !.pc = "verify", !.todo = run[r].wanted])
      BY RunType DEF RunState, Phases, Sited
    <3>2. RunsOK'
      BY <2>9, <3>1, RunType DEF SourcesDone
    <3> QED BY <2>9, <3>2 DEF SourcesDone, TypeOK
  <2>10. ASSUME NEW r \in Runs, WriteDocument(r) PROVE TypeOK'
    <3> DEFINE s == run[r].source
               d == run[r].document
               index == IF d = "index" THEN run[r].index ELSE working[s].index
               state == [working[s] EXCEPT !.index = index,
                                           !.unsigned = @ \cup {d},
                                           !.torn = @ \ {d}]
    <3>1. s \in Sources /\ d \in Documents
      BY <2>10, RunType DEF WriteDocument, At, Sited, RunState
    <3>2. index \in Index
      BY <3>1, RunType, SourceType DEF RunState, Source
    <3>3. SourceBecomes(s, state)
      BY <2>10 DEF WriteDocument
    <3> HIDE DEF index
    <3>4. state \in Source
      BY <3>1, <3>2, SourceType DEF Source
    <3>5. working' \in [Sources -> Source]
      BY <3>1, <3>3, <3>4, SourceType
    <3>6. /\ [run[r] EXCEPT !.pc = "sign"] \in RunState
          /\ Sited([run[r] EXCEPT !.pc = "sign"])
      BY <3>1, RunType DEF RunState, Phases, Sited
    <3>7. RunsOK'
      BY <2>10, <3>6, RunType DEF WriteDocument
    <3> QED BY <2>10, <3>5, <3>7 DEF WriteDocument, TypeOK
  <2>11. ASSUME NEW r \in Runs, SignDocument(r) PROVE TypeOK'
    <3> DEFINE s == run[r].source
               d == run[r].document
               next == IF ~run[r].refreshing THEN "version"
                       ELSE IF d = "index" THEN "write" ELSE "refresh"
               document == IF run[r].refreshing /\ d = "index"
                           THEN "mirrors" ELSE "index"
               signed == [working[s] EXCEPT !.unsigned = @ \ {d}]
               state == [run[r] EXCEPT !.pc = next, !.document = document]
    <3>1. s \in Sources
      BY <2>11, RunType DEF SignDocument, At, Sited
    <3>2. SourceBecomes(s, signed)
      BY <2>11 DEF SignDocument
    <3>3. signed \in Source
      BY <3>1, SourceType DEF Source
    <3>4. working' \in [Sources -> Source]
      BY <3>1, <3>2, <3>3, SourceType
    <3>5. next \in Phases /\ document \in Documents
      BY DEF Phases, Documents
    <3>6. Becomes(r, state)
      BY <2>11 DEF SignDocument
    <3> HIDE DEF next, document
    <3>7. state \in RunState /\ Sited(state)
      BY <3>1, <3>5, RunType DEF RunState, Sited
    <3>8. RunsOK'
      BY <3>6, <3>7, RunType
    <3> QED BY <2>11, <3>4, <3>8 DEF SignDocument, TypeOK
  <2>12. ASSUME NEW r \in Runs, TreeVerified(r) PROVE TypeOK'
    <3>1. /\ [run[r] EXCEPT !.pc = "snapshot"] \in RunState
          /\ Sited([run[r] EXCEPT !.pc = "snapshot"])
      BY RunType DEF RunState, Phases, Sited
    <3>2. RunsOK'
      BY <2>12, <3>1, RunType DEF TreeVerified
    <3> QED BY <2>12, <3>2 DEF TreeVerified, TypeOK
  <2>13. ASSUME NEW r \in Runs, PublishTree(r) PROVE TypeOK'
    <3>1. /\ [run[r] EXCEPT !.pc = "report"] \in RunState
          /\ Sited([run[r] EXCEPT !.pc = "report"])
      BY RunType DEF RunState, Phases, Sited
    <3>2. RunsOK'
      BY <2>13, <3>1, RunType DEF PublishTree
    <3> QED BY <2>13, <3>2 DEF PublishTree, TypeOK
  <2>14. ASSUME NEW r \in Runs, Finish(r) \/ Refuse(r) \/ Die(r) PROVE TypeOK'
    BY <2>14, LeavesType DEF Finish, Refuse, Die, TypeOK
  <2>15. ASSUME NEW r \in Runs, RefuseMirrors(r) PROVE TypeOK'
    <3> DEFINE s == run[r].source
               signed == [working[s] EXCEPT !.unsigned = @ \ {"index"}]
    <3>1. s \in Sources
      BY <2>15, RunType DEF RefuseMirrors, At, Sited
    <3>2. signed \in Source
      BY <3>1, SourceType DEF Source
    <3>3. working' \in [Sources -> Source]
      BY <2>15, <3>1, <3>2, SourceType DEF RefuseMirrors
    <3> QED BY <2>15, <3>3, LeavesType DEF RefuseMirrors, TypeOK
  <2>16. ASSUME NEW r \in Runs, Tear(r) PROVE TypeOK'
    <3> DEFINE s == run[r].source
               d == run[r].document
               index == IF d = "index" THEN NoIndex ELSE working[s].index
               state == [working[s] EXCEPT !.index = index,
                                           !.torn = @ \cup {d}]
    <3>1. s \in Sources /\ d \in Documents
      BY <2>16, RunType DEF Tear, At, Sited, RunState
    <3>2. index \in Index
      BY <3>1, SourceType DEF Source, NoIndex, Index
    <3>3. SourceBecomes(s, state)
      BY <2>16 DEF Tear
    <3> HIDE DEF index
    <3>4. state \in Source
      BY <3>1, <3>2, SourceType DEF Source
    <3>5. working' \in [Sources -> Source]
      BY <3>1, <3>3, <3>4, SourceType
    <3> QED BY <2>16, <3>5, LeavesType DEF Tear, TypeOK
  <2>17. ASSUME NEW uploaded \in Uploads, NEW v \in Versions,
                Upload(uploaded, v)
         PROVE  TypeOK'
    BY <2>17, PublishAssumption DEF Upload, TypeOK, RunsOK, Releases
  <2>18. ASSUME NEW s \in Sources, LayDown(s) PROVE TypeOK'
    <3>1. working' \in [Sources -> Source]
      BY <2>18, InitialTypes, SourceType DEF LayDown
    <3> QED BY <2>18, <3>1 DEF LayDown, TypeOK, RunsOK
  <2>19. CASE UNCHANGED vars
    BY <2>19 DEF vars, TypeOK, RunsOK
  <2> QED
    BY <2>1, <2>2, <2>3, <2>4, <2>5, <2>6, <2>7, <2>8, <2>9, <2>10, <2>11,
       <2>12, <2>13, <2>14, <2>15, <2>16, <2>17, <2>18, <2>19
    DEF Next, Step
<1> QED BY <1>1, <1>2, PTL DEF Spec

-----------------------------------------------------------------------------
(* What is served verifies *)

\* A run at work is the only one, so its step concerns no other run.
LEMMA OthersIdle ==
    ASSUME PublishInv, NEW r \in Runs, ~At(r, "idle") \/ lock = NoRun,
           NEW state, Becomes(r, state)
    PROVE  /\ run'[r] = state
           /\ \A q \in Runs \ {r} : run'[q] = run[q] /\ run'[q].pc = "idle"
BY PublishAssumption DEF PublishInv, Exclusive, At, Becomes, TypeOK, RunsOK

\* What is left to show of a step of run r.
LEMMA StepOfOne ==
    ASSUME PublishInv, TypeOK', NEW r \in Runs, ~At(r, "idle") \/ lock = NoRun,
           NEW state, Becomes(r, state),
           lock' = r \/ state.pc = "idle",
           ServedVerifies', Verified(r)'
    PROVE  PublishInv'
<1>1. Exclusive'
  BY OthersIdle DEF Exclusive, At
<1>2. \A q \in Runs \ {r} : Verified(q)'
  BY OthersIdle DEF Verified, At
<1> QED BY <1>1, <1>2 DEF PublishInv

\* A step that leads to a phase before the sources are verified.
LEMMA BeforeVerifying ==
    ASSUME PublishInv, TypeOK', NEW r \in Runs, ~At(r, "idle"),
           NEW state, Becomes(r, state), lock' = lock, served' = served,
           state.pc \notin {"idle", "verify", "snapshot"},
           state.wanted = run[r].wanted
    PROVE  PublishInv'
<1>1. run'[r] = state
  BY OthersIdle
<1>2. Verified(r)'
  BY <1>1 DEF PublishInv, Verified, At
<1>3. lock' = r
  BY DEF PublishInv, Exclusive
<1>4. ServedVerifies'
  BY DEF PublishInv, ServedVerifies
<1> QED BY <1>2, <1>3, <1>4, StepOfOne

LEMMA BeforeWriting ==
    ASSUME PublishInv, TypeOK', NEW r \in Runs, ~At(r, "idle"),
           NEW index, NEW state \in RunState, Writes(r, index, state),
           state.wanted = run[r].wanted, lock' = lock, served' = served
    PROVE  PublishInv'
<1> DEFINE next == [state EXCEPT !.pc = "write", !.document = "index",
                                 !.index = index]
<1>1. Becomes(r, next)
  BY DEF Writes
<1>2. next.pc = "write" /\ next.wanted = run[r].wanted
  BY DEF RunState
<1> HIDE DEF next
<1> QED BY <1>1, <1>2, BeforeVerifying

\* A run that leaves has nothing to answer for.
LEMMA Leaving ==
    ASSUME PublishInv, TypeOK', NEW r \in Runs, ~At(r, "idle"),
           Leaves(r), served' = served
    PROVE  PublishInv'
<1>1. Becomes(r, IdleRun)
  BY DEF Leaves
<1>2. run'[r] = IdleRun
  BY <1>1, OthersIdle
<1>3. Verified(r)'
  BY <1>2 DEF Verified, At, IdleRun
<1>4. ServedVerifies'
  BY DEF PublishInv, ServedVerifies
<1>5. IdleRun.pc = "idle"
  BY DEF IdleRun
<1> QED BY <1>1, <1>3, <1>4, <1>5, StepOfOne

\* A source that somebody lays down disturbs no run that verifies.
LEMMA LayingDown ==
    ASSUME PublishInv, TypeOK', NEW s \in Sources, LayDown(s)
    PROVE  PublishInv'
<1>1. Verifies([NoSource EXCEPT !.laid = TRUE])
  BY DEF Verifies, NoSource
<1>2. \A q \in Sources : Verifies(working[q]) => Verifies(working'[q])
  BY <1>1 DEF LayDown, SourceBecomes, PublishInv, TypeOK
<1>3. \A r \in Runs : Verified(r)'
  BY <1>2 DEF LayDown, PublishInv, Verified, At
<1> QED BY <1>3 DEF LayDown, PublishInv, Exclusive, ServedVerifies, At

LEMMA PublishStep ==
    ASSUME Selections \subseteq {Sources}, PublishInv, TypeOK', [Next]_vars
    PROVE  PublishInv'
<1>1. ASSUME NEW r \in Runs, NEW wanted \in Selections,
             NEW refreshing \in BOOLEAN, Start(r, wanted, refreshing)
      PROVE  PublishInv'
  <2> DEFINE next == IF refreshing THEN "refresh" ELSE "source"
             listing == IF refreshing THEN {} ELSE offered
             state == [IdleRun EXCEPT !.pc = next, !.refreshing = refreshing,
                                      !.wanted = wanted, !.todo = wanted,
                                      !.listing = listing]
  <2>1. state.pc \notin {"idle", "verify", "snapshot"} /\ state.wanted = Sources
    BY DEF IdleRun
  <2>2. Becomes(r, state)
    BY <1>1 DEF Start
  <2> HIDE DEF state
  <2>3. run'[r] = state
    BY <1>1, <2>2, OthersIdle DEF Start, TakeLock
  <2>4. Verified(r)'
    BY <2>1, <2>3 DEF Verified, At
  <2>5. ServedVerifies'
    BY <1>1 DEF Start, PublishInv, ServedVerifies
  <2> QED BY <1>1, <2>2, <2>4, <2>5, StepOfOne DEF Start, TakeLock
<1>2. ASSUME NEW r \in Runs, NEW s \in Sources, PlanSource(r, s)
      PROVE  PublishInv'
  <2>1. run[r] \in RunState
    BY RunType DEF PublishInv
  <2> DEFINE listed == {e \in run[r].listing : Home[e[1]] = s}
             pending == listed \ working[s].index.packages
             versions == VersionsOf(s, listed, pending)
             state == [run[r] EXCEPT !.pc = "version", !.todo = @ \ {s},
                                     !.source = s, !.pending = pending,
                                     !.versions = versions]
  <2>2. Becomes(r, state)
    BY <1>2 DEF PlanSource
  <2> HIDE DEF listed, pending, versions
  <2>3. state.pc = "version" /\ state.wanted = run[r].wanted
    BY <2>1 DEF RunState
  <2> HIDE DEF state
  <2> QED BY <1>2, <2>2, <2>3, BeforeVerifying DEF PlanSource, At
<1>3. ASSUME NEW r \in Runs, NEW s \in Sources, SkipSource(r, s)
      PROVE  PublishInv'
  <2>1. run[r] \in RunState
    BY RunType DEF PublishInv
  <2>2. PICK state : /\ Becomes(r, state)
                     /\ state.pc = run[r].pc
                     /\ state.wanted = run[r].wanted
    BY <1>3, <2>1 DEF SkipSource, RunState
  <2> QED BY <1>3, <2>2, BeforeVerifying DEF SkipSource, At
<1>4. ASSUME NEW r \in Runs, NEW s \in Sources, RefreshSource(r, s)
      PROVE  PublishInv'
  <2>1. run[r] \in RunState
    BY RunType DEF PublishInv
  <2> DEFINE index == working[s].index
             state == [run[r] EXCEPT !.todo = @ \ {s}, !.source = s]
  <2>2. Writes(r, index, state)
    BY <1>4 DEF RefreshSource
  <2>3. state \in RunState /\ state.wanted = run[r].wanted
    BY <2>1 DEF RunState
  <2> HIDE DEF index, state
  <2> QED BY <1>4, <2>2, <2>3, BeforeWriting DEF RefreshSource, At
<1>5. ASSUME NEW r \in Runs, NEW s \in Sources, VerifySource(r, s)
      PROVE  PublishInv'
  <2> DEFINE state == [run[r] EXCEPT !.todo = @ \ {s}]
  <2>1. run[r] \in RunState
    BY RunType DEF PublishInv
  <2>2. Becomes(r, state)
    BY <1>5 DEF VerifySource
  <2>3. /\ state.pc = "verify"
        /\ state.todo = run[r].todo \ {s}
        /\ state.wanted = run[r].wanted
    BY <1>5, <2>1 DEF VerifySource, At, RunState
  <2> HIDE DEF state
  <2>4. run'[r] = state
    BY <1>5, <2>2, OthersIdle DEF VerifySource, At
  <2>5. Verified(r)'
    BY <1>5, <2>3, <2>4 DEF VerifySource, PublishInv, Verified, At
  <2>6. lock' = r /\ ServedVerifies'
    BY <1>5 DEF VerifySource, PublishInv, Exclusive, ServedVerifies, At
  <2> QED BY <1>5, <2>2, <2>5, <2>6, StepOfOne DEF VerifySource, At
<1>6. ASSUME NEW r \in Runs, NEW p \in Packages, NEW v \in Versions,
             RecordPackage(r, p, v)
      PROVE  PublishInv'
  <2>1. run[r] \in RunState
    BY RunType DEF PublishInv
  <2> DEFINE index == [working[run[r].source].index EXCEPT !.packages = @ \cup {<<p, v>>}]
             state == [run[r] EXCEPT !.pending = @ \ {<<p, v>>}]
  <2>2. Writes(r, index, state)
    BY <1>6 DEF RecordPackage
  <2>3. state \in RunState /\ state.wanted = run[r].wanted
    BY <2>1 DEF RunState
  <2> HIDE DEF index, state
  <2> QED BY <1>6, <2>2, <2>3, BeforeWriting DEF RecordPackage, At
<1>7. ASSUME NEW r \in Runs, NEW v \in Versions, RecordMeta(r, v)
      PROVE  PublishInv'
  <2>1. run[r] \in RunState
    BY RunType DEF PublishInv
  <2> DEFINE index == [working[run[r].source].index EXCEPT !.metas = @ \cup {v}]
             state == [run[r] EXCEPT !.versions = @ \ {v}]
  <2>2. Writes(r, index, state)
    BY <1>7 DEF RecordMeta
  <2>3. state \in RunState /\ state.wanted = run[r].wanted
    BY <2>1 DEF RunState
  <2> HIDE DEF index, state
  <2> QED BY <1>7, <2>2, <2>3, BeforeWriting DEF RecordMeta, At
<1>8. ASSUME NEW r \in Runs, NEW v \in Versions, LeaveVersion(r, v)
      PROVE  PublishInv'
  <2>1. run[r] \in RunState
    BY RunType DEF PublishInv
  <2>2. PICK state : /\ Becomes(r, state)
                     /\ state.pc = run[r].pc
                     /\ state.wanted = run[r].wanted
    BY <1>8, <2>1 DEF LeaveVersion, RunState
  <2> QED BY <1>8, <2>2, BeforeVerifying DEF LeaveVersion, At
<1>9. ASSUME NEW r \in Runs, SourceDone(r) PROVE PublishInv'
  <2>1. run[r] \in RunState
    BY RunType DEF PublishInv
  <2>2. PICK state : /\ Becomes(r, state)
                     /\ state.pc = "source"
                     /\ state.wanted = run[r].wanted
    BY <1>9, <2>1 DEF SourceDone, RunState
  <2> QED BY <1>9, <2>2, BeforeVerifying DEF SourceDone, At
<1>10. ASSUME NEW r \in Runs, SourcesDone(r) PROVE PublishInv'
  <2> DEFINE state == [run[r] EXCEPT !.pc = "verify", !.todo = run[r].wanted]
  <2>1. run[r] \in RunState
    BY RunType DEF PublishInv
  <2>2. Becomes(r, state)
    BY <1>10 DEF SourcesDone
  <2>3. run[r].wanted = Sources
    BY <1>10 DEF SourcesDone, PublishInv, Verified, At
  <2>4. /\ state.pc = "verify"
        /\ state.todo = Sources
        /\ state.wanted = Sources
    BY <2>1, <2>3 DEF RunState
  <2> HIDE DEF state
  <2>5. run'[r] = state
    BY <1>10, <2>2, OthersIdle DEF SourcesDone, At
  <2>6. Verified(r)'
    BY <2>4, <2>5 DEF Verified, At
  <2>7. lock' = r /\ ServedVerifies'
    BY <1>10 DEF SourcesDone, PublishInv, Exclusive, ServedVerifies, At
  <2> QED BY <1>10, <2>2, <2>6, <2>7, StepOfOne DEF SourcesDone, At
<1>11. ASSUME NEW r \in Runs, WriteDocument(r) PROVE PublishInv'
  <2>1. run[r] \in RunState
    BY RunType DEF PublishInv
  <2>2. PICK state : /\ Becomes(r, state)
                     /\ state.pc = "sign"
                     /\ state.wanted = run[r].wanted
    BY <1>11, <2>1 DEF WriteDocument, RunState
  <2> QED BY <1>11, <2>2, BeforeVerifying DEF WriteDocument, At
<1>12. ASSUME NEW r \in Runs, SignDocument(r) PROVE PublishInv'
  <2>1. run[r] \in RunState
    BY RunType DEF PublishInv
  <2> DEFINE d == run[r].document
             next == IF ~run[r].refreshing THEN "version"
                     ELSE IF d = "index" THEN "write" ELSE "refresh"
             document == IF run[r].refreshing /\ d = "index"
                         THEN "mirrors" ELSE "index"
             state == [run[r] EXCEPT !.pc = next, !.document = document]
  <2>2. Becomes(r, state)
    BY <1>12 DEF SignDocument
  <2>3. next \in {"version", "write", "refresh"}
    OBVIOUS
  <2> HIDE DEF next, document
  <2>4. state.pc = next /\ state.wanted = run[r].wanted
    BY <2>1 DEF RunState
  <2> HIDE DEF state
  <2> QED BY <1>12, <2>2, <2>3, <2>4, BeforeVerifying DEF SignDocument, At
<1>13. ASSUME NEW r \in Runs, TreeVerified(r) PROVE PublishInv'
  <2> DEFINE state == [run[r] EXCEPT !.pc = "snapshot"]
  <2>1. run[r] \in RunState
    BY RunType DEF PublishInv
  <2>2. Becomes(r, state)
    BY <1>13 DEF TreeVerified
  <2>3. state.pc = "snapshot" /\ state.wanted = run[r].wanted
    BY <2>1 DEF RunState
  <2> HIDE DEF state
  <2>4. run'[r] = state
    BY <1>13, <2>2, OthersIdle DEF TreeVerified, At
  <2>5. Verified(r)'
    BY <1>13, <2>3, <2>4 DEF TreeVerified, PublishInv, Verified, At
  <2>6. lock' = r /\ ServedVerifies'
    BY <1>13 DEF TreeVerified, PublishInv, Exclusive, ServedVerifies, At
  <2> QED BY <1>13, <2>2, <2>5, <2>6, StepOfOne DEF TreeVerified, At
<1>14. ASSUME NEW r \in Runs, PublishTree(r) PROVE PublishInv'
  <2> DEFINE state == [run[r] EXCEPT !.pc = "report"]
  <2>1. run[r] \in RunState
    BY RunType DEF PublishInv
  <2>2. Becomes(r, state)
    BY <1>14 DEF PublishTree
  <2>3. state.pc = "report" /\ state.wanted = run[r].wanted
    BY <2>1 DEF RunState
  <2> HIDE DEF state
  <2>4. run'[r] = state
    BY <1>14, <2>2, OthersIdle DEF PublishTree, At
  <2>5. Verified(r)'
    BY <1>14, <2>3, <2>4 DEF PublishTree, PublishInv, Verified, At
  <2>6. ServedVerifies'
    BY <1>14 DEF PublishTree, PublishInv, Verified, At, ServedVerifies
  <2>7. lock' = r
    BY <1>14 DEF PublishTree, PublishInv, Exclusive, At
  <2> QED BY <1>14, <2>2, <2>5, <2>6, <2>7, StepOfOne DEF PublishTree, At
<1>15. ASSUME NEW r \in Runs,
              Finish(r) \/ Refuse(r) \/ RefuseMirrors(r) \/ Die(r) \/ Tear(r)
       PROVE  PublishInv'
  BY <1>15, Leaving DEF Finish, Refuse, RefuseMirrors, Die, Tear, At
<1>16. ASSUME NEW uploaded \in Uploads, NEW v \in Versions,
              Upload(uploaded, v)
       PROVE  PublishInv'
  BY <1>16 DEF Upload, PublishInv, Exclusive, ServedVerifies, Verified, At
<1>17. ASSUME NEW s \in Sources, LayDown(s) PROVE PublishInv'
  BY <1>17, LayingDown
<1>18. CASE UNCHANGED vars
  BY <1>18 DEF vars, PublishInv, Exclusive, ServedVerifies, Verified, At
<1> QED
  BY <1>1, <1>2, <1>3, <1>4, <1>5, <1>6, <1>7, <1>8, <1>9, <1>10, <1>11,
     <1>12, <1>13, <1>14, <1>15, <1>16, <1>17, <1>18
  DEF Next, Step

\* What a run has verified is still what it snapshots and flips, and what is
\* served verifies, as long as --source is not used: whatever the registry
\* carries, however runs interleave and die.
THEOREM PublishInvariant ==
    ASSUME Selections \subseteq {Sources}
    PROVE  Spec => []PublishInv
<1>1. ASSUME Init, TypeOK PROVE PublishInv
  <2>1. \A r \in Runs : run[r].pc = "idle"
    BY <1>1 DEF Init, IdleRun
  <2>2. ServedVerifies
    BY <1>1 DEF Init, ServedVerifies, Verifies, NoSource
  <2> QED BY <1>1, <2>1, <2>2 DEF PublishInv, Exclusive, Verified, At
<1>2. TypeOK' /\ PublishInv /\ [Next]_vars => PublishInv'
  BY PublishStep
<1> QED BY <1>1, <1>2, TypeCorrect, PTL DEF Spec

\* Nothing is served that a client would refuse.
THEOREM ServedSourcesVerify ==
    ASSUME Selections \subseteq {Sources}
    PROVE  Spec => []ServedVerifies
<1>1. PublishInv => ServedVerifies
  BY DEF PublishInv
<1> QED BY <1>1, PublishInvariant, PTL

-----------------------------------------------------------------------------
(* What is served stays *)

LEMMA IncludesItself == \A index : Includes(index, index)
BY DEF Includes

\* A step of the run at work that leaves the sources alone, or that rewrites
\* one of them, or that publishes: what is left to show of it.
LEMMA RecordingOne ==
    ASSUME PublishInv, NEW r \in Runs, ~At(r, "idle") \/ lock = NoRun,
           NEW state, Becomes(r, state), Recording(r)'
    PROVE  \A q \in Runs : Recording(q)'
<1>1. ASSUME NEW q \in Runs \ {r} PROVE Recording(q)'
  BY <1>1, OthersIdle DEF Recording, At
<1> QED BY <1>1

LEMMA SourcesUntouched ==
    ASSUME KeptInv, working' = working, served' = served
    PROVE  \A s \in Sources : SourceKept(s)'
BY DEF KeptInv, SourceKept

LEMMA OneSourceKept ==
    ASSUME KeptInv, NEW s \in Sources, NEW state \in Source,
           SourceBecomes(s, state), served' = served, state.laid,
           IF "index" \in state.torn
           THEN state.index = NoIndex
           ELSE Includes(state.index, served[s].index)
    PROVE  \A x \in Sources : SourceKept(x)'
<1>1. \A x \in Sources : working'[x] = IF x = s THEN state ELSE working[x]
  BY DEF KeptInv, PublishInv, TypeOK, SourceBecomes
<1>2. ASSUME NEW x \in Sources PROVE SourceKept(x)'
  BY <1>1 DEF KeptInv, SourceKept
<1> QED BY <1>2

LEMMA UntouchedStep ==
    ASSUME KeptInv, PublishInv', NEW r \in Runs,
           ~At(r, "idle") \/ lock = NoRun, NEW state, Becomes(r, state),
           working' = working, served' = served, Recording(r)'
    PROVE  KeptInv'
<1>1. PublishInv
  BY DEF KeptInv
<1> QED BY <1>1, RecordingOne, SourcesUntouched DEF KeptInv

\* What is about to be written includes what is served.
LEMMA WritingKeeps ==
    ASSUME KeptInv, PublishInv', NEW r \in Runs, ~At(r, "idle"),
           NEW index, NEW state \in RunState, Writes(r, index, state),
           working' = working, served' = served, working[state.source].laid,
           ~state.refreshing /\ state.source \in Families =>
               \A v \in state.versions : MembersAt(state.source, v) # {},
           Includes(index, served[state.source].index)
    PROVE  KeptInv'
<1> DEFINE next == [state EXCEPT !.pc = "write", !.document = "index",
                                 !.index = index]
<1>1. Becomes(r, next)
  BY DEF Writes
<1>2. /\ next.pc = "write"
      /\ next.refreshing = state.refreshing
      /\ next.source = state.source
      /\ next.versions = state.versions
      /\ next.index = index
  BY DEF RunState
<1> HIDE DEF next
<1>3. run'[r] = next
  BY <1>1, OthersIdle DEF KeptInv
<1>4. Recording(r)'
  BY <1>2, <1>3 DEF Recording, At, MembersAt
<1> QED BY <1>1, <1>4, UntouchedStep

\* A run that leaves records nothing.
LEMMA LeavingRecords ==
    ASSUME PublishInv, NEW r \in Runs, ~At(r, "idle"), Leaves(r)
    PROVE  \A q \in Runs : Recording(q)'
<1>1. Becomes(r, IdleRun)
  BY DEF Leaves
<1>2. run'[r] = IdleRun
  BY <1>1, OthersIdle
<1>3. Recording(r)'
  BY <1>2 DEF Recording, At, IdleRun
<1> QED BY <1>1, <1>3, RecordingOne

LEMMA KeptStep ==
    ASSUME KeptInv, PublishInv', [Next]_vars
    PROVE  KeptInv'
<1> USE DEF KeptInv
<1>0. PublishInv /\ TypeOK /\ TypeOK'
  BY DEF PublishInv
<1>1. ASSUME NEW r \in Runs, NEW wanted \in Selections,
             NEW refreshing \in BOOLEAN, Start(r, wanted, refreshing)
      PROVE  KeptInv'
  <2> DEFINE next == IF refreshing THEN "refresh" ELSE "source"
             listing == IF refreshing THEN {} ELSE offered
             state == [IdleRun EXCEPT !.pc = next, !.refreshing = refreshing,
                                      !.wanted = wanted, !.todo = wanted,
                                      !.listing = listing]
  <2>1. /\ state.pc = IF refreshing THEN "refresh" ELSE "source"
        /\ state.refreshing = refreshing
    BY DEF IdleRun
  <2>2. Becomes(r, state)
    BY <1>1 DEF Start
  <2> HIDE DEF state
  <2>3. run'[r] = state
    BY <1>0, <1>1, <2>2, OthersIdle DEF Start, TakeLock
  <2>4. Recording(r)'
    BY <2>1, <2>3 DEF Recording, At
  <2> QED BY <1>1, <2>2, <2>4, UntouchedStep DEF Start, TakeLock
<1>2. ASSUME NEW r \in Runs, NEW s \in Sources, PlanSource(r, s)
      PROVE  KeptInv'
  <2>1. run[r] \in RunState
    BY <1>0, RunType
  <2> DEFINE listed == {e \in run[r].listing : Home[e[1]] = s}
             pending == listed \ working[s].index.packages
             versions == VersionsOf(s, listed, pending)
             state == [run[r] EXCEPT !.pc = "version", !.todo = @ \ {s},
                                     !.source = s, !.pending = pending,
                                     !.versions = versions]
  <2>2. Becomes(r, state)
    BY <1>2 DEF PlanSource
  <2>3. \A v \in versions : MembersAt(s, v) # {}
    <3>1. ASSUME NEW v \in versions PROVE MembersAt(s, v) # {}
      <4>1. PICK e \in listed : e[2] = v
        BY <3>1 DEF VersionsOf
      <4>2. e \in Packages \X Versions /\ Home[e[1]] = s
        BY <2>1, <4>1 DEF RunState, Releases
      <4>3. <<e[1], v>> \in MembersAt(s, v)
        BY <4>1, <4>2 DEF MembersAt
      <4> QED BY <4>3
    <3> QED BY <3>1
  <2> HIDE DEF listed, pending, versions
  <2>4. /\ state.pc = "version"
        /\ state.source = s
        /\ state.versions = versions
        /\ state.refreshing = run[r].refreshing
    BY <2>1 DEF RunState
  <2> HIDE DEF state
  <2>5. run'[r] = state
    BY <1>0, <1>2, <2>2, OthersIdle DEF PlanSource, At
  <2>6. ~run[r].refreshing
    BY <1>2 DEF PlanSource, Recording, At
  <2>7. Recording(r)'
    BY <1>2, <2>3, <2>4, <2>5, <2>6 DEF PlanSource, Recording, At, MembersAt
  <2> QED BY <1>2, <2>2, <2>7, UntouchedStep DEF PlanSource, At
<1>3. ASSUME NEW r \in Runs, NEW s \in Sources,
             SkipSource(r, s) \/ VerifySource(r, s)
      PROVE  KeptInv'
  <2>1. run[r] \in RunState
    BY <1>0, RunType
  <2> DEFINE state == [run[r] EXCEPT !.todo = @ \ {s}]
  <2>2. /\ state.pc = run[r].pc
        /\ state.refreshing = run[r].refreshing
    BY <2>1 DEF RunState
  <2>3. Becomes(r, state)
    BY <1>3 DEF SkipSource, VerifySource
  <2> HIDE DEF state
  <2>4. run'[r] = state
    BY <1>0, <1>3, <2>3, OthersIdle DEF SkipSource, VerifySource, At
  <2>5. run[r].pc \in {"source", "refresh", "verify"}
    BY <1>3 DEF SkipSource, VerifySource, At
  <2>6. Recording(r)'
    BY <2>2, <2>4, <2>5 DEF Recording, At
  <2>7. working' = working /\ served' = served
    BY <1>3 DEF SkipSource, VerifySource
  <2> QED BY <2>3, <2>5, <2>6, <2>7, UntouchedStep DEF At
<1>4. ASSUME NEW r \in Runs, NEW s \in Sources, RefreshSource(r, s)
      PROVE  KeptInv'
  <2>1. run[r] \in RunState
    BY <1>0, RunType
  <2> DEFINE state == [run[r] EXCEPT !.todo = @ \ {s}, !.source = s]
  <2>2. /\ state \in RunState
        /\ state.source = s
        /\ state.refreshing = run[r].refreshing
    BY <2>1 DEF RunState
  <2>3. Writes(r, working[s].index, state)
    BY <1>4 DEF RefreshSource
  <2> HIDE DEF state
  <2>4. run[r].refreshing
    BY <1>4 DEF RefreshSource, Recording, At
  <2>5. Includes(working[s].index, served[s].index)
    BY <1>4 DEF RefreshSource, SourceKept
  <2> QED
    BY <1>4, <2>2, <2>3, <2>4, <2>5, WritingKeeps DEF RefreshSource, At
<1>5. ASSUME NEW r \in Runs, NEW p \in Packages, NEW v \in Versions,
             RecordPackage(r, p, v)
      PROVE  KeptInv'
  <2>1. run[r] \in RunState /\ run[r].source \in Sources
    BY <1>0, <1>5, RunType DEF RecordPackage, Sited, At
  <2> DEFINE s == run[r].source
             index == [working[s].index EXCEPT !.packages = @ \cup {<<p, v>>}]
             state == [run[r] EXCEPT !.pending = @ \ {<<p, v>>}]
  <2>2. /\ state \in RunState
        /\ state.source = s
        /\ state.refreshing = run[r].refreshing
        /\ state.versions = run[r].versions
    BY <2>1 DEF RunState
  <2>3. Writes(r, index, state)
    BY <1>5 DEF RecordPackage
  <2>4. working[s].index \in Index
    BY <1>0, <2>1, SourceType DEF Source
  <2>5. Includes(index, working[s].index)
    BY <2>4 DEF Includes, Index
  <2>6. Includes(working[s].index, served[s].index)
    BY <1>5, <2>1 DEF RecordPackage, SourceKept
  <2>7. Includes(index, served[s].index)
    BY <2>5, <2>6 DEF Includes
  <2>8. /\ working[s].laid
        /\ ~run[r].refreshing
        /\ s \in Families => \A u \in run[r].versions : MembersAt(s, u) # {}
    BY <1>5 DEF RecordPackage, Recording, At
  <2> HIDE DEF state, index
  <2> QED
    BY <1>5, <2>2, <2>3, <2>7, <2>8, WritingKeeps DEF RecordPackage, At
<1>6. ASSUME NEW r \in Runs, NEW v \in Versions, RecordMeta(r, v)
      PROVE  KeptInv'
  <2>1. run[r] \in RunState /\ run[r].source \in Sources
    BY <1>0, <1>6, RunType DEF RecordMeta, Sited, At
  <2> DEFINE s == run[r].source
             index == [working[s].index EXCEPT !.metas = @ \cup {v}]
             state == [run[r] EXCEPT !.versions = @ \ {v}]
  <2>2. /\ state \in RunState
        /\ state.source = s
        /\ state.refreshing = run[r].refreshing
        /\ state.versions = run[r].versions \ {v}
    BY <2>1 DEF RunState
  <2>3. Writes(r, index, state)
    BY <1>6 DEF RecordMeta
  <2>4. working[s].index \in Index
    BY <1>0, <2>1, SourceType DEF Source
  <2>5. Includes(index, working[s].index)
    BY <2>4 DEF Includes, Index
  <2>6. /\ working[s].laid
        /\ ~run[r].refreshing
        /\ s \in Families => \A u \in run[r].versions : MembersAt(s, u) # {}
    BY <1>6 DEF RecordMeta, Recording, At
  <2>7. MembersAt(s, v) # {} /\ MembersAt(s, v) \subseteq working[s].index.packages
    BY <1>6, <2>6 DEF RecordMeta, MetaDue, Oldest
  <2>8. working[s].index # NoIndex
    BY <2>7 DEF NoIndex
  <2>9. Includes(working[s].index, served[s].index)
    BY <2>1, <2>8 DEF SourceKept
  <2>10. Includes(index, served[s].index)
    BY <2>5, <2>9 DEF Includes
  <2> HIDE DEF state, index
  <2> QED
    BY <1>6, <2>2, <2>3, <2>6, <2>10, WritingKeeps DEF RecordMeta, At
<1>7. ASSUME NEW r \in Runs, NEW v \in Versions, LeaveVersion(r, v)
      PROVE  KeptInv'
  <2>1. run[r] \in RunState
    BY <1>0, RunType
  <2> DEFINE state == [run[r] EXCEPT !.versions = @ \ {v}]
  <2>2. /\ state.pc = run[r].pc
        /\ state.source = run[r].source
        /\ state.refreshing = run[r].refreshing
        /\ state.versions = run[r].versions \ {v}
    BY <2>1 DEF RunState
  <2>3. Becomes(r, state)
    BY <1>7 DEF LeaveVersion
  <2> HIDE DEF state
  <2>4. run'[r] = state
    BY <1>0, <1>7, <2>3, OthersIdle DEF LeaveVersion, At
  <2>5. Recording(r)'
    BY <1>7, <2>2, <2>4 DEF LeaveVersion, Recording, At, MembersAt
  <2> QED BY <1>7, <2>3, <2>5, UntouchedStep DEF LeaveVersion, At
<1>8. ASSUME NEW r \in Runs,
             SourceDone(r) \/ SourcesDone(r) \/ TreeVerified(r)
      PROVE  KeptInv'
  <2>1. run[r] \in RunState
    BY <1>0, RunType
  <2>2. ~At(r, "idle") /\ working' = working /\ served' = served
    BY <1>8 DEF SourceDone, SourcesDone, TreeVerified, At
  <2>3. \E state : /\ Becomes(r, state)
                   /\ state.pc \in {"source", "verify", "snapshot"}
                   /\ state.pc = "source" => ~state.refreshing
    <3>1. CASE SourceDone(r)
      <4> DEFINE state == [run[r] EXCEPT !.pc = "source"]
      <4>1. state.pc = "source" /\ state.refreshing = run[r].refreshing
        BY <2>1 DEF RunState
      <4> HIDE DEF state
      <4> QED BY <3>1, <4>1 DEF SourceDone, Recording, At, state
    <3>2. CASE SourcesDone(r)
      <4> DEFINE state == [run[r] EXCEPT !.pc = "verify", !.todo = run[r].wanted]
      <4>1. state.pc = "verify"
        BY <2>1 DEF RunState
      <4>2. Becomes(r, state)
        BY <3>2 DEF SourcesDone
      <4> HIDE DEF state
      <4> QED BY <4>1, <4>2
    <3>3. CASE TreeVerified(r)
      <4> DEFINE state == [run[r] EXCEPT !.pc = "snapshot"]
      <4>1. state.pc = "snapshot"
        BY <2>1 DEF RunState
      <4>2. Becomes(r, state)
        BY <3>3 DEF TreeVerified
      <4> HIDE DEF state
      <4> QED BY <4>1, <4>2
    <3> QED BY <1>8, <3>1, <3>2, <3>3
  <2>4. PICK state : /\ Becomes(r, state)
                     /\ state.pc \in {"source", "verify", "snapshot"}
                     /\ state.pc = "source" => ~state.refreshing
    BY <2>3
  <2>5. run'[r] = state
    BY <1>0, <2>2, <2>4, OthersIdle
  <2>6. Recording(r)'
    BY <2>4, <2>5 DEF Recording, At
  <2> QED BY <2>2, <2>4, <2>6, UntouchedStep
<1>9. ASSUME NEW r \in Runs, WriteDocument(r) PROVE KeptInv'
  <2> DEFINE s == run[r].source
             d == run[r].document
             index == IF d = "index" THEN run[r].index ELSE working[s].index
             written == [working[s] EXCEPT !.index = index,
                                           !.unsigned = @ \cup {d},
                                           !.torn = @ \ {d}]
             state == [run[r] EXCEPT !.pc = "sign"]
  <2>1. run[r] \in RunState /\ s \in Sources /\ d \in Documents
    BY <1>0, <1>9, RunType DEF WriteDocument, At, Sited, RunState
  <2>2. working[s] \in Source
    BY <1>0, <2>1, SourceType
  <2>3. index \in Index
    BY <2>1, <2>2 DEF RunState, Source
  <2>4. /\ Becomes(r, state)
        /\ SourceBecomes(s, written)
        /\ served' = served
        /\ ~At(r, "idle")
    BY <1>9 DEF WriteDocument, At
  <2>5. /\ state.pc = "sign"
        /\ state.source = s
        /\ state.refreshing = run[r].refreshing
        /\ state.versions = run[r].versions
    BY <2>1 DEF RunState
  <2>6. /\ working[s].laid
        /\ ~run[r].refreshing /\ s \in Families =>
               \A v \in run[r].versions : MembersAt(s, v) # {}
        /\ d = "index" => Includes(index, served[s].index)
    BY <1>9 DEF WriteDocument, Recording, At
  <2>7. d # "index" => index = working[s].index
    OBVIOUS
  <2>8. IF "index" \in working[s].torn
        THEN working[s].index = NoIndex
        ELSE Includes(working[s].index, served[s].index)
    BY <2>1 DEF SourceKept
  <2> HIDE DEF index
  <2>9. /\ written \in Source
        /\ written.laid = working[s].laid
        /\ written.index = index
        /\ written.torn = working[s].torn \ {d}
    BY <2>1, <2>2, <2>3 DEF Source
  <2> HIDE DEF written, state
  <2>10. IF "index" \in written.torn
         THEN written.index = NoIndex
         ELSE Includes(written.index, served[s].index)
    BY <2>6, <2>7, <2>8, <2>9
  <2>11. \A x \in Sources : SourceKept(x)'
    BY <2>1, <2>4, <2>6, <2>9, <2>10, OneSourceKept
  <2>12. run'[r] = state /\ working'[s] = written
    <3>1. run'[r] = state
      BY <1>0, <2>4, OthersIdle
    <3>2. working'[s] = written
      BY <1>0, <2>1, <2>4 DEF TypeOK, SourceBecomes
    <3> QED BY <3>1, <3>2
  <2>13. Recording(r)'
    <3>1. /\ run'[r].pc = "sign"
          /\ run'[r].source = s
          /\ run'[r].refreshing = run[r].refreshing
          /\ run'[r].versions = run[r].versions
          /\ working'[s].laid
      BY <2>5, <2>6, <2>9, <2>12
    <3>2. ~run[r].refreshing /\ s \in Families =>
             \A v \in run[r].versions : MembersAt(s, v) # {}
      BY <2>6
    <3> HIDE DEF s
    <3> QED BY <3>1, <3>2 DEF Recording, At, MembersAt
  <2>14. \A q \in Runs : Recording(q)'
    BY <1>0, <2>4, <2>13, RecordingOne
  <2> QED BY <2>11, <2>14
<1>10. ASSUME NEW r \in Runs, SignDocument(r) PROVE KeptInv'
  <2> DEFINE s == run[r].source
             d == run[r].document
             next == IF ~run[r].refreshing THEN "version"
                     ELSE IF d = "index" THEN "write" ELSE "refresh"
             document == IF run[r].refreshing /\ d = "index"
                         THEN "mirrors" ELSE "index"
             signed == [working[s] EXCEPT !.unsigned = @ \ {d}]
             state == [run[r] EXCEPT !.pc = next, !.document = document]
  <2>1. run[r] \in RunState /\ s \in Sources /\ run[r].refreshing \in BOOLEAN
    BY <1>0, <1>10, RunType DEF SignDocument, At, Sited, RunState
  <2>2. working[s] \in Source
    BY <1>0, <2>1, SourceType
  <2>3. /\ Becomes(r, state)
        /\ SourceBecomes(s, signed)
        /\ served' = served
        /\ ~At(r, "idle")
    BY <1>10 DEF SignDocument, At
  <2>4. /\ next = "version" => ~run[r].refreshing
        /\ next \in {"version", "write", "refresh"}
        /\ next \in {"write", "refresh"} => run[r].refreshing
        /\ next = "write" => document = "mirrors"
    BY <2>1
  <2> HIDE DEF next, document
  <2>5. /\ state.pc = next
        /\ state.document = document
        /\ state.source = s
        /\ state.refreshing = run[r].refreshing
        /\ state.versions = run[r].versions
    BY <2>1 DEF RunState
  <2>6. /\ working[s].laid
        /\ ~run[r].refreshing /\ s \in Families =>
               \A v \in run[r].versions : MembersAt(s, v) # {}
    BY <1>10 DEF SignDocument, Recording, At
  <2>7. /\ signed \in Source
        /\ signed.laid = working[s].laid
        /\ signed.index = working[s].index
        /\ signed.torn = working[s].torn
    BY <2>2 DEF Source
  <2> HIDE DEF signed, state
  <2>8. IF "index" \in signed.torn
        THEN signed.index = NoIndex
        ELSE Includes(signed.index, served[s].index)
    BY <2>1, <2>7 DEF SourceKept
  <2>9. \A x \in Sources : SourceKept(x)'
    BY <2>1, <2>3, <2>6, <2>7, <2>8, OneSourceKept
  <2>10. run'[r] = state /\ working'[s] = signed
    <3>1. run'[r] = state
      BY <1>0, <2>3, OthersIdle
    <3>2. working'[s] = signed
      BY <1>0, <2>1, <2>3 DEF TypeOK, SourceBecomes
    <3> QED BY <3>1, <3>2
  <2>11. Recording(r)'
    <3>1. /\ run'[r].pc = next
          /\ run'[r].document = document
          /\ run'[r].source = s
          /\ run'[r].refreshing = run[r].refreshing
          /\ run'[r].versions = run[r].versions
      BY <2>5, <2>10
    <3>2. working'[s].laid /\ working'[s].index = working[s].index
      BY <2>6, <2>7, <2>10
    <3>3. ~run[r].refreshing /\ s \in Families =>
             \A v \in run[r].versions : MembersAt(s, v) # {}
      BY <2>6
    <3> HIDE DEF s
    <3>4. /\ run'[r].pc = "refresh" => run'[r].refreshing
          /\ run'[r].pc \in {"source", "version"} => ~run'[r].refreshing
          /\ ~(run'[r].pc = "write" /\ run'[r].document = "index")
      BY <2>4, <3>1
    <3> QED BY <3>1, <3>2, <3>3, <3>4 DEF Recording, At, MembersAt
  <2>12. \A q \in Runs : Recording(q)'
    BY <1>0, <2>3, <2>11, RecordingOne
  <2> QED BY <2>9, <2>12
<1>11. ASSUME NEW r \in Runs, PublishTree(r) PROVE KeptInv'
  <2> DEFINE state == [run[r] EXCEPT !.pc = "report"]
  <2>1. run[r] \in RunState
    BY <1>0, RunType
  <2>2. Becomes(r, state) /\ ~At(r, "idle")
    BY <1>11 DEF PublishTree, At
  <2>3. state.pc = "report"
    BY <2>1 DEF RunState
  <2> HIDE DEF state
  <2>4. run'[r] = state
    BY <1>0, <2>2, OthersIdle
  <2>5. Recording(r)'
    BY <2>3, <2>4 DEF Recording, At
  <2>6. \A q \in Runs : Recording(q)'
    BY <1>0, <2>2, <2>5, RecordingOne
  <2>7. ASSUME NEW s \in Sources PROVE SourceKept(s)'
    <3>1. working'[s] = working[s] /\ served'[s] = working[s]
      BY <1>11 DEF PublishTree
    <3>2. working[s].laid => working[s].torn = {}
      BY <1>11 DEF PublishTree, PublishInv, Verified, Verifies, At
    <3>3. ~working[s].laid => working[s] = NoSource
      BY DEF SourceKept
    <3>4. NoSource.torn = {} /\ NoSource.index = NoIndex
      BY DEF NoSource
    <3>5. working[s].torn = {}
      BY <3>2, <3>3, <3>4
    <3> QED BY <3>1, <3>3, <3>4, <3>5, IncludesItself DEF SourceKept
  <2> QED BY <2>6, <2>7
<1>12. ASSUME NEW r \in Runs, Finish(r) \/ Refuse(r) \/ Die(r) PROVE KeptInv'
  <2>1. ~At(r, "idle") /\ Leaves(r)
    BY <1>12 DEF Finish, Refuse, Die, At
  <2>2. working' = working /\ served' = served
    BY <1>12 DEF Finish, Refuse, Die
  <2> QED BY <1>0, <2>1, <2>2, LeavingRecords, SourcesUntouched
<1>13. ASSUME NEW r \in Runs, RefuseMirrors(r) PROVE KeptInv'
  <2> DEFINE s == run[r].source
             signed == [working[s] EXCEPT !.unsigned = @ \ {"index"}]
  <2>1. s \in Sources
    BY <1>0, <1>13, RunType DEF RefuseMirrors, At, Sited
  <2>2. /\ SourceBecomes(s, signed)
        /\ served' = served
        /\ ~At(r, "idle")
        /\ Leaves(r)
        /\ working[s].laid
    BY <1>13 DEF RefuseMirrors, Recording, At
  <2>3. working[s] \in Source
    BY <1>0, <2>1, SourceType
  <2>4. /\ signed \in Source
        /\ signed.laid = working[s].laid
        /\ signed.index = working[s].index
        /\ signed.torn = working[s].torn
    BY <2>3 DEF Source
  <2> HIDE DEF signed
  <2>5. IF "index" \in signed.torn
        THEN signed.index = NoIndex
        ELSE Includes(signed.index, served[s].index)
    BY <2>1, <2>4 DEF SourceKept
  <2>6. \A x \in Sources : SourceKept(x)'
    BY <2>1, <2>2, <2>4, <2>5, OneSourceKept
  <2> QED BY <1>0, <2>2, <2>6, LeavingRecords
<1>14. ASSUME NEW r \in Runs, Tear(r) PROVE KeptInv'
  <2> DEFINE s == run[r].source
             d == run[r].document
             index == IF d = "index" THEN NoIndex ELSE working[s].index
             state == [working[s] EXCEPT !.index = index, !.torn = @ \cup {d}]
  <2>1. s \in Sources /\ d \in Documents
    BY <1>0, <1>14, RunType DEF Tear, At, Sited, RunState
  <2>2. /\ SourceBecomes(s, state)
        /\ served' = served
        /\ ~At(r, "idle")
        /\ Leaves(r)
        /\ working[s].laid
    BY <1>14 DEF Tear, Recording, At
  <2>3. working[s] \in Source
    BY <1>0, <2>1, SourceType
  <2>4. index \in Index
    BY <2>3 DEF Source, NoIndex, Index
  <2>5. IF d = "index" THEN index = NoIndex ELSE index = working[s].index
    OBVIOUS
  <2> HIDE DEF index
  <2>6. /\ state \in Source
        /\ state.laid = working[s].laid
        /\ state.index = index
        /\ state.torn = working[s].torn \cup {d}
    BY <2>1, <2>3, <2>4 DEF Source
  <2> HIDE DEF state
  <2>7. IF "index" \in state.torn
        THEN state.index = NoIndex
        ELSE Includes(state.index, served[s].index)
    BY <2>1, <2>5, <2>6 DEF SourceKept
  <2>8. \A x \in Sources : SourceKept(x)'
    BY <2>1, <2>2, <2>6, <2>7, OneSourceKept
  <2> QED BY <1>0, <2>2, <2>8, LeavingRecords
<1>15. ASSUME NEW uploaded \in Uploads, NEW v \in Versions,
              Upload(uploaded, v)
       PROVE  KeptInv'
  <2>1. \A q \in Runs : Recording(q)'
    BY <1>15 DEF Upload, Recording, At, MembersAt
  <2> QED BY <1>15, <2>1, SourcesUntouched DEF Upload
<1>16. ASSUME NEW s \in Sources, LayDown(s) PROVE KeptInv'
  <2> DEFINE state == [NoSource EXCEPT !.laid = TRUE]
  <2>1. /\ SourceBecomes(s, state) /\ ~working[s].laid
        /\ served' = served /\ run' = run
    BY <1>16 DEF LayDown
  <2>2. /\ state \in Source
        /\ state.laid
        /\ state.torn = {}
        /\ state.index = NoIndex
    BY DEF NoSource, Source, Documents, Index, NoIndex
  <2> HIDE DEF state
  <2>3. Includes(NoIndex, served[s].index)
    BY <2>1 DEF SourceKept
  <2>4. \A x \in Sources : SourceKept(x)'
    BY <2>1, <2>2, <2>3, OneSourceKept
  <2>5. \A x \in Sources : working[x].laid => working'[x].laid
    BY <1>0, <2>1, <2>2 DEF TypeOK, SourceBecomes
  <2>6. ASSUME NEW q \in Runs PROVE Recording(q)'
    <3>1. run[q].pc \in {"version", "write", "sign"} =>
             run[q].source \in Sources
      BY <1>0, RunType DEF Sited
    <3> QED BY <2>1, <2>5, <3>1 DEF Recording, At, MembersAt
  <2> QED BY <2>4, <2>6
<1>17. CASE UNCHANGED vars
  <2>1. \A q \in Runs : Recording(q)'
    BY <1>17 DEF vars, Recording, At, MembersAt
  <2> QED BY <1>17, <2>1, SourcesUntouched DEF vars
<1> QED
  BY <1>1, <1>2, <1>3, <1>4, <1>5, <1>6, <1>7, <1>8, <1>9, <1>10, <1>11,
     <1>12, <1>13, <1>14, <1>15, <1>16, <1>17
  DEF Next, Step

\* Only packagetool-snapshot changes what is served.
LEMMA ServedStep ==
    ASSUME KeptInv, [Next]_vars
    PROVE  [\A s \in Sources : Includes(served'[s].index, served[s].index)]_vars
<1>1. CASE served' = served
  BY <1>1, IncludesItself
<1>2. ASSUME NEW r \in Runs, PublishTree(r)
      PROVE  \A s \in Sources : Includes(served'[s].index, served[s].index)
  <2>1. ASSUME NEW s \in Sources
        PROVE  Includes(served'[s].index, served[s].index)
    <3>1. served'[s] = working[s]
      BY <1>2 DEF PublishTree
    <3>2. working[s].laid => working[s].torn = {}
      BY <1>2 DEF PublishTree, KeptInv, PublishInv, Verified, Verifies, At
    <3>3. SourceKept(s)
      BY DEF KeptInv
    <3>4. NoSource.index = NoIndex
      BY DEF NoSource
    <3> QED BY <3>1, <3>2, <3>3, <3>4 DEF SourceKept
  <2> QED BY <2>1
<1>3. served' = served \/ \E r \in Runs : PublishTree(r)
  <2>1. ASSUME NEW r \in Runs, Step(r), ~PublishTree(r)
        PROVE  served' = served
    <3>1. ASSUME NEW s \in Sources,
                 \/ PlanSource(r, s) \/ SkipSource(r, s)
                 \/ RefreshSource(r, s) \/ VerifySource(r, s)
          PROVE  served' = served
      BY <3>1 DEF PlanSource, SkipSource, RefreshSource, VerifySource
    <3>2. ASSUME NEW p \in Packages, NEW v \in Versions,
                 RecordPackage(r, p, v)
          PROVE  served' = served
      BY <3>2 DEF RecordPackage
    <3>3. ASSUME NEW v \in Versions, RecordMeta(r, v) \/ LeaveVersion(r, v)
          PROVE  served' = served
      BY <3>3 DEF RecordMeta, LeaveVersion
    <3>4. CASE SourceDone(r) \/ SourcesDone(r) \/ TreeVerified(r)
      BY <3>4 DEF SourceDone, SourcesDone, TreeVerified
    <3>5. CASE WriteDocument(r) \/ SignDocument(r)
      BY <3>5 DEF WriteDocument, SignDocument
    <3>6. CASE Finish(r) \/ Refuse(r) \/ RefuseMirrors(r)
      BY <3>6 DEF Finish, Refuse, RefuseMirrors
    <3> QED BY <2>1, <3>1, <3>2, <3>3, <3>4, <3>5, <3>6 DEF Step
  <2>2. ASSUME NEW r \in Runs, Die(r) \/ Tear(r) PROVE served' = served
    BY <2>2 DEF Die, Tear
  <2>3. ASSUME NEW r \in Runs, NEW wanted \in Selections,
               NEW refreshing \in BOOLEAN, Start(r, wanted, refreshing)
        PROVE  served' = served
    BY <2>3 DEF Start
  <2>4. ASSUME NEW uploaded \in Uploads, NEW v \in Versions,
               Upload(uploaded, v)
        PROVE  served' = served
    BY <2>4 DEF Upload
  <2>5. ASSUME NEW s \in Sources, LayDown(s) PROVE served' = served
    BY <2>5 DEF LayDown
  <2>6. CASE UNCHANGED vars
    BY <2>6 DEF vars
  <2> QED BY <2>1, <2>2, <2>3, <2>4, <2>5, <2>6 DEF Next
<1> QED BY <1>1, <1>2, <1>3

\* The working tree and every index that is about to be written keep what is
\* served, whatever dead runs left behind and wherever they died.
THEOREM KeptInvariant ==
    ASSUME Selections \subseteq {Sources}
    PROVE  Spec => []KeptInv
<1>1. ASSUME Init, PublishInv PROVE KeptInv
  <2>1. ASSUME NEW s \in Sources PROVE SourceKept(s)
    <3>1. /\ working[s] = [NoSource EXCEPT !.laid = s \in LaidDown]
          /\ served[s] = NoSource
      BY <1>1 DEF Init
    <3>2. /\ working[s].torn = {}
          /\ working[s].index = NoIndex
          /\ served[s].index = NoIndex
          /\ working[s].laid <=> s \in LaidDown
      BY <3>1 DEF NoSource
    <3>3. s \notin LaidDown => working[s] = NoSource
      <4>1. working[s] \in Source
        BY <1>1, SourceType DEF PublishInv
      <4>2. working[s].unsigned = {}
        BY <3>1 DEF NoSource
      <4> QED BY <3>2, <4>1, <4>2 DEF Source, NoSource
    <3>4. Includes(NoIndex, NoIndex)
      BY IncludesItself
    <3> QED BY <3>2, <3>3, <3>4 DEF SourceKept
  <2>2. ASSUME NEW r \in Runs PROVE Recording(r)
    BY <1>1 DEF Init, IdleRun, Recording, At
  <2> QED BY <1>1, <2>1, <2>2 DEF KeptInv
<1>2. PublishInv' /\ KeptInv /\ [Next]_vars => KeptInv'
  BY KeptStep
<1> QED BY <1>1, <1>2, PublishInvariant, PTL DEF Spec

\* No publish drops a package or a meta package that was served, as long as
\* --source is not used.
THEOREM ServedIsKept ==
    ASSUME Selections \subseteq {Sources}
    PROVE  Spec => ServedStays
<1>1. KeptInv /\ [Next]_vars =>
        [\A s \in Sources : Includes(served'[s].index, served[s].index)]_vars
  BY ServedStep
<1> QED BY <1>1, KeptInvariant, PTL DEF Spec, ServedStays

=============================================================================
