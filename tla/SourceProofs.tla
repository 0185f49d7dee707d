---------------------------- MODULE SourceProofs ----------------------------
(* Proofs about Source, for every value of its constants. *)
EXTENDS Source, TLAPS

-----------------------------------------------------------------------------
(* Types of the parts a step assigns *)

LEMMA EmptyType ==
    ASSUME NEW second \in Seconds \cup {0}
    PROVE  Empty(second) \in Document
BY DEF Empty, Document, Recorded, NoDigests

LEMMA InitialTypes ==
    /\ Resolution \in Moments
    /\ Torn \in Document
    /\ Idle \in ProcState
<1>1. Resolution \in Moments
  BY SourceAssumption DEF Moments
<1>2. Torn \in Document
  BY EmptyType DEF Torn
<1> QED BY <1>1, <1>2 DEF Idle, ProcState, Phases

LEMMA StampType ==
    ASSUME NEW moment \in Moments
    PROVE  stamp(moment) \in Seconds
BY DEF Seconds

LEMMA ProcType ==
    ASSUME TypeOK, NEW p \in Procs
    PROVE  /\ proc[p] \in ProcState
           /\ \A state \in ProcState :
                 Becomes(p, state) => proc' \in [Procs -> ProcState]
BY DEF TypeOK, Becomes

LEMMA GotoType ==
    ASSUME TypeOK, NEW p \in Procs, NEW phase \in Phases, Goto(p, phase)
    PROVE  proc' \in [Procs -> ProcState]
<1>1. [proc[p] EXCEPT !.pc = phase] \in ProcState
  BY ProcType DEF ProcState
<1> QED BY <1>1, ProcType DEF Goto

\* The document an invocation goes on to write, and what it is made from.
LEMMA WritesEffect ==
    ASSUME TypeOK, NEW p \in Procs, NEW document \in Document,
           NEW refreshing \in BOOLEAN, Writes(p, document, refreshing)
    PROVE  \E state \in ProcState :
             /\ Becomes(p, state)
             /\ state.document.packages = document.packages
             /\ state.document.meta = document.meta
<1> DEFINE dated == [document EXCEPT !.issued = stamp(proc[p].issued)]
           state == [proc[p] EXCEPT !.pc = "write", !.document = dated,
                                    !.refreshing = refreshing]
<1>1. stamp(proc[p].issued) \in Seconds
  BY ProcType, StampType DEF ProcState
<1>2. /\ dated \in Document
      /\ dated.packages = document.packages
      /\ dated.meta = document.meta
  BY <1>1 DEF Document
<1>3. Becomes(p, state)
  BY DEF Writes
<1> HIDE DEF dated
<1>4. state \in ProcState /\ state.document = dated
  BY <1>2, ProcType DEF ProcState, Phases
<1> QED BY <1>2, <1>3, <1>4

LEMMA AddType ==
    ASSUME TypeOK, NEW m \in Members, NEW v \in Versions, NEW d \in Digests
    PROVE  /\ [index EXCEPT !.packages[v][m] = d] \in Document
           /\ [index EXCEPT !.meta[v] = index.packages[v]] \in Document
<1>1. index \in Document
  BY DEF TypeOK
<1>2. [index.packages EXCEPT ![v] = [@ EXCEPT ![m] = d]]
         \in [Versions -> Recorded]
  BY <1>1 DEF Document, Recorded
<1>3. [index.meta EXCEPT ![v] = index.packages[v]] \in [Versions -> Recorded]
  BY <1>1 DEF Document, Recorded
<1> QED BY <1>1, <1>2, <1>3 DEF Document

-----------------------------------------------------------------------------
(* Type correctness *)

\* No step stores anything of the wrong type, whatever the clock does.
THEOREM TypeCorrect == Spec => []TypeOK
<1>1. Init => TypeOK
  <2>1. stamp(Resolution) \in Seconds
    BY InitialTypes, StampType
  <2> QED BY <2>1, EmptyType, InitialTypes DEF Init, TypeOK
<1>2. TypeOK /\ [Next]_vars => TypeOK'
  <2> SUFFICES ASSUME TypeOK, [Next]_vars PROVE TypeOK'
    OBVIOUS
  <2> USE DEF documents
  <2>1. ASSUME NEW p \in Procs, Start(p) PROVE TypeOK'
    <3>1. [Idle EXCEPT !.pc = "read", !.issued = now] \in ProcState
      BY InitialTypes DEF TypeOK, ProcState, Phases
    <3> QED BY <2>1, <3>1, ProcType DEF Start, TypeOK
  <2>2. ASSUME NEW p \in Procs, NEW document \in Document,
               NEW refreshing \in BOOLEAN, Writes(p, document, refreshing),
               UNCHANGED <<now, documents>>
        PROVE  TypeOK'
    BY <2>2, WritesEffect, ProcType DEF TypeOK
  <2>3. ASSUME NEW p \in Procs, NEW m \in Members, NEW v \in Versions,
               NEW d \in Digests, Add(p, m, v, d)
        PROVE  TypeOK'
    BY <2>2, <2>3, AddType DEF Add
  <2>4. ASSUME NEW p \in Procs, NEW v \in Versions, AddMeta(p, v)
        PROVE  TypeOK'
    <3>1. [index EXCEPT !.meta[v] = index.packages[v]] \in Document
      BY DEF TypeOK, Document
    <3> QED BY <2>2, <2>4, <3>1 DEF AddMeta
  <2>5. ASSUME NEW p \in Procs, Refresh(p) PROVE TypeOK'
    BY <2>2, <2>5 DEF Refresh, TypeOK
  <2>6. ASSUME NEW p \in Procs, Becomes(p, Idle), UNCHANGED <<now, documents>>
        PROVE  TypeOK'
    BY <2>6, InitialTypes, ProcType DEF TypeOK
  <2>7. ASSUME NEW p \in Procs, WriteIndex(p) \/ SignIndex(p) PROVE TypeOK'
    <3>1. proc[p].document \in Document
      BY ProcType DEF ProcState
    <3>2. \E phase \in Phases : Goto(p, phase)
      BY <2>7 DEF WriteIndex, SignIndex, Phases
    <3>3. proc' \in [Procs -> ProcState]
      BY <3>2, GotoType
    <3> QED BY <2>7, <3>1, <3>3 DEF WriteIndex, SignIndex, TypeOK
  <2>8. ASSUME NEW p \in Procs,
               ReadMirrors(p) \/ WriteMirrors(p) \/ SignMirrors(p)
        PROVE  TypeOK'
    <3>1. stamp(proc[p].issued) \in Seconds
      BY ProcType, StampType DEF ProcState
    <3>2. \E phase \in Phases : Goto(p, phase)
      BY <2>8 DEF ReadMirrors, WriteMirrors, SignMirrors, Phases
    <3>3. proc' \in [Procs -> ProcState]
      BY <3>2, GotoType
    <3> QED BY <2>8, <3>1, <3>3
            DEF ReadMirrors, WriteMirrors, SignMirrors, TypeOK
  <2>9. ASSUME NEW p \in Procs, Tear(p) PROVE TypeOK'
    <3>1. proc' \in [Procs -> ProcState]
      BY <2>9, InitialTypes, ProcType DEF Tear
    <3> QED BY <2>9, <3>1, InitialTypes DEF Tear, TypeOK
  <2>10. CASE Tick
    BY <2>10, SourceAssumption DEF Tick, TypeOK, Moments
  <2>11. CASE UNCHANGED vars
    BY <2>11 DEF vars, TypeOK
  <2> QED BY <2>1, <2>3, <2>4, <2>5, <2>6, <2>7, <2>8, <2>9, <2>10, <2>11
          DEF Next, AddMetaAgain, Exit, Die
<1> QED BY <1>1, <1>2, PTL DEF Spec

-----------------------------------------------------------------------------
(* A family is whole *)

\* A family is whole in a document as long as its packages and its meta
\* packages are.
LEMMA WholeSame ==
    ASSUME NEW document, NEW other, Whole(document),
           other.packages = document.packages, other.meta = document.meta
    PROVE  Whole(other)
BY DEF Whole

LEMMA WholeEmpty ==
    ASSUME NEW second PROVE Whole(Empty(second))
BY DEF Whole, Empty

\* A package is only added where there is no meta package yet: one that is
\* there has all of its members.
LEMMA WholeAdd ==
    ASSUME TypeOK, Whole(index), NEW m \in Members, NEW v \in Versions,
           NEW d \in Digests, index.packages[v][m] = NoDigest
    PROVE  Whole([index EXCEPT !.packages[v][m] = d])
<1> DEFINE packages == [index.packages EXCEPT ![v][m] = d]
           added == [index EXCEPT !.packages = packages]
<1>1. index \in Document /\ index.packages \in [Versions -> Recorded]
  BY DEF TypeOK, Document
<1>2. added.packages = packages /\ added.meta = index.meta
  BY <1>1 DEF Document
<1>3. index.meta[v] = NoDigests
  BY DEF Whole
<1>4. \A w \in Versions \ {v} : packages[w] = index.packages[w]
  BY <1>1
<1> HIDE DEF packages
<1>5. Whole(added)
  BY <1>2, <1>3, <1>4 DEF Whole
<1> QED BY <1>5 DEF packages

LEMMA WholeAddMeta ==
    ASSUME TypeOK, Whole(index), NEW v \in Versions, Expands(v)
    PROVE  Whole([index EXCEPT !.meta[v] = index.packages[v]])
<1> DEFINE meta == [index.meta EXCEPT ![v] = index.packages[v]]
           added == [index EXCEPT !.meta = meta]
<1>1. index \in Document /\ index.meta \in [Versions -> Recorded]
  BY DEF TypeOK, Document
<1>2. added.packages = index.packages /\ added.meta = meta
  BY <1>1 DEF Document
<1>3. meta[v] = index.packages[v]
  BY <1>1
<1>4. \A w \in Versions \ {v} : meta[w] = index.meta[w]
  BY <1>1
<1> HIDE DEF meta
<1>5. Whole(added)
  BY <1>2, <1>3, <1>4 DEF Whole, Expands
<1> QED BY <1>5 DEF meta

\* What an invocation goes on to write is whole when its source is.
LEMMA WholeWrites ==
    ASSUME TypeOK, FamilyWhole, NEW p \in Procs, NEW document \in Document,
           NEW refreshing \in BOOLEAN, Whole(document),
           Writes(p, document, refreshing), UNCHANGED <<now, documents>>
    PROVE  FamilyWhole'
<1>1. PICK state \in ProcState :
        /\ Becomes(p, state)
        /\ state.document.packages = document.packages
        /\ state.document.meta = document.meta
  BY WritesEffect
<1>2. Whole(state.document)
  BY <1>1, WholeSame
<1>3. \A q \in Procs : proc'[q] = IF q = p THEN state ELSE proc[q]
  BY <1>1 DEF Becomes, TypeOK
<1>4. \A q \in Procs : Whole(proc'[q].document)
  BY <1>2, <1>3 DEF FamilyWhole
<1> QED BY <1>4 DEF FamilyWhole, documents, Whole

\* A step that leaves the documents of the invocations alone.
LEMMA WholeGoto ==
    ASSUME TypeOK, FamilyWhole, NEW p \in Procs, NEW phase, Goto(p, phase)
    PROVE  \A q \in Procs : Whole(proc'[q].document)
<1>1. \A q \in Procs : proc'[q].document = proc[q].document
  BY DEF Goto, Becomes, TypeOK, ProcState
<1> QED BY <1>1 DEF FamilyWhole

LEMMA WholeBecomes ==
    ASSUME TypeOK, FamilyWhole, NEW p \in Procs, NEW state, Becomes(p, state),
           Whole(state.document)
    PROVE  \A q \in Procs : Whole(proc'[q].document)
<1>1. \A q \in Procs : proc'[q] = IF q = p THEN state ELSE proc[q]
  BY DEF Becomes, TypeOK
<1> QED BY <1>1 DEF FamilyWhole

LEMMA FamilyStep ==
    ASSUME TypeOK, FamilyWhole, [Next]_vars PROVE FamilyWhole'
<1> USE DEF documents
<1>0. Whole(Torn) /\ Whole(Idle.document)
  BY WholeEmpty DEF Torn, Idle
<1>1. ASSUME NEW p \in Procs, Start(p) PROVE FamilyWhole'
  <2> DEFINE state == [Idle EXCEPT !.pc = "read", !.issued = now]
  <2>1. Becomes(p, state) /\ UNCHANGED <<index, indexSig>>
    BY <1>1 DEF Start
  <2>2. state.document = Idle.document
    BY DEF Idle
  <2> HIDE DEF state
  <2> QED BY <1>0, <2>1, <2>2, WholeBecomes DEF FamilyWhole
<1>2. ASSUME NEW p \in Procs, NEW m \in Members, NEW v \in Versions,
             NEW d \in Digests, Add(p, m, v, d)
      PROVE  FamilyWhole'
  BY <1>2, AddType, WholeAdd, WholeWrites DEF Add, FamilyWhole
<1>3. ASSUME NEW p \in Procs, NEW v \in Versions, AddMeta(p, v)
      PROVE  FamilyWhole'
  <2>1. [index EXCEPT !.meta[v] = index.packages[v]] \in Document
    BY DEF TypeOK, Document
  <2> QED BY <1>3, <2>1, WholeAddMeta, WholeWrites DEF AddMeta, FamilyWhole
<1>4. ASSUME NEW p \in Procs, Refresh(p) PROVE FamilyWhole'
  BY <1>4, WholeWrites DEF Refresh, FamilyWhole, TypeOK
<1>5. ASSUME NEW p \in Procs, Becomes(p, Idle), UNCHANGED <<now, documents>>
      PROVE  FamilyWhole'
  BY <1>0, <1>5, WholeBecomes DEF FamilyWhole
<1>6. ASSUME NEW p \in Procs, WriteIndex(p) \/ SignIndex(p)
      PROVE  FamilyWhole'
  <2>1. \A q \in Procs : Whole(proc'[q].document)
    BY <1>6, WholeGoto DEF WriteIndex, SignIndex
  <2>2. Whole(index') /\ Whole(indexSig')
    BY <1>6 DEF WriteIndex, SignIndex, FamilyWhole
  <2> QED BY <2>1, <2>2 DEF FamilyWhole
<1>7. ASSUME NEW p \in Procs,
             ReadMirrors(p) \/ WriteMirrors(p) \/ SignMirrors(p)
      PROVE  FamilyWhole'
  <2>1. \A q \in Procs : Whole(proc'[q].document)
    BY <1>7, WholeGoto DEF ReadMirrors, WriteMirrors, SignMirrors
  <2> QED BY <1>7, <2>1
          DEF ReadMirrors, WriteMirrors, SignMirrors, FamilyWhole
<1>8. ASSUME NEW p \in Procs, Tear(p) PROVE FamilyWhole'
  <2>1. \A q \in Procs : Whole(proc'[q].document)
    BY <1>0, <1>8, WholeBecomes DEF Tear
  <2>2. Whole(index') /\ Whole(indexSig')
    BY <1>0, <1>8 DEF Tear, FamilyWhole
  <2> QED BY <2>1, <2>2 DEF FamilyWhole
<1>9. CASE Tick \/ UNCHANGED vars
  BY <1>9 DEF Tick, vars, FamilyWhole
<1> QED BY <1>1, <1>2, <1>3, <1>4, <1>5, <1>6, <1>7, <1>8, <1>9
        DEF Next, AddMetaAgain, Exit, Die

\* A meta package exists only where all of its members do and pins their
\* bytes, for any family and any number of invocations that interleave, die
\* and tear what they write.
THEOREM FamilyIsWhole == Spec => []FamilyWhole
<1>1. Init => FamilyWhole
  BY WholeEmpty DEF Init, FamilyWhole, Idle, Torn
<1>2. TypeOK /\ FamilyWhole /\ [Next]_vars => FamilyWhole'
  BY FamilyStep
<1> QED BY <1>1, <1>2, TypeCorrect, PTL DEF Spec

-----------------------------------------------------------------------------
(* Seconds *)

\* The second of a moment is one, and not the 0 of a torn document.
LEMMA StampPositive ==
    ASSUME NEW moment \in Moments
    PROVE  stamp(moment) \in Nat /\ stamp(moment) # 0
BY SourceAssumption DEF Moments, stamp

LEMMA SecondsType ==
    ASSUME NEW second \in Seconds \cup {0} PROVE second \in Nat
BY StampPositive DEF Seconds

\* The unrounded moment is compared with a rounded one; rounded in its turn
\* it is at least not before.
LEMMA AdvancesRounded ==
    ASSUME NEW before \in Nat, NEW moment \in Moments, Advances(before, moment)
    PROVE  before <= stamp(moment)
BY SourceAssumption DEF Moments, stamp, Advances

-----------------------------------------------------------------------------
(* Invocations that follow each other *)

\* Whoever is under way after its step is so alone.
LEMMA OthersIdle ==
    ASSUME TypeOK, NEW p \in Procs, NEW state, Becomes(p, state),
           OneAtATime, OneAtATime', state.pc # "idle" \/ ~At(p, "idle")
    PROVE  /\ proc'[p] = state
           /\ \A q \in Procs \ {p} : proc'[q].pc = "idle"
<1>1. \A q \in Procs : proc'[q] = IF q = p THEN state ELSE proc[q]
  BY DEF TypeOK, Becomes
<1> QED BY <1>1 DEF OneAtATime, At

LEMMA IdleCarries ==
    ASSUME NEW q \in Procs, proc'[q].pc = "idle" PROVE Carries(q)'
BY DEF Carries, At

\* One invocation takes a step, and only its own state is to be looked at.
LEMMA CarriesOne ==
    ASSUME TypeOK, NEW p \in Procs, NEW state, Becomes(p, state),
           OneAtATime, OneAtATime', state.pc # "idle" \/ ~At(p, "idle"),
           Carries(p)'
    PROVE  \A q \in Procs : Carries(q)'
BY OthersIdle, IdleCarries

LEMMA CarriesNothing ==
    ASSUME TypeOK, NEW p \in Procs, Becomes(p, Idle), ~At(p, "idle"),
           OneAtATime, OneAtATime'
    PROVE  \A q \in Procs : Carries(q)'
<1>1. Idle.pc = "idle"
  BY DEF Idle
<1>2. proc'[p].pc = "idle"
  BY <1>1, OthersIdle
<1> QED BY <1>2, CarriesOne, IdleCarries

\* A step to the next phase, by an invocation that keeps what it has.
LEMMA Moves ==
    ASSUME TypeOK, NEW p \in Procs, NEW phase, Goto(p, phase),
           OneAtATime, OneAtATime', ~At(p, "idle")
    PROVE  /\ proc'[p].pc = phase
           /\ UNCHANGED <<proc[p].issued, proc[p].document, proc[p].refreshing>>
           /\ Carries(p)' => \A q \in Procs : Carries(q)'
<1> DEFINE state == [proc[p] EXCEPT !.pc = phase]
<1>1. Becomes(p, state)
  BY DEF Goto
<1>2. /\ state.pc = phase /\ state.issued = proc[p].issued
      /\ state.document = proc[p].document
      /\ state.refreshing = proc[p].refreshing
  BY ProcType DEF ProcState
<1> HIDE DEF state
<1>3. proc'[p] = state
  BY <1>1, OthersIdle
<1> QED BY <1>1, <1>2, <1>3, CarriesOne

\* What has been read is dated anew, and nothing in it is taken back.
LEMMA CarriesWrites ==
    ASSUME TypeOK, NEW p \in Procs, NEW document \in Document,
           NEW refreshing \in BOOLEAN, Writes(p, document, refreshing),
           UNCHANGED <<now, documents>>, OneAtATime, OneAtATime',
           At(p, "read"), Advances(index.issued, proc[p].issued),
           Keeps(document, index)
    PROVE  \A q \in Procs : Carries(q)'
<1> DEFINE dated == [document EXCEPT !.issued = stamp(proc[p].issued)]
           state == [proc[p] EXCEPT !.pc = "write", !.document = dated,
                                    !.refreshing = refreshing]
<1>1. /\ dated.issued = stamp(proc[p].issued)
      /\ dated.packages = document.packages
      /\ dated.meta = document.meta
  BY DEF Document
<1>2. /\ index.issued <= stamp(proc[p].issued)
      /\ stamp(proc[p].issued) # 0
  <2>1. proc[p].issued \in Moments
    BY ProcType DEF ProcState
  <2>2. index.issued \in Nat
    BY SecondsType DEF TypeOK, Document
  <2> QED BY <2>1, <2>2, AdvancesRounded, StampPositive
<1>3. Keeps(dated, index)
  BY <1>1 DEF Keeps
<1>4. Becomes(p, state)
  BY DEF Writes
<1> HIDE DEF dated
<1>5. state.pc = "write" /\ state.document = dated
  BY ProcType DEF ProcState
<1> HIDE DEF state
<1>6. proc'[p] = state
  BY <1>4, <1>5, OthersIdle
<1>7. Carries(p)'
  BY <1>1, <1>2, <1>3, <1>5, <1>6 DEF Carries, At, documents, Keeps
<1> QED BY <1>4, <1>5, <1>7, CarriesOne

\* A package is added where there is none, a meta package where there is none.
LEMMA AddKeeps ==
    ASSUME TypeOK, NEW m \in Members, NEW v \in Versions, NEW d \in Digests,
           index.packages[v][m] = NoDigest
    PROVE  Keeps([index EXCEPT !.packages[v][m] = d], index)
<1> DEFINE packages == [index.packages EXCEPT ![v] = [@ EXCEPT ![m] = d]]
           added == [index EXCEPT !.packages = packages]
<1>1. index \in Document
  BY DEF TypeOK
<1>2. added.packages = packages /\ added.meta = index.meta
  BY <1>1 DEF Document
<1>3. \A w \in Versions, n \in Members :
         index.packages[w][n] # NoDigest => packages[w][n] = index.packages[w][n]
  BY <1>1 DEF Document, Recorded
<1> HIDE DEF packages
<1>4. Keeps(added, index)
  BY <1>2, <1>3 DEF Keeps
<1> QED BY <1>4 DEF packages

LEMMA AddMetaKeeps ==
    ASSUME TypeOK, NEW v \in Versions, index.meta[v] = NoDigests
    PROVE  /\ [index EXCEPT !.meta[v] = index.packages[v]] \in Document
           /\ Keeps([index EXCEPT !.meta[v] = index.packages[v]], index)
<1>1. index \in Document
  BY DEF TypeOK
<1> QED BY <1>1 DEF Document, Keeps

LEMMA SerialStep ==
    ASSUME TypeOK, OneAtATime, OneAtATime', \A p \in Procs : Carries(p),
           [Next]_vars
    PROVE  \A p \in Procs : Carries(p)'
<1> USE DEF documents
<1>1. ASSUME NEW p \in Procs, Start(p) PROVE \A q \in Procs : Carries(q)'
  <2> DEFINE state == [Idle EXCEPT !.pc = "read", !.issued = now]
  <2>1. Becomes(p, state) /\ state.pc = "read"
    BY <1>1 DEF Start, Idle
  <2> HIDE DEF state
  <2>2. proc'[p].pc = "read"
    BY <2>1, OthersIdle
  <2>3. Carries(p)'
    BY <2>2 DEF Carries, At
  <2> QED BY <2>1, <2>3, CarriesOne
<1>2. ASSUME NEW p \in Procs, NEW m \in Members, NEW v \in Versions,
             NEW d \in Digests, Add(p, m, v, d)
      PROVE  \A q \in Procs : Carries(q)'
  BY <1>2, AddType, AddKeeps, CarriesWrites DEF Add
<1>3. ASSUME NEW p \in Procs, NEW v \in Versions, AddMeta(p, v)
      PROVE  \A q \in Procs : Carries(q)'
  BY <1>3, AddMetaKeeps, CarriesWrites DEF AddMeta
<1>4. ASSUME NEW p \in Procs, Refresh(p) PROVE \A q \in Procs : Carries(q)'
  <2>1. index \in Document /\ Keeps(index, index)
    BY DEF TypeOK, Keeps
  <2> QED BY <1>4, <2>1, CarriesWrites DEF Refresh
<1>5. ASSUME NEW p \in Procs, Becomes(p, Idle), ~At(p, "idle")
      PROVE  \A q \in Procs : Carries(q)'
  BY <1>5, CarriesNothing
<1>6. ASSUME NEW p \in Procs, WriteIndex(p)
      PROVE  \A q \in Procs : Carries(q)'
  <2>1. Goto(p, "sign") /\ ~At(p, "idle")
    BY <1>6 DEF WriteIndex, At
  <2>3. /\ proc'[p].pc = "sign"
        /\ UNCHANGED <<proc[p].issued, proc[p].document, proc[p].refreshing>>
    BY <2>1, Moves
  <2>4. Carries(p)'
    BY <1>6, <2>3 DEF WriteIndex, Carries, At
  <2> QED BY <2>1, <2>4, Moves
<1>7. ASSUME NEW p \in Procs, SignIndex(p)
      PROVE  \A q \in Procs : Carries(q)'
  <2>1. Goto(p, IF proc[p].refreshing THEN "mirrors" ELSE "done") /\ ~At(p, "idle")
    BY <1>7 DEF SignIndex, At
  <2>2. index # Torn /\ index = proc[p].document
    <3>1. index = proc[p].document /\ index.issued # 0
      BY <1>7 DEF SignIndex, Carries, At
    <3>2. Torn.issued = 0
      BY DEF Torn, Empty
    <3> QED BY <3>1, <3>2
  <2>3. /\ proc'[p].pc = IF proc[p].refreshing THEN "mirrors" ELSE "done"
        /\ UNCHANGED <<proc[p].issued, proc[p].document, proc[p].refreshing>>
    BY <2>1, Moves
  <2>4. Carries(p)'
    BY <1>7, <2>2, <2>3 DEF SignIndex, Carries, At
  <2> QED BY <2>1, <2>4, Moves
<1>8. ASSUME NEW p \in Procs, ReadMirrors(p)
      PROVE  \A q \in Procs : Carries(q)'
  <2>1. Goto(p, "write mirrors") /\ ~At(p, "idle")
    BY <1>8 DEF ReadMirrors, At
  <2>2. mirrors <= stamp(proc[p].issued)
    <3>1. mirrors \in Nat /\ proc[p].issued \in Moments
      BY SecondsType, ProcType DEF TypeOK, ProcState
    <3> QED BY <1>8, <3>1, AdvancesRounded DEF ReadMirrors
  <2>3. /\ proc'[p].pc = "write mirrors"
        /\ UNCHANGED <<proc[p].issued, proc[p].document, proc[p].refreshing>>
    BY <2>1, Moves
  <2>4. Carries(p)'
    BY <1>8, <2>2, <2>3 DEF ReadMirrors, Carries, At
  <2> QED BY <2>1, <2>4, Moves
<1>9. ASSUME NEW p \in Procs, WriteMirrors(p)
      PROVE  \A q \in Procs : Carries(q)'
  <2>1. Goto(p, "sign mirrors") /\ ~At(p, "idle")
    BY <1>9 DEF WriteMirrors, At
  <2>3. /\ proc'[p].pc = "sign mirrors"
        /\ UNCHANGED <<proc[p].issued, proc[p].document, proc[p].refreshing>>
    BY <2>1, Moves
  <2>4. Carries(p)'
    BY <1>9, <2>3 DEF WriteMirrors, Carries, At
  <2> QED BY <2>1, <2>4, Moves
<1>10. ASSUME NEW p \in Procs, SignMirrors(p)
       PROVE  \A q \in Procs : Carries(q)'
  <2>1. Goto(p, "done") /\ ~At(p, "idle")
    BY <1>10 DEF SignMirrors, At
  <2>2. stamp(proc[p].issued) # 0
    BY ProcType, StampPositive DEF ProcState
  <2>3. /\ proc'[p].pc = "done"
        /\ UNCHANGED <<proc[p].issued, proc[p].document, proc[p].refreshing>>
    BY <2>1, Moves
  <2>4. Carries(p)'
    BY <1>10, <2>2, <2>3 DEF SignMirrors, Carries, At
  <2> QED BY <2>1, <2>4, Moves
<1>11. ASSUME NEW p \in Procs, Tear(p) PROVE \A q \in Procs : Carries(q)'
  BY <1>5, <1>11 DEF Tear, At
<1>12. CASE Tick \/ UNCHANGED vars
  BY <1>12 DEF Tick, vars, Carries, At
<1>13. ASSUME NEW p \in Procs, Exit(p) \/ Die(p) \/ \E v \in Versions : AddMetaAgain(p, v)
       PROVE  \A q \in Procs : Carries(q)'
  BY <1>5, <1>13 DEF Exit, Die, AddMetaAgain, At
<1> QED BY <1>1, <1>2, <1>3, <1>4, <1>6, <1>7, <1>8, <1>9, <1>10, <1>11,
           <1>12, <1>13 DEF Next

\* What an invocation carries to its end, where none is under way together
\* with another.
LEMMA SerialInvariant == Spec /\ []OneAtATime => []SerialInv
<1>1. Init => \A p \in Procs : Carries(p)
  <2> SUFFICES ASSUME Init, NEW p \in Procs PROVE Carries(p)
    OBVIOUS
  <2>1. proc[p].pc = "idle"
    BY DEF Init, Idle
  <2> QED BY <2>1 DEF Carries, At
<1>2. TypeOK /\ OneAtATime /\ OneAtATime' /\ (\A p \in Procs : Carries(p))
         /\ [Next]_vars => (\A p \in Procs : Carries(p))'
  BY SerialStep
<1> QED BY <1>1, <1>2, TypeCorrect, PTL DEF Spec, SerialInv

\* Who came to its end leaves documents a client accepts, whatever died or
\* was torn before, as long as invocations follow each other.
THEOREM SignedInTheEnd == Spec /\ []OneAtATime => []SignedWhenDone
<1>1. SerialInv => SignedWhenDone
  BY DEF SerialInv, Carries, SignedWhenDone, At
<1> QED BY <1>1, SerialInvariant, PTL

\* The index is replaced by what an invocation carries, or torn.
LEMMA IndexReplaced ==
    ASSUME [Next]_vars
    PROVE  \/ UNCHANGED index
           \/ index' = Torn
           \/ \E p \in Procs : At(p, "write") /\ index' = proc[p].document
<1> USE DEF documents
<1>1. \A p \in Procs :
        \/ Start(p)
        \/ \E m \in Members, v \in Versions, d \in Digests : Add(p, m, v, d)
        \/ \E v \in Versions : AddMeta(p, v) \/ AddMetaAgain(p, v)
        \/ Refresh(p) \/ SignIndex(p) \/ ReadMirrors(p) \/ WriteMirrors(p)
        \/ SignMirrors(p) \/ Exit(p) \/ Die(p)
        => UNCHANGED index
  BY DEF Start, Add, AddMeta, AddMetaAgain, Refresh, SignIndex, ReadMirrors,
         WriteMirrors, SignMirrors, Exit, Die
<1>2. \A p \in Procs : WriteIndex(p)
        => At(p, "write") /\ index' = proc[p].document
  BY DEF WriteIndex
<1>3. \A p \in Procs : Tear(p) => index' = Torn \/ UNCHANGED index
  BY DEF Tear
<1>4. Tick \/ UNCHANGED vars => UNCHANGED index
  BY DEF Tick, vars
<1> QED BY <1>1, <1>2, <1>3, <1>4 DEF Next

\* The mirror list is replaced by one of the second the writer started in.
LEMMA MirrorsReplaced ==
    ASSUME [Next]_vars
    PROVE  \/ UNCHANGED mirrors
           \/ mirrors' = 0
           \/ \E p \in Procs : /\ At(p, "write mirrors")
                               /\ mirrors' = stamp(proc[p].issued)
<1> USE DEF documents
<1>1. \A p \in Procs :
        \/ Start(p)
        \/ \E m \in Members, v \in Versions, d \in Digests : Add(p, m, v, d)
        \/ \E v \in Versions : AddMeta(p, v) \/ AddMetaAgain(p, v)
        \/ Refresh(p) \/ WriteIndex(p) \/ SignIndex(p) \/ ReadMirrors(p)
        \/ SignMirrors(p) \/ Exit(p) \/ Die(p)
        => UNCHANGED mirrors
  BY DEF Start, Add, AddMeta, AddMetaAgain, Refresh, WriteIndex, SignIndex,
         ReadMirrors, SignMirrors, Exit, Die
<1>2. \A p \in Procs : WriteMirrors(p)
        => At(p, "write mirrors") /\ mirrors' = stamp(proc[p].issued)
  BY DEF WriteMirrors
<1>3. \A p \in Procs : Tear(p) => mirrors' = 0 \/ UNCHANGED mirrors
  BY DEF Tear
<1>4. Tick \/ UNCHANGED vars => UNCHANGED mirrors
  BY DEF Tick, vars
<1> QED BY <1>1, <1>2, <1>3, <1>4 DEF Next

\* A published version is immutable, however the clock jumps and whatever
\* dies, as long as invocations follow each other.
THEOREM RecordedIsKept == Spec /\ []OneAtATime => RecordedStays
<1>1. SerialInv /\ [Next]_vars => [index' # Torn => Keeps(index', index)]_vars
  <2> SUFFICES ASSUME SerialInv, [Next]_vars, index' # Torn
               PROVE  Keeps(index', index)
    OBVIOUS
  <2>1. CASE UNCHANGED index
    BY <2>1 DEF Keeps
  <2>2. ASSUME NEW p \in Procs, At(p, "write"), index' = proc[p].document
        PROVE  Keeps(index', index)
    BY <2>2 DEF SerialInv, Carries
  <2> QED BY <2>1, <2>2, IndexReplaced
<1> QED BY <1>1, SerialInvariant, PTL DEF Spec, RecordedStays

\* What is published is never dated back, although the clock may be, as long
\* as invocations follow each other.
THEOREM IssuedStaysAhead == Spec /\ []OneAtATime => IssuedNeverBack
<1>1. SerialInv /\ [Next]_vars =>
        [/\ index' # Torn => index'.issued >= index.issued
         /\ mirrors' # 0 => mirrors' >= mirrors]_vars
  <2> SUFFICES ASSUME SerialInv, [Next]_vars
               PROVE  /\ index' # Torn => index'.issued >= index.issued
                      /\ mirrors' # 0 => mirrors' >= mirrors
    OBVIOUS
  <2>0. index.issued \in Nat /\ mirrors \in Nat
    BY SecondsType DEF SerialInv, TypeOK, Document
  <2>1. index' # Torn => index'.issued >= index.issued
    <3>1. ASSUME NEW p \in Procs, At(p, "write"), index' = proc[p].document
          PROVE  index'.issued >= index.issued
      <4>1. proc[p].document.issued \in Nat
        BY ProcType, SecondsType DEF SerialInv, ProcState, Document
      <4> QED BY <2>0, <3>1, <4>1 DEF SerialInv, Carries
    <3> QED BY <2>0, <3>1, IndexReplaced
  <2>2. mirrors' # 0 => mirrors' >= mirrors
    <3>1. ASSUME NEW p \in Procs, At(p, "write mirrors"),
                 mirrors' = stamp(proc[p].issued)
          PROVE  mirrors' >= mirrors
      <4>1. stamp(proc[p].issued) \in Nat
        BY ProcType, StampPositive DEF SerialInv, ProcState
      <4> QED BY <2>0, <3>1, <4>1 DEF SerialInv, Carries
    <3>2. UNCHANGED mirrors => mirrors' >= mirrors
      BY <2>0
    <3> QED BY <3>1, <3>2, MirrorsReplaced
  <2> QED BY <2>1, <2>2
<1> QED BY <1>1, SerialInvariant, PTL DEF Spec, IssuedNeverBack

=============================================================================
