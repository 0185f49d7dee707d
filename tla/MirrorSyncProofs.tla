-------------------------- MODULE MirrorSyncProofs --------------------------
(* Proofs about MirrorSync, for any number of snapshots. *)
EXTENDS MirrorSync, TLAPS

-----------------------------------------------------------------------------
(* Chains *)

LEMMA InitialTypes ==
    /\ NoChain \in Chain
    /\ NoIndex \in Index
    /\ IdleRun \in RunState
    /\ \A n \in Names : NoChain[n] = None
BY DEF NoChain, Chain, NoIndex, Index, IdleRun, RunState, Phases, None

LEMMA ContiguousType ==
    ASSUME NEW chain \in Chain, NEW seen
    PROVE  Contiguous(chain, seen) \in Chain
BY DEF Contiguous, Chain, None

\* What is cut off the chain is not listed, what is left is as it was.
LEMMA ContiguousListed ==
    ASSUME NEW chain \in Chain, NEW seen \in SUBSET Names, NEW n \in Names,
           Contiguous(chain, seen)[n] # None
    PROVE  /\ Contiguous(chain, seen)[n] = chain[n]
           /\ \A m \in seen : m <= n => Precedes(chain[m], m, seen)
BY DEF Contiguous

\* The cut is where it has to be: what is left is one unbroken line.
LEMMA ContiguousUnbroken ==
    ASSUME NEW chain \in Chain, NEW seen \in SUBSET Names,
           \A n \in Names : chain[n] # None => n \in seen
    PROVE  Unbroken(Contiguous(chain, seen))
<1> DEFINE cut == Contiguous(chain, seen)
           listed == {n \in Names : cut[n] # None}
           line == listed \cup {cut[n] : n \in listed}
<1>1. \A n \in listed : /\ n \in seen
                        /\ Precedes(cut[n], n, seen)
  BY ContiguousListed DEF Names
<1>2. line \subseteq seen
  BY <1>1 DEF Precedes
<1>3. \A n \in listed : Precedes(cut[n], n, line)
  <2> SUFFICES ASSUME NEW n \in listed PROVE Precedes(cut[n], n, line)
    OBVIOUS
  <2>1. cut[n] \in line /\ cut[n] # None
    OBVIOUS
  <2>2. cut[n] < n /\ \A m \in seen : m < n => m <= cut[n]
    BY <1>1, <2>1 DEF Precedes
  <2> HIDE DEF cut, line, listed
  <2> QED BY <1>2, <2>1, <2>2 DEF Precedes
<1> QED BY <1>3 DEF Unbroken

-----------------------------------------------------------------------------
(* Type correctness *)

\* No step stores anything of the wrong type, and the newest snapshot a run
\* works with is the newest one it has seen.
THEOREM TypeCorrect == Spec => []TypeOK
<1>1. Init => TypeOK
  BY InitialTypes DEF Init, TypeOK, IdleRun
<1>2. TypeOK /\ [Next]_vars => TypeOK'
  <2> SUFFICES ASSUME TypeOK, [Next]_vars PROVE TypeOK'
    OBVIOUS
  <2>1. CASE Start
    <3> DEFINE rest == {n \in snapshots : ~Oldest(n, snapshots)}
    <3>1. PICK newest \in Names :
            /\ Newest(newest, snapshots)
            /\ run' = [IdleRun EXCEPT !.pc = "send", !.seen = snapshots,
                                      !.newest = newest, !.todo = rest]
      BY <2>1 DEF Start
    <3>2. rest \in SUBSET Names
      BY DEF TypeOK
    <3> HIDE DEF rest
    <3>3. run' \in RunState /\ run'.seen = snapshots /\ run'.newest = newest
      BY <3>1, <3>2, InitialTypes DEF TypeOK, RunState, Phases
    <3> QED BY <2>1, <3>1, <3>3 DEF Start, TypeOK, Newest
  <2>2. ASSUME NEW n \in Names, NEW p \in Names, ReuseDump(n, p)
        PROVE  TypeOK'
    BY <2>2 DEF ReuseDump, Lists, TypeOK, RunState, Chain
  <2>3. ASSUME NEW n \in Names, NEW p \in Names, SendDump(n, p)
        PROVE  TypeOK'
    BY <2>3 DEF SendDump, Lists, TypeOK, RunState, Chain
  <2>4. CASE DumpsSent
    BY <2>4 DEF DumpsSent, TypeOK, RunState, Phases
  <2>5. CASE SendFull
    BY <2>5 DEF SendFull, At, TypeOK, RunState, Phases
  <2>6. CASE SendFails \/ Die
    BY <2>6, InitialTypes DEF SendFails, Die, TypeOK, IdleRun
  <2>7. CASE Decide
    <3>1. Contiguous(run.chain, run.seen) \in Chain
      BY ContiguousType DEF TypeOK, RunState
    <3>2. Unlisted(Contiguous(run.chain, run.seen)) \in SUBSET Names
      BY DEF Unlisted
    <3> QED BY <2>7, <3>1, <3>2 DEF Decide, TypeOK, RunState, Phases
  <2>8. CASE WriteIndex
    BY <2>8 DEF WriteIndex, TypeOK, RunState, Index, Phases
  <2>9. ASSUME NEW n \in Names, RemoveFull(n) PROVE TypeOK'
    BY <2>9 DEF RemoveFull, TypeOK, RunState
  <2>10. ASSUME NEW n \in Names, RemoveDump(n) PROVE TypeOK'
    BY <2>10 DEF RemoveDump, TypeOK, RunState, Chain, None
  <2>11. CASE Finish
    BY <2>11, InitialTypes DEF Finish, TypeOK, IdleRun
  <2>12. ASSUME NEW n \in Names, TakeSnapshot(n) \/ DeleteSnapshot(n)
         PROVE  TypeOK'
    BY <2>12 DEF TakeSnapshot, DeleteSnapshot, TypeOK
  <2>13. CASE Poll \/ ApplyFull \/ \E n \in Names : ApplyDump(n)
    BY <2>13 DEF Poll, ApplyFull, ApplyDump, TypeOK, Index
  <2>14. CASE UNCHANGED vars
    BY <2>14 DEF vars, TypeOK
  <2> QED BY <2>1, <2>2, <2>3, <2>4, <2>5, <2>6, <2>7, <2>8, <2>9, <2>10,
             <2>11, <2>12, <2>13, <2>14 DEF Next, Step
<1> QED BY <1>1, <1>2, PTL DEF Spec

-----------------------------------------------------------------------------
(* The index keeps its promise *)

\* An index that is not replaced keeps its promise as long as nothing it
\* names is removed.
LEMMA IndexStays ==
    ASSUME TypeOK, IndexKept, UNCHANGED index, full \subseteq full',
           \A n \in Names : dumps[n] # None => dumps'[n] = dumps[n]
    PROVE  IndexKept'
BY DEF IndexKept

LEMMA IdleKept ==
    ASSUME run' = IdleRun
    PROVE  RunKept'
BY DEF RunKept, IdleRun, NoChain

LEMMA IndexStep ==
    ASSUME IndexInv, [Next]_vars
    PROVE  IndexKept' /\ RunKept'
<1> USE DEF IndexInv
<1>1. CASE Start
  <2>1. IndexKept'
    BY <1>1, IndexStays DEF Start
  <2>2. RunKept'
    BY <1>1 DEF Start, RunKept, IdleRun, NoChain
  <2> QED BY <2>1, <2>2
<1>2. ASSUME NEW n \in Names, NEW p \in Names, ReuseDump(n, p)
      PROVE  IndexKept' /\ RunKept'
  <2>1. IndexKept'
    BY <1>2, IndexStays DEF ReuseDump
  <2>2. RunKept'
    BY <1>2 DEF ReuseDump, Lists, At, Oldest, RunKept, TypeOK, RunState, Chain
  <2> QED BY <2>1, <2>2
<1>3. ASSUME NEW n \in Names, NEW p \in Names, SendDump(n, p)
      PROVE  IndexKept' /\ RunKept'
  <2>1. IndexKept'
    BY <1>3, IndexStays DEF SendDump, TypeOK, Chain
  <2>2. p # None
    BY DEF Names, None
  <2>3. RunKept'
    BY <1>3, <2>2
    DEF SendDump, Lists, At, Oldest, RunKept, TypeOK, RunState, Chain
  <2> QED BY <2>1, <2>3
<1>4. CASE DumpsSent
  <2>1. IndexKept'
    BY <1>4, IndexStays DEF DumpsSent
  <2>2. RunKept'
    BY <1>4 DEF DumpsSent, RunKept, TypeOK, RunState
  <2> QED BY <2>1, <2>2
<1>5. CASE SendFull
  <2>1. IndexKept'
    BY <1>5, IndexStays DEF SendFull
  <2>2. RunKept'
    BY <1>5 DEF SendFull, RunKept, TypeOK, RunState
  <2> QED BY <2>1, <2>2
<1>6. CASE SendFails \/ Die \/ Finish
  BY <1>6, IndexStays, IdleKept DEF SendFails, Die, Finish
<1>7. CASE Decide
  <2> DEFINE chain == Contiguous(run.chain, run.seen)
  <2>1. IndexKept'
    BY <1>7, IndexStays DEF Decide
  <2>2. /\ run.chain \in Chain /\ run.seen \in SUBSET Names
        /\ \A n \in Names : run.chain[n] # None => n \in run.seen
    BY DEF TypeOK, RunState, RunKept
  <2>3. Unbroken(chain)
    BY <2>2, ContiguousUnbroken
  <2>4. \A n \in Names : chain[n] # None => chain[n] = run.chain[n]
    BY <2>2, ContiguousListed
  <2>5. \A n \in Unlisted(chain) : chain[n] = None
    BY DEF Unlisted
  <2>6. /\ run' = [run EXCEPT !.pc = "index",
                              !.chain = chain,
                              !.obsolete = Unlisted(chain),
                              !.fulls = full \ {run.newest}]
        /\ run.pc = "decide"
        /\ UNCHANGED <<dumps, full, index>>
    BY <1>7 DEF Decide, At
  <2> HIDE DEF chain
  <2>7. RunKept'
    BY <2>3, <2>4, <2>5, <2>6 DEF RunKept, TypeOK, RunState
  <2> QED BY <2>1, <2>7
<1>8. CASE WriteIndex
  <2>1. PICK digest \in Chain :
          /\ \A n \in Names : IF run.chain[n] = None THEN digest[n] = None
                                                     ELSE digest[n] \in DigestOf(n)
          /\ index' = [chain |-> run.chain, digest |-> digest,
                       newest |-> run.newest]
    BY <1>8 DEF WriteIndex
  <2>2. \A n \in Names : run.chain[n] # None =>
           dumps[n] # None /\ digest[n] = dumps[n]
    BY <2>1 DEF DigestOf, IndexKept, RunKept
  <2>3. IndexKept'
    BY <1>8, <2>1, <2>2 DEF WriteIndex, At, IndexKept, RunKept
  <2>4. RunKept'
    BY <1>8, <2>1 DEF WriteIndex, At, RunKept, TypeOK, RunState
  <2> QED BY <2>3, <2>4
<1>9. ASSUME NEW n \in Names, RemoveFull(n) PROVE IndexKept' /\ RunKept'
  <2>1. n # run.newest /\ index.newest = run.newest
    BY <1>9 DEF RemoveFull, At, Oldest, RunKept
  <2>2. IndexKept'
    BY <1>9, <2>1 DEF RemoveFull, IndexKept
  <2>3. RunKept'
    BY <1>9, <2>1 DEF RemoveFull, At, RunKept, TypeOK, RunState
  <2> QED BY <2>2, <2>3
<1>10. ASSUME NEW n \in Names, RemoveDump(n) PROVE IndexKept' /\ RunKept'
  <2>1. run.chain[n] = None /\ index.chain = run.chain
    BY <1>10 DEF RemoveDump, At, Oldest, RunKept
  <2>2. \A m \in Names : run.chain[m] # None => dumps'[m] = dumps[m]
    BY <1>10, <2>1 DEF RemoveDump, TypeOK, Chain
  <2>3. IndexKept'
    BY <1>10, <2>1, <2>2 DEF RemoveDump, IndexKept
  <2>4. RunKept'
    BY <1>10, <2>2 DEF RemoveDump, At, RunKept, TypeOK, RunState
  <2> QED BY <2>3, <2>4
<1>11. CASE UNCHANGED <<dumps, full, index, run>>
  <2>1. IndexKept'
    BY <1>11, IndexStays
  <2>2. RunKept'
    BY <1>11 DEF RunKept
  <2> QED BY <2>1, <2>2
<1> QED
  BY <1>1, <1>2, <1>3, <1>4, <1>5, <1>6, <1>7, <1>8, <1>9, <1>10, <1>11
  DEF Next, Step, TakeSnapshot, DeleteSnapshot, Poll, ApplyDump, ApplyFull, vars

\* The index keeps its promise, with what a run under way has to see to.
THEOREM IndexInvariant == Spec => []IndexInv
<1>1. Init => IndexKept /\ RunKept
  <2> SUFFICES ASSUME Init PROVE IndexKept /\ RunKept
    OBVIOUS
  <2>1. IndexKept
    BY DEF Init, IndexKept, NoIndex, NoChain, Unbroken
  <2>2. RunKept
    BY DEF Init, RunKept, IdleRun, NoChain
  <2> QED BY <2>1, <2>2
<1>2. TypeOK /\ IndexKept /\ RunKept /\ [Next]_vars => IndexKept' /\ RunKept'
  BY IndexStep DEF IndexInv
<1> QED BY <1>1, <1>2, TypeCorrect, PTL DEF Spec, IndexInv

\* What an index names is on disk with the hash it records, in one unbroken
\* line, whatever dies and whichever snapshots disappear.
THEOREM IndexKeepsItsPromise == Spec => []IndexKept
<1>1. IndexInv => IndexKept
  BY DEF IndexInv
<1> QED BY <1>1, IndexInvariant, PTL

-----------------------------------------------------------------------------
(* A dump keeps its parent *)

\* A snapshot enters a chain with a parent the index does not contradict.
LEMMA ListingKept ==
    ASSUME TypeOK, ParentsKept, UNCHANGED index,
           NEW n \in Names, NEW p \in Names, Lists(n, p),
           index.chain[n] # None => p = index.chain[n]
    PROVE  ParentsKept'
BY DEF Lists, ParentsKept, TypeOK, RunState, Chain

LEMMA ParentStep ==
    ASSUME IndexInv, ParentsKept, [Next]_vars
    PROVE  ParentsKept'
<1> USE DEF IndexInv
<1>1. CASE Start
  BY <1>1 DEF Start, ParentsKept, IdleRun, NoChain
<1>2. ASSUME NEW n \in Names, NEW p \in Names, ReuseDump(n, p)
      PROVE  ParentsKept'
  BY <1>2, ListingKept DEF ReuseDump, RecordedParent
<1>3. ASSUME NEW n \in Names, NEW p \in Names, SendDump(n, p)
      PROVE  ParentsKept'
  <2>1. index.chain[n] = None
    BY <1>3 DEF SendDump, IndexKept
  <2> QED BY <1>3, <2>1, ListingKept DEF SendDump
<1>4. CASE DumpsSent \/ SendFull
  BY <1>4 DEF DumpsSent, SendFull, ParentsKept, TypeOK, RunState
<1>5. CASE SendFails \/ Die \/ Finish
  BY <1>5 DEF SendFails, Die, Finish, ParentsKept, IdleRun, NoChain
<1>6. CASE Decide
  <2> DEFINE chain == Contiguous(run.chain, run.seen)
  <2>1. \A n \in Names : chain[n] # None => chain[n] = run.chain[n]
    BY ContiguousListed DEF TypeOK, RunState
  <2>2. run'.chain = chain /\ UNCHANGED index
    BY <1>6 DEF Decide, TypeOK, RunState
  <2> HIDE DEF chain
  <2> QED BY <2>1, <2>2 DEF ParentsKept
<1>7. CASE WriteIndex
  BY <1>7 DEF WriteIndex, ParentsKept, TypeOK, RunState
<1>8. ASSUME NEW n \in Names, RemoveFull(n) \/ RemoveDump(n)
      PROVE  ParentsKept'
  BY <1>8 DEF RemoveFull, RemoveDump, ParentsKept, TypeOK, RunState
<1>9. CASE UNCHANGED <<index, run>>
  BY <1>9 DEF ParentsKept
<1> QED
  BY <1>1, <1>2, <1>3, <1>4, <1>5, <1>6, <1>7, <1>8, <1>9
  DEF Next, Step, TakeSnapshot, DeleteSnapshot, Poll, ApplyDump, ApplyFull, vars

\* Only one step replaces the index, by one that lists what the run has.
LEMMA IndexReplaced ==
    ASSUME [Next]_vars, index' # index
    PROVE  index'.chain = run.chain
<1>1. Step => WriteIndex \/ UNCHANGED index
  <2>1. \A n \in Names, p \in Names :
           ReuseDump(n, p) \/ SendDump(n, p) => UNCHANGED index
    BY DEF ReuseDump, SendDump
  <2>2. \A n \in Names : RemoveFull(n) \/ RemoveDump(n) => UNCHANGED index
    BY DEF RemoveFull, RemoveDump
  <2>3. DumpsSent \/ SendFull \/ SendFails \/ Decide \/ Finish => UNCHANGED index
    BY DEF DumpsSent, SendFull, SendFails, Decide, Finish
  <2> QED BY <2>1, <2>2, <2>3 DEF Step
<1>2. Start \/ Die \/ Poll \/ ApplyFull => UNCHANGED index
  BY DEF Start, Die, Poll, ApplyFull
<1>3. \A n \in Names : TakeSnapshot(n) \/ DeleteSnapshot(n) \/ ApplyDump(n)
                          => UNCHANGED index
  BY DEF TakeSnapshot, DeleteSnapshot, ApplyDump
<1>4. WriteIndex
  BY <1>1, <1>2, <1>3 DEF Next, vars
<1> QED BY <1>4 DEF WriteIndex

\* As long as a dump stays listed, from one index to the next, none names
\* another parent for it, for any number of snapshots that disappear and runs
\* that die. A dump that an index has dropped, and whose run died before it
\* removed the file, is outside: see ParentTrue.
THEOREM ParentsStay == Spec => ParentStays
<1>1. Init => ParentsKept
  BY DEF Init, ParentsKept, IdleRun, NoChain
<1>2. IndexInv /\ ParentsKept /\ [Next]_vars => ParentsKept'
  BY ParentStep
<1>3. ParentsKept /\ [Next]_vars
        => [\A n \in Names : index.chain[n] # None /\ index'.chain[n] # None
               => index'.chain[n] = index.chain[n]]_vars
  BY IndexReplaced DEF ParentsKept
<1> QED BY <1>1, <1>2, <1>3, IndexInvariant, PTL DEF Spec, ParentStays

=============================================================================
