----------------------------- MODULE MirrorSync -----------------------------
(***************************************************************************)
(* packagetool-mirror-sync: the dumps a btrfs mirror follows one source by.*)
(*                                                                         *)
(* A run sends every snapshot that has no dump yet against the one before  *)
(* it, sends the newest one in full, publishes a chain index that says how *)
(* the dumps fit together, and only then removes the dumps the index no    *)
(* longer names. Snapshots are taken and deleted by packagetool-snapshot,  *)
(* under a lock of its own, also while a run works. A run may die at any   *)
(* step. A mirror polls the index and applies what it names.               *)
(*                                                                         *)
(* Simplifications:                                                        *)
(*  - one source: the chains of two sources share nothing but the lock;    *)
(*  - a snapshot is the position of its name in chronological order;       *)
(*  - a dump is what it was sent against, which is also what its hash      *)
(*    stands for; a full dump of a snapshot is always the same stream;     *)
(*  - a temporary file that was not renamed is not seen by anyone;         *)
(*  - the lock leaves one run at a time: there is one;                     *)
(*  - a dry run is left out.                                               *)
(***************************************************************************)
EXTENDS Naturals

CONSTANT
    MaxSnapshot     \* bound: the snapshots that are ever taken

ASSUME MirrorSyncAssumption == MaxSnapshot \in Nat \ {0}

Names == 1 .. MaxSnapshot
None == 0               \* no such snapshot, no such file

VARIABLES
    snapshots,      \* the names below snapshots/<source>
    dumps,          \* dumps[n]: what the dump of snapshot n was sent against
    full,           \* the snapshots there is a full dump of
    index,          \* the chain index
    run,            \* the local state of the run
    mirror          \* a mirror of this source

vars == <<snapshots, dumps, full, index, run, mirror>>

-----------------------------------------------------------------------------
(* Chains *)

NoChain == [n \in Names |-> None]

\* chain[n]: the parent a dump is listed with, None when it is not listed.
Chain == [Names -> Names \cup {None}]

\* digest[n]: the dump whose hash is recorded; newest: the full dump, None
\* before there is an index.
Index == [chain : Chain, digest : Chain, newest : Names \cup {None}]

NoIndex == [chain |-> NoChain, digest |-> NoChain, newest |-> None]

\* p is the name before n among those listed, None when n is the first.
Precedes(p, n, listed) ==
    /\ p \in {m \in listed : m < n} \cup {None}
    /\ \A m \in listed : m < n => m <= p

Oldest(n, listed) == n \in listed /\ \A m \in listed : n <= m

\* Mutant: the list is read from the wrong end.
Newest_First(n, listed) == Oldest(n, listed)

Newest(n, listed) == n \in listed /\ \A m \in listed : m <= n

Phases == {"idle", "send", "full", "decide", "index", "remove"}

\* seen: the snapshots the run found; newest: the last of them; todo: those
\* it has still to visit.
RunState == [pc       : Phases,
             seen     : SUBSET Names,
             newest   : Names \cup {None},
             todo     : SUBSET Names,
             chain    : Chain,
             obsolete : SUBSET Names,
             fulls    : SUBSET Names]

IdleRun == [pc |-> "idle", seen |-> {}, newest |-> None, todo |-> {},
            chain |-> NoChain, obsolete |-> {}, fulls |-> {}]

TypeOK ==
    /\ snapshots \subseteq Names
    /\ dumps \in Chain
    /\ full \subseteq Names
    /\ index \in Index
    /\ run \in RunState
    /\ \A n \in run.seen : n <= run.newest
    /\ mirror \in [at : Names \cup {None}, index : Index]

Init ==
    /\ snapshots = {}
    /\ dumps = NoChain
    /\ full = {}
    /\ index = NoIndex
    /\ run = IdleRun
    /\ mirror = [at |-> None, index |-> NoIndex]

-----------------------------------------------------------------------------
(* A run *)

At(phase) == run.pc = phase

\* sync_source lists the snapshots; with none there is nothing to do. Every
\* snapshot but the first has a predecessor to be sent against.
Start ==
    /\ At("idle")
    /\ \E newest \in Names :
         /\ Newest(newest, snapshots)
         /\ run' = [IdleRun EXCEPT
                       !.pc = "send",
                       !.seen = snapshots,
                       !.newest = newest,
                       !.todo = {n \in snapshots : ~Oldest(n, snapshots)}]
    /\ UNCHANGED <<snapshots, dumps, full, index, mirror>>

\* Mutant: the parent is worked out from the snapshots there are today.
RecordedParent_Adjacent(p, n) == Precedes(p, n, run.seen)

\* previous_parent_for, and what is assumed where the index names none.
RecordedParent(p, n) ==
    IF index.chain[n] # None THEN p = index.chain[n]
                             ELSE Precedes(p, n, run.seen)

\* A snapshot is visited, and enters the chain with a parent.
Lists(n, p) ==
    /\ At("send")
    /\ Oldest(n, run.todo)
    /\ run' = [run EXCEPT !.todo = @ \ {n}, !.chain = [@ EXCEPT ![n] = p]]

\* A dump that is there is never sent again.
ReuseDump(n, p) ==
    /\ Lists(n, p)
    /\ dumps[n] # None
    /\ RecordedParent(p, n)
    /\ UNCHANGED <<snapshots, dumps, full, index, mirror>>

\* btrfs needs both snapshots.
SendDump(n, p) ==
    /\ Lists(n, p)
    /\ dumps[n] = None
    /\ Precedes(p, n, run.seen)
    /\ {p, n} \subseteq snapshots
    /\ dumps' = [dumps EXCEPT ![n] = p]
    /\ UNCHANGED <<snapshots, full, index, mirror>>

DumpsSent ==
    /\ At("send")
    /\ run.todo = {}
    /\ run' = [run EXCEPT !.pc = "full"]
    /\ UNCHANGED <<snapshots, dumps, full, index, mirror>>

\* The newest snapshot in full, unless there is such a dump already.
SendFull ==
    /\ At("full")
    /\ run.newest \in full \cup snapshots
    /\ full' = full \cup {run.newest}
    /\ run' = [run EXCEPT !.pc = "decide"]
    /\ UNCHANGED <<snapshots, dumps, index, mirror>>

\* A snapshot that was there when the run began is gone: the run dies, and
\* the dumps it has sent stay.
SendFails ==
    /\ \/ /\ At("send")
          /\ \E n \in Names, p \in Names :
               /\ Oldest(n, run.todo)
               /\ dumps[n] = None
               /\ Precedes(p, n, run.seen)
               /\ ~({p, n} \subseteq snapshots)
       \/ /\ At("full")
          /\ run.newest \notin full \cup snapshots
    /\ run' = IdleRun
    /\ UNCHANGED <<snapshots, dumps, full, index, mirror>>

\* Mutant: the entries behind a gap stay in the chain.
Contiguous_Kept(chain, seen) == chain

\* The chain up to the first entry whose parent is not the snapshot of the
\* entry before it, or, for the first entry, the oldest snapshot.
Contiguous(chain, seen) ==
    LET Fits(n) == Precedes(chain[n], n, seen)
    IN  [n \in Names |-> IF \A m \in seen : m <= n => Fits(m)
                         THEN chain[n] ELSE None]

\* Mutant: a dump is obsolete when its starting point is gone.
Unlisted_ByParent(chain) ==
    {n \in Names : dumps[n] # None /\ chain[n] \notin snapshots}

\* The dumps a chain does not list.
Unlisted(chain) == {n \in Names : dumps[n] # None /\ chain[n] = None}

\* What is named from here on and what is not; nothing is removed yet.
Decide ==
    LET chain == Contiguous(run.chain, run.seen)
    IN  /\ At("decide")
        /\ run' = [run EXCEPT !.pc = "index",
                              !.chain = chain,
                              !.obsolete = Unlisted(chain),
                              !.fulls = full \ {run.newest}]
        /\ UNCHANGED <<snapshots, dumps, full, index, mirror>>

\* digest_of: the recorded hash when the index names a file of that name and
\* that size, the hash of the file otherwise.
DigestOf(n) ==
    {dumps[n]} \cup (IF index.chain[n] # None THEN {index.digest[n]} ELSE {})

\* The index is renamed into place.
WriteIndex ==
    /\ At("index")
    /\ \E digest \in Chain :
         /\ \A n \in Names : IF run.chain[n] = None THEN digest[n] = None
                                                    ELSE digest[n] \in DigestOf(n)
         /\ index' = [chain |-> run.chain, digest |-> digest,
                      newest |-> run.newest]
    /\ run' = [run EXCEPT !.pc = "remove"]
    /\ UNCHANGED <<snapshots, dumps, full, mirror>>

\* The dumps go one after the other, in the order of their file names.
RemoveFull(n) ==
    /\ At("remove")
    /\ Oldest(n, run.fulls)
    /\ full' = full \ {n}
    /\ run' = [run EXCEPT !.fulls = @ \ {n}]
    /\ UNCHANGED <<snapshots, dumps, index, mirror>>

RemoveDump(n) ==
    /\ At("remove")
    /\ run.fulls = {}
    /\ Oldest(n, run.obsolete)
    /\ dumps' = [dumps EXCEPT ![n] = None]
    /\ run' = [run EXCEPT !.obsolete = @ \ {n}]
    /\ UNCHANGED <<snapshots, full, index, mirror>>

Finish ==
    /\ At("remove")
    /\ run.fulls = {} /\ run.obsolete = {}
    /\ run' = IdleRun
    /\ UNCHANGED <<snapshots, dumps, full, index, mirror>>

\* Any other error, or a kill: what was renamed into place stays.
Die ==
    /\ ~At("idle")
    /\ run' = IdleRun
    /\ UNCHANGED <<snapshots, dumps, full, index, mirror>>

Step ==
    \/ \E n \in Names, p \in Names : ReuseDump(n, p) \/ SendDump(n, p)
    \/ DumpsSent
    \/ SendFull
    \/ SendFails
    \/ Decide
    \/ WriteIndex
    \/ \E n \in Names : RemoveFull(n) \/ RemoveDump(n)
    \/ Finish

-----------------------------------------------------------------------------
(* The snapshots: taken by a publish; deleted by its retention, which keeps *)
(* the newest one, in any order, as kept trees hold on to some of them.     *)

TakeSnapshot(n) ==
    /\ \A m \in snapshots : m < n
    /\ Precedes(n - 1, n, snapshots)
    /\ snapshots' = snapshots \cup {n}
    /\ UNCHANGED <<dumps, full, index, run, mirror>>

DeleteSnapshot(n) ==
    /\ \E m \in snapshots : n < m
    /\ n \in snapshots
    /\ snapshots' = snapshots \ {n}
    /\ UNCHANGED <<dumps, full, index, run, mirror>>

-----------------------------------------------------------------------------
(* A mirror: it polls the index, and decides from that index alone.         *)

Poll ==
    /\ mirror.index # index
    /\ mirror' = [mirror EXCEPT !.index = index]
    /\ UNCHANGED <<snapshots, dumps, full, index, run>>

\* The snapshot a mirror has is one the index knows.
Found ==
    \/ mirror.at = mirror.index.newest
    \/ \E n \in Names : mirror.at \in {n, mirror.index.chain[n]}
                            /\ mirror.index.chain[n] # None

\* The dump that follows what the mirror has: its bytes have the hash the
\* index records, and it can be received on what it was sent against. A dump
\* that is gone, or another one by now, is not applied.
ApplyDump(n) ==
    /\ mirror.at # None
    /\ mirror.index.chain[n] = mirror.at
    /\ dumps[n] = mirror.index.digest[n]
    /\ dumps[n] = mirror.at
    /\ mirror' = [mirror EXCEPT !.at = n]
    /\ UNCHANGED <<snapshots, dumps, full, index, run>>

\* Not found: the full dump, and a new start.
ApplyFull ==
    /\ ~Found
    /\ mirror.index.newest \in full
    /\ mirror' = [mirror EXCEPT !.at = mirror.index.newest]
    /\ UNCHANGED <<snapshots, dumps, full, index, run>>

-----------------------------------------------------------------------------
Next ==
    \/ Start
    \/ Step
    \/ Die
    \/ \E n \in Names : TakeSnapshot(n) \/ DeleteSnapshot(n)
    \/ Poll
    \/ \E n \in Names : ApplyDump(n)
    \/ ApplyFull

Spec == Init /\ [][Next]_vars

\* Every publish ends in a run, a run goes on, and the mirror polls.
Fairness ==
    /\ WF_vars(Start)
    /\ WF_vars(Step)
    /\ WF_vars(Poll)
    /\ WF_vars(\E n \in Names : ApplyDump(n))
    /\ WF_vars(ApplyFull)

FairSpec == Spec /\ Fairness

-----------------------------------------------------------------------------
(* Properties *)

\* The dumps a chain lists lead from one snapshot to the next, in one line.
Unbroken(chain) ==
    LET listed == {n \in Names : chain[n] # None}
        line == listed \cup {chain[n] : n \in listed}
    IN  \A n \in listed : Precedes(chain[n], n, line)

\* What the index promises is there: every dump it names is on disk with the
\* recorded hash, the full dump is, and the chain is one unbroken line. It
\* holds at every moment a mirror may look: between two renames, between the
\* index and the removals, and after a run that died.
IndexKept ==
    /\ index.newest # None => index.newest \in full
    /\ \A n \in Names : index.chain[n] # None =>
           dumps[n] # None /\ index.digest[n] = dumps[n]
    /\ Unbroken(index.chain)

\* "A dump's parent is immutable once it exists": as long as a dump stays
\* listed, no later index names another parent for it, whatever snapshots
\* disappear in between.
ParentStays ==
    [][\A n \in Names : index.chain[n] # None /\ index'.chain[n] # None
          => index'.chain[n] = index.chain[n]]_vars

\* packagetool-mirror-sync: an index that relabels a dump with a parent it
\* does not need is "exactly the lie a mirror must never be told".
ParentTrue ==
    \A n \in Names : index.chain[n] # None => index.chain[n] = dumps[n]

SnapshotsChange == snapshots' # snapshots

\* A run dies before it has finished, and of nothing it waits for.
Dies == Die /\ ~Finish /\ ~SendFails

\* Once publishes stop taking and deleting snapshots and runs stop dying, a
\* mirror that follows the documented loop gets to the newest snapshot and
\* stays there, wherever it stood and whatever gap was cut out of the chain
\* it was on, unless it is told the lie.
MirrorCatchesUp ==
    []ParentTrue /\ <>[][~Dies /\ ~SnapshotsChange]_vars
        => <>[](snapshots # {} => Newest(mirror.at, snapshots))

-----------------------------------------------------------------------------
(* What makes IndexKept inductive *)

\* The chain a run builds lists only what is on disk, also where the run has
\* begun to remove what it does not list; by then it is the published one.
RunKept ==
    /\ run.todo \subseteq run.seen
    /\ \A n \in Names : run.chain[n] # None =>
           n \in run.seen /\ dumps[n] # None
    /\ run.pc \in {"decide", "index", "remove"} => run.newest \in full
    /\ run.pc \in {"index", "remove"} =>
           /\ run.newest \notin run.fulls
           /\ \A n \in run.obsolete : run.chain[n] = None
           /\ Unbroken(run.chain)
    /\ run.pc = "remove" =>
           index.chain = run.chain /\ index.newest = run.newest

IndexInv == TypeOK /\ IndexKept /\ RunKept

-----------------------------------------------------------------------------
(* What makes ParentStays inductive *)

\* A dump that the index lists enters a run's chain with the parent it is
\* listed with.
ParentsKept ==
    \A n \in Names : run.chain[n] # None /\ index.chain[n] # None
                        => run.chain[n] = index.chain[n]

=============================================================================
