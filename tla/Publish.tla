------------------------------ MODULE Publish ------------------------------
(***************************************************************************)
(* packagetool-publish: from a release upstream to the served tree.        *)
(*                                                                         *)
(* A run lists the releases, fetches what its sources have not recorded,   *)
(* records it package by package and family by family, verifies every      *)
(* source and calls packagetool-snapshot. With --refresh it dates and      *)
(* signs the documents anew instead of looking for releases. Runs exclude  *)
(* each other with a lock; each may die at any step, and what it recorded  *)
(* stays in the working tree.                                              *)
(*                                                                         *)
(* Simplifications:                                                        *)
(*  - a package is named once: its archive, its sidecars and the meta file *)
(*    a source may require arrive together or the run dies;                *)
(*  - one repository feeds all sources, so a run has one listing; no two   *)
(*    releases offer the same package at the same version;                 *)
(*  - an index is what it records; dates are the subject of Source, and    *)
(*    writes do not fall into one second, as advance_clock sees to it;     *)
(*  - packagetool-snapshot switches in one step, which AtomicDocroot is    *)
(*    about; nobody else calls it, and nobody else writes the documents;   *)
(*  - the files above the sources and the dumps are left out;              *)
(*  - a source is laid down in one step, with its documents signed;        *)
(*  - a dry run, which takes no lock and changes nothing, is left out;     *)
(*  - sources, and the packages of a version, are visited in any order.    *)
(***************************************************************************)
EXTENDS Naturals

CONSTANTS
    Packages,       \* the packages that are published
    Sources,        \* the sources of the registry
    Home,           \* Home[p]: the source that carries package p
    Families,       \* the sources with a meta package for all they carry
    LaidDown,       \* the sources that are laid down to begin with
    MaxVersion,     \* bound: the versions that are released
    Uploads,        \* what a release may add at once
    Runs,           \* the invocations that may be under way
    Selections,     \* what --source may name; all of Sources stands for none given
    NoRun           \* nobody holds the lock

ASSUME PublishAssumption ==
    /\ Home \in [Packages -> Sources]
    /\ Families \subseteq Sources
    /\ LaidDown \subseteq Sources
    /\ MaxVersion \in Nat \ {0}
    /\ Uploads \subseteq SUBSET Packages
    /\ Selections \subseteq SUBSET Sources
    /\ NoRun \notin Runs

Versions == 1 .. MaxVersion
Releases == Packages \X Versions
Documents == {"index", "mirrors"}

VARIABLES
    offered,        \* the packages the releases upstream offer
    working,        \* working[s]: the source as it is prepared
    served,         \* served[s]: the source in the served tree
    lock,           \* the run that holds .publish.lock
    run             \* run[r]: the local state of an invocation

vars == <<offered, working, served, lock, run>>

-----------------------------------------------------------------------------
(* The state of a source and of a run *)

Index == [packages : SUBSET Releases, metas : SUBSET Versions]
NoIndex == [packages |-> {}, metas |-> {}]

\* unsigned: the documents whose signature is not of what they say;
\* torn: those that are no JSON document. A torn index records nothing.
Source == [laid     : BOOLEAN,
           index    : Index,
           unsigned : SUBSET Documents,
           torn     : SUBSET Documents]

NoSource == [laid |-> FALSE, index |-> NoIndex, unsigned |-> {}, torn |-> {}]

Phases == {"idle", "source", "version", "refresh", "write", "sign", "verify",
           "snapshot", "report"}

\* todo: the sources the phase has still to visit; source: the one it is at;
\* document: the one being written, with index as its contents.
RunState == [pc         : Phases,
             refreshing : BOOLEAN,
             wanted     : SUBSET Sources,
             todo       : SUBSET Sources,
             listing    : SUBSET Releases,
             source     : Sources \cup {NoRun},
             pending    : SUBSET Releases,
             versions   : SUBSET Versions,
             document   : Documents,
             index      : Index]

IdleRun == [pc         |-> "idle",
            refreshing |-> FALSE,
            wanted     |-> {},
            todo       |-> {},
            listing    |-> {},
            source     |-> NoRun,
            pending    |-> {},
            versions   |-> {},
            document   |-> "index",
            index      |-> NoIndex]

\* A run that is recording or refreshing is at a source.
Sited(state) ==
    state.pc \in {"version", "write", "sign"} => state.source \in Sources

RunsOK ==
    /\ run \in [Runs -> RunState]
    /\ \A r \in Runs : Sited(run[r])

TypeOK ==
    /\ offered \subseteq Releases
    /\ working \in [Sources -> Source]
    /\ served \in [Sources -> Source]
    /\ lock \in Runs \cup {NoRun}
    /\ RunsOK

\* The storage is set up and nothing was published: the sources are empty,
\* or there is nothing in them at all. The docroot is a placeholder.
Init ==
    /\ offered = {}
    /\ working = [s \in Sources |-> [NoSource EXCEPT !.laid = s \in LaidDown]]
    /\ served = [s \in Sources |-> NoSource]
    /\ lock = NoRun
    /\ run = [r \in Runs |-> IdleRun]

-----------------------------------------------------------------------------
(* Helpers *)

At(r, phase) == run[r].pc = phase
Becomes(r, state) == run' = [run EXCEPT ![r] = state]
SourceBecomes(s, state) == working' = [working EXCEPT ![s] = state]

MembersAt(s, v) == {<<p, v>> : p \in {q \in Packages : Home[q] = s}}

\* Mutant: only the versions with a package that is missing.
VersionsOf_Missing(s, listed, pending) == {e[2] : e \in pending}

\* The versions publish_source visits: those with a package that is missing
\* and, where there is a family, those it has every package of.
VersionsOf(s, listed, pending) ==
    {e[2] : e \in IF s \in Families THEN listed ELSE pending}

Oldest(v, versions) == v \in versions /\ \A u \in versions : v <= u

\* verify.py accepts the source, or there is none yet.
Verifies(source) ==
    source.laid => source.unsigned = {} /\ source.torn = {}

-----------------------------------------------------------------------------
(* The steps of a run *)

\* Mutant: the lock file is opened and not locked.
TakeLock_Open(r) == lock' = r

\* A run that finds the lock taken gives up.
TakeLock(r) == lock = NoRun /\ lock' = r

\* The releases are listed once, for all sources.
Start(r, wanted, refreshing) ==
    /\ At(r, "idle")
    /\ TakeLock(r)
    /\ Becomes(r, [IdleRun EXCEPT
                     !.pc = IF refreshing THEN "refresh" ELSE "source",
                     !.refreshing = refreshing,
                     !.wanted = wanted,
                     !.todo = wanted,
                     !.listing = IF refreshing THEN {} ELSE offered])
    /\ UNCHANGED <<offered, working, served>>

\* publish_source works out what the source is missing.
PlanSource(r, s) ==
    LET listed  == {e \in run[r].listing : Home[e[1]] = s}
        pending == listed \ working[s].index.packages
    IN  /\ At(r, "source")
        /\ s \in run[r].todo
        /\ working[s].laid
        /\ Becomes(r, [run[r] EXCEPT !.pc = "version",
                                     !.todo = @ \ {s},
                                     !.source = s,
                                     !.pending = pending,
                                     !.versions = VersionsOf(s, listed, pending)])
        /\ UNCHANGED <<offered, working, served, lock>>

\* A source that is not laid down is reported and skipped.
SkipSource(r, s) ==
    /\ At(r, "source") \/ At(r, "refresh")
    /\ s \in run[r].todo
    /\ ~working[s].laid
    /\ Becomes(r, [run[r] EXCEPT !.todo = @ \ {s}])
    /\ UNCHANGED <<offered, working, served, lock>>

\* Mutant: only the source the run was at last is verified.
SourcesDone_Last(r) ==
    /\ At(r, "source") \/ At(r, "refresh")
    /\ run[r].todo = {}
    /\ Becomes(r, [run[r] EXCEPT !.pc = "verify",
                                 !.todo = run[r].wanted \cap {run[r].source}])
    /\ UNCHANGED <<offered, working, served, lock>>

SourcesDone(r) ==
    /\ At(r, "source") \/ At(r, "refresh")
    /\ run[r].todo = {}
    /\ Becomes(r, [run[r] EXCEPT !.pc = "verify", !.todo = run[r].wanted])
    /\ UNCHANGED <<offered, working, served, lock>>

\* The index the tool is about to write.
Writes(r, index, state) ==
    Becomes(r, [state EXCEPT !.pc = "write", !.document = "index", !.index = index])

\* Mutant: an index that cannot be read is begun anew.
RecordPackage_Afresh(r, p, v) ==
    LET source == working[run[r].source]
    IN  /\ At(r, "version")
        /\ Oldest(v, run[r].versions)
        /\ <<p, v>> \in run[r].pending
        /\ Writes(r, [source.index EXCEPT !.packages = @ \cup {<<p, v>>}],
                  [run[r] EXCEPT !.pending = @ \ {<<p, v>>}])
        /\ UNCHANGED <<offered, working, served, lock>>

\* A package of the oldest version is fetched and added to what the index
\* says by then.
RecordPackage(r, p, v) ==
    LET source == working[run[r].source]
    IN  /\ At(r, "version")
        /\ Oldest(v, run[r].versions)
        /\ <<p, v>> \in run[r].pending
        /\ "index" \notin source.torn
        /\ <<p, v>> \notin source.index.packages
        /\ Writes(r, [source.index EXCEPT !.packages = @ \cup {<<p, v>>}],
                  [run[r] EXCEPT !.pending = @ \ {<<p, v>>}])
        /\ UNCHANGED <<offered, working, served, lock>>

\* Whether record_meta has something to write.
MetaDue(s, v) ==
    /\ s \in Families
    /\ v \notin working[s].index.metas
    /\ MembersAt(s, v) \subseteq working[s].index.packages

\* The version is complete: its meta package is recorded, ...
RecordMeta(r, v) ==
    LET source == working[run[r].source]
    IN  /\ At(r, "version")
        /\ Oldest(v, run[r].versions)
        /\ \A e \in run[r].pending : e[2] # v
        /\ MetaDue(run[r].source, v)
        /\ Writes(r, [source.index EXCEPT !.metas = @ \cup {v}],
                  [run[r] EXCEPT !.versions = @ \ {v}])
        /\ UNCHANGED <<offered, working, served, lock>>

\* ... or waits for a member, or is there, or there is none.
LeaveVersion(r, v) ==
    /\ At(r, "version")
    /\ Oldest(v, run[r].versions)
    /\ \A e \in run[r].pending : e[2] # v
    /\ ~MetaDue(run[r].source, v)
    /\ Becomes(r, [run[r] EXCEPT !.versions = @ \ {v}])
    /\ UNCHANGED <<offered, working, served, lock>>

SourceDone(r) ==
    /\ At(r, "version")
    /\ run[r].versions = {}
    /\ Becomes(r, [run[r] EXCEPT !.pc = "source"])
    /\ UNCHANGED <<offered, working, served, lock>>

\* refresh rewrites the index of a source, and the mirror list after it.
RefreshSource(r, s) ==
    /\ At(r, "refresh")
    /\ s \in run[r].todo
    /\ working[s].laid
    /\ "index" \notin working[s].torn
    /\ Writes(r, working[s].index,
              [run[r] EXCEPT !.todo = @ \ {s}, !.source = s])
    /\ UNCHANGED <<offered, working, served, lock>>

\* write_signed: the document is in place, its signature is the old one, ...
WriteDocument(r) ==
    LET s == run[r].source
        d == run[r].document
    IN  /\ At(r, "write")
        /\ SourceBecomes(s, [working[s] EXCEPT
                               !.index = IF d = "index" THEN run[r].index ELSE @,
                               !.unsigned = @ \cup {d},
                               !.torn = @ \ {d}])
        /\ Becomes(r, [run[r] EXCEPT !.pc = "sign"])
        /\ UNCHANGED <<offered, served, lock>>

\* ... and now it is the new one.
SignDocument(r) ==
    LET s == run[r].source
        d == run[r].document
    IN  /\ At(r, "sign")
        /\ run[r].refreshing /\ d = "index" => "mirrors" \notin working[s].torn
        /\ SourceBecomes(s, [working[s] EXCEPT !.unsigned = @ \ {d}])
        /\ Becomes(r, [run[r] EXCEPT
                         !.pc = IF ~run[r].refreshing THEN "version"
                                ELSE IF d = "index" THEN "write" ELSE "refresh",
                         !.document = IF run[r].refreshing /\ d = "index"
                                      THEN "mirrors" ELSE "index"])
        /\ UNCHANGED <<offered, served, lock>>

\* verify_tree: the sources the run was given, one after the other.
VerifySource(r, s) ==
    /\ At(r, "verify")
    /\ s \in run[r].todo
    /\ Verifies(working[s])
    /\ Becomes(r, [run[r] EXCEPT !.todo = @ \ {s}])
    /\ UNCHANGED <<offered, working, served, lock>>

TreeVerified(r) ==
    /\ At(r, "verify")
    /\ run[r].todo = {}
    /\ Becomes(r, [run[r] EXCEPT !.pc = "snapshot"])
    /\ UNCHANGED <<offered, working, served, lock>>

\* publish_tree: packagetool-snapshot takes all sources, whatever --source
\* named, and runs whether or not anything was recorded.
PublishTree(r) ==
    /\ At(r, "snapshot")
    /\ served' = working
    /\ Becomes(r, [run[r] EXCEPT !.pc = "report"])
    /\ UNCHANGED <<offered, working, lock>>

Leaves(r) == Becomes(r, IdleRun) /\ lock' = NoRun

Finish(r) ==
    /\ At(r, "report")
    /\ Leaves(r)
    /\ UNCHANGED <<offered, working, served>>

\* What a run cannot get past: a document that is torn, a source that does
\* not verify.
Refuse(r) ==
    /\ \/ /\ At(r, "version")
          /\ run[r].pending # {}
          /\ "index" \in working[run[r].source].torn
       \/ /\ At(r, "refresh")
          /\ \E s \in run[r].todo : "index" \in working[s].torn
       \/ /\ At(r, "verify")
          /\ \E s \in run[r].todo : ~Verifies(working[s])
    /\ Leaves(r)
    /\ UNCHANGED <<offered, working, served>>

\* The index of a source is refreshed and its mirror list is torn.
RefuseMirrors(r) ==
    LET s == run[r].source
    IN  /\ At(r, "sign")
        /\ run[r].refreshing /\ run[r].document = "index"
        /\ "mirrors" \in working[s].torn
        /\ SourceBecomes(s, [working[s] EXCEPT !.unsigned = @ \ {"index"}])
        /\ Leaves(r)
        /\ UNCHANGED <<offered, served>>

\* A download or a snapshot that fails, or a kill: the lock goes with the
\* process, and nothing else does.
Die(r) ==
    /\ ~At(r, "idle")
    /\ Leaves(r)
    /\ UNCHANGED <<offered, working, served>>

\* A kill in the middle of writing a document.
Tear(r) ==
    LET s == run[r].source
        d == run[r].document
    IN  /\ At(r, "write")
        /\ SourceBecomes(s, [working[s] EXCEPT
                               !.index = IF d = "index" THEN NoIndex ELSE @,
                               !.torn = @ \cup {d}])
        /\ Leaves(r)
        /\ UNCHANGED <<offered, served>>

Step(r) ==
    \/ \E s \in Sources : \/ PlanSource(r, s)
                          \/ SkipSource(r, s)
                          \/ RefreshSource(r, s)
                          \/ VerifySource(r, s)
    \/ \E p \in Packages, v \in Versions : RecordPackage(r, p, v)
    \/ \E v \in Versions : RecordMeta(r, v) \/ LeaveVersion(r, v)
    \/ SourceDone(r)
    \/ SourcesDone(r)
    \/ WriteDocument(r)
    \/ SignDocument(r)
    \/ TreeVerified(r)
    \/ PublishTree(r)
    \/ Finish(r)
    \/ Refuse(r)
    \/ RefuseMirrors(r)

-----------------------------------------------------------------------------
(* What goes on around a run *)

\* A build uploads packages of a version.
Upload(uploaded, v) ==
    /\ offered' = offered \cup (uploaded \X {v})
    /\ offered' # offered
    /\ UNCHANGED <<working, served, lock, run>>

\* Somebody with the root keys lays a source down.
LayDown(s) ==
    /\ ~working[s].laid
    /\ SourceBecomes(s, [NoSource EXCEPT !.laid = TRUE])
    /\ UNCHANGED <<offered, served, lock, run>>

Next ==
    \/ \E r \in Runs :
         \/ \E wanted \in Selections, refreshing \in BOOLEAN :
              Start(r, wanted, refreshing)
         \/ Step(r)
         \/ Die(r)
         \/ Tear(r)
    \/ \E uploaded \in Uploads, v \in Versions : Upload(uploaded, v)
    \/ \E s \in Sources : LayDown(s)

Spec == Init /\ [][Next]_vars

\* Runs of both kinds are started again and again, at moments that have
\* nothing to do with each other, so each kind finds the lock free at times.
Fairness ==
    /\ \A refreshing \in BOOLEAN :
         SF_vars(\E r \in Runs : Start(r, Sources, refreshing))
    /\ \A r \in Runs : WF_vars(Step(r))

FairSpec == Spec /\ Fairness

-----------------------------------------------------------------------------
(* Properties *)

\* The run "verifies the result with the reference verifier, and only then
\* takes a snapshot": no source is served that a client would refuse, also
\* where a run before this one died between a document and its signature.
ServedVerifies ==
    \A s \in Sources : Verifies(served[s])

\* All that an index records is in a later one.
Includes(later, index) ==
    /\ index.packages \subseteq later.packages
    /\ index.metas \subseteq later.metas

\* What clients have been shown does not disappear: no publish drops a
\* package or a meta package that was served, though runs start from what
\* dead runs left in the working tree.
ServedStays ==
    [][\A s \in Sources : Includes(served'[s].index, served[s].index)]_vars

\* A client finds what the releases offer, with the meta packages of the
\* versions that are complete.
Complete(s) ==
    /\ {e \in offered : Home[e[1]] = s} \subseteq served[s].index.packages
    /\ s \in Families =>
         \A v \in Versions : MembersAt(s, v) \subseteq served[s].index.packages
                                => v \in served[s].index.metas

Dies == \E r \in Runs : Die(r) /\ ~Finish(r) /\ ~Refuse(r)

NothingTorn == \A s \in Sources : working[s].torn = {}

\* Once runs stop dying, every source that is laid down serves all that is
\* offered, whatever dead runs left behind: packages without their family,
\* packages that were never served, documents without their signature.
EventuallyPublished ==
    []NothingTorn /\ <>[][~Dies]_vars
        => <>[](\A s \in Sources : working[s].laid => Complete(s))

-----------------------------------------------------------------------------
(* What makes ServedVerifies inductive, where --source is not used *)

\* Only the run that holds the lock is at work.
Exclusive == \A r \in Runs : ~At(r, "idle") => lock = r

\* What a run has verified of the working tree stays as it was.
Verified(r) ==
    /\ ~At(r, "idle") => run[r].wanted = Sources
    /\ At(r, "verify") =>
         \A s \in Sources \ run[r].todo : Verifies(working[s])
    /\ At(r, "snapshot") =>
         \A s \in Sources : Verifies(working[s])

PublishInv ==
    /\ TypeOK
    /\ Exclusive
    /\ ServedVerifies
    /\ \A r \in Runs : Verified(r)

-----------------------------------------------------------------------------
(* What makes ServedStays inductive, where --source is not used *)

\* A source that is prepared has all that is served of it, unless its index
\* is torn, and one that was never laid down is not served.
SourceKept(s) ==
    /\ ~working[s].laid => /\ working[s] = NoSource
                           /\ Includes(NoIndex, served[s].index)
    /\ IF "index" \in working[s].torn
       THEN working[s].index = NoIndex
       ELSE Includes(working[s].index, served[s].index)

\* So has an index that is about to be written. A version is visited only
\* where something is listed of it, so a torn index is never complete.
Recording(r) ==
    LET s == run[r].source
    IN  /\ At(r, "refresh") => run[r].refreshing
        /\ run[r].pc \in {"source", "version"} => ~run[r].refreshing
        /\ run[r].pc \in {"version", "write", "sign"} =>
              /\ working[s].laid
              /\ ~run[r].refreshing /\ s \in Families =>
                    \A v \in run[r].versions : MembersAt(s, v) # {}
        /\ At(r, "write") /\ run[r].document = "index" =>
              Includes(run[r].index, served[s].index)

KeptInv ==
    /\ PublishInv
    /\ \A s \in Sources : SourceKept(s)
    /\ \A r \in Runs : Recording(r)

=============================================================================
