------------------------------- MODULE Source -------------------------------
(***************************************************************************)
(* One package source as the command line tool writes it: index.json and   *)
(* mirrors.json, each with a detached signature in a file of its own.      *)
(*                                                                         *)
(* An invocation reads the documents, decides, and writes a document and   *)
(* then its signature; nothing locks the source and nothing is replaced    *)
(* atomically, so an invocation can be killed in between, and two of them  *)
(* can interleave.                                                         *)
(*                                                                         *)
(* Simplifications:                                                        *)
(*  - the source is laid down, its keys do not change and every invocation *)
(*    signs with a usable key: a signature is the document it was made of; *)
(*  - a package is recorded by its digest; its file, its size and its meta *)
(*    file are settled by it;                                              *)
(*  - there is one family: a meta package with the Members as its members; *)
(*    its hash is injective, so it is the members' digests;                *)
(*  - the index is its head; part files are left out;                      *)
(*  - the contents of the mirror list never change;                        *)
(*  - a write takes one step, or tears the file when the writer is killed. *)
(***************************************************************************)
EXTENDS Naturals

CONSTANTS
    Procs,          \* the invocations of the tool that may be under way
    Members,        \* the packages of the family
    Versions,       \* the versions that may be recorded
    Digests,        \* what an archive may hash to
    NoDigest,       \* the version is not recorded
    Resolution,     \* moments of the clock per second
    Monotone,       \* whether the clock only ever goes forward
    MaxNow          \* bound: the last moment of the clock

ASSUME SourceAssumption ==
    /\ NoDigest \notin Digests
    /\ Resolution \in Nat \ {0}
    /\ Monotone \in BOOLEAN
    /\ MaxNow \in Nat /\ MaxNow >= Resolution

VARIABLES
    now,            \* the moment of the clock, in units of 1/Resolution s
    index,          \* index.json, Torn when it is no JSON document
    indexSig,       \* index.json.sig: the document it signs
    mirrors,        \* mirrors.json: its issued second, 0 when torn
    mirrorsSig,     \* mirrors.json.sig: the document it signs, likewise
    proc            \* proc[p]: the local state of an invocation

documents == <<index, indexSig, mirrors, mirrorsSig>>
vars == <<now, documents, proc>>

-----------------------------------------------------------------------------
(* Documents *)

Moments == Resolution .. MaxNow

\* documents.stamp: a document carries whole seconds.
stamp(moment) == moment \div Resolution
Seconds == {stamp(moment) : moment \in Moments}

NoDigests == [m \in Members |-> NoDigest]
Recorded == [Members -> Digests \cup {NoDigest}]

\* packages[v]: the digests of the members at version v; meta[v]: the digests
\* the meta package of version v was hashed over, NoDigests when there is none.
Document == [issued   : Seconds \cup {0},
             packages : [Versions -> Recorded],
             meta     : [Versions -> Recorded]]

Empty(second) == [issued   |-> second,
                  packages |-> [v \in Versions |-> NoDigests],
                  meta     |-> [v \in Versions |-> NoDigests]]

Torn == Empty(0)

\* Mutant: the check is left to the reader of the document.
Advances_Unchecked(before, issued) == TRUE

\* documents.assert_advances compares the moment with the published second.
Advances(before, issued) == issued > before * Resolution

Phases == {"idle", "read", "write", "sign", "mirrors", "write mirrors",
           "sign mirrors", "done"}

\* issued: the moment the invocation started at; document: the index it is
\* about to write; refreshing: whether the mirror list comes next.
ProcState == [pc         : Phases,
              issued     : Moments,
              document   : Document,
              refreshing : BOOLEAN]

Idle == [pc |-> "idle", issued |-> Resolution, document |-> Torn,
         refreshing |-> FALSE]

TypeOK ==
    /\ now \in Moments
    /\ index \in Document
    /\ indexSig \in Document
    /\ mirrors \in Seconds \cup {0}
    /\ mirrorsSig \in Seconds \cup {0}
    /\ proc \in [Procs -> ProcState]

\* init has laid the source down in the first second.
Init ==
    /\ now = Resolution
    /\ index = Empty(stamp(Resolution))
    /\ indexSig = index
    /\ mirrors = stamp(Resolution)
    /\ mirrorsSig = mirrors
    /\ proc = [p \in Procs |-> Idle]

-----------------------------------------------------------------------------
(* The commands *)

At(p, phase) == proc[p].pc = phase
Becomes(p, state) == proc' = [proc EXCEPT ![p] = state]
Goto(p, phase) == Becomes(p, [proc[p] EXCEPT !.pc = phase])

\* The document an invocation goes on to write, dated with its own start.
Writes(p, document, refreshing) ==
    Becomes(p, [proc[p] EXCEPT
                  !.pc = "write",
                  !.document = [document EXCEPT !.issued = stamp(proc[p].issued)],
                  !.refreshing = refreshing])

\* The clock is read before anything else is.
Start(p) ==
    /\ At(p, "idle")
    /\ Becomes(p, [Idle EXCEPT !.pc = "read", !.issued = now])
    /\ UNCHANGED <<now, documents>>

\* Mutant: whatever the index holds of the version is replaced.
Add_Replacing(p, m, v, d) ==
    /\ At(p, "read")
    /\ index # Torn
    /\ Advances(index.issued, proc[p].issued)
    /\ Writes(p, [index EXCEPT !.packages[v][m] = d], FALSE)
    /\ UNCHANGED <<now, documents>>

\* add: a version that is recorded already is refused (Die), whatever it
\* hashed to.
Add(p, m, v, d) ==
    /\ At(p, "read")
    /\ index # Torn
    /\ Advances(index.issued, proc[p].issued)
    /\ index.packages[v][m] = NoDigest
    /\ Writes(p, [index EXCEPT !.packages[v][m] = d], FALSE)
    /\ UNCHANGED <<now, documents>>

\* Mutant: members that are not published are passed over.
Expands_Partly(v) == \E m \in Members : index.packages[v][m] # NoDigest

\* expand_meta: every member is recorded at the version.
Expands(v) == \A m \in Members : index.packages[v][m] # NoDigest

\* add-meta: the members' digests are written down ...
AddMeta(p, v) ==
    /\ At(p, "read")
    /\ index # Torn
    /\ Expands(v)
    /\ index.meta[v] = NoDigests
    /\ Advances(index.issued, proc[p].issued)
    /\ Writes(p, [index EXCEPT !.meta[v] = index.packages[v]], FALSE)
    /\ UNCHANGED <<now, documents>>

\* ... or found to be written down already, and nothing is.
AddMetaAgain(p, v) ==
    /\ At(p, "read")
    /\ index # Torn
    /\ Expands(v)
    /\ index.meta[v] = index.packages[v]
    /\ Becomes(p, Idle)
    /\ UNCHANGED <<now, documents>>

\* refresh: the index is dated anew, the mirror list after it.
Refresh(p) ==
    /\ At(p, "read")
    /\ index # Torn
    /\ Advances(index.issued, proc[p].issued)
    /\ Writes(p, index, TRUE)
    /\ UNCHANGED <<now, documents>>

-----------------------------------------------------------------------------
(* write_signed: the document, then its signature *)

WriteIndex(p) ==
    /\ At(p, "write")
    /\ index' = proc[p].document
    /\ Goto(p, "sign")
    /\ UNCHANGED <<now, indexSig, mirrors, mirrorsSig>>

\* Mutant: the document is dated and dumped once more for the signer.
SignIndex_Again(p) ==
    /\ At(p, "sign")
    /\ indexSig' = [proc[p].document EXCEPT !.issued = stamp(now)]
    /\ Goto(p, IF proc[p].refreshing THEN "mirrors" ELSE "done")
    /\ UNCHANGED <<now, index, mirrors, mirrorsSig>>

SignIndex(p) ==
    /\ At(p, "sign")
    /\ indexSig' = proc[p].document
    /\ Goto(p, IF proc[p].refreshing THEN "mirrors" ELSE "done")
    /\ UNCHANGED <<now, index, mirrors, mirrorsSig>>

ReadMirrors(p) ==
    /\ At(p, "mirrors")
    /\ mirrors # 0
    /\ Advances(mirrors, proc[p].issued)
    /\ Goto(p, "write mirrors")
    /\ UNCHANGED <<now, documents>>

\* Mutant: the moment is written as it is, fractions and all.
WriteMirrors_Unstamped(p) ==
    /\ At(p, "write mirrors")
    /\ mirrors' = proc[p].issued
    /\ Goto(p, "sign mirrors")
    /\ UNCHANGED <<now, index, indexSig, mirrorsSig>>

WriteMirrors(p) ==
    /\ At(p, "write mirrors")
    /\ mirrors' = stamp(proc[p].issued)
    /\ Goto(p, "sign mirrors")
    /\ UNCHANGED <<now, index, indexSig, mirrorsSig>>

SignMirrors(p) ==
    /\ At(p, "sign mirrors")
    /\ mirrorsSig' = stamp(proc[p].issued)
    /\ Goto(p, "done")
    /\ UNCHANGED <<now, index, indexSig, mirrors>>

Exit(p) ==
    /\ At(p, "done")
    /\ Becomes(p, Idle)
    /\ UNCHANGED <<now, documents>>

\* A refusal, or a kill between two steps.
Die(p) ==
    /\ ~At(p, "idle")
    /\ Becomes(p, Idle)
    /\ UNCHANGED <<now, documents>>

\* A kill in the middle of a write: the file was emptied and not filled.
Tear(p) ==
    /\ Becomes(p, Idle)
    /\ \/ /\ At(p, "write")
          /\ index' = Torn
          /\ UNCHANGED <<indexSig, mirrors, mirrorsSig>>
       \/ /\ At(p, "sign")
          /\ indexSig' = Torn
          /\ UNCHANGED <<index, mirrors, mirrorsSig>>
       \/ /\ At(p, "write mirrors")
          /\ mirrors' = 0
          /\ UNCHANGED <<index, indexSig, mirrorsSig>>
       \/ /\ At(p, "sign mirrors")
          /\ mirrorsSig' = 0
          /\ UNCHANGED <<index, indexSig, mirrors>>
    /\ UNCHANGED now

\* Time passes; a clock that is not monotone may be set to anything.
Tick ==
    /\ \/ now < MaxNow /\ now' = now + 1
       \/ ~Monotone /\ now' \in Moments \ {now}
    /\ UNCHANGED <<documents, proc>>

Next ==
    \/ \E p \in Procs :
         \/ Start(p)
         \/ \E m \in Members, v \in Versions, d \in Digests : Add(p, m, v, d)
         \/ \E v \in Versions : AddMeta(p, v) \/ AddMetaAgain(p, v)
         \/ Refresh(p)
         \/ WriteIndex(p)
         \/ SignIndex(p)
         \/ ReadMirrors(p)
         \/ WriteMirrors(p)
         \/ SignMirrors(p)
         \/ Exit(p)
         \/ Die(p)
         \/ Tear(p)
    \/ Tick

Spec == Init /\ [][Next]_vars

-----------------------------------------------------------------------------
(* Properties *)

Whole(document) ==
    \A v \in Versions :
        document.meta[v] # NoDigests =>
            /\ document.meta[v] = document.packages[v]
            /\ \A m \in Members : document.packages[v][m] # NoDigest

\* A meta package exists only where all of its members do, and pins their
\* bytes: in the index, in what a signature was made of and in what an
\* invocation is about to write, however invocations interleave and die.
FamilyWhole ==
    /\ Whole(index)
    /\ Whole(indexSig)
    /\ \A p \in Procs : Whole(proc[p].document)

\* Every entry of a document is in a later one, as it was.
Keeps(later, document) ==
    \A v \in Versions :
        /\ \A m \in Members : document.packages[v][m] # NoDigest
              => later.packages[v][m] = document.packages[v][m]
        /\ document.meta[v] # NoDigests => later.meta[v] = document.meta[v]

\* A published version is immutable: as long as invocations follow each
\* other, an index never drops an entry of the one it replaces and never
\* says anything else of it, though the clock jumps and invocations die.
RecordedStays ==
    [][index' # Torn => Keeps(index', index)]_vars

\* documents.py: that issued "can go backwards under a skewed clock or two
\* concurrent publishers" is "closed at the writing end". It is, for the
\* clock; two invocations at once are another matter.
IssuedNeverBack ==
    [][/\ index' # Torn => index'.issued >= index.issued
       /\ mirrors' # 0 => mirrors' >= mirrors]_vars

\* An invocation that came to its end leaves documents a client accepts,
\* also where earlier ones died between a document and its signature.
SignedWhenDone ==
    \A p \in Procs : At(p, "done") =>
        /\ index # Torn /\ indexSig = index
        /\ proc[p].refreshing => mirrors # 0 /\ mirrorsSig = mirrors

-----------------------------------------------------------------------------
(* What makes the last three inductive, where invocations follow each other *)

\* No invocation is under way together with another one.
OneAtATime ==
    \A p, q \in Procs : ~At(p, "idle") /\ ~At(q, "idle") => p = q

\* What an invocation is about to write takes nothing back of what is there,
\* and what it has written is there and signed.
Carries(p) ==
    LET document == proc[p].document
        second == stamp(proc[p].issued)
    IN  /\ At(p, "write") => /\ index.issued <= document.issued
                             /\ Keeps(document, index)
        /\ proc[p].pc \in {"write", "sign"} => document.issued # 0
        /\ At(p, "sign") => index = document
        /\ proc[p].pc \in {"mirrors", "write mirrors", "sign mirrors", "done"}
              => index # Torn /\ indexSig = index
        /\ At(p, "write mirrors") => mirrors <= second
        /\ At(p, "sign mirrors") => mirrors = second
        /\ At(p, "done") /\ proc[p].refreshing
              => mirrors # 0 /\ mirrorsSig = mirrors

SerialInv ==
    /\ TypeOK
    /\ \A p \in Procs : Carries(p)

=============================================================================
