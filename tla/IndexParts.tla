----------------------------- MODULE IndexParts -----------------------------
(***************************************************************************)
(* The index of one source: a head that a publisher signs and the part     *)
(* files it names by their hashes. A writer (add, add-meta, refresh) puts  *)
(* every entry where it is covered, prune removes part files that the head *)
(* no longer names, and clients check what both leave behind.              *)
(*                                                                         *)
(* Simplifications:                                                        *)
(*  - hashes do not collide: a part file is what its name says, and the    *)
(*    sha256 of a meta package is the set of members and hashes in it;     *)
(*  - a name is the sequence of what its "_" separates;                    *)
(*  - a sidecar is its package object, the rest of it well formed or not;  *)
(*  - the head and its signature are one file (Source takes them apart);   *)
(*  - one writer, as the publisher's lock has it, and one prune beside it. *)
(***************************************************************************)
EXTENDS Naturals, Sequences, FiniteSets

CONSTANTS
    Names, Versions, Digests,   \* of packages and of their archives
    Architectures,
    Sidecars,       \* the meta files that archives come with
    Covers,         \* the parts of the head in their order, the versions of each
    None,           \* no entry, no sidecar, no architecture, no file
    Grace,          \* PRUNE_GRACE_DAYS
    MaxNow,         \* bound: the last moment
    MaxFiles        \* bound: part files on the disk

Times == 1 .. MaxNow
Slots == DOMAIN Covers

Description == [name : Names, architecture : Architectures \cup {None},
                version : Versions, wellformed : BOOLEAN]

\* An entry of a package, and one of a meta package, which has members.
PackageEntry == [sha256 : Digests, sidecar : Sidecars \cup {None}, meta : {{}}]
MetaEntry == [sha256 : SUBSET (Names \X Digests), sidecar : {None},
              meta : (SUBSET Names) \ {{}}]
Entry == PackageEntry \cup MetaEntry

Content == [Names \X Versions -> Entry \cup {None}]

PartFile == [label : SUBSET Versions, content : Content]

ASSUME IndexPartsAssumption ==
    /\ Names \subseteq Seq(STRING) \ {<<>>} /\ Sidecars \subseteq Description
    /\ Covers \in Seq(SUBSET Versions)
    /\ None \notin Entry \cup PartFile
    /\ Grace \in Nat \ {0} /\ MaxNow \in Nat \ {0} /\ MaxFiles \in Nat

VARIABLES
    now,        \* the moment
    head,       \* index.json: when it was issued, its packages, its parts
    disk,       \* the part files: when each was written, whether whole, and
                \* since when the head does not name it any more, or 0
    writer,     \* the add or refresh under way
    pruner,     \* the prune under way, with the file it is about to remove
    raced       \* whether a part was ever written anew while a prune, having
                \* found it old, was about to remove it

vars == <<now, head, disk, writer, pruner, raced>>

-----------------------------------------------------------------------------
(* Documents *)

IndexHead == [issued : Times, packages : Content, parts : [Slots -> PartFile \cup {None}]]

\* A part is written first if there is one.
Writing == [pc : {"part"}, started : Times, head : IndexHead, part : PartFile]
           \cup
           [pc : {"head"}, started : Times, head : IndexHead, part : PartFile \cup {None}]

Idle == [pc |-> "idle", started |-> 0, head |-> None, part |-> None]

TypeOK ==
    /\ now \in Times
    /\ head \in IndexHead
    /\ DOMAIN disk \subseteq PartFile
    /\ disk \in [DOMAIN disk -> [written : Times, whole : BOOLEAN,
                                 superseded : Times \cup {0}]]
    /\ writer \in Writing \cup {Idle}
    /\ pruner \in [started : Times \cup {0}, files : SUBSET DOMAIN disk,
                   aged : DOMAIN disk \cup {None}]
    /\ pruner.aged \notin pruner.files
    /\ raced \in BOOLEAN

NoEntries == [x \in Names \X Versions |-> None]

\* A function with one more argument, or another value for it.
With(f, x, value) == [y \in DOMAIN f \cup {x} |-> IF y = x THEN value ELSE f[y]]

Written(when, whole) == [written |-> when, whole |-> whole, superseded |-> 0]

\* The parts the head has so far, and the files it names for them.
Declared(h) == {s \in Slots : h.parts[s] # None}

Referenced(h) == {h.parts[s] : s \in Declared(h)}

OnDisk(file) == file \in DOMAIN disk /\ disk[file].whole

\* The source as init_source lays it down: nothing in it, and no parts.
Init ==
    /\ now = 1
    /\ head = [issued |-> 1, packages |-> NoEntries,
               parts |-> [s \in Slots |-> None]]
    /\ disk = [f \in {} |-> Written(1, TRUE)]
    /\ writer = Idle
    /\ pruner = [started |-> 0, files |-> {}, aged |-> None]
    /\ raced = FALSE

-----------------------------------------------------------------------------
(* What the writer looks up *)

\* Mutant: only the place where the entry would be recorded is looked into.
EntryOf_Covering(x) ==
    LET covering == {s \in Declared(head) : x[2] \in Covers[s]}
    IN  IF covering = {}
        THEN head.packages[x]
        ELSE head.parts[CHOOSE s \in covering : \A t \in covering : s <= t].content[x]

\* _entry_of: the head, then the parts in their order.
EntryOf(x) ==
    LET holding == {s \in Declared(head) : head.parts[s].content[x] # None}
    IN  IF head.packages[x] # None \/ holding = {}
        THEN head.packages[x]
        ELSE head.parts[CHOOSE s \in holding : \A t \in holding : s <= t].content[x]

\* Nothing is known to be unpublished before every part has been read.
Unpublished(x) == EntryOf(x) = None /\ \A f \in Referenced(head) : OnDisk(f)

\* covering_part: the first one that covers the version.
IsCovering(s, version) ==
    /\ version \in Covers[s]
    /\ \A t \in Declared(head) : t < s => version \notin Covers[t]

\* Mutant: the bytes are left out.
MetaSha256_Names(members, sha) == members

\* The hash of a meta package: which packages, and their bytes.
MetaSha256(members, sha) == {<<m, sha[m]>> : m \in members}

\* Mutant: a name that may be declared is enough.
Describes_Unsuffixed(sidecar, name, version) ==
    /\ sidecar.version = version
    /\ name \in {sidecar.name, Append(sidecar.name, sidecar.architecture)}

\* metafile.check: the declared name, or that and the architecture, and the
\* part after the first "_" is the architecture.
Describes(sidecar, name, version) ==
    LET declared == sidecar.name
        architecture == sidecar.architecture
    IN  /\ sidecar.wellformed
        /\ sidecar.version = version
        /\ \/ name = declared
           \/ architecture # None /\ name = Append(declared, architecture)
        /\ Tail(name) = IF architecture = None THEN <<>> ELSE <<architecture>>

-----------------------------------------------------------------------------
(* The writer *)

Begin(newHead, part) ==
    /\ writer' = [pc      |-> IF part = None THEN "head" ELSE "part",
                  started |-> now,
                  head    |-> newHead,
                  part    |-> part]
    /\ UNCHANGED <<now, head, disk, pruner, raced>>

\* The entry goes into the part that covers its version, which gets a new
\* name by it, or into the head.
RecordInPart(s, x, entry) ==
    LET part == [label   |-> Covers[s],
                 content |-> [head.parts[s].content EXCEPT ![x] = entry]]
    IN  /\ IsCovering(s, x[2])
        /\ Begin([head EXCEPT !.issued = now, !.parts[s] = part], part)

RecordInHead(x, entry) ==
    /\ \A s \in Declared(head) : x[2] \notin Covers[s]
    /\ Begin([head EXCEPT !.issued = now, !.packages[x] = entry], None)

Record(x, entry) ==
    RecordInHead(x, entry) \/ \E s \in Declared(head) : RecordInPart(s, x, entry)

\* add_package, with the sidecar that is beside the archive, or none.
AddPackage(x, digest, sidecar, required) ==
    /\ writer.pc = "idle"
    /\ now > head.issued
    /\ IF sidecar = None THEN ~required ELSE Describes(sidecar, x[1], x[2])
    /\ Unpublished(x)
    /\ Record(x, [sha256 |-> digest, sidecar |-> sidecar, meta |-> {}])

\* Mutant: a member may be missing at the version.
AddMetaPackage_Early(x, members) ==
    /\ writer.pc = "idle"
    /\ members # {}
    /\ Unpublished(x)
    /\ now > head.issued
    /\ Record(x, [sha256 |-> {}, sidecar |-> None, meta |-> members])

\* add_meta_package and expand_meta: every member is published at the version
\* and is no meta package. One that is recorded is left alone or refused.
AddMetaPackage(x, members) ==
    LET entry == [m \in members |-> EntryOf(<<m, x[2]>>)]
    IN  /\ writer.pc = "idle"
        /\ members # {}
        /\ \A m \in members : entry[m] # None /\ entry[m].meta = {}
        /\ Unpublished(x)
        /\ now > head.issued
        /\ Record(x, [sha256  |-> MetaSha256(members, [m \in members |-> entry[m].sha256]),
                      sidecar |-> None,
                      meta    |-> members])

\* refresh: the head is dated anew.
Refresh ==
    /\ writer.pc = "idle"
    /\ now > head.issued
    /\ Begin([head EXCEPT !.issued = now], None)

\* The publisher adds a part to the head, by hand: an empty one, for versions
\* of which some may be recorded in the head already.
DeclarePart(s) ==
    LET part == [label |-> Covers[s], content |-> NoEntries]
    IN  /\ writer.pc = "idle"
        /\ s \notin Declared(head)
        /\ part \notin Referenced(head)
        /\ Begin([head EXCEPT !.parts[s] = part], part)

Room == Cardinality(DOMAIN disk \cup {writer.part}) <= MaxFiles

\* The part file is written before the head names it; one that a killed writer
\* left behind is written anew ...
WritePart ==
    /\ writer.pc = "part"
    /\ Room
    /\ disk' = With(disk, writer.part, Written(now, TRUE))
    /\ writer' = [writer EXCEPT !.pc = "head"]
    /\ raced' = (raced \/ writer.part = pruner.aged)
    /\ UNCHANGED <<now, head, pruner>>

\* ... or half written, by a writer that is killed.
TearPart ==
    /\ writer.pc = "part"
    /\ Room
    /\ disk' = With(disk, writer.part, Written(now, FALSE))
    /\ writer' = Idle
    /\ UNCHANGED <<now, head, pruner, raced>>

WriteHead ==
    /\ writer.pc = "head"
    /\ head' = writer.head
    /\ disk' = [f \in DOMAIN disk |->
                  IF f \in Referenced(head) \ Referenced(head')
                  THEN [disk[f] EXCEPT !.superseded = now]
                  ELSE disk[f]]
    /\ writer' = Idle
    /\ UNCHANGED <<now, pruner, raced>>

Die ==
    /\ writer.pc # "idle"
    /\ writer' = Idle
    /\ UNCHANGED <<now, head, disk, pruner, raced>>

-----------------------------------------------------------------------------
(* prune --delete, and the clock *)

\* Mutant: every part file is a candidate.
UnreferencedParts_All == DOMAIN disk

UnreferencedParts == DOMAIN disk \ Referenced(head)

Aged(file, moment) == disk[file].written + Grace < moment

\* The time is taken and the candidates are listed, once. One that is in its
\* grace period by then stays whatever is written, and is left out.
StartPrune ==
    LET candidates == {f \in UnreferencedParts : Aged(f, now)}
    IN  /\ pruner.files = {} /\ pruner.aged = None
        /\ candidates # {}
        /\ pruner' = [started |-> now, files |-> candidates, aged |-> None]
        /\ UNCHANGED <<now, head, disk, writer, raced>>

Left(files, aged) ==
    [started |-> IF files = {} /\ aged = None THEN 0 ELSE pruner.started,
     files   |-> files,
     aged    |-> aged]

\* A candidate is looked at: whether it was written longer than the grace
\* period ago ...
Look(file) ==
    /\ pruner.aged = None
    /\ pruner' = Left(pruner.files \ {file},
                      IF Aged(file, pruner.started) THEN file ELSE None)
    /\ UNCHANGED <<now, head, disk, writer, raced>>

\* ... and then removed, whatever has become of it meanwhile.
Remove ==
    /\ pruner.aged # None
    /\ disk' = [f \in DOMAIN disk \ {pruner.aged} |-> disk[f]]
    /\ pruner' = Left(pruner.files, None)
    /\ UNCHANGED <<now, head, writer, raced>>

StopPrune ==
    /\ pruner.files # {} \/ pruner.aged # None
    /\ pruner' = Left({}, None)
    /\ UNCHANGED <<now, head, disk, writer, raced>>

\* No add takes as long as the grace period.
Tick ==
    /\ now < MaxNow
    /\ writer.pc # "idle" => now < writer.started + Grace
    /\ now' = now + 1
    /\ UNCHANGED <<head, disk, writer, pruner, raced>>

Next ==
    \/ \E x \in Names \X Versions :
          \/ \E digest \in Digests, sidecar \in Sidecars \cup {None},
                required \in BOOLEAN : AddPackage(x, digest, sidecar, required)
          \/ \E members \in SUBSET Names : AddMetaPackage(x, members)
    \/ Refresh
    \/ \E s \in Slots : DeclarePart(s)
    \/ WritePart
    \/ TearPart
    \/ WriteHead
    \/ Die
    \/ StartPrune
    \/ \E file \in pruner.files : Look(file)
    \/ Remove
    \/ StopPrune
    \/ Tick

Spec == Init /\ [][Next]_vars

-----------------------------------------------------------------------------
(* What a client makes of it *)

\* verify_parts: every part the head names is there, with the hash it records.
VerifyParts == \A f \in Referenced(head) : OnDisk(f)

\* all_entries: head and parts in their order, the later one wins.
AllEntries(h) ==
    [x \in Names \X Versions |->
       LET holding == {s \in Declared(h) : h.parts[s].content[x] # None}
       IN  IF holding = {}
           THEN h.packages[x]
           ELSE h.parts[CHOOSE s \in holding : \A t \in holding : t <= s].content[x]]

\* check_meta_entry: the members are here, are no meta packages, and their
\* hashes are the ones the entry has.
CheckMetaEntry(entries, version, entry) ==
    LET member == [m \in entry.meta |-> entries[<<m, version>>]]
    IN  /\ entry.sidecar = None
        /\ \A m \in entry.meta : member[m] # None /\ member[m].meta = {}
        /\ entry.sha256 = MetaSha256(entry.meta, [m \in entry.meta |-> member[m].sha256])

\* verify_entries; what is recorded of a sidecar always has its shape.
VerifyEntries(entries) ==
    \A x \in Names \X Versions :
       entries[x] # None /\ entries[x].meta # {} => CheckMetaEntry(entries, x[2], entries[x])

-----------------------------------------------------------------------------
(* Properties *)

\* A client gets every part the head names, whole, whenever it looks: with a
\* prune under way that listed its candidates before the head changed, and
\* with part files that killed writers left behind and later ones name. The
\* one thing that breaks it is a part that is written anew after the prune has
\* looked at the old file and before it removes it.
HeadResolves == raced \/ VerifyParts

\* What the writer computed a meta package from, looking into the head first,
\* is what a client that merges head and parts recomputes.
EntriesVerify == VerifyEntries(AllEntries(head))

\* "A published version is never replaced", wherever it is recorded: an entry
\* that a client once resolved is the same ever after.
PublishedKept ==
    [][\A x \in Names \X Versions :
          AllEntries(head)[x] # None => AllEntries(head')[x] = AllEntries(head)[x]]_vars

\* "A meta file belongs to the archive it is published beside": the same one
\* is never recorded with two packages.
SidecarsTheirOwn ==
    LET entries == AllEntries(head)
    IN  \A x, y \in Names \X Versions :
           /\ entries[x] # None /\ entries[x].sidecar # None
           /\ entries[y] # None /\ entries[y].sidecar = entries[x].sidecar
           => x = y

\* __main__.py: "a superseded part file may be removed once nothing references
\* it, but only after this long".
NotCutOff ==
    [][\A f \in DOMAIN disk \ DOMAIN disk' :
          disk[f].superseded # 0 => now > disk[f].superseded + Grace]_vars

=============================================================================
