-------------------------- MODULE IndexPartsProofs --------------------------
(***************************************************************************)
(* Proofs about IndexParts, for any packages, parts and grace period:      *)
(* whatever the writer and the prune do in turns and wherever the writer   *)
(* dies, what is recorded stays and verifies, and the parts of the head    *)
(* are there as long as no part is written anew under a prune's hands.     *)
(***************************************************************************)
EXTENDS IndexParts, WellFoundedInduction, TLAPS

Places == Names \X Versions

-----------------------------------------------------------------------------
(* Looking up an entry *)

\* A nonempty set of natural numbers has a least one.
LEMMA Least ==
    ASSUME NEW S \in SUBSET Nat, S # {}
    PROVE  \E s \in S : \A t \in S : s <= t
<1> DEFINE R == OpToRel(<, Nat)
<1>1. IsWellFoundedOn(R, Nat)
  BY NatLessThanWellFounded
<1>2. \A a, b \in Nat : a < b => <<a, b>> \in R
  BY DEF OpToRel
<1> HIDE DEF R
<1>3. PICK s \in S : \A t \in S : ~(<<t, s>> \in R)
  BY <1>1, WFMin
<1>4. \A t \in S : ~(t < s)
  BY <1>2, <1>3
<1> QED BY <1>3, <1>4

LEMMA DeclaredAreSlots ==
    ASSUME NEW h PROVE Declared(h) \subseteq Slots
  BY DEF Declared

LEMMA SlotsAreNumbers == Slots \subseteq Nat /\ \A s \in Slots : s <= Len(Covers)
  BY IndexPartsAssumption DEF Slots

\* A nonempty set of slots has a first and a last one.
LEMMA FirstAndLast ==
    ASSUME NEW S \in SUBSET Slots, S # {}
    PROVE  /\ \E s \in S : \A t \in S : s <= t
           /\ \E s \in S : \A t \in S : t <= s
<1>1. S \subseteq Nat /\ Len(Covers) \in Nat
  BY SlotsAreNumbers, IndexPartsAssumption
<1> DEFINE T == {Len(Covers) - s : s \in S}
<1>2. T \in SUBSET Nat /\ T # {}
  <2>1. \A s \in S : Len(Covers) - s \in Nat
    BY <1>1, SlotsAreNumbers
  <2> QED BY <2>1
<1>3. PICK n \in T : \A m \in T : n <= m
  BY <1>2, Least
<1>4. PICK s \in S : n = Len(Covers) - s
  BY <1>3
<1>5. \A t \in S : n <= Len(Covers) - t
  BY <1>3
<1>6. \A t \in S : t <= s
  BY <1>1, <1>4, <1>5
<1> QED BY <1>1, <1>6, Least

\* The entry of x is in the head or in one of its parts.
Holds(h, x, entry) ==
    h.packages[x] = entry \/ \E s \in Declared(h) : h.parts[s].content[x] = entry

Bare(h, x) == h.packages[x] = None /\ \A s \in Declared(h) : h.parts[s].content[x] = None

\* What the writer finds is recorded, and it finds what is.
LEMMA EntryOfFinds ==
    ASSUME NEW x \in Places
    PROVE  /\ EntryOf(x) = None => Bare(head, x)
           /\ Holds(head, x, EntryOf(x))
<1> DEFINE holding == {s \in Declared(head) : head.parts[s].content[x] # None}
<1>1. CASE head.packages[x] # None \/ holding = {}
  BY <1>1 DEF EntryOf, Bare, Holds
<1>2. CASE head.packages[x] = None /\ holding # {}
  <2> DEFINE first == CHOOSE s \in holding : \A t \in holding : s <= t
  <2>1. first \in holding
    <3>1. \E s \in holding : \A t \in holding : s <= t
      BY <1>2, FirstAndLast, DeclaredAreSlots
    <3> QED BY <3>1
  <2>2. EntryOf(x) = head.parts[first].content[x]
    BY <1>2 DEF EntryOf
  <2> HIDE DEF first
  <2> QED BY <2>1, <2>2 DEF Holds
<1> QED BY <1>1, <1>2

\* So does a client that merges the head and its parts.
LEMMA AllEntriesFind ==
    ASSUME NEW h, NEW x \in Places
    PROVE  /\ AllEntries(h)[x] = None <=> Bare(h, x)
           /\ Holds(h, x, AllEntries(h)[x])
<1> DEFINE holding == {s \in Declared(h) : h.parts[s].content[x] # None}
           last == CHOOSE s \in holding : \A t \in holding : t <= s
<1>0. AllEntries(h)[x] = IF holding = {} THEN h.packages[x] ELSE h.parts[last].content[x]
  BY DEF AllEntries, Places
<1>1. CASE holding = {}
  BY <1>0, <1>1 DEF Bare, Holds
<1>2. CASE holding # {}
  <2>1. last \in holding
    <3>1. \E s \in holding : \A t \in holding : t <= s
      BY <1>2, FirstAndLast, DeclaredAreSlots
    <3> QED BY <3>1
  <2>2. AllEntries(h)[x] = h.parts[last].content[x]
    BY <1>0, <1>2
  <2> HIDE DEF last
  <2> QED BY <2>1, <2>2 DEF Holds, Bare
<1> QED BY <1>1, <1>2

-----------------------------------------------------------------------------
(* Types *)

LEMMA EntryType ==
    ASSUME TypeOK, NEW x \in Places
    PROVE  EntryOf(x) \in Entry \cup {None}
<1>1. ASSUME NEW s \in Declared(head) PROVE head.parts[s].content[x] \in Entry \cup {None}
  <2>1. head.parts[s] \in PartFile
    BY DEF TypeOK, IndexHead, Declared
  <2> QED BY <2>1 DEF PartFile, Content, Places
<1>2. head.packages[x] \in Entry \cup {None}
  BY DEF TypeOK, IndexHead, Content, Places
<1> QED BY <1>1, <1>2, EntryOfFinds DEF Holds

\* What a step that begins to write writes.
LEMMA BeginPartType ==
    ASSUME TypeOK, NEW newHead \in IndexHead, NEW part \in PartFile, Begin(newHead, part)
    PROVE  TypeOK'
<1>1. /\ writer' = [pc      |-> IF part = None THEN "head" ELSE "part",
                    started |-> now, head |-> newHead, part |-> part]
      /\ UNCHANGED <<now, head, disk, pruner, raced>>
  BY DEF Begin
<1>2. part # None
  BY IndexPartsAssumption
<1>3. writer' \in Writing
  BY <1>1, <1>2 DEF TypeOK, Writing
<1> QED BY <1>1, <1>3 DEF TypeOK

LEMMA RecordInPartType ==
    ASSUME TypeOK, NEW s \in Declared(head), NEW x \in Places, NEW entry \in Entry,
           RecordInPart(s, x, entry)
    PROVE  TypeOK'
<1> DEFINE part == [label   |-> Covers[s],
                    content |-> [head.parts[s].content EXCEPT ![x] = entry]]
           newHead == [head EXCEPT !.issued = now, !.parts[s] = part]
<1>1. part \in PartFile
  <2>1. head.parts[s].content \in Content /\ Covers[s] \in SUBSET Versions
    BY IndexPartsAssumption DEF TypeOK, IndexHead, PartFile, Slots, Declared
  <2>2. [head.parts[s].content EXCEPT ![x] = entry] \in Content
    BY <2>1 DEF Content, Places
  <2> QED BY <2>1, <2>2 DEF PartFile
<1>2. Begin(newHead, part)
  BY DEF RecordInPart
<1> HIDE DEF part
<1>3. newHead \in IndexHead
  BY <1>1 DEF TypeOK, IndexHead
<1> HIDE DEF newHead
<1> QED BY <1>1, <1>2, <1>3, BeginPartType

LEMMA BeginHeadType ==
    ASSUME TypeOK, NEW newHead \in IndexHead, Begin(newHead, None)
    PROVE  TypeOK'
<1>1. /\ writer' = [pc |-> "head", started |-> now, head |-> newHead, part |-> None]
      /\ UNCHANGED <<now, head, disk, pruner, raced>>
  BY DEF Begin
<1>2. writer' \in Writing
  BY <1>1 DEF TypeOK, Writing
<1> QED BY <1>1, <1>2 DEF TypeOK

LEMMA RecordType ==
    ASSUME TypeOK, NEW x \in Places, NEW entry \in Entry, Record(x, entry)
    PROVE  TypeOK'
<1>1. CASE RecordInHead(x, entry)
  <2> DEFINE newHead == [head EXCEPT !.issued = now, !.packages[x] = entry]
  <2>1. newHead \in IndexHead
    <3>1. [head.packages EXCEPT ![x] = entry] \in Content
      BY DEF TypeOK, IndexHead, Content, Places
    <3> QED BY <3>1 DEF TypeOK, IndexHead
  <2>2. Begin(newHead, None)
    BY <1>1 DEF RecordInHead
  <2> QED BY <2>1, <2>2, BeginHeadType
<1>2. CASE \E s \in Declared(head) : RecordInPart(s, x, entry)
  BY <1>2, RecordInPartType
<1> QED BY <1>1, <1>2 DEF Record

\* The entry of a package, and of a meta package whose members are found.
LEMMA PackageEntryType ==
    ASSUME NEW digest \in Digests, NEW sidecar \in Sidecars \cup {None}
    PROVE  [sha256 |-> digest, sidecar |-> sidecar, meta |-> {}] \in Entry
  BY DEF Entry, PackageEntry

LEMMA MetaEntryType ==
    ASSUME TypeOK, NEW version \in Versions, NEW members \in SUBSET Names, members # {},
           \A m \in members : /\ EntryOf(<<m, version>>) # None
                              /\ EntryOf(<<m, version>>).meta = {},
           NEW sha, sha = [m \in members |-> EntryOf(<<m, version>>).sha256]
    PROVE  [sha256 |-> MetaSha256(members, sha), sidecar |-> None, meta |-> members] \in Entry
<1>1. ASSUME NEW m \in members PROVE sha[m] \in Digests
  <2>1. EntryOf(<<m, version>>) \in Entry
    BY EntryType DEF Places
  <2>2. EntryOf(<<m, version>>).meta = {}
    OBVIOUS
  <2>3. EntryOf(<<m, version>>) \in PackageEntry
    <3> DEFINE e == EntryOf(<<m, version>>)
    <3>1. e \in Entry /\ e.meta = {}
      BY <2>1, <2>2
    <3> HIDE DEF e
    <3>2. e \in PackageEntry
      BY <3>1 DEF Entry, MetaEntry
    <3> QED BY <3>2 DEF e
  <2> QED BY <2>3 DEF PackageEntry
<1>2. MetaSha256(members, sha) \in SUBSET (Names \X Digests)
  <2>1. \A m \in members : <<m, sha[m]>> \in Names \X Digests
    BY <1>1
  <2> QED BY <2>1 DEF MetaSha256
<1> DEFINE hash == MetaSha256(members, sha)
<1> HIDE DEF hash
<1>3. hash \in SUBSET (Names \X Digests) /\ members \in (SUBSET Names) \ {{}}
  BY <1>2 DEF hash
<1>4. [sha256 |-> hash, sidecar |-> None, meta |-> members] \in MetaEntry
  BY <1>3 DEF MetaEntry
<1> QED BY <1>4 DEF Entry, hash

LEMMA WriterType ==
    ASSUME TypeOK, writer.pc # "idle"
    PROVE  /\ writer.pc \in {"part", "head"} /\ writer.started \in Times
           /\ writer.head \in IndexHead /\ writer.part \in PartFile \cup {None}
           /\ writer.pc = "part" => writer.part \in PartFile
           /\ [writer EXCEPT !.pc = "head"] \in Writing
<1>1. writer \in Writing
  BY DEF TypeOK, Idle
<1>2. CASE writer \in [pc : {"part"}, started : Times, head : IndexHead, part : PartFile]
  BY <1>2 DEF Writing
<1>3. CASE writer \in [pc : {"head"}, started : Times, head : IndexHead,
                       part : PartFile \cup {None}]
  BY <1>3 DEF Writing
<1> QED BY <1>1, <1>2, <1>3 DEF Writing

LEMMA TypeInitially == Init => TypeOK
<1> SUFFICES ASSUME Init PROVE TypeOK
  OBVIOUS
<1>1. NoEntries \in Content
  BY DEF NoEntries, Content
<1>2. head.parts \in [Slots -> PartFile \cup {None}]
  BY DEF Init
<1>3. 1 \in Times
  BY IndexPartsAssumption DEF Times
<1>4. head \in IndexHead
  BY <1>1, <1>2, <1>3 DEF Init, IndexHead
<1>5. DOMAIN disk = {} /\ disk = [f \in DOMAIN disk |-> disk[f]]
  BY DEF Init
<1> QED BY <1>3, <1>4, <1>5 DEF TypeOK, Init

\* The part that the publisher adds.
LEMMA DeclarePartType ==
    ASSUME NEW s \in Slots
    PROVE  [label |-> Covers[s], content |-> NoEntries] \in PartFile
<1>1. NoEntries \in Content /\ Covers[s] \in SUBSET Versions
  BY IndexPartsAssumption DEF NoEntries, Content, Slots
<1> QED BY <1>1 DEF PartFile

\* A part file that is written, whole or not, is one more on the disk.
LEMMA WrittenType ==
    ASSUME TypeOK, writer.pc = "part", NEW whole \in BOOLEAN,
           writer.part \in PartFile,
           disk' = With(disk, writer.part, Written(now, whole))
    PROVE  /\ DOMAIN disk' = DOMAIN disk \cup {writer.part}
           /\ DOMAIN disk' \subseteq PartFile
           /\ disk' \in [DOMAIN disk' -> [written : Times, whole : BOOLEAN,
                                        superseded : Times \cup {0}]]
<1>1. Written(now, whole) \in [written : Times, whole : BOOLEAN, superseded : Times \cup {0}]
  BY DEF Written, TypeOK
<1>2. DOMAIN disk' = DOMAIN disk \cup {writer.part}
  BY DEF With
<1>3. \A f \in DOMAIN disk' : disk'[f] \in [written : Times, whole : BOOLEAN,
                                            superseded : Times \cup {0}]
  BY <1>1 DEF With, TypeOK
<1>4. disk' = [f \in DOMAIN disk' |-> disk'[f]]
  BY DEF With
<1> QED BY <1>2, <1>3, <1>4 DEF TypeOK

\* What a prune has left to do.
LEMMA LeftType ==
    ASSUME TypeOK, NEW files, NEW aged, NEW D, files \subseteq D, aged \in D \cup {None}
    PROVE  /\ Left(files, aged) \in [started : Times \cup {0}, files : SUBSET D,
                                    aged : D \cup {None}]
           /\ Left(files, aged).files = files /\ Left(files, aged).aged = aged
           /\ Left(files, aged).started \in {0, pruner.started}
  BY DEF Left, TypeOK

\* No step stores anything of the wrong type, and a prune only ever holds files
\* that are on the disk.
THEOREM TypeCorrect == Spec => []TypeOK
<1>1. TypeOK /\ [Next]_vars => TypeOK'
  <2> SUFFICES ASSUME TypeOK, [Next]_vars PROVE TypeOK'
    OBVIOUS
  <2>1. ASSUME NEW x \in Places, NEW digest \in Digests, NEW sidecar \in Sidecars \cup {None},
               NEW required \in BOOLEAN, AddPackage(x, digest, sidecar, required)
        PROVE  TypeOK'
    BY <2>1, RecordType, PackageEntryType DEF AddPackage
  <2>2. ASSUME NEW x \in Places, NEW members \in SUBSET Names, AddMetaPackage(x, members)
        PROVE  TypeOK'
    <3> DEFINE sha == [m \in members |-> EntryOf(<<m, x[2]>>).sha256]
               entry == [sha256  |-> MetaSha256(members, sha),
                         sidecar |-> None, meta |-> members]
    <3>1. /\ members # {} /\ Record(x, entry)
          /\ \A m \in members : EntryOf(<<m, x[2]>>) # None /\ EntryOf(<<m, x[2]>>).meta = {}
      BY <2>2 DEF AddMetaPackage
    <3>2. entry \in Entry
      BY <3>1, MetaEntryType DEF Places
    <3> HIDE DEF entry
    <3> QED BY <3>1, <3>2, RecordType
  <2>3. CASE Refresh
    <3>1. [head EXCEPT !.issued = now] \in IndexHead
      BY DEF TypeOK, IndexHead
    <3> QED BY <2>3, <3>1, BeginHeadType DEF Refresh
  <2>4. CASE WritePart
    BY <2>4, WriterType, WrittenType DEF WritePart, TypeOK
  <2>5. CASE TearPart
    BY <2>5, WriterType, WrittenType DEF TearPart, TypeOK
  <2>6. CASE WriteHead
    <3>1. DOMAIN disk' = DOMAIN disk
      BY <2>6 DEF WriteHead
    <3>2. \A f \in DOMAIN disk : [disk[f] EXCEPT !.superseded = now] \in
             [written : Times, whole : BOOLEAN, superseded : Times \cup {0}]
      BY DEF TypeOK
    <3>3. disk' \in [DOMAIN disk' -> [written : Times, whole : BOOLEAN,
                                   superseded : Times \cup {0}]]
      BY <2>6, <3>1, <3>2 DEF WriteHead, TypeOK
    <3>4. head' \in IndexHead
      BY <2>6, WriterType DEF WriteHead
    <3> QED BY <2>6, <3>1, <3>3, <3>4 DEF WriteHead, TypeOK
  <2>7. CASE Die
    BY <2>7 DEF Die, TypeOK
  <2>8. CASE StartPrune
    <3>1. /\ pruner'.started = now /\ pruner'.files \subseteq DOMAIN disk /\ pruner'.aged = None
          /\ pruner' = [started |-> now, files |-> pruner'.files, aged |-> None]
          /\ UNCHANGED <<now, head, disk, writer, raced>>
      BY <2>8 DEF StartPrune, UnreferencedParts
    <3>2. None \notin DOMAIN disk
      BY IndexPartsAssumption DEF TypeOK
    <3> QED BY <3>1, <3>2 DEF TypeOK
  <2>9. ASSUME NEW file \in pruner.files, Look(file) PROVE TypeOK'
    <3> DEFINE left == pruner.files \ {file}
               aged == IF Aged(file, pruner.started) THEN file ELSE None
    <3>1. pruner' = Left(left, aged) /\ UNCHANGED <<now, head, disk, writer, raced>>
      BY <2>9 DEF Look
    <3>2. left \subseteq DOMAIN disk /\ aged \in DOMAIN disk \cup {None} /\ aged \notin left
      BY IndexPartsAssumption DEF TypeOK
    <3> HIDE DEF left, aged
    <3>3. /\ pruner' \in [started : Times \cup {0}, files : SUBSET DOMAIN disk,
                         aged : DOMAIN disk \cup {None}]
          /\ pruner'.aged \notin pruner'.files
      BY <3>1, <3>2, LeftType
    <3> QED BY <3>1, <3>3 DEF TypeOK
  <2>10. CASE Remove
    <3> DEFINE rest == DOMAIN disk \ {pruner.aged}
    <3>1. /\ disk' = [f \in rest |-> disk[f]]
          /\ pruner' = Left(pruner.files, None) /\ UNCHANGED <<now, head, writer, raced>>
          /\ pruner.files \subseteq rest
      BY <2>10 DEF Remove, TypeOK
    <3>2. DOMAIN disk' = rest /\ rest \subseteq PartFile
      BY <3>1 DEF TypeOK
    <3>3. disk' \in [DOMAIN disk' -> [written : Times, whole : BOOLEAN,
                                   superseded : Times \cup {0}]]
      BY <3>1, <3>2 DEF TypeOK
    <3>4. /\ pruner' \in [started : Times \cup {0}, files : SUBSET DOMAIN disk',
                         aged : DOMAIN disk' \cup {None}]
          /\ pruner'.aged \notin pruner'.files
      <4>1. None \notin pruner.files
        BY IndexPartsAssumption DEF TypeOK
      <4> QED BY <3>1, <3>2, <4>1, LeftType
    <3> QED BY <3>1, <3>2, <3>3, <3>4 DEF TypeOK
  <2>11. CASE StopPrune
    <3>1. pruner' = Left({}, None) /\ UNCHANGED <<now, head, disk, writer, raced>>
      BY <2>11 DEF StopPrune
    <3>2. /\ pruner' \in [started : Times \cup {0}, files : SUBSET DOMAIN disk,
                         aged : DOMAIN disk \cup {None}]
          /\ pruner'.aged \notin pruner'.files
      BY <3>1, LeftType
    <3> QED BY <3>1, <3>2 DEF TypeOK
  <2>12. CASE Tick
    BY <2>12, IndexPartsAssumption DEF Tick, TypeOK, Times
  <2>13. CASE UNCHANGED vars
    BY <2>13 DEF vars, TypeOK
  <2>14. ASSUME NEW s \in Slots, DeclarePart(s) PROVE TypeOK'
    <3> DEFINE part == [label |-> Covers[s], content |-> NoEntries]
               newHead == [head EXCEPT !.parts[s] = part]
    <3>1. Begin(newHead, part)
      BY <2>14 DEF DeclarePart
    <3>2. part \in PartFile
      BY DeclarePartType
    <3> HIDE DEF part
    <3>3. newHead \in IndexHead
      BY <3>2 DEF TypeOK, IndexHead
    <3> HIDE DEF newHead
    <3> QED BY <3>1, <3>2, <3>3, BeginPartType
  <2> QED BY <2>1, <2>2, <2>3, <2>4, <2>5, <2>6, <2>7, <2>8, <2>9, <2>10, <2>11, <2>12,
             <2>13, <2>14
          DEF Next, Places
<1> QED BY TypeInitially, <1>1, PTL DEF Spec

-----------------------------------------------------------------------------
(* The parts of the head *)

\* A writer is never older than the grace period, so what it found or wrote
\* was not old when the prune took the time; a part that it has yet to write
\* is not named by the head, where it would replace one; and what the prune
\* has found old is named by neither, unless it was written anew since.
PartsSafe ==
    /\ VerifyParts
    /\ pruner.started <= now
    /\ \A f \in pruner.files \cap Referenced(head) : ~Aged(f, pruner.started)
    /\ pruner.aged \notin Referenced(head)
    /\ writer.pc # "idle" => writer.started <= now /\ now <= writer.started + Grace
    /\ writer.pc = "part" =>
          /\ writer.part \notin Referenced(head)
          /\ Referenced(writer.head) \subseteq Referenced(head) \cup {writer.part}
    /\ writer.pc = "head" =>
          /\ pruner.aged \notin Referenced(writer.head)
          /\ \A f \in Referenced(writer.head) :
                OnDisk(f) /\ (f \in Referenced(head) \/ disk[f].written >= writer.started)

PartsInv == raced \/ PartsSafe

LEMMA Numbers ==
    ASSUME TypeOK
    PROVE  /\ now \in Nat /\ Grace \in Nat /\ pruner.started \in Nat
           /\ \A f \in DOMAIN disk : disk[f].written \in Nat
           /\ writer.pc # "idle" => writer.started \in Nat
  BY WriterType, IndexPartsAssumption DEF TypeOK, Times

\* A file of the head that is being replaced, or of the next one, is not
\* removed by the prune that is under way.
LEMMA FreshIsKept ==
    ASSUME TypeOK, PartsSafe, NEW f \in pruner.files,
           \/ f \in Referenced(head)
           \/ writer.pc = "head" /\ f \in Referenced(writer.head)
    PROVE  ~Aged(f, pruner.started)
<1>1. CASE f \in Referenced(head)
  BY <1>1 DEF PartsSafe
<1>2. CASE f \notin Referenced(head) /\ writer.pc = "head" /\ f \in Referenced(writer.head)
  <2>1. disk[f].written >= writer.started /\ pruner.started <= now
        /\ now <= writer.started + Grace
    BY <1>2 DEF PartsSafe
  <2>2. f \in DOMAIN disk
    BY DEF TypeOK
  <2> QED BY <1>2, <2>1, <2>2, Numbers DEF Aged
<1> QED BY <1>1, <1>2

\* The writer that begins with a part that is a new one.
LEMMA BeginPartKeeps ==
    ASSUME TypeOK, PartsSafe, NEW newHead, NEW part \in PartFile, Begin(newHead, part),
           part \notin Referenced(head),
           Referenced(newHead) \subseteq Referenced(head) \cup {part}
    PROVE  PartsSafe'
<1>1. part # None
  BY IndexPartsAssumption
<1>2. /\ writer' = [pc |-> "part", started |-> now, head |-> newHead, part |-> part]
      /\ UNCHANGED <<now, head, disk, pruner, raced>>
  BY <1>1 DEF Begin
<1>3. writer'.started <= now' /\ now' <= writer'.started + Grace
  BY <1>2, Numbers
<1>4. Referenced(head)' = Referenced(head) /\ Declared(head)' = Declared(head)
  BY <1>2 DEF Referenced, Declared
<1>5. Referenced(writer'.head) = Referenced(newHead)
  BY <1>2
<1>6. VerifyParts' /\ \A f \in pruner'.files : Aged(f, pruner.started)' <=> Aged(f, pruner.started)
  BY <1>2, <1>4 DEF PartsSafe, VerifyParts, OnDisk, Aged
<1> QED BY <1>2, <1>3, <1>4, <1>5, <1>6 DEF PartsSafe, Referenced, Declared

\* What a head names with another part in one of its slots.
LEMMA OnePartMore ==
    ASSUME TypeOK, NEW s \in Slots, NEW part, NEW newHead,
           \A t \in Slots : newHead.parts[t] = IF t = s THEN part ELSE head.parts[t]
    PROVE  Referenced(newHead) \subseteq Referenced(head) \cup {part}
  BY DEF Referenced, Declared

LEMMA RecordInPartKeeps ==
    ASSUME TypeOK, PartsSafe, NEW s \in Declared(head), NEW x \in Places, NEW entry \in Entry,
           EntryOf(x) = None, RecordInPart(s, x, entry)
    PROVE  PartsSafe'
<1> DEFINE part == [label   |-> Covers[s],
                    content |-> [head.parts[s].content EXCEPT ![x] = entry]]
           newHead == [head EXCEPT !.issued = now, !.parts[s] = part]
<1>0. s \in Slots
  BY DEF Declared
<1>1. part.content[x] = entry /\ part \in PartFile
  <2>1. head.parts[s].content \in Content /\ Covers[s] \in SUBSET Versions
    BY <1>0, IndexPartsAssumption DEF TypeOK, IndexHead, PartFile, Slots, Declared
  <2>2. [head.parts[s].content EXCEPT ![x] = entry] \in Content
    BY <2>1 DEF Content, Places
  <2> QED BY <2>1, <2>2 DEF PartFile, Content, Places
<1>2. part \notin Referenced(head)
  <2>1. Bare(head, x) /\ entry # None
    BY EntryOfFinds, IndexPartsAssumption
  <2> HIDE DEF part
  <2> QED BY <1>1, <2>1 DEF Bare, Referenced
<1>3. \A t \in Slots : newHead.parts[t] = IF t = s THEN part ELSE head.parts[t]
  BY DEF TypeOK, IndexHead
<1>4. Begin(newHead, part)
  BY DEF RecordInPart
<1> HIDE DEF part, newHead
<1> QED BY <1>0, <1>1, <1>2, <1>3, <1>4, OnePartMore, BeginPartKeeps

LEMMA DeclarePartKeeps ==
    ASSUME TypeOK, PartsSafe, NEW s \in Slots, DeclarePart(s)
    PROVE  PartsSafe'
<1> DEFINE part == [label |-> Covers[s], content |-> NoEntries]
           newHead == [head EXCEPT !.parts[s] = part]
<1>1. Begin(newHead, part) /\ part \notin Referenced(head)
  BY DEF DeclarePart
<1>2. part \in PartFile
  BY DeclarePartType
<1>3. \A t \in Slots : newHead.parts[t] = IF t = s THEN part ELSE head.parts[t]
  BY DEF TypeOK, IndexHead
<1> HIDE DEF part, newHead
<1> QED BY <1>1, <1>2, <1>3, OnePartMore, BeginPartKeeps

LEMMA BeginHeadKeeps ==
    ASSUME TypeOK, PartsSafe, NEW newHead, Begin(newHead, None), newHead.parts = head.parts
    PROVE  PartsSafe'
<1>1. /\ writer' = [pc |-> "head", started |-> now, head |-> newHead, part |-> None]
      /\ UNCHANGED <<now, head, disk, pruner, raced>>
  BY DEF Begin
<1>2. writer'.started <= now' /\ now' <= writer'.started + Grace
  BY <1>1, Numbers
<1>3. Referenced(newHead) = Referenced(head)
  BY DEF Referenced, Declared
<1> QED BY <1>1, <1>2, <1>3
        DEF PartsSafe, VerifyParts, OnDisk, Referenced, Declared, Aged

LEMMA RecordKeeps ==
    ASSUME TypeOK, PartsSafe, NEW x \in Places, NEW entry \in Entry,
           EntryOf(x) = None, Record(x, entry)
    PROVE  PartsSafe'
<1>1. CASE RecordInHead(x, entry)
  <2>1. [head EXCEPT !.issued = now, !.packages[x] = entry].parts = head.parts
    BY DEF TypeOK, IndexHead
  <2> QED BY <1>1, <2>1, BeginHeadKeeps DEF RecordInHead
<1> QED BY <1>1, RecordInPartKeeps DEF Record

\* A step that leaves the head and the writer alone, and what either of them
\* needs of the disk and of the prune.
LEMMA StaysAsItWas ==
    ASSUME PartsSafe, UNCHANGED <<head, writer>>, pruner'.started <= now',
           \A f \in pruner'.files \cap Referenced(head) : ~Aged(f, pruner.started),
           pruner'.aged \notin Referenced(head),
           writer.pc = "head" => pruner'.aged \notin Referenced(writer.head),
           pruner'.files = {} \/ pruner'.started = pruner.started,
           writer.pc # "idle" => writer.started <= now' /\ now' <= writer.started + Grace,
           \A f \in DOMAIN disk :
              f \in Referenced(head) \/ (writer.pc = "head" /\ f \in Referenced(writer.head))
                 => f \in DOMAIN disk' /\ disk'[f] = disk[f]
    PROVE  PartsSafe'
<1>1. Referenced(head)' = Referenced(head) /\ Referenced(writer.head)' = Referenced(writer.head)
  BY DEF Referenced, Declared
<1>0. \A f \in Referenced(head) : OnDisk(f) /\ f \in DOMAIN disk' /\ disk'[f] = disk[f]
  BY DEF PartsSafe, VerifyParts, OnDisk
<1>2. VerifyParts'
  BY <1>0, <1>1 DEF VerifyParts, OnDisk
<1>3. ASSUME NEW f \in pruner'.files, f \in Referenced(head)' PROVE ~Aged(f, pruner.started)'
  <2>1. ~Aged(f, pruner.started) /\ pruner'.started = pruner.started
    BY <1>1, <1>3
  <2>2. disk'[f] = disk[f]
    BY <1>0, <1>1, <1>3
  <2> QED BY <2>1, <2>2 DEF Aged
<1>4. writer.pc = "head" =>
         \A f \in Referenced(writer.head) :
            f \in DOMAIN disk /\ f \in DOMAIN disk' /\ disk'[f] = disk[f]
  BY DEF PartsSafe, OnDisk
<1> QED BY <1>1, <1>2, <1>3, <1>4 DEF PartsSafe, OnDisk

\* A race is remembered.
LEMMA RacedStays == [Next]_vars /\ raced => raced'
<1> SUFFICES ASSUME [Next]_vars, raced PROVE raced'
  OBVIOUS
<1>1. ASSUME NEW g, NEW part, Begin(g, part) PROVE raced'
  BY <1>1 DEF Begin
<1>2. ASSUME NEW x, NEW entry, Record(x, entry) PROVE raced'
  BY <1>1, <1>2 DEF Record, RecordInHead, RecordInPart
<1>3. ASSUME NEW x \in Places, NEW members \in SUBSET Names, AddMetaPackage(x, members)
      PROVE  raced'
  BY <1>2, <1>3 DEF AddMetaPackage
<1>4. ASSUME NEW x \in Places, NEW digest \in Digests, NEW sidecar \in Sidecars \cup {None},
             NEW required \in BOOLEAN, AddPackage(x, digest, sidecar, required)
      PROVE  raced'
  BY <1>2, <1>4 DEF AddPackage
<1>5. Refresh \/ (\E s \in Slots : DeclarePart(s)) => raced'
  BY <1>1 DEF Refresh, DeclarePart
<1>6. WritePart \/ TearPart \/ WriteHead \/ Die \/ Tick => raced'
  BY DEF WritePart, TearPart, WriteHead, Die, Tick
<1>7. StartPrune \/ (\E file \in pruner.files : Look(file)) \/ Remove \/ StopPrune => raced'
  BY DEF StartPrune, Look, Remove, StopPrune
<1> QED BY <1>3, <1>4, <1>5, <1>6, <1>7 DEF Next, Places, vars

\* The part that is written is not one that the prune is about to remove.
LEMMA WritePartKeeps ==
    ASSUME TypeOK, PartsSafe, WritePart, ~raced'
    PROVE  PartsSafe'
<1>1. /\ writer.pc = "part" /\ writer' = [writer EXCEPT !.pc = "head"]
      /\ disk' = With(disk, writer.part, Written(now, TRUE))
      /\ writer.part # pruner.aged
      /\ UNCHANGED <<now, head, pruner>>
  BY DEF WritePart
<1>2. /\ writer'.pc = "head" /\ writer'.started = writer.started
      /\ writer'.head = writer.head /\ writer'.part = writer.part
  BY <1>1, WriterType DEF TypeOK, Writing, Idle
<1>3. /\ writer.part \in DOMAIN disk' /\ disk'[writer.part] = Written(now, TRUE)
      /\ \A f \in DOMAIN disk \ {writer.part} : f \in DOMAIN disk' /\ disk'[f] = disk[f]
  BY <1>1 DEF With
<1>4. writer.part \notin Referenced(head)
  BY <1>1 DEF PartsSafe
<1>5. \A f \in Referenced(head) : OnDisk(f) /\ OnDisk(f)' /\ disk'[f] = disk[f]
  BY <1>3, <1>4 DEF PartsSafe, VerifyParts, OnDisk
<1>6. OnDisk(writer.part)' /\ disk'[writer.part].written >= writer.started
  BY <1>1, <1>2, <1>3, Numbers DEF OnDisk, Written, PartsSafe
<1>7. Referenced(head)' = Referenced(head) /\ Referenced(writer.head)' = Referenced(writer.head)
  BY <1>1, <1>2 DEF Referenced, Declared
<1>8. Referenced(writer.head) \subseteq Referenced(head) \cup {writer.part}
  BY <1>1 DEF PartsSafe
<1>9. pruner.aged \notin Referenced(writer.head)
  BY <1>1, <1>8 DEF PartsSafe
<1>10. VerifyParts' /\ \A f \in pruner'.files \cap Referenced(head)' : ~Aged(f, pruner.started)'
  BY <1>1, <1>5, <1>7 DEF PartsSafe, VerifyParts, Aged
<1> QED BY <1>1, <1>2, <1>5, <1>6, <1>7, <1>8, <1>9, <1>10 DEF PartsSafe

LEMMA TearPartKeeps ==
    ASSUME TypeOK, PartsSafe, TearPart
    PROVE  PartsSafe'
<1>0. Idle.pc = "idle"
  BY DEF Idle
<1>1. /\ writer.pc = "part" /\ writer' = Idle
      /\ disk' = With(disk, writer.part, Written(now, FALSE))
      /\ UNCHANGED <<now, head, pruner>>
  BY DEF TearPart
<1>2. writer.part \notin Referenced(head)
  BY <1>1 DEF PartsSafe
<1>3. \A f \in Referenced(head) : OnDisk(f) /\ OnDisk(f)' /\ disk'[f] = disk[f]
  <2>1. \A f \in Referenced(head) : OnDisk(f)
    BY DEF PartsSafe, VerifyParts
  <2>2. \A f \in DOMAIN disk \ {writer.part} : f \in DOMAIN disk' /\ disk'[f] = disk[f]
    BY <1>1 DEF With
  <2> QED BY <1>2, <2>1, <2>2 DEF OnDisk
<1>4. Referenced(head)' = Referenced(head)
  BY <1>1 DEF Referenced, Declared
<1>5. VerifyParts'
  BY <1>3, <1>4 DEF VerifyParts
<1>6. \A f \in pruner'.files \cap Referenced(head)' : ~Aged(f, pruner.started)'
  BY <1>1, <1>3, <1>4 DEF PartsSafe, Aged
<1> QED BY <1>0, <1>1, <1>4, <1>5, <1>6 DEF PartsSafe

LEMMA WriteHeadKeeps ==
    ASSUME TypeOK, PartsSafe, WriteHead
    PROVE  PartsSafe'
<1>0. Idle.pc = "idle"
  BY DEF Idle
<1>1. /\ writer.pc = "head" /\ head' = writer.head /\ writer' = Idle
      /\ UNCHANGED <<now, pruner>>
  BY DEF WriteHead
<1>2. \A f \in DOMAIN disk : /\ f \in DOMAIN disk' /\ disk'[f].written = disk[f].written
                           /\ disk'[f].whole = disk[f].whole
  BY DEF WriteHead, TypeOK
<1>3. \A f \in Referenced(writer.head) : OnDisk(f) /\ f \in DOMAIN disk
  BY <1>1 DEF PartsSafe, OnDisk
<1>4. Referenced(head)' = Referenced(writer.head)
  BY <1>1 DEF Referenced, Declared
<1>5. VerifyParts'
  BY <1>2, <1>3, <1>4 DEF VerifyParts, OnDisk
<1>6. ASSUME NEW f \in pruner'.files, f \in Referenced(head)' PROVE ~Aged(f, pruner.started)'
  <2>1. f \in pruner.files /\ f \in Referenced(writer.head)
    BY <1>1, <1>4, <1>6
  <2>2. ~Aged(f, pruner.started) /\ disk'[f].written = disk[f].written
    BY <1>1, <1>2, <1>3, <2>1, FreshIsKept
  <2> QED BY <1>1, <2>2 DEF Aged
<1>7. pruner'.aged \notin Referenced(head)'
  BY <1>1, <1>4 DEF PartsSafe
<1> QED BY <1>0, <1>1, <1>5, <1>6, <1>7 DEF PartsSafe

\* The prune only ever has in its hands what neither head names.
LEMMA LookKeeps ==
    ASSUME TypeOK, PartsSafe, NEW file \in pruner.files, Look(file)
    PROVE  PartsSafe'
<1> DEFINE aged == IF Aged(file, pruner.started) THEN file ELSE None
<1>1. pruner' = Left(pruner.files \ {file}, aged) /\ UNCHANGED <<now, head, disk, writer>>
  BY DEF Look
<1>2. /\ pruner'.files = pruner.files \ {file} /\ pruner'.aged = aged
      /\ pruner'.started \in {0, pruner.started}
      /\ pruner'.files = {} \/ pruner'.started = pruner.started
  BY <1>1 DEF Left
<1>3. aged \notin Referenced(head) /\ (writer.pc = "head" => aged \notin Referenced(writer.head))
  <2>1. None \notin Referenced(head) /\ None \notin Referenced(writer.head)
    BY DEF Referenced, Declared
  <2> QED BY <2>1, FreshIsKept
<1> HIDE DEF aged
<1>4. pruner'.started <= now'
  BY <1>1, <1>2, Numbers DEF PartsSafe
<1>5. writer.pc # "idle" => writer.started <= now' /\ now' <= writer.started + Grace
  BY <1>1 DEF PartsSafe
<1>6. \A f \in pruner'.files \cap Referenced(head) : ~Aged(f, pruner.started)
  BY <1>2 DEF PartsSafe
<1> QED BY <1>1, <1>2, <1>3, <1>4, <1>5, <1>6, StaysAsItWas

\* Nothing that either of them names is removed.
LEMMA RemoveKeeps ==
    ASSUME TypeOK, PartsSafe, Remove
    PROVE  PartsSafe'
<1>1. /\ disk' = [f \in DOMAIN disk \ {pruner.aged} |-> disk[f]]
      /\ pruner' = Left(pruner.files, None) /\ UNCHANGED <<now, head, writer>>
  BY DEF Remove
<1>2. /\ pruner'.files = pruner.files /\ pruner'.aged = None
      /\ pruner'.started \in {0, pruner.started}
      /\ pruner'.files = {} \/ pruner'.started = pruner.started
  BY <1>1 DEF Left
<1>3. None \notin Referenced(head) /\ None \notin Referenced(writer.head)
  BY DEF Referenced, Declared
<1>4. pruner'.started <= now'
  BY <1>1, <1>2, Numbers DEF PartsSafe
<1>5. writer.pc # "idle" => writer.started <= now' /\ now' <= writer.started + Grace
  BY <1>1 DEF PartsSafe
<1>6. \A f \in pruner'.files \cap Referenced(head) : ~Aged(f, pruner.started)
  BY <1>2 DEF PartsSafe
<1>7. ASSUME NEW f \in DOMAIN disk,
             f \in Referenced(head) \/ (writer.pc = "head" /\ f \in Referenced(writer.head))
      PROVE  f \in DOMAIN disk' /\ disk'[f] = disk[f]
  <2>1. f # pruner.aged
    BY <1>7 DEF PartsSafe
  <2> QED BY <1>1, <2>1
<1> QED BY <1>1, <1>2, <1>3, <1>4, <1>5, <1>6, <1>7, StaysAsItWas

\* A prune begins, or ends before it has gone through its list.
LEMMA ListingKeeps ==
    ASSUME TypeOK, PartsSafe, StartPrune \/ StopPrune
    PROVE  PartsSafe'
<1>1. /\ pruner'.files \cap Referenced(head) = {} /\ pruner'.aged = None
      /\ pruner'.started \in {0, now} /\ UNCHANGED <<now, head, disk, writer>>
  BY DEF StartPrune, StopPrune, Left, UnreferencedParts
<1>2. Referenced(head)' = Referenced(head) /\ Referenced(writer.head)' = Referenced(writer.head)
  BY <1>1 DEF Referenced, Declared
<1>3. None \notin Referenced(head) /\ None \notin Referenced(writer.head)
  BY DEF Referenced, Declared
<1>4. VerifyParts' /\ pruner'.started <= now'
  BY <1>1, <1>2, Numbers DEF PartsSafe, VerifyParts, OnDisk
<1>5. \A f \in pruner'.files : f \notin Referenced(head)'
  BY <1>1, <1>2
<1> QED BY <1>1, <1>2, <1>3, <1>4, <1>5 DEF PartsSafe, OnDisk

LEMMA TickKeeps ==
    ASSUME TypeOK, PartsSafe, Tick
    PROVE  PartsSafe'
<1>1. now' = now + 1 /\ UNCHANGED <<head, disk, writer, pruner>>
  BY DEF Tick
<1>2. writer.pc # "idle" => writer.started <= now' /\ now' <= writer.started + Grace
  BY <1>1, Numbers DEF Tick, PartsSafe
<1>3. pruner'.started <= now'
  BY <1>1, Numbers DEF PartsSafe
<1>4. \A f \in pruner'.files \cap Referenced(head) : ~Aged(f, pruner.started)
  BY <1>1 DEF PartsSafe
<1>5. pruner'.aged \notin Referenced(head)
      /\ (writer.pc = "head" => pruner'.aged \notin Referenced(writer.head))
  BY <1>1 DEF PartsSafe
<1> QED BY <1>1, <1>2, <1>3, <1>4, <1>5, StaysAsItWas

\* Whatever the prune listed, nothing the head names or is about to name goes.
THEOREM PartsInvariant == Spec => []PartsInv
<1>1. Init => PartsInv
  <2> SUFFICES ASSUME Init PROVE PartsSafe
    BY DEF PartsInv
  <2>1. Referenced(head) = {}
    BY DEF Init, Referenced, Declared
  <2>2. now = 1 /\ pruner.started = 0 /\ pruner.files = {} /\ writer.pc = "idle"
    BY DEF Init, Idle
  <2> QED BY <2>1, <2>2 DEF PartsSafe, VerifyParts
<1>2. TypeOK /\ PartsInv /\ [Next]_vars => PartsInv'
  <2> SUFFICES ASSUME TypeOK, PartsSafe, [Next]_vars, ~raced' PROVE PartsSafe'
    BY RacedStays DEF PartsInv
  <2>0. Idle.pc = "idle"
    BY DEF Idle
  <2>1. ASSUME NEW x \in Places, NEW digest \in Digests, NEW sidecar \in Sidecars \cup {None},
               NEW required \in BOOLEAN, AddPackage(x, digest, sidecar, required)
        PROVE  PartsSafe'
    BY <2>1, RecordKeeps, PackageEntryType DEF AddPackage, Unpublished
  <2>2. ASSUME NEW x \in Places, NEW members \in SUBSET Names, AddMetaPackage(x, members)
        PROVE  PartsSafe'
    <3> DEFINE sha == [m \in members |-> EntryOf(<<m, x[2]>>).sha256]
               entry == [sha256  |-> MetaSha256(members, sha),
                         sidecar |-> None, meta |-> members]
    <3>1. /\ members # {} /\ Record(x, entry) /\ EntryOf(x) = None
          /\ \A m \in members : EntryOf(<<m, x[2]>>) # None /\ EntryOf(<<m, x[2]>>).meta = {}
      BY <2>2 DEF AddMetaPackage, Unpublished
    <3>2. entry \in Entry
      BY <3>1, MetaEntryType DEF Places
    <3> HIDE DEF entry
    <3> QED BY <3>1, <3>2, RecordKeeps
  <2>3. CASE Refresh
    <3>1. [head EXCEPT !.issued = now].parts = head.parts
      BY DEF TypeOK, IndexHead
    <3> QED BY <2>3, <3>1, BeginHeadKeeps DEF Refresh
  <2>4. ASSUME NEW s \in Slots, DeclarePart(s) PROVE PartsSafe'
    BY <2>4, DeclarePartKeeps
  <2>5. CASE WritePart
    BY <2>5, WritePartKeeps
  <2>6. CASE TearPart
    BY <2>6, TearPartKeeps
  <2>7. CASE WriteHead
    BY <2>7, WriteHeadKeeps
  <2>8. CASE Die
    BY <2>0, <2>8 DEF Die, PartsSafe, VerifyParts, OnDisk, Aged, Referenced, Declared
  <2>9. ASSUME NEW file \in pruner.files, Look(file) PROVE PartsSafe'
    BY <2>9, LookKeeps
  <2>10. CASE Remove
    BY <2>10, RemoveKeeps
  <2>11. CASE StartPrune \/ StopPrune
    BY <2>11, ListingKeeps
  <2>12. CASE Tick
    BY <2>12, TickKeeps
  <2>13. CASE UNCHANGED vars
    BY <2>13 DEF vars, PartsSafe, VerifyParts, OnDisk, Aged, Referenced, Declared
  <2> QED BY <2>1, <2>2, <2>3, <2>4, <2>5, <2>6, <2>7, <2>8, <2>9, <2>10, <2>11, <2>12, <2>13
          DEF Next, Places
<1> QED BY <1>1, <1>2, TypeCorrect, PTL DEF Spec

\* A client gets every part the head names, whole, whenever it looks, unless a
\* part was written anew between a prune's look at it and its removal.
THEOREM HeadAlwaysResolves == Spec => []HeadResolves
<1>1. PartsInv => HeadResolves
  BY DEF PartsInv, PartsSafe, HeadResolves
<1> QED BY <1>1, PartsInvariant, PTL

-----------------------------------------------------------------------------
(* What is recorded *)

\* The order in which the places are looked into makes no difference.
Single(h) == \A x \in Places, entry \in Entry : Holds(h, x, entry) => AllEntries(h)[x] = entry

Described(h) ==
    \A x \in Places :
       LET entry == AllEntries(h)[x]
       IN  entry # None /\ entry.sidecar # None => Describes(entry.sidecar, x[1], x[2])

Sound(h) == Single(h) /\ Described(h) /\ VerifyEntries(AllEntries(h))

Extended(h, g) ==
    \A x \in Places : AllEntries(h)[x] # None => AllEntries(g)[x] = AllEntries(h)[x]

SoundHeads == {h \in IndexHead : Sound(h)}

Extensions == {p \in IndexHead \X IndexHead : Extended(p[1], p[2])}

EntriesInv ==
    /\ head \in SoundHeads
    /\ writer.pc # "idle" => writer.head \in SoundHeads /\ <<head, writer.head>> \in Extensions

LEMMA AllEntriesType ==
    ASSUME NEW h \in IndexHead, NEW x \in Places
    PROVE  AllEntries(h)[x] \in Entry \cup {None}
<1>1. ASSUME NEW s \in Declared(h) PROVE h.parts[s].content[x] \in Entry \cup {None}
  <2>1. h.parts[s] \in PartFile
    BY DEF IndexHead, Declared
  <2> QED BY <2>1 DEF PartFile, Content, Places
<1>2. h.packages[x] \in Entry \cup {None}
  BY DEF IndexHead, Content, Places
<1> QED BY <1>1, <1>2, AllEntriesFind DEF Holds

\* What the writer finds is what a client finds.
LEMMA SameForBoth ==
    ASSUME TypeOK, Single(head), NEW x \in Places
    PROVE  AllEntries(head)[x] = EntryOf(x)
<1>1. CASE EntryOf(x) = None
  BY <1>1, EntryOfFinds, AllEntriesFind
<1>2. CASE EntryOf(x) # None
  BY <1>2, EntryOfFinds, EntryType DEF Single
<1> QED BY <1>1, <1>2

\* More entries do not change what a meta package is made of.
LEMMA CheckStays ==
    ASSUME NEW h, NEW g, Extended(h, g), NEW version \in Versions, NEW entry \in Entry,
           CheckMetaEntry(AllEntries(h), version, entry)
    PROVE  CheckMetaEntry(AllEntries(g), version, entry)
<1> DEFINE before == [m \in entry.meta |-> AllEntries(h)[<<m, version>>]]
           after == [m \in entry.meta |-> AllEntries(g)[<<m, version>>]]
<1>1. \A m \in entry.meta : <<m, version>> \in Places
  BY DEF Entry, PackageEntry, MetaEntry, Places
<1>2. /\ entry.sidecar = None
      /\ \A m \in entry.meta : before[m] # None /\ before[m].meta = {}
      /\ entry.sha256 = MetaSha256(entry.meta, [m \in entry.meta |-> before[m].sha256])
  BY DEF CheckMetaEntry
<1>3. \A m \in entry.meta : AllEntries(g)[<<m, version>>] = AllEntries(h)[<<m, version>>]
  BY <1>1, <1>2 DEF Extended
<1>4. after = before
  BY <1>3
<1> QED BY <1>2, <1>4 DEF CheckMetaEntry

\* A head with one more entry, which nothing had before and which is right.
LEMMA Recording ==
    ASSUME TypeOK, Sound(head), NEW x \in Places, NEW entry \in Entry, EntryOf(x) = None,
           NEW g \in IndexHead,
           \A y \in Places \ {x} : \A e : Holds(g, y, e) <=> Holds(head, y, e),
           Holds(g, x, entry),
           \A e \in Entry : Holds(g, x, e) => e = entry,
           entry.sidecar # None => Describes(entry.sidecar, x[1], x[2]),
           entry.meta # {} => CheckMetaEntry(AllEntries(head), x[2], entry)
    PROVE  Sound(g) /\ Extended(head, g)
<1> DEFINE old == AllEntries(head)
           new == AllEntries(g)
<1>0. None \notin Entry /\ head \in IndexHead
  BY IndexPartsAssumption DEF TypeOK
<1>1. new[x] = entry
  <2>1. new[x] # None
    <3>1. ~Bare(g, x)
      BY <1>0 DEF Bare, Holds
    <3> QED BY <3>1, AllEntriesFind
  <2> QED BY <2>1, AllEntriesFind, AllEntriesType
<1>2. ASSUME NEW y \in Places, y # x PROVE new[y] = old[y]
  <2>1. CASE new[y] = None
    <3>1. Bare(g, y) /\ Holds(head, y, old[y])
      BY <2>1, AllEntriesFind
    <3>2. Holds(g, y, old[y])
      BY <1>2, <3>1
    <3> HIDE DEF old, new
    <3> QED BY <2>1, <3>1, <3>2 DEF Bare, Holds
  <2>2. CASE new[y] # None
    <3>1. new[y] \in Entry /\ Holds(head, y, new[y])
      BY <1>2, <2>2, AllEntriesFind, AllEntriesType
    <3> HIDE DEF new
    <3> QED BY <3>1 DEF Sound, Single
  <2> QED BY <2>1, <2>2
<1>3. old[x] = None
  BY EntryOfFinds, AllEntriesFind
<1>4. Extended(head, g)
  BY <1>2, <1>3 DEF Extended
<1>5. Single(g)
  <2> SUFFICES ASSUME NEW y \in Places, NEW e \in Entry, Holds(g, y, e) PROVE new[y] = e
    BY DEF Single
  <2>1. CASE y = x
    BY <1>1, <2>1
  <2>2. CASE y # x
    <3>1. old[y] = e
      BY <2>2 DEF Sound, Single
    <3> QED BY <1>2, <2>2, <3>1
  <2> QED BY <2>1, <2>2
<1>6. Described(g)
  <2> SUFFICES ASSUME NEW y \in Places, new[y] # None, new[y].sidecar # None
               PROVE  Describes(new[y].sidecar, y[1], y[2])
    BY DEF Described
  <2>1. CASE y = x
    BY <1>1, <2>1
  <2>2. CASE y # x
    <3>1. new[y] = old[y]
      BY <1>2, <2>2
    <3> HIDE DEF new
    <3> QED BY <3>1 DEF Sound, Described
  <2> QED BY <2>1, <2>2
<1>7. VerifyEntries(new)
  <2> SUFFICES ASSUME NEW y \in Places, new[y] # None, new[y].meta # {}
               PROVE  CheckMetaEntry(new, y[2], new[y])
    BY DEF VerifyEntries, Places
  <2>1. new[y] \in Entry /\ y[2] \in Versions
    BY AllEntriesType DEF Places
  <2>2. CheckMetaEntry(old, y[2], new[y])
    <3>1. CASE y = x
      BY <1>1, <3>1
    <3>2. CASE y # x
      <4>1. new[y] = old[y]
        BY <1>2, <3>2
      <4> HIDE DEF new
      <4> QED BY <4>1 DEF Sound, VerifyEntries, Places
    <3> QED BY <3>1, <3>2
  <2> QED BY <1>4, <2>1, <2>2, CheckStays
<1> QED BY <1>4, <1>5, <1>6, <1>7 DEF Sound

\* The writer begins with a head that is sound, and leaves the one there is.
LEMMA BeginsSound ==
    ASSUME EntriesInv, NEW g \in IndexHead, NEW part, Begin(g, part),
           Sound(g), Extended(head, g)
    PROVE  EntriesInv'
<1>1. writer'.head = g /\ head' = head
  BY DEF Begin
<1>2. g \in SoundHeads /\ <<head, g>> \in Extensions
  BY DEF EntriesInv, SoundHeads, Extensions
<1> QED BY <1>1, <1>2 DEF EntriesInv

LEMMA RecordsSound ==
    ASSUME TypeOK, EntriesInv, NEW x \in Places, NEW entry \in Entry, EntryOf(x) = None,
           Record(x, entry),
           entry.sidecar # None => Describes(entry.sidecar, x[1], x[2]),
           entry.meta # {} => CheckMetaEntry(AllEntries(head), x[2], entry)
    PROVE  EntriesInv'
<1>0. Sound(head) /\ Bare(head, x) /\ None \notin Entry
  BY EntryOfFinds, IndexPartsAssumption DEF EntriesInv, SoundHeads
<1>1. CASE RecordInHead(x, entry)
  <2> DEFINE g == [head EXCEPT !.issued = now, !.packages[x] = entry]
  <2>1. Begin(g, None)
    BY <1>1 DEF RecordInHead
  <2>2. g.packages = [head.packages EXCEPT ![x] = entry] /\ g.parts = head.parts
    BY DEF TypeOK, IndexHead
  <2>3. g \in IndexHead
    <3>1. [head.packages EXCEPT ![x] = entry] \in Content
      BY DEF TypeOK, IndexHead, Content, Places
    <3> QED BY <3>1 DEF TypeOK, IndexHead
  <2> HIDE DEF g
  <2>4. \A y \in Places : g.packages[y] = IF y = x THEN entry ELSE head.packages[y]
    BY <2>2 DEF TypeOK, IndexHead, Content, Places
  <2>5. \A y \in Places \ {x} : \A e : Holds(g, y, e) <=> Holds(head, y, e)
    BY <2>2, <2>4 DEF Holds, Declared
  <2>6. Holds(g, x, entry) /\ \A e \in Entry : Holds(g, x, e) => e = entry
    BY <1>0, <2>2, <2>4 DEF Holds, Bare, Declared
  <2>7. Sound(g) /\ Extended(head, g)
    BY <1>0, <2>3, <2>5, <2>6, Recording
  <2> QED BY <2>1, <2>3, <2>7, BeginsSound
<1>2. ASSUME NEW s \in Declared(head), RecordInPart(s, x, entry) PROVE EntriesInv'
  <2> DEFINE content == [head.parts[s].content EXCEPT ![x] = entry]
             part == [label |-> Covers[s], content |-> content]
             g == [head EXCEPT !.issued = now, !.parts[s] = part]
  <2>1. Begin(g, part)
    BY <1>2 DEF RecordInPart
  <2>2. content \in Content /\ part \in PartFile
        /\ \A y \in Places : content[y] = IF y = x THEN entry ELSE head.parts[s].content[y]
    <3>1. head.parts[s].content \in Content /\ Covers[s] \in SUBSET Versions
      BY IndexPartsAssumption DEF TypeOK, IndexHead, PartFile, Slots, Declared
    <3>2. content \in Content
      BY <3>1 DEF Content, Places
    <3>3. part \in PartFile
      BY <3>1, <3>2 DEF PartFile
    <3> QED BY <3>1, <3>2, <3>3 DEF Content, Places
  <2>3. part.content = content
    OBVIOUS
  <2> HIDE DEF content, part
  <2>4. /\ g \in IndexHead /\ g.packages = head.packages
        /\ \A t \in Slots : g.parts[t] = IF t = s THEN part ELSE head.parts[t]
    BY <2>2 DEF TypeOK, IndexHead
  <2>9. Declared(g) = Declared(head) /\ s \in Slots
    BY <2>2, <2>4, IndexPartsAssumption DEF Declared
  <2> HIDE DEF g
  <2>5. \A y \in Places \ {x}, t \in Declared(g) :
           g.parts[t].content[y] = head.parts[t].content[y]
    BY <2>2, <2>3, <2>4, <2>9, DeclaredAreSlots
  <2>6. \A y \in Places \ {x} : \A e : Holds(g, y, e) <=> Holds(head, y, e)
    BY <2>4, <2>5, <2>9 DEF Holds
  <2>7. Holds(g, x, entry) /\ \A e \in Entry : Holds(g, x, e) => e = entry
    BY <1>0, <2>2, <2>3, <2>4, <2>9, DeclaredAreSlots DEF Holds, Bare
  <2>8. Sound(g) /\ Extended(head, g)
    BY <1>0, <2>4, <2>6, <2>7, Recording
  <2> QED BY <2>1, <2>4, <2>8, BeginsSound
<1> QED BY <1>1, <1>2 DEF Record

\* An empty part more: everything is where it was.
LEMMA DeclaresSound ==
    ASSUME TypeOK, EntriesInv, NEW s \in Slots, DeclarePart(s)
    PROVE  EntriesInv'
<1> DEFINE part == [label |-> Covers[s], content |-> NoEntries]
           g == [head EXCEPT !.parts[s] = part]
<1>0. Sound(head) /\ s \notin Declared(head) /\ Begin(g, part)
  BY DEF EntriesInv, SoundHeads, DeclarePart
<1>1. part \in PartFile /\ part # None /\ \A x \in Places : part.content[x] = None
  BY DeclarePartType, IndexPartsAssumption DEF NoEntries, Places
<1> HIDE DEF part
<1>2. /\ g \in IndexHead /\ g.packages = head.packages
      /\ \A t \in Slots : g.parts[t] = IF t = s THEN part ELSE head.parts[t]
  BY <1>1 DEF TypeOK, IndexHead
<1> HIDE DEF g
<1>3. Declared(g) = Declared(head) \cup {s}
  BY <1>1, <1>2 DEF Declared
<1>4. \A t \in Declared(head) : g.parts[t] = head.parts[t]
  BY <1>0, <1>2, DeclaredAreSlots
<1>5. \A x \in Places, e \in Entry : Holds(g, x, e) <=> Holds(head, x, e)
  <2>1. None \notin Entry
    BY IndexPartsAssumption
  <2> QED BY <1>1, <1>2, <1>3, <1>4, <2>1 DEF Holds
<1>6. \A x \in Places : Bare(g, x) <=> Bare(head, x)
  BY <1>1, <1>2, <1>3, <1>4 DEF Bare
<1>7. ASSUME NEW x \in Places PROVE AllEntries(g)[x] = AllEntries(head)[x]
  <2>1. CASE Bare(g, x)
    BY <1>6, <2>1, AllEntriesFind
  <2>2. CASE ~Bare(g, x)
    <3>1. AllEntries(g)[x] \in Entry /\ Holds(g, x, AllEntries(g)[x])
      BY <1>2, <2>2, AllEntriesFind, AllEntriesType
    <3>2. Holds(head, x, AllEntries(g)[x])
      BY <1>5, <3>1
    <3> QED BY <1>0, <3>1, <3>2 DEF Sound, Single
  <2> QED BY <2>1, <2>2
<1>8. AllEntries(g) = AllEntries(head)
  BY <1>7 DEF AllEntries, Places
<1>9. Single(g) /\ Described(g) /\ VerifyEntries(AllEntries(g))
  BY <1>0, <1>5, <1>8 DEF Sound, Single, Described
<1>10. Sound(g) /\ Extended(head, g)
  BY <1>8, <1>9 DEF Sound, Extended
<1> QED BY <1>0, <1>2, <1>10, BeginsSound

\* Head and writer agree on what is recorded, and it is right.
THEOREM EntriesInvariant == Spec => []EntriesInv
<1>1. Init => EntriesInv
  <2> SUFFICES ASSUME Init PROVE EntriesInv
    OBVIOUS
  <2>1. \A x \in Places : Bare(head, x)
    BY DEF Init, Bare, Declared, NoEntries, Places
  <2>2. \A x \in Places : AllEntries(head)[x] = None
    BY <2>1, AllEntriesFind
  <2>3. None \notin Entry /\ writer.pc = "idle"
    BY IndexPartsAssumption DEF Init, Idle
  <2>4. Single(head)
    BY <2>1, <2>3 DEF Single, Holds, Bare
  <2>5. Described(head)
    BY <2>2 DEF Described
  <2>6. VerifyEntries(AllEntries(head))
    BY <2>2 DEF VerifyEntries, Places
  <2>7. head \in IndexHead
    BY TypeInitially DEF TypeOK
  <2> QED BY <2>3, <2>4, <2>5, <2>6, <2>7 DEF EntriesInv, SoundHeads, Sound
<1>2. TypeOK /\ EntriesInv /\ [Next]_vars => EntriesInv'
  <2> SUFFICES ASSUME TypeOK, EntriesInv, [Next]_vars PROVE EntriesInv'
    OBVIOUS
  <2>1. ASSUME NEW x \in Places, NEW digest \in Digests, NEW sidecar \in Sidecars \cup {None},
               NEW required \in BOOLEAN, AddPackage(x, digest, sidecar, required)
        PROVE  EntriesInv'
    <3> DEFINE entry == [sha256 |-> digest, sidecar |-> sidecar, meta |-> {}]
    <3>1. /\ EntryOf(x) = None /\ Record(x, entry)
          /\ sidecar # None => Describes(sidecar, x[1], x[2])
      BY <2>1 DEF AddPackage, Unpublished
    <3>2. entry \in Entry /\ entry.sidecar = sidecar /\ entry.meta = {}
      BY PackageEntryType
    <3> HIDE DEF entry
    <3> QED BY <3>1, <3>2, RecordsSound
  <2>2. ASSUME NEW x \in Places, NEW members \in SUBSET Names, AddMetaPackage(x, members)
        PROVE  EntriesInv'
    <3> DEFINE found == [m \in members |-> EntryOf(<<m, x[2]>>)]
               sha == [m \in members |-> found[m].sha256]
               entry == [sha256  |-> MetaSha256(members, sha),
                         sidecar |-> None, meta |-> members]
    <3>1. /\ members # {} /\ Record(x, entry) /\ EntryOf(x) = None
          /\ \A m \in members : found[m] # None /\ found[m].meta = {}
      BY <2>2 DEF AddMetaPackage, Unpublished
    <3>2. entry \in Entry
      <4>1. sha = [m \in members |-> EntryOf(<<m, x[2]>>).sha256]
        OBVIOUS
      <4>2. \A m \in members : /\ EntryOf(<<m, x[2]>>) # None
                              /\ EntryOf(<<m, x[2]>>).meta = {}
        BY <3>1
      <4> HIDE DEF sha
      <4> QED BY <3>1, <4>1, <4>2, MetaEntryType DEF Places
    <3>3. found = [m \in members |-> AllEntries(head)[<<m, x[2]>>]]
      <4>1. \A m \in members : AllEntries(head)[<<m, x[2]>>] = EntryOf(<<m, x[2]>>)
        BY SameForBoth DEF EntriesInv, SoundHeads, Sound, Places
      <4> QED BY <4>1
    <3>4. entry.sidecar = None /\ entry.meta = members /\ entry.sha256 = MetaSha256(members, sha)
      OBVIOUS
    <3> HIDE DEF entry, found
    <3>5. CheckMetaEntry(AllEntries(head), x[2], entry)
      BY <3>1, <3>3, <3>4 DEF CheckMetaEntry
    <3> QED BY <3>1, <3>2, <3>4, <3>5, RecordsSound
  <2>3. CASE Refresh
    <3> DEFINE g == [head EXCEPT !.issued = now]
    <3>1. /\ g \in IndexHead /\ g.packages = head.packages /\ g.parts = head.parts
          /\ Begin(g, None)
      BY <2>3 DEF TypeOK, IndexHead, Refresh
    <3> HIDE DEF g
    <3>2. AllEntries(g) = AllEntries(head)
      BY <3>1 DEF AllEntries, Declared
    <3>3. Sound(g) /\ Extended(head, g)
      BY <3>1, <3>2 DEF EntriesInv, SoundHeads, Sound, Single, Described, Extended, Holds,
                         Declared
    <3> QED BY <3>1, <3>3, BeginsSound
  <2>4. CASE WritePart
    <3>1. UNCHANGED head /\ writer.pc # "idle" /\ writer' = [writer EXCEPT !.pc = "head"]
      BY <2>4 DEF WritePart
    <3>2. writer'.head = writer.head
      BY <3>1, WriterType DEF TypeOK, Writing, Idle
    <3> QED BY <3>1, <3>2 DEF EntriesInv
  <2>5. CASE WriteHead
    BY <2>5 DEF WriteHead, Idle, EntriesInv
  <2>6. CASE TearPart \/ Die
    <3>1. UNCHANGED head /\ writer' = Idle
      BY <2>6 DEF TearPart, Die
    <3>2. Idle.pc = "idle"
      BY DEF Idle
    <3> QED BY <3>1, <3>2 DEF EntriesInv
  <2>7. CASE UNCHANGED <<head, writer>>
    BY <2>7 DEF EntriesInv
  <2>8. ASSUME NEW file \in pruner.files, Look(file) PROVE EntriesInv'
    BY <2>7, <2>8 DEF Look
  <2>9. CASE StartPrune \/ Remove \/ StopPrune \/ Tick \/ UNCHANGED vars
    BY <2>7, <2>9 DEF StartPrune, Remove, StopPrune, Tick, vars
  <2>10. ASSUME NEW s \in Slots, DeclarePart(s) PROVE EntriesInv'
    BY <2>10, DeclaresSound
  <2> QED BY <2>1, <2>2, <2>3, <2>4, <2>5, <2>6, <2>8, <2>9, <2>10 DEF Next, Places
<1> QED BY <1>1, <1>2, TypeInitially, TypeCorrect, PTL DEF Spec

\* What a client recomputes of a meta package is what the writer recorded.
THEOREM EntriesAlwaysVerify == Spec => []EntriesVerify
<1>1. EntriesInv => EntriesVerify
  BY DEF EntriesInv, SoundHeads, Sound, EntriesVerify
<1> QED BY <1>1, EntriesInvariant, PTL

\* No description describes two packages: a declared name has the suffix of the
\* platform or lacks it, and only one of the two names agrees with that.
LEMMA DescribesOne ==
    ASSUME NEW sidecar \in Description, NEW x \in Places, NEW y \in Places,
           Describes(sidecar, x[1], x[2]), Describes(sidecar, y[1], y[2])
    PROVE  x = y
<1> DEFINE declared == sidecar.name
           suffix == <<sidecar.architecture>>
<1>1. declared \in Names /\ x[1] \in Names /\ y[1] \in Names
  BY DEF Description, Places
<1>2. \A name \in Names : name \in Seq(STRING) /\ Len(name) \in Nat /\ Len(name) >= 1
                        /\ Tail(name) \in Seq(STRING) /\ Len(Tail(name)) = Len(name) - 1
  BY IndexPartsAssumption
<1>3. ASSUME sidecar.architecture # None,
             declared = x[1] \/ declared = y[1], Tail(declared) = suffix,
             Append(declared, sidecar.architecture) \in Names,
             Tail(Append(declared, sidecar.architecture)) = suffix
      PROVE  FALSE
  <2> DEFINE long == Append(declared, sidecar.architecture)
  <2>1. Len(suffix) = 1
    OBVIOUS
  <2>2. Len(declared) = 2 /\ Len(long) = 2
    BY <1>1, <1>2, <1>3, <2>1
  <2>3. Len(long) = Len(declared) + 1
    <3>1. DOMAIN long = 1 .. Len(declared) + 1
      BY <1>1, <1>2
    <3> QED BY <1>1, <1>2, <3>1
  <2> QED BY <2>2, <2>3
<1>4. x[1] = y[1]
  BY <1>1, <1>3 DEF Describes
<1>5. x[2] = y[2]
  BY DEF Describes
<1> QED BY <1>4, <1>5 DEF Places

\* A meta file is recorded with one package only.
THEOREM SidecarsAreTheirOwn == Spec => []SidecarsTheirOwn
<1>1. TypeOK /\ EntriesInv => SidecarsTheirOwn
  <2> DEFINE entries == AllEntries(head)
  <2> SUFFICES ASSUME TypeOK, EntriesInv, NEW x \in Places, NEW y \in Places,
                      entries[x] # None, entries[x].sidecar # None,
                      entries[y] # None, entries[y].sidecar = entries[x].sidecar
               PROVE  x = y
    BY DEF SidecarsTheirOwn, Places
  <2>1. /\ Describes(entries[x].sidecar, x[1], x[2])
        /\ Describes(entries[y].sidecar, y[1], y[2])
    BY DEF EntriesInv, SoundHeads, Sound, Described
  <2>2. entries[x] \in Entry
    BY AllEntriesType DEF TypeOK
  <2>3. entries[x].sidecar \in Description
    BY <2>2, IndexPartsAssumption DEF Entry, PackageEntry, MetaEntry
  <2> HIDE DEF entries
  <2> QED BY <2>1, <2>3, DescribesOne
<1> QED BY <1>1, TypeCorrect, EntriesInvariant, PTL

\* An entry that a client once resolved is the same ever after, whichever place
\* it is recorded in.
THEOREM PublishedIsKept == Spec => PublishedKept
<1>1. EntriesInv /\ [Next]_vars =>
        [\A x \in Places : AllEntries(head)[x] # None
                            => AllEntries(head')[x] = AllEntries(head)[x]]_vars
  <2> SUFFICES ASSUME EntriesInv, Next,
                      NEW x \in Places, AllEntries(head)[x] # None
               PROVE  AllEntries(head')[x] = AllEntries(head)[x]
    OBVIOUS
  <2>1. CASE WriteHead
    <3>1. head' = writer.head /\ writer.pc # "idle"
      BY <2>1 DEF WriteHead
    <3>2. Extended(head, writer.head)
      BY <3>1 DEF EntriesInv, Extensions
    <3> QED BY <3>1, <3>2 DEF Extended
  <2>2. CASE UNCHANGED head
    BY <2>2
  <2>3. WriteHead \/ UNCHANGED head
    <3>1. ASSUME NEW z, NEW entry, Record(z, entry) PROVE UNCHANGED head
      BY <3>1 DEF Record, RecordInHead, RecordInPart, Begin
    <3>2. ASSUME NEW z \in Places, NEW members \in SUBSET Names, AddMetaPackage(z, members)
          PROVE  UNCHANGED head
      BY <3>1, <3>2 DEF AddMetaPackage
    <3>3. ASSUME NEW z \in Places, NEW digest \in Digests, NEW sidecar \in Sidecars \cup {None},
                 NEW required \in BOOLEAN, AddPackage(z, digest, sidecar, required)
          PROVE  UNCHANGED head
      BY <3>1, <3>3 DEF AddPackage
    <3>4. Refresh \/ WritePart \/ TearPart \/ Die \/ Tick => UNCHANGED head
      BY DEF Refresh, Begin, WritePart, TearPart, Die, Tick
    <3>5. StartPrune \/ (\E file \in pruner.files : Look(file)) \/ Remove \/ StopPrune
            => UNCHANGED head
      BY DEF StartPrune, Look, Remove, StopPrune
    <3>6. (\E s \in Slots : DeclarePart(s)) => UNCHANGED head
      BY DEF DeclarePart, Begin
    <3> QED BY <3>2, <3>3, <3>4, <3>5, <3>6 DEF Next, Places
  <2> QED BY <2>1, <2>2, <2>3
<1> QED BY <1>1, EntriesInvariant, PTL DEF Spec, PublishedKept, Places

=============================================================================
