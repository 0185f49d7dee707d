--------------------------- MODULE KeyChainProofs ---------------------------
(***************************************************************************)
(* Proofs about KeyChain, for every number of roots, publishers and        *)
(* ceremonies, where none is killed between a key set and its signature.   *)
(***************************************************************************)
EXTENDS KeyChain, FiniteSetTheorems, TLAPS

-----------------------------------------------------------------------------
(* Types *)

\* No step stores anything of the wrong type, and the source never is
\* without a key set.
THEOREM TypeCorrect == Spec => []TypeOK
<1> USE DEF Times, Names
<1>1. Init => TypeOK
  <2> SUFFICES ASSUME Init PROVE TypeOK
    OBVIOUS
  <2>1. PICK roots \in RootSets, p \in Publishers :
          LET document == [issued      |-> 1,
                           previous    |-> 0,
                           roots       |-> roots,
                           publishers  |-> [q \in Publishers |-> IF q = p THEN 1 ELSE 0],
                           compromised |-> {}]
              file == [document  |-> document,
                       signature |-> [of |-> document, by |-> roots.keys]]
          IN  /\ roots.threshold <= Cardinality(roots.keys)
              /\ keys = [n \in Names |-> IF n = 0 THEN file ELSE Missing]
              /\ documents = [f \in Files |-> [issued |-> 1, by |-> {p}]]
              /\ ceremony = Idle(document)
    BY DEF Init
  <2> DEFINE document == [issued      |-> 1,
                          previous    |-> 0,
                          roots       |-> roots,
                          publishers  |-> [q \in Publishers |-> IF q = p THEN 1 ELSE 0],
                          compromised |-> {}]
             signature == [of |-> document, by |-> roots.keys]
  <2>2. document \in KeyDocument
    BY KeyChainAssumption DEF KeyDocument
  <2>3. signature \in Signature
    BY <2>2, KeyChainAssumption DEF Signature
  <2>4. ceremony \in Ceremony
    BY <2>1, <2>2 DEF Ceremony, Idle, Phases
  <2>5. keys = [n \in Names |-> IF n = 0 THEN [document |-> document, signature |-> signature]
                                         ELSE Missing]
    BY <2>1
  <2>6. documents \in [Files -> Document]
    BY <2>1, KeyChainAssumption DEF Document
  <2> HIDE DEF document, signature
  <2>7. keys \in [Names -> KeyFile] /\ keys[0].document # NoFile
    BY <2>2, <2>3, <2>5, KeyChainAssumption DEF KeyFile, Missing
  <2>8. now \in Times
    BY KeyChainAssumption DEF Init
  <2> QED BY <2>4, <2>6, <2>7, <2>8 DEF TypeOK
<1>2. TypeOK /\ [Next]_vars => TypeOK'
  <2> SUFFICES ASSUME TypeOK, [Next]_vars PROVE TypeOK'
    OBVIOUS
  <2>0. /\ Current \in KeyDocument /\ Current.issued \in Times
        /\ keys[0].signature \in Signature \cup {NoFile}
        /\ \A phase \in Phases : [ceremony EXCEPT !.pc = phase] \in Ceremony
        /\ Idle(Current) \in Ceremony
    <3>1. keys[0] \in KeyFile
      BY KeyChainAssumption DEF TypeOK
    <3>2. Current \in KeyDocument /\ keys[0].signature \in Signature \cup {NoFile}
      BY <3>1 DEF TypeOK, KeyFile, Current
    <3>3. \A phase \in Phases : [ceremony EXCEPT !.pc = phase] \in Ceremony
      BY DEF TypeOK, Ceremony
    <3>4. Idle(Current) \in Ceremony
      BY <3>2 DEF Idle, Ceremony, Phases
    <3> QED BY <3>2, <3>3, <3>4 DEF KeyDocument
  <2>1. ASSUME NEW roots \in RootSets, NEW listed \in SUBSET Publishers,
               NEW signers \in SUBSET Roots, NEW publishers \in SUBSET Publishers,
               Begin(roots, listed, signers, publishers)
        PROVE  TypeOK'
    <3> DEFINE document == Replacing(Current, roots, listed)
    <3>1. document \in KeyDocument
      BY <2>0, KeyChainAssumption DEF Replacing, KeyDocument, TypeOK
    <3>2. /\ ceremony' = [pc |-> "archive", document |-> document, signers |-> signers,
                          publishers |-> publishers]
          /\ UNCHANGED <<now, keys, documents>>
      BY <2>1 DEF Begin
    <3> HIDE DEF document
    <3> QED BY <3>1, <3>2 DEF TypeOK, Ceremony, Phases
  <2>2. ASSUME NEW n \in Names, NEW document \in KeyDocument,
               keys' = [keys EXCEPT ![n].document = document],
               ceremony' \in Ceremony,
               UNCHANGED <<now, documents>>
        PROVE  TypeOK'
    <3>1. [keys[n] EXCEPT !.document = document] \in KeyFile
      BY <2>2 DEF TypeOK, KeyFile
    <3> QED BY <2>2, <3>1, KeyChainAssumption DEF TypeOK
  <2>3. ASSUME NEW n \in Names, NEW signature \in Signature \cup {NoFile},
               keys' = [keys EXCEPT ![n].signature = signature],
               ceremony' \in Ceremony,
               UNCHANGED <<now, documents>>
        PROVE  TypeOK'
    <3>1. [keys[n] EXCEPT !.signature = signature] \in KeyFile
      BY <2>3 DEF TypeOK, KeyFile
    <3> QED BY <2>3, <3>1, KeyChainAssumption DEF TypeOK, KeyFile
  <2>4. CASE ArchiveKeys
    <3>1. ceremony' \in Ceremony
      BY <2>0, <2>4 DEF ArchiveKeys, Goto, Phases
    <3>2. /\ keys' = [keys EXCEPT ![Current.issued].document = Current]
          /\ UNCHANGED <<now, documents>>
      BY <2>4 DEF ArchiveKeys
    <3>3. Current.issued \in Names
      BY <2>0
    <3> QED BY <2>0, <3>1, <3>2, <3>3, <2>2
  <2>5. CASE ArchiveSignature
    <3>1. ceremony' \in Ceremony
      BY <2>0, <2>5 DEF ArchiveSignature, Goto, Phases
    <3>2. /\ keys' = [keys EXCEPT ![Current.issued].signature = keys[0].signature]
          /\ UNCHANGED <<now, documents>>
      BY <2>5 DEF ArchiveSignature
    <3>3. Current.issued \in Names
      BY <2>0
    <3> QED BY <2>0, <3>1, <3>2, <3>3, <2>3
  <2>6. CASE WriteKeys
    <3>1. ceremony' \in Ceremony
      BY <2>0, <2>6 DEF WriteKeys, Goto, Phases
    <3>2. /\ keys' = [keys EXCEPT ![0].document = ceremony.document]
          /\ UNCHANGED <<now, documents>>
      BY <2>6 DEF WriteKeys
    <3>3. ceremony.document \in KeyDocument /\ 0 \in Names
      BY KeyChainAssumption DEF TypeOK, Ceremony
    <3> QED BY <3>1, <3>2, <3>3, <2>2
  <2>7. CASE SignKeys
    <3>1. ceremony' \in Ceremony
      BY <2>0, <2>7 DEF SignKeys, Goto, Phases
    <3> DEFINE signature == [of |-> ceremony.document, by |-> ceremony.signers]
    <3>2. /\ keys' = [keys EXCEPT ![0].signature = signature]
          /\ UNCHANGED <<now, documents>>
      BY <2>7 DEF SignKeys
    <3>3. signature \in Signature /\ 0 \in Names
      BY KeyChainAssumption DEF TypeOK, Ceremony, Signature
    <3> HIDE DEF signature
    <3> QED BY <3>1, <3>2, <3>3, <2>3
  <2>8. CASE AlreadyArchived \/ RefuseMirrors \/ Die
    BY <2>0, <2>8 DEF AlreadyArchived, RefuseMirrors, Die, End, Goto, Phases, TypeOK
  <2>12. CASE WriteMirrors \/ WriteIndex
    <3>1. Signed \in Document
      BY DEF TypeOK, Ceremony, KeyDocument, Document, Signed
    <3>2. ceremony' \in Ceremony
      BY <2>0, <2>12 DEF WriteMirrors, WriteIndex, End, Goto, Phases
    <3> QED BY <2>12, <3>1, <3>2 DEF WriteMirrors, WriteIndex, TypeOK
  <2>9. ASSUME NEW signers \in SUBSET Publishers, Add(signers) \/ Refresh(signers)
        PROVE  TypeOK'
    <3>1. CASE Add(signers)
      <4>1. [issued |-> now, by |-> signers] \in Document
        BY DEF TypeOK, Document
      <4> QED BY <3>1, <4>1 DEF Add, TypeOK
    <3>2. CASE Refresh(signers)
      <4>1. [issued |-> now, by |-> signers] \in Document
        BY DEF TypeOK, Document
      <4> QED BY <3>2, <4>1 DEF Refresh, TypeOK
    <3> QED BY <2>9, <3>1, <3>2
  <2>10. CASE Tick
    BY <2>10, KeyChainAssumption DEF Tick, TypeOK
  <2>11. CASE UNCHANGED vars
    BY <2>11 DEF vars, TypeOK
  <2> QED BY <2>1, <2>4, <2>5, <2>6, <2>7, <2>8, <2>9, <2>10, <2>11, <2>12 DEF Next
<1> QED BY <1>1, <1>2, PTL DEF Spec

-----------------------------------------------------------------------------
(* The chain *)

\* What is archived stays, and with it what links to it.
LEMMA WholeStays ==
    ASSUME TypeOK,
           \A n \in Times : keys[n].document # NoFile => keys'[n].document = keys[n].document
    PROVE  \A file \in KeyFile : Whole(file) => Whole(file)'
<1> SUFFICES ASSUME NEW file \in KeyFile, Whole(file) PROVE Whole(file)'
  OBVIOUS
<1>1. file.document \in KeyDocument
  BY KeyChainAssumption DEF Whole, KeyFile, Signature
<1>2. file.document.previous # 0 => file.document.previous \in Times
  BY <1>1 DEF KeyDocument, Names, Times
<1>3. Linked(file.document, file.signature.by)'
  BY <1>2 DEF Whole, Linked
<1> QED BY <1>3 DEF Whole, SignsItself, Enough

\* Whichever key file has which type.
LEMMA FileType ==
    ASSUME TypeOK
    PROVE  /\ \A n \in Names : keys[n] \in KeyFile
           /\ Current \in KeyDocument /\ Current.issued \in Times
           /\ 0 \in Names /\ Times \subseteq Names
<1>1. \A n \in Names : keys[n] \in KeyFile
  BY DEF TypeOK
<1>2. 0 \in Names /\ Times \subseteq Names
  BY KeyChainAssumption DEF Names, Times
<1>3. Current \in KeyDocument
  BY <1>1, <1>2 DEF TypeOK, KeyFile, Current
<1> QED BY <1>1, <1>2, <1>3 DEF KeyDocument

\* No step of a ceremony breaks the chain, where one is never killed between
\* an archived key set or a new one and its signature.
LEMMA ChainStep ==
    ASSUME TypeOK, TypeOK', ChainSound, SignedInWindow, [Next]_vars,
           Killable \subseteq SafePhases
    PROVE  ChainSound'
<1>0. /\ \A n \in Names : keys[n] \in KeyFile
      /\ Current \in KeyDocument /\ Current.issued \in Times
      /\ 0 \in Names /\ Times \subseteq Names /\ 0 \notin Times
  BY FileType DEF Times
<1>1. ASSUME NEW roots \in RootSets, NEW listed \in SUBSET Publishers,
             NEW signers \in SUBSET Roots, NEW publishers \in SUBSET Publishers,
             Begin(roots, listed, signers, publishers)
      PROVE  ChainSound'
  <2> DEFINE document == Replacing(Current, roots, listed)
  <2>1. /\ ceremony.pc = "idle" /\ keys' = keys /\ now > Current.issued /\ now' = now
        /\ ceremony' = [pc |-> "archive", document |-> document, signers |-> signers,
                        publishers |-> publishers]
        /\ SignedByBoth(signers, Current, document)
    BY <1>1 DEF Begin
  <2>2. document.previous = Current.issued /\ document.issued = now
    BY DEF Replacing
  <2> HIDE DEF document
  <2>3. \A file \in KeyFile : Whole(file) => Whole(file)'
    BY <2>1, WholeStays
  <2>4. now > Current.issued /\ Current' = Current
    BY <2>1 DEF Current
  <2> QED BY <1>0, <2>1, <2>2, <2>3, <2>4
          DEF ChainSound, SignedByBoth, Enough, TypeOK, Times
<1>2. CASE ArchiveKeys
  <2> DEFINE n0 == Current.issued
  <2>1. /\ ceremony.pc = "archive" /\ keys[n0].document = NoFile /\ now' = now
        /\ keys' = [keys EXCEPT ![n0].document = Current]
        /\ ceremony'.pc = "archive signature"
        /\ ceremony'.document = ceremony.document /\ ceremony'.signers = ceremony.signers
    BY <1>2 DEF ArchiveKeys, Goto, TypeOK, Ceremony
  <2>2. /\ \A n \in Names \ {n0} : keys'[n] = keys[n]
        /\ keys'[n0].document = Current
    BY <1>0, <2>1 DEF TypeOK, KeyFile
  <2>3. Current' = Current
    BY <1>0, <2>2 DEF Current
  <2>4. \A file \in KeyFile : Whole(file) => Whole(file)'
    BY <1>0, <2>1, <2>2, WholeStays
  <2>5. /\ \A n \in Times : keys'[n].document # NoFile =>
              /\ keys'[n].document.issued = n
              /\ n <= Current.issued
              /\ (Whole(keys[n]) /\ keys'[n] = keys[n]) \/ n = n0
    <3> SUFFICES ASSUME NEW n \in Times, keys'[n].document # NoFile
                 PROVE  /\ keys'[n].document.issued = n
                        /\ n <= Current.issued
                        /\ (Whole(keys[n]) /\ keys'[n] = keys[n]) \/ n = n0
      OBVIOUS
    <3>1. CASE n = n0
      BY <1>0, <2>2, <3>1 DEF Times
    <3>2. CASE n # n0
      <4>1. keys'[n] = keys[n]
        BY <1>0, <2>2, <3>2
      <4> QED BY <2>1, <3>2, <4>1 DEF ChainSound
    <3> QED BY <3>1, <3>2
  <2>6. Whole(keys[0])' /\ \A n \in Times : Whole(keys[n]) /\ keys'[n] = keys[n] => Whole(keys[n])'
    BY <1>0, <2>1, <2>2, <2>4 DEF ChainSound, Whole, SignsItself
  <2> QED BY <1>0, <2>1, <2>2, <2>3, <2>5, <2>6 DEF ChainSound, Enough
<1>3. CASE ArchiveSignature
  <2> DEFINE n0 == Current.issued
  <2>1. /\ ceremony.pc = "archive signature" /\ now' = now
        /\ keys' = [keys EXCEPT ![n0].signature = keys[0].signature]
        /\ ceremony'.pc = "write"
        /\ ceremony'.document = ceremony.document /\ ceremony'.signers = ceremony.signers
    BY <1>3 DEF ArchiveSignature, Goto, TypeOK, Ceremony
  <2>2. /\ \A n \in Names \ {n0} : keys'[n] = keys[n]
        /\ keys[n0].document = Current
        /\ keys'[n0] = keys[0]
    <3>1. keys[n0].document = Current
      BY <2>1 DEF ChainSound
    <3>2. /\ \A n \in Names \ {n0} : keys'[n] = keys[n]
          /\ keys'[n0] = [keys[n0] EXCEPT !.signature = keys[0].signature]
      BY <1>0, <2>1 DEF TypeOK
    <3>3. \A file \in KeyFile : \A signature :
             [file EXCEPT !.signature = signature]
                = [document |-> file.document, signature |-> signature]
      BY DEF KeyFile
    <3>4. keys[0] = [document |-> Current, signature |-> keys[0].signature]
      BY <1>0 DEF KeyFile, Current
    <3> QED BY <1>0, <3>1, <3>2, <3>3, <3>4
  <2>3. Current' = Current
    BY <1>0, <2>2 DEF Current
  <2>4. \A file \in KeyFile : Whole(file) => Whole(file)'
    BY <1>0, <2>1, <2>2, WholeStays DEF Current
  <2>5. Whole(keys[0]) /\ \A n \in Times \ {n0} : keys[n].document # NoFile => Whole(keys[n])
    BY <2>1 DEF ChainSound
  <2>6. /\ Whole(keys[0])'
        /\ \A n \in Times : keys'[n].document # NoFile => Whole(keys[n])'
    BY <1>0, <2>2, <2>4, <2>5 DEF Whole, SignsItself
  <2>7. \A n \in Times : keys'[n].document = keys[n].document
    BY <1>0, <2>2 DEF Current
  <2> QED BY <1>0, <2>1, <2>2, <2>3, <2>6, <2>7 DEF ChainSound, Enough
<1>4. CASE AlreadyArchived \/ Die \/ WriteMirrors \/ RefuseMirrors \/ WriteIndex
  <2>1. /\ keys' = keys /\ now' = now
        /\ \/ /\ ceremony.pc = "archive" /\ ceremony'.pc = "write"
              /\ keys[Current.issued].document # NoFile
              /\ ceremony'.document = ceremony.document /\ ceremony'.signers = ceremony.signers
           \/ ceremony.pc \in SafePhases /\ ceremony'.pc = "idle"
           \/ /\ ceremony.pc = "mirrors" /\ ceremony'.pc = "index"
              /\ ceremony'.document = ceremony.document /\ ceremony'.signers = ceremony.signers
    BY <1>4 DEF AlreadyArchived, Die, WriteMirrors, RefuseMirrors, WriteIndex, Goto, End, Idle,
                TypeOK, Ceremony, SafePhases
  <2>2. Current' = Current /\ \A file \in KeyFile : Whole(file) => Whole(file)'
    BY <2>1, WholeStays DEF Current
  <2>3. Whole(keys[0])' /\ \A n \in Times : keys[n].document # NoFile => Whole(keys[n])'
    BY <1>0, <2>1, <2>2 DEF ChainSound, Whole, SignsItself, SafePhases
  <2>4. ceremony'.pc = "index" => Linked(Current, ceremony.signers)'
    <3>1. Current.previous # 0 => Current.previous \in Times
      BY <1>0 DEF KeyDocument, Names, Times
    <3> QED BY <2>1, <2>2, <3>1 DEF ChainSound, Linked, Enough
  <2> QED BY <1>0, <2>1, <2>2, <2>3, <2>4 DEF ChainSound, Enough
<1>5. CASE WriteKeys
  <2> DEFINE document == ceremony.document
  <2>1. /\ ceremony.pc = "write" /\ ceremony'.pc = "sign" /\ now' = now
        /\ keys' = [keys EXCEPT ![0].document = document]
        /\ ceremony'.document = document /\ ceremony'.signers = ceremony.signers
    BY <1>5 DEF WriteKeys, Goto, TypeOK, Ceremony
  <2>2. /\ \A n \in Times : keys'[n] = keys[n]
        /\ Current' = document
    BY <1>0, <2>1 DEF TypeOK, KeyFile, Current
  <2>3. \A file \in KeyFile : Whole(file) => Whole(file)'
    BY <1>0, <2>2, WholeStays
  <2>4. \A n \in Times : keys[n].document # NoFile => Whole(keys[n])'
    BY <1>0, <2>1, <2>2, <2>3 DEF ChainSound, Whole, SignsItself
  <2>5. /\ document.previous = Current.issued /\ Current.issued < document.issued
        /\ keys[Current.issued].document = Current
        /\ Enough(ceremony.signers, Current.roots)
        /\ document \in KeyDocument /\ document.issued <= now
    BY <2>1 DEF ChainSound, SignedInWindow, TypeOK, Ceremony
  <2>6. Linked(Current, ceremony.signers)'
    BY <1>0, <2>1, <2>2, <2>5, KeyChainAssumption DEF Linked, Enough
  <2>7. /\ \A n \in Times : keys[n].document # NoFile => n < document.issued
        /\ document.issued \in Times
    <3>1. document.issued \in Times
      BY <2>5 DEF KeyDocument
    <3>2. \A n \in Times : keys[n].document # NoFile => n <= Current.issued
      BY DEF ChainSound
    <3> QED BY <1>0, <2>5, <3>1, <3>2 DEF Times
  <2> QED BY <1>0, <2>1, <2>2, <2>4, <2>5, <2>6, <2>7 DEF ChainSound, Enough, Times
<1>6. CASE SignKeys
  <2> DEFINE document == ceremony.document
             signature == [of |-> document, by |-> ceremony.signers]
  <2>1. /\ ceremony.pc = "sign" /\ ceremony'.pc = "mirrors" /\ now' = now
        /\ ceremony'.document = document /\ ceremony'.signers = ceremony.signers
        /\ keys' = [keys EXCEPT ![0].signature = signature]
    BY <1>6 DEF SignKeys, Goto, TypeOK, Ceremony
  <2>2. signature.of = document /\ signature.by = ceremony.signers /\ signature \in Signature
    BY DEF TypeOK, Ceremony, Signature
  <2> HIDE DEF signature
  <2>3. /\ \A n \in Times : keys'[n] = keys[n]
        /\ Current' = Current /\ Current = document
        /\ keys'[0].document = document /\ keys'[0].signature = signature
    BY <1>0, <2>1 DEF TypeOK, KeyFile, Current, ChainSound
  <2>4. \A file \in KeyFile : Whole(file) => Whole(file)'
    BY <1>0, <2>3, WholeStays
  <2>5. \A n \in Times : keys[n].document # NoFile => Whole(keys[n])'
    BY <1>0, <2>1, <2>3, <2>4 DEF ChainSound, Whole, SignsItself
  <2>6. /\ Enough(ceremony.signers, document.roots)
        /\ Linked(document, ceremony.signers)
    BY <2>1, <2>3 DEF ChainSound
  <2>7. document \in KeyDocument
    BY DEF TypeOK, Ceremony
  <2>8. Linked(keys[0].document, keys[0].signature.by)'
    <3>1. document.previous # 0 => document.previous \in Times
      BY <2>7 DEF KeyDocument, Names, Times
    <3> QED BY <2>2, <2>3, <2>6, <3>1 DEF Linked, Enough
  <2>9. Whole(keys[0])'
    BY <2>2, <2>3, <2>6, <2>8, KeyChainAssumption DEF Whole, SignsItself, Enough
  <2>10. Linked(Current, ceremony.signers)'
    BY <2>1, <2>2, <2>3, <2>8
  <2> QED BY <1>0, <2>1, <2>3, <2>5, <2>6, <2>9, <2>10 DEF ChainSound, Enough
<1>7. CASE UNCHANGED <<keys, ceremony>> /\ (now' = now \/ now' = now + 1)
  <2>1. Current' = Current
    BY <1>7 DEF Current
  <2>2. now \in Nat /\ Current.issued \in Nat /\ Current.issued <= now
    <3>1. Current.issued <= now
      BY DEF ChainSound
    <3>2. now \in Times
      BY DEF TypeOK
    <3> QED BY <1>0, <3>1, <3>2 DEF Times
  <2>3. Current.issued <= now'
    BY <1>7, <2>2
  <2> QED BY <1>7, <2>1, <2>3 DEF ChainSound, Whole, SignsItself, Linked, Enough
<1> QED
  BY <1>1, <1>2, <1>3, <1>4, <1>5, <1>6, <1>7 DEF Next, vars, Add, Refresh, Tick

\* A key set that is archived or written is the newest one.
LEMMA SkippingStep ==
    ASSUME TypeOK, ChainSound, NothingSkipped, [Next]_vars
    PROVE  NothingSkipped'
<1>0. /\ \A n \in Names : keys[n] \in KeyFile
      /\ Current \in KeyDocument /\ Current.issued \in Times
      /\ 0 \in Names /\ Times \subseteq Names /\ 0 \notin Times
      /\ \A n \in Names : n = 0 \/ n \in Times
  BY FileType DEF Times, Names
<1>1. CASE \A n \in Names : keys'[n].document = keys[n].document
  BY <1>0, <1>1 DEF NothingSkipped
<1>2. CASE ArchiveKeys
  <2> DEFINE n0 == Current.issued
  <2>1. /\ \A n \in Names \ {n0} : keys'[n] = keys[n]
        /\ keys'[n0].document = Current
    BY <1>0, <1>2 DEF ArchiveKeys, TypeOK, KeyFile
  <2>2. ASSUME NEW m \in Names, NEW n \in Times,
               keys'[m].document # NoFile, keys'[n].document # NoFile,
               n < keys'[m].document.issued
        PROVE  n <= keys'[m].document.previous
    <3>1. keys'[m].document.issued \in Nat /\ keys'[m].document.issued <= n0
      <4>1. CASE m = 0
        BY <1>0, <2>1, <4>1 DEF Current, Times
      <4>2. CASE m = n0
        BY <1>0, <2>1, <4>2 DEF Times
      <4>3. CASE m # 0 /\ m # n0
        <5>1. m \in Times /\ keys'[m] = keys[m]
          BY <1>0, <2>1, <4>3
        <5>2. keys'[m].document.issued = m /\ m <= n0
          BY <2>2, <5>1 DEF ChainSound
        <5> QED BY <5>1, <5>2 DEF Times
      <4> QED BY <4>1, <4>2, <4>3
    <3>2. n # n0
      <4>1. n \in Nat /\ n0 \in Nat
        BY <1>0 DEF Times
      <4> QED BY <2>2, <3>1, <4>1
    <3>3. keys[n].document # NoFile
      BY <1>0, <2>1, <2>2, <3>2
    <3>4. \/ m # n0 /\ keys'[m].document = keys[m].document
          \/ m = n0 /\ keys'[m].document = keys[0].document
      BY <2>1 DEF Current
    <3> QED BY <1>0, <2>2, <3>3, <3>4 DEF NothingSkipped
  <2> QED BY <2>2 DEF NothingSkipped
<1>3. CASE WriteKeys
  <2> DEFINE document == ceremony.document
  <2>1. /\ \A n \in Times : keys'[n] = keys[n]
        /\ keys'[0].document = document
        /\ document.previous = Current.issued
    BY <1>0, <1>3 DEF WriteKeys, TypeOK, KeyFile, ChainSound
  <2>2. \A n \in Times : keys[n].document # NoFile => n <= Current.issued
    BY DEF ChainSound
  <2>3. ASSUME NEW m \in Names, NEW n \in Times,
               keys'[m].document # NoFile, keys'[n].document # NoFile,
               n < keys'[m].document.issued
        PROVE  n <= keys'[m].document.previous
    <3>1. CASE m = 0
      BY <2>1, <2>2, <2>3, <3>1
    <3>2. CASE m \in Times
      BY <1>0, <2>1, <2>3, <3>2 DEF NothingSkipped
    <3> QED BY <1>0, <3>1, <3>2
  <2> QED BY <2>3 DEF NothingSkipped
<1>4. CASE ArchiveSignature
  <2>1. \A n \in Names : keys'[n].document = keys[n].document
    BY <1>0, <1>4 DEF ArchiveSignature, TypeOK, KeyFile
  <2> QED BY <1>1, <2>1
<1>5. CASE SignKeys
  <2>1. \A n \in Names : keys'[n].document = keys[n].document
    BY <1>0, <1>5 DEF SignKeys, TypeOK, KeyFile
  <2> QED BY <1>1, <2>1
<1>6. CASE keys' = keys
  BY <1>1, <1>6
<1> QED
  BY <1>2, <1>3, <1>4, <1>5, <1>6
  DEF Next, vars, Begin, AlreadyArchived, WriteMirrors, RefuseMirrors, WriteIndex, Die, Add,
      Refresh, Tick

\* A key set is never older than the one it replaces, and whatever is signed is
\* dated within the windows there are by then.
LEMMA WindowStep ==
    ASSUME TypeOK, ChainSound, SignedInWindow, [Next]_vars
    PROVE  SignedInWindow'
<1>0. /\ keys[0] \in KeyFile /\ 0 \in Names
      /\ Current \in KeyDocument /\ Current.issued \in Nat \ {0} /\ Current.issued <= now
      /\ now \in Nat /\ Window \in Nat
      /\ \A f \in Files : documents[f] \in Document /\ documents[f].issued \in Nat
      /\ ceremony \in Ceremony /\ ceremony.document \in KeyDocument
      /\ ceremony.document.issued \in Nat
  <2>1. Current \in KeyDocument /\ Current.issued \in Times /\ keys[0] \in KeyFile
        /\ 0 \in Names
    BY FileType
  <2>2. ceremony \in Ceremony /\ ceremony.document \in KeyDocument
        /\ ceremony.document.issued \in Times
    BY DEF TypeOK, Ceremony, KeyDocument
  <2>3. \A f \in Files : documents[f] \in Document /\ documents[f].issued \in Times
    BY DEF TypeOK, Document
  <2>4. Current.issued <= now /\ now \in Times
    BY DEF ChainSound, TypeOK
  <2> QED BY <2>1, <2>2, <2>3, <2>4, KeyChainAssumption DEF Times
<1>1. ASSUME NEW roots \in RootSets, NEW listed \in SUBSET Publishers,
             NEW signers \in SUBSET Roots, NEW publishers \in SUBSET Publishers,
             Begin(roots, listed, signers, publishers)
      PROVE  SignedInWindow'
  <2> DEFINE document == Replacing(Current, roots, listed)
  <2>1. /\ UNCHANGED <<now, keys, documents>>
        /\ ceremony'.document = document
    BY <1>1 DEF Begin
  <2>2. /\ document.issued = now
        /\ \A p \in Listed(document) : document.publishers[p] = document.issued
    BY DEF Replacing, Listed
  <2> HIDE DEF document
  <2>3. Current' = Current
    BY <2>1 DEF Current
  <2> QED BY <1>0, <2>1, <2>2, <2>3 DEF SignedInWindow, Listed
<1>2. CASE WriteKeys
  <2> DEFINE document == ceremony.document
  <2>1. /\ ceremony.pc = "write" /\ ceremony'.document = document
        /\ now' = now /\ documents' = documents
        /\ Current' = document
    BY <1>0, <1>2 DEF WriteKeys, Goto, TypeOK, Ceremony, KeyFile, Current
  <2>2. /\ document.issued <= now /\ Current.issued < document.issued
        /\ \A p \in Listed(document) : document.publishers[p] = document.issued
    BY <2>1 DEF SignedInWindow, ChainSound
  <2>3. \A f \in Files : /\ documents[f].issued <= now
                        /\ documents[f].issued <= document.issued + Window
    BY <1>0, <2>2 DEF SignedInWindow
  <2> QED BY <2>1, <2>2, <2>3 DEF SignedInWindow, Listed
<1>3. ASSUME Current' = Current, now' = now,
             \/ ceremony'.pc = "idle"
             \/ ceremony.pc # "idle" /\ ceremony'.document = ceremony.document,
             \A f \in Files : documents'[f].issued \in {documents[f].issued, Current.issued}
      PROVE  SignedInWindow'
  <2>1. \A f \in Files : /\ documents'[f].issued <= now
                        /\ documents'[f].issued <= Current.issued + Window
    BY <1>0, <1>3 DEF SignedInWindow
  <2> QED BY <1>3, <2>1 DEF SignedInWindow, Listed
<1>4. CASE ArchiveKeys \/ ArchiveSignature \/ SignKeys
  <2>1. CASE ArchiveKeys \/ ArchiveSignature
    <3>1. keys'[0] = keys[0]
      BY <1>0, <2>1 DEF ArchiveKeys, ArchiveSignature, TypeOK
    <3> QED BY <1>0, <1>3, <2>1, <3>1
            DEF ArchiveKeys, ArchiveSignature, Goto, Ceremony, Current
  <2>2. CASE SignKeys
    <3>1. keys'[0].document = keys[0].document
      BY <1>0, <2>2 DEF SignKeys, TypeOK, KeyFile
    <3> QED BY <1>0, <1>3, <2>2, <3>1 DEF SignKeys, Goto, Ceremony, Current
  <2> QED BY <1>4, <2>1, <2>2
<1>5. CASE AlreadyArchived \/ RefuseMirrors \/ Die
  BY <1>0, <1>3, <1>5 DEF AlreadyArchived, RefuseMirrors, Die, Goto, End, Idle, Ceremony, Current
<1>8. CASE WriteMirrors \/ WriteIndex
  <2>1. ceremony.document = Current
    BY <1>8 DEF WriteMirrors, WriteIndex, ChainSound
  <2>2. \A f \in Files : documents'[f] \in {documents[f], Signed}
    BY <1>8 DEF WriteMirrors, WriteIndex, TypeOK
  <2>3. Signed.issued = Current.issued
    BY <2>1 DEF Signed
  <2>4. /\ Current' = Current /\ now' = now
        /\ \/ ceremony'.pc = "idle"
           \/ ceremony.pc # "idle" /\ ceremony'.document = ceremony.document
    BY <1>0, <1>8 DEF WriteMirrors, WriteIndex, Current, Goto, End, Idle, Ceremony
  <2>5. \A f \in Files : documents'[f].issued \in {documents[f].issued, Current.issued}
    BY <2>2, <2>3
  <2> QED BY <1>3, <2>4, <2>5
<1>6. ASSUME NEW signers \in SUBSET Publishers, Add(signers) \/ Refresh(signers)
      PROVE  SignedInWindow'
  <2>1. /\ UNCHANGED <<now, keys, ceremony>> /\ MaySign(signers)
        /\ \A f \in Files : documents'[f] = documents[f] \/ documents'[f].issued = now
    BY <1>6 DEF Add, Refresh, TypeOK
  <2>2. now <= Current.issued + Window
    <3>1. PICK p \in signers : p \in Listed(Current) /\ ValidAt(Current, p, now)
      BY <2>1 DEF MaySign
    <3>2. Current.publishers[p] = Current.issued
      BY <3>1 DEF SignedInWindow
    <3> QED BY <3>1, <3>2 DEF ValidAt
  <2>3. Current' = Current
    BY <2>1 DEF Current
  <2>4. \A f \in Files : /\ documents'[f].issued <= now
                        /\ documents'[f].issued <= Current.issued + Window
    BY <1>0, <2>1, <2>2 DEF SignedInWindow
  <2> QED BY <2>1, <2>3, <2>4 DEF SignedInWindow, Listed
<1>7. CASE UNCHANGED <<keys, documents, ceremony>> /\ (now' = now \/ now' = now + 1)
  <2>1. Current' = Current
    BY <1>7 DEF Current
  <2> QED BY <1>0, <1>7, <2>1 DEF SignedInWindow, Listed
<1> QED
  BY <1>1, <1>2, <1>4, <1>5, <1>6, <1>7, <1>8 DEF Next, vars, Tick

\* A key set is written over the signature of an older one.
LEMMA OldSignatureStep ==
    ASSUME TypeOK, ChainSound, OldSignature, [Next]_vars
    PROVE  OldSignature'
<1>0. 0 \in Names /\ keys[0] \in KeyFile /\ Current.issued \in Times
  BY FileType
<1>1. CASE WriteKeys
  <2>1. /\ Current' = ceremony.document
        /\ keys'[0].signature = keys[0].signature
    BY <1>0, <1>1 DEF WriteKeys, TypeOK, KeyFile, Current
  <2>2. Whole(keys[0]) /\ Current.issued < ceremony.document.issued
    BY <1>1 DEF WriteKeys, ChainSound
  <2>3. keys[0].signature # NoFile /\ keys[0].signature.of # ceremony.document
    BY <1>0, <2>2 DEF Whole, Current, Times
  <2> QED BY <2>1, <2>3 DEF OldSignature
<1>2. CASE keys' = keys /\ ceremony' = ceremony
  BY <1>2 DEF OldSignature, Current
<1>3. CASE ceremony'.pc # "sign"
  BY <1>3 DEF OldSignature
<1>4. CASE \/ ArchiveKeys \/ ArchiveSignature \/ AlreadyArchived \/ SignKeys \/ Die
           \/ WriteMirrors \/ RefuseMirrors \/ WriteIndex
  <2>1. CASE ArchiveKeys \/ ArchiveSignature \/ AlreadyArchived \/ SignKeys \/ WriteMirrors
    <3>1. ceremony'.pc # "sign"
      BY <2>1 DEF ArchiveKeys, ArchiveSignature, AlreadyArchived, SignKeys, WriteMirrors, Goto,
                  TypeOK, Ceremony
    <3> QED BY <1>3, <3>1
  <2>2. CASE RefuseMirrors \/ WriteIndex \/ Die
    BY <1>3, <2>2 DEF RefuseMirrors, WriteIndex, Die, End, Idle
  <2> QED BY <1>4, <2>1, <2>2
<1>5. ASSUME NEW roots \in RootSets, NEW listed \in SUBSET Publishers,
             NEW signers \in SUBSET Roots, NEW publishers \in SUBSET Publishers,
             Begin(roots, listed, signers, publishers)
      PROVE  OldSignature'
  BY <1>3, <1>5 DEF Begin
<1>6. CASE (\E signers \in SUBSET Publishers : Add(signers) \/ Refresh(signers)) \/ Tick
  BY <1>2, <1>6 DEF Add, Refresh, Tick
<1> QED BY <1>1, <1>2, <1>4, <1>5, <1>6 DEF Next, vars

\* Through any number of ceremonies, killed and taken up again wherever no
\* signature is missing: every archived key set is signed by its own roots and
\* by those of its predecessor, which is archived before it, none is left out,
\* and nothing is signed after the windows of the key set in place.
THEOREM ChainStaysSound ==
    ASSUME Killable \subseteq SafePhases
    PROVE  Spec => []ChainInv
<1>1. ASSUME Init, TypeOK PROVE ChainInv
  <2>0. /\ \A n \in Names : keys[n] \in KeyFile
        /\ Current \in KeyDocument /\ Current.issued \in Times
        /\ 0 \in Names /\ Times \subseteq Names /\ 0 \notin Times
    BY <1>1, FileType DEF Times
  <2>1. PICK roots \in RootSets, p \in Publishers :
          LET document == [issued      |-> 1,
                           previous    |-> 0,
                           roots       |-> roots,
                           publishers  |-> [q \in Publishers |-> IF q = p THEN 1 ELSE 0],
                           compromised |-> {}]
              file == [document  |-> document,
                       signature |-> [of |-> document, by |-> roots.keys]]
          IN  /\ roots.threshold <= Cardinality(roots.keys)
              /\ keys = [n \in Names |-> IF n = 0 THEN file ELSE Missing]
              /\ documents = [f \in Files |-> [issued |-> 1, by |-> {p}]]
              /\ ceremony = Idle(document)
    BY <1>1 DEF Init
  <2>2. /\ Current.previous = 0 /\ Current.issued = 1 /\ Current.roots = roots
        /\ keys[0].signature = [of |-> Current, by |-> roots.keys]
        /\ \A n \in Times : keys[n].document = NoFile
        /\ ceremony.pc = "idle"
    BY <2>0, <2>1 DEF Current, Missing, Idle
  <2>3. /\ keys[0].document = Current
        /\ keys[0].signature.of = Current /\ keys[0].signature.by = roots.keys
    BY <2>2 DEF Current
  <2>4. keys[0].signature # NoFile
    BY <2>0, <2>2, KeyChainAssumption DEF Signature
  <2>5. Cardinality(roots.keys \cap roots.keys) >= roots.threshold
    <3>1. roots.keys \cap roots.keys = roots.keys
      OBVIOUS
    <3>2. roots.threshold <= Cardinality(roots.keys)
      BY <2>1
    <3> QED BY <3>1, <3>2
  <2>6. Whole(keys[0])
    BY <2>2, <2>3, <2>4, <2>5 DEF Whole, SignsItself, Linked, Enough
  <2>7. ChainSound
    BY <1>1, <2>0, <2>2, <2>6 DEF ChainSound, TypeOK, Times
  <2>8. NothingSkipped /\ OldSignature
    BY <2>0, <2>2 DEF NothingSkipped, OldSignature
  <2>9. SignedInWindow
    <3>1. /\ now = 1 /\ documents = [f \in Files |-> [issued |-> 1, by |-> {p}]]
      BY <1>1, <2>1 DEF Init
    <3>2. Current.publishers = [q \in Publishers |-> IF q = p THEN 1 ELSE 0]
      BY <2>0, <2>1 DEF Current
    <3>3. \A q \in Listed(Current) : Current.publishers[q] = 1
      BY <3>2 DEF Listed
    <3>4. 1 <= 1 + Window
      BY KeyChainAssumption
    <3> QED BY <2>2, <3>1, <3>3, <3>4 DEF SignedInWindow
  <2> QED BY <2>7, <2>8, <2>9 DEF ChainInv
<1>2. TypeOK /\ TypeOK' /\ ChainInv /\ [Next]_vars => ChainInv'
  BY ChainStep, SkippingStep, WindowStep, OldSignatureStep DEF ChainInv
<1> QED BY <1>1, <1>2, TypeCorrect, PTL DEF Spec

-----------------------------------------------------------------------------
(* What clients make of it *)

\* No key set in place or archived declares anything compromised.
LEMMA WholeUncompromised ==
    ASSUME NEW file \in KeyFile, Whole(file)
    PROVE  file.document.compromised = {}
<1>1. file.document \in KeyDocument
  BY KeyChainAssumption DEF Whole, KeyFile, Signature
<1> QED BY <1>1 DEF KeyDocument

\* What enough of some roots signed is accepted by who trusts these.
LEMMA WholeAuthorised ==
    ASSUME NEW file \in KeyFile, Whole(file), NEW roots, Enough(file.signature.by, roots)
    PROVE  CheckSignatures(file, roots) /\ Authorised(file, roots)
<1>1. file.document.compromised = {}
  BY WholeUncompromised
<1> QED BY <1>1 DEF Whole, Authorised, CheckSignatures, Enough

\* verify_keys: the walk goes through every key set that is as new as the one
\* that the anchor is of.
LEMMA WalkSucceeds ==
    ASSUME TypeOK, ChainInv, ceremony.pc # "sign", Unexpired(Current.issued, KeysLife),
           NEW anchor \in Anchors
    PROVE  VerifyKeys(keys, anchor, now)
<1>0. /\ \A n \in Names : keys[n] \in KeyFile
      /\ Current \in KeyDocument /\ Current.issued \in Times
      /\ 0 \in Names /\ Times \subseteq Names /\ 0 \notin Times
      /\ \A n \in Names : n = 0 \/ n \in Times
      /\ DOMAIN keys = Names
  BY FileType DEF Times, Names, TypeOK
<1>1. PICK a \in Names : keys[a].document # NoFile /\ anchor = keys[a].document.roots
  BY DEF Anchors
<1> DEFINE start == keys[a].document.issued
           files == {n \in Names : keys[n].document # NoFile}
           walk == {n \in files : n = 0 \/ (start <= n /\ n < Current.issued)}
<1>2. \A n \in files : /\ keys[n].document \in KeyDocument
                       /\ keys[n].document.issued \in Times
                       /\ keys[n].document.previous \in Names
  BY <1>0 DEF KeyFile, KeyDocument
<1>3. \A n \in files : n # 0 => n = keys[n].document.issued /\ n <= Current.issued
  BY <1>0 DEF ChainInv, ChainSound
<1>4. \A n \in files : n = 0 \/ n < Current.issued => Whole(keys[n])
  <2>1. \A n \in Times : n < Current.issued => n # Current.issued
    BY <1>0 DEF Times
  <2> QED BY <1>0, <2>1 DEF ChainInv, ChainSound
<1>5. ASSUME NEW n \in walk, ~CheckSignatures(keys[n], anchor)
      PROVE  /\ keys[n].document.previous # 0
             /\ keys[n].document.previous \in walk
             /\ keys[n].document.previous < keys[n].document.issued
             /\ Authorised(keys[n], keys[keys[n].document.previous].document.roots)
  <2> DEFINE link == keys[n].document.previous
             issued == keys[n].document.issued
  <2>1. n \in files /\ Whole(keys[n])
    BY <1>4
  <2>2. ~Enough(keys[n].signature.by, anchor)
    BY <1>0, <1>5, <2>1, WholeAuthorised
  <2>3. anchor # keys[n].document.roots
    BY <2>1, <2>2 DEF Whole, SignsItself
  <2>4. /\ start \in Times /\ issued \in Times /\ link \in Names
        /\ issued <= Current.issued
    <3>1. a \in files
      BY <1>1
    <3>2. issued <= Current.issued
      BY <1>0, <1>2, <1>3, <2>1 DEF Current, Times
    <3> QED BY <1>2, <2>1, <3>1, <3>2
  <2>5. start < Current.issued
    <3>1. CASE a = 0
      <4>1. n # 0 /\ start = Current.issued
        BY <1>1, <2>3, <3>1 DEF Current
      <4> QED BY <1>0, <2>4, <4>1 DEF Times
    <3>2. CASE a # 0 /\ start = Current.issued
      <4>1. keys[a].document = Current
        BY <1>1, <1>3, <3>2 DEF ChainInv, ChainSound
      <4>2. n # 0
        BY <1>1, <2>3, <4>1 DEF Current
      <4> QED BY <1>0, <3>2, <4>2 DEF Times
    <3>3. CASE a # 0 /\ start # Current.issued
      <4>1. start = a /\ a <= Current.issued
        BY <1>1, <1>3, <3>3
      <4> QED BY <1>0, <2>4, <3>3, <4>1 DEF Times
    <3> QED BY <3>1, <3>2, <3>3
  <2>6. a # 0 /\ start = a /\ a \in Times
    <3>1. a # 0
      BY <1>0, <2>5 DEF Current, Times
    <3> QED BY <1>0, <1>1, <1>3, <3>1
  <2>7. start < issued
    <3>1. CASE n = 0
      BY <2>5, <3>1 DEF Current
    <3>2. CASE n # 0
      <4>1. issued = n /\ start <= n
        BY <1>3, <2>1, <3>2
      <4>2. n # a
        BY <1>1, <2>3
      <4> QED BY <2>4, <2>6, <4>1, <4>2 DEF Times
    <3> QED BY <3>1, <3>2
  <2>8. a <= link
    BY <1>1, <2>1, <2>6, <2>7 DEF ChainInv, NothingSkipped
  <2>9. link # 0 /\ link \in Times
    <3>1. a \in Nat /\ a > 0
      BY <2>6 DEF Times
    <3>2. link # 0
      BY <2>8, <3>1
    <3> QED BY <1>0, <2>4, <3>2
  <2>10. /\ link < issued /\ keys[link].document # NoFile
         /\ Enough(keys[n].signature.by, keys[link].document.roots)
    BY <2>1, <2>9 DEF Whole, Linked
  <2>11. link < Current.issued
    BY <1>0, <2>4, <2>9, <2>10 DEF Times
  <2>12. link \in walk
    BY <2>4, <2>6, <2>8, <2>10, <2>11
  <2>13. Authorised(keys[n], keys[link].document.roots)
    BY <1>0, <2>1, <2>10, WholeAuthorised
  <2> QED BY <2>9, <2>10, <2>12, <2>13
<1>6. Reached(keys, anchor)
  <2>1. walk \in SUBSET DOMAIN keys /\ 0 \in walk
    BY <1>0 DEF TypeOK
  <2>2. \A n \in walk : /\ keys[n].document # NoFile
                        /\ CheckSignatures(keys[n], anchor) => Authorised(keys[n], anchor)
    BY <1>0, <1>4, WholeUncompromised DEF Authorised
  <2> HIDE DEF walk
  <2> QED BY <1>5, <2>1, <2>2 DEF Reached
<1>7. CheckHeader(keys[0].document, KeysLife, now)
  BY DEF CheckHeader, Unexpired, Current, ChainInv, ChainSound
<1> QED BY <1>6, <1>7 DEF VerifyKeys

\* Whichever of its key sets a client was given as an anchor, it gets to the one
\* in place, however many ceremonies it has missed and whichever were killed.
THEOREM EveryoneCatchesUp ==
    ASSUME Killable \subseteq SafePhases
    PROVE  Spec => []OfflineClientsCatchUp
<1>1. TypeOK /\ ChainInv => OfflineClientsCatchUp
  BY WalkSucceeds DEF OfflineClientsCatchUp
<1> QED BY <1>1, TypeCorrect, ChainStaysSound, PTL

\* A key set that is written and not signed yet is refused by all of them.
THEOREM HalfSignedIsRefused ==
    ASSUME Killable \subseteq SafePhases
    PROVE  Spec => []HalfSignedRefused
<1>1. ASSUME TypeOK, ChainInv PROVE HalfSignedRefused
  <2> SUFFICES ASSUME ceremony.pc = "sign", NEW anchor \in Anchors,
                      VerifyKeys(keys, anchor, now)
               PROVE  FALSE
    BY DEF HalfSignedRefused
  <2>1. ASSUME NEW roots \in RootSets, Authorised(keys[0], roots) PROVE FALSE
    <3>1. /\ keys[0].signature.of # keys[0].document
          /\ CheckSignatures(keys[0], roots)
      BY <1>1, <2>1 DEF ChainInv, OldSignature, Current, Authorised
    <3>2. Cardinality({}) >= roots.threshold
      BY <3>1 DEF CheckSignatures
    <3> QED BY <2>1, <3>2, FS_EmptySet, KeyChainAssumption
  <2>2. ASSUME NEW n \in Names, keys[n].document # NoFile
        PROVE  keys[n].document.roots \in RootSets
    BY <1>1, <2>2, FileType DEF KeyFile, KeyDocument
  <2>3. anchor \in RootSets
    BY <2>2 DEF Anchors
  <2>4. DOMAIN keys = Names
    BY <1>1 DEF TypeOK
  <2>5. \/ Authorised(keys[0], anchor)
        \/ \E link \in Names : /\ keys[link].document # NoFile
                               /\ Authorised(keys[0], keys[link].document.roots)
    BY <2>4 DEF VerifyKeys, Reached
  <2> QED BY <2>1, <2>2, <2>3, <2>5
<1> QED BY <1>1, TypeCorrect, ChainStaysSound, PTL

\* What a listed publisher has signed since the key set in place was issued
\* verifies for each anchor until it expires.
THEOREM SignedIsValid ==
    ASSUME Killable \subseteq SafePhases
    PROVE  Spec => []SignedStaysValid
<1>1. ASSUME TypeOK, ChainInv PROVE SignedStaysValid
  <2> SUFFICES ASSUME ceremony.pc # "sign", Unexpired(Current.issued, KeysLife),
                      \A f \in Files : /\ Unexpired(documents[f].issued, DocumentLife)
                                      /\ documents[f].issued >= Current.issued
                                      /\ documents[f].by \cap Listed(Current) # {},
                      NEW anchor \in Anchors
               PROVE  VerifySource(Here, anchor, Nothing, now)
    BY DEF SignedStaysValid
  <2>1. VerifyKeys(keys, anchor, now)
    BY <1>1, WalkSucceeds
  <2>2. ASSUME NEW f \in Files
        PROVE  VerifyDocument(documents[f], Current, 0, now)
    <3>1. CheckHeader(documents[f], DocumentLife, now)
      BY <1>1 DEF CheckHeader, Unexpired, ChainInv, SignedInWindow
    <3>2. SignedInTime(documents[f], Current, now)
      <4>1. Current.compromised = {}
        BY <1>1, FileType DEF KeyDocument
      <4>2. \A p \in Listed(Current) : ValidAt(Current, p, documents[f].issued)
        BY <1>1 DEF ValidAt, ChainInv, SignedInWindow
      <4> QED BY <4>1, <4>2 DEF SignedInTime
    <3>3. documents[f].issued > 0
      BY <1>1 DEF TypeOK, Document, Times
    <3> QED BY <3>1, <3>2, <3>3 DEF VerifyDocument
  <2> QED BY <2>1, <2>2 DEF VerifySource, Here, Nothing, Files, Current
<1> QED BY <1>1, TypeCorrect, ChainStaysSound, PTL

=============================================================================
