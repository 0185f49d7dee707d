------------------------------ MODULE KeyChain ------------------------------
(***************************************************************************)
(* The key sets of one source over time. A ceremony with the root keys     *)
(* (init) archives the key set it replaces, puts a new one in its place    *)
(* and lays both documents down anew; the publishers sign theirs on their  *)
(* own schedule, and clients verify what they get, with an anchor that may *)
(* be as old as the source. See Verifier for the documents and what is     *)
(* left out of them.                                                       *)
(*                                                                         *)
(* Simplifications:                                                        *)
(*  - one ceremony at a time, ceremonies seconds apart; a write takes one  *)
(*    step, and a publisher's document and its signature take one (Source  *)
(*    takes them apart);                                                   *)
(*  - of the documents only the dates and the signers: what is in an index *)
(*    and that a ceremony empties it is left out;                          *)
(*  - who signs is listed by the key set the signature is for, and may     *)
(*    sign at that time; none of the tools looks.                          *)
(***************************************************************************)
EXTENDS Verifier

CONSTANTS
    Roots, Publishers,  \* key ids
    RootSets,       \* the sets of roots, with their threshold, to choose from
    Killable,       \* the phases at which a ceremony may be killed
    MaxNow          \* bound: the last second

Times == 1 .. MaxNow
Names == 0 .. MaxNow
Files == {Mirrors, Index}
Phases == {"idle", "archive", "archive signature", "write", "sign", "mirrors", "index"}
SafePhases == {"archive", "write", "mirrors", "index"}

\* publishers[p]: from when p may sign, 0 where it is not listed. No command
\* has write_keys declare a key compromised.
KeyDocument == [issued      : Times,
                previous    : Names,
                roots       : RootSets,
                publishers  : [Publishers -> Names],
                compromised : {{}}]

Signature == [of : KeyDocument, by : SUBSET Roots]

ASSUME KeyChainAssumption ==
    /\ NoFile \notin KeyDocument \cup Signature
    /\ Roots \cap Publishers = {}
    /\ \A r \in RootSets : r.keys \subseteq Roots /\ r.threshold \in Nat \ {0}
    /\ \A r \in RootSets : r = [keys |-> r.keys, threshold |-> r.threshold]
    /\ Killable \subseteq Phases \ {"idle"}
    /\ KeysLife \in Nat /\ DocumentLife \in Nat /\ Window \in Nat
    /\ MaxNow \in Nat \ {0}

VARIABLES
    now,            \* the second
    keys,           \* the key files of the source
    documents,      \* the documents the publishers signed
    ceremony        \* the ceremony under way

vars == <<now, keys, documents, ceremony>>

-----------------------------------------------------------------------------
(* Documents *)

KeyFile == [document  : KeyDocument \cup {NoFile},
            signature : Signature \cup {NoFile}]

Missing == [document |-> NoFile, signature |-> NoFile]

Document == [issued : Times, by : SUBSET Publishers]

Ceremony == [pc : Phases, document : KeyDocument, signers : SUBSET Roots,
             publishers : SUBSET Publishers]

Idle(document) == [pc |-> "idle", document |-> document, signers |-> {}, publishers |-> {}]

TypeOK ==
    /\ now \in Times
    /\ keys \in [Names -> KeyFile] /\ keys[0].document # NoFile
    /\ documents \in [Files -> Document]
    /\ ceremony \in Ceremony

Current == keys[0].document
Here == [keys |-> keys, documents |-> documents]
Seen == [f \in Files |-> documents[f].issued]
Nothing == [f \in Files |-> 0]

\* The roots of every key set this source has had, as a client's anchor.
Anchors == {keys[n].document.roots : n \in {m \in Names : keys[m].document # NoFile}}

-----------------------------------------------------------------------------
(* Laying the source down *)

\* init_source: the key set, the mirror list and an empty index, each signed
\* in the first second.
Init ==
    /\ now = 1
    /\ \E roots \in RootSets, p \in Publishers :
          LET document == [issued      |-> 1,
                           previous    |-> 0,
                           roots       |-> roots,
                           publishers  |-> [q \in Publishers |-> IF q = p THEN 1 ELSE 0],
                           compromised |-> {}]
              file == [document  |-> document,
                       signature |-> [of |-> document, by |-> roots.keys]]
          IN  /\ roots.threshold <= Cardinality(roots.keys)
              /\ keys = [n \in Names |-> IF n = 0 THEN file ELSE Missing]
              /\ documents = [f \in Files |-> [issued |-> 1, by |-> {p}]]
              /\ ceremony = Idle(document)

-----------------------------------------------------------------------------
(* init, over the source there is *)

Goto(phase) == ceremony' = [ceremony EXCEPT !.pc = phase]

End == ceremony' = Idle(Current)

Enough(signers, roots) == Cardinality(signers \cap roots.keys) >= roots.threshold

\* Who signs is up to the ceremony: the outgoing roots authorise the incoming
\* set, and the incoming ones sign for clients that trust nothing older.
SignedByBoth(signers, old, new) ==
    /\ signers \subseteq old.roots.keys \cup new.roots.keys
    /\ Enough(signers, old.roots)
    /\ Enough(signers, new.roots)

\* The key set that a ceremony puts in the place of another one: it lists the
\* publishers that are given, each from now on, whatever the old one says.
Replacing(old, roots, listed) ==
    [issued      |-> now,
     previous    |-> old.issued,
     roots       |-> roots,
     publishers  |-> [p \in Publishers |-> IF p \in listed THEN now ELSE 0],
     compromised |-> {}]

\* The key set in place is read, and must be older.
Begin(roots, listed, signers, publishers) ==
    /\ ceremony.pc = "idle"
    /\ now > Current.issued
    /\ publishers # {} /\ publishers \subseteq listed
    /\ LET document == Replacing(Current, roots, listed)
       IN  /\ SignedByBoth(signers, Current, document)
           /\ ceremony' = [pc |-> "archive", document |-> document, signers |-> signers,
                           publishers |-> publishers]
    /\ UNCHANGED <<now, keys, documents>>

\* Mutant: the archive does not get the signature.
ArchiveKeys_Unsigned ==
    /\ ceremony.pc = "archive"
    /\ keys[Current.issued].document = NoFile
    /\ keys' = [keys EXCEPT ![Current.issued].document = Current]
    /\ Goto("write")
    /\ UNCHANGED <<now, documents>>

\* It is archived, unless an earlier ceremony has got that far ...
ArchiveKeys ==
    /\ ceremony.pc = "archive"
    /\ keys[Current.issued].document = NoFile
    /\ keys' = [keys EXCEPT ![Current.issued].document = Current]
    /\ Goto("archive signature")
    /\ UNCHANGED <<now, documents>>

\* ... and only then its signature is.
ArchiveSignature ==
    /\ ceremony.pc = "archive signature"
    /\ keys' = [keys EXCEPT ![Current.issued].signature = keys[0].signature]
    /\ Goto("write")
    /\ UNCHANGED <<now, documents>>

AlreadyArchived ==
    /\ ceremony.pc = "archive"
    /\ keys[Current.issued].document # NoFile
    /\ Goto("write")
    /\ UNCHANGED <<now, keys, documents>>

\* The thresholds are looked at now, and the document is written ...
WriteKeys ==
    /\ ceremony.pc = "write"
    /\ ceremony.document.roots.threshold <= Cardinality(ceremony.document.roots.keys)
    /\ Cardinality(ceremony.signers) >= ceremony.document.roots.threshold
    /\ keys' = [keys EXCEPT ![0].document = ceremony.document]
    /\ Goto("sign")
    /\ UNCHANGED <<now, documents>>

\* ... and signed.
SignKeys ==
    /\ ceremony.pc = "sign"
    /\ keys' = [keys EXCEPT ![0].signature = [of |-> ceremony.document,
                                              by |-> ceremony.signers]]
    /\ Goto("mirrors")
    /\ UNCHANGED <<now, documents>>

Signed == [issued |-> ceremony.document.issued, by |-> ceremony.publishers]

\* The mirror list is written anew ...
WriteMirrors ==
    /\ ceremony.pc = "mirrors"
    /\ ceremony.document.issued > documents[Mirrors].issued
    /\ documents' = [documents EXCEPT ![Mirrors] = Signed]
    /\ Goto("index")
    /\ UNCHANGED <<now, keys>>

\* ... unless there is a newer one, which ends the ceremony ...
RefuseMirrors ==
    /\ ceremony.pc = "mirrors"
    /\ ceremony.document.issued <= documents[Mirrors].issued
    /\ End
    /\ UNCHANGED <<now, keys, documents>>

\* ... and then an index, over whatever index there is.
WriteIndex ==
    /\ ceremony.pc = "index"
    /\ documents' = [documents EXCEPT ![Index] = Signed]
    /\ End
    /\ UNCHANGED <<now, keys>>

\* The ceremony is killed, or refuses.
Die ==
    /\ ceremony.pc \in Killable
    /\ End
    /\ UNCHANGED <<now, keys, documents>>

-----------------------------------------------------------------------------
(* The publishers, the mirrors, the clients and the clock *)

\* The keys on the publishing machine: listed ones, which may sign now.
MaySign(signers) ==
    /\ signers # {}
    /\ signers \subseteq Listed(Current)
    /\ \A p \in signers : ValidAt(Current, p, now)

\* add: the index moves on, the mirror list stays.
Add(signers) ==
    /\ MaySign(signers)
    /\ now > documents[Index].issued
    /\ documents' = [documents EXCEPT ![Index] = [issued |-> now, by |-> signers]]
    /\ UNCHANGED <<now, keys, ceremony>>

\* Mutant: a document is not held to be newer than the one it replaces.
Refresh_Backdated(signers) ==
    /\ MaySign(signers)
    /\ documents' = [f \in Files |-> [issued |-> now - 1, by |-> signers]]
    /\ UNCHANGED <<now, keys, ceremony>>

\* refresh: both are dated and signed anew.
Refresh(signers) ==
    /\ MaySign(signers)
    /\ \A f \in Files : now > documents[f].issued
    /\ documents' = [f \in Files |-> [issued |-> now, by |-> signers]]
    /\ UNCHANGED <<now, keys, ceremony>>

Tick ==
    /\ now < MaxNow
    /\ now' = now + 1
    /\ UNCHANGED <<keys, documents, ceremony>>

Next ==
    \/ \E roots \in RootSets, listed \in SUBSET Publishers,
          signers \in SUBSET Roots, publishers \in SUBSET Publishers :
             Begin(roots, listed, signers, publishers)
    \/ ArchiveKeys
    \/ ArchiveSignature
    \/ AlreadyArchived
    \/ WriteKeys
    \/ SignKeys
    \/ WriteMirrors
    \/ RefuseMirrors
    \/ WriteIndex
    \/ Die
    \/ \E signers \in SUBSET Publishers : Add(signers) \/ Refresh(signers)
    \/ Tick

Spec == Init /\ [][Next]_vars

-----------------------------------------------------------------------------
(* Properties *)

Unexpired(issued, life) == now < issued + life

\* source.py: "a client that has been offline across rotations can walk
\* backwards to a key set it still trusts and then verify forward". Whichever
\* key set of the source a client was given as its anchor, it gets to the one
\* in place, through ceremonies that were killed and taken up again.
OfflineClientsCatchUp ==
    ceremony.pc # "sign" /\ Unexpired(Current.issued, KeysLife)
        => \A anchor \in Anchors : VerifyKeys(keys, anchor, now)

\* A key set that is in place without its signature, next to the one of its
\* predecessor, is taken for neither of them.
HalfSignedRefused ==
    ceremony.pc = "sign" => \A anchor \in Anchors : ~VerifyKeys(keys, anchor, now)

\* What a publisher that the key set in place lists has signed since it was
\* issued verifies for each anchor until it expires, also what it signed while
\* the ceremony was under way or after one that was killed, and when its window
\* has closed meanwhile.
SignedStaysValid ==
    /\ ceremony.pc # "sign" /\ Unexpired(Current.issued, KeysLife)
    /\ \A f \in Files : /\ Unexpired(documents[f].issued, DocumentLife)
                        /\ documents[f].issued >= Current.issued
                        /\ documents[f].by \cap Listed(Current) # {}
    => \A anchor \in Anchors : VerifySource(Here, anchor, Nothing, now)

\* verify.py asks for "freshness against state" of the index and for a
\* publisher's signature of the mirror list: a client that has accepted the
\* source, and looks again when the index has moved on, accepts it again.
NewerIndexAccepted ==
    [][\A anchor \in Anchors :
          /\ VerifySource(Here, anchor, Nothing, now)
          /\ documents'[Index].issued > documents[Index].issued
          => VerifySource(Here', anchor, Seen, now')]_vars

\* The inductive invariant behind all of these. A key set is signed by enough of
\* the roots it lists itself ...
SignsItself(file) == Enough(file.signature.by, file.document.roots)

\* ... and of those of the one it replaced, which is archived and older.
Linked(document, signers) ==
    document.previous # 0 =>
        /\ document.previous < document.issued
        /\ keys[document.previous].document # NoFile
        /\ Enough(signers, keys[document.previous].document.roots)

Whole(file) ==
    /\ file.signature # NoFile
    /\ file.signature.of = file.document
    /\ SignsItself(file)
    /\ Linked(file.document, file.signature.by)

\* Every key set is whole, the archived ones under their names, but for the
\* ceremony's own steps between an archive or a key set and its signature.
ChainSound ==
    /\ \A n \in Times : keys[n].document # NoFile =>
          /\ keys[n].document.issued = n
          /\ \/ Whole(keys[n])
             \/ ceremony.pc = "archive signature" /\ n = Current.issued
    /\ \A n \in Times : keys[n].document # NoFile => n <= Current.issued
    /\ keys[Current.issued].document \in {NoFile, Current}
    /\ Current.issued <= now
    /\ ceremony.pc # "sign" => Whole(keys[0])
    /\ ceremony.pc # "idle" =>
          /\ Enough(ceremony.signers, ceremony.document.roots)
          /\ IF ceremony.pc \in {"sign", "mirrors", "index"}
             THEN /\ Current = ceremony.document
                  /\ Linked(Current, ceremony.signers)
             ELSE /\ ceremony.document.previous = Current.issued
                  /\ Current.issued < ceremony.document.issued
                  /\ Enough(ceremony.signers, Current.roots)
    /\ ceremony.pc \in {"archive signature", "write"} =>
          keys[Current.issued].document = Current

\* No archived key set is left out on the way from a newer one.
NothingSkipped ==
    \A m \in Names, n \in Times :
       /\ keys[m].document # NoFile /\ keys[n].document # NoFile
       /\ n < keys[m].document.issued
       => n <= keys[m].document.previous

\* The windows of a key set begin with it, and nothing was ever signed after
\* they closed.
SignedInWindow ==
    /\ \A p \in Listed(Current) : Current.publishers[p] = Current.issued
    /\ ceremony.pc # "idle" =>
          /\ ceremony.document.issued <= now
          /\ \A p \in Listed(ceremony.document) :
                ceremony.document.publishers[p] = ceremony.document.issued
    /\ \A f \in Files : /\ documents[f].issued <= now
                        /\ documents[f].issued <= Current.issued + Window

\* What is beside a key set that is not signed yet is of another one.
OldSignature ==
    ceremony.pc = "sign" => /\ keys[0].signature # NoFile
                            /\ keys[0].signature.of # Current

ChainInv == ChainSound /\ NothingSkipped /\ SignedInWindow /\ OldSignature

=============================================================================
