------------------------------ MODULE Verifier ------------------------------
(***************************************************************************)
(* verify.py: what a client makes of the key sets of a source and of the   *)
(* documents its publishers signed, as predicates.                         *)
(*                                                                         *)
(*  keys[0]    keys.json; keys[n], n > 0: the key set archived under       *)
(*             keys/<n>.json; each a document and the signature beside it  *)
(*  documents  the documents signed by a publisher, with their signers     *)
(*                                                                         *)
(* Simplifications:                                                        *)
(*  - a signature file is the document it was made of and who signed it;   *)
(*    the names of archived key sets are the seconds in them;              *)
(*  - every client is of the generation the documents ask for;             *)
(*  - a retired key is a key: its mode changes no verdict;                 *)
(*  - a signature file names a key at most once, as the tools write it: a  *)
(*    key named twice would be counted twice.                              *)
(***************************************************************************)
EXTENDS Naturals, FiniteSets

CONSTANTS
    NoFile,         \* what a missing file holds
    KeysLife,       \* KEYS_EXPIRY_DAYS
    DocumentLife,   \* INDEX_EXPIRY_DAYS and MIRRORS_EXPIRY_DAYS
    Window          \* how long a publisher may sign, --publisher-years

Mirrors == "mirrors.json"
Index == "index.json"

-----------------------------------------------------------------------------
(* Signatures and headers *)

\* Mutant: the signatures are counted and not verified.
CheckSignatures_Counted(file, allowed) ==
    /\ file.signature # NoFile
    /\ Cardinality(file.signature.by \cap allowed.keys) >= allowed.threshold

\* check_signatures: one by a key outside allowed does not count, one by an
\* allowed key that is not over the document refuses them all.
CheckSignatures(file, allowed) ==
    LET accepted == file.signature.by \cap allowed.keys
    IN  /\ file.signature # NoFile
        /\ accepted # {} => file.signature.of = file.document
        /\ Cardinality(accepted) >= allowed.threshold

\* check_header: what is expired or dated in the future is refused.
CheckHeader(document, life, now) ==
    /\ now < document.issued + life
    /\ document.issued <= now

\* The publishers a key set lists, and whether one may have signed then.
Listed(keyset) == {p \in DOMAIN keyset.publishers : keyset.publishers[p] # 0}

ValidAt(keyset, p, moment) ==
    keyset.publishers[p] <= moment /\ moment <= keyset.publishers[p] + Window

-----------------------------------------------------------------------------
(* verify_keys *)

\* One step forward: the roots trusted so far signed the next key set, and
\* none of them is revoked by it as compromised.
Authorised(file, trusted) ==
    /\ CheckSignatures(file, trusted)
    /\ file.signature.by \cap trusted.keys \cap file.document.compromised = {}

\* Mutant: the walk ends at the key set in place.
Reached_Unwalked(keys, anchor) == Authorised(keys[0], anchor)

\* The walk back along previous, to a key set that the anchor signed, and
\* forward again over the same files. One that comes back to where it has been
\* is refused, which links to older key sets never do.
Reached(keys, anchor) ==
    \E walk \in SUBSET DOMAIN keys :
       /\ 0 \in walk
       /\ \A n \in walk :
             LET file == keys[n]
                 link == file.document.previous
             IN  /\ file.document # NoFile
                 /\ IF CheckSignatures(file, anchor)
                    THEN Authorised(file, anchor)
                    ELSE /\ link # 0 /\ link \in walk
                         /\ link < file.document.issued
                         /\ Authorised(file, keys[link].document.roots)

\* Only the current key set is held to its expiry.
VerifyKeys(keys, anchor, now) ==
    /\ CheckHeader(keys[0].document, KeysLife, now)
    /\ Reached(keys, anchor)

-----------------------------------------------------------------------------
(* verify_source *)

\* Mutant: what was signed is worthless once the window has closed.
SignedInTime_Now(document, keyset, now) ==
    LET usable == (document.by \cap Listed(keyset)) \ keyset.compromised
    IN  /\ usable # {}
        /\ \A p \in usable : ValidAt(keyset, p, now)

\* A compromised signer is passed over, any other listed one outside of its
\* window, when the document was issued, refuses the document.
SignedInTime(document, keyset, now) ==
    LET usable == (document.by \cap Listed(keyset)) \ keyset.compromised
    IN  /\ usable # {}
        /\ \A p \in usable : ValidAt(keyset, p, document.issued)

\* verify_signed_by_publisher; seen is the second of the copy seen before.
VerifyDocument(document, keyset, seen, now) ==
    /\ CheckHeader(document, DocumentLife, now)
    /\ SignedInTime(document, keyset, now)
    /\ document.issued > seen

\* The key set, the mirror list and the index, against what was seen before.
VerifySource(source, anchor, seen, now) ==
    /\ VerifyKeys(source.keys, anchor, now)
    /\ \A f \in {Mirrors, Index} :
          VerifyDocument(source.documents[f], source.keys[0].document, seen[f], now)

=============================================================================
