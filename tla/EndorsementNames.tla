--------------------------- MODULE EndorsementNames ---------------------------
(***************************************************************************)
(* The files of the endorsement records (EndorsementKey in src/src/        *)
(* trustadapter.rs).  A record is found by its name: the pattern of a name *)
(* is looked for anywhere in it, and the record is then read from the file *)
(* that would have exactly this name.  Files are copied under other names, *)
(* lost and damaged, as tools that synchronise folders do.  TrustAdapter   *)
(* speaks of the record of a key for a delta; this module is why it may.   *)
(***************************************************************************)
EXTENDS FiniteSets, Naturals

CONSTANTS
  None,     \* no file
  Garbage,  \* a content that cannot be decoded
  Deltas,   \* delta ids: each is a revision and a digest
  Digests,
  Digest,   \* Digest[d]: the digest in d, all of it that is ever signed
  Keys,     \* public keys, all of them trusted by the reader
  Digits,   \* what a name has in place of a key, see BadDigits
  MaxFiles  \* bound: files in the storage at once

\* An odd number of hex digits, and digits that are not those of 32 bytes.
BadDigits == {"odd", "other"}

ASSUME NamesAssumption ==
  /\ Digits \subseteq BadDigits
  /\ MaxFiles \in Nat
  /\ Keys \cap BadDigits = {}
  /\ Digest \in [Deltas -> Digests]
  /\ {None, Garbage} \cap (Digests \X (Keys \cup BadDigits)) = {}

VARIABLES
  folder,  \* folder[n]: the content of the file named n, None if there is none
  signed   \* the pairs of a digest and a key whose owner signed it

nameVars == <<folder, signed>>

\* A name the pattern is found in; exact if it has nothing else, which does not
\* matter where the digits are of no key.
EndorsementName ==
  {n \in [delta : Deltas, digits : Keys \cup Digits, exact : BOOLEAN] :
     n.digits \in BadDigits => n.exact}

file_name(d, k) == [delta |-> d, digits |-> k, exact |-> TRUE]

\* Mutant: a copy of a record is read in place of the record.
RecordOf_Listed(n) == n

\* EndorsementKey::from, then file_name of it.
RecordOf(n) == file_name(n.delta, n.digits)

\* Mutant: the signature is not tied to the delta it is stored for.
Verifies_AnyDelta(n) == \E x \in Digests : folder[RecordOf(n)] = <<x, n.digits>>

\* A file holds a signature of a digest by a key, or garbage.
Verifies(n) == folder[RecordOf(n)] = <<Digest[n.delta], n.digits>>

Listed == {n \in EndorsementName : folder[n] # None}

\* The names at which the loop over the listing panics or fails.
Failing(d) ==
  {n \in Listed :
     \/ n.digits = "odd"
     \/ n.delta = d /\ (n.digits = "other" \/ folder[RecordOf(n)] \in {None, Garbage})}

fetch_endorsements(d) ==
  [ok    |-> Failing(d) = {},
   valid |-> {n.digits : n \in {m \in Listed : m.delta = d /\ Verifies(m)}}]

NamesTypeOK ==
  /\ folder \in [EndorsementName -> (Digests \X Keys) \cup {None, Garbage}]
  /\ signed \subseteq Digests \X Keys

NamesInit ==
  /\ folder = [n \in EndorsementName |-> None]
  /\ signed = {}
-----------------------------------------------------------------------------
Written(n, content) ==
  /\ folder' = [folder EXCEPT ![n] = content]
  /\ Cardinality({m \in EndorsementName : folder'[m] # None}) <= MaxFiles

\* endorse: a record that verifies is left alone, any other is replaced.
Endorse(k, d) ==
  /\ ~ Verifies(file_name(d, k))
  /\ Written(file_name(d, k), <<Digest[d], k>>)
  /\ signed' = signed \cup {<<Digest[d], k>>}

\* A file is copied under another name, or stored there in part.
Copy(n, m) ==
  /\ folder[n] # None
  /\ Written(m, folder[n]) \/ Written(m, Garbage)
  /\ UNCHANGED signed

Remove(n) ==
  /\ folder[n] # None
  /\ Written(n, None)
  /\ UNCHANGED signed

NamesNext ==
  \/ \E d \in Deltas, k \in Keys : Endorse(k, d)
  \/ \E n, m \in EndorsementName : Copy(n, m)
  \/ \E n \in EndorsementName : Remove(n)

NamesSpec == NamesInit /\ [][NamesNext]_nameVars
-----------------------------------------------------------------------------
(***************************************************************************)
(* Whatever becomes of the files, and under whatever names they return, a  *)
(* key counts for a delta only if its owner signed the digest of that delta: *)
(* a record moved to a delta of another digest does not verify there.      *)
(* (trustadapter.rs 270-302, 61-70)                                        *)
(***************************************************************************)
CountedHaveSigned ==
  /\ NamesTypeOK
  /\ \A d \in Deltas : \A k \in fetch_endorsements(d).valid : <<Digest[d], k>> \in signed

(***************************************************************************)
(* What TrustAdapter assumes of a storage: a fetch that succeeds counts a  *)
(* key exactly if the one file that endorse writes for it holds a valid    *)
(* record, whatever copies there are, and it does succeed if no name is of a *)
(* wrong key and each of the delta leads to a file that can be decoded.    *)
(* (trustadapter.rs 49-51, 61-70, 270-302)                                 *)
(***************************************************************************)
OneRecordPerKey ==
  \A d \in Deltas :
    LET fetched == fetch_endorsements(d)
    IN  /\ fetched.ok =>
             fetched.valid = {k \in Keys : folder[file_name(d, k)] = <<Digest[d], k>>}
        /\ (\A n \in Listed : /\ n.digits \in Keys
                              /\ n.delta = d => folder[file_name(d, n.digits)] \notin {None, Garbage})
             => fetched.ok
=============================================================================
