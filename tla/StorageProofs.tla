---------------------------- MODULE StorageProofs ---------------------------
(***************************************************************************)
(* Proofs about how objects are stored: the encrypted storage, alone and   *)
(* under a TrustAdapter, is to the holders of one key a plain object store,*)
(* and endorsement records keep their meaning whatever becomes of their    *)
(* files.                                                                  *)
(***************************************************************************)
EXTENDS EncryptionAdapter, EndorsementNames, TLAPS

\* A read as the object store sees it: an error or a panic is no answer.
Seen(result) ==
  IF result.kind = "data" THEN result ELSE [kind |-> "absent", bytes |-> <<>>]

(***************************************************************************)
(* A range that wraps around ends before it starts, or is refused; so a    *)
(* slice is handed out only where the exact sum is within the data.        *)
(* (encryptionadapter.rs 109-116)                                          *)
(***************************************************************************)
LEMMA SliceIsExact ==
  ASSUME NEW x \in Data, NEW offset \in Offsets, NEW length \in Offsets
  PROVE  Store!Slice(x, offset, length) = Seen(Slice(x, offset, length))
<1>1. /\ Len(x) \in Nat /\ Len(x) < WordSize /\ WordSize \in Nat
      /\ offset \in Nat /\ offset < WordSize
      /\ length \in Nat /\ length < WordSize
  BY EncryptionAssumption
<1>2. CASE offset = 0 /\ length = 0
  BY <1>2 DEF Slice, Store!Slice, Store!Bytes, Ok, Seen
<1>3. CASE ~ (offset = 0 /\ length = 0) /\ offset + length < WordSize
  <2>1. Sum(offset, length) = offset + length /\ ~ Overflows(offset, length)
    BY <1>1, <1>3 DEF Sum, Overflows
  <2>2. ~ (offset > offset + length)
    BY <1>1
  <2>3. CASE offset + length > Len(x)
    BY <1>3, <2>1, <2>3 DEF Slice, Store!Slice, Store!Absent, Err, Seen
  <2>4. CASE ~ (offset + length > Len(x))
    BY <1>3, <2>1, <2>2, <2>4 DEF Slice, Store!Slice, Store!Bytes, Ok, Seen
  <2>5. QED
    BY <2>3, <2>4
<1>4. CASE ~ (offset = 0 /\ length = 0) /\ ~ (offset + length < WordSize)
  <2>1. offset + length > Len(x)
    BY <1>1, <1>4
  <2>2. Store!Slice(x, offset, length) = Store!Absent
    BY <1>4, <2>1 DEF Store!Slice
  <2>3. offset > Sum(offset, length)
    BY <1>1, <1>4 DEF Sum
  <2>4. Slice(x, offset, length) \in {Panic, Err}
    BY <1>4, <2>3 DEF Slice
  <2>5. QED
    BY <2>2, <2>4 DEF Store!Absent, Seen, Panic, Err
<1>5. QED
  BY <1>2, <1>3, <1>4

\* The TrustAdapter's slice of the whole is the slice. (trustadapter.rs 402-416)
LEMMA ThroughIsTheSame ==
  ASSUME NEW k, NEW blob, NEW offset, NEW length
  PROVE  ReadThroughTrustAdapter(k, blob, offset, length) = Read(k, blob, offset, length)
<1>1. \A x : Slice(x, 0, 0) = Ok(x)
  BY DEF Slice
<1>2. CASE Decrypt(k, blob).kind = "data"
  <2>1. Read(k, blob, 0, 0) = Ok(Decrypt(k, blob).bytes)
    BY <1>1, <1>2 DEF Read
  <2>2. QED
    BY <1>2, <2>1 DEF Read, ReadThroughTrustAdapter, Ok
<1>3. CASE Decrypt(k, blob).kind # "data"
  BY <1>3 DEF Read, ReadThroughTrustAdapter
<1>4. QED
  BY <1>2, <1>3

\* An object of the store is what its blob holds for Key.
Object(blob) ==
  IF blob.kind = "sealed" /\ blob.key = Key
  THEN [kind |-> "data", bytes |-> blob.bytes]
  ELSE [kind |-> "absent", bytes |-> <<>>]

LEMMA ReadIsAnswer ==
  ASSUME NEW blob \in Blob, NEW offset \in Offsets, NEW length \in Offsets
  PROVE  Store!Answer(Object(blob), offset, length) = Seen(Read(Key, blob, offset, length))
<1>1. CASE blob.kind = "sealed" /\ blob.key = Key
  <2>1. blob.bytes \in Data
    BY <1>1, EncryptionAssumption DEF Blob, Nothing, Damaged
  <2>2. Read(Key, blob, offset, length) = Slice(blob.bytes, offset, length)
    BY <1>1 DEF Read, Decrypt, Ok
  <2>3. Store!Answer(Object(blob), offset, length) = Store!Slice(blob.bytes, offset, length)
    BY <1>1 DEF Store!Answer, Object
  <2>4. QED
    BY <2>1, <2>2, <2>3, SliceIsExact
<1>2. CASE ~ (blob.kind = "sealed" /\ blob.key = Key)
  <2>1. Decrypt(Key, blob) \in {Panic, Err}
    BY <1>2 DEF Decrypt
  <2>2. Read(Key, blob, offset, length) \in {Panic, Err}
    BY <2>1 DEF Read, Panic, Err
  <2>3. QED
    BY <1>2, <2>2 DEF Store!Answer, Store!Absent, Object, Seen, Panic, Err
<1>3. QED
  BY <1>1, <1>2
-----------------------------------------------------------------------------
\* What the steps need: the files are blobs, and every client has its reply.
EncInv == files \in [Names -> Blob] /\ DOMAIN reply = Clients

LEMMA MissingIsBlob == \A kind \in {"missing"} \cup Damage : Nothing(kind) \in Blob
BY DEF Blob

LEMMA EncInvHolds == EncSpec => []EncInv
<1>1. EncInit => EncInv
  BY MissingIsBlob DEF EncInit, EncInv
<1>2. EncInv /\ [EncNext]_encVars => EncInv'
  <2> SUFFICES ASSUME EncInv, [EncNext]_encVars PROVE EncInv'
    OBVIOUS
  <2>1. ASSUME NEW n \in Names, Replace(n) PROVE EncInv'
    BY <2>1, MissingIsBlob DEF EncInv, Replace
  <2>2. ASSUME NEW n \in Names, NEW c \in Clients, NEW x \in Data, WriteObject(c, n, x)
        PROVE  EncInv'
    <3>1. Sealed(KeyOf[c], x) \in Blob
      BY DEF Sealed, Blob
    <3>2. QED
      BY <2>2, <3>1 DEF EncInv, WriteObject
  <2>3. ASSUME NEW n \in Names, NEW c \in Clients, NEW offset \in Offsets,
               NEW length \in Offsets, ReadObject(c, n, offset, length)
        PROVE  EncInv'
    BY <2>3 DEF EncInv, ReadObject
  <2>4. CASE UNCHANGED encVars
    BY <2>4 DEF EncInv, encVars
  <2>5. QED
    BY <2>1, <2>2, <2>3, <2>4 DEF EncNext
<1>3. QED
  BY <1>1, <1>2, PTL DEF EncSpec
-----------------------------------------------------------------------------
(***************************************************************************)
(* Refinement: a write of a holder puts, one under another key or a damage *)
(* loses, a read of a holder gets, and one of anybody else is not seen.    *)
(***************************************************************************)
LEMMA ObjectsAre == objectsBar = [n \in Names |-> Object(files[n])]
BY DEF objectsBar, Object

LEMMA AnswersAre ==
  answerBar = [c \in Holders |-> [request |-> reply[c].request,
                                  found   |-> Seen(reply[c].result)]]
BY DEF answerBar, Seen

LEMMA EncInitRefines == EncInit => Store!Init
<1> SUFFICES ASSUME EncInit PROVE Store!Init
  OBVIOUS
<1>1. objectsBar = [n \in Names |-> Store!Absent]
  BY DEF EncInit, objectsBar, Nothing, Store!Absent
<1>2. \A c \in Holders : \E n \in Names : reply[c] = Replied(n, 0, 0, Err)
  BY DEF EncInit, Holders
<1>3. \A c \in Holders : answerBar[c] \in {Store!Answered(n, 0, 0, Store!Absent) : n \in Names}
  <2> SUFFICES ASSUME NEW c \in Holders
               PROVE  \E n \in Names : answerBar[c] = Store!Answered(n, 0, 0, Store!Absent)
    OBVIOUS
  <2>1. PICK n \in Names : reply[c] = Replied(n, 0, 0, Err)
    BY <1>2
  <2>2. reply[c].request = <<n, 0, 0>> /\ Seen(reply[c].result) = Store!Absent
    BY <2>1 DEF Replied, Err, Seen, Store!Absent
  <2>3. answerBar[c] = [request |-> reply[c].request, found |-> Seen(reply[c].result)]
    BY AnswersAre
  <2>4. QED
    BY <2>2, <2>3 DEF Store!Answered
<1>4. answerBar \in [Holders -> {Store!Answered(n, 0, 0, Store!Absent) : n \in Names}]
  BY <1>3 DEF answerBar
<1>5. QED
  BY <1>1, <1>4 DEF Store!Init

LEMMA FileRefines ==
  ASSUME EncInv, NEW n \in Names, NEW blob, files' = [files EXCEPT ![n] = blob],
         UNCHANGED reply
  PROVE  /\ objectsBar' = [objectsBar EXCEPT ![n] = Object(blob)]
         /\ UNCHANGED answerBar
<1>1. objectsBar' = [m \in Names |-> Object(files'[m])]
  BY DEF objectsBar, Object
<1>2. \A m \in Names : files'[m] = IF m = n THEN blob ELSE files[m]
  BY DEF EncInv
<1>3. objectsBar' = [objectsBar EXCEPT ![n] = Object(blob)]
  BY <1>1, <1>2, ObjectsAre
<1>4. UNCHANGED answerBar
  BY DEF answerBar
<1>5. QED
  BY <1>3, <1>4

LEMMA EncNextRefines ==
  ASSUME EncInv, [EncNext]_encVars
  PROVE  [Store!Next]_<<objectsBar, answerBar>>
<1>1. ASSUME NEW n \in Names, Replace(n)
      PROVE  Store!Lose(n)
  <2>1. PICK kind \in {"missing"} \cup Damage : files' = [files EXCEPT ![n] = Nothing(kind)]
    BY <1>1 DEF Replace
  <2>2. Object(Nothing(kind)) = Store!Absent
    BY EncryptionAssumption DEF Object, Nothing, Damaged, Store!Absent
  <2>3. QED
    BY <1>1, <2>1, <2>2, FileRefines DEF Replace, Store!Lose
<1>2. ASSUME NEW n \in Names, NEW c \in Clients, NEW x \in Data, WriteObject(c, n, x)
      PROVE  Store!Put(n, x) \/ Store!Lose(n)
  <2>1. CASE KeyOf[c] = Key
    <3>1. Object(Sealed(KeyOf[c], x)) = Store!Bytes(x)
      BY <2>1 DEF Object, Sealed, Store!Bytes
    <3>2. QED
      BY <1>2, <3>1, FileRefines DEF WriteObject, Store!Put
  <2>2. CASE KeyOf[c] # Key
    <3>1. Object(Sealed(KeyOf[c], x)) = Store!Absent
      BY <2>2 DEF Object, Sealed, Store!Absent
    <3>2. QED
      BY <1>2, <3>1, FileRefines DEF WriteObject, Store!Lose
  <2>3. QED
    BY <2>1, <2>2
<1>3. ASSUME NEW n \in Names, NEW c \in Clients, NEW offset \in Offsets,
             NEW length \in Offsets, ReadObject(c, n, offset, length)
      PROVE  \/ c \in Holders /\ Store!Get(c, n, offset, length)
             \/ UNCHANGED <<objectsBar, answerBar>>
  <2> DEFINE result == Read(KeyOf[c], files[n], offset, length)
  <2>1. UNCHANGED files /\ reply' = [reply EXCEPT ![c] = Replied(n, offset, length, result)]
    BY <1>3, ThroughIsTheSame DEF ReadObject
  <2> HIDE DEF result
  <2>2. UNCHANGED objectsBar
    BY <2>1 DEF objectsBar
  <2>3. \A b \in Clients : reply'[b] = IF b = c THEN Replied(n, offset, length, result)
                                     ELSE reply[b]
    BY <2>1 DEF EncInv
  <2>4. answerBar' = [b \in Holders |-> [request |-> reply'[b].request,
                                        found   |-> Seen(reply'[b].result)]]
    BY DEF answerBar, Seen
  <2>5. CASE c \in Holders
    <3>1. Store!Answer(objectsBar[n], offset, length) = Seen(result)
      BY <2>5, ReadIsAnswer, ObjectsAre DEF result, EncInv, Holders
    <3>2. answerBar' = [answerBar EXCEPT ![c] =
                          Store!Answered(n, offset, length, Seen(result))]
      <4> DEFINE new == [request |-> reply'[c].request, found |-> Seen(reply'[c].result)]
      <4>1. new = Store!Answered(n, offset, length, Seen(result))
        BY <2>3, <2>5 DEF Replied, Store!Answered, Holders
      <4> HIDE DEF new
      <4>2. \A b \in Holders \ {c} : reply'[b] = reply[b]
        BY <2>3 DEF Holders
      <4>3. answerBar' = [b \in Holders |-> IF b = c THEN new ELSE answerBar[b]]
        BY <2>4, <4>2, AnswersAre DEF new
      <4>4. QED
        BY <2>5, <4>1, <4>3, AnswersAre
    <3>3. QED
      BY <2>2, <2>5, <3>1, <3>2 DEF Store!Get
  <2>6. CASE c \notin Holders
    <3>1. answerBar' = answerBar
      BY <2>3, <2>4, <2>6, AnswersAre DEF Holders
    <3>2. QED
      BY <2>2, <3>1
  <2>7. QED
    BY <2>5, <2>6
<1>4. CASE UNCHANGED encVars
  BY <1>4 DEF encVars, objectsBar, answerBar
<1>5. QED
  BY <1>1, <1>2, <1>3, <1>4 DEF EncNext, Store!Next

(***************************************************************************)
(* The encrypted storage is a plain one to the holders of one key, for any *)
(* keys, contents, damage, word size and ranges, whether an overflow panics*)
(* or wraps around.  (99-117; trustadapter.rs 402-416)                     *)
(***************************************************************************)
THEOREM EncryptionIsTransparent == EncSpec => StoreSpec
BY EncInvHolds, EncInitRefines, EncNextRefines, PTL
   DEF EncSpec, StoreSpec, Store!Spec
-----------------------------------------------------------------------------
(***************************************************************************)
(* Names of records.  A file only ever holds what some owner of a key signed *)
(* or garbage: copies repeat a content, and torn ones are garbage.         *)
(***************************************************************************)
FolderInv ==
  /\ NamesTypeOK
  /\ \A n \in EndorsementName : folder[n] \in signed \cup {None, Garbage}

LEMMA WritingKeepsInv ==
  ASSUME FolderInv, NEW n \in EndorsementName, NEW content, Written(n, content),
         signed \subseteq signed', signed' \subseteq Digests \X Keys,
         content \in signed' \cup {None, Garbage}
  PROVE  FolderInv'
<1>1. folder' = [folder EXCEPT ![n] = content]
  BY DEF Written
<1>2. content \in (Digests \X Keys) \cup {None, Garbage}
  OBVIOUS
<1>3. NamesTypeOK'
  BY <1>1, <1>2 DEF FolderInv, NamesTypeOK
<1>4. \A m \in EndorsementName : folder'[m] = IF m = n THEN content ELSE folder[m]
  BY <1>1 DEF FolderInv, NamesTypeOK
<1>5. QED
  BY <1>3, <1>4 DEF FolderInv

LEMMA FolderInvHolds == NamesSpec => []FolderInv
<1>1. NamesInit => FolderInv
  BY DEF NamesInit, FolderInv, NamesTypeOK
<1>2. FolderInv /\ [NamesNext]_nameVars => FolderInv'
  <2> SUFFICES ASSUME FolderInv, [NamesNext]_nameVars PROVE FolderInv'
    OBVIOUS
  <2>1. signed \subseteq Digests \X Keys
    BY DEF FolderInv, NamesTypeOK
  <2>2. ASSUME NEW d \in Deltas, NEW k \in Keys, Endorse(k, d) PROVE FolderInv'
    <3>1. file_name(d, k) \in EndorsementName
      BY DEF file_name, EndorsementName
    <3>2. /\ Written(file_name(d, k), <<Digest[d], k>>)
          /\ signed' = signed \cup {<<Digest[d], k>>}
      BY <2>2 DEF Endorse
    <3>3. <<Digest[d], k>> \in Digests \X Keys
      BY NamesAssumption
    <3>4. QED
      BY <2>1, <3>1, <3>2, <3>3, WritingKeepsInv
  <2>3. ASSUME NEW n \in EndorsementName, NEW m \in EndorsementName, Copy(n, m)
        PROVE  FolderInv'
    <3>1. folder[n] \in signed \cup {None, Garbage} /\ signed' = signed
      BY <2>3 DEF Copy, FolderInv
    <3>2. Written(m, folder[n]) \/ Written(m, Garbage)
      BY <2>3 DEF Copy
    <3>3. QED
      BY <2>1, <3>1, <3>2, WritingKeepsInv
  <2>4. ASSUME NEW n \in EndorsementName, Remove(n) PROVE FolderInv'
    BY <2>1, <2>4, WritingKeepsInv DEF Remove
  <2>5. CASE UNCHANGED nameVars
    BY <2>5 DEF nameVars, FolderInv, NamesTypeOK
  <2>6. QED
    BY <2>2, <2>3, <2>4, <2>5 DEF NamesNext
<1>3. QED
  BY <1>1, <1>2, PTL DEF NamesSpec

\* A name at which the fetch of d neither fails nor panics is of a key, and
\* leads to the file of this key.
LEMMA FetchedName ==
  ASSUME NEW n \in Listed, n.digits # "odd", n.digits # "other"
  PROVE  n.digits \in Keys /\ RecordOf(n) = file_name(n.delta, n.digits)
<1>1. n \in EndorsementName
  BY DEF Listed
<1>2. n.digits \in Keys
  BY <1>1, NamesAssumption DEF EndorsementName, BadDigits
<1>3. QED
  BY <1>2 DEF RecordOf

(***************************************************************************)
(* Whatever becomes of the files, a key counts for a delta only if its owner *)
(* signed its digest.  (trustadapter.rs 61-71, 270-302)                    *)
(***************************************************************************)
THEOREM CountedKeysHaveSigned == NamesSpec => []CountedHaveSigned
<1>1. FolderInv => CountedHaveSigned
  <2> SUFFICES ASSUME FolderInv, NEW d \in Deltas, NEW n \in Listed,
                      n.delta = d, Verifies(n)
               PROVE  <<Digest[d], n.digits>> \in signed
    BY DEF CountedHaveSigned, FolderInv, fetch_endorsements
  <2>1. n \in EndorsementName /\ RecordOf(n) \in EndorsementName
    BY DEF Listed, RecordOf, file_name, EndorsementName
  <2>2. n.digits \in Keys \cup BadDigits
    BY <2>1, NamesAssumption DEF EndorsementName
  <2>3. <<Digest[d], n.digits>> \notin {None, Garbage}
    BY <2>2, NamesAssumption
  <2>4. QED
    BY <2>1, <2>3 DEF Verifies, FolderInv
<1>2. QED
  BY <1>1, FolderInvHolds, PTL

(***************************************************************************)
(* A fetch that succeeds counts exactly the keys whose own files hold valid*)
(* records, and it succeeds if no name is of a wrong key and all lead to   *)
(* files that can be decoded.  (trustadapter.rs 49-51, 61-71, 270-302)     *)
(***************************************************************************)
THEOREM FetchReadsOneRecordPerKey == NamesSpec => []OneRecordPerKey
<1>1. FolderInv => OneRecordPerKey
  <2> SUFFICES ASSUME FolderInv, NEW d \in Deltas
               PROVE  /\ Failing(d) = {} =>
                            fetch_endorsements(d).valid =
                              {k \in Keys : folder[file_name(d, k)] = <<Digest[d], k>>}
                      /\ (\A n \in Listed :
                            /\ n.digits \in Keys
                            /\ n.delta = d =>
                                 folder[file_name(d, n.digits)] \notin {None, Garbage})
                           => Failing(d) = {}
    BY DEF OneRecordPerKey, fetch_endorsements
  <2>1. ASSUME Failing(d) = {}
        PROVE  fetch_endorsements(d).valid =
                 {k \in Keys : folder[file_name(d, k)] = <<Digest[d], k>>}
    <3> DEFINE counted == {n.digits : n \in {m \in Listed : m.delta = d /\ Verifies(m)}}
    <3>1. ASSUME NEW n \in Listed, n.delta = d, Verifies(n)
          PROVE  n.digits \in Keys /\ folder[file_name(d, n.digits)] = <<Digest[d], n.digits>>
      <4>1. n.digits # "odd" /\ n.digits # "other"
        BY <2>1, <3>1 DEF Failing
      <4>2. QED
        BY <3>1, <4>1, FetchedName DEF Verifies
    <3>2. ASSUME NEW k \in Keys, folder[file_name(d, k)] = <<Digest[d], k>>
          PROVE  k \in counted
      <4> DEFINE n == file_name(d, k)
      <4>1. /\ n \in EndorsementName /\ n.delta = d /\ n.digits = k
            /\ RecordOf(n) = n
        BY DEF file_name, EndorsementName, RecordOf
      <4>2. folder[n] # None
        BY <3>2, NamesAssumption
      <4> HIDE DEF n
      <4>3. n \in Listed /\ Verifies(n)
        BY <3>2, <4>1, <4>2 DEF n, Listed, Verifies
      <4>4. QED
        BY <4>1, <4>3
    <3>3. counted = {k \in Keys : folder[file_name(d, k)] = <<Digest[d], k>>}
      BY <3>1, <3>2
    <3>4. QED
      BY <3>3 DEF fetch_endorsements
  <2>2. ASSUME \A n \in Listed :
                 /\ n.digits \in Keys
                 /\ n.delta = d => folder[file_name(d, n.digits)] \notin {None, Garbage}
        PROVE  Failing(d) = {}
    <3> SUFFICES ASSUME NEW n \in Listed, n \in Failing(d) PROVE FALSE
      BY DEF Failing
    <3>1. n.digits # "odd" /\ n.digits # "other"
      BY <2>2, NamesAssumption DEF BadDigits
    <3>2. QED
      BY <2>2, <3>1, FetchedName DEF Failing
  <2>3. QED
    BY <2>1, <2>2
<1>2. QED
  BY <1>1, FolderInvHolds, PTL
=============================================================================
