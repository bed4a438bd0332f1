-------------------------- MODULE EncryptionAdapter --------------------------
(***************************************************************************)
(* The adapter that encrypts what it stores (src/src/encryptionadapter.rs),*)
(* alone and under a TrustAdapter, which slices once more.  The nonce is   *)
(* derived from the plaintext, so a blob is determined by key and data; the*)
(* cipher authenticates, so it opens under its own key only.               *)
(***************************************************************************)
EXTENDS Integers, Sequences

CONSTANTS
  Clients,
  KeyOf,           \* KeyOf[c]: the encryption key of c
  Key,             \* the key whose holders the properties are about
  Names,           \* names of objects
  Data,            \* contents, as sequences of bytes
  Damage,          \* what else may be found under a name, see Damaged
  Offsets,         \* arguments offset and length of a read
  WordSize,        \* one more than the largest usize
  OverflowChecks   \* TRUE: an overflow panics (a debug build)

(***************************************************************************)
(* Contents that encrypt did not produce.                                  *)
(*   "no_blob"    not a JSON record, or of another algorithm               *)
(*   "tampered"   a record that does not decrypt                           *)
(*   "nonce"      a record whose nonce is not of 12 bytes                  *)
(***************************************************************************)
Damaged == {"no_blob", "tampered", "nonce"}

ASSUME EncryptionAssumption ==
  /\ Data \subseteq Seq(Nat)
  /\ Damage \subseteq Damaged
  /\ WordSize \in Nat
  /\ Offsets \subseteq 0..(WordSize - 1)
  /\ \A x \in Data : Len(x) < WordSize
  /\ OverflowChecks \in BOOLEAN

VARIABLES
  files,  \* files[n]: what the inner adapter stores under n
  reply   \* reply[c]: the last read by c, and its result

encVars == <<files, reply>>

Sealed(k, x) == [kind |-> "sealed", key |-> k, bytes |-> x]

Nothing(kind) == [kind |-> kind, key |-> Key, bytes |-> <<>>]

Blob == [kind : {"sealed"}, key : {KeyOf[c] : c \in Clients}, bytes : Data]
        \cup {Nothing(kind) : kind \in {"missing"} \cup Damage}

Ok(x) == [kind |-> "data", bytes |-> x]

Err == [kind |-> "error", bytes |-> <<>>]

Panic == [kind |-> "panic", bytes |-> <<>>]

\* Mutant: the key is not checked.
Decrypt_AnyKey(k, blob) ==
  CASE blob.kind = "sealed" -> Ok(blob.bytes)
    [] blob.kind = "nonce"  -> Panic
    [] OTHER                -> Err

\* A missing object is an error of the inner adapter.
Decrypt(k, blob) ==
  CASE blob.kind = "sealed" /\ blob.key = k -> Ok(blob.bytes)
    [] blob.kind = "nonce"                  -> Panic
    [] OTHER                                -> Err

\* offset + length in one machine word; both summands are less than WordSize.
Sum(offset, length) ==
  IF offset + length < WordSize THEN offset + length ELSE offset + length - WordSize

Overflows(offset, length) == OverflowChecks /\ offset + length >= WordSize

\* Mutant: the slice starts at the first byte.
Slice_FromStart(x, offset, length) ==
  IF offset = 0 /\ length = 0 THEN Ok(x)
  ELSE IF Overflows(offset, length) THEN Panic
  ELSE IF Sum(offset, length) > Len(x) THEN Err
  ELSE IF offset > Sum(offset, length) THEN Panic
  ELSE Ok(SubSeq(x, 1, length))

\* Both adapters; a range that starts after its end panics.
Slice(x, offset, length) ==
  IF offset = 0 /\ length = 0 THEN Ok(x)
  ELSE IF Overflows(offset, length) THEN Panic
  ELSE IF Sum(offset, length) > Len(x) THEN Err
  ELSE IF offset > Sum(offset, length) THEN Panic
  ELSE Ok(SubSeq(x, offset + 1, Sum(offset, length)))

Read(k, blob, offset, length) ==
  LET dec == Decrypt(k, blob)
  IN  IF dec.kind = "data" THEN Slice(dec.bytes, offset, length) ELSE dec

\* The TrustAdapter asks for the whole object, and slices it itself.
ReadThroughTrustAdapter(k, blob, offset, length) ==
  LET whole == Read(k, blob, 0, 0)
  IN  IF whole.kind = "data" THEN Slice(whole.bytes, offset, length) ELSE whole

Replied(n, offset, length, result) ==
  [request |-> <<n, offset, length>>, result |-> result]

EncTypeOK ==
  /\ files \in [Names -> Blob]
  /\ DOMAIN reply = Clients
  /\ \A c \in Clients : reply[c].result.kind \in {"data", "error", "panic"}

EncInit ==
  /\ files = [n \in Names |-> Nothing("missing")]
  /\ reply \in [Clients -> {Replied(n, 0, 0, Err) : n \in Names}]
-----------------------------------------------------------------------------
WriteObject(c, n, x) ==
  /\ files' = [files EXCEPT ![n] = Sealed(KeyOf[c], x)]
  /\ UNCHANGED reply

ReadObject(c, n, offset, length) ==
  /\ \E result \in {Read(KeyOf[c], files[n], offset, length),
                     ReadThroughTrustAdapter(KeyOf[c], files[n], offset, length)} :
       reply' = [reply EXCEPT ![c] = Replied(n, offset, length, result)]
  /\ UNCHANGED files

\* Files come from elsewhere, or suffer on the way.
Replace(n) ==
  /\ \E kind \in {"missing"} \cup Damage :
       files' = [files EXCEPT ![n] = Nothing(kind)]
  /\ UNCHANGED reply

EncNext ==
  \E n \in Names :
    \/ Replace(n)
    \/ \E c \in Clients, x \in Data : WriteObject(c, n, x)
    \/ \E c \in Clients, offset, length \in Offsets : ReadObject(c, n, offset, length)

EncSpec == EncInit /\ [][EncNext]_encVars
-----------------------------------------------------------------------------
Holders == {c \in Clients : KeyOf[c] = Key}

\* What the holders of Key can read, a read that panics having no answer.
objectsBar ==
  [n \in Names |-> IF files[n].kind = "sealed" /\ files[n].key = Key
                   THEN [kind |-> "data", bytes |-> files[n].bytes]
                   ELSE [kind |-> "absent", bytes |-> <<>>]]

answerBar ==
  [c \in Holders |->
     [request |-> reply[c].request,
      found   |-> IF reply[c].result.kind = "data" THEN reply[c].result
                  ELSE [kind |-> "absent", bytes |-> <<>>]]]

Store == INSTANCE ObjectStore WITH objects <- objectsBar, answer <- answerBar

(***************************************************************************)
(* To the holders of one key the encrypted storage is a plain one, although*)
(* holders of other keys write to it and objects are damaged: a read hands *)
(* out exactly the bytes last put, or exactly the slice asked for, or none,*)
(* also where offset + length wraps around and passes the length check.    *)
(* (99-117; trustadapter.rs 402-416)                                       *)
(***************************************************************************)
StoreSpec == Store!Spec
=============================================================================
