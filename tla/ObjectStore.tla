----------------------------- MODULE ObjectStore -----------------------------
(***************************************************************************)
(* What an Adapter promises the holders of one key: named objects that can *)
(* be put, are answered whole or as a slice, and may become unreadable when*)
(* others write what this key does not open.                               *)
(***************************************************************************)
EXTENDS Integers, Sequences

CONSTANTS Holders, Names, Data, Offsets

VARIABLES
  objects,  \* objects[n]: what is stored under n
  answer    \* answer[c]: the last read of c, and what it was answered

Absent == [kind |-> "absent", bytes |-> <<>>]

Bytes(x) == [kind |-> "data", bytes |-> x]

\* Positions are natural numbers of any size here.
Slice(x, offset, length) ==
  IF offset = 0 /\ length = 0 THEN Bytes(x)
  ELSE IF offset + length > Len(x) THEN Absent
  ELSE Bytes(SubSeq(x, offset + 1, offset + length))

Answer(object, offset, length) ==
  IF object.kind = "data" THEN Slice(object.bytes, offset, length) ELSE Absent

Answered(n, offset, length, found) ==
  [request |-> <<n, offset, length>>, found |-> found]

Init ==
  /\ objects = [n \in Names |-> Absent]
  /\ answer \in [Holders -> {Answered(n, 0, 0, Absent) : n \in Names}]

Put(n, x) ==
  /\ objects' = [objects EXCEPT ![n] = Bytes(x)]
  /\ UNCHANGED answer

Lose(n) ==
  /\ objects' = [objects EXCEPT ![n] = Absent]
  /\ UNCHANGED answer

Get(c, n, offset, length) ==
  /\ answer' = [answer EXCEPT ![c] =
                 Answered(n, offset, length, Answer(objects[n], offset, length))]
  /\ UNCHANGED objects

Next ==
  \E n \in Names :
    \/ Lose(n)
    \/ \E x \in Data : Put(n, x)
    \/ \E c \in Holders, offset, length \in Offsets : Get(c, n, offset, length)

Spec == Init /\ [][Next]_<<objects, answer>>
=============================================================================
