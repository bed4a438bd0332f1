----------------------------- MODULE TrustChain -----------------------------
(***************************************************************************)
(* What the search of the latest trust configuration promises, without a   *)
(* store, endorsements or loads: a ratification is never withdrawn, and who*)
(* holds a version goes on only to one that it ratifies at that instant, or*)
(* starts again from the trust anchor.                                     *)
(***************************************************************************)
CONSTANTS Participants, Genesis

VARIABLES
  ratified,  \* the pairs <<u, v>> where version u lets v take effect
  held       \* held[p]: the version p holds

chainVars == <<ratified, held>>

Init == held = [p \in Participants |-> Genesis]

Ratify ==
  /\ UNCHANGED held
  /\ ratified \subseteq ratified'

Advance(p) ==
  /\ \E e \in ratified : /\ e[1] = held[p]
                         /\ held' = [held EXCEPT ![p] = e[2]]
  /\ UNCHANGED ratified

StartAgain(p) ==
  /\ held' = [held EXCEPT ![p] = Genesis]
  /\ UNCHANGED ratified

Next == Ratify \/ \E p \in Participants : Advance(p) \/ StartAgain(p)

Spec == Init /\ [][Next]_chainVars
=============================================================================
