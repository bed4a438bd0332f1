----------------------------- MODULE Replication -----------------------------
(***************************************************************************)
(* Participants with a storage each (src/examples/simple.rs, encrypted.rs, *)
(* compressed.rs): they commit and endorse on their own, start from a copy *)
(* of another's folder and meld.  A Melda has nothing but its adapter, so a*)
(* meld reads each object through the TrustAdapter of the one and writes it*)
(* through that of the other; a transfer may be refused at either, and a   *)
(* meld may end after any of them.                                         *)
(***************************************************************************)
EXTENDS TrustRules

CONSTANTS
  Nodes,
  Peers,    \* the nodes that take the same decisions about deltas
  Setup,    \* Setup[n]: the configuration of n's adapter
  Author,   \* Author[d]: the node that commits d
  Endorses, \* Endorses[n]: the deltas n may ever endorse
  Copies    \* the pairs <<m, n>> where n starts from a copy of m's folder

\* Two configurations that admit the same deltas.
Alike(c, e) ==
  /\ c.endorsement_mode = e.endorsement_mode
  /\ c.delta_filter = e.delta_filter
  /\ c.policy.rules = e.policy.rules
  /\ c.keystore.trusted_keys = e.keystore.trusted_keys
  /\ c.keystore.roles = e.keystore.roles

ASSUME NodesAssumption ==
  /\ Peers \subseteq Nodes
  /\ Setup \in [Nodes -> Configuration]
  /\ Author \in [Deltas -> Nodes]
  /\ Endorses \in [Nodes -> SUBSET Deltas]
  /\ Copies \subseteq Nodes \X Nodes
  /\ \A deltas \in SUBSET Deltas : deltas # None

ASSUME PeersAssumption == \A m, n \in Peers : Alike(Setup[m], Setup[n])

VARIABLES
  files,    \* files[n]: the deltas in the folder of n
  records,  \* records[n]: the valid endorsement records in it
  anchors,  \* anchors[d]: the deltas d was committed on
  loaded    \* loaded[n]: what n has in memory, None while it is closed

replicationVars == <<files, records, anchors, loaded>>

IsOpen(n) == loaded[n] # None

Signers(n, d) == {k \in Keys : <<d, k>> \in records[n]}

\* Mutant: any record passes for an endorsement.
Shown_AnyRecord(n) == {d \in files[n] : Signers(n, d) # {}}

\* What the adapter of n lets be read of its folder.
Shown(n) == {d \in files[n] : Shows(Setup[n], d, Signers(n, d))}

View(n) ==
  LET shown == Shown(n) IN {d \in shown : anchors[d] \subseteq shown}

ReplicationTypeOK ==
  /\ files \in [Nodes -> SUBSET Deltas]
  /\ records \in [Nodes -> SUBSET (Deltas \X Keys)]
  /\ anchors \in [Deltas -> SUBSET Deltas]
  /\ loaded \in [Nodes -> (SUBSET Deltas) \cup {None}]

ReplicationInit ==
  /\ files = [n \in Nodes |-> {}]
  /\ records = [n \in Nodes |-> {}]
  /\ anchors = [d \in Deltas |-> {}]
  /\ loaded = [n \in Nodes |-> None]
-----------------------------------------------------------------------------
\* A process starts, for the first time or after it ended.
Open(n) ==
  /\ loaded' = [loaded EXCEPT ![n] = View(n)]
  /\ UNCHANGED <<files, records, anchors>>

Created == UNION {files[n] : n \in Nodes}

Commit(n, d) ==
  /\ IsOpen(n)
  /\ Author[d] = n
  /\ d \notin Created
  /\ MayWrite(Setup[n], d)
  /\ files' = [files EXCEPT ![n] = @ \cup {d}]
  /\ anchors' = [anchors EXCEPT ![d] = loaded[n]]
  /\ loaded' = [loaded EXCEPT ![n] = @ \cup {d}]
  /\ UNCHANGED records

\* The id of a delta is all it takes to endorse it.
Endorse(n, d) ==
  LET k == Setup[n].keystore.endorsement_key
  IN  /\ IsOpen(n)
      /\ d \in Created \cap Endorses[n]
      /\ k # None
      /\ records' = [records EXCEPT ![n] = @ \cup {<<d, k>>}]
      /\ UNCHANGED <<files, anchors, loaded>>

\* copy_recursively goes file by file, and may end at any of them.
CopyEntry(m, n) ==
  /\ <<m, n>> \in Copies
  /\ ~ IsOpen(n)
  /\ \/ /\ \E d \in files[m] : files' = [files EXCEPT ![n] = @ \cup {d}]
        /\ UNCHANGED records
     \/ /\ \E r \in records[m] : records' = [records EXCEPT ![n] = @ \cup {r}]
        /\ UNCHANGED files
  /\ UNCHANGED <<anchors, loaded>>

\* The deltas a meld still brings n from m: m may read them, n may write them.
DeltasToMeld(n, m) == {d \in Shown(m) \ files[n] : MayWrite(Setup[n], d)}

\* Mutant: records come along with their delta, and never later.
RecordsToMeld_WithDelta(n, m) ==
  {r \in records[m] \ records[n] : r[1] \notin files[n]}

\* Records are not deltas, and pass both adapters unseen.
RecordsToMeld(n, m) == records[m] \ records[n]

MeldDelta(n, m) ==
  /\ IsOpen(n) /\ IsOpen(m)
  /\ \E d \in DeltasToMeld(n, m) : files' = [files EXCEPT ![n] = @ \cup {d}]
  /\ UNCHANGED <<records, anchors, loaded>>

MeldRecord(n, m) ==
  /\ IsOpen(n) /\ IsOpen(m)
  /\ \E r \in RecordsToMeld(n, m) : records' = [records EXCEPT ![n] = @ \cup {r}]
  /\ UNCHANGED <<files, anchors, loaded>>

\* Mutant: a delta is applied whatever became of those it was committed on.
Refresh_Alone(n) ==
  /\ IsOpen(n)
  /\ loaded' = [loaded EXCEPT ![n] = @ \cup Shown(n)]
  /\ UNCHANGED <<files, records, anchors>>

\* What a refresh applies: it builds on what is in memory, too.
Refreshed(n) ==
  LET shown == Shown(n) IN {d \in shown : anchors[d] \subseteq shown \cup loaded[n]}

\* refresh adds to what is in memory, own unendorsed deltas included.
Refresh(n) ==
  /\ IsOpen(n)
  /\ loaded' = [loaded EXCEPT ![n] = @ \cup Refreshed(n)]
  /\ UNCHANGED <<files, records, anchors>>

Meld(n, m) == MeldDelta(n, m) \/ MeldRecord(n, m)

ReplicationNext ==
  \E n \in Nodes :
    \/ Open(n) \/ Refresh(n)
    \/ \E d \in Deltas : Commit(n, d) \/ Endorse(n, d)
    \/ \E m \in Nodes : CopyEntry(m, n) \/ Meld(n, m)

ReplicationSpec == ReplicationInit /\ [][ReplicationNext]_replicationVars

(***************************************************************************)
(* Fairness: while a peer is closed or lacks something that another can give *)
(* it, peers go on.  A meld continues after an object that the adapter     *)
(* refuses: simple.rs unwraps one that brings Bob a delta he may not write.*)
(***************************************************************************)
PeerStep ==
  \E n \in Peers : \/ Open(n) /\ ~ IsOpen(n)
                   \/ \E m \in Peers \ {n} : Meld(n, m)

FairReplicationSpec == ReplicationSpec /\ WF_replicationVars(PeerStep)
-----------------------------------------------------------------------------
(***************************************************************************)
(* What the steps preserve together: the deltas in memory are in the folder*)
(* with all they build on, and the anchors of a delta exist and are closed.*)
(* (84-123, 224-231)                                                       *)
(***************************************************************************)
ReplicationInv ==
  /\ ReplicationTypeOK
  /\ \A d \in Deltas : /\ anchors[d] \subseteq Created
                       /\ \A e \in anchors[d] : anchors[e] \subseteq anchors[d]
  /\ \A n \in Nodes : IsOpen(n) =>
       /\ loaded[n] \subseteq files[n]
       /\ \A d \in loaded[n] : anchors[d] \subseteq loaded[n]

\* All valid records of d, wherever they are.
AllSigners(d) == UNION {Signers(n, d) : n \in Nodes}

(***************************************************************************)
(* A node has in memory only what it committed itself and what enough keys *)
(* it trusts have endorsed, although deltas and records reach it one by one,  *)
(* in any order, from nodes that admit anything.  (README.md 188; 177-231) *)
(***************************************************************************)
LoadedIsApproved ==
  \A n \in Nodes : IsOpen(n) =>
    \A d \in loaded[n] : Author[d] = n \/ Shows(Setup[n], d, AllSigners(d))

(***************************************************************************)
(* A process that starts again still has all that it had in memory, but for*)
(* commits of its own that lack endorsements and what was built on them:   *)
(* nothing that came from others, in whatever order deltas and records came, *)
(* depends on what is in memory.  (73, 110-123, 224-231)                   *)
(***************************************************************************)
RestartForgetsOwnOnly ==
  [][\A n \in Nodes : IsOpen(n) =>
       /\ IsOpen(n)'
       /\ \A d \in loaded[n] \ loaded'[n] :
            \E e \in anchors[d] \cup {d} :
              Author[e] = n /\ ~ Shows(Setup[n], e, Signers(n, e))]_replicationVars

\* No transfer between peers is left, and no refresh would bring anything.
MeldsDone ==
  /\ \A m, n \in Peers : RecordsToMeld(n, m) = {} /\ DeltasToMeld(n, m) = {}
  /\ \A n \in Peers : IsOpen(n) /\ Refreshed(n) \subseteq loaded[n]

(***************************************************************************)
(* Peers with nothing left to meld have the same in memory, except for what*)
(* one committed without enough endorsements, what the other may not write,*)
(* and what builds on either: no delta is stuck for want of a record or of *)
(* another delta, in whatever order they came, and however much of a copy  *)
(* or of an earlier meld was lost.  (README.md 252; 224-231; trustadapter.rs *)
(* 386-400)                                                                *)
(***************************************************************************)
MeldedPeersAgree ==
  MeldsDone =>
    \A m, n \in Peers : \A d \in loaded[m] \ loaded[n] :
      \E e \in anchors[d] \cup {d} :
        \/ ~ MayWrite(Setup[n], e)
        \/ Author[e] = m /\ ~ Shows(Setup[m], e, Signers(m, e))

(***************************************************************************)
(* Peers that keep melding come to see all that they may write of what the *)
(* others see, and keep it, beside nodes that admit anything: no delta waits *)
(* for ever for an endorsement or for one it was committed on.  (README.md *)
(* 252; 224-231; trustadapter.rs 386-400)                                  *)
(***************************************************************************)
MayAdopt(n, d) == \A e \in anchors[d] \cup {d} : MayWrite(Setup[n], e)

Converges ==
  <>[](\A m, n \in Peers : {d \in View(m) : MayAdopt(n, d)} \subseteq View(n))

(***************************************************************************)
(* "This guarantees that honest nodes converge towards the same trusted    *)
(* state even when untrusted or malicious data is present" (README.md 252):*)
(* peers that keep melding come to see the same, and remain so.            *)
(***************************************************************************)
ViewsConverge == <>[](\A m, n \in Peers : View(m) = View(n))
=============================================================================
