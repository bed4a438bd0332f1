------------------------- MODULE ReplicationProofs --------------------------
(***************************************************************************)
(* Proofs about participants that commit, endorse, copy and meld: nobody has *)
(* in memory what was not approved, a restart forgets one's own commits only, *)
(* and peers with nothing left to meld have the same in memory.            *)
(***************************************************************************)
EXTENDS Replication, TrustRulesProofs

\* What n may have in memory: the records in its own folder decide.
Admitted(n, d) == Author[d] = n \/ Shows(Setup[n], d, Signers(n, d))

LoadedOf(n) ==
  IsOpen(n) =>
    /\ loaded[n] \subseteq files[n]
    /\ \A d \in loaded[n] : anchors[d] \subseteq loaded[n] /\ Admitted(n, d)

Anchored ==
  \A d \in Deltas : /\ anchors[d] \subseteq Created
                    /\ \A e \in anchors[d] : anchors[e] \subseteq anchors[d]

\* The two invariants together, node by node.
LoadedInv == ReplicationTypeOK /\ Anchored /\ \A n \in Nodes : LoadedOf(n)

LEMMA ApprovedHereIsApproved ==
  ASSUME NEW n \in Nodes, NEW d \in Deltas, Shows(Setup[n], d, Signers(n, d))
  PROVE  Shows(Setup[n], d, AllSigners(d))
<1>1. Signers(n, d) \subseteq AllSigners(d) /\ Setup[n] \in Configuration
  BY NodesAssumption DEF AllSigners
<1>2. QED
  BY <1>1, MoreSignersShow

LEMMA PartsOfLoadedInv == LoadedInv => ReplicationInv /\ LoadedIsApproved
<1>1. LoadedInv => ReplicationInv
  BY DEF LoadedInv, ReplicationInv, LoadedOf, Anchored
<1>2. ASSUME LoadedInv, NEW n \in Nodes, IsOpen(n), NEW d \in loaded[n]
      PROVE  Author[d] = n \/ Shows(Setup[n], d, AllSigners(d))
  <2>1. d \in Deltas /\ Admitted(n, d)
    BY <1>2 DEF LoadedInv, LoadedOf, ReplicationTypeOK
  <2>2. QED
    BY <2>1, ApprovedHereIsApproved DEF Admitted
<1>3. QED
  BY <1>1, <1>2 DEF LoadedIsApproved

\* Files and records are only ever added.
FoldersGrow ==
  \A n \in Nodes : files[n] \subseteq files'[n] /\ records[n] \subseteq records'[n]

LEMMA AdmittedStays ==
  ASSUME FoldersGrow, NEW n \in Nodes, NEW d \in Deltas, Admitted(n, d)
  PROVE  Admitted(n, d)'
<1>1. Signers(n, d) \subseteq Signers(n, d)'
  BY DEF FoldersGrow, Signers
<1>2. Setup[n] \in Configuration
  BY NodesAssumption
<1>3. Shows(Setup[n], d, Signers(n, d)) => Shows(Setup[n], d, Signers(n, d)')
  BY <1>1, <1>2, MoreSignersShow
<1>4. QED
  BY <1>3 DEF Admitted

LEMMA ShownIsAdmitted ==
  ASSUME NEW n \in Nodes, NEW d \in Shown(n)
  PROVE  Admitted(n, d)
BY DEF Shown, Admitted

\* Steps that add to folders and leave memory and anchors alone.
LEMMA AddingToFolders ==
  ASSUME LoadedInv, FoldersGrow, ReplicationTypeOK', UNCHANGED <<anchors, loaded>>
  PROVE  LoadedInv'
<1>1. Anchored'
  BY DEF LoadedInv, Anchored, Created, FoldersGrow
<1>2. ASSUME NEW n \in Nodes PROVE LoadedOf(n)'
  <2>1. IsOpen(n)' => /\ IsOpen(n) /\ loaded'[n] = loaded[n]
                      /\ loaded[n] \subseteq files'[n]
    BY DEF LoadedInv, IsOpen, FoldersGrow, LoadedOf
  <2>2. IsOpen(n) => loaded[n] \subseteq Deltas
    BY DEF LoadedInv, ReplicationTypeOK, IsOpen
  <2>3. IsOpen(n) => \A d \in loaded[n] : Admitted(n, d)'
    BY <2>2, AdmittedStays DEF LoadedInv, LoadedOf
  <2>4. QED
    BY <2>1, <2>3 DEF LoadedInv, LoadedOf
<1>3. QED
  BY <1>1, <1>2 DEF LoadedInv

\* Steps that load: a node takes what is shown to it with what that builds on.
LEMMA Loading ==
  ASSUME LoadedInv, NEW n \in Nodes, NEW deltas \in SUBSET Deltas,
         loaded' = [loaded EXCEPT ![n] = deltas],
         UNCHANGED <<files, records, anchors>>,
         deltas \subseteq files[n],
         \A d \in deltas : anchors[d] \subseteq deltas /\ Admitted(n, d)
  PROVE  LoadedInv'
<1>1. ReplicationTypeOK' /\ Anchored'
  BY DEF LoadedInv, ReplicationTypeOK, Anchored, Created
<1>2. ASSUME NEW m \in Nodes PROVE LoadedOf(m)'
  <2>1. \A d : Admitted(m, d)' <=> Admitted(m, d)
    BY DEF Admitted, Signers
  <2>2. CASE m = n
    <3>1. loaded'[m] = deltas
      BY <2>2 DEF LoadedInv, ReplicationTypeOK
    <3>2. QED
      BY <2>1, <2>2, <3>1 DEF LoadedOf
  <2>3. CASE m # n
    <3>1. loaded'[m] = loaded[m]
      BY <2>3 DEF LoadedInv, ReplicationTypeOK
    <3>2. QED
      BY <2>1, <3>1 DEF LoadedInv, LoadedOf, IsOpen
  <2>4. QED
    BY <2>2, <2>3
<1>3. QED
  BY <1>1, <1>2 DEF LoadedInv

LEMMA OpeningOrRefreshing ==
  ASSUME LoadedInv, NEW n \in Nodes, Open(n) \/ Refresh(n)
  PROVE  LoadedInv'
<1>1. /\ Shown(n) \subseteq files[n] /\ files[n] \subseteq Deltas
      /\ \A d \in Shown(n) : Admitted(n, d)
      /\ \A d \in Deltas : \A e \in anchors[d] : anchors[e] \subseteq anchors[d]
  BY ShownIsAdmitted DEF Shown, LoadedInv, ReplicationTypeOK, Anchored
<1>2. CASE Open(n)
  <2>1. /\ View(n) \subseteq Shown(n)
        /\ \A d \in View(n) : anchors[d] \subseteq View(n)
    BY <1>1 DEF View
  <2>2. QED
    BY <1>1, <1>2, <2>1, Loading DEF Open
<1>3. CASE Refresh(n)
  <2> DEFINE new == {d \in Shown(n) : anchors[d] \subseteq Shown(n) \cup loaded[n]}
             deltas == loaded[n] \cup new
  <2>1. /\ loaded[n] \subseteq files[n]
        /\ \A d \in loaded[n] : anchors[d] \subseteq loaded[n] /\ Admitted(n, d)
    BY <1>3 DEF Refresh, LoadedInv, LoadedOf
  <2>2. \A d \in new : anchors[d] \subseteq deltas
    <3> SUFFICES ASSUME NEW d \in new, NEW e \in anchors[d], e \notin loaded[n]
                 PROVE  e \in new
      OBVIOUS
    <3>1. e \in Shown(n) /\ anchors[e] \subseteq anchors[d]
      BY <1>1
    <3>2. QED
      BY <3>1
  <2>3. \A d \in deltas : anchors[d] \subseteq deltas /\ Admitted(n, d)
    BY <1>1, <2>1, <2>2
  <2>4. deltas \subseteq files[n] /\ deltas \in SUBSET Deltas
    BY <1>1, <2>1
  <2>5. loaded' = [loaded EXCEPT ![n] = deltas]
    BY <1>3 DEF Refresh, Refreshed
  <2> HIDE DEF deltas
  <2>6. QED
    BY <1>3, <2>3, <2>4, <2>5, Loading DEF Refresh
<1>4. QED
  BY <1>2, <1>3

LEMMA Committing ==
  ASSUME LoadedInv, NEW n \in Nodes, NEW d \in Deltas, Commit(n, d)
  PROVE  LoadedInv'
<1>1. /\ IsOpen(n) /\ Author[d] = n /\ d \notin Created
      /\ files' = [files EXCEPT ![n] = files[n] \cup {d}]
      /\ anchors' = [anchors EXCEPT ![d] = loaded[n]]
      /\ loaded' = [loaded EXCEPT ![n] = loaded[n] \cup {d}]
      /\ records' = records
  BY DEF Commit
<1>2. /\ files \in [Nodes -> SUBSET Deltas]
      /\ anchors \in [Deltas -> SUBSET Deltas]
      /\ loaded \in [Nodes -> (SUBSET Deltas) \cup {None}]
      /\ loaded[n] \subseteq files[n] /\ files[n] \subseteq Created
      /\ \A e \in loaded[n] : anchors[e] \subseteq loaded[n] /\ Admitted(n, e)
  BY <1>1 DEF LoadedInv, ReplicationTypeOK, LoadedOf, Created, IsOpen
<1>3. FoldersGrow /\ Created' = Created \cup {d}
  BY <1>1, <1>2 DEF FoldersGrow, Created
<1>4. ReplicationTypeOK'
  BY <1>1, <1>2 DEF LoadedInv, ReplicationTypeOK, IsOpen
<1>5. Anchored'
  <2> SUFFICES ASSUME NEW e \in Deltas
               PROVE  /\ anchors'[e] \subseteq Created'
                      /\ \A f \in anchors'[e] : anchors'[f] \subseteq anchors'[e]
    BY DEF Anchored
  <2>1. anchors[e] \subseteq Created /\ \A f \in anchors[e] : anchors[f] \subseteq anchors[e]
    BY DEF LoadedInv, Anchored
  <2>2. CASE e = d
    <3>1. anchors'[e] = loaded[n]
      BY <1>1, <1>2, <2>2
    <3>2. \A f \in loaded[n] : f # d /\ f \in Deltas /\ anchors'[f] = anchors[f]
      BY <1>1, <1>2
    <3>3. QED
      BY <1>2, <1>3, <3>1, <3>2
  <2>3. CASE e # d
    <3>1. anchors'[e] = anchors[e]
      BY <1>1, <1>2, <2>3
    <3>2. \A f \in anchors[e] : f # d /\ f \in Deltas /\ anchors'[f] = anchors[f]
      BY <1>1, <1>2, <2>1
    <3>3. QED
      BY <1>3, <2>1, <3>1, <3>2
  <2>4. QED
    BY <2>2, <2>3
<1>6. ASSUME NEW m \in Nodes PROVE LoadedOf(m)'
  <2>1. \A e \in Deltas : Admitted(m, e) => Admitted(m, e)'
    BY <1>3, AdmittedStays
  <2>2. CASE m = n
    <3>1. loaded'[m] = loaded[n] \cup {d} /\ files'[m] = files[n] \cup {d}
      BY <1>1, <1>2, <2>2
    <3>2. Admitted(m, d)'
      BY <1>1, <2>2 DEF Admitted
    <3>3. anchors'[d] = loaded[n] /\ \A e \in loaded[n] : anchors'[e] = anchors[e]
      BY <1>1, <1>2
    <3>4. \A e \in loaded[n] : e \in Deltas
      BY <1>2
    <3>5. QED
      BY <1>2, <2>1, <2>2, <3>1, <3>2, <3>3, <3>4 DEF LoadedOf
  <2>3. CASE m # n
    <3>1. loaded'[m] = loaded[m] /\ files'[m] = files[m]
      BY <1>1, <1>2, <2>3
    <3>2. IsOpen(m) => \A e \in loaded[m] : /\ e \in Deltas /\ e # d
                                            /\ anchors'[e] = anchors[e]
      BY <1>1, <1>2 DEF LoadedInv, LoadedOf, Created
    <3>3. QED
      BY <2>1, <3>1, <3>2 DEF LoadedInv, LoadedOf, IsOpen
  <2>4. QED
    BY <2>2, <2>3
<1>7. QED
  BY <1>4, <1>5, <1>6 DEF LoadedInv

LEMMA StepKeepsLoadedInv ==
  ASSUME LoadedInv, [ReplicationNext]_replicationVars
  PROVE  LoadedInv'
<1>1. /\ files \in [Nodes -> SUBSET Deltas]
      /\ records \in [Nodes -> SUBSET (Deltas \X Keys)]
  BY DEF LoadedInv, ReplicationTypeOK
<1>2. ASSUME NEW n \in Nodes, NEW d \in Deltas, Endorse(n, d)
      PROVE  LoadedInv'
  <2> DEFINE k == Setup[n].keystore.endorsement_key
  <2>1. k \in Keys
    BY <1>2, NodesAssumption DEF Endorse, Configuration, KeyStore
  <2>2. /\ FoldersGrow /\ UNCHANGED <<anchors, loaded, files>>
        /\ records' \in [Nodes -> SUBSET (Deltas \X Keys)]
    BY <1>1, <1>2, <2>1 DEF Endorse, FoldersGrow
  <2>3. QED
    BY <2>2, AddingToFolders DEF LoadedInv, ReplicationTypeOK
<1>3. ASSUME NEW n \in Nodes, NEW m \in Nodes,
             \/ CopyEntry(m, n)
             \/ Meld(n, m)
      PROVE  LoadedInv'
  <2>1. \/ /\ \E d \in Deltas : files' = [files EXCEPT ![n] = files[n] \cup {d}]
           /\ UNCHANGED <<records, anchors, loaded>>
        \/ /\ \E r \in Deltas \X Keys : records' = [records EXCEPT ![n] = records[n] \cup {r}]
           /\ UNCHANGED <<files, anchors, loaded>>
    BY <1>1, <1>3 DEF CopyEntry, Meld, MeldDelta, MeldRecord, DeltasToMeld,
       RecordsToMeld, Shown
  <2>2. /\ FoldersGrow /\ UNCHANGED <<anchors, loaded>>
        /\ files' \in [Nodes -> SUBSET Deltas]
        /\ records' \in [Nodes -> SUBSET (Deltas \X Keys)]
    BY <1>1, <2>1 DEF FoldersGrow
  <2>3. QED
    BY <2>2, AddingToFolders DEF LoadedInv, ReplicationTypeOK
<1>4. CASE UNCHANGED replicationVars
  <2>1. FoldersGrow /\ UNCHANGED <<anchors, loaded>> /\ ReplicationTypeOK'
    BY <1>4 DEF replicationVars, FoldersGrow, LoadedInv, ReplicationTypeOK
  <2>2. QED
    BY <2>1, AddingToFolders
<1>5. QED
  BY <1>2, <1>3, <1>4, OpeningOrRefreshing, Committing DEF ReplicationNext

LEMMA LoadedInvHolds == ReplicationSpec => []LoadedInv
<1>1. ReplicationInit => LoadedInv
  BY DEF ReplicationInit, LoadedInv, ReplicationTypeOK, Anchored, LoadedOf, IsOpen
<1>2. LoadedInv /\ [ReplicationNext]_replicationVars => LoadedInv'
  BY StepKeepsLoadedInv
<1>3. QED
  BY <1>1, <1>2, PTL DEF ReplicationSpec

(***************************************************************************)
(* What is in memory is in the folder with all it builds on, however the   *)
(* folder came to be.  (simple.rs 84-123, 224-231)                         *)
(***************************************************************************)
THEOREM MemoryIsClosed == ReplicationSpec => []ReplicationInv
BY LoadedInvHolds, PartsOfLoadedInv, PTL

(***************************************************************************)
(* A node has in memory only what it committed itself and what enough keys *)
(* it trusts endorsed, whoever sent it.  (README.md 188; simple.rs 177-231)*)
(***************************************************************************)
THEOREM MemoryIsApproved == ReplicationSpec => []LoadedIsApproved
BY LoadedInvHolds, PartsOfLoadedInv, PTL

\* Only opening a node again takes anything out of its memory.
LEMMA OthersOnlyLoadMore ==
  ASSUME LoadedInv, [ReplicationNext]_replicationVars, NEW n \in Nodes, IsOpen(n), ~ Open(n)
  PROVE  IsOpen(n)' /\ loaded[n] \subseteq loaded'[n]
<1>1. /\ loaded \in [Nodes -> (SUBSET Deltas) \cup {None}] /\ loaded[n] \in SUBSET Deltas
      /\ files \in [Nodes -> SUBSET Deltas]
  BY DEF LoadedInv, ReplicationTypeOK, IsOpen
<1>2. \/ loaded'[n] = loaded[n]
      \/ \E deltas \in SUBSET Deltas : loaded'[n] = loaded[n] \cup deltas
  <2>1. ASSUME NEW m \in Nodes, NEW deltas \in SUBSET Deltas,
               loaded' = [loaded EXCEPT ![m] = loaded[m] \cup deltas]
        PROVE  loaded'[n] = loaded[n] \/ loaded'[n] = loaded[n] \cup deltas
    BY <1>1, <2>1
  <2>2. ASSUME NEW m \in Nodes, m # n, Open(m)
        PROVE  loaded'[n] = loaded[n]
    BY <1>1, <2>2 DEF Open
  <2>3. ASSUME NEW m \in Nodes, Refresh(m)
        PROVE  \E deltas \in SUBSET Deltas :
                 loaded' = [loaded EXCEPT ![m] = loaded[m] \cup deltas]
    BY <1>1, <2>3 DEF Refresh, Refreshed, Shown
  <2>4. ASSUME NEW m \in Nodes, NEW d \in Deltas, Commit(m, d)
        PROVE  \E deltas \in SUBSET Deltas :
                 loaded' = [loaded EXCEPT ![m] = loaded[m] \cup deltas]
    BY <2>4 DEF Commit
  <2>5. CASE loaded' # loaded
    BY <2>1, <2>2, <2>3, <2>4, <2>5 DEF ReplicationNext, Endorse, CopyEntry,
       Meld, MeldDelta, MeldRecord, replicationVars
  <2>6. QED
    BY <2>5
<1>3. QED
  BY <1>1, <1>2, NodesAssumption DEF IsOpen

(***************************************************************************)
(* A restart loses a node its own commits without enough endorsements, what*)
(* builds on these, and nothing else: what else is in memory was admitted by  *)
(* records that are still in the folder.  (simple.rs 73, 110-123, 224-231) *)
(***************************************************************************)
THEOREM RestartKeepsTheRest == ReplicationSpec => RestartForgetsOwnOnly
<1> DEFINE Forgets(n) ==
      /\ IsOpen(n)'
      /\ \A d \in loaded[n] \ loaded'[n] :
           \E e \in anchors[d] \cup {d} :
             Author[e] = n /\ ~ Shows(Setup[n], e, Signers(n, e))
<1>1. ASSUME LoadedInv, [ReplicationNext]_replicationVars, NEW n \in Nodes, IsOpen(n)
      PROVE  Forgets(n)
  <2>1. CASE ~ Open(n)
    BY <1>1, <2>1, OthersOnlyLoadMore
  <2>2. CASE Open(n)
    <3>1. /\ loaded[n] \in SUBSET Deltas /\ loaded[n] \subseteq files[n]
          /\ \A d \in loaded[n] : anchors[d] \subseteq loaded[n] /\ Admitted(n, d)
          /\ files[n] \in SUBSET Deltas
      BY <1>1 DEF LoadedInv, LoadedOf, ReplicationTypeOK, IsOpen
    <3>2. loaded'[n] = View(n)
      BY <1>1, <2>2 DEF Open, LoadedInv, ReplicationTypeOK
    <3>3. IsOpen(n)'
      BY <3>1, <3>2, NodesAssumption DEF IsOpen, View, Shown
    <3>4. ASSUME NEW d \in loaded[n], d \notin View(n)
          PROVE  \E e \in anchors[d] \cup {d} :
                   Author[e] = n /\ ~ Shows(Setup[n], e, Signers(n, e))
      <4>1. PICK e \in anchors[d] \cup {d} : e \notin Shown(n)
        BY <3>4 DEF View
      <4>2. e \in files[n] /\ Admitted(n, e)
        BY <3>1, <3>4, <4>1
      <4>3. QED
        BY <4>1, <4>2 DEF Shown, Admitted
    <3>5. QED
      BY <3>2, <3>3, <3>4
  <2>3. QED
    BY <2>1, <2>2
<1>2. LoadedInv /\ [ReplicationNext]_replicationVars =>
        [\A n \in Nodes : IsOpen(n) => Forgets(n)]_replicationVars
  BY <1>1
<1>3. QED
  BY <1>2, LoadedInvHolds, PTL DEF ReplicationSpec, RestartForgetsOwnOnly

\* Alike adapters with the same records of a delta both let it be read.
LEMMA PeersShowAlike ==
  ASSUME NEW m \in Peers, NEW n \in Peers, NEW d \in Shown(m), d \in files[n],
         RecordsToMeld(n, m) = {}, RecordsToMeld(m, n) = {}
  PROVE  d \in Shown(n)
<1>1. Signers(m, d) = Signers(n, d)
  BY DEF RecordsToMeld, Signers
<1>2. Shows(Setup[m], d, Signers(m, d))
  BY DEF Shown
<1>3. Shows(Setup[n], d, Signers(m, d))
  BY <1>2, PeersAssumption, DecisiveParts DEF Alike
<1>4. QED
  BY <1>1, <1>3 DEF Shown

(***************************************************************************)
(* Where nothing is left to meld, a delta that only one peer has in memory *)
(* builds on a commit of its own without enough endorsements, or on one the*)
(* other may not write: all else in its memory is in its folder, readable, *)
(* so it was sent, and the other reads it and what it builds on by the same*)
(* records.  (README.md 252; simple.rs 224-231; trustadapter.rs 386-400)   *)
(***************************************************************************)
THEOREM MeldedPeersLoadTheSame == ReplicationSpec => []MeldedPeersAgree
<1>1. ASSUME LoadedInv, MeldsDone, NEW m \in Peers, NEW n \in Peers,
             NEW d \in loaded[m], d \notin loaded[n]
      PROVE  \E e \in anchors[d] \cup {d} :
               \/ ~ MayWrite(Setup[n], e)
               \/ Author[e] = m /\ ~ Shows(Setup[m], e, Signers(m, e))
  <2> SUFFICES ASSUME \A e \in anchors[d] \cup {d} :
                        /\ MayWrite(Setup[n], e)
                        /\ Author[e] = m => Shows(Setup[m], e, Signers(m, e))
               PROVE  FALSE
    OBVIOUS
  <2>1. m \in Nodes /\ n \in Nodes /\ IsOpen(m) /\ Refreshed(n) \subseteq loaded[n]
    BY <1>1, NodesAssumption DEF MeldsDone
  <2>2. \A e \in anchors[d] \cup {d} : e \in files[m] /\ Admitted(m, e)
    BY <1>1, <2>1 DEF LoadedInv, LoadedOf
  <2>3. \A e \in anchors[d] \cup {d} : e \in Shown(m)
    BY <2>2 DEF Admitted, Shown
  <2>4. /\ DeltasToMeld(n, m) = {}
        /\ RecordsToMeld(n, m) = {} /\ RecordsToMeld(m, n) = {}
    BY <1>1 DEF MeldsDone
  <2>5. \A e \in anchors[d] \cup {d} : e \in files[n]
    BY <2>3, <2>4 DEF DeltasToMeld
  <2>6. \A e \in anchors[d] \cup {d} : e \in Shown(n)
    BY <2>3, <2>4, <2>5, PeersShowAlike
  <2>7. d \in Refreshed(n)
    BY <2>6 DEF Refreshed
  <2>8. QED
    BY <1>1, <2>1, <2>7
<1>2. LoadedInv => MeldedPeersAgree
  BY <1>1 DEF MeldedPeersAgree
<1>3. QED
  BY <1>2, LoadedInvHolds, PTL
=============================================================================
