--------------------------- MODULE DualCrdtProofs ---------------------------
(***************************************************************************)
(* Proofs about the data governed by a trust document: where what a replica*)
(* sees was approved, what a change of the rules keeps and takes back, and *)
(* that nothing local to a replica decides.                                *)
(***************************************************************************)
EXTENDS DualCrdt, TrustEvolutionProofs

\* The data rules of version v as its author wrote them.
Rules(v) == FromJson(DataDocument[v])

LEMMA RulesAreWellFormed ==
  ASSUME NEW v \in Versions
  PROVE  /\ WellFormed(Rules(v))
         /\ Rules(v).delta_filter = DataDocument[v].delta_filter
         /\ Rules(v).delta_filter \in DeltaFilter
         /\ DataDocument[v] \in ConfigurationJson
<1>1. DataDocument[v] \in ConfigurationJson
  BY ReplicasAssumption
<1>2. Rules(v).delta_filter = DataDocument[v].delta_filter
  BY DEF Rules, FromJson
<1>3. QED
  BY <1>1, <1>2, ConfigurationOfDocument DEF Rules, ConfigurationJson

LEMMA JoiningCredentials ==
  ASSUME NEW ks \in KeyStore, NEW k \in Keys
  PROVE  /\ CredentialsSet(ks, k, k).trusted_keys = ks.trusted_keys \cup {k}
         /\ CredentialsSet(ks, k, k).roles = ks.roles
<1> DEFINE more == AddTrusted(ks, k)
<1>1. more.trusted_keys = ks.trusted_keys \cup {k} /\ more.roles = ks.roles
      /\ more \in KeyStore
  BY DEF AddTrusted, KeyStore
<1>2. CredentialsSet(ks, k, k) = [more EXCEPT !.endorsement_key = k]
  BY KeysAssumption DEF CredentialsSet
<1> HIDE DEF more
<1>3. QED
  BY <1>1, <1>2 DEF KeyStore

(***************************************************************************)
(* What a replica that joined v decides by: the rules of v, the exemptions *)
(* v carries, and its own key, which it trusts.                            *)
(***************************************************************************)
LEMMA DataConfigParts ==
  ASSUME NEW r \in Replicas, NEW v \in Versions
  PROVE  LET c == DataConfig(r, v)
         IN  /\ c.endorsement_mode = Rules(v).endorsement_mode
             /\ c.delta_filter.whitelist = Rules(v).delta_filter.whitelist \cup carried[v]
             /\ c.delta_filter.blacklist = Rules(v).delta_filter.blacklist
             /\ c.policy.rules = Rules(v).policy.rules
             /\ c.keystore.roles = Rules(v).keystore.roles
             /\ c.keystore.trusted_keys = Rules(v).keystore.trusted_keys \cup {SigningKey[r]}
<1> DEFINE doc == DataDocument[v]
           filter == [doc.delta_filter EXCEPT
                        !.whitelist = doc.delta_filter.whitelist \cup carried[v]]
           json == [doc EXCEPT !.delta_filter = filter]
           base == FromJson(json)
<1>1. doc \in ConfigurationJson /\ WellFormed(Rules(v)) /\ doc.delta_filter \in DeltaFilter
      /\ Rules(v).delta_filter = doc.delta_filter
  BY RulesAreWellFormed
<1>2. DataJson(v) = json
  BY DEF DataJson
<1>3. /\ filter.whitelist = doc.delta_filter.whitelist \cup carried[v]
      /\ filter.blacklist = doc.delta_filter.blacklist
  BY <1>1 DEF DeltaFilter
<1> HIDE DEF doc, filter
<1>4. /\ json.endorsement_mode = doc.endorsement_mode /\ json.keystore = doc.keystore
      /\ json.delta_filter = filter /\ json.policy = doc.policy
  BY <1>1 DEF ConfigurationJson
<1> HIDE DEF json
<1>5. /\ base.endorsement_mode = Rules(v).endorsement_mode
      /\ base.keystore = Rules(v).keystore
      /\ base.delta_filter = filter
      /\ base.policy = Rules(v).policy
  BY <1>4 DEF FromJson, Rules, doc
<1>6. Rules(v).keystore \in KeyStore /\ Rules(v).policy \in PolicyEngine
  BY <1>1 DEF WellFormed, Configuration
<1>7. base = [endorsement_mode |-> base.endorsement_mode, keystore |-> base.keystore,
              delta_filter |-> base.delta_filter, policy |-> base.policy]
  BY DEF FromJson
<1> HIDE DEF base
<1> DEFINE ks == CredentialsSet(base.keystore, SigningKey[r], SigningKey[r])
           c == [base EXCEPT !.keystore = ks, !.policy.strict_write = r \notin Byzantine]
<1>8. DataConfig(r, v) = c
  BY <1>2 DEF DataConfig, base
<1>9. /\ ks.trusted_keys = Rules(v).keystore.trusted_keys \cup {SigningKey[r]}
      /\ ks.roles = Rules(v).keystore.roles
  BY <1>5, <1>6, JoiningCredentials, ReplicasAssumption
<1> HIDE DEF ks
<1>10. /\ c.endorsement_mode = base.endorsement_mode /\ c.keystore = ks
       /\ c.delta_filter = base.delta_filter
       /\ c.policy.rules = base.policy.rules
  BY <1>5, <1>6, <1>7 DEF PolicyEngine
<1> HIDE DEF c
<1>11. QED
  BY <1>1, <1>3, <1>5, <1>8, <1>9, <1>10
\* A replica checks its writes by its own key, unless it switched this off.
LEMMA DataConfigCredentials ==
  ASSUME NEW r \in Replicas, NEW v \in Versions
  PROVE  /\ DataConfig(r, v).keystore.endorsement_key = SigningKey[r]
         /\ DataConfig(r, v).policy.strict_write <=> r \notin Byzantine
<1> DEFINE base == FromJson(DataJson(v))
           ks   == CredentialsSet(base.keystore, SigningKey[r], SigningKey[r])
<1>1. DataConfig(r, v) = [base EXCEPT !.keystore = ks,
                                      !.policy.strict_write = r \notin Byzantine]
  BY DEF DataConfig
<1>2. base = [endorsement_mode |-> base.endorsement_mode, keystore |-> base.keystore,
              delta_filter |-> base.delta_filter, policy |-> base.policy]
  BY DEF FromJson
<1>3. base.policy = [rules |-> base.policy.rules, strict_write |-> base.policy.strict_write]
  BY DEF FromJson, PolicyFromJson, RulesAdded, NewPolicy
<1>4. ks.endorsement_key = SigningKey[r]
  <2>1. base.keystore = KeyStoreFromJson(DataJson(v).keystore)
    BY DEF FromJson
  <2>2. SigningKey[r] # None
    BY KeysAssumption, ReplicasAssumption
  <2> HIDE DEF base
  <2>3. QED
    BY <2>1, <2>2 DEF CredentialsSet, AddTrusted, KeyStoreFromJson
<1> HIDE DEF base, ks
<1>5. DataConfig(r, v).keystore = ks
      /\ DataConfig(r, v).policy = [base.policy EXCEPT !.strict_write = r \notin Byzantine]
  BY <1>1, <1>2
<1>6. QED
  BY <1>3, <1>4, <1>5
-----------------------------------------------------------------------------
(***************************************************************************)
(* The trust part of the composition behaves as TrustEvolution says.       *)
(***************************************************************************)
LEMMA TrustPartSteps ==
  ASSUME [DualNext]_dualVars
  PROVE  [TrustNext]_trustVars
<1>1. CASE TrustStep
  BY <1>1 DEF TrustStep, TrustNext
<1>2. CASE DataStep
  BY <1>2 DEF DataStep, Bootstrap, CommitData, Reload, EndorseDataDelta, Propose, TrustNext
<1>3. QED
  BY <1>1, <1>2 DEF DualNext, dualVars

(***************************************************************************)
(* Whoever works with the data does nothing to the trust store that its own*)
(* participants could not do: all that holds of TrustSpec holds here.      *)
(***************************************************************************)
THEOREM DataLeavesTrustAlone == DualSpec => TrustSpec
<1>1. DualInit => TrustInit
  BY DEF DualInit
<1>2. [DualNext]_dualVars => [TrustNext]_trustVars
  BY TrustPartSteps
<1>3. QED
  BY <1>1, <1>2, PTL DEF DualSpec, TrustSpec

\* Replica r works with version v from what it sees now.
Joins(r, v) ==
  /\ replica' = [replica EXCEPT ![r] = Joined(r, v)]
  /\ UNCHANGED <<trustVars, stored, anchors, approvals, carried>>

LEMMA BootstrapJoins ==
  ASSUME TrustInv, NEW r \in Replicas, Bootstrap(r)
  PROVE  \E p \in Participants, v \in proposals :
           /\ based[v] \cup {v} \subseteq proposals
           /\ \A w \in based[v] \cup {v} : Accepts(search[p].held, w)
           /\ Joins(r, v)
<1>1. PICK p \in Participants :
        \E v \in Found(search[p].held) :
          replica' = [replica EXCEPT ![r] = Joined(r, v)]
  BY DEF Bootstrap
<1>2. PICK v \in Found(search[p].held) : Joins(r, v)
  BY <1>1 DEF Bootstrap, Joins
<1>3. v \in proposals /\ \A w \in based[v] \cup {v} : w \in proposals /\ Accepts(search[p].held, w)
  BY <1>2 DEF Found, Applied
<1>4. QED
  BY <1>2, <1>3

LEMMA ReloadJoins ==
  ASSUME DataInv, NEW r \in Replicas, Reload(r)
  PROVE  replica[r].joined \in proposals /\ Joins(r, replica[r].joined)
<1>1. replica[r].joined \in proposals
  BY DEF Reload, DataInv
<1>2. QED
  BY <1>1 DEF Joins, Reload

LEMMA ViewIsClosed ==
  ASSUME DataInv, NEW r \in Replicas, NEW v
  PROVE  View(r, v) \in SUBSET DataDeltas /\ Closed(View(r, v))
<1> DEFINE shown == {d \in stored : Shows(DataConfig(r, v), d, approvals[d])}
<1>1. View(r, v) = {d \in shown : anchors[d] \subseteq shown}
  BY DEF View
<1> HIDE DEF shown
<1>2. shown \subseteq stored
  BY DEF shown
<1>3. \A d \in stored : \A e \in anchors[d] : anchors[e] \subseteq anchors[d]
  BY DEF DataInv, Closed
<1>4. \A d \in View(r, v) : anchors[d] \subseteq View(r, v)
  BY <1>1, <1>2, <1>3
<1>5. QED
  BY <1>1, <1>2, <1>4 DEF Closed, DataInv, DataTypeOK

\* The invariant of the data, with the part of one replica named.
ReplicaInv(s) ==
  /\ s.joined \in proposals \cup {None}
  /\ Closed(s.loaded)
  /\ Closed(s.loaded \cup s.own)

LEMMA JoiningKeepsData ==
  ASSUME TrustInv, DataInv, NEW r \in Replicas, NEW v \in proposals, Joins(r, v)
  PROVE  DataInv'
<1> DEFINE s == Joined(r, v)
<1>1. s \in Replica
  BY ViewIsClosed DEF Joined, Replica, TrustInv, TrustTypeOK
<1>2. ReplicaInv(s)
  <2>1. View(r, v) \cup {} = View(r, v)
    OBVIOUS
  <2>2. QED
    BY <2>1, ViewIsClosed DEF ReplicaInv, Joined
<1>3. \A q \in Replicas : replica'[q] \in {s, replica[q]} /\ ReplicaInv(replica'[q])
  BY <1>2 DEF DataInv, DataTypeOK, Joins, ReplicaInv
<1>4. DataTypeOK'
  BY <1>1 DEF DataInv, DataTypeOK, Joins
<1>5. QED
  BY <1>3, <1>4 DEF DataInv, ReplicaInv, Closed, Joins, trustVars

LEMMA CommittingKeepsData ==
  ASSUME TrustInv, DataInv, NEW r \in Replicas, NEW d \in DataDeltas, CommitData(r, d)
  PROVE  DataInv'
<1> DEFINE held == replica[r].loaded \cup replica[r].own
           s == [replica[r] EXCEPT !.own = replica[r].own \cup {d}]
<1>1. /\ d \notin stored
      /\ stored' = stored \cup {d}
      /\ anchors' = [anchors EXCEPT ![d] = held]
      /\ replica' = [replica EXCEPT ![r] = s]
      /\ UNCHANGED <<trustVars, approvals, carried>>
  BY DEF CommitData
<1>2. /\ replica[r] \in Replica /\ Closed(held) /\ Closed(replica[r].loaded)
      /\ replica[r].joined \in proposals \cup {None}
      /\ replica \in [Replicas -> Replica]
      /\ anchors \in [DataDeltas -> SUBSET DataDeltas]
  BY DEF DataInv, DataTypeOK
<1>3. s \in Replica /\ s.joined = replica[r].joined /\ s.loaded = replica[r].loaded
      /\ s.own = replica[r].own \cup {d}
  BY <1>2 DEF Replica
<1> HIDE DEF s
<1>4. held \subseteq stored /\ held \in SUBSET DataDeltas
  BY <1>2 DEF Closed, DataInv, DataTypeOK
<1>5. DataTypeOK'
  BY <1>1, <1>3, <1>4 DEF DataInv, DataTypeOK
<1>6. stored \in SUBSET DataDeltas /\ anchors'[d] = held
  BY <1>1, <1>2, <1>4 DEF DataInv, DataTypeOK
<1> HIDE DEF held
<1> DEFINE StillClosed(deltas) ==
             deltas \subseteq stored' /\ \A e \in deltas : anchors'[e] \subseteq deltas
<1>7. ASSUME NEW deltas, Closed(deltas)
      PROVE  StillClosed(deltas)
  <2>1. \A e \in deltas : e # d /\ anchors'[e] = anchors[e]
    BY <1>1, <1>2, <1>6, <1>7 DEF Closed
  <2>2. QED
    BY <1>1, <1>7, <2>1 DEF Closed
<1>8. StillClosed(held \cup {d})
  <2>1. StillClosed(held)
    BY <1>2, <1>7
  <2>2. QED
    BY <1>1, <1>6, <2>1
<1>9. ASSUME NEW e \in stored'
      PROVE  StillClosed(anchors'[e])
  <2>1. CASE e = d
    BY <1>2, <1>6, <1>7, <2>1
  <2>2. CASE e # d
    <3>1. e \in stored /\ anchors'[e] = anchors[e] /\ Closed(anchors[e])
      BY <1>1, <1>2, <1>6, <2>2 DEF DataInv
    <3>2. QED
      BY <1>7, <3>1
  <2>3. QED
    BY <2>1, <2>2
<1>10. ASSUME NEW w \in Versions
       PROVE  StillClosed(carried'[w])
  BY <1>1, <1>7 DEF DataInv
<1>11. ASSUME NEW q \in Replicas
       PROVE  /\ replica'[q].joined \in proposals' \cup {None}
              /\ StillClosed(replica'[q].loaded)
              /\ StillClosed(replica'[q].loaded \cup replica'[q].own)
  <2>1. CASE q = r
    <3>1. replica'[q] = s
      BY <1>1, <1>2, <2>1
    <3>2. s.loaded \cup s.own = held \cup {d}
      BY <1>3 DEF held
    <3>3. QED
      BY <1>1, <1>2, <1>3, <1>7, <1>8, <3>1, <3>2 DEF trustVars
  <2>2. CASE q # r
    <3>1. replica'[q] = replica[q] /\ proposals' = proposals
      BY <1>1, <1>2, <2>2 DEF trustVars
    <3>2. QED
      BY <1>7, <3>1 DEF DataInv
  <2>3. QED
    BY <2>1, <2>2
<1>12. QED
  BY <1>5, <1>9, <1>10, <1>11 DEF DataInv, Closed

LEMMA OthersKeepData ==
  ASSUME TrustInv, DataInv,
         \/ TrustStep \/ UNCHANGED dualVars
         \/ \E k \in Keys, d \in DataDeltas : EndorseDataDelta(k, d)
         \/ \E v \in Versions : Propose(v)
  PROVE  DataInv'
<1>1. CASE TrustStep \/ UNCHANGED dualVars
  <2>1. UNCHANGED dataVars /\ proposals' = proposals
    BY <1>1 DEF TrustStep, EndorseTrustDelta, Searching, GetTrustConfiguration,
                ReadProposal, FinishLoad, Resume, Restart, dualVars, trustVars
  <2>2. QED
    BY <2>1 DEF dataVars, DataInv, DataTypeOK, Closed
<1>2. ASSUME NEW k \in Keys, NEW d \in DataDeltas, EndorseDataDelta(k, d)
      PROVE  DataInv'
  <2>1. approvals' \in [DataDeltas -> SUBSET Keys]
    BY <1>2 DEF EndorseDataDelta, DataInv, DataTypeOK
  <2>2. QED
    BY <1>2, <2>1 DEF EndorseDataDelta, DataInv, DataTypeOK, Closed, trustVars
<1>3. ASSUME NEW v \in Versions, Propose(v)
      PROVE  DataInv'
  <2>1. PICK r \in Replicas : carried' = [carried EXCEPT ![v] = replica[r].loaded]
    BY <1>3 DEF Propose
  <2>2. /\ proposals' = proposals \cup {v}
        /\ UNCHANGED <<stored, anchors, approvals, replica>>
    BY <1>3 DEF Propose, UpdateTrustConfiguration
  <2>3. Closed(replica[r].loaded) /\ replica[r].loaded \in SUBSET DataDeltas
    BY DEF DataInv, DataTypeOK, Replica
  <2>4. /\ carried' \in [Versions -> SUBSET DataDeltas]
        /\ \A w \in Versions : Closed(carried'[w])
    BY <2>1, <2>3 DEF DataInv, DataTypeOK
  <2>5. QED
    BY <2>2, <2>4 DEF DataInv, DataTypeOK, Closed
<1>4. QED
  BY <1>1, <1>2, <1>3

LEMMA DataStepKeepsInv ==
  ASSUME TrustInv, DataInv, [DualNext]_dualVars
  PROVE  DataInv'
<1>1. ASSUME NEW r \in Replicas, Bootstrap(r) \/ Reload(r)
      PROVE  DataInv'
  <2>1. \E v \in proposals : Joins(r, v)
    BY <1>1, BootstrapJoins, ReloadJoins
  <2>2. QED
    BY <2>1, JoiningKeepsData
<1>2. QED
  BY <1>1, CommittingKeepsData, OthersKeepData DEF DualNext, DataStep

LEMMA TrustInDual == DualSpec => []TrustInv /\ []ChainOfQuorums
BY DataLeavesTrustAlone, SearchIsSound, HeldHasChain, PTL

(***************************************************************************)
(* What replicas hold, versions exempt and deltas build on is stored and   *)
(* closed.  (endorsements.rs 237-246, 383-387)                             *)
(***************************************************************************)
THEOREM DataIsClosed == DualSpec => []DataInv
<1>1. DualInit => DataInv
  BY DEF DualInit, DataInit, DataInv, DataTypeOK, Closed, Replica
<1>2. TrustInv /\ DataInv /\ [DualNext]_dualVars => DataInv'
  BY DataStepKeepsInv
<1>3. QED
  BY <1>1, <1>2, TrustInDual, PTL DEF DualSpec
-----------------------------------------------------------------------------
\* No view under v holds what v takes back.
LEMMA ViewHasNothingRevoked ==
  ASSUME NEW r \in Replicas, NEW v \in Versions
  PROVE  View(r, v) \cap RevokedBy(v) = {}
<1>1. DataConfig(r, v).delta_filter.blacklist = DataDocument[v].delta_filter.blacklist
  BY DataConfigParts, RulesAreWellFormed
<1>2. QED
  BY <1>1 DEF View, RevokedBy, Shows, IsBlacklisted

\* What a replica that takes no new view has loaded stays as it is.
LEMMA OnlyOwnJoining ==
  ASSUME TrustInv, DataInv, [DualNext]_dualVars,
         NEW r \in Replicas, ~ (Bootstrap(r) \/ Reload(r))
  PROVE  /\ replica'[r].joined = replica[r].joined
         /\ replica'[r].loaded = replica[r].loaded
<1>1. replica \in [Replicas -> Replica]
  BY DEF DataInv, DataTypeOK
<1>2. ASSUME NEW q \in Replicas, Bootstrap(q) \/ Reload(q)
      PROVE  replica'[r] = replica[r]
  <2>1. q # r /\ \E v \in proposals : Joins(q, v)
    BY <1>2, BootstrapJoins, ReloadJoins
  <2>2. QED
    BY <1>1, <2>1 DEF Joins
<1>3. ASSUME NEW q \in Replicas, NEW d \in DataDeltas, CommitData(q, d)
      PROVE  /\ replica'[r].joined = replica[r].joined
             /\ replica'[r].loaded = replica[r].loaded
  BY <1>1, <1>3 DEF CommitData, Replica
<1>4. CASE TrustStep \/ UNCHANGED dualVars
  BY <1>4 DEF TrustStep, dataVars, dualVars
<1>5. CASE \/ \E k \in Keys, d \in DataDeltas : EndorseDataDelta(k, d)
           \/ \E v \in Versions : Propose(v)
  BY <1>5 DEF EndorseDataDelta, Propose
<1>6. QED
  BY <1>2, <1>3, <1>4, <1>5 DEF DualNext, DataStep

\* What stored deltas build on never changes.
LEMMA AnchorsStay ==
  ASSUME DataInv, [DualNext]_dualVars
  PROVE  /\ stored \subseteq stored'
         /\ \A d \in stored : anchors'[d] = anchors[d]
<1>1. stored \subseteq DataDeltas /\ anchors \in [DataDeltas -> SUBSET DataDeltas]
  BY DEF DataInv, DataTypeOK
<1>2. ASSUME NEW r \in Replicas, NEW d \in DataDeltas, CommitData(r, d)
      PROVE  stored \subseteq stored' /\ \A e \in stored : anchors'[e] = anchors[e]
  BY <1>1, <1>2 DEF CommitData
<1>3. CASE ~ \E r \in Replicas, d \in DataDeltas : CommitData(r, d)
  BY <1>3 DEF DualNext, DataStep, TrustStep, Bootstrap, Reload, EndorseDataDelta,
              Propose, dataVars, dualVars
<1>4. QED
  BY <1>2, <1>3

(***************************************************************************)
(* What a version takes back is gone from every replica that joined it, with *)
(* all that was committed on it.  (endorsements.rs 1004-1007, 1074-1096)   *)
(***************************************************************************)
THEOREM RevocationHolds == DualSpec => []RevokedIsGone
<1>1. DualInit => RevokedIsGone
  BY DEF DualInit, DataInit, RevokedIsGone
<1>2. TrustInv /\ DataInv /\ RevokedIsGone /\ [DualNext]_dualVars => RevokedIsGone'
  <2> SUFFICES ASSUME TrustInv, DataInv, RevokedIsGone, [DualNext]_dualVars,
                      NEW r \in Replicas, replica'[r].joined # None
               PROVE  (replica[r].loaded \cap RevokedBy(replica[r].joined) = {})'
    BY DEF RevokedIsGone
  <2>1. CASE Bootstrap(r) \/ Reload(r)
    <3>1. PICK v \in proposals : Joins(r, v)
      BY <2>1, BootstrapJoins, ReloadJoins
    <3>2. replica'[r].joined = v /\ replica'[r].loaded = View(r, v) /\ anchors' = anchors
      BY <3>1 DEF Joins, Joined, DataInv, DataTypeOK
    <3>3. View(r, v) \cap RevokedBy(v) = {}
      BY ViewHasNothingRevoked DEF TrustInv, TrustTypeOK
    <3>4. QED
      BY <3>2, <3>3 DEF RevokedBy
  <2>2. CASE ~ (Bootstrap(r) \/ Reload(r))
    <3>0. /\ replica'[r].joined = replica[r].joined
          /\ replica'[r].loaded = replica[r].loaded
      BY <2>2, OnlyOwnJoining
    <3>1. replica[r].loaded \subseteq stored
      BY DEF DataInv, Closed
    <3>2. \A d \in replica[r].loaded : anchors'[d] = anchors[d]
      BY <3>1, AnchorsStay
    <3>3. replica[r].loaded \cap RevokedBy(replica[r].joined) = {}
      BY <3>0 DEF RevokedIsGone
    <3>4. QED
      BY <3>0, <3>2, <3>3 DEF RevokedBy
  <2>3. QED
    BY <2>1, <2>2
<1>3. QED
  BY <1>1, <1>2, TrustInDual, DataIsClosed, PTL DEF DualSpec

LEMMA ApprovalsStay ==
  ASSUME DataInv, [DualNext]_dualVars
  PROVE  \A d \in DataDeltas : approvals[d] \subseteq approvals'[d]
<1>1. approvals \in [DataDeltas -> SUBSET Keys]
  BY DEF DataInv, DataTypeOK
<1>2. CASE \E k \in Keys, d \in DataDeltas : EndorseDataDelta(k, d)
  BY <1>1, <1>2 DEF EndorseDataDelta
<1>3. CASE ~ \E k \in Keys, d \in DataDeltas : EndorseDataDelta(k, d)
  BY <1>3 DEF DualNext, DataStep, TrustStep, Bootstrap, Reload, CommitData,
              Propose, dataVars, dualVars
<1>4. QED
  BY <1>2, <1>3

LEMMA ExemptIsViewed ==
  ASSUME DataInv, NEW r \in Replicas, NEW v \in Versions
  PROVE  carried[v] \ RevokedBy(v) \subseteq View(r, v)
<1>1. /\ DataConfig(r, v).delta_filter.blacklist = DataDocument[v].delta_filter.blacklist
      /\ carried[v] \subseteq DataConfig(r, v).delta_filter.whitelist
  BY DataConfigParts, RulesAreWellFormed
<1>2. ASSUME NEW d \in carried[v], d \notin DataDocument[v].delta_filter.blacklist
      PROVE  Shows(DataConfig(r, v), d, approvals[d])
  BY <1>1, <1>2 DEF Shows, IsBlacklisted, SkipsEndorsements
<1>3. Closed(carried[v]) /\ carried[v] \subseteq DataDeltas
  BY DEF DataInv, DataTypeOK
<1> SUFFICES ASSUME NEW d \in carried[v], d \notin RevokedBy(v)
             PROVE  d \in View(r, v)
  OBVIOUS
<1>4. \A e \in anchors[d] \cup {d} :
        e \in carried[v] /\ e \notin DataDocument[v].delta_filter.blacklist
  BY <1>3 DEF Closed, RevokedBy
<1>5. QED
  BY <1>2, <1>3, <1>4 DEF View, Closed

(***************************************************************************)
(* Whoever joins a version sees all it exempts, except what the version    *)
(* takes back: a change of the rules undoes nothing its author held.       *)
(* (endorsements.rs 383-387, 446-449)                                      *)
(***************************************************************************)
THEOREM SnapshotSurvives == DualSpec => SnapshotStays
<1> DEFINE Keeps == \A r \in Replicas :
             Bootstrap(r) => LET v == replica'[r].joined
                             IN  carried[v] \ RevokedBy(v) \subseteq replica'[r].loaded
<1>1. ASSUME TrustInv, DataInv, NEW r \in Replicas, Bootstrap(r)
      PROVE  LET v == replica'[r].joined
             IN  carried[v] \ RevokedBy(v) \subseteq replica'[r].loaded
  <2>1. PICK v \in proposals : Joins(r, v)
    BY <1>1, BootstrapJoins
  <2>2. replica'[r].joined = v /\ replica'[r].loaded = View(r, v)
    BY <1>1, <2>1 DEF Joins, Joined, DataInv, DataTypeOK
  <2>3. carried[v] \ RevokedBy(v) \subseteq View(r, v)
    BY <1>1, ExemptIsViewed DEF TrustInv, TrustTypeOK
  <2>4. QED
    BY <2>2, <2>3
<1>2. TrustInv /\ DataInv /\ [DualNext]_dualVars => [Keeps]_dualVars
  BY <1>1
<1>3. QED
  BY <1>2, TrustInDual, DataIsClosed, PTL DEF DualSpec, SnapshotStays

\* Where the rules trust a replica's key already, they decide alone.
LEMMA RulesDecide ==
  ASSUME SignersTrusted, NEW r \in Replicas, NEW v \in Versions
  PROVE  LET c == DataConfig(r, v)
         IN  /\ c.endorsement_mode = Rules(v).endorsement_mode
             /\ c.delta_filter.whitelist = Rules(v).delta_filter.whitelist \cup carried[v]
             /\ c.delta_filter.blacklist = Rules(v).delta_filter.blacklist
             /\ c.policy.rules = Rules(v).policy.rules
             /\ c.keystore.roles = Rules(v).keystore.roles
             /\ c.keystore.trusted_keys = Rules(v).keystore.trusted_keys
<1>1. Rules(v).keystore.trusted_keys = DOMAIN DataDocument[v].keystore
  BY DEF Rules, FromJson, KeyStoreFromJson
<1>2. SigningKey[r] \in Rules(v).keystore.trusted_keys
  BY <1>1 DEF SignersTrusted
<1>3. Rules(v).keystore.trusted_keys \cup {SigningKey[r]} = Rules(v).keystore.trusted_keys
  BY <1>2
<1>4. QED
  BY <1>3, DataConfigParts

\* The decision about d, in terms of the rules of v and what v exempts.
LEMMA ShownByRules ==
  ASSUME SignersTrusted, NEW r \in Replicas, NEW v \in Versions, NEW d
  PROVE  Shows(DataConfig(r, v), d, approvals[d]) <=>
           /\ d \notin Rules(v).delta_filter.blacklist
           /\ d \in carried[v] \/ SkipsEndorsements(Rules(v), d) \/ Approved(v, d)
<1> DEFINE c == DataConfig(r, v)
           rules == Rules(v)
<1>1. /\ c.endorsement_mode = rules.endorsement_mode
      /\ c.delta_filter.whitelist = rules.delta_filter.whitelist \cup carried[v]
      /\ c.delta_filter.blacklist = rules.delta_filter.blacklist
      /\ c.policy.rules = rules.policy.rules
      /\ c.keystore.roles = rules.keystore.roles
      /\ c.keystore.trusted_keys = rules.keystore.trusted_keys
  BY RulesDecide
<1>2. Approved(v, d) = EnoughEndorsers(rules, d, approvals[d] \cap rules.keystore.trusted_keys)
  BY DEF Approved, Rules
<1> HIDE DEF c, rules
<1>3. \A k : MayApprove(c, k, d) <=> MayApprove(rules, k, d)
  BY <1>1 DEF MayApprove, Allows, MatchRule
<1>4. ASSUME NEW valid
      PROVE  EnoughEndorsers(c, d, valid) <=> EnoughEndorsers(rules, d, valid)
  <2>1. AllowedEndorsers(c, d, valid) = AllowedEndorsers(rules, d, valid)
    BY <1>3 DEF AllowedEndorsers
  <2>2. QED
    BY <1>1, <2>1 DEF EnoughEndorsers
<1>5. Shows(c, d, approvals[d]) <=>
        /\ d \notin rules.delta_filter.blacklist
        /\ \/ d \in carried[v] \/ SkipsEndorsements(rules, d)
           \/ EnoughEndorsers(rules, d, approvals[d] \cap rules.keystore.trusted_keys)
  BY <1>1, <1>4 DEF Shows, IsBlacklisted, SkipsEndorsements
<1>6. QED
  BY <1>2, <1>5 DEF c, rules

(***************************************************************************)
(* Replicas under one version see the same deltas, whatever their keys and *)
(* whether they check their own writes.  (README.md 289)                   *)
(***************************************************************************)
THEOREM OneVersionOneView == DualSpec => []SameVersionSameView
<1>1. TrustInv => SameVersionSameView
  <2> SUFFICES ASSUME SignersTrusted, proposals \subseteq Versions,
                      NEW r \in Replicas, NEW q \in Replicas, NEW v \in proposals
               PROVE  View(r, v) = View(q, v)
    BY DEF SameVersionSameView, TrustInv, TrustTypeOK
  <2>1. \A d : Shows(DataConfig(r, v), d, approvals[d])
                 <=> Shows(DataConfig(q, v), d, approvals[d])
    BY ShownByRules
  <2>2. {d \in stored : Shows(DataConfig(r, v), d, approvals[d])}
          = {d \in stored : Shows(DataConfig(q, v), d, approvals[d])}
    BY <2>1
  <2>3. QED
    BY <2>2 DEF View
<1>2. QED
  BY <1>1, TrustInDual, PTL
-----------------------------------------------------------------------------
\* The exemptions of a version are fixed once it is proposed.
LEMMA ExemptionsStay ==
  ASSUME DataInv, [DualNext]_dualVars, NEW v \in proposals, proposals \subseteq Versions
  PROVE  carried'[v] = carried[v]
<1>1. carried \in [Versions -> SUBSET DataDeltas]
  BY DEF DataInv, DataTypeOK
<1>2. ASSUME NEW w \in Versions, Propose(w)
      PROVE  carried'[v] = carried[v]
  BY <1>1, <1>2 DEF Propose, UpdateTrustConfiguration
<1>3. CASE ~ \E w \in Versions : Propose(w)
  BY <1>3 DEF DualNext, DataStep, TrustStep, Bootstrap, Reload, CommitData,
              EndorseDataDelta, dataVars, dualVars
<1>4. QED
  BY <1>2, <1>3

LEMMA DataConfigIsConfiguration ==
  ASSUME DataInv, NEW r \in Replicas, NEW v \in Versions
  PROVE  DataConfig(r, v) \in Configuration
<1> DEFINE doc    == DataDocument[v]
           filter == [doc.delta_filter EXCEPT
                        !.whitelist = doc.delta_filter.whitelist \cup carried[v]]
           json   == [doc EXCEPT !.delta_filter = filter]
           base   == FromJson(json)
           ks     == CredentialsSet(base.keystore, SigningKey[r], SigningKey[r])
<1>1. doc \in ConfigurationJson
  BY RulesAreWellFormed
<1>2. filter \in DeltaFilter
  <2>1. carried[v] \subseteq Deltas
    BY ReplicasAssumption DEF DataInv, DataTypeOK
  <2>2. QED
    BY <1>1, <2>1 DEF ConfigurationJson, DeltaFilter
<1>3. DataConfig(r, v) = [base EXCEPT !.keystore = ks,
                                      !.policy.strict_write = r \notin Byzantine]
  BY DEF DataConfig, DataJson
<1> HIDE DEF filter, doc
<1>4. json \in ConfigurationJson
  BY <1>1, <1>2 DEF ConfigurationJson
<1> HIDE DEF json
<1>5. base \in Configuration
  BY <1>4, ConfigurationOfDocument DEF WellFormed
<1> HIDE DEF base
<1>6. ks \in KeyStore
  BY <1>5, KeysAssumption, ReplicasAssumption
  DEF Configuration, KeyStore, CredentialsSet, AddTrusted
<1> HIDE DEF ks
<1>7. [base EXCEPT !.keystore = ks, !.policy.strict_write = r \notin Byzantine]
        \in Configuration
  BY <1>5, <1>6 DEF Configuration, PolicyEngine
<1>8. QED
  BY <1>3, <1>7

(***************************************************************************)
(* What is visible under a version proposed stays visible under it, to     *)
(* whoever looks.                                                          *)
(***************************************************************************)
LEMMA ViewOnlyGrows ==
  ASSUME TrustInv, DataInv, [DualNext]_dualVars, NEW r \in Replicas, NEW v \in proposals
  PROVE  View(r, v) \subseteq View(r, v)'
<1> DEFINE c == DataConfig(r, v)
<1>1. v \in Versions /\ proposals \subseteq Versions
  BY DEF TrustInv, TrustTypeOK
<1>2. c \in Configuration /\ DataConfig(r, v)' = c
  <2>1. carried'[v] = carried[v]
    BY <1>1, ExemptionsStay
  <2>2. QED
    BY <1>1, <2>1, DataConfigIsConfiguration DEF DataConfig, DataJson
<1> HIDE DEF c
<1>3. ASSUME NEW d \in stored, Shows(c, d, approvals[d])
      PROVE  d \in stored' /\ anchors'[d] = anchors[d] /\ Shows(c, d, approvals'[d])
  <2>1. d \in DataDeltas
    BY DEF DataInv, DataTypeOK
  <2>2. approvals[d] \subseteq approvals'[d]
    BY <2>1, ApprovalsStay
  <2>3. QED
    BY <1>2, <1>3, <2>2, AnchorsStay, MoreSignersShow
<1>4. View(r, v)' = LET shown == {d \in stored' : Shows(c, d, approvals'[d])}
                    IN  {d \in shown : anchors'[d] \subseteq shown}
  BY <1>2 DEF View
<1>5. View(r, v) = LET shown == {d \in stored : Shows(c, d, approvals[d])}
                   IN  {d \in shown : anchors[d] \subseteq shown}
  BY DEF View, c
<1>6. QED
  BY <1>3, <1>4, <1>5

\* A replica sees now at least what it loaded.
LoadedIsVisible ==
  \A r \in Replicas :
    replica[r].joined # None => replica[r].loaded \subseteq View(r, replica[r].joined)

LEMMA LoadedStaysVisible ==
  ASSUME TrustInv, DataInv, LoadedIsVisible, [DualNext]_dualVars
  PROVE  /\ LoadedIsVisible'
         /\ \A r \in Replicas : replica'[r].joined = replica[r].joined =>
              replica[r].loaded \subseteq replica'[r].loaded
<1> SUFFICES ASSUME NEW r \in Replicas
             PROVE  /\ (replica[r].joined # None =>
                           replica[r].loaded \subseteq View(r, replica[r].joined))'
                    /\ replica'[r].joined = replica[r].joined =>
                         replica[r].loaded \subseteq replica'[r].loaded
  BY DEF LoadedIsVisible
<1>1. /\ replica[r].joined \in proposals \cup {None}
      /\ None \notin Versions /\ proposals \subseteq Versions
  BY ContentAssumption, VersionsAssumption DEF DataInv, TrustInv, TrustTypeOK
<1>2. CASE Bootstrap(r) \/ Reload(r)
  <2>1. PICK v \in proposals : Joins(r, v)
    BY <1>2, BootstrapJoins, ReloadJoins
  <2>2. replica'[r].joined = v /\ replica'[r].loaded = View(r, v)
    BY <2>1 DEF Joins, Joined, DataInv, DataTypeOK
  <2>3. View(r, v) \subseteq View(r, v)'
    BY ViewOnlyGrows
  <2>4. ASSUME replica[r].joined = v PROVE replica[r].loaded \subseteq View(r, v)
    BY <1>1, <2>4 DEF LoadedIsVisible
  <2>5. QED
    BY <2>2, <2>3, <2>4
<1>3. CASE ~ (Bootstrap(r) \/ Reload(r))
  <2>1. /\ replica'[r].joined = replica[r].joined
        /\ replica'[r].loaded = replica[r].loaded
    BY <1>3, OnlyOwnJoining
  <2>2. ASSUME NEW v \in proposals, replica[r].joined = v
        PROVE  replica[r].loaded \subseteq View(r, v)'
    BY <1>1, <2>2, ViewOnlyGrows DEF LoadedIsVisible
  <2>3. QED
    BY <1>1, <2>1, <2>2
<1>4. QED
  BY <1>2, <1>3

(***************************************************************************)
(* Whoever loads the data again under the version joined sees at least what*)
(* it saw, whatever was committed, endorsed and proposed meanwhile.        *)
(* (endorsements.rs 237-246, 285-291)                                      *)
(***************************************************************************)
THEOREM LoadedStays == DualSpec => NothingLost
<1> DEFINE Keeps == \A r \in Replicas : replica'[r].joined = replica[r].joined =>
                      replica[r].loaded \subseteq replica'[r].loaded
<1>1. DualInit => LoadedIsVisible
  BY DEF DualInit, DataInit, LoadedIsVisible
<1>2. TrustInv /\ DataInv /\ LoadedIsVisible /\ [DualNext]_dualVars
        => LoadedIsVisible' /\ [Keeps]_dualVars
  BY LoadedStaysVisible
<1>3. QED
  BY <1>1, <1>2, TrustInDual, DataIsClosed, PTL DEF DualSpec, NothingLost
-----------------------------------------------------------------------------
(***************************************************************************)
(* Approvals cannot come from copying: with what replicas hold, what the   *)
(* versions exempt is known too, and replicas join versions in effect.     *)
(***************************************************************************)
KnownInv ==
  /\ \A r \in Replicas : /\ replica[r].loaded \subseteq Known
                         /\ replica[r].joined \in InEffect \cup {None}
  /\ \A v \in Versions : carried[v] \subseteq Known

LEMMA KnownStays ==
  ASSUME TrustInv, DataInv, [DualNext]_dualVars
  PROVE  /\ \A u \in InEffect : u \in InEffect'
         /\ \A d \in Known : d \in Known'
<1>1. Grows
  BY TrustPartSteps, StoreGrows DEF TrustInv
<1>2. \A u \in InEffect : u \in InEffect'
  BY <1>1, EffectStays
<1>3. \A d \in DataDeltas : approvals[d] \subseteq approvals'[d]
  BY ApprovalsStay
<1>4. ASSUME NEW u \in Versions, NEW d \in DataDeltas, Approved(u, d)
      PROVE  Approved(u, d)'
  <2> DEFINE trusted == Rules(u).keystore.trusted_keys
             more == approvals'[d] \cap trusted
  <2>1. approvals[d] \cap trusted \subseteq more /\ more \subseteq trusted
    BY <1>3
  <2>2. Rules(u) \in Configuration
    BY RulesAreWellFormed DEF WellFormed
  <2>3. EnoughEndorsers(Rules(u), d, approvals[d] \cap trusted)
    BY <1>4 DEF Approved, Rules
  <2>4. EnoughEndorsers(Rules(u), d, more)
    BY <2>1, <2>2, <2>3, MoreEndorsersAreEnough
  <2>5. QED
    BY <2>4 DEF Approved, Rules
<1>5. InEffect \subseteq Versions
  BY DEF InEffect
<1>6. QED
  BY <1>2, <1>4, <1>5 DEF Known

\* A view under a version in effect adds nothing to what is known.
LEMMA ViewIsKnown ==
  ASSUME SignersTrusted, DataInv, KnownInv, NEW r \in Replicas, NEW v \in InEffect
  PROVE  View(r, v) \subseteq Known
<1>1. v \in Versions
  BY DEF InEffect
<1> SUFFICES ASSUME NEW d \in stored, Shows(DataConfig(r, v), d, approvals[d])
             PROVE  d \in Known
  BY DEF View
<1>2. d \in DataDeltas
  BY DEF DataInv, DataTypeOK
<1>3. d \in carried[v] \/ SkipsEndorsements(Rules(v), d) \/ Approved(v, d)
  BY <1>1, ShownByRules
<1>4. QED
  BY <1>1, <1>2, <1>3 DEF KnownInv, Known, Rules

\* What a search finds under a version in effect is in effect.
LEMMA JoinsInEffect ==
  ASSUME TrustInv, ChainOfQuorums, NEW r \in Replicas, Bootstrap(r)
  PROVE  \E v \in InEffect : Joins(r, v)
<1>1. PICK p \in Participants, v \in proposals :
        /\ based[v] \cup {v} \subseteq proposals
        /\ \A w \in based[v] \cup {v} : Accepts(search[p].held, w)
        /\ Joins(r, v)
  BY BootstrapJoins
<1>2. search[p].held \in InEffect
  BY DEF ChainOfQuorums
<1>3. search[p].held \in Versions
  BY <1>2 DEF InEffect
<1>4. Ratifies(search[p].held, v)
  <2>1. \A w \in based[v] \cup {v} : w \in Versions /\ Accepts(search[p].held, w)
    BY <1>1 DEF TrustInv, TrustTypeOK
  <2>2. QED
    BY <1>3, <2>1, AcceptedHasQuorum DEF Ratifies
<1>5. QED
  BY <1>1, <1>2, <1>4, RatifiedIsInEffect DEF TrustInv

LEMMA StepKeepsKnown ==
  ASSUME SignersTrusted, TrustInv, ChainOfQuorums, DataInv, KnownInv, [DualNext]_dualVars
  PROVE  KnownInv'
<1>1. ASSUME NEW r \in Replicas
      PROVE  /\ replica'[r].loaded \subseteq Known
             /\ replica'[r].joined \in InEffect \cup {None}
  <2>1. ASSUME NEW v \in InEffect, Joins(r, v)
        PROVE  /\ replica'[r].loaded \subseteq Known
               /\ replica'[r].joined \in InEffect
    <3>1. replica'[r].loaded = View(r, v) /\ replica'[r].joined = v
      BY <2>1 DEF Joins, Joined, DataInv, DataTypeOK
    <3>2. QED
      BY <3>1, ViewIsKnown
  <2>2. CASE Bootstrap(r)
    BY <2>1, <2>2, JoinsInEffect
  <2>3. CASE Reload(r)
    <3>1. replica[r].joined \in InEffect
      BY <2>3 DEF KnownInv, Reload
    <3>2. QED
      BY <2>1, <2>3, <3>1, ReloadJoins
  <2>4. CASE ~ (Bootstrap(r) \/ Reload(r))
    <3>1. replica'[r].joined = replica[r].joined /\ replica'[r].loaded = replica[r].loaded
      BY <2>4, OnlyOwnJoining
    <3>2. QED
      BY <3>1 DEF KnownInv
  <2>5. QED
    BY <2>2, <2>3, <2>4
<1>2. ASSUME NEW v \in Versions
      PROVE  carried'[v] \subseteq Known
  <2>1. CASE \E w \in Versions : Propose(w)
    BY <2>1 DEF Propose, KnownInv, DataInv, DataTypeOK
  <2>2. CASE ~ \E w \in Versions : Propose(w)
    BY <2>2 DEF DualNext, DataStep, TrustStep, Bootstrap, Reload, CommitData,
                EndorseDataDelta, dataVars, dualVars, KnownInv
  <2>3. QED
    BY <2>1, <2>2
<1>3. QED
  BY <1>1, <1>2, KnownStays DEF KnownInv

(***************************************************************************)
(* Every delta a replica has loaded was approved under the data rules of   *)
(* some version in effect, or is exempted by such a version's document:    *)
(* exemptions copied from version to version create no approval.           *)
(* (README.md 279; endorsements.rs 237-246, 383-387)                       *)
(***************************************************************************)
THEOREM LoadedWasApproved == DualSpec => []Provenance
<1>1. CASE SignersTrusted
  <2>1. DualInit => KnownInv
    BY DEF DualInit, DataInit, KnownInv
  <2>2. TrustInv /\ ChainOfQuorums /\ DataInv /\ KnownInv /\ [DualNext]_dualVars => KnownInv'
    BY <1>1, StepKeepsKnown
  <2>3. KnownInv => Provenance
    BY DEF KnownInv, Provenance
  <2>4. QED
    BY <2>1, <2>2, <2>3, TrustInDual, DataIsClosed, PTL DEF DualSpec
<1>2. CASE ~ SignersTrusted
  <2>1. Provenance
    BY <1>2 DEF Provenance
  <2>2. QED
    BY <2>1, PTL
<1>3. QED
  BY <1>1, <1>2
=============================================================================
