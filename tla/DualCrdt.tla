------------------------------ MODULE DualCrdt ------------------------------
(***************************************************************************)
(* The Trust CRDT and the Data CRDT it governs (src/examples/              *)
(* endorsements.rs).  A replica of the data is set up from the data rules  *)
(* of the trust version found, loads what these let it read, and commits on*)
(* what it loaded.  Whoever proposes the next version exempts the deltas   *)
(* its replica holds, so that a change of the rules does not undo them.  A *)
(* load of the data is one step here; TrustAdapter has its single reads.   *)
(***************************************************************************)
EXTENDS TrustEvolution

CONSTANTS
  Replicas,      \* the participants of the Data CRDT
  Byzantine,     \* those that switch strict_write off
  SigningKey,    \* SigningKey[r]: the key r endorses with
  DataDeltas,    \* the deltas of the Data CRDT
  Author,        \* Author[d]: the replica that commits d
  Supporting,    \* Supporting[d]: the keys whose owners may ever endorse d
  DataDocument   \* DataDocument[v]: the data rules v proposes

ASSUME ReplicasAssumption ==
  /\ Byzantine \subseteq Replicas
  /\ SigningKey \in [Replicas -> Keys]
  /\ DataDeltas \subseteq Deltas \ Versions
  /\ Author \in [DataDeltas -> Replicas]
  /\ Supporting \in [DataDeltas -> SUBSET Keys]
  /\ DataDocument \in [Versions -> ConfigurationJson]

VARIABLES
  stored,     \* the data deltas stored
  anchors,    \* anchors[d]: the deltas d was committed on
  approvals,  \* approvals[d]: the keys with a valid record for d
  carried,    \* carried[v]: the deltas v exempts as those its author held
  replica     \* replica[r]: what r works with

dataVars == <<stored, anchors, approvals, carried, replica>>

dualVars == <<trustVars, dataVars>>

\* The version whose data rules are in use, the deltas loaded, and the deltas
\* committed since.
Replica == [joined : Versions \cup {None},
            loaded : SUBSET DataDeltas,
            own    : SUBSET DataDeltas]

\* Mutant: the next version exempts nothing.
DataJson_NoSnapshot(v) == DataDocument[v]

\* The member data_trust_config of version v.
DataJson(v) ==
  LET json == DataDocument[v]
  IN  [json EXCEPT !.delta_filter =
         [@ EXCEPT !.whitelist = json.delta_filter.whitelist \cup carried[v]]]

\* Mutant: joining replaces the key store.
DataConfig_NewKeyStore(r, v) ==
  LET c == FromJson(DataJson(v))
  IN  [c EXCEPT
        !.keystore = CredentialsSet(NewKeyStore, SigningKey[r], SigningKey[r]),
        !.policy.strict_write = r \notin Byzantine]

\* The adapter of r: bootstrap, or bootstrap_byzantine.
DataConfig(r, v) ==
  LET c == FromJson(DataJson(v))
  IN  [c EXCEPT
        !.keystore = CredentialsSet(@, SigningKey[r], SigningKey[r]),
        !.policy.strict_write = r \notin Byzantine]

\* Mutant: a delta is applied whatever became of those it was committed on.
View_Alone(r, v) ==
  LET c == DataConfig(r, v)
  IN  {d \in stored : Shows(c, d, approvals[d])}

\* What r sees under the data rules of v.
View(r, v) ==
  LET c     == DataConfig(r, v)
      shown == {d \in stored : Shows(c, d, approvals[d])}
  IN  {d \in shown : anchors[d] \subseteq shown}

\* A replica that has just loaded the data under the rules of v.
Joined(r, v) == [joined |-> v, loaded |-> View(r, v), own |-> {}]

DataTypeOK ==
  /\ stored \subseteq DataDeltas
  /\ anchors \in [DataDeltas -> SUBSET DataDeltas]
  /\ approvals \in [DataDeltas -> SUBSET Keys]
  /\ carried \in [Versions -> SUBSET DataDeltas]
  /\ replica \in [Replicas -> Replica]

DataInit ==
  /\ stored = {}
  /\ anchors = [d \in DataDeltas |-> {}]
  /\ approvals = [d \in DataDeltas |-> {}]
  /\ carried = [v \in Versions |-> {}]
  /\ replica = [r \in Replicas |-> [joined |-> None, loaded |-> {}, own |-> {}]]
-----------------------------------------------------------------------------
\* The trust store is loaded once more under the version a search has found.
Bootstrap(r) ==
  /\ \E p \in Participants : \E v \in Found(search[p].held) :
       /\ search[p].phase = "settled"
       /\ v = Preferred(Found(search[p].held))
       /\ replica' = [replica EXCEPT ![r] = Joined(r, v)]
  /\ UNCHANGED <<trustVars, stored, anchors, approvals, carried>>

\* commit: a write that the policy denies leaves nothing behind (unstage).
CommitData(r, d) ==
  /\ Author[d] = r
  /\ d \notin stored
  /\ replica[r].joined # None
  /\ MayWrite(DataConfig(r, replica[r].joined), d)
  /\ stored' = stored \cup {d}
  /\ anchors' = [anchors EXCEPT ![d] = replica[r].loaded \cup replica[r].own]
  /\ replica' = [replica EXCEPT ![r].own = @ \cup {d}]
  /\ UNCHANGED <<trustVars, approvals, carried>>

\* Mutant: a delta has one record, which the last to endorse writes.
EndorseDataDelta_OneRecord(k, d) ==
  /\ d \in stored
  /\ k \in Supporting[d] \ approvals[d]
  /\ approvals' = [approvals EXCEPT ![d] = {k}]
  /\ UNCHANGED <<trustVars, stored, anchors, carried, replica>>

\* endorse_data_delta signs through a permissive adapter: anybody may.
EndorseDataDelta(k, d) ==
  /\ d \in stored
  /\ k \in Supporting[d] \ approvals[d]
  /\ approvals' = [approvals EXCEPT ![d] = @ \cup {k}]
  /\ UNCHANGED <<trustVars, stored, anchors, carried, replica>>

Reload(r) ==
  /\ replica[r].joined # None
  /\ replica' = [replica EXCEPT ![r] = Joined(r, replica[r].joined)]
  /\ UNCHANGED <<trustVars, stored, anchors, approvals, carried>>

\* Mutant: every delta of the store is exempt from then on.
Propose_AllStored(v) ==
  /\ UpdateTrustConfiguration(v)
  /\ carried' = [carried EXCEPT ![v] = stored]
  /\ UNCHANGED <<stored, anchors, approvals, replica>>

\* get_deltas (383), then update_trust_configuration.  The program reloads
\* every replica (285-291) before it takes this snapshot, so no commit that its
\* author alone holds is in it: own is empty.
Propose(v) ==
  /\ UpdateTrustConfiguration(v)
  /\ \E r \in Replicas :
       /\ replica[r].joined # None
       /\ replica[r].own = {}
       /\ carried' = [carried EXCEPT ![v] = replica[r].loaded]
  /\ UNCHANGED <<stored, anchors, approvals, replica>>

TrustStep ==
  /\ \/ \E k \in Keys, v \in Versions : EndorseTrustDelta(k, v)
     \/ \E p \in Participants : Searching(p) \/ Resume(p) \/ Restart(p)
  /\ UNCHANGED dataVars

DataStep ==
  \/ \E r \in Replicas : \/ Bootstrap(r)
                         \/ \E d \in DataDeltas : CommitData(r, d)
                         \/ Reload(r)
  \/ \E k \in Keys, d \in DataDeltas : EndorseDataDelta(k, d)
  \/ \E v \in Versions : Propose(v)

DualInit == TrustInit /\ DataInit

DualNext == TrustStep \/ DataStep

DualSpec == DualInit /\ [][DualNext]_dualVars
-----------------------------------------------------------------------------
\* Enough keys that version u trusts with the data, and allows d, endorsed d.
Approved(u, d) == EnoughEndorsers(FromJson(DataDocument[u]), d,
                    approvals[d] \cap FromJson(DataDocument[u]).keystore.trusted_keys)

\* The documents trust the keys the replicas join under with their data.
SignersTrusted ==
  \A v \in Versions, r \in Replicas : SigningKey[r] \in DOMAIN DataDocument[v].keystore

\* The deltas approved under the data rules of a version in effect, or exempted
\* by its document itself.
Known ==
  LET effective == InEffect
  IN  {d \in DataDeltas : \E u \in effective :
         Approved(u, d) \/ SkipsEndorsements(FromJson(DataDocument[u]), d)}

(***************************************************************************)
(* Every delta a replica has loaded was approved under the data rules of   *)
(* some version in effect, or is exempted by a document itself: exemptions *)
(* taken after a reload (see Propose) and copied from version to version   *)
(* hand on approvals and create none, so what a participant writes past its*)
(* own check stays out of all views under all later rules.                 *)
(* (README.md 279; 237-246, 285-291, 383-387, 446)                         *)
(***************************************************************************)
Provenance ==
  SignersTrusted => \A r \in Replicas : replica[r].loaded \subseteq Known

\* The deltas that version v takes back, directly or with what they build on.
RevokedBy(v) ==
  {d \in DataDeltas : (anchors[d] \cup {d}) \cap
                        DataDocument[v].delta_filter.blacklist # {}}

(***************************************************************************)
(* A change of the rules keeps what its author held: the replica that joins*)
(* the new version sees every delta the version exempts, unless the version*)
(* takes it back or something it was committed on.  (383-387, 446-449)     *)
(***************************************************************************)
SnapshotStays ==
  [][\A r \in Replicas :
       Bootstrap(r) => LET v == replica'[r].joined
                       IN  carried[v] \ RevokedBy(v) \subseteq replica'[r].loaded]_dualVars

(***************************************************************************)
(* Whoever loads the data again under the version it has joined sees at    *)
(* least what it saw, whatever was committed, endorsed and proposed in the *)
(* meantime: no signature and no new version of the rules that it has not  *)
(* joined undoes a change.  (237-246, 285-291)                             *)
(***************************************************************************)
NothingLost ==
  [][\A r \in Replicas :
       replica'[r].joined = replica[r].joined =>
         replica[r].loaded \subseteq replica'[r].loaded]_dualVars

(***************************************************************************)
(* What a version takes back is gone from every replica that joined it, also *)
(* what was committed on it, although the same document exempts it and its *)
(* author is still trusted.  (1004-1007, 1074-1096, README.md 282)         *)
(***************************************************************************)
RevokedIsGone ==
  \A r \in Replicas :
    replica[r].joined # None =>
      replica[r].loaded \cap RevokedBy(replica[r].joined) = {}

(***************************************************************************)
(* Replicas under one version see the same deltas, whatever their keys and *)
(* whether they check their own writes.  (README.md 289; 80-95)            *)
(***************************************************************************)
SameVersionSameView ==
  SignersTrusted =>
    \A v \in proposals :
      LET seen == [r \in Replicas |-> View(r, v)]
      IN  \A r, s \in Replicas : seen[r] = seen[s]

(***************************************************************************)
(* What the steps preserve together: what is loaded, carried or built on is*)
(* stored and closed under anchors.  (237-246, 383-387)                    *)
(***************************************************************************)
Closed(deltas) == deltas \subseteq stored /\ \A d \in deltas : anchors[d] \subseteq deltas

DataInv ==
  /\ DataTypeOK
  /\ \A d \in stored : Closed(anchors[d])
  /\ \A v \in Versions : Closed(carried[v])
  /\ \A r \in Replicas : /\ replica[r].joined \in proposals \cup {None}
                         /\ Closed(replica[r].loaded)
                         /\ Closed(replica[r].loaded \cup replica[r].own)
=============================================================================
