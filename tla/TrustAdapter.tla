---------------------------- MODULE TrustAdapter ----------------------------
(***************************************************************************)
(* Trust adapters over one storage (src/src/trustadapter.rs): deltas and   *)
(* endorsement records arrive, adapters endorse deltas and read them, and a*)
(* read decides whether a delta becomes visible.  An operation holds the   *)
(* adapter's configuration (a shared borrow) and so sees one configuration *)
(* from its call to its return; the storage is not locked, and changes     *)
(* between any two of its accesses.                                        *)
(***************************************************************************)
EXTENDS TrustConfiguration

CONSTANTS
  RemoteKeys,     \* keys whose endorsement records replication brings in
  Arrivals,       \* the states such a record may be in
  TornWrites,     \* TRUE: a write cut short by a crash leaves half a record
  StorageErrors   \* TRUE: an access to the storage may fail

(***************************************************************************)
(* The record <delta>.<key>.sig.                                           *)
(*   "valid"        a signature of the delta by the key                    *)
(*   "mismatched"   a well-formed signature that does not verify           *)
(*   "short"        base64, but not of 64 bytes                            *)
(*   "undecodable"  a JSON record whose signature is not base64            *)
(*   "malformed"    not a JSON record, or of another version or algorithm  *)
(***************************************************************************)
SigState == {"absent", "valid", "mismatched", "short", "undecodable", "malformed"}

Unreadable == {"short", "undecodable", "malformed"}

ASSUME StorageAssumption ==
  /\ RemoteKeys \subseteq Keys
  /\ Arrivals \subseteq SigState \ {"absent"}
  /\ TornWrites \in BOOLEAN
  /\ StorageErrors \in BOOLEAN

(***************************************************************************)
(* With torn writes every record has one writer, and that writer's reads   *)
(* of it do not fail: otherwise a torn rewrite may destroy a valid record. *)
(***************************************************************************)
ASSUME TornWritesAssumption ==
  TornWrites =>
    /\ ~ StorageErrors
    /\ \A a \in Adapters : SigningKeys[a] \cap RemoteKeys = {}
    /\ \A a, b \in Adapters : a # b => SigningKeys[a] \cap SigningKeys[b] = {}

VARIABLES
  deltas,  \* the deltas stored
  sigs,    \* sigs[d][k]: state of the record of key k for delta d
  op       \* op[a]: the operation adapter a executes

storage == <<deltas, sigs>>

vars == <<config, saved, deltas, sigs, op>>

(***************************************************************************)
(* An operation: a read that has listed the records still to be read (todo)*)
(* and collected the valid ones, or an endorsement about to be written.    *)
(* "doubted" is a history bit for the properties: at one of its own steps  *)
(* the delta was not readable.                                             *)
(***************************************************************************)
Operation == [pc      : {"idle", "fetching", "signing", "returned"},
              delta   : Deltas \cup {None},
              todo    : SUBSET Keys,
              valid   : SUBSET Keys,
              result  : {"pending", "data", "refused", "endorsed", "failed"},
              doubted : BOOLEAN]

Idle == [pc |-> "idle", delta |-> None, todo |-> {}, valid |-> {},
         result |-> "pending", doubted |-> FALSE]

Fetching(d, listed, doubted) ==
  [pc |-> "fetching", delta |-> d, todo |-> listed, valid |-> {},
   result |-> "pending", doubted |-> doubted]

Signing(d) == [pc |-> "signing", delta |-> d, todo |-> {}, valid |-> {},
               result |-> "pending", doubted |-> FALSE]

Returned(d, result, doubted) ==
  [pc |-> "returned", delta |-> d, todo |-> {}, valid |-> {},
   result |-> result, doubted |-> doubted]

Recorded(d) == {k \in Keys : sigs[d][k] # "absent"}

Endorsers(d) == {k \in Keys : sigs[d][k] = "valid"}

\* Mutant: endorsements of any key count.
TrustedEndorsers_Anyone(a, d) == Endorsers(d)

TrustedEndorsers(a, d) == Endorsers(d) \cap config[a].keystore.trusted_keys

\* What an uninterrupted read by a would answer now.
Readable(a, d) ==
  /\ d \in deltas
  /\ ~ IsBlacklisted(config[a], d)
  /\ \/ SkipsEndorsements(config[a], d)
     \/ /\ \A k \in Keys : sigs[d][k] \notin Unreadable
        /\ EnoughEndorsers(config[a], d, TrustedEndorsers(a, d))

TypeOK ==
  /\ ConfigTypeOK
  /\ deltas \subseteq Deltas
  /\ sigs \in [Deltas -> [Keys -> SigState]]
  /\ op \in [Adapters -> Operation]

Init ==
  /\ ConfigInit
  /\ deltas = {}
  /\ sigs = [d \in Deltas |-> [k \in Keys |-> "absent"]]
  /\ op = [a \in Adapters |-> Idle]
-----------------------------------------------------------------------------
(***************************************************************************)
(* read_object of a whole delta, with offset and length 0 as Melda asks for*)
(* it.  A range of a delta is returned unchecked (407-416); such reads are *)
(* in EncryptionAdapter.                                                   *)
(***************************************************************************)
Becomes(a, operation) == op' = [op EXCEPT ![a] = operation]

Doubted(a) == op[a].doubted \/ ~ Readable(a, op[a].delta)

\* Mutant: the whitelist is looked up before the blacklist.
ReadObjectAtOnce_WhitelistFirst(a, d) ==
  /\ op[a].pc = "idle"
  /\ d \in deltas
  /\ SkipsEndorsements(config[a], d)
  /\ Becomes(a, Returned(d, "data", FALSE))
  /\ UNCHANGED <<config, saved, storage>>

\* Answered without looking at endorsements.
ReadObjectAtOnce(a, d) ==
  /\ op[a].pc = "idle"
  /\ \/ /\ d \notin deltas \/ StorageErrors \/ IsBlacklisted(config[a], d)
        /\ Becomes(a, Returned(d, "refused", ~ Readable(a, d)))
     \/ /\ d \in deltas
        /\ ~ IsBlacklisted(config[a], d)
        /\ SkipsEndorsements(config[a], d)
        /\ Becomes(a, Returned(d, "data", FALSE))
  /\ UNCHANGED <<config, saved, storage>>

\* fetch_endorsements lists the records; a failing listing counts as empty.
ReadObject(a, d) ==
  /\ op[a].pc = "idle"
  /\ d \in deltas
  /\ ~ IsBlacklisted(config[a], d)
  /\ ~ SkipsEndorsements(config[a], d)
  /\ \E listed \in {Recorded(d)} \cup (IF StorageErrors THEN {{}} ELSE {}) :
       Becomes(a, Fetching(d, listed, ~ Readable(a, d)))
  /\ UNCHANGED <<config, saved, storage>>

\* Mutant: the signature is verified, the key's trust is not checked.
FetchRecord_Untrusted(a, k) ==
  LET record == sigs[op[a].delta][k]
  IN  /\ op[a].pc = "fetching"
      /\ k \in op[a].todo
      /\ record \notin Unreadable
      /\ op' = [op EXCEPT ![a].todo    = @ \ {k},
                          ![a].valid   = IF record = "valid" THEN @ \cup {k} ELSE @,
                          ![a].doubted = Doubted(a)]
      /\ UNCHANGED <<config, saved, storage>>

\* Reads one listed record; one that cannot be read ends the whole read.
FetchRecord(a, k) ==
  LET record == sigs[op[a].delta][k]
  IN  /\ op[a].pc = "fetching"
      /\ k \in op[a].todo
      /\ \/ /\ record \in Unreadable \/ StorageErrors
            /\ Becomes(a, Returned(op[a].delta, "refused", Doubted(a)))
         \/ /\ record \notin Unreadable
            /\ op' = [op EXCEPT
                 ![a].todo    = @ \ {k},
                 ![a].valid   = IF record = "valid" /\ IsTrusted(config[a].keystore, k)
                                THEN @ \cup {k} ELSE @,
                 ![a].doubted = Doubted(a)]
      /\ UNCHANGED <<config, saved, storage>>

\* Mutant: the decision does not wait for all listed records.
Decide_Early(a) ==
  /\ op[a].pc = "fetching"
  /\ Becomes(a, Returned(op[a].delta,
       IF EnoughEndorsers(config[a], op[a].delta, op[a].valid) THEN "data" ELSE "refused",
       Doubted(a)))
  /\ UNCHANGED <<config, saved, storage>>

Decide(a) ==
  /\ op[a].pc = "fetching"
  /\ op[a].todo = {}
  /\ Becomes(a, Returned(op[a].delta,
       IF EnoughEndorsers(config[a], op[a].delta, op[a].valid) THEN "data" ELSE "refused",
       Doubted(a)))
  /\ UNCHANGED <<config, saved, storage>>
-----------------------------------------------------------------------------
(***************************************************************************)
(* endorse: look for a record, then sign and write one unless it is valid  *)
(***************************************************************************)
\* Mutant: a valid record is signed again.
Endorse_Always(a, d) ==
  /\ op[a].pc = "idle"
  /\ config[a].keystore.endorsement_key # None
  /\ Becomes(a, Signing(d))
  /\ UNCHANGED <<config, saved, storage>>

\* Mutant: any record that exists passes for an endorsement.
Endorse_Exists(a, d) ==
  LET sk == config[a].keystore.endorsement_key
  IN  /\ op[a].pc = "idle"
      /\ sk # None
      /\ Becomes(a, IF sigs[d][sk] # "absent"
                     THEN Returned(d, "endorsed", FALSE)
                     ELSE Signing(d))
      /\ UNCHANGED <<config, saved, storage>>

\* Mutant: a record that cannot be parsed is an error, as in a read.
Endorse_NoRepair(a, d) ==
  LET sk == config[a].keystore.endorsement_key
  IN  /\ op[a].pc = "idle"
      /\ sk # None
      /\ Becomes(a, CASE sigs[d][sk] = "malformed" ->
                            Returned(d, "failed", FALSE)
                       [] sigs[d][sk] = "valid" ->
                            Returned(d, "endorsed", FALSE)
                       [] OTHER -> Signing(d))
      /\ UNCHANGED <<config, saved, storage>>

Endorse(a, d) ==
  LET sk == config[a].keystore.endorsement_key
  IN  /\ op[a].pc = "idle"
      /\ \/ /\ \/ sk = None
               \/ sk # None /\ sigs[d][sk] = "undecodable"
            /\ Becomes(a, Returned(d, "failed", FALSE))
         \/ /\ sk # None /\ sigs[d][sk] = "valid"
            /\ Becomes(a, Returned(d, "endorsed", FALSE))
         \/ /\ sk # None
            /\ sigs[d][sk] \notin {"valid", "undecodable"} \/ StorageErrors
            /\ Becomes(a, Signing(d))
      /\ UNCHANGED <<config, saved, storage>>

\* Mutant: an error of the storage is not passed on.
WriteEndorsement_ErrorIgnored(a) ==
  LET d == op[a].delta
  IN  /\ op[a].pc = "signing"
      /\ \/ sigs' = [sigs EXCEPT ![d][config[a].keystore.endorsement_key] = "valid"]
         \/ StorageErrors /\ UNCHANGED sigs
      /\ Becomes(a, Returned(d, "endorsed", FALSE))
      /\ UNCHANGED <<config, saved, deltas>>

WriteEndorsement(a) ==
  LET d == op[a].delta
  IN  /\ op[a].pc = "signing"
      /\ \/ /\ sigs' = [sigs EXCEPT ![d][config[a].keystore.endorsement_key] = "valid"]
            /\ Becomes(a, Returned(d, "endorsed", FALSE))
         \/ /\ StorageErrors
            /\ Becomes(a, Returned(d, "failed", FALSE))
            /\ UNCHANGED sigs
      /\ UNCHANGED <<config, saved, deltas>>

\* The caller takes the result.
Return(a) ==
  /\ op[a].pc = "returned"
  /\ op' = [op EXCEPT ![a] = Idle]
  /\ UNCHANGED <<config, saved, storage>>

\* write_object of a delta, by a commit or by a meld from another replica.
WriteObject(a, d) ==
  /\ op[a].pc = "idle"
  /\ MayWrite(config[a], d)
  /\ deltas' = deltas \cup {d}
  /\ UNCHANGED <<config, saved, sigs, op>>
-----------------------------------------------------------------------------
(***************************************************************************)
(* The environment of an operation: the owner of the adapter, which needs  *)
(* it exclusively, the process and the storage.                            *)
(***************************************************************************)
ConfigureAdapter(a) ==
  /\ op[a].pc = "idle"
  /\ Reconfigure(a)
  /\ UNCHANGED <<storage, op>>

\* A new process: the saved document, or a configuration built afresh.
Restarted(a) ==
  /\ config' \in {[config EXCEPT ![a] = c] :
                    c \in IF saved = None THEN Constructible(a)
                                          ELSE {FromJson(saved)}}
  /\ op' = [op EXCEPT ![a] = Idle]
  /\ UNCHANGED <<saved, deltas>>

Crash(a) == Restarted(a) /\ UNCHANGED sigs

CrashDuringWrite(a) ==
  /\ TornWrites
  /\ op[a].pc = "signing"
  /\ sigs' = [sigs EXCEPT
       ![op[a].delta][config[a].keystore.endorsement_key] = "malformed"]
  /\ Restarted(a)

\* Replication outside the adapters, as of synchronised folders.
DeltaArrives(d) ==
  /\ deltas' = deltas \cup {d}
  /\ UNCHANGED <<config, saved, sigs, op>>

RecordArrives(d, k) ==
  /\ sigs[d][k] = "absent"
  /\ \E s \in Arrivals : sigs' = [sigs EXCEPT ![d][k] = s]
  /\ UNCHANGED <<config, saved, deltas, op>>
-----------------------------------------------------------------------------
AdapterStep(a) ==
  \/ \E d \in Deltas : \/ ReadObjectAtOnce(a, d) \/ ReadObject(a, d)
                       \/ Endorse(a, d) \/ WriteObject(a, d)
  \/ \E k \in Keys : FetchRecord(a, k)
  \/ Decide(a)
  \/ WriteEndorsement(a)
  \/ Return(a)

Replicate ==
  \E d \in Deltas : DeltaArrives(d) \/ \E k \in RemoteKeys : RecordArrives(d, k)

Next ==
  \/ \E a \in Adapters : \/ AdapterStep(a) \/ ConfigureAdapter(a)
                         \/ Crash(a) \/ CrashDuringWrite(a)
  \/ Replicate

Spec == Init /\ [][Next]_vars

(***************************************************************************)
(* Fairness: a started read is carried on by its thread, and a result is   *)
(* taken.  The application keeps reading a delta and endorsing it, sets its*)
(* credentials again after a restart from the saved document, and a write  *)
(* that is attempted again and again is not torn every time.               *)
(***************************************************************************)
RestoreCredentials(a) ==
  /\ op[a].pc = "idle"
  /\ config[a].keystore.endorsement_key = None
  /\ \E sk \in SigningKeys[a] : SetEndorsementCredentials(a, sk, None)
  /\ UNCHANGED <<storage, op>>

Fairness ==
  \A a \in Adapters :
    /\ WF_vars(\E k \in Keys : FetchRecord(a, k))
    /\ WF_vars(Decide(a))
    /\ WF_vars(Return(a))
    /\ SF_vars(RestoreCredentials(a))
    /\ \A d \in Deltas :
         /\ SF_vars(ReadObject(a, d) \/ ReadObjectAtOnce(a, d))
         /\ SF_vars(Endorse(a, d))
         /\ SF_vars(op[a].delta = d /\ WriteEndorsement(a))

FairSpec == Spec /\ Fairness
-----------------------------------------------------------------------------
(***************************************************************************)
(* Properties                                                              *)
(***************************************************************************)

\* The valid records are the approvals of Governance.
approvedBar == {p \in Deltas \X Keys : sigs[p[1]][p[2]] = "valid"}

\* A read that has returned the data is a delivery.
deliveredBar == [a \in Adapters |-> IF op[a].result = "data" THEN op[a].delta ELSE None]

Gov == INSTANCE Governance WITH approved <- approvedBar, delivered <- deliveredBar

(***************************************************************************)
(* Every data a read hands out was approved: the interleaved reads, the    *)
(* endorsements, crashes and reconfigurations implement Governance, where a*)
(* delivery asks for a whole quorum of approvals at one instant, although  *)
(* the read collects them one by one.  It is about reads of whole deltas:  *)
(* lines 407-416 hand out a range of any delta unchecked.  (402-501)       *)
(***************************************************************************)
GovSpec == Gov!Spec

(***************************************************************************)
(* A read refuses a delta only when at one of its own steps the delta was  *)
(* in fact not readable: no interleaving of the listing and the reads of   *)
(* single records with other endorsements makes a delta that was readable  *)
(* throughout look unendorsed.  (fetch_endorsements, 270-302)              *)
(***************************************************************************)
NoSpuriousRefusal ==
  \A a \in Adapters : op[a].result = "refused" => op[a].doubted

(***************************************************************************)
(* When endorse returns Ok the record is in the storage and verifies, also *)
(* when it found a record it did not write in this call, or replaced a     *)
(* damaged one.  (304-340)                                                 *)
(***************************************************************************)
EndorseOkIsDurable ==
  \A a \in Adapters :
    op[a].result = "endorsed" =>
      sigs[op[a].delta][config[a].keystore.endorsement_key] = "valid"

(***************************************************************************)
(* The check before a write and the check before a read agree: in Single   *)
(* mode a stored delta that strict_write would let this adapter write, and *)
(* that its own trusted key endorsed, is readable by it (unless blacklisted*)
(* or with a damaged record).  (386-400 against 459-487)                   *)
(***************************************************************************)
OwnWriteIsReadable ==
  \A a \in Adapters, d \in deltas :
    LET c  == config[a]
        sk == c.keystore.endorsement_key
    IN  /\ c.endorsement_mode = "Single"
        /\ c.policy.strict_write /\ MayWrite(c, d)
        /\ IsTrusted(c.keystore, sk) /\ sigs[d][sk] = "valid"
        /\ ~ IsBlacklisted(c, d)
        /\ \A k \in Keys : sigs[d][k] \notin Unreadable
        => Readable(a, d)

(***************************************************************************)
(* A readable delta stays readable, whatever endorsements are added by     *)
(* whomever, as long as the configuration is the same and no record is     *)
(* damaged; in particular an endorsement by a key that is not trusted does *)
(* not unsettle the equality Unanimous tests.  (453, 482)                  *)
(***************************************************************************)
ReadableStaysReadable ==
  [][\A a \in Adapters, d \in Deltas :
       /\ Readable(a, d)
       /\ config'[a] = config[a]
       /\ \A k \in Keys : sigs'[d][k] \notin Unreadable
       => Readable(a, d)']_vars

(***************************************************************************)
(* A stored delta that the participants at work here suffice to approve is *)
(* eventually delivered to every adapter whose rules admit it, once crashes*)
(* other than during a write are over, although writes are torn again and  *)
(* again (endorse finds the torn record and writes it once more) and reads *)
(* race with them.  (304-340, 402-501)                                     *)
(***************************************************************************)
Approvable(a, d) ==
  LET signers == {config[b].keystore.endorsement_key : b \in Adapters}
      c       == config[a]
  IN  /\ d \in deltas
      /\ ~ IsBlacklisted(c, d)
      /\ EnoughEndorsers(c, d, signers \cap c.keystore.trusted_keys)

\* A result taken and a torn write over a torn record may look like a crash.
NoMoreCrashes ==
  <>[][\A a \in Adapters : Crash(a) => Return(a) \/ CrashDuringWrite(a)]_vars

ApprovedIsDelivered ==
  NoMoreCrashes =>
    \A a \in Adapters, d \in Deltas :
      Approvable(a, d) ~> (op[a].delta = d /\ op[a].result = "data")

(***************************************************************************)
(* "endorsements from any other participant are ignored" (README.md 86): a *)
(* read refuses only because the trusted records it has read do not suffice*)
(* or because a trusted key's record is damaged.                           *)
(***************************************************************************)
UntrustedRecordsIgnored ==
  [][\A a \in Adapters :
       op[a].pc = "fetching" /\ op'[a].result = "refused" =>
         LET d == op[a].delta
             c == config[a]
         IN  \/ \E k \in c.keystore.trusted_keys : sigs[d][k] \in Unreadable
             \/ ~ EnoughEndorsers(c, d, op[a].valid)]_vars

(***************************************************************************)
(* What the steps preserve together: a read has collected trusted keys with*)
(* valid records only, an answer still has the grounds it was given on, and, *)
(* where writes may be torn, a record is never written again once valid.   *)
(***************************************************************************)
OperationInv(a, o) ==
  LET c  == config[a]
      sk == c.keystore.endorsement_key
  IN  /\ o.pc = "fetching" =>
           /\ o.delta \in Deltas
           /\ ~ IsBlacklisted(c, o.delta)
           /\ o.valid \subseteq TrustedEndorsers(a, o.delta)
      /\ o.pc = "signing" =>
           /\ o.delta \in Deltas
           /\ sk # None
           /\ TornWrites => sigs[o.delta][sk] # "valid"
      /\ o.result = "data" =>
           /\ o.delta \in Deltas
           /\ ~ IsBlacklisted(c, o.delta)
           /\ \/ SkipsEndorsements(c, o.delta)
              \/ \E valid \in SUBSET TrustedEndorsers(a, o.delta) :
                   EnoughEndorsers(c, o.delta, valid)
      /\ o.result = "endorsed" =>
           /\ o.delta \in Deltas
           /\ sk # None
           /\ sigs[o.delta][sk] = "valid"
      /\ o.result # "pending" => o.pc = "returned"

Inv ==
  /\ TypeOK
  /\ \A a \in Adapters : /\ RolesAreTrusted(config[a].keystore)
                         /\ HoldsOwnKey(a)
                         /\ OperationInv(a, op[a])
=============================================================================
