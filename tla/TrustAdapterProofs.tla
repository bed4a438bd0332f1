------------------------- MODULE TrustAdapterProofs -------------------------
(***************************************************************************)
(* Proofs about TrustAdapter, for every value of its constants: the        *)
(* inductive invariant, that an endorsement reported as done is in the     *)
(* storage, that refusals are genuine, that what reads deliver implements  *)
(* Governance, and that what is readable stays readable.  The records only *)
(* grow better, because a record that is valid is never written by a step  *)
(* that could leave it torn.                                               *)
(***************************************************************************)
EXTENDS TrustAdapter, TrustConfigurationProofs

LEMMA InvConfig == Inv => ConfigInv
  BY DEF Inv, TypeOK, ConfigInv

LEMMA IdleIsOperation ==
  ASSUME NEW a
  PROVE  Idle \in Operation /\ OperationInv(a, Idle)
  BY DEF Idle, Operation, OperationInv

(***************************************************************************)
(* A valid record is never lost.  Where writes may be torn, the one writer *)
(* of a record writes it only while it is not valid.                       *)
(***************************************************************************)
LEMMA ValidRecordsStay ==
  ASSUME Inv, Next, NEW d \in Deltas, NEW k \in Keys, sigs[d][k] = "valid"
  PROVE  sigs'[d][k] = "valid"
<1> USE DEF Inv, TypeOK
<1>1. CASE UNCHANGED sigs
  BY <1>1
<1>2. CASE \E a \in Adapters : WriteEndorsement(a)
  <2>1. PICK x, y : UNCHANGED sigs \/ sigs' = [sigs EXCEPT ![x][y] = "valid"]
    BY <1>2 DEF WriteEndorsement
  <2>2. QED
    BY <2>1
<1>3. CASE \E a \in Adapters : CrashDuringWrite(a)
  <2>1. PICK a \in Adapters : CrashDuringWrite(a)
    BY <1>3
  <2>2. sigs[op[a].delta][config[a].keystore.endorsement_key] # "valid"
    BY <2>1 DEF CrashDuringWrite, OperationInv
  <2>3. sigs' = [sigs EXCEPT
          ![op[a].delta][config[a].keystore.endorsement_key] = "malformed"]
    BY <2>1 DEF CrashDuringWrite
  <2>4. QED
    BY <2>2, <2>3
<1>4. CASE \E x \in Deltas, y \in RemoteKeys : RecordArrives(x, y)
  <2>1. PICK x \in Deltas, y \in Keys, s \in SigState :
          sigs[x][y] = "absent" /\ sigs' = [sigs EXCEPT ![x][y] = s]
    BY <1>4, StorageAssumption DEF RecordArrives
  <2>2. QED
    BY <2>1
<1>5. QED
  BY <1>1, <1>2, <1>3, <1>4
     DEF Next, AdapterStep, Replicate, ReadObjectAtOnce, ReadObject, FetchRecord,
         Decide, Endorse, Return, WriteObject, ConfigureAdapter, Crash,
         DeltaArrives, storage

LEMMA SigsType ==
  ASSUME Inv, Next
  PROVE  sigs' \in [Deltas -> [Keys -> SigState]]
<1> USE DEF Inv, TypeOK, SigState
<1>1. CASE UNCHANGED sigs
  BY <1>1
<1>2. CASE \E a \in Adapters : WriteEndorsement(a) \/ CrashDuringWrite(a)
  <2>1. PICK a \in Adapters : WriteEndorsement(a) \/ CrashDuringWrite(a)
    BY <1>2
  <2>2. \/ UNCHANGED sigs
        \/ \E s \in SigState :
             sigs' = [sigs EXCEPT ![op[a].delta][config[a].keystore.endorsement_key] = s]
    BY <2>1 DEF WriteEndorsement, CrashDuringWrite
  <2>3. QED
    BY <2>2
<1>3. CASE \E x \in Deltas, y \in RemoteKeys : RecordArrives(x, y)
  <2>1. PICK x \in Deltas, y \in RemoteKeys, s \in SigState :
          sigs' = [sigs EXCEPT ![x][y] = s]
    BY <1>3, StorageAssumption DEF RecordArrives
  <2>2. QED
    BY <2>1
<1>4. QED
  BY <1>1, <1>2, <1>3
     DEF Next, AdapterStep, Replicate, ReadObjectAtOnce, ReadObject, FetchRecord,
         Decide, Endorse, Return, WriteObject, ConfigureAdapter, Crash,
         DeltaArrives, storage

(***************************************************************************)
(* Where writes may be torn, a record about to be written is not made valid*)
(* by anybody else: its key signs for one adapter only, and replication does *)
(* not bring it.                                                           *)
(***************************************************************************)
LEMMA NobodyElseWrites ==
  ASSUME Inv, Next, NEW a \in Adapters,
         config'[a] = config[a], op'[a] = op[a],
         TornWrites, op[a].pc = "signing"
  PROVE  sigs'[op[a].delta][config[a].keystore.endorsement_key] # "valid"
<1> DEFINE d  == op[a].delta
           sk == config[a].keystore.endorsement_key
<1>1. /\ d \in Deltas /\ sk # None /\ sigs[d][sk] # "valid"
      /\ sk \in SigningKeys[a]
  BY DEF Inv, OperationInv, HoldsOwnKey
<1> HIDE DEF d, sk
<1> USE DEF Inv, TypeOK
<1>2. CASE UNCHANGED sigs
  BY <1>1, <1>2 DEF d, sk
<1>3. CASE \E b \in Adapters : WriteEndorsement(b)
  <2>1. PICK b \in Adapters : WriteEndorsement(b)
    BY <1>3
  <2> DEFINE kb == config[b].keystore.endorsement_key
  <2>2. b # a
    <3>1. op[b].pc = "signing" /\ op'[b].pc = "returned"
      BY <2>1 DEF WriteEndorsement, Becomes, Returned
    <3>2. QED
      BY <3>1
  <2>3. kb \in SigningKeys[b]
    BY <2>1 DEF WriteEndorsement, OperationInv, HoldsOwnKey
  <2>4. kb # sk
    BY <1>1, <2>2, <2>3, TornWritesAssumption
  <2>5. PICK x, y : /\ y # sk
                    /\ UNCHANGED sigs \/ sigs' = [sigs EXCEPT ![x][y] = "valid"]
    BY <2>1, <2>4 DEF WriteEndorsement
  <2>6. sigs'[d][sk] # "valid"
    <3>1. CASE UNCHANGED sigs
      BY <1>1, <3>1
    <3>2. CASE sigs' = [sigs EXCEPT ![x][y] = "valid"]
      <4>1. sigs'[d][sk] = sigs[d][sk]
        BY <1>1, <2>5, <3>2
      <4>2. QED
        BY <1>1, <4>1
    <3>3. QED
      BY <2>5, <3>1, <3>2
  <2>7. QED
    BY <2>6 DEF d, sk
<1>4. CASE \E b \in Adapters : CrashDuringWrite(b)
  <2>1. PICK x, y : sigs' = [sigs EXCEPT ![x][y] = "malformed"]
    BY <1>4 DEF CrashDuringWrite
  <2>2. QED
    BY <1>1, <2>1 DEF d, sk
<1>5. CASE \E x \in Deltas, y \in RemoteKeys : RecordArrives(x, y)
  <2>1. PICK x \in Deltas, y \in RemoteKeys, s \in Arrivals : sigs' = [sigs EXCEPT ![x][y] = s]
    BY <1>5 DEF RecordArrives
  <2>2. y # sk
    BY <1>1, TornWritesAssumption
  <2>3. QED
    BY <1>1, <2>1, <2>2 DEF d, sk
<1>6. QED
  BY <1>2, <1>3, <1>4, <1>5
     DEF Next, AdapterStep, Replicate, ReadObjectAtOnce, ReadObject, FetchRecord,
         Decide, Endorse, Return, WriteObject, ConfigureAdapter, Crash,
         DeltaArrives, storage

(***************************************************************************)
(* The grounds of an operation survive any step of the others: valid records *)
(* stay, and a record about to be written is written by nobody else where  *)
(* writes may be torn.                                                     *)
(***************************************************************************)
LEMMA GroundsStay ==
  ASSUME Inv, Next, NEW a \in Adapters,
         config'[a] = config[a], op'[a] = op[a]
  PROVE  OperationInv(a, op[a])'
<1> DEFINE c == config[a]
           o == op[a]
<1>1. OperationInv(a, o) /\ o \in Operation /\ c \in Configuration
  BY DEF Inv, TypeOK, ConfigTypeOK
<1>2. \A d \in Deltas : TrustedEndorsers(a, d) \subseteq TrustedEndorsers(a, d)'
  BY ValidRecordsStay DEF TrustedEndorsers, Endorsers
<1>3. c.keystore.endorsement_key \in Keys \cup {None}
  BY <1>1 DEF Configuration, KeyStore
<1>4. o.pc = "fetching" => o.valid \subseteq TrustedEndorsers(a, o.delta)'
  BY <1>1, <1>2 DEF OperationInv
<1>5. o.result = "data" =>
        \/ SkipsEndorsements(c, o.delta)
        \/ \E valid \in SUBSET TrustedEndorsers(a, o.delta)' :
             EnoughEndorsers(c, o.delta, valid)
  <2> SUFFICES ASSUME o.result = "data", ~ SkipsEndorsements(c, o.delta)
               PROVE  \E valid \in SUBSET TrustedEndorsers(a, o.delta)' :
                        EnoughEndorsers(c, o.delta, valid)
    OBVIOUS
  <2>1. PICK valid \in SUBSET TrustedEndorsers(a, o.delta) :
          EnoughEndorsers(c, o.delta, valid)
    BY <1>1 DEF OperationInv
  <2>2. o.delta \in Deltas
    BY <1>1 DEF OperationInv
  <2>3. QED
    BY <1>2, <2>1, <2>2
<1>6. o.result = "endorsed" => sigs'[o.delta][c.keystore.endorsement_key] = "valid"
  BY <1>1, <1>3, ValidRecordsStay DEF OperationInv
<1>7. TornWrites /\ o.pc = "signing" => sigs'[o.delta][c.keystore.endorsement_key] # "valid"
  BY NobodyElseWrites
<1>8. QED
  BY <1>1, <1>4, <1>5, <1>6, <1>7 DEF OperationInv

(***************************************************************************)
(* A step that only moves one adapter's operation on.                      *)
(***************************************************************************)
LEMMA OperationMoves ==
  ASSUME Inv, NEW a \in Adapters, NEW o \in Operation, OperationInv(a, o),
         op' = [op EXCEPT ![a] = o],
         UNCHANGED <<config, saved, storage>>
  PROVE  Inv'
<1>1. ConfigTypeOK' /\ (deltas \subseteq Deltas)' /\ (sigs \in [Deltas -> [Keys -> SigState]])'
  BY DEF Inv, TypeOK, ConfigTypeOK, storage
<1>2. op' \in [Adapters -> Operation]
      /\ \A b \in Adapters : op'[b] = IF b = a THEN o ELSE op[b]
  BY DEF Inv, TypeOK
<1>3. \A b \in Adapters : OperationInv(b, op'[b])
  BY <1>2 DEF Inv
<1>4. QED
  BY <1>1, <1>2, <1>3 DEF Inv, TypeOK, HoldsOwnKey, OperationInv, TrustedEndorsers, Endorsers, storage

(***************************************************************************)
(* read_object preserves the invariant                                     *)
(***************************************************************************)
LEMMA ReadPreserves ==
  ASSUME Inv, NEW a \in Adapters,
         \/ \E d \in Deltas : ReadObjectAtOnce(a, d) \/ ReadObject(a, d)
         \/ \E k \in Keys : FetchRecord(a, k)
         \/ Decide(a)
  PROVE  Inv'
<1>1. /\ op[a] \in Operation /\ OperationInv(a, op[a])
      /\ op \in [Adapters -> Operation]
  BY DEF Inv, TypeOK
<1>2. CASE \E d \in Deltas : ReadObjectAtOnce(a, d)
  <2>1. PICK d \in Deltas : ReadObjectAtOnce(a, d)
    BY <1>2
  <2>2. CASE Becomes(a, Returned(d, "refused", ~ Readable(a, d)))
    <3> DEFINE o == Returned(d, "refused", ~ Readable(a, d))
    <3>1. o \in Operation /\ OperationInv(a, o)
      BY DEF Returned, Operation, OperationInv
    <3> HIDE DEF o
    <3>2. QED
      BY <2>1, <2>2, <3>1, OperationMoves DEF ReadObjectAtOnce, Becomes, o
  <2>3. CASE /\ ~ IsBlacklisted(config[a], d) /\ SkipsEndorsements(config[a], d)
             /\ Becomes(a, Returned(d, "data", FALSE))
    <3> DEFINE o == Returned(d, "data", FALSE)
    <3>1. o \in Operation /\ OperationInv(a, o)
      BY <2>3 DEF Returned, Operation, OperationInv
    <3> HIDE DEF o
    <3>2. QED
      BY <2>1, <2>3, <3>1, OperationMoves DEF ReadObjectAtOnce, Becomes, o
  <2>4. QED
    BY <2>1, <2>2, <2>3 DEF ReadObjectAtOnce
<1>3. CASE \E d \in Deltas : ReadObject(a, d)
  <2>1. PICK d \in Deltas : ReadObject(a, d)
    BY <1>3
  <2>2. PICK listed \in SUBSET Keys : Becomes(a, Fetching(d, listed, ~ Readable(a, d)))
    BY <2>1 DEF ReadObject, Recorded
  <2> DEFINE o == Fetching(d, listed, ~ Readable(a, d))
  <2>3. o \in Operation /\ OperationInv(a, o)
    BY <2>1 DEF Fetching, Operation, OperationInv, ReadObject
  <2> HIDE DEF o
  <2>4. QED
    BY <2>1, <2>2, <2>3, OperationMoves DEF ReadObject, Becomes, o
<1>4. CASE \E k \in Keys : FetchRecord(a, k)
  <2>1. PICK k \in Keys : FetchRecord(a, k)
    BY <1>4
  <2> DEFINE refusal == Returned(op[a].delta, "refused", Doubted(a))
  <2>2. CASE Becomes(a, refusal)
    <3>1. Doubted(a) \in BOOLEAN
      BY <1>1 DEF Doubted, Operation
    <3>2. refusal \in Operation /\ OperationInv(a, refusal)
      BY <1>1, <3>1 DEF Returned, Operation, OperationInv
    <3> HIDE DEF refusal
    <3>3. QED
      BY <2>1, <2>2, <3>2, OperationMoves DEF FetchRecord, Becomes
  <2>3. CASE ~ Becomes(a, refusal)
    <3> DEFINE more == IF sigs[op[a].delta][k] = "valid" /\ IsTrusted(config[a].keystore, k)
                       THEN op[a].valid \cup {k} ELSE op[a].valid
               o == [op[a] EXCEPT !.todo = op[a].todo \ {k}, !.valid = more,
                                  !.doubted = Doubted(a)]
    <3>1. op' = [op EXCEPT ![a] = o]
      BY <1>1, <2>1, <2>3 DEF FetchRecord
    <3>2. /\ op[a].pc = "fetching"
          /\ Doubted(a) \in BOOLEAN
          /\ more \subseteq Keys
      BY <1>1, <2>1 DEF FetchRecord, Doubted, Operation
    <3>3. more \subseteq TrustedEndorsers(a, op[a].delta)
      BY <1>1, <3>2 DEF OperationInv, TrustedEndorsers, Endorsers, IsTrusted
    <3> HIDE DEF more
    <3>4. /\ o \in Operation
          /\ o.pc = "fetching" /\ o.delta = op[a].delta
          /\ o.valid = more /\ o.result = op[a].result
      BY <1>1, <3>2 DEF Operation
    <3>5. OperationInv(a, o)
      BY <1>1, <3>2, <3>3, <3>4 DEF OperationInv
    <3> HIDE DEF o
    <3>6. QED
      BY <2>1, <3>1, <3>4, <3>5, OperationMoves DEF FetchRecord
  <2>4. QED
    BY <2>2, <2>3
<1>5. CASE Decide(a)
  <2> DEFINE answer == IF EnoughEndorsers(config[a], op[a].delta, op[a].valid)
                       THEN "data" ELSE "refused"
             o == Returned(op[a].delta, answer, Doubted(a))
  <2>1. op' = [op EXCEPT ![a] = o]
    BY <1>5 DEF Decide, Becomes
  <2>2. Doubted(a) \in BOOLEAN
    BY <1>1 DEF Doubted, Operation
  <2>3. o \in Operation
    BY <1>1, <2>2 DEF Returned, Operation
  <2>4. answer = "data" => EnoughEndorsers(config[a], op[a].delta, op[a].valid)
    OBVIOUS
  <2>5. answer \in {"data", "refused"}
    OBVIOUS
  <2> HIDE DEF answer
  <2>6. OperationInv(a, o)
    BY <1>1, <1>5, <2>4, <2>5 DEF Returned, OperationInv, Decide
  <2> HIDE DEF o
  <2>7. QED
    BY <1>5, <2>1, <2>3, <2>6, OperationMoves DEF Decide
<1>6. QED
  BY <1>2, <1>3, <1>4, <1>5

(***************************************************************************)
(* endorse and the return of a result preserve the invariant               *)
(***************************************************************************)
LEMMA EndorsePreserves ==
  ASSUME Inv, NEW a \in Adapters,
         (\E d \in Deltas : Endorse(a, d)) \/ Return(a)
  PROVE  Inv'
<1>1. CASE \E d \in Deltas : Endorse(a, d)
  <2>1. PICK d \in Deltas : Endorse(a, d)
    BY <1>1
  <2> DEFINE sk == config[a].keystore.endorsement_key
  <2>2. PICK o \in {Returned(d, "failed", FALSE), Returned(d, "endorsed", FALSE), Signing(d)} :
          /\ Becomes(a, o)
          /\ o = Returned(d, "endorsed", FALSE) => sk # None /\ sigs[d][sk] = "valid"
          /\ o = Signing(d) => sk # None /\ (sigs[d][sk] # "valid" \/ StorageErrors)
    BY <2>1 DEF Endorse, Returned, Signing
  <2>3. o \in Operation /\ OperationInv(a, o)
    <3>1. CASE o = Returned(d, "failed", FALSE)
      BY <3>1 DEF Returned, Operation, OperationInv
    <3>2. CASE o = Returned(d, "endorsed", FALSE)
      BY <2>2, <3>2 DEF Returned, Operation, OperationInv
    <3>3. CASE o = Signing(d)
      BY <2>2, <3>3, TornWritesAssumption DEF Signing, Operation, OperationInv
    <3>4. QED
      BY <2>2, <3>1, <3>2, <3>3
  <2>4. QED
    BY <2>1, <2>2, <2>3, OperationMoves DEF Endorse, Becomes
<1>2. CASE Return(a)
  BY <1>2, IdleIsOperation, OperationMoves DEF Return
<1>3. QED
  BY <1>1, <1>2

(***************************************************************************)
(* For the other steps it suffices to look at the adapters they concern.   *)
(***************************************************************************)
LEMMA StepPreserves ==
  ASSUME Inv, Next, ConfigInv', (deltas \subseteq Deltas)',
         op' \in [Adapters -> Operation],
         \A a \in Adapters :
           \/ config'[a] = config[a] /\ op'[a] = op[a]
           \/ HoldsOwnKey(a)' /\ OperationInv(a, op[a])'
  PROVE  Inv'
<1>1. \A a \in Adapters : HoldsOwnKey(a)' /\ OperationInv(a, op[a])'
  BY GroundsStay DEF Inv, HoldsOwnKey
<1>2. QED
  BY <1>1, SigsType DEF Inv, TypeOK, ConfigInv

LEMMA RestartPreserves ==
  ASSUME Inv, Next, NEW a \in Adapters, Restarted(a)
  PROVE  Inv'
<1>1. ConfigInv
  BY InvConfig
<1>2. PICK c : /\ WellFormed(c)
               /\ c.keystore.endorsement_key \in SigningKeys[a] \cup {None}
               /\ config' = [config EXCEPT ![a] = c]
  <2>1. CASE saved = None
    <3>1. PICK c \in Constructible(a) : config' = [config EXCEPT ![a] = c]
      BY <2>1 DEF Restarted
    <3>2. QED
      BY <3>1, ChoicesAssumption DEF Constructible, WellFormed
  <2>2. CASE saved # None
    <3>1. saved \in ConfigurationJson
      BY <1>1, <2>2 DEF ConfigInv, ConfigTypeOK
    <3>2. config' = [config EXCEPT ![a] = FromJson(saved)]
      BY <2>2 DEF Restarted
    <3>3. QED
      BY <3>1, <3>2, ConfigurationOfDocument
  <2>3. QED
    BY <2>1, <2>2
<1>3. ConfigInv'
  BY <1>1, <1>2, OneAdapterChanges DEF ConfigInv, ConfigTypeOK, Restarted
<1>4. /\ \A b \in Adapters : config'[b] = IF b = a THEN c ELSE config[b]
      /\ \A b \in Adapters : op'[b] = IF b = a THEN Idle ELSE op[b]
      /\ op' \in [Adapters -> Operation]
      /\ (deltas \subseteq Deltas)'
  BY <1>2, IdleIsOperation DEF Restarted, Inv, TypeOK, ConfigTypeOK
<1>5. HoldsOwnKey(a)' /\ OperationInv(a, op[a])'
  BY <1>2, <1>4 DEF HoldsOwnKey, OperationInv, Idle
<1>6. QED
  BY <1>3, <1>4, <1>5, StepPreserves

LEMMA WritePreserves ==
  ASSUME Inv, Next, NEW a \in Adapters, WriteEndorsement(a)
  PROVE  Inv'
<1> DEFINE d  == op[a].delta
           sk == config[a].keystore.endorsement_key
<1>1. /\ d \in Deltas /\ sk \in Keys
      /\ sigs \in [Deltas -> [Keys -> SigState]]
  BY DEF WriteEndorsement, Inv, OperationInv, TypeOK, ConfigTypeOK, Configuration, KeyStore
<1>2. PICK result \in {"endorsed", "failed"} :
        /\ op' = [op EXCEPT ![a] = Returned(d, result, FALSE)]
        /\ result = "endorsed" => sigs' = [sigs EXCEPT ![d][sk] = "valid"]
  BY DEF WriteEndorsement, Becomes
<1>3. result = "endorsed" => sigs'[d][sk] = "valid"
  BY <1>1, <1>2
<1>4. /\ ConfigInv'
      /\ (deltas \subseteq Deltas)'
      /\ UNCHANGED config
  BY InvConfig DEF WriteEndorsement, ConfigInv, ConfigTypeOK, Inv, TypeOK
<1> DEFINE o == Returned(d, result, FALSE)
<1>5. o \in Operation
  BY <1>1 DEF Returned, Operation
<1>6. /\ \A b \in Adapters : op'[b] = IF b = a THEN o ELSE op[b]
      /\ op' \in [Adapters -> Operation]
  BY <1>2, <1>5 DEF Inv, TypeOK
<1>7. /\ op'[a] = o /\ config'[a] = config[a]
      /\ o.pc = "returned" /\ o.delta = d /\ o.result = result
  BY <1>4, <1>6 DEF Returned
<1> HIDE DEF o
<1>8. OperationInv(a, op[a])' /\ HoldsOwnKey(a)'
  <2>1. sk # None /\ HoldsOwnKey(a)
    BY <1>1, KeysAssumption DEF Inv
  <2>2. QED
    BY <1>1, <1>2, <1>3, <1>7, <2>1 DEF OperationInv, HoldsOwnKey
<1>9. QED
  BY <1>4, <1>6, <1>8, StepPreserves

(***************************************************************************)
(* Every step preserves the invariant.                                     *)
(***************************************************************************)
LEMMA NextPreserves == Inv /\ [Next]_vars => Inv'
<1> SUFFICES ASSUME Inv, [Next]_vars PROVE Inv'
  OBVIOUS
<1>1. ConfigInv
  BY InvConfig
<1>2. ASSUME Next, UNCHANGED <<config, saved, op>>, (deltas \subseteq Deltas)'
      PROVE  Inv'
  BY <1>1, <1>2, StepPreserves DEF Inv, TypeOK, ConfigInv, ConfigTypeOK
<1>3. ASSUME NEW a \in Adapters, AdapterStep(a) PROVE Inv'
  <2>1. CASE \/ \E d \in Deltas : ReadObjectAtOnce(a, d) \/ ReadObject(a, d)
             \/ \E k \in Keys : FetchRecord(a, k)
             \/ Decide(a)
    BY <2>1, ReadPreserves
  <2>2. CASE (\E d \in Deltas : Endorse(a, d)) \/ Return(a)
    BY <2>2, EndorsePreserves
  <2>3. CASE WriteEndorsement(a)
    BY <1>3, <2>3, WritePreserves DEF Next
  <2>4. CASE \E d \in Deltas : WriteObject(a, d)
    BY <1>2, <1>3, <2>4 DEF Next, WriteObject, Inv, TypeOK
  <2>5. QED
    BY <1>3, <2>1, <2>2, <2>3, <2>4 DEF AdapterStep
<1>4. ASSUME NEW a \in Adapters, ConfigureAdapter(a) PROVE Inv'
  <2>1. Next /\ Reconfigure(a) /\ op[a].pc = "idle" /\ HoldsOwnKey(a)
    BY <1>4 DEF Next, ConfigureAdapter, Inv
  <2>2. /\ ConfigInv'
        /\ \A b \in Adapters \ {a} : config'[b] = config[b]
        /\ HoldsOwnKey(a)'
    BY <1>1, <2>1, ReconfigurePreserves, ReconfigureIsLocal
  <2>3. UNCHANGED <<op, deltas>>
    BY <1>4 DEF ConfigureAdapter, storage
  <2>4. OperationInv(a, op[a])'
    BY <2>1, <2>3 DEF Inv, OperationInv
  <2>5. QED
    BY <2>1, <2>2, <2>3, <2>4, StepPreserves DEF Inv, TypeOK
<1>5. ASSUME NEW a \in Adapters, Crash(a) \/ CrashDuringWrite(a) PROVE Inv'
  BY <1>5, RestartPreserves DEF Next, Crash, CrashDuringWrite
<1>6. CASE Replicate
  BY <1>2, <1>6 DEF Next, Replicate, DeltaArrives, RecordArrives, Inv, TypeOK
<1>7. CASE UNCHANGED vars
  BY <1>7 DEF vars, Inv, TypeOK, ConfigTypeOK, HoldsOwnKey, OperationInv,
              TrustedEndorsers, Endorsers
<1>8. QED
  BY <1>3, <1>4, <1>5, <1>6, <1>7 DEF Next

LEMMA InitialState == Init => Inv
<1> SUFFICES ASSUME Init PROVE Inv
  OBVIOUS
<1>1. ConfigInv
  BY InitialConfiguration DEF Init
<1>2. \A a \in Adapters : HoldsOwnKey(a)
  BY DEF Init, ConfigInit, Constructible, HoldsOwnKey
<1>3. TypeOK
  BY <1>1, IdleIsOperation DEF Init, TypeOK, ConfigInv, SigState
<1>4. \A a \in Adapters : OperationInv(a, op[a])
  BY IdleIsOperation DEF Init
<1>5. QED
  BY <1>1, <1>2, <1>3, <1>4 DEF Inv, ConfigInv

(***************************************************************************)
(* The invariant holds for any number of adapters and keys, any policy, and*)
(* whatever arrives in the storage: types, and for each operation its      *)
(* grounds.                                                                *)
(***************************************************************************)
THEOREM Invariant == Spec => []Inv
<1>1. QED
  BY InitialState, NextPreserves, PTL DEF Spec

(***************************************************************************)
(* An endorsement reported as done is in the storage and verifies.         *)
(***************************************************************************)
THEOREM EndorseIsDurable == Spec => []EndorseOkIsDurable
<1>1. Inv => EndorseOkIsDurable
  BY DEF Inv, OperationInv, EndorseOkIsDurable
<1>2. QED
  BY <1>1, Invariant, PTL
-----------------------------------------------------------------------------
(***************************************************************************)
(* Refusals.  A read that was never in doubt still has a witness: trusted  *)
(* keys with valid records, enough for the delta, each of them read already*)
(* or still to be read.                                                    *)
(***************************************************************************)
Witnesses(a, o) ==
  {W \in SUBSET ((o.valid \cup o.todo) \cap TrustedEndorsers(a, o.delta)) :
     EnoughEndorsers(config[a], o.delta, W)}

RefusalInv(a, o) ==
  /\ o.pc = "fetching" =>
       /\ ~ SkipsEndorsements(config[a], o.delta)
       /\ o.doubted \/ Witnesses(a, o) # {}
  /\ o.result = "refused" => o.doubted

LEMMA WitnessesStay ==
  ASSUME Inv, Next, NEW a \in Adapters, RefusalInv(a, op[a]),
         config'[a] = config[a], op'[a] = op[a]
  PROVE  RefusalInv(a, op[a])'
<1>1. CASE op[a].pc = "fetching"
  <2>1. op[a].delta \in Deltas
    BY <1>1 DEF Inv, OperationInv
  <2>2. TrustedEndorsers(a, op[a].delta) \subseteq TrustedEndorsers(a, op[a].delta)'
    BY <2>1, ValidRecordsStay DEF TrustedEndorsers, Endorsers
  <2>3. Witnesses(a, op[a]) \subseteq Witnesses(a, op[a])'
    BY <2>2 DEF Witnesses
  <2>4. QED
    BY <2>3 DEF RefusalInv
<1>2. CASE op[a].pc # "fetching"
  BY <1>2 DEF RefusalInv
<1>3. QED
  BY <1>1, <1>2

\* A step of one operation that ends in a state with its reasons.
LEMMA ReasonsOfMove ==
  ASSUME Inv, NEW a \in Adapters, NEW o, RefusalInv(a, o),
         \A b \in Adapters : RefusalInv(b, op[b]),
         op' = [op EXCEPT ![a] = o],
         UNCHANGED <<config, saved, storage>>
  PROVE  (\A b \in Adapters : RefusalInv(b, op[b]))'
<1>1. \A b \in Adapters : op'[b] = IF b = a THEN o ELSE op[b]
  BY DEF Inv, TypeOK
<1>2. \A b \in Adapters : RefusalInv(b, op'[b])
  BY <1>1
<1>3. QED
  BY <1>2 DEF RefusalInv, Witnesses, TrustedEndorsers, Endorsers, storage

LEMMA ReadsHaveReasons ==
  ASSUME Inv, ~ StorageErrors, NEW a \in Adapters,
         \A b \in Adapters : RefusalInv(b, op[b]),
         \/ \E d \in Deltas : ReadObjectAtOnce(a, d) \/ ReadObject(a, d)
         \/ \E k \in Keys : FetchRecord(a, k)
         \/ Decide(a)
  PROVE  (\A b \in Adapters : RefusalInv(b, op[b]))'
<1>1. /\ op[a] \in Operation /\ OperationInv(a, op[a]) /\ RefusalInv(a, op[a])
      /\ config[a] \in Configuration
      /\ op \in [Adapters -> Operation]
  BY DEF Inv, TypeOK, ConfigTypeOK
<1>2. ASSUME NEW d \in Deltas, ReadObjectAtOnce(a, d)
      PROVE  (\A b \in Adapters : RefusalInv(b, op[b]))'
  <2>1. PICK o \in {Returned(d, "refused", ~ Readable(a, d)), Returned(d, "data", FALSE)} :
          /\ Becomes(a, o)
          /\ o = Returned(d, "refused", ~ Readable(a, d)) => ~ Readable(a, d)
    BY <1>2 DEF ReadObjectAtOnce, Readable, Returned
  <2>2. RefusalInv(a, o)
    <3>1. CASE o = Returned(d, "refused", ~ Readable(a, d))
      BY <3>1, <2>1 DEF RefusalInv, Returned
    <3>2. CASE o = Returned(d, "data", FALSE)
      BY <3>2 DEF RefusalInv, Returned
    <3>3. QED
      BY <3>1, <3>2, <2>1
  <2>3. QED
    BY <1>2, <2>1, <2>2, ReasonsOfMove DEF ReadObjectAtOnce, Becomes
<1>3. ASSUME NEW d \in Deltas, ReadObject(a, d)
      PROVE  (\A b \in Adapters : RefusalInv(b, op[b]))'
  <2> DEFINE o == Fetching(d, Recorded(d), ~ Readable(a, d))
  <2>1. Becomes(a, o) /\ ~ SkipsEndorsements(config[a], d)
    BY <1>3 DEF ReadObject
  <2>2. Readable(a, d) => TrustedEndorsers(a, d) \in Witnesses(a, o)
    <3>1. TrustedEndorsers(a, d) \subseteq Recorded(d)
      BY DEF TrustedEndorsers, Endorsers, Recorded
    <3>2. Readable(a, d) => EnoughEndorsers(config[a], d, TrustedEndorsers(a, d))
      BY <2>1 DEF Readable
    <3>3. QED
      BY <3>1, <3>2 DEF Witnesses, Fetching
  <2>3. o.doubted = ~ Readable(a, d) /\ o.delta = d /\ o.result = "pending"
    BY DEF Fetching
  <2> HIDE DEF o
  <2>4. RefusalInv(a, o)
    BY <2>1, <2>2, <2>3 DEF RefusalInv
  <2>5. QED
    BY <1>3, <2>1, <2>4, ReasonsOfMove DEF ReadObject, Becomes
<1>4. ASSUME NEW k \in Keys, FetchRecord(a, k)
      PROVE  (\A b \in Adapters : RefusalInv(b, op[b]))'
  <2> DEFINE d == op[a].delta
             refusal == Returned(d, "refused", Doubted(a))
  <2>1. /\ op[a].pc = "fetching" /\ ~ SkipsEndorsements(config[a], d)
        /\ op[a].result # "refused" \/ op[a].doubted
    BY <1>1, <1>4 DEF FetchRecord, RefusalInv
  <2>2. CASE sigs[d][k] \in Unreadable
    <3>1. Becomes(a, refusal)
      BY <1>4, <2>2 DEF FetchRecord
    <3>2. Doubted(a)
      BY <2>1, <2>2 DEF Doubted, Readable
    <3>3. RefusalInv(a, refusal)
      BY <3>2 DEF RefusalInv, Returned
    <3> HIDE DEF refusal
    <3>4. QED
      BY <1>4, <3>1, <3>3, ReasonsOfMove DEF FetchRecord, Becomes
  <2>3. CASE sigs[d][k] \notin Unreadable
    <3> DEFINE more == IF sigs[d][k] = "valid" /\ IsTrusted(config[a].keystore, k)
                       THEN op[a].valid \cup {k} ELSE op[a].valid
               o == [op[a] EXCEPT !.todo = op[a].todo \ {k}, !.valid = more,
                                  !.doubted = Doubted(a)]
    <3>1. op' = [op EXCEPT ![a] = o]
      BY <1>1, <1>4, <2>3 DEF FetchRecord
    <3>2. \A W \in Witnesses(a, op[a]) :
             W \subseteq (more \cup (op[a].todo \ {k})) \cap TrustedEndorsers(a, d)
      BY DEF Witnesses, TrustedEndorsers, Endorsers, IsTrusted
    <3>3. op[a].doubted => Doubted(a)
      BY DEF Doubted
    <3> HIDE DEF more
    <3>4. /\ o.pc = op[a].pc /\ o.delta = d /\ o.result = op[a].result
          /\ o.valid = more /\ o.todo = op[a].todo \ {k}
          /\ o.doubted = Doubted(a)
      BY <1>1 DEF Operation
    <3> HIDE DEF o
    <3>5. Witnesses(a, op[a]) \subseteq Witnesses(a, o)
      BY <3>2, <3>4 DEF Witnesses
    <3>6. RefusalInv(a, o)
      BY <1>1, <2>1, <3>3, <3>4, <3>5 DEF RefusalInv
    <3>7. QED
      BY <1>4, <3>1, <3>6, ReasonsOfMove DEF FetchRecord
  <2>4. QED
    BY <2>2, <2>3
<1>5. CASE Decide(a)
  <2> DEFINE d == op[a].delta
             enough == EnoughEndorsers(config[a], d, op[a].valid)
             answer == IF enough THEN "data" ELSE "refused"
             o == Returned(d, answer, Doubted(a))
  <2>1. /\ op' = [op EXCEPT ![a] = o]
        /\ op[a].pc = "fetching" /\ op[a].todo = {}
    BY <1>5 DEF Decide, Becomes
  <2>2. ASSUME NEW W \in Witnesses(a, op[a]) PROVE enough
    <3>1. /\ W \in SUBSET op[a].valid
          /\ EnoughEndorsers(config[a], d, W)
      BY <2>1 DEF Witnesses
    <3>2. op[a].valid \in SUBSET config[a].keystore.trusted_keys
      BY <1>1, <2>1 DEF OperationInv, TrustedEndorsers
    <3>3. QED
      BY <1>1, <3>1, <3>2, MoreEndorsersAreEnough
  <2>3. enough \/ op[a].doubted
    BY <1>1, <2>1, <2>2 DEF RefusalInv
  <2>4. o.pc = "returned" /\ o.result = answer /\ o.doubted = Doubted(a)
    BY DEF Returned
  <2>5. answer = "refused" => Doubted(a)
    BY <2>3 DEF Doubted
  <2> HIDE DEF o, answer, enough
  <2>6. RefusalInv(a, o)
    BY <2>4, <2>5 DEF RefusalInv
  <2>7. QED
    BY <1>5, <2>1, <2>6, ReasonsOfMove DEF Decide
<1>6. QED
  BY <1>2, <1>3, <1>4, <1>5

\* What the other steps make of an operation is neither a read nor a refusal.
LEMMA OthersHaveReasons ==
  ASSUME Inv, Next, NEW a \in Adapters,
         (\E d \in Deltas : Endorse(a, d)) \/ Return(a) \/ WriteEndorsement(a)
         \/ Crash(a) \/ CrashDuringWrite(a)
  PROVE  /\ RefusalInv(a, op[a])'
         /\ \A b \in Adapters \ {a} : config'[b] = config[b] /\ op'[b] = op[b]
<1> DEFINE quiet == [pc : {"idle", "signing", "returned"}, delta : Deltas \cup {None},
                     todo : SUBSET Keys, valid : SUBSET Keys,
                     result : {"pending", "endorsed", "failed"}, doubted : BOOLEAN]
<1>1. /\ op \in [Adapters -> Operation] /\ config \in [Adapters -> Configuration]
      /\ op[a].pc = "signing" => op[a].delta \in Deltas
  BY DEF Inv, TypeOK, ConfigTypeOK, OperationInv
<1>2. \E o \in quiet : op' = [op EXCEPT ![a] = o]
  <2>1. CASE \E d \in Deltas : Endorse(a, d)
    <3>1. PICK d \in Deltas : Endorse(a, d)
      BY <2>1
    <3>2. PICK o \in {Returned(d, "failed", FALSE), Returned(d, "endorsed", FALSE), Signing(d)} :
            Becomes(a, o)
      BY <3>1 DEF Endorse
    <3>3. o \in quiet
      <4>1. CASE o = Returned(d, "failed", FALSE)
        BY <4>1 DEF Returned
      <4>2. CASE o = Returned(d, "endorsed", FALSE)
        BY <4>2 DEF Returned
      <4>3. CASE o = Signing(d)
        BY <4>3 DEF Signing
      <4>4. QED
        BY <4>1, <4>2, <4>3, <3>2
    <3>4. QED
      BY <3>2, <3>3 DEF Becomes
  <2>2. CASE WriteEndorsement(a)
    <3>1. PICK result \in {"endorsed", "failed"} :
            op' = [op EXCEPT ![a] = Returned(op[a].delta, result, FALSE)]
      BY <2>2 DEF WriteEndorsement, Becomes
    <3>2. Returned(op[a].delta, result, FALSE) \in quiet
      BY <1>1, <2>2 DEF Returned, WriteEndorsement
    <3>3. QED
      BY <3>1, <3>2
  <2>3. CASE Return(a) \/ Crash(a) \/ CrashDuringWrite(a)
    <3>1. op' = [op EXCEPT ![a] = Idle]
      BY <2>3 DEF Return, Crash, CrashDuringWrite, Restarted
    <3>2. Idle \in quiet
      BY DEF Idle
    <3>3. QED
      BY <3>1, <3>2
  <2>4. QED
    BY <2>1, <2>2, <2>3
<1>3. op'[a] \in quiet /\ \A b \in Adapters \ {a} : op'[b] = op[b]
  BY <1>1, <1>2
<1>4. \E c : config' = [config EXCEPT ![a] = c]
  <2>1. CASE UNCHANGED config
    <3>1. config' = [config EXCEPT ![a] = config[a]]
      BY <1>1, <2>1
    <3>2. QED
      BY <3>1
  <2>2. CASE Restarted(a)
    BY <2>2 DEF Restarted
  <2>3. QED
    BY <2>1, <2>2 DEF Endorse, Return, WriteEndorsement, Crash, CrashDuringWrite
<1>5. \A b \in Adapters \ {a} : config'[b] = config[b]
  BY <1>1, <1>4
<1>6. QED
  BY <1>3, <1>5 DEF RefusalInv

LEMMA RefusalsHaveReasons ==
  ASSUME ~ StorageErrors
  PROVE  Inv /\ (\A a \in Adapters : RefusalInv(a, op[a])) /\ [Next]_vars
           => (\A a \in Adapters : RefusalInv(a, op[a]))'
<1> SUFFICES ASSUME Inv, \A a \in Adapters : RefusalInv(a, op[a]), [Next]_vars
             PROVE  (\A a \in Adapters : RefusalInv(a, op[a]))'
  OBVIOUS
<1>1. ASSUME Next, UNCHANGED <<config, op>>
      PROVE  (\A a \in Adapters : RefusalInv(a, op[a]))'
  BY <1>1, WitnessesStay
<1>2. ASSUME NEW a \in Adapters, AdapterStep(a) \/ Crash(a) \/ CrashDuringWrite(a)
      PROVE  (\A b \in Adapters : RefusalInv(b, op[b]))'
  <2>1. Next
    BY <1>2 DEF Next
  <2>2. CASE \/ \E d \in Deltas : ReadObjectAtOnce(a, d) \/ ReadObject(a, d)
             \/ \E k \in Keys : FetchRecord(a, k)
             \/ Decide(a)
    BY <2>2, ReadsHaveReasons
  <2>3. CASE (\E d \in Deltas : Endorse(a, d)) \/ Return(a) \/ WriteEndorsement(a)
             \/ Crash(a) \/ CrashDuringWrite(a)
    BY <2>1, <2>3, OthersHaveReasons, WitnessesStay
  <2>4. CASE \E d \in Deltas : WriteObject(a, d)
    BY <1>1, <2>1, <2>4 DEF WriteObject
  <2>5. QED
    BY <1>2, <2>2, <2>3, <2>4 DEF AdapterStep
<1>3. ASSUME NEW a \in Adapters, ConfigureAdapter(a)
      PROVE  (\A b \in Adapters : RefusalInv(b, op[b]))'
  <2>1. ConfigInv /\ Reconfigure(a) /\ HoldsOwnKey(a) /\ op[a].pc = "idle" /\ UNCHANGED op
    BY <1>3, InvConfig DEF ConfigureAdapter, Inv
  <2>2. \A b \in Adapters \ {a} : config'[b] = config[b]
    BY <2>1, ReconfigureIsLocal
  <2>3. RefusalInv(a, op[a])'
    BY <2>1 DEF RefusalInv
  <2>4. Next
    BY <1>3 DEF Next
  <2>5. QED
    BY <2>1, <2>2, <2>3, <2>4, WitnessesStay
<1>4. CASE Replicate
  BY <1>1, <1>4 DEF Next, Replicate, DeltaArrives, RecordArrives
<1>5. CASE UNCHANGED vars
  BY <1>5 DEF vars, RefusalInv, Witnesses, TrustedEndorsers, Endorsers
<1>6. QED
  BY <1>2, <1>3, <1>4, <1>5 DEF Next

(***************************************************************************)
(* On a storage that does not fail, a read refuses a delta only if it was  *)
(* not readable at one of the read's own steps, for any number of adapters,*)
(* keys and records arriving and being torn meanwhile.                     *)
(***************************************************************************)
THEOREM RefusalsAreGenuine ==
  ASSUME ~ StorageErrors
  PROVE  Spec => []NoSpuriousRefusal
<1>1. Init => \A a \in Adapters : RefusalInv(a, op[a])
  BY DEF Init, Idle, RefusalInv
<1>2. Inv /\ (\A a \in Adapters : RefusalInv(a, op[a])) /\ [Next]_vars
        => (\A a \in Adapters : RefusalInv(a, op[a]))'
  BY RefusalsHaveReasons
<1>3. (\A a \in Adapters : RefusalInv(a, op[a])) => NoSpuriousRefusal
  BY DEF RefusalInv, NoSpuriousRefusal
<1>4. QED
  BY <1>1, <1>2, <1>3, Invariant, PTL DEF Spec
-----------------------------------------------------------------------------
(***************************************************************************)
(* The counts the code compares are a quorum of Governance.                *)
(***************************************************************************)
LEMMA EnoughIsQuorum ==
  ASSUME NEW c \in Configuration, NEW ks \in SUBSET c.keystore.trusted_keys,
         Enough(c.endorsement_mode, Cardinality(ks),
                Cardinality(c.keystore.trusted_keys))
  PROVE  Gov!IsQuorum(c, ks)
<1>1. c.endorsement_mode \in EndorsementMode
  BY DEF Configuration
<1>2. \A S : Gov!Cardinality(S) = Cardinality(S)
  BY DEF Gov!Cardinality, Cardinality
<1>3. QED
  BY <1>1, <1>2, CountsAreQuorums DEF Gov!IsQuorum, EndorsementMode
-----------------------------------------------------------------------------
(***************************************************************************)
(* Refinement: an answer with its grounds is a visible delta.              *)
(***************************************************************************)
LEMMA GroundsMakeVisible ==
  ASSUME NEW a \in Adapters, config[a] \in Configuration,
         NEW o, o.result = "data", OperationInv(a, o)
  PROVE  Gov!Visible(config[a], o.delta)
<1> DEFINE c == config[a]
           d == o.delta
<1>1. d \in Deltas /\ d \notin c.delta_filter.blacklist
  BY DEF OperationInv, IsBlacklisted
<1>2. CASE SkipsEndorsements(c, d)
  BY <1>1, <1>2 DEF Gov!Visible, Gov!SkipsEndorsements, SkipsEndorsements
<1>3. CASE ~ SkipsEndorsements(c, d)
  <2>1. PICK valid \in SUBSET TrustedEndorsers(a, d) : EnoughEndorsers(c, d, valid)
    BY <1>3 DEF OperationInv
  <2> DEFINE quorum == AllowedEndorsers(c, d, valid)
  <2>2. quorum \in SUBSET c.keystore.trusted_keys
    BY DEF AllowedEndorsers, TrustedEndorsers
  <2>3. Gov!IsQuorum(c, quorum)
    BY <2>1, <2>2, EnoughIsQuorum DEF EnoughEndorsers
  <2>4. ASSUME NEW k \in quorum
        PROVE  <<d, k>> \in approvedBar /\ Gov!MayApprove(c, k, d)
    <3>1. k \in Keys /\ sigs[d][k] = "valid"
      BY DEF AllowedEndorsers, TrustedEndorsers, Endorsers
    <3>2. <<d, k>> \in approvedBar
      BY <1>1, <3>1 DEF approvedBar
    <3>3. MayApprove(c, k, d)
      BY DEF AllowedEndorsers
    <3>4. QED
      BY <3>2, <3>3
         DEF MayApprove, ChangedObjects, Allows, MatchRule,
             Gov!MayApprove, Gov!ChangedObjects, Gov!Allows, Gov!MatchRule
  <2> HIDE DEF quorum
  <2>5. QED
    BY <1>1, <2>2, <2>3, <2>4 DEF Gov!Visible
<1>4. QED
  BY <1>2, <1>3

LEMMA DeliveredBar ==
  ASSUME NEW a \in Adapters, NEW o, op \in [Adapters -> Operation],
         op' = [op EXCEPT ![a] = o]
  PROVE  deliveredBar' =
           [deliveredBar EXCEPT ![a] = IF o.result = "data" THEN o.delta ELSE None]
  BY DEF deliveredBar

(***************************************************************************)
(* A step of one operation withdraws what it delivered, or delivers.       *)
(***************************************************************************)
LEMMA OperationRefines ==
  ASSUME Inv, Inv', NEW a \in Adapters, NEW o, op' = [op EXCEPT ![a] = o],
         UNCHANGED <<config, saved, storage>>
  PROVE  Gov!Next
<1>1. config[a] \in Configuration /\ op \in [Adapters -> Operation]
  BY DEF Inv, TypeOK, ConfigTypeOK
<1>2. deliveredBar' = [deliveredBar EXCEPT ![a] = IF o.result = "data" THEN o.delta ELSE None]
  BY <1>1, DeliveredBar
<1>3. UNCHANGED <<config, approvedBar>>
  BY DEF storage, approvedBar
<1>4. CASE o.result = "data"
  <2>1. op'[a] = o /\ OperationInv(a, op[a])'
    BY <1>1 DEF Inv
  <2>2. OperationInv(a, o)
    BY <2>1 DEF OperationInv, TrustedEndorsers, Endorsers, storage
  <2>3. Gov!Visible(config[a], o.delta) /\ o.delta \in Deltas
    BY <1>1, <1>4, <2>2, GroundsMakeVisible DEF OperationInv
  <2>4. QED
    BY <1>2, <1>3, <1>4, <2>3 DEF Gov!Next, Gov!Deliver
<1>5. CASE o.result # "data"
  BY <1>2, <1>3, <1>5 DEF Gov!Next, Gov!Withdraw
<1>6. QED
  BY <1>4, <1>5

(***************************************************************************)
(* A change of an idle adapter, or of one that starts anew, is an Adopt.   *)
(***************************************************************************)
LEMMA ChangeRefines ==
  ASSUME Inv, Inv', NEW a \in Adapters,
         \A b \in Adapters \ {a} : config'[b] = config[b],
         op' = [op EXCEPT ![a] = Idle],
         UNCHANGED approvedBar
  PROVE  Gov!Next
<1>1. op \in [Adapters -> Operation] /\ config' \in [Adapters -> Configuration]
  BY DEF Inv, TypeOK, ConfigTypeOK
<1>2. Idle.result = "pending"
  BY DEF Idle
<1>3. deliveredBar' = [deliveredBar EXCEPT ![a] = None]
  BY <1>1, <1>2, DeliveredBar
<1>4. config' \in [Adapters -> Gov!Configuration]
  BY <1>1 DEF Configuration, KeyStore, DeltaFilter, PolicyEngine, Rule, EndorsementMode,
              Gov!Configuration, Gov!KeyStore, Gov!DeltaFilter, Gov!PolicyEngine,
              Gov!Rule, Gov!EndorsementMode
<1>5. Gov!Adopt(a)
  BY <1>3, <1>4 DEF Gov!Adopt
<1>6. QED
  BY <1>5 DEF Gov!Next

(***************************************************************************)
(* Writing a record, or the arrival of one, approves or changes nothing.   *)
(***************************************************************************)
LEMMA RecordRefines ==
  ASSUME NEW d \in Deltas, NEW k \in Keys, NEW s,
         sigs \in [Deltas -> [Keys -> SigState]], sigs[d][k] # "valid",
         sigs' = [sigs EXCEPT ![d][k] = s]
  PROVE  approvedBar' = IF s = "valid" THEN approvedBar \cup {<<d, k>>} ELSE approvedBar
<1>1. \A p \in Deltas \X Keys :
        sigs'[p[1]][p[2]] = IF p = <<d, k>> THEN s ELSE sigs[p[1]][p[2]]
  OBVIOUS
<1>2. QED
  BY <1>1 DEF approvedBar

LEMMA NextRefines == Inv /\ Inv' /\ [Next]_vars => [Gov!Next]_Gov!vars
<1> SUFFICES ASSUME Inv, Inv', [Next]_vars
             PROVE  Gov!Next \/ UNCHANGED <<config, approvedBar, deliveredBar>>
  BY DEF Gov!vars
<1>1. /\ sigs \in [Deltas -> [Keys -> SigState]]
      /\ op \in [Adapters -> Operation]
      /\ config \in [Adapters -> Configuration]
  BY DEF Inv, TypeOK, ConfigTypeOK
<1>2. ASSUME UNCHANGED <<config, sigs, op>>
      PROVE  UNCHANGED <<config, approvedBar, deliveredBar>>
  BY <1>2 DEF approvedBar, deliveredBar
<1>3. ASSUME NEW a \in Adapters, AdapterStep(a)
      PROVE  Gov!Next \/ UNCHANGED <<config, approvedBar, deliveredBar>>
  <2>1. CASE \E d \in Deltas : \/ ReadObjectAtOnce(a, d) \/ ReadObject(a, d)
                               \/ Endorse(a, d)
    <3>1. PICK o : op' = [op EXCEPT ![a] = o] /\ UNCHANGED <<config, saved, storage>>
      BY <2>1 DEF ReadObjectAtOnce, ReadObject, Endorse, Becomes
    <3>2. QED
      BY <3>1, OperationRefines
  <2>2. CASE (\E k \in Keys : FetchRecord(a, k)) \/ Decide(a) \/ Return(a)
    <3>1. PICK o : op' = [op EXCEPT ![a] = o] /\ UNCHANGED <<config, saved, storage>>
      BY <2>2 DEF FetchRecord, Decide, Return, Becomes
    <3>2. QED
      BY <3>1, OperationRefines
  <2>3. CASE \E d \in Deltas : WriteObject(a, d)
    BY <1>2, <2>3 DEF WriteObject
  <2>4. CASE WriteEndorsement(a)
    <3> DEFINE d  == op[a].delta
               sk == config[a].keystore.endorsement_key
    <3>1. d \in Deltas /\ sk \in Keys /\ op[a].result = "pending"
      BY <1>1, <2>4 DEF WriteEndorsement, Inv, OperationInv, Operation, Configuration, KeyStore
    <3>2. PICK result \in {"endorsed", "failed"} :
            /\ op' = [op EXCEPT ![a] = Returned(d, result, FALSE)]
            /\ UNCHANGED sigs \/ sigs' = [sigs EXCEPT ![d][sk] = "valid"]
            /\ UNCHANGED <<config, saved, deltas>>
      BY <2>4 DEF WriteEndorsement, Becomes
    <3>3. UNCHANGED deliveredBar
      <4>1. Returned(d, result, FALSE).result # "data"
        BY <3>2 DEF Returned
      <4>2. QED
        BY <1>1, <3>1, <3>2, <4>1 DEF deliveredBar
    <3>4. CASE UNCHANGED sigs \/ sigs[d][sk] = "valid"
      <4>1. UNCHANGED sigs
        BY <1>1, <3>1, <3>2, <3>4
      <4>2. QED
        BY <3>2, <3>3, <4>1 DEF approvedBar
    <3>5. CASE sigs' = [sigs EXCEPT ![d][sk] = "valid"] /\ sigs[d][sk] # "valid"
      <4>1. approvedBar' = approvedBar \cup {<<d, sk>>}
        BY <1>1, <3>1, <3>5, RecordRefines
      <4>2. Gov!Approve(d, sk)
        BY <3>2, <3>3, <4>1 DEF Gov!Approve
      <4>3. QED
        BY <3>1, <4>2 DEF Gov!Next
    <3>6. QED
      BY <3>2, <3>4, <3>5
  <2>5. QED
    BY <1>3, <2>1, <2>2, <2>3, <2>4 DEF AdapterStep
<1>4. ASSUME NEW a \in Adapters, ConfigureAdapter(a) PROVE Gov!Next
  <2>1. /\ Reconfigure(a) /\ op[a].pc = "idle" /\ HoldsOwnKey(a)
        /\ UNCHANGED <<op, sigs>>
    BY <1>4 DEF ConfigureAdapter, storage, Inv
  <2>2. \A b \in Adapters \ {a} : config'[b] = config[b]
    BY <2>1, InvConfig, ReconfigureIsLocal
  <2>3. deliveredBar' = [deliveredBar EXCEPT ![a] = None]
    <3>1. op[a].result = "pending"
      BY <1>1, <2>1 DEF Inv, OperationInv, Operation
    <3>2. QED
      BY <2>1, <3>1 DEF deliveredBar
  <2>4. config' \in [Adapters -> Gov!Configuration]
    BY DEF Inv, TypeOK, ConfigTypeOK, Configuration, KeyStore, DeltaFilter, PolicyEngine,
           Rule, EndorsementMode, Gov!Configuration, Gov!KeyStore, Gov!DeltaFilter,
           Gov!PolicyEngine, Gov!Rule, Gov!EndorsementMode
  <2>5. UNCHANGED approvedBar
    BY <2>1 DEF approvedBar
  <2>6. Gov!Adopt(a)
    BY <2>2, <2>3, <2>4, <2>5 DEF Gov!Adopt
  <2>7. QED
    BY <2>6 DEF Gov!Next
<1>5. ASSUME NEW a \in Adapters, Crash(a) \/ CrashDuringWrite(a) PROVE Gov!Next
  <2>1. /\ \A b \in Adapters \ {a} : config'[b] = config[b]
        /\ op' = [op EXCEPT ![a] = Idle]
    BY <1>1, <1>5 DEF Crash, CrashDuringWrite, Restarted
  <2>2. UNCHANGED approvedBar
    <3>1. CASE Crash(a)
      BY <3>1 DEF Crash, approvedBar
    <3>2. CASE CrashDuringWrite(a)
      <4> DEFINE d  == op[a].delta
                 sk == config[a].keystore.endorsement_key
      <4>1. d \in Deltas /\ sk \in Keys /\ sigs[d][sk] # "valid"
        BY <1>1, <3>2 DEF CrashDuringWrite, Inv, OperationInv, Configuration, KeyStore
      <4>2. sigs' = [sigs EXCEPT ![d][sk] = "malformed"]
        BY <3>2 DEF CrashDuringWrite
      <4> HIDE DEF d, sk
      <4>3. approvedBar' = IF "malformed" = "valid" THEN approvedBar \cup {<<d, sk>>}
                                                    ELSE approvedBar
        BY <1>1, <4>1, <4>2, RecordRefines
      <4>4. QED
        BY <4>3
    <3>3. QED
      BY <1>5, <3>1, <3>2
  <2>3. QED
    BY <2>1, <2>2, ChangeRefines
<1>6. CASE Replicate
  <2>1. CASE \E d \in Deltas : DeltaArrives(d)
    BY <1>2, <2>1 DEF DeltaArrives
  <2>2. CASE \E d \in Deltas, k \in RemoteKeys : RecordArrives(d, k)
    <3>1. PICK d \in Deltas, k \in Keys, s \in Arrivals :
            /\ sigs[d][k] = "absent" /\ sigs' = [sigs EXCEPT ![d][k] = s]
            /\ UNCHANGED <<config, op>>
      BY <2>2, StorageAssumption DEF RecordArrives
    <3>2. UNCHANGED deliveredBar
      BY <3>1 DEF deliveredBar
    <3>3. approvedBar' = IF s = "valid" THEN approvedBar \cup {<<d, k>>} ELSE approvedBar
      BY <1>1, <3>1, RecordRefines
    <3>4. QED
      BY <3>1, <3>2, <3>3 DEF Gov!Next, Gov!Approve
  <2>3. QED
    BY <1>6, <2>1, <2>2 DEF Replicate
<1>7. CASE UNCHANGED vars
  BY <1>2, <1>7 DEF vars
<1>8. QED
  BY <1>3, <1>4, <1>5, <1>6, <1>7 DEF Next

LEMMA InitRefines == Init => Gov!Init
<1> SUFFICES ASSUME Init PROVE Gov!Init
  OBVIOUS
<1>1. Inv
  BY InitialState
<1>2. config \in [Adapters -> Gov!Configuration]
  BY <1>1
     DEF Inv, TypeOK, ConfigTypeOK, Configuration, KeyStore, DeltaFilter, PolicyEngine,
         Rule, EndorsementMode, Gov!Configuration, Gov!KeyStore, Gov!DeltaFilter,
         Gov!PolicyEngine, Gov!Rule, Gov!EndorsementMode
<1>3. approvedBar = {} /\ deliveredBar = [a \in Adapters |-> None]
  BY DEF Init, approvedBar, deliveredBar, Idle
<1>4. QED
  BY <1>2, <1>3 DEF Gov!Init

(***************************************************************************)
(* Every read that hands out data delivers, in the sense of Governance, a  *)
(* delta approved by a quorum, for any number of adapters and keys, any    *)
(* policy and any interleaving with endorsements, replication, crashes and *)
(* reconfigurations.                                                       *)
(***************************************************************************)
THEOREM Refinement == Spec => GovSpec
<1>1. Spec => []Inv
  BY Invariant
<1>2. QED
  BY <1>1, InitRefines, NextRefines, PTL DEF Spec, GovSpec, Gov!Spec
-----------------------------------------------------------------------------
(***************************************************************************)
(* No step of anybody makes a readable delta unreadable, other than one that *)
(* changes the reader's configuration or brings a record that cannot be read.*)
(***************************************************************************)
LEMMA DeltasStay == [Next]_vars => deltas \subseteq deltas'
  BY DEF Next, vars, AdapterStep, Replicate, ReadObjectAtOnce, ReadObject, FetchRecord,
         Decide, Endorse, WriteEndorsement, Return, WriteObject, ConfigureAdapter,
         Crash, CrashDuringWrite, Restarted, DeltaArrives, RecordArrives, storage

LEMMA EndorsersStay ==
  ASSUME Inv, [Next]_vars, NEW a \in Adapters, NEW d \in Deltas,
         config'[a] = config[a]
  PROVE  TrustedEndorsers(a, d) \subseteq TrustedEndorsers(a, d)'
<1>1. CASE Next
  BY <1>1, ValidRecordsStay DEF TrustedEndorsers, Endorsers
<1>2. CASE UNCHANGED vars
  BY <1>2 DEF vars, TrustedEndorsers, Endorsers
<1>3. QED
  BY <1>1, <1>2

THEOREM ReadableStays == Spec => ReadableStaysReadable
<1>1. ASSUME Inv, [Next]_vars, NEW a \in Adapters, NEW d \in Deltas,
             Readable(a, d), config'[a] = config[a],
             \A k \in Keys : sigs'[d][k] \notin Unreadable
      PROVE  Readable(a, d)'
  <2> DEFINE c == config[a]
  <2>1. d \in deltas' /\ ~ IsBlacklisted(c, d)
    BY <1>1, DeltasStay DEF Readable
  <2>2. CASE SkipsEndorsements(c, d)
    BY <1>1, <2>1, <2>2 DEF Readable
  <2>3. CASE ~ SkipsEndorsements(c, d)
    <3>1. EnoughEndorsers(c, d, TrustedEndorsers(a, d))
      BY <1>1, <2>3 DEF Readable
    <3>2. /\ TrustedEndorsers(a, d) \subseteq TrustedEndorsers(a, d)'
          /\ TrustedEndorsers(a, d)' \subseteq c.keystore.trusted_keys
      <4>1. TrustedEndorsers(a, d) \subseteq TrustedEndorsers(a, d)'
        BY <1>1, EndorsersStay
      <4>2. QED
        BY <1>1, <4>1 DEF TrustedEndorsers
    <3>3. c \in Configuration
      BY <1>1 DEF Inv, TypeOK, ConfigTypeOK
    <3> HIDE DEF c
    <3>4. EnoughEndorsers(c, d, TrustedEndorsers(a, d)')
      BY <3>1, <3>2, <3>3, MoreEndorsersAreEnough
    <3>5. QED
      BY <1>1, <2>1, <3>4 DEF Readable, c
  <2>4. QED
    BY <2>2, <2>3
<1>2. Inv /\ [Next]_vars =>
        \A a \in Adapters, d \in Deltas :
          /\ Readable(a, d)
          /\ config'[a] = config[a]
          /\ \A k \in Keys : sigs'[d][k] \notin Unreadable
          => Readable(a, d)'
  BY <1>1
<1>3. QED
  BY <1>2, Invariant, PTL DEF Spec, ReadableStaysReadable

(***************************************************************************)
(* A delta this adapter may write and has endorsed, in Single mode, is one *)
(* it can read: its own key is the endorser the read asks for.             *)
(***************************************************************************)
THEOREM OwnWriteReads == Spec => []OwnWriteIsReadable
<1>1. ASSUME Inv, NEW a \in Adapters, NEW d \in deltas,
             config[a].endorsement_mode = "Single",
             config[a].policy.strict_write, MayWrite(config[a], d),
             IsTrusted(config[a].keystore, config[a].keystore.endorsement_key),
             sigs[d][config[a].keystore.endorsement_key] = "valid",
             ~ IsBlacklisted(config[a], d),
             \A k \in Keys : sigs[d][k] \notin Unreadable
      PROVE  Readable(a, d)
  <2> DEFINE c  == config[a]
             sk == c.keystore.endorsement_key
             endorsers == TrustedEndorsers(a, d)
             allowed == AllowedEndorsers(c, d, endorsers)
  <2>1. c \in Configuration
    BY <1>1 DEF Inv, TypeOK, ConfigTypeOK
  <2>2. sk \in endorsers /\ sk \in allowed
    BY <1>1, <2>1 DEF TrustedEndorsers, Endorsers, IsTrusted, AllowedEndorsers,
                      MayWrite, Configuration, KeyStore
  <2>3. /\ endorsers \in SUBSET c.keystore.trusted_keys
        /\ allowed \in SUBSET c.keystore.trusted_keys
    BY DEF TrustedEndorsers, AllowedEndorsers
  <2>4. /\ IsFiniteSet(endorsers) /\ Cardinality(endorsers) \in Nat
        /\ IsFiniteSet(allowed) /\ Cardinality(allowed) \in Nat
    BY <2>1, <2>3, TrustedIsFinite
  <2>5. Cardinality(endorsers) # 0 /\ Cardinality(allowed) # 0
    BY <2>2, <2>4, FS_EmptySet
  <2>6. Cardinality(endorsers) > 0 /\ Cardinality(allowed) > 0
    BY <2>4, <2>5
  <2>7. EnoughEndorsers(c, d, endorsers)
    BY <1>1, <2>6 DEF EnoughEndorsers, Enough
  <2>8. QED
    BY <1>1, <2>7 DEF Readable
<1>2. Inv => OwnWriteIsReadable
  BY <1>1 DEF OwnWriteIsReadable
<1>3. QED
  BY <1>2, Invariant, PTL
=============================================================================
