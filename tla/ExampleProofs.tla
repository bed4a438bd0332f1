--------------------------- MODULE ExampleProofs ---------------------------
(***************************************************************************)
(* Proofs about the program examples/endorsements.rs: it is a behaviour of *)
(* the Trust CRDT and the Data CRDT, whatever order its people act in, and *)
(* its assertions hold.                                                    *)
(***************************************************************************)
EXTENDS EndorsementsExample, DualCrdtProofs

LEMMA PeopleDiffer ==
  /\ michael # eve /\ michael # lukas /\ michael # david /\ michael # anna
  /\ eve # lukas /\ eve # david /\ eve # anna
  /\ lukas # david /\ lukas # anna /\ david # anna
<1> DEFINE who == <<michael, eve, lukas, david, anna>>
<1>1. /\ who[1] = michael /\ who[2] = eve /\ who[3] = lukas /\ who[4] = david
      /\ who[5] = anna
  OBVIOUS
<1>2. \A i, j \in 1..5 : who[i] = who[j] => i = j
  BY PeopleAssumption
<1> HIDE DEF who
<1>3. QED
  BY <1>1, <1>2

LEMMA PositionIs ==
  /\ Position[michael] = 1 /\ Position[eve] = 2 /\ Position[lukas] = 3
  /\ Position[david] = 4 /\ Position[anna] = 5
  /\ \A r \in People : Position[r] \in 1..5
<1>1. /\ Position[michael] = 1 /\ Position[eve] = 2 /\ Position[lukas] = 3
      /\ Position[david] = 4 /\ Position[anna] = 5
  BY PeopleDiffer DEF Position, People
<1>2. QED
  BY <1>1 DEF People

\* Everybody's changes under every version are different deltas.
LEMMA ChangesDiffer ==
  ASSUME NEW q \in People, NEW r \in People, NEW u \in 1..3, NEW v \in 1..3,
         Change(q, u) = Change(r, v)
  PROVE  q = r /\ u = v
<1>1. Position[q] \in 1..5 /\ Position[r] \in 1..5
  BY PositionIs
<1>2. 10 * u + Position[q] = 10 * v + Position[r]
  BY DEF Change
<1>3. u = v /\ Position[q] = Position[r]
  BY <1>1, <1>2
<1>4. q = r
  BY <1>3, PositionIs DEF People
<1>5. QED
  BY <1>3, <1>4

LEMMA ChangeParts ==
  ASSUME NEW r \in People, NEW v \in 1..3
  PROVE  /\ Change(r, v) \in Changes
         /\ Author[Change(r, v)] = r
         /\ Supporting[Change(r, v)] = {r} \ {eve}
         /\ Content[Change(r, v)] = {items}
<1> DEFINE d == Change(r, v)
<1>1. d \in Changes
  BY DEF Changes
<1>2. Position[r] \in 1..5 /\ d = 10 * v + Position[r]
  BY PositionIs DEF Change
<1>3. d % 10 = Position[r] /\ d \notin 1..4
  <2>1. \A i \in 1..5 : (10 * v + i) % 10 = i
    OBVIOUS
  <2>2. QED
    BY <1>2, <2>1
<1>4. \A q \in People : d % 10 = Position[q] => q = r
  BY <1>3, PositionIs DEF People
<1>5. (CHOOSE q \in People : d % 10 = Position[q]) = r
  BY <1>3, <1>4
<1> HIDE DEF d
<1>6. Author[d] = r /\ ExampleAuthor[d] = r
  BY <1>1, <1>5, ExampleAssumption DEF ExampleAuthor
<1>7. Supporting[d] = {r} \ {eve}
  BY <1>1, <1>6, ExampleAssumption DEF ExampleSupporting
<1>8. Content[d] = {items}
  BY <1>1, <1>3, ExampleAssumption DEF ExampleContent
<1>9. QED
  BY <1>1, <1>6, <1>7, <1>8 DEF d
-----------------------------------------------------------------------------
\* Where the program is: the last version is proposed after three rounds of changes.
StageInv ==
  /\ stage \in Stage
  /\ At("commit") \/ At("reload") => stage.version < 4 /\ stage.waiting \subseteq People
  /\ At("recover") => stage.version = 4 /\ stage.waiting \subseteq {main}
  /\ At("done") => stage.version = 4
  /\ At("bootstrap") => stage.waiting \subseteq People
  /\ At("endorse") => stage.waiting \subseteq EndorsersOf[stage.version]

LEMMA EndorsersAre ==
  ASSUME NEW v \in 1..4
  PROVE  /\ EndorsersOf[v] = IF v < 3 THEN {michael, david, lukas} ELSE {michael, david, anna}
         /\ EndorsersOf[v] \subseteq People
<1>1. v = 1 \/ v = 2 \/ v = 3 \/ v = 4
  OBVIOUS
<1>2. QED
  BY <1>1 DEF EndorsersOf, People

LEMMA StageSteps ==
  ASSUME StageInv, [ExampleNext]_exampleVars
  PROVE  StageInv'
<1>1. stage = [version |-> stage.version, part |-> stage.part, waiting |-> stage.waiting]
      /\ stage.version \in 1..4 /\ stage.waiting \in SUBSET (People \cup {main})
  BY ExampleAssumption DEF StageInv, Stage
<1>2. ASSUME NEW r \in People \cup {main}, Acted(r)
      PROVE  StageInv'
  <2>1. /\ stage'.version = stage.version /\ stage'.part = stage.part
        /\ stage'.waiting = stage.waiting \ {r}
        /\ stage' \in Stage
    BY <1>1, <1>2 DEF Acted, StageInv, Stage
  <2>2. QED
    BY <2>1 DEF StageInv, At
<1>3. CASE \E r \in People : \/ EndorseRules(r) \/ BootstrapOne(r) \/ CommitOne(r)
                             \/ EndorseOne(r) \/ ReloadOne(r)
  BY <1>2, <1>3 DEF EndorseRules, BootstrapOne, CommitOne, EndorseOne, ReloadOne, StageInv, At
<1>4. CASE LookForRules \/ LookAgain \/ UNCHANGED exampleVars
  BY <1>4 DEF LookForRules, LookAgain, exampleVars, StageInv, At
<1>5. CASE RulesActive
  BY <1>1, <1>5, ExampleAssumption DEF RulesActive, GoTo, StageInv, Stage, At
<1>6. CASE AllBootstrapped
  BY <1>1, <1>6, ExampleAssumption DEF AllBootstrapped, GoTo, StageInv, Stage, At
<1>7. CASE AllCommitted
  BY <1>1, <1>7, ExampleAssumption DEF AllCommitted, GoTo, StageInv, Stage, At
<1>8. CASE ProposeNext
  <2>1. stage.version + 1 \in 1..4
    BY <1>1, <1>8 DEF ProposeNext, StageInv, At
  <2>2. EndorsersOf[stage.version + 1] \subseteq People
    BY <2>1, EndorsersAre
  <2>3. QED
    BY <1>8, <2>1, <2>2, ExampleAssumption DEF ProposeNext, GoTo, StageInv, Stage, At
<1>9. CASE RecoverFromAnchor
  BY <1>2, <1>9 DEF RecoverFromAnchor
<1>10. CASE Recovered
  BY <1>1, <1>10, ExampleAssumption DEF Recovered, GoTo, StageInv, Stage, At
<1>11. QED
  BY <1>3, <1>4, <1>5, <1>6, <1>7, <1>8, <1>9, <1>10 DEF ExampleNext

LEMMA ExampleStepIsDual ==
  ASSUME StageInv, [ExampleNext]_exampleVars
  PROVE  [DualNext]_dualVars
<1>1. /\ stage.version \in Versions /\ main \in Participants
      /\ Keys = People /\ Replicas = People /\ DataDeltas = Changes
  BY ExampleAssumption DEF StageInv, Stage
<1>2. CASE LookForRules \/ LookAgain \/ RecoverFromAnchor
  BY <1>1, <1>2 DEF LookForRules, LookAgain, RecoverFromAnchor, DualNext, TrustStep
<1>3. ASSUME NEW r \in People, EndorseRules(r)
      PROVE  DualNext
  BY <1>1, <1>3 DEF EndorseRules, DualNext, TrustStep
<1>4. ASSUME NEW r \in People, BootstrapOne(r) \/ ReloadOne(r)
      PROVE  DualNext
  BY <1>1, <1>4 DEF BootstrapOne, ReloadOne, DualNext, DataStep
<1>5. ASSUME NEW r \in People, CommitOne(r) \/ EndorseOne(r)
      PROVE  DualNext \/ UNCHANGED dualVars
  <2>1. stage.version \in 1..3
    BY <1>5, ExampleAssumption DEF CommitOne, EndorseOne, StageInv, Stage
  <2>2. Change(r, stage.version) \in DataDeltas
    BY <1>1, <2>1, ChangeParts
  <2>3. QED
    BY <1>1, <1>5, <2>2 DEF CommitOne, EndorseOne, DualNext, DataStep
<1>6. CASE ProposeNext
  <2>1. stage.version + 1 \in Versions
    BY <1>6, ExampleAssumption DEF ProposeNext, StageInv, Stage
  <2>2. QED
    BY <1>6, <2>1 DEF ProposeNext, DualNext, DataStep
<1>7. CASE RulesActive \/ AllBootstrapped \/ AllCommitted \/ Recovered \/ UNCHANGED exampleVars
  BY <1>7 DEF RulesActive, AllBootstrapped, AllCommitted, Recovered, exampleVars
<1>8. QED
  BY <1>2, <1>3, <1>4, <1>5, <1>6, <1>7 DEF ExampleNext

LEMMA ExampleInitHasStage == ExampleInit => StageInv
<1>1. EndorsersOf[1] \subseteq People
  BY EndorsersAre
<1>2. QED
  BY <1>1, ExampleAssumption DEF ExampleInit, StageInv, Stage, At

(***************************************************************************)
(* The program is a behaviour of the Trust CRDT and the Data CRDT: whatever*)
(* holds of these holds of it, in whichever order its people act.  (94-1160) *)
(***************************************************************************)
THEOREM ProgramIsDual == ExampleSpec => DualSpec /\ []StageInv
<1>1. ExampleInit => DualInit /\ StageInv
  BY ExampleInitHasStage DEF ExampleInit
<1>2. StageInv /\ [ExampleNext]_exampleVars => StageInv' /\ [DualNext]_dualVars
  BY StageSteps, ExampleStepIsDual
<1>3. QED
  BY <1>1, <1>2, PTL DEF ExampleSpec, DualSpec
-----------------------------------------------------------------------------
(***************************************************************************)
(* The versions: each is based on all before it, and has its endorsements  *)
(* once its part of the program is over.                                   *)
(***************************************************************************)
VersionsInv ==
  LET n == stage.version
  IN  /\ proposals = 1..n
      /\ loads = {1..i : i \in 1..n}
      /\ \A v \in 1..n : based[v] = 1..(v - 1)
      /\ \A v \in Versions :
            endorsed[v] = IF v > n THEN {}
                          ELSE IF v = n /\ At("endorse") THEN EndorsersOf[v] \ stage.waiting
                          ELSE EndorsersOf[v]

\* The version that any search finds at least.
Least == IF At("endorse") /\ stage.version > 1 THEN stage.version - 1 ELSE stage.version

\* The search misses no version that had its endorsements when it began.
SearchFindsInv ==
  LET s == search[main]
  IN  /\ s.phase # "failed"
      /\ s.phase = "loading" => 1..Least \subseteq s.todo \cup s.shown
      /\ s.phase = "settled" => s.held \in Least..stage.version
      /\ s.phase # "settled" => At("endorse") \/ (At("recover") /\ stage.waiting = {})
      /\ At("endorse") /\ stage.version = 1 /\ stage.waiting # {} => s.phase = "between"

\* The changes stored, and those of them that are visible, after m rounds.
Tried(m) ==
  {d \in Changes : \E u \in 1..m : \E q \in People \ Outcome[u].refused : d = Change(q, u)}

Accepted(m) ==
  {d \in Changes : \E u \in 1..m : \E q \in Outcome[u].seen : d = Change(q, u)}

\* What version v shows of them.
Visible(v, m) == Accepted(m) \ (IF v = 4 THEN {Change(david, 3)} ELSE {})

\* Completed rounds of changes, and what is stored in the one under way.
Rounds == IF At("reload") THEN stage.version ELSE stage.version - 1

Trying ==
  {d \in Changes :
     /\ At("commit")
     /\ \E q \in People \ (stage.waiting \cup Outcome[stage.version].refused) :
          d = Change(q, stage.version)}

ChangesInv ==
  LET n == stage.version
  IN  /\ stored = Tried(Rounds) \cup Trying
      /\ \A d \in Changes : approvals[d] \subseteq Supporting[d]
      /\ ~ At("commit") => \A d \in stored : approvals[d] = Supporting[d]
      /\ \A v \in 1..n : carried[v] = Accepted(v - 1)
      /\ \A q \in People, u \in 1..3 :
            Change(q, u) \in stored => anchors[Change(q, u)] = Accepted(u - 1)

\* What the replicas hold, who are all at the version of the part.
ReplicasInv ==
  LET n == stage.version
  IN  \A r \in People :
        /\ At("bootstrap") /\ r \notin stage.waiting =>
             replica[r] = [joined |-> n, loaded |-> Visible(n, n - 1), own |-> {}]
        /\ At("commit") => /\ replica[r].joined = n
                           /\ replica[r].loaded = Visible(n, n - 1)
                           /\ r \in stage.waiting => replica[r].own = {}
        /\ At("reload") => /\ replica[r].joined = n
                           /\ r \notin stage.waiting => /\ replica[r].loaded = Visible(n, n)
                                                        /\ replica[r].own = {}
        /\ At("recover") => replica[r].loaded = Visible(4, 3)

ExampleInv ==
  /\ StageInv
  /\ VersionsInv
  /\ SearchFindsInv
  /\ ChangesInv
  /\ ReplicasInv
-----------------------------------------------------------------------------
Trustees(v) == IF v = 1 THEN {michael, david, lukas} ELSE {michael, david, anna}

Writers(v) == CASE v = 1 -> {michael, david} [] v = 2 -> {anna, lukas}
                [] v \in {3, 4} -> {anna, david}

LEMMA OutcomeIs ==
  ASSUME NEW v \in 1..3
  PROVE  /\ Outcome[v].seen = Writers(v)
         /\ Outcome[v].refused = People \ (Writers(v) \cup {eve})
         /\ Writers(v) \subseteq People \ {eve}
<1>1. CASE v = 1
  BY <1>1, PeopleDiffer DEF Outcome, outcome_v1, Writers, People
<1>2. CASE v = 2
  BY <1>2, PeopleDiffer DEF Outcome, outcome_v2, Writers, People
<1>3. CASE v = 3
  BY <1>3, PeopleDiffer DEF Outcome, outcome_v3, Writers, People
<1>4. QED
  BY <1>1, <1>2, <1>3

LEMMA TrustDocumentIs ==
  ASSUME NEW v \in Versions
  PROVE  LET c == ConfigOf[v]
         IN  /\ c.endorsement_mode = "Majority"
             /\ c.keystore.trusted_keys = Trustees(v)
             /\ \A k \in Trustees(v) : c.keystore.roles[k] = trustee
             /\ c.delta_filter.whitelist \subseteq {1}
             /\ c.delta_filter.blacklist = {}
             /\ c.policy.rules = {Allowing(None, trustee)}
<1> DEFINE whitelist == IF v = 1 THEN {} ELSE {1}
           part == TrustPart(Trustees(v), whitelist)
<1>1. v \in 1..4 /\ Document[v] = TrustRulesOf[v].trust
  BY ExampleAssumption DEF ExampleDocument
<1>2. TrustRulesOf[v].trust = part
  <2>1. CASE v = 1
    BY <2>1 DEF TrustRulesOf, trust_rules_v1, Trustees
  <2>2. CASE v = 2
    BY <2>2 DEF TrustRulesOf, trust_rules_v2, Trustees
  <2>3. CASE v = 3
    BY <2>3 DEF TrustRulesOf, trust_rules_v3, Trustees
  <2>4. CASE v = 4
    BY <2>4 DEF TrustRulesOf, trust_rules_v4, Trustees
  <2>5. QED
    BY <1>1, <2>1, <2>2, <2>3, <2>4
<1>3. Document[v] = part
  BY <1>1, <1>2
<1>4. Trustees(v) \subseteq Keys
  BY ExampleAssumption DEF Trustees, People
<1> HIDE DEF whitelist
<1>5. whitelist \subseteq {1}
  BY DEF whitelist
<1> DEFINE ks == [k \in Trustees(v) |-> trustee]
<1>6. /\ part.keystore = ks /\ part.endorsement_mode = "Majority"
      /\ part.delta_filter = [whitelist |-> whitelist, blacklist |-> {}]
      /\ part.policy = {Allowing(None, trustee)}
  BY DEF TrustPart
<1> HIDE DEF part
<1>7. FromJson(Document[v]).keystore = KeyStoreFromJson(ks)
  BY <1>3, <1>6 DEF FromJson
<1>8. /\ KeyStoreFromJson(ks).trusted_keys = Trustees(v)
      /\ \A k \in Trustees(v) : KeyStoreFromJson(ks).roles[k] = trustee
  BY <1>4 DEF KeyStoreFromJson
<1> HIDE DEF ks
<1>9. FromJson(Document[v]).policy.rules = {Allowing(None, trustee)}
  BY <1>3, <1>6 DEF FromJson, PolicyFromJson, RulesAdded, NewPolicy
<1>10. /\ FromJson(Document[v]).endorsement_mode = "Majority"
       /\ FromJson(Document[v]).delta_filter = [whitelist |-> whitelist, blacklist |-> {}]
  BY <1>3, <1>6 DEF FromJson
<1>11. /\ FromJson(Document[v]).endorsement_mode = "Majority"
       /\ FromJson(Document[v]).keystore.trusted_keys = Trustees(v)
       /\ \A k \in Trustees(v) : FromJson(Document[v]).keystore.roles[k] = trustee
       /\ FromJson(Document[v]).delta_filter.whitelist \subseteq {1}
       /\ FromJson(Document[v]).delta_filter.blacklist = {}
       /\ FromJson(Document[v]).policy.rules = {Allowing(None, trustee)}
  BY <1>5, <1>7, <1>8, <1>9, <1>10
<1>12. QED
  BY <1>11, ConfigIsFromDocument

LEMMA DataDocumentIs ==
  ASSUME NEW v \in Versions
  PROVE  LET c == FromJson(DataDocument[v])
         IN  /\ c.endorsement_mode = "Single"
             /\ c.keystore.trusted_keys = People
             /\ DOMAIN DataDocument[v].keystore = People
             /\ c.delta_filter.whitelist = {}
             /\ c.delta_filter.blacklist = IF v = 4 THEN {Change(david, 3)} ELSE {}
             /\ c.policy.rules = {Allowing(k, None) : k \in Writers(v)}
<1> DEFINE blacklist == IF v = 4 THEN {Change(david, 3)} ELSE {}
           part == DataPart(Writers(v), blacklist)
<1>1. v \in 1..4 /\ DataDocument[v] = TrustRulesOf[v].data
  BY ExampleAssumption DEF ExampleDataDocument
<1>2. TrustRulesOf[v].data = part
  <2>1. CASE v = 1
    BY <2>1 DEF TrustRulesOf, trust_rules_v1, Writers
  <2>2. CASE v = 2
    BY <2>2 DEF TrustRulesOf, trust_rules_v2, Writers
  <2>3. CASE v = 3
    BY <2>3 DEF TrustRulesOf, trust_rules_v3, Writers
  <2>4. CASE v = 4
    BY <2>4 DEF TrustRulesOf, trust_rules_v4, Writers
  <2>5. QED
    BY <1>1, <2>1, <2>2, <2>3, <2>4
<1>3. DataDocument[v] = part
  BY <1>1, <1>2
<1> HIDE DEF blacklist
<1> DEFINE ks == [k \in People |-> participant]
           writing == {Allowing(k, None) : k \in Writers(v)}
<1>4. /\ part.keystore = ks /\ part.endorsement_mode = "Single"
      /\ part.delta_filter = [whitelist |-> {}, blacklist |-> blacklist]
      /\ part.policy = writing
  BY DEF DataPart
<1> HIDE DEF part
<1>5. FromJson(DataDocument[v]).keystore = KeyStoreFromJson(ks)
  BY <1>3, <1>4 DEF FromJson
<1>6. KeyStoreFromJson(ks).trusted_keys = People /\ DOMAIN ks = People
  BY DEF KeyStoreFromJson
<1> HIDE DEF ks
<1>7. FromJson(DataDocument[v]).policy.rules = writing
  <2> HIDE DEF writing
  <2>1. QED
    BY <1>3, <1>4 DEF FromJson, PolicyFromJson, RulesAdded, NewPolicy
<1>8. /\ FromJson(DataDocument[v]).endorsement_mode = "Single"
      /\ FromJson(DataDocument[v]).delta_filter = [whitelist |-> {}, blacklist |-> blacklist]
      /\ DOMAIN DataDocument[v].keystore = People
  BY <1>3, <1>4, <1>6 DEF FromJson
<1>9. QED
  BY <1>5, <1>6, <1>7, <1>8 DEF blacklist

\* A majority of three trustees is two of them.
LEMMA TwoOfThree ==
  ASSUME NEW v \in Versions
  PROVE  /\ IsFiniteSet(Trustees(v)) /\ Cardinality(Trustees(v)) = 3
         /\ \A A \in SUBSET Trustees(v) :
              /\ IsFiniteSet(A) /\ Cardinality(A) \in Nat
              /\ Cardinality(Trustees(v) \ A) = 3 - Cardinality(A)
              /\ {michael, david} \subseteq A => Cardinality(A) >= 2
<1> DEFINE pair == {michael, david}
           third == IF v = 1 THEN lukas ELSE anna
<1>1. IsFiniteSet({michael}) /\ Cardinality({michael}) = 1
  BY FS_Singleton
<1>2. IsFiniteSet(pair) /\ Cardinality(pair) = 2
  <2>1. pair = {michael} \cup {david} /\ david \notin {michael}
    BY PeopleDiffer
  <2> HIDE DEF pair
  <2>2. QED
    BY <1>1, <2>1, FS_AddElement
<1>3. Trustees(v) = pair \cup {third} /\ third \notin pair
  BY PeopleDiffer DEF Trustees
<1> HIDE DEF pair, third
<1>4. IsFiniteSet(Trustees(v)) /\ Cardinality(Trustees(v)) = 3
  BY <1>2, <1>3, FS_AddElement
<1>5. ASSUME NEW A \in SUBSET Trustees(v)
      PROVE  /\ IsFiniteSet(A) /\ Cardinality(A) \in Nat
             /\ Cardinality(Trustees(v) \ A) = 3 - Cardinality(A)
             /\ pair \subseteq A => Cardinality(A) >= 2
  <2>1. IsFiniteSet(A) /\ Cardinality(A) \in Nat
    BY <1>4, FS_Subset, FS_CardinalityType
  <2>2. Cardinality(Trustees(v) \ A) = Cardinality(Trustees(v)) - Cardinality(Trustees(v) \cap A)
    BY <1>4, FS_Difference
  <2>3. Trustees(v) \cap A = A
    OBVIOUS
  <2>4. pair \subseteq A => Cardinality(pair) <= Cardinality(A)
    BY <2>1, FS_Subset
  <2>5. QED
    BY <1>2, <1>4, <2>1, <2>2, <2>3, <2>4
<1>6. QED
  BY <1>4, <1>5 DEF pair

\* Michael and David are trustees of every version, and together a majority.
LEMMA BothAreEnough ==
  ASSUME NEW u \in Versions, NEW v \in Versions, {michael, david} \subseteq endorsed[v]
  PROVE  Accepts(u, v)
<1> DEFINE c == ConfigOf[u]
           valid == endorsed[v] \cap c.keystore.trusted_keys
<1>1. /\ c.endorsement_mode = "Majority" /\ c.keystore.trusted_keys = Trustees(u)
      /\ \A k \in Trustees(u) : c.keystore.roles[k] = trustee
      /\ c.delta_filter.blacklist = {}
      /\ c.policy.rules = {Allowing(None, trustee)}
  BY TrustDocumentIs
<1> HIDE DEF c
<1>2. \A k \in valid : MayApprove(c, k, v)
  <2>1. ChangedObjects(v) \subseteq ObjectIds
    BY ContentAssumption, VersionsAssumption DEF ChangedObjects
  <2>2. SUFFICES ASSUME NEW k \in Trustees(u), NEW id \in ObjectIds
                 PROVE  Allows(c.policy, c.keystore, k, id)
    BY <1>1, <2>1 DEF MayApprove
  <2>3. MatchRule(Allowing(None, trustee), c.keystore, k, id)
    BY <1>1 DEF MatchRule, Allowing
  <2>4. Allowing(None, trustee).effect = "Allow"
    BY DEF Allowing
  <2>5. QED
    BY <1>1, <2>3, <2>4 DEF Allows
<1>3. AllowedEndorsers(c, v, valid) = valid
  BY <1>2 DEF AllowedEndorsers
<1>4. {michael, david} \subseteq valid /\ valid \in SUBSET Trustees(u)
  BY <1>1 DEF Trustees
<1> HIDE DEF valid
<1>5. Cardinality(valid) \in Nat /\ Cardinality(valid) >= 2 /\ Cardinality(Trustees(u)) = 3
  BY <1>4, TwoOfThree
<1>6. Enough("Majority", Cardinality(valid), Cardinality(Trustees(u)))
  BY <1>5 DEF Enough
<1>7. EnoughEndorsers(c, v, valid)
  BY <1>1, <1>3, <1>6 DEF EnoughEndorsers
<1>8. QED
  BY <1>1, <1>7 DEF Accepts, Shows, IsBlacklisted, c, valid
-----------------------------------------------------------------------------
\* Under the rules of a version its writers, and nobody else, may change an item.
LEMMA WritersMayApprove ==
  ASSUME NEW c, NEW v \in Versions, NEW r \in People, NEW d, Content[d] = {items},
         c.policy.rules = {Allowing(k, None) : k \in Writers(v)}
  PROVE  MayApprove(c, r, d) <=> r \in Writers(v)
<1>1. items \in ObjectIds /\ None \notin People /\ Unparsable # {items}
  BY ExampleAssumption, KeysAssumption, ContentAssumption
<1>2. Writers(v) \subseteq People
  BY ExampleAssumption DEF Writers, People
<1>3. ChangedObjects(d) = {items}
  BY <1>1 DEF ChangedObjects
<1>4. \A k \in Writers(v) : /\ Allowing(k, None).effect = "Allow"
                            /\ MatchRule(Allowing(k, None), c.keystore, r, items) <=> k = r
  BY <1>1, <1>2 DEF Allowing, MatchRule
<1>5. Allows(c.policy, c.keystore, r, items) <=> r \in Writers(v)
  BY <1>4 DEF Allows
<1>6. QED
  BY <1>3, <1>5 DEF MayApprove

LEMMA SignersAreTrusted == SignersTrusted /\ \A r \in People : SigningKey[r] = r
BY DataDocumentIs, ExampleAssumption DEF SignersTrusted, ExampleSigningKey

LEMMA MayWriteIs ==
  ASSUME NEW r \in People, NEW v \in 1..3
  PROVE  MayWrite(DataConfig(r, v), Change(r, v)) <=> r \notin Outcome[v].refused
<1> DEFINE c == DataConfig(r, v)
<1>1. /\ v \in Versions /\ r \in Replicas /\ Byzantine = {eve} /\ None \notin People
      /\ Content[Change(r, v)] = {items}
  BY ExampleAssumption, KeysAssumption, ChangeParts
<1>2. /\ c.keystore.endorsement_key = r
      /\ c.policy.strict_write <=> r # eve
  BY <1>1, DataConfigCredentials, SignersAreTrusted
<1>3. c.policy.rules = {Allowing(k, None) : k \in Writers(v)}
  BY <1>1, DataConfigParts, DataDocumentIs DEF Rules
<1> HIDE DEF c
<1>4. MayApprove(c, r, Change(r, v)) <=> r \in Writers(v)
  BY <1>1, <1>3, WritersMayApprove
<1>5. MayWrite(c, Change(r, v)) <=> (r # eve => r \in Writers(v))
  BY <1>1, <1>2, <1>4 DEF MayWrite
<1>6. QED
  BY <1>5, OutcomeIs DEF c

\* Which changes are stored and visible after m rounds.
LEMMA ChangesAfter ==
  ASSUME NEW m \in 0..3, NEW q \in People, NEW u \in 1..3
  PROVE  /\ Change(q, u) \in Accepted(m) <=> u <= m /\ q \in Writers(u)
         /\ Change(q, u) \in Tried(m) <=> u <= m /\ q \in Writers(u) \cup {eve}
<1> DEFINE d == Change(q, u)
<1>1. d \in Changes
  BY ChangeParts
<1>2. \A w \in 1..m : w \in 1..3
  OBVIOUS
<1>3. \A w \in 1..3 : /\ Outcome[w].seen = Writers(w) /\ Writers(w) \subseteq People
                      /\ People \ Outcome[w].refused = Writers(w) \cup {eve}
                      /\ eve \in People
  BY OutcomeIs DEF People
<1>4. \A w \in 1..3, r \in People : d = Change(r, w) => r = q /\ w = u
  BY ChangesDiffer
<1> HIDE DEF d
<1>5. d \in Accepted(m) <=> \E w \in 1..m : \E r \in Writers(w) : d = Change(r, w)
  BY <1>1, <1>2, <1>3 DEF Accepted
<1>6. d \in Tried(m) <=> \E w \in 1..m : \E r \in Writers(w) \cup {eve} : d = Change(r, w)
  BY <1>1, <1>2, <1>3 DEF Tried
<1>7. d = Change(q, u) /\ (u \in 1..m <=> u <= m)
  BY DEF d
<1>8. QED
  BY <1>2, <1>3, <1>4, <1>5, <1>6, <1>7 DEF d

LEMMA ChangeIsSomebodys ==
  ASSUME NEW d \in Changes
  PROVE  \E q \in People, u \in 1..3 : d = Change(q, u)
BY DEF Changes
-----------------------------------------------------------------------------
LEMMA StageFacts ==
  ASSUME StageInv
  PROVE  /\ stage.version \in 1..4 /\ stage.version \in Versions
         /\ Rounds \in 0..3
         /\ Rounds \in {stage.version - 1, stage.version}
         /\ At("reload") => Rounds = stage.version
         /\ ~ At("reload") => Rounds = stage.version - 1
         /\ At("commit") \/ At("reload") => stage.version \in 1..3
BY ExampleAssumption DEF StageInv, Stage, Rounds

\* One endorsement by its writer approves a change.
LEMMA WriterApproves ==
  ASSUME NEW v \in Versions, NEW q \in People, NEW u \in 1..3,
         approvals[Change(q, u)] = Supporting[Change(q, u)]
  PROVE  Approved(v, Change(q, u)) <=> q # eve /\ q \in Writers(v)
<1> DEFINE c == FromJson(DataDocument[v])
           d == Change(q, u)
           valid == approvals[d] \cap c.keystore.trusted_keys
<1>1. /\ c.endorsement_mode = "Single" /\ c.keystore.trusted_keys = People
      /\ c.policy.rules = {Allowing(k, None) : k \in Writers(v)}
      /\ Content[d] = {items}
  BY DataDocumentIs, ChangeParts
<1>2. valid = {q} \ {eve}
  BY <1>1, ChangeParts
<1>3. Approved(v, d) <=> EnoughEndorsers(c, d, valid)
  BY DEF Approved
<1>4. MayApprove(c, q, d) <=> q \in Writers(v)
  <2> HIDE DEF c, d
  <2>1. QED
    BY <1>1, WritersMayApprove
<1> HIDE DEF c, d, valid
<1>5. Cardinality({}) = 0 /\ Cardinality({q}) = 1
  BY FS_EmptySet, FS_Singleton
<1>6. \A n : Enough("Single", n, Cardinality(c.keystore.trusted_keys)) <=> n > 0
  BY DEF Enough
<1>7. EnoughEndorsers(c, d, valid) <=>
        Cardinality(valid) > 0 /\ Cardinality(AllowedEndorsers(c, d, valid)) > 0
  BY <1>1, <1>6 DEF EnoughEndorsers
<1>8. CASE q = eve \/ ~ MayApprove(c, q, d)
  <2>1. AllowedEndorsers(c, d, valid) = {}
    BY <1>2, <1>8 DEF AllowedEndorsers
  <2>2. QED
    BY <1>3, <1>4, <1>5, <1>7, <1>8, <2>1 DEF d
<1>9. CASE q # eve /\ MayApprove(c, q, d)
  <2>1. valid = {q} /\ AllowedEndorsers(c, d, valid) = {q}
    BY <1>2, <1>9 DEF AllowedEndorsers
  <2>2. QED
    BY <1>3, <1>4, <1>5, <1>7, <1>9, <2>1 DEF d
<1>10. QED
  BY <1>8, <1>9

(***************************************************************************)
(* What a replica sees when it loads the data: the changes of those who were *)
(* writers when they made them, and that nobody took back.                 *)
(***************************************************************************)
LEMMA ViewIs ==
  ASSUME StageInv, ChangesInv, ~ At("commit"), NEW r \in People
  PROVE  View(r, stage.version) = Visible(stage.version, Rounds)
<1> DEFINE n == stage.version
           m == Rounds
           c == DataConfig(r, n)
           shown == {d \in stored : Shows(c, d, approvals[d])}
<1>1. /\ n \in 1..4 /\ n \in Versions /\ m \in 0..3 /\ n - 1 \in 0..3
      /\ m = n - 1 \/ (m = n /\ n \in 1..3)
      /\ Replicas = People
  BY StageFacts, ExampleAssumption
<1>2. /\ stored = Tried(m)
      /\ carried[n] = Accepted(n - 1)
      /\ \A d \in stored : approvals[d] = Supporting[d]
      /\ \A q \in People, u \in 1..3 :
           Change(q, u) \in stored => anchors[Change(q, u)] = Accepted(u - 1)
  <2>1. Trying = {}
    BY DEF Trying
  <2>2. QED
    BY <1>1, <2>1 DEF ChangesInv
<1>3. \A d : Shows(c, d, approvals[d]) <=>
            /\ d \notin (IF n = 4 THEN {Change(david, 3)} ELSE {})
            /\ d \in carried[n] \/ Approved(n, d)
  <2>1. Rules(n).endorsement_mode = "Single" /\ Rules(n).delta_filter.whitelist = {}
        /\ Rules(n).delta_filter.blacklist = IF n = 4 THEN {Change(david, 3)} ELSE {}
    BY <1>1, DataDocumentIs DEF Rules
  <2>2. \A d : ~ SkipsEndorsements(Rules(n), d)
    BY <2>1 DEF SkipsEndorsements
  <2>3. QED
    BY <1>1, <2>1, <2>2, ShownByRules, SignersAreTrusted
<1> HIDE DEF c, n, m
<1>4. ASSUME NEW q \in People, NEW u \in 1..3
      PROVE  Change(q, u) \in shown <=> Change(q, u) \in Visible(n, m)
  <2> DEFINE d == Change(q, u)
  <2>1. /\ d \in stored <=> u <= m /\ q \in Writers(u) \cup {eve}
        /\ d \in Accepted(m) <=> u <= m /\ q \in Writers(u)
        /\ d \in carried[n] <=> u <= n - 1 /\ q \in Writers(u)
    BY <1>1, <1>2, ChangesAfter
  <2>2. d \in stored => (Approved(n, d) <=> q # eve /\ q \in Writers(n))
    BY <1>1, <1>2, WriterApproves
  <2>3. eve \notin Writers(u)
    BY OutcomeIs
  <2>4. d \in shown <=> /\ d \in stored
                        /\ d \notin (IF n = 4 THEN {Change(david, 3)} ELSE {})
                        /\ d \in carried[n] \/ Approved(n, d)
    BY <1>3
  <2> HIDE DEF d, shown
  <2>5. d \in Visible(n, m) <=> /\ d \in Accepted(m)
                                /\ d \notin (IF n = 4 THEN {Change(david, 3)} ELSE {})
    BY DEF Visible
  <2>6. d \in stored => (d \in carried[n] \/ Approved(n, d) <=> q \in Writers(u))
    <3>1. CASE u <= n - 1
      BY <1>1, <2>1, <2>2, <2>3, <3>1
    <3>2. CASE u > n - 1
      BY <1>1, <2>1, <2>2, <2>3, <3>2
    <3>3. QED
      BY <1>1, <3>1, <3>2
  <2>7. QED
    BY <2>1, <2>4, <2>5, <2>6 DEF d
<1>5. shown = Visible(n, m)
  <2>1. shown \subseteq Changes /\ Visible(n, m) \subseteq Changes
    BY <1>2 DEF Tried, Accepted, Visible
  <2> HIDE DEF shown
  <2>2. QED
    BY <1>4, <2>1, ChangeIsSomebodys
<1>6. ASSUME NEW d \in shown PROVE anchors[d] \subseteq shown
  <2>1. PICK q \in People, u \in 1..3 : d = Change(q, u)
    BY <1>2, ChangeIsSomebodys DEF Tried
  <2>2. u <= m /\ anchors[d] = Accepted(u - 1) /\ u - 1 \in 0..3 /\ u - 1 <= m
    BY <1>1, <1>2, <2>1, ChangesAfter
  <2>3. ASSUME NEW e \in Accepted(u - 1) PROVE e \in Visible(n, m)
    <3>1. PICK p \in People, w \in 1..3 : e = Change(p, w)
      BY ChangeIsSomebodys DEF Accepted
    <3>2. w <= u - 1 /\ p \in Writers(w)
      BY <2>2, <2>3, <3>1, ChangesAfter
    <3>3. e \in Accepted(m)
      BY <1>1, <2>2, <3>1, <3>2, ChangesAfter
    <3>4. e # Change(david, 3)
      <4>1. david \in People /\ w # 3
        BY <3>2 DEF People
      <4>2. QED
        BY <3>1, <4>1, ChangesDiffer
    <3>5. QED
      BY <3>3, <3>4 DEF Visible
  <2>4. QED
    BY <1>5, <2>2, <2>3
<1>7. View(r, n) = {d \in shown : anchors[d] \subseteq shown}
  BY DEF View, c
<1>8. QED
  BY <1>5, <1>6, <1>7 DEF n, m
-----------------------------------------------------------------------------
\* Only proposing and endorsing touch the versions, each in its part.
LEMMA OthersLeaveVersions ==
  ASSUME StageInv, TrustInv, [ExampleNext]_exampleVars,
         ~ ProposeNext, ~ \E r \in People : EndorseRules(r)
  PROVE  /\ UNCHANGED <<proposals, loads, based, endorsed>>
         /\ stage'.version = stage.version
         /\ At("endorse") => stage' = stage \/ (stage.waiting = {} /\ stage'.part = "bootstrap")
         /\ ~ At("endorse") => stage'.part # "endorse"
<1>0. /\ main \in Participants /\ stage.version \in Versions
      /\ \A r : [stage EXCEPT !.waiting = @ \ {r}].version = stage.version
      /\ \A r : [stage EXCEPT !.waiting = @ \ {r}].part = stage.part
  BY ExampleAssumption DEF StageInv, Stage
<1>1. CASE LookForRules \/ LookAgain \/ RecoverFromAnchor
  <2>1. Searching(main) \/ Resume(main) \/ Restart(main)
    BY <1>1 DEF LookForRules, LookAgain, RecoverFromAnchor
  <2>2. UNCHANGED <<proposals, loads, based, endorsed>>
    BY <1>0, <2>1, SearchMovesAlone
  <2>3. CASE RecoverFromAnchor
    BY <1>0, <2>2, <2>3 DEF RecoverFromAnchor, Acted, At
  <2>4. CASE LookForRules \/ LookAgain
    BY <2>2, <2>4 DEF LookForRules, LookAgain, At
  <2>5. QED
    BY <1>1, <2>3, <2>4
<1>2. ASSUME NEW r \in People, BootstrapOne(r) \/ CommitOne(r) \/ ReloadOne(r)
      PROVE  /\ UNCHANGED <<proposals, loads, based, endorsed>>
             /\ stage'.version = stage.version /\ stage'.part = stage.part
             /\ ~ At("endorse")
  BY <1>0, <1>2 DEF BootstrapOne, CommitOne, ReloadOne, Bootstrap, Reload, CommitData,
                    Acted, At, trustVars, dualVars
<1>3. ASSUME NEW r \in People, EndorseOne(r)
      PROVE  UNCHANGED <<proposals, loads, based, endorsed, stage>>
  BY <1>3 DEF EndorseOne, EndorseDataDelta, trustVars
<1>4. CASE RulesActive \/ AllBootstrapped \/ AllCommitted \/ Recovered
  <2>1. UNCHANGED <<proposals, loads, based, endorsed>>
    BY <1>4 DEF RulesActive, AllBootstrapped, AllCommitted, Recovered, dualVars, trustVars
  <2>2. CASE RulesActive
    BY <2>1, <2>2 DEF RulesActive, GoTo, At
  <2>3. CASE AllBootstrapped \/ AllCommitted \/ Recovered
    BY <1>0, <2>1, <2>3 DEF AllBootstrapped, AllCommitted, Recovered, GoTo, At, StageInv
  <2>4. QED
    BY <1>4, <2>2, <2>3
<1>5. CASE UNCHANGED exampleVars
  BY <1>5 DEF exampleVars, dualVars, trustVars, At
<1>6. QED
  BY <1>1, <1>2, <1>3, <1>4, <1>5 DEF ExampleNext, At

\* The preferred of the first versions is the last of them.
LEMMA LastOfFirst ==
  ASSUME NEW S \in SUBSET (1..4), NEW i \in S, \A v \in S : v <= i
  PROVE  Preferred(S) = i
<1>1. S \in SUBSET Versions /\ S # {}
  BY ExampleAssumption
<1>2. Preferred(S) \in S /\ \A v \in S : Preferred(S) >= v
  BY <1>1, LastVersion
<1>3. Preferred(S) \in 1..4 /\ i \in 1..4 /\ Preferred(S) >= i /\ Preferred(S) <= i
  BY <1>2
<1> HIDE DEF Preferred
<1>4. QED
  BY <1>3

LEMMA ProposingNext ==
  ASSUME StageInv, TrustInv, VersionsInv, ProposeNext
  PROVE  VersionsInv'
<1> DEFINE n == stage.version
<1>1. /\ n \in 1..3 /\ n + 1 \in 1..4 /\ n + 1 \in Versions /\ ~ At("endorse")
      /\ Versions = 1..4
  BY ExampleAssumption DEF ProposeNext, At, StageInv, Stage
<1>2. /\ stage' = [version |-> n + 1, part |-> "endorse", waiting |-> EndorsersOf[n + 1]]
      /\ proposals' = proposals \cup {n + 1}
      /\ loads' = loads \cup {proposals'}
      /\ UNCHANGED <<endorsed, search>>
  BY DEF ProposeNext, Propose, UpdateTrustConfiguration, GoTo
<1>3. PICK loaded \in loads : /\ Revision[n + 1] = Revision[Preferred(loaded)] + 1
                              /\ based' = [based EXCEPT ![n + 1] = loaded]
  BY DEF ProposeNext, Propose, UpdateTrustConfiguration
<1>4. loaded = 1..n
  <2>1. PICK i \in 1..n : loaded = 1..i
    BY DEF VersionsInv
  <2>2. Preferred(loaded) = i
    <3>1. i \in loaded /\ loaded \in SUBSET (1..4) /\ \A v \in loaded : v <= i
      BY <1>1, <2>1
    <3>2. QED
      BY <3>1, LastOfFirst
  <2>3. n + 1 = i + 1
    BY <1>1, <1>3, <2>1, <2>2, ExampleAssumption DEF ExampleRevision
  <2>4. QED
    BY <1>1, <2>1, <2>3
<1>5. proposals' = 1..(n + 1)
  BY <1>1, <1>2 DEF VersionsInv
<1>6. loads' = {1..i : i \in 1..(n + 1)}
  <2>1. loads = {1..i : i \in 1..n}
    BY DEF VersionsInv
  <2>2. 1..(n + 1) = (1..n) \cup {n + 1}
    BY <1>1
  <2>3. QED
    BY <1>2, <1>5, <2>1, <2>2
<1>7. \A v \in 1..(n + 1) : based'[v] = 1..(v - 1)
  <2>1. based \in [Versions -> SUBSET Versions]
    BY DEF TrustInv, TrustTypeOK
  <2>2. \A v \in 1..n : based[v] = 1..(v - 1)
    BY DEF VersionsInv
  <2>3. based'[n + 1] = 1..((n + 1) - 1)
    BY <1>1, <1>3, <1>4, <2>1
  <2>4. QED
    BY <1>1, <1>3, <2>1, <2>2, <2>3
<1>8. \A v \in Versions : endorsed[v] = IF v > n THEN {} ELSE EndorsersOf[v]
  BY <1>1 DEF VersionsInv
<1>9. \A v \in Versions :
        endorsed'[v] = IF v > n + 1 THEN {}
                       ELSE IF v = n + 1 THEN EndorsersOf[v] \ EndorsersOf[n + 1]
                       ELSE EndorsersOf[v]
  <2> SUFFICES ASSUME NEW v \in Versions
               PROVE  endorsed'[v] = IF v > n + 1 THEN {}
                                     ELSE IF v = n + 1 THEN EndorsersOf[v] \ EndorsersOf[n + 1]
                                     ELSE EndorsersOf[v]
    OBVIOUS
  <2>1. endorsed'[v] = IF v > n THEN {} ELSE EndorsersOf[v]
    BY <1>2, <1>8
  <2>2. v \in Nat /\ n \in Nat
    BY <1>1
  <2> HIDE DEF n
  <2>3. CASE v = n + 1
    BY <2>1, <2>2, <2>3
  <2>4. CASE v # n + 1
    <3>1. v > n <=> v > n + 1
      BY <2>2, <2>4
    <3>2. QED
      BY <2>1, <2>4, <3>1
  <2>5. QED
    BY <2>3, <2>4
<1>10. stage'.version = n + 1 /\ stage'.waiting = EndorsersOf[n + 1] /\ stage'.part = "endorse"
  BY <1>2
<1>11. QED
  BY <1>5, <1>6, <1>7, <1>9, <1>10 DEF VersionsInv, At

LEMMA EndorsingRules ==
  ASSUME StageInv, TrustInv, VersionsInv, NEW r \in People, EndorseRules(r)
  PROVE  VersionsInv'
<1> DEFINE n == stage.version
<1>1. /\ n \in Versions /\ Versions = 1..4 /\ At("endorse") /\ r \in stage.waiting
      /\ stage.waiting \subseteq EndorsersOf[n]
      /\ endorsed' = [endorsed EXCEPT ![n] = @ \cup {r}]
      /\ UNCHANGED <<proposals, loads, based>>
  BY ExampleAssumption DEF EndorseRules, EndorseTrustDelta, StageInv, Stage
<1>2. /\ stage'.version = n /\ At("endorse")' /\ stage'.waiting = stage.waiting \ {r}
  BY <1>1 DEF EndorseRules, Acted, StageInv, Stage, At
<1>3. \A v \in Versions :
        endorsed[v] = IF v > n THEN {} ELSE IF v = n THEN EndorsersOf[v] \ stage.waiting
                                            ELSE EndorsersOf[v]
  BY <1>1 DEF VersionsInv
<1>4. endorsed \in [Versions -> SUBSET Keys]
  BY DEF TrustInv, TrustTypeOK
<1>5. endorsed'[n] = EndorsersOf[n] \ stage'.waiting
  <2>1. endorsed'[n] = endorsed[n] \cup {r} /\ endorsed[n] = EndorsersOf[n] \ stage.waiting
    BY <1>1, <1>3, <1>4
  <2>2. QED
    BY <1>1, <1>2, <2>1
<1>6. \A v \in Versions :
        endorsed'[v] = IF v > n THEN {} ELSE IF v = n THEN EndorsersOf[v] \ stage'.waiting
                                             ELSE EndorsersOf[v]
  <2>1. \A v \in Versions : v # n => endorsed'[v] = endorsed[v]
    BY <1>1, <1>4
  <2>2. \A v \in Versions : v = n => ~ v > n
    BY <1>1
  <2>3. QED
    BY <1>1, <1>3, <1>5, <2>1, <2>2
<1>7. QED
  BY <1>1, <1>2, <1>6 DEF VersionsInv

LEMMA VersionsSteps ==
  ASSUME StageInv, TrustInv, VersionsInv, [ExampleNext]_exampleVars
  PROVE  VersionsInv'
<1>1. CASE ~ ProposeNext /\ ~ \E r \in People : EndorseRules(r)
  <2>1. /\ UNCHANGED <<proposals, loads, based, endorsed>>
        /\ stage'.version = stage.version
        /\ At("endorse") => stage' = stage \/ (stage.waiting = {} /\ stage'.part = "bootstrap")
        /\ ~ At("endorse") => stage'.part # "endorse"
    BY <1>1, OthersLeaveVersions
  <2>2. stage.version \in 1..4 /\ Versions = 1..4
    BY StageFacts, ExampleAssumption
  <2>3. \A v \in Versions :
          endorsed'[v] = IF v > stage'.version THEN {}
                         ELSE IF v = stage'.version /\ At("endorse")' THEN EndorsersOf[v] \ stage'.waiting
                         ELSE EndorsersOf[v]
    <3>1. CASE stage' = stage
      BY <2>1, <3>1 DEF VersionsInv, At
    <3>2. CASE At("endorse") /\ stage.waiting = {} /\ stage'.part = "bootstrap"
      BY <2>1, <2>2, <3>2 DEF VersionsInv, At
    <3>3. CASE ~ At("endorse")
      BY <2>1, <2>2, <3>3 DEF VersionsInv, At
    <3>4. QED
      BY <2>1, <3>1, <3>2, <3>3
  <2>4. QED
    BY <2>1, <2>3 DEF VersionsInv
<1>2. QED
  BY <1>1, ProposingNext, EndorsingRules
-----------------------------------------------------------------------------
LEMMA LeastIs ==
  ASSUME StageInv
  PROVE  /\ Least \in 1..4 /\ Least <= stage.version
         /\ Least = stage.version \/ (At("endorse") /\ Least = stage.version - 1)
BY StageFacts DEF Least

\* Once its endorsements are there, every version accepts a version.
LEMMA EndorsedIsAccepted ==
  ASSUME StageInv, VersionsInv, NEW u \in Versions, NEW v \in 1..Least,
         ~ (At("endorse") /\ stage.version = 1 /\ stage.waiting # {})
  PROVE  Accepts(u, v)
<1> DEFINE n == stage.version
<1>1. v \in Versions /\ v \in 1..4 /\ v <= n /\ n \in 1..4
  BY LeastIs, StageFacts, ExampleAssumption
<1>2. v = n /\ At("endorse") => n = 1 /\ stage.waiting = {}
  BY <1>1 DEF Least
<1>3. endorsed[v] = EndorsersOf[v]
  <2>1. ~ v > n
    BY <1>1
  <2>2. QED
    BY <1>1, <1>2, <2>1 DEF VersionsInv
<1>4. {michael, david} \subseteq endorsed[v]
  BY <1>1, <1>3, EndorsersAre
<1>5. QED
  BY <1>1, <1>4, BothAreEnough

\* A load that is shown the versions that any must find takes one of them or a later one.
LEMMA FindsLeast ==
  ASSUME StageInv, VersionsInv, NEW shown \in SUBSET proposals, 1..Least \subseteq shown
  PROVE  /\ Applied(shown) # {}
         /\ Preferred(Applied(shown)) \in Least..stage.version
<1> DEFINE n == stage.version
<1>1. n \in 1..4 /\ Least \in 1..4 /\ Least <= n /\ proposals = 1..n /\ Versions = 1..4
  BY LeastIs, StageFacts, ExampleAssumption DEF VersionsInv
<1>2. Least \in Applied(shown)
  <2>1. Least \in 1..n /\ Least \in 1..Least
    BY <1>1
  <2>2. based[Least] = 1..(Least - 1)
    BY <2>1 DEF VersionsInv
  <2>3. 1..(Least - 1) \subseteq 1..Least
    BY <1>1
  <2>4. QED
    BY <2>1, <2>2, <2>3 DEF Applied
<1>3. Applied(shown) \in SUBSET (1..n) /\ Applied(shown) \in SUBSET Versions
  <2>1. 1..n \subseteq 1..4
    BY <1>1
  <2>2. Applied(shown) \subseteq shown /\ shown \subseteq 1..n
    BY <1>1 DEF Applied
  <2> HIDE DEF n
  <2>3. QED
    BY <1>1, <2>1, <2>2
<1>4. Preferred(Applied(shown)) \in Applied(shown) /\ Preferred(Applied(shown)) >= Least
  BY <1>2, <1>3, LastVersion
<1> HIDE DEF n
<1>5. QED
  BY <1>1, <1>2, <1>3, <1>4 DEF n

LEMMA SearchingFinds ==
  ASSUME StageInv, TrustInv, VersionsInv, SearchFindsInv,
         LookForRules \/ LookAgain \/ RecoverFromAnchor
  PROVE  SearchFindsInv'
<1> DEFINE s == search[main]
           n == stage.version
<1>1. /\ main \in Participants /\ search \in [Participants -> Search] /\ s \in Search
      /\ SearchInv(s) /\ proposals = 1..n /\ n \in 1..4 /\ Least \in 1..4 /\ Least <= n
  BY StageFacts, LeastIs, ExampleAssumption DEF TrustInv, TrustTypeOK, VersionsInv
<1>2. CASE LookForRules
  <2>1. /\ stage' = stage /\ Searching(main)
        /\ \/ At("endorse") /\ (n > 1 \/ stage.waiting = {})
           \/ At("recover") /\ stage.waiting = {}
    BY <1>2 DEF LookForRules
  <2>2. ~ (At("endorse") /\ n = 1 /\ stage.waiting # {})
    BY <2>1
  <2>3. Least' = Least
    BY <2>1 DEF Least, At
  <2>4. SUFFICES ASSUME NEW t, search'[main] = t,
                        t.phase # "failed",
                        t.phase = "loading" => 1..Least \subseteq t.todo \cup t.shown,
                        t.phase = "settled" => t.held \in Least..n
                 PROVE  SearchFindsInv'
    <3>1. ASSUME GetTrustConfiguration(main)
          PROVE  search'[main].phase = "loading" /\ search'[main].todo = proposals
      BY <1>1, <3>1 DEF GetTrustConfiguration, Search
    <3>2. 1..Least \subseteq 1..n
      BY <1>1
    <3>3. ASSUME NEW v \in Versions, ReadProposal(main, v)
          PROVE  /\ search'[main].phase = "loading"
                 /\ 1..Least \subseteq search'[main].todo \cup search'[main].shown
      <4> DEFINE more == s.shown \cup (IF Accepts(s.held, v) THEN {v} ELSE {})
                 rest == s.todo \ {v}
      <4>1. s.phase = "loading" /\ search' = [search EXCEPT ![main] = [s EXCEPT !.todo = rest, !.shown = more]]
        BY <3>3 DEF ReadProposal
      <4>2. 1..Least \subseteq s.todo \cup s.shown
        BY <4>1 DEF SearchFindsInv
      <4>3. v \in 1..Least => v \in more
        BY <1>1, <2>2, EndorsedIsAccepted DEF Search
      <4>4. 1..Least \subseteq rest \cup more
        BY <4>2, <4>3
      <4> HIDE DEF rest, more
      <4>5. search'[main] = [s EXCEPT !.todo = rest, !.shown = more]
        BY <1>1, <4>1
      <4>6. QED
        BY <1>1, <4>1, <4>4, <4>5 DEF Search
    <3>4. ASSUME FinishLoad(main)
          PROVE  /\ search'[main].phase \in {"settled", "between"}
                 /\ search'[main].held \in Least..n
      <4>1. s.phase = "loading" /\ s.todo = {} /\ s.shown \in SUBSET proposals
        BY <1>1, <3>4 DEF FinishLoad, SearchInv
      <4>2. 1..Least \subseteq s.shown
        BY <4>1 DEF SearchFindsInv
      <4>3. Applied(s.shown) # {} /\ Preferred(Applied(s.shown)) \in Least..n
        BY <4>1, <4>2, FindsLeast
      <4>4. \/ Preferred(Applied(s.shown)) = s.held /\ search' = [search EXCEPT ![main] = Ended(s.held, "settled")]
            \/ search' = [search EXCEPT ![main] = Between(Preferred(Applied(s.shown)))]
        BY <3>4, <4>3 DEF FinishLoad
      <4>5. QED
        BY <1>1, <4>3, <4>4 DEF Ended, Between
    <3>5. QED
      BY <1>1, <2>1, <3>1, <3>2, <3>3, <3>4 DEF Searching
  <2>5. QED
    BY <2>1, <2>2, <2>3, <2>4 DEF SearchFindsInv, At
<1>3. CASE LookAgain
  <2>1. stage' = stage /\ At("endorse") /\ search'[main] = Between(s.held)
    BY <1>1, <1>3 DEF LookAgain, Resume
  <2>2. QED
    BY <2>1 DEF SearchFindsInv, Between, At
<1>4. CASE RecoverFromAnchor
  <2>1. /\ At("recover") /\ search'[main] = Between(Genesis)
        /\ stage' = [stage EXCEPT !.waiting = @ \ {main}]
    BY <1>1, <1>4 DEF RecoverFromAnchor, Restart, Acted
  <2>2. stage'.part = "recover" /\ stage'.waiting = {}
    BY <2>1 DEF StageInv, Stage, At
  <2>3. QED
    BY <2>1, <2>2 DEF SearchFindsInv, Between, At
<1>5. QED
  BY <1>2, <1>3, <1>4

LEMMA SearchSteps ==
  ASSUME StageInv, TrustInv, VersionsInv, SearchFindsInv, [ExampleNext]_exampleVars
  PROVE  SearchFindsInv'
<1> DEFINE n == stage.version
<1>1. /\ n \in 1..4 /\ Least \in 1..4
      /\ \A r : [stage EXCEPT !.waiting = @ \ {r}].version = stage.version
      /\ \A r : [stage EXCEPT !.waiting = @ \ {r}].part = stage.part
      /\ \A r : [stage EXCEPT !.waiting = @ \ {r}].waiting = stage.waiting \ {r}
  BY StageFacts, LeastIs DEF StageInv, Stage
<1>2. ASSUME NEW r \in People, \/ EndorseRules(r) \/ BootstrapOne(r) \/ CommitOne(r)
                               \/ EndorseOne(r) \/ ReloadOne(r)
      PROVE  SearchFindsInv'
  <2>1. /\ search' = search /\ stage'.version = n /\ stage'.part = stage.part
        /\ stage'.waiting \subseteq stage.waiting
        /\ At("recover") => stage'.waiting = stage.waiting
    BY <1>1, <1>2 DEF EndorseRules, EndorseTrustDelta, BootstrapOne, Bootstrap, CommitOne,
         CommitData, EndorseOne, EndorseDataDelta, ReloadOne, Reload, Acted, At, trustVars, dualVars
  <2>2. Least' = Least
    BY <2>1 DEF Least, At
  <2>3. QED
    BY <2>1, <2>2 DEF SearchFindsInv, At
<1>3. CASE RulesActive
  <2>1. /\ search' = search /\ search[main].phase = "settled" /\ search[main].held = n
        /\ stage' = [version |-> n, part |-> "bootstrap", waiting |-> People]
    BY <1>3 DEF RulesActive, GoTo, dualVars, trustVars
  <2>2. Least' = n /\ stage'.version = n /\ ~ At("endorse")' /\ n \in n..n
    BY <1>1, <2>1 DEF Least, At
  <2>3. QED
    BY <2>1, <2>2 DEF SearchFindsInv
<1>4. CASE AllBootstrapped \/ AllCommitted \/ Recovered
  <2>1. /\ search' = search /\ search[main].phase = "settled"
        /\ ~ At("endorse") /\ stage'.version = n
        /\ stage'.part \in {"recover", "commit", "reload", "done"}
    BY <1>4 DEF AllBootstrapped, AllCommitted, Recovered, GoTo, dualVars, trustVars,
                SearchFindsInv, StageInv, At
  <2>2. Least = n /\ Least' = n /\ ~ At("endorse")'
    BY <2>1 DEF Least, At
  <2>3. QED
    BY <2>1, <2>2 DEF SearchFindsInv
<1>5. CASE ProposeNext
  <2>1. /\ search' = search /\ search[main].phase = "settled" /\ ~ At("endorse")
        /\ stage'.version = n + 1 /\ stage'.part = "endorse" /\ stage'.waiting = EndorsersOf[n + 1]
    BY <1>5 DEF ProposeNext, Propose, UpdateTrustConfiguration, GoTo, SearchFindsInv, At
  <2>2. Least = n /\ Least' = n
    BY <1>1, <2>1 DEF Least, At
  <2>3. search[main].held \in n..(n + 1) /\ n + 1 # 1
    BY <1>1, <2>1, <2>2 DEF SearchFindsInv
  <2>4. QED
    BY <2>1, <2>2, <2>3 DEF SearchFindsInv, At
<1>6. CASE UNCHANGED exampleVars
  BY <1>6 DEF exampleVars, dualVars, trustVars, SearchFindsInv, Least, At
<1>7. QED
  BY <1>2, <1>3, <1>4, <1>5, <1>6, SearchingFinds DEF ExampleNext
-----------------------------------------------------------------------------
\* A replica that bootstraps joins the version of the part.
LEMMA BootstrapsToCurrent ==
  ASSUME StageInv, TrustInv, VersionsInv, SearchFindsInv, At("bootstrap"),
         NEW r \in People, Bootstrap(r)
  PROVE  Joins(r, stage.version)
<1> DEFINE n == stage.version
           u == search[main].held
           accepted == {v \in proposals : Accepts(u, v)}
<1>1. /\ n \in 1..4 /\ Least = n /\ ~ At("endorse") /\ proposals = 1..n
      /\ Participants = {main} /\ Versions = 1..4 /\ n..n = {n}
  BY StageFacts, ExampleAssumption DEF Least, At, VersionsInv
<1>2. /\ search[main].phase = "settled"
      /\ replica' = [replica EXCEPT ![r] = Joined(r, Preferred(Found(u)))]
      /\ UNCHANGED <<trustVars, stored, anchors, approvals, carried>>
  BY <1>1 DEF Bootstrap
<1>3. u = n /\ u \in Versions
  BY <1>1, <1>2 DEF SearchFindsInv
<1>4. 1..n \subseteq accepted /\ accepted \in SUBSET proposals
  <2>1. \A v \in 1..n : Accepts(u, v)
    BY <1>1, <1>3, EndorsedIsAccepted
  <2>2. QED
    BY <1>1, <2>1
<1>5. Preferred(Found(u)) \in n..n
  <2>1. Found(u) = Applied(accepted)
    BY DEF Found
  <2> HIDE DEF accepted
  <2>2. QED
    BY <1>1, <1>4, <2>1, FindsLeast
<1>6. QED
  BY <1>1, <1>2, <1>5 DEF Joins

\* The changes of a round, once everybody had their turn, are all of them.
LEMMA RoundIsOver ==
  ASSUME StageInv, At("commit"), stage.waiting = {}
  PROVE  Tried(stage.version) = Tried(stage.version - 1) \cup Trying
<1> DEFINE n == stage.version
<1>1. n \in 1..3 /\ 1..n = (1..(n - 1)) \cup {n}
  BY StageFacts
<1>2. Trying = {d \in Changes : \E q \in People \ Outcome[n].refused : d = Change(q, n)}
  BY DEF Trying
<1> HIDE DEF n
<1>3. Tried(n) = Tried(n - 1) \cup Trying
  BY <1>1, <1>2 DEF Tried
<1>4. QED
  BY <1>3 DEF n

LEMMA CommittingChange ==
  ASSUME StageInv, DataInv, ChangesInv, ReplicasInv, NEW r \in People, CommitOne(r)
  PROVE  ChangesInv' /\ ReplicasInv'
<1> DEFINE n == stage.version
           d == Change(r, n)
           refused == Outcome[n].refused
<1>1. /\ n \in 1..3 /\ At("commit") /\ r \in stage.waiting /\ Rounds = n - 1
      /\ d \in Changes /\ n - 1 \in 0..3 /\ DataDeltas = Changes /\ Replicas = People
  BY StageFacts, ChangeParts, ExampleAssumption DEF CommitOne, At
<1>2. /\ stage'.version = n /\ stage'.part = "commit"
      /\ stage'.waiting = stage.waiting \ {r}
  BY <1>1 DEF CommitOne, Acted, At, StageInv, Stage
<1>3. Rounds' = n - 1 /\ At("commit")' /\ ~ At("reload")' /\ ~ At("bootstrap")' /\ ~ At("recover")'
  BY <1>2 DEF Rounds, At
<1>4. MayWrite(DataConfig(r, n), d) <=> r \notin refused
  BY <1>1, MayWriteIs
<1>5. /\ replica[r].joined = n /\ replica[r].loaded = Accepted(n - 1) /\ replica[r].own = {}
      /\ replica \in [People -> Replica] /\ replica[r] \in Replica
      /\ anchors \in [Changes -> SUBSET Changes]
  <2>1. /\ replica \in [People -> Replica] /\ replica[r] \in Replica
        /\ anchors \in [Changes -> SUBSET Changes]
    BY <1>1 DEF DataInv, DataTypeOK
  <2>2. replica[r].joined = n /\ replica[r].loaded = Visible(n, n - 1) /\ replica[r].own = {}
    BY <1>1 DEF ReplicasInv
  <2>3. Visible(n, n - 1) = Accepted(n - 1)
    <3>1. n # 4
      BY <1>1
    <3>2. QED
      BY <3>1 DEF Visible
  <2>4. QED
    BY <2>1, <2>2, <2>3
<1>6. /\ stored = Tried(n - 1) \cup Trying
      /\ \A e \in Changes : approvals[e] \subseteq Supporting[e]
      /\ \A v \in 1..n : carried[v] = Accepted(v - 1)
      /\ \A q \in People, u \in 1..3 :
           Change(q, u) \in stored => anchors[Change(q, u)] = Accepted(u - 1)
  BY <1>1 DEF ChangesInv
<1>7. CASE r \in refused
  <2>1. UNCHANGED dualVars
    BY <1>4, <1>7 DEF CommitOne
  <2>2. Trying' = Trying
    <3>1. People \ ((stage.waiting \ {r}) \cup refused) = People \ (stage.waiting \cup refused)
      BY <1>7
    <3>2. QED
      BY <1>1, <1>2, <1>3, <3>1 DEF Trying
  <2>3. UNCHANGED <<stored, anchors, approvals, carried, replica>>
    BY <2>1 DEF dualVars, dataVars
  <2>4. ChangesInv'
    BY <1>2, <1>3, <1>6, <2>2, <2>3 DEF ChangesInv
  <2>5. QED
    BY <1>1, <1>2, <1>3, <2>3, <2>4 DEF ReplicasInv
<1>8. CASE r \notin refused
  <2>1. /\ stored' = stored \cup {d}
        /\ anchors' = [anchors EXCEPT ![d] = replica[r].loaded \cup replica[r].own]
        /\ replica' = [replica EXCEPT ![r].own = @ \cup {d}]
        /\ UNCHANGED <<approvals, carried>>
    BY <1>4, <1>8 DEF CommitOne, CommitData
  <2>2. Trying' = Trying \cup {d}
    <3>1. People \ ((stage.waiting \ {r}) \cup refused) = (People \ (stage.waiting \cup refused)) \cup {r}
      BY <1>1, <1>8
    <3>2. Trying' = {e \in Changes : \E q \in (People \ (stage.waiting \cup refused)) \cup {r} : e = Change(q, n)}
      BY <1>2, <1>3, <3>1 DEF Trying
    <3>3. Trying = {e \in Changes : \E q \in People \ (stage.waiting \cup refused) : e = Change(q, n)}
      BY <1>1 DEF Trying
    <3>4. QED
      BY <1>1, <3>2, <3>3
  <2>3. anchors' = [anchors EXCEPT ![d] = Accepted(n - 1)]
    BY <1>5, <2>1
  <2>4. ASSUME NEW q \in People, NEW u \in 1..3, Change(q, u) \in stored'
        PROVE  anchors'[Change(q, u)] = Accepted(u - 1)
    <3>1. CASE Change(q, u) = d
      <4>1. u = n
        BY <1>1, <3>1, ChangesDiffer
      <4>2. QED
        BY <1>1, <1>5, <2>3, <3>1, <4>1
    <3>2. CASE Change(q, u) # d
      <4>1. Change(q, u) \in stored /\ Change(q, u) \in Changes
        BY <2>1, <2>4, <3>2, ChangeParts
      <4>2. QED
        BY <1>5, <1>6, <2>3, <3>2, <4>1
    <3>3. QED
      BY <3>1, <3>2
  <2>5. ChangesInv'
    <3>1. stored' = Tried(n - 1) \cup Trying'
      BY <1>6, <2>1, <2>2
    <3>2. QED
      BY <1>2, <1>3, <1>6, <2>1, <2>4, <3>1 DEF ChangesInv
  <2>6. ASSUME NEW q \in People
        PROVE  /\ replica'[q].joined = n
               /\ replica'[q].loaded = Visible(n, n - 1)
               /\ q \in stage'.waiting => replica'[q].own = {}
    <3>1. CASE q = r
      <4>1. replica'[q].joined = replica[r].joined /\ replica'[q].loaded = replica[r].loaded
        BY <1>5, <2>1, <3>1 DEF Replica
      <4>2. QED
        BY <1>1, <1>2, <3>1, <4>1 DEF ReplicasInv
    <3>2. CASE q # r
      <4>1. replica'[q] = replica[q]
        BY <1>5, <2>1, <3>2
      <4>2. QED
        BY <1>1, <1>2, <3>2, <4>1 DEF ReplicasInv
    <3>3. QED
      BY <3>1, <3>2
  <2>7. QED
    BY <1>2, <1>3, <2>5, <2>6 DEF ReplicasInv
<1>9. QED
  BY <1>7, <1>8

\* Only these steps touch the data, besides those of the search and the trust rules.
LEMMA OthersLeaveData ==
  ASSUME StageInv, TrustInv,
         LookForRules \/ LookAgain \/ RulesActive \/ RecoverFromAnchor \/ Recovered
           \/ (\E r \in People : EndorseRules(r)) \/ UNCHANGED exampleVars
  PROVE  /\ UNCHANGED dataVars
         /\ stage'.version = stage.version
         /\ stage' = stage \/ ~ (At("commit") \/ At("reload"))
         /\ ~ (At("commit") \/ At("reload")) => ~ (At("commit") \/ At("reload"))'
         /\ stage' = stage \/ ~ At("bootstrap")
         /\ At("recover")' => At("recover")
         /\ At("bootstrap")' => stage' = stage \/ stage'.waiting = People
<1>1. /\ \A r : [stage EXCEPT !.waiting = @ \ {r}].version = stage.version
      /\ \A r : [stage EXCEPT !.waiting = @ \ {r}].part = stage.part
  BY DEF StageInv, Stage
<1>2. ASSUME NEW r \in People \cup {main}, EndorseRules(r) \/ (RecoverFromAnchor /\ r = main)
      PROVE  /\ UNCHANGED dataVars /\ stage'.version = stage.version
             /\ stage'.part = stage.part /\ (At("endorse") \/ At("recover"))
  BY <1>1, <1>2 DEF EndorseRules, RecoverFromAnchor, Acted, At
<1>3. CASE RulesActive \/ Recovered
  <2>1. CASE RulesActive
    BY <2>1 DEF RulesActive, GoTo, At, dualVars
  <2>2. CASE Recovered
    BY <2>2 DEF Recovered, GoTo, At, dualVars, StageInv
  <2>3. QED
    BY <1>3, <2>1, <2>2
<1>4. CASE LookForRules \/ LookAgain \/ UNCHANGED exampleVars
  BY <1>4 DEF LookForRules, LookAgain, exampleVars, dualVars, At
<1>5. CASE (\E r \in People : EndorseRules(r)) \/ RecoverFromAnchor
  <2>1. /\ UNCHANGED dataVars /\ stage'.version = stage.version
        /\ stage'.part = stage.part /\ (At("endorse") \/ At("recover"))
    BY <1>2, <1>5
  <2>2. QED
    BY <2>1 DEF At
<1>6. QED
  BY <1>3, <1>4, <1>5

\* As long as neither the round nor the version moves on, the changes stay as described.
LEMMA SameRoundSameChanges ==
  ASSUME ChangesInv, UNCHANGED <<stored, anchors, approvals, carried>>,
         stage'.version = stage.version, Rounds' = Rounds, Trying' = Trying,
         At("commit") => At("commit")' \/ \A d \in stored : approvals[d] = Supporting[d]
  PROVE  ChangesInv'
BY DEF ChangesInv

LEMMA EndorsingChange ==
  ASSUME StageInv, DataInv, ChangesInv, ReplicasInv, NEW r \in People, EndorseOne(r)
  PROVE  ChangesInv' /\ ReplicasInv'
<1> DEFINE n == stage.version
           d == Change(r, n)
<1>1. /\ At("commit") /\ n \in 1..3 /\ d \in Changes
      /\ approvals \in [Changes -> SUBSET Keys]
  BY StageFacts, ChangeParts, ExampleAssumption DEF EndorseOne, DataInv, DataTypeOK
<1>2. /\ r \in Supporting[d] \ approvals[d]
      /\ approvals' = [approvals EXCEPT ![d] = @ \cup {r}]
      /\ UNCHANGED <<stage, stored, anchors, carried, replica>>
  BY DEF EndorseOne, EndorseDataDelta
<1>3. \A e \in Changes : approvals'[e] \subseteq Supporting[e]
  <2>1. \A e \in Changes : approvals[e] \subseteq Supporting[e]
    BY DEF ChangesInv
  <2> HIDE DEF d
  <2>2. QED
    BY <1>1, <1>2, <2>1
<1>4. At("commit")' /\ Rounds' = Rounds /\ Trying' = Trying
  BY <1>1, <1>2 DEF At, Rounds, Trying
<1>5. ChangesInv'
  BY <1>2, <1>3, <1>4 DEF ChangesInv
<1>6. ReplicasInv'
  BY <1>2 DEF ReplicasInv, At
<1>7. QED
  BY <1>5, <1>6

LEMMA AllBootstrappedKeeps ==
  ASSUME StageInv, ChangesInv, ReplicasInv, AllBootstrapped
  PROVE  ChangesInv' /\ ReplicasInv'
<1> DEFINE n == stage.version
<1>1. /\ At("bootstrap") /\ stage.waiting = {} /\ n \in 1..4
      /\ UNCHANGED <<stored, anchors, approvals, carried, replica>>
      /\ stage' = IF n = 4 THEN [version |-> 4, part |-> "recover", waiting |-> {main}]
                           ELSE [version |-> n, part |-> "commit", waiting |-> People]
  BY StageFacts DEF AllBootstrapped, GoTo, dualVars, dataVars
<1>2. /\ stage'.version = n /\ Rounds' = Rounds
      /\ ~ At("commit") /\ ~ At("bootstrap")' /\ ~ At("reload")'
      /\ At("commit")' <=> n # 4
      /\ At("recover")' <=> n = 4
      /\ At("commit")' => stage'.waiting = People
  BY <1>1 DEF At, Rounds
<1>3. Trying' = Trying
  <2>1. Trying = {}
    BY <1>2 DEF Trying
  <2>2. ASSUME At("commit")' PROVE Trying' = {}
    <3>1. People \ (stage'.waiting \cup Outcome[stage'.version].refused) = {}
      BY <1>2, <2>2
    <3>2. QED
      BY <3>1 DEF Trying
  <2>3. ASSUME ~ At("commit")' PROVE Trying' = {}
    BY <2>3 DEF Trying
  <2>4. QED
    BY <2>1, <2>2, <2>3
<1>4. ChangesInv'
  BY <1>1, <1>2, <1>3, SameRoundSameChanges
<1>5. \A r \in People : replica[r] = [joined |-> n, loaded |-> Visible(n, n - 1), own |-> {}]
  BY <1>1 DEF ReplicasInv
<1>6. ASSUME NEW r \in People
      PROVE  /\ replica'[r].joined = n /\ replica'[r].own = {}
             /\ replica'[r].loaded = Visible(n, n - 1)
             /\ n = 4 => replica'[r].loaded = Visible(4, 3)
  <2>1. replica'[r] = [joined |-> n, loaded |-> Visible(n, n - 1), own |-> {}]
    BY <1>1, <1>5
  <2>2. n = 4 => Visible(n, n - 1) = Visible(4, 3)
    BY <1>1
  <2>3. QED
    BY <2>1, <2>2
<1>7. ReplicasInv'
  BY <1>2, <1>6 DEF ReplicasInv
<1>8. QED
  BY <1>4, <1>7

LEMMA AllCommittedKeeps ==
  ASSUME StageInv, ChangesInv, ReplicasInv, AllCommitted
  PROVE  ChangesInv' /\ ReplicasInv'
<1> DEFINE n == stage.version
<1>1. /\ At("commit") /\ stage.waiting = {} /\ n \in 1..3
      /\ UNCHANGED <<stored, anchors, approvals, carried, replica>>
      /\ \A d \in stored : Supporting[d] \subseteq approvals[d]
      /\ stage' = [version |-> n, part |-> "reload", waiting |-> People]
  BY StageFacts DEF AllCommitted, GoTo, dualVars, dataVars
<1>2. /\ stage'.version = n /\ stage'.waiting = People /\ Rounds = n - 1 /\ Rounds' = n
      /\ At("reload")' /\ ~ At("commit")' /\ ~ At("bootstrap")' /\ ~ At("recover")'
  BY <1>1 DEF At, Rounds
<1>3. stored = Tried(n - 1) \cup Trying
  BY <1>2 DEF ChangesInv
<1>4. Tried(n) = Tried(n - 1) \cup Trying
  BY <1>1, RoundIsOver
<1>5. Trying' = {}
  BY <1>2 DEF Trying
<1>6. \A d \in stored : d \in Changes
  BY <1>3 DEF Tried, Trying
<1>7. \A d \in stored : approvals[d] = Supporting[d]
  BY <1>1, <1>6 DEF ChangesInv
<1>8. stored' = Tried(n) \cup Trying'
  BY <1>1, <1>3, <1>4, <1>5
<1>9. ChangesInv'
  BY <1>1, <1>2, <1>7, <1>8 DEF ChangesInv
<1>10. \A r \in People : replica[r].joined = n
  BY <1>1 DEF ReplicasInv
<1>11. ReplicasInv'
  BY <1>1, <1>2, <1>10 DEF ReplicasInv
<1>12. QED
  BY <1>9, <1>11

\* The next version exempts what those who have loaded all of the round see.
LEMMA ProposingKeeps ==
  ASSUME StageInv, DataInv, ChangesInv, ReplicasInv, ProposeNext
  PROVE  ChangesInv' /\ ReplicasInv'
<1> DEFINE n == stage.version
<1>1. /\ At("reload") /\ stage.waiting = {} /\ n \in 1..3 /\ Replicas = People
      /\ Versions = 1..4 /\ carried \in [Versions -> SUBSET Changes]
  BY StageFacts, ExampleAssumption DEF ProposeNext, DataInv, DataTypeOK
<1>2. /\ stage' = [version |-> n + 1, part |-> "endorse", waiting |-> EndorsersOf[n + 1]]
      /\ UNCHANGED <<stored, anchors, approvals, replica>>
  BY DEF ProposeNext, Propose, GoTo
<1>3. PICK r \in People : carried' = [carried EXCEPT ![n + 1] = replica[r].loaded]
  BY <1>1 DEF ProposeNext, Propose
<1>4. replica[r].loaded = Accepted(n)
  <2>1. replica[r].loaded = Visible(n, n)
    BY <1>1 DEF ReplicasInv
  <2>2. n # 4
    BY <1>1
  <2>3. QED
    BY <2>1, <2>2 DEF Visible
<1>5. /\ stage'.version = n + 1 /\ Rounds = n /\ Rounds' = n
      /\ ~ At("commit") /\ ~ At("commit")' /\ ~ At("reload")'
      /\ ~ At("bootstrap")' /\ ~ At("recover")'
  <2>1. stage'.version = n + 1 /\ stage'.part = "endorse"
    BY <1>2
  <2>2. (n + 1) - 1 = n
    BY <1>1
  <2>3. QED
    BY <1>1, <2>1, <2>2 DEF At, Rounds
<1>6. Trying' = Trying
  BY <1>5 DEF Trying
<1>7. \A v \in 1..(n + 1) : carried'[v] = Accepted(v - 1)
  <2>1. \A v \in 1..n : carried[v] = Accepted(v - 1)
    BY DEF ChangesInv
  <2>2. carried'[n + 1] = Accepted((n + 1) - 1)
    BY <1>1, <1>3, <1>4
  <2>3. QED
    BY <1>1, <1>3, <2>1, <2>2
<1>8. ChangesInv'
  <2>1. /\ stored = Tried(n) \cup Trying
        /\ \A d \in Changes : approvals[d] \subseteq Supporting[d]
        /\ \A d \in stored : approvals[d] = Supporting[d]
        /\ \A q \in People, u \in 1..3 :
             Change(q, u) \in stored => anchors[Change(q, u)] = Accepted(u - 1)
    BY <1>5 DEF ChangesInv
  <2>2. QED
    BY <1>2, <1>5, <1>6, <1>7, <2>1 DEF ChangesInv
<1>9. ReplicasInv'
  BY <1>5 DEF ReplicasInv
<1>10. QED
  BY <1>8, <1>9

\* Whoever bootstraps or loads again comes to see what the rules show of the rounds.
LEMMA LoadingKeeps ==
  ASSUME StageInv, TrustInv, VersionsInv, SearchFindsInv, DataInv, ChangesInv, ReplicasInv,
         NEW r \in People, BootstrapOne(r) \/ ReloadOne(r)
  PROVE  ChangesInv' /\ ReplicasInv'
<1> DEFINE n == stage.version
<1>1. /\ At("bootstrap") \/ At("reload")
      /\ UNCHANGED <<stored, anchors, approvals, carried>>
      /\ stage' = [stage EXCEPT !.waiting = @ \ {r}]
      /\ replica \in [People -> Replica] /\ r \in Replicas
  BY ExampleAssumption DEF BootstrapOne, Bootstrap, ReloadOne, Reload, Acted, DataInv, DataTypeOK
<1>2. /\ stage'.version = n /\ stage'.part = stage.part
      /\ stage'.waiting = stage.waiting \ {r}
  BY <1>1 DEF StageInv, Stage
<1>3. Rounds' = Rounds /\ ~ At("commit") /\ ~ At("commit")'
  BY <1>1, <1>2 DEF Rounds, At
<1>4. Trying' = Trying
  BY <1>3 DEF Trying
<1>5. ChangesInv'
  BY <1>1, <1>2, <1>3, <1>4, SameRoundSameChanges
<1>6. View(r, n) = Visible(n, Rounds)
  BY <1>3, ViewIs
<1>7. replica' = [replica EXCEPT ![r] = Joined(r, n)]
  <2>1. CASE BootstrapOne(r)
    <3>1. At("bootstrap") /\ Bootstrap(r)
      BY <2>1 DEF BootstrapOne
    <3>2. QED
      BY <3>1, BootstrapsToCurrent DEF Joins
  <2>2. CASE ReloadOne(r)
    BY <2>2 DEF ReloadOne, Reload, ReplicasInv
  <2>3. QED
    BY <2>1, <2>2
<1>8. replica'[r] = [joined |-> n, loaded |-> Visible(n, Rounds), own |-> {}]
  BY <1>1, <1>6, <1>7 DEF Joined
<1>9. \A q \in People : q # r => replica'[q] = replica[q]
  BY <1>1, <1>7
<1>10. ASSUME NEW q \in People
       PROVE  /\ At("bootstrap") /\ q \notin stage'.waiting =>
                   replica'[q] = [joined |-> n, loaded |-> Visible(n, n - 1), own |-> {}]
              /\ At("reload") => /\ replica'[q].joined = n
                                 /\ q \notin stage'.waiting =>
                                      /\ replica'[q].loaded = Visible(n, n)
                                      /\ replica'[q].own = {}
  <2>1. CASE q = r
    BY <1>8, <2>1 DEF Rounds, At
  <2>2. CASE q # r
    <3>1. replica'[q] = replica[q] /\ (q \in stage'.waiting <=> q \in stage.waiting)
      BY <1>2, <1>9, <2>2
    <3>2. QED
      BY <3>1 DEF ReplicasInv
  <2>3. QED
    BY <2>1, <2>2
<1>11. ReplicasInv'
  <2>1. (At("bootstrap")' <=> At("bootstrap")) /\ (At("reload")' <=> At("reload"))
        /\ ~ At("recover")' /\ ~ At("commit")'
    BY <1>1, <1>2 DEF At
  <2>2. QED
    BY <1>2, <1>10, <2>1 DEF ReplicasInv
<1>12. QED
  BY <1>5, <1>11

LEMMA DataSteps ==
  ASSUME StageInv, TrustInv, VersionsInv, SearchFindsInv, DataInv, ChangesInv, ReplicasInv,
         [ExampleNext]_exampleVars
  PROVE  ChangesInv' /\ ReplicasInv'
<1>1. CASE \/ LookForRules \/ LookAgain \/ RulesActive \/ RecoverFromAnchor \/ Recovered
           \/ (\E r \in People : EndorseRules(r)) \/ UNCHANGED exampleVars
  <2>1. /\ UNCHANGED dataVars
        /\ stage'.version = stage.version
        /\ stage' = stage \/ ~ (At("commit") \/ At("reload"))
        /\ ~ (At("commit") \/ At("reload")) => ~ (At("commit") \/ At("reload"))'
        /\ stage' = stage \/ ~ At("bootstrap")
        /\ At("recover")' => At("recover")
        /\ At("bootstrap")' => stage' = stage \/ stage'.waiting = People
    BY <1>1, OthersLeaveData
  <2>2. Rounds' = Rounds /\ Trying' = Trying /\ (At("commit")' <=> At("commit"))
    BY <2>1 DEF Rounds, Trying, At
  <2>3. ChangesInv'
    BY <2>1, <2>2, SameRoundSameChanges DEF dataVars
  <2>4. CASE stage' = stage
    <3>1. /\ (At("bootstrap")' <=> At("bootstrap")) /\ (At("commit")' <=> At("commit"))
          /\ (At("reload")' <=> At("reload")) /\ (At("recover")' <=> At("recover"))
          /\ stage'.version = stage.version /\ stage'.waiting = stage.waiting
          /\ replica' = replica
      BY <2>1, <2>4 DEF At, dataVars
    <3>2. QED
      BY <2>3, <3>1 DEF ReplicasInv
  <2>5. CASE stage' # stage
    <3>1. /\ ~ At("commit")' /\ ~ At("reload")' /\ (At("recover")' => At("recover"))
          /\ (At("bootstrap")' => stage'.waiting = People) /\ replica' = replica
      BY <2>1, <2>5 DEF dataVars
    <3>2. QED
      BY <2>3, <3>1 DEF ReplicasInv
  <2>6. QED
    BY <2>3, <2>4, <2>5
<1>2. QED
  BY <1>1, CommittingChange, EndorsingChange, AllBootstrappedKeeps, AllCommittedKeeps,
     ProposingKeeps, LoadingKeeps DEF ExampleNext
-----------------------------------------------------------------------------
LEMMA ExampleInitHasInv ==
  ASSUME ExampleInit
  PROVE  ExampleInv
<1>1. /\ stage.version = 1 /\ stage.waiting = EndorsersOf[1] /\ At("endorse")
      /\ stored = {} /\ Versions = 1..4 /\ Genesis = 1 /\ main \in Participants
      /\ DataDeltas = Changes
  BY ExampleAssumption DEF ExampleInit, DualInit, DataInit, At
<1>2. StageInv
  BY ExampleInitHasStage
<1>3. VersionsInv
  <2>1. 1..1 = {1} /\ 1..(1 - 1) = {}
    OBVIOUS
  <2>2. /\ proposals = {1} /\ loads = {{1}}
        /\ \A v \in Versions : based[v] = {} /\ endorsed[v] = {}
    BY <1>1 DEF ExampleInit, DualInit, TrustInit
  <2>3. {1..i : i \in 1..1} = {{1}}
    BY <2>1
  <2>4. \A v \in 1..1 : based[v] = 1..(v - 1)
    BY <1>1, <2>1, <2>2
  <2>5. \A v \in Versions : v > 1 \/ v = 1
    BY <1>1
  <2>6. QED
    BY <1>1, <2>1, <2>2, <2>3, <2>4, <2>5 DEF VersionsInv
<1>4. SearchFindsInv
  <2>1. search[main].phase = "between"
    BY <1>1 DEF ExampleInit, DualInit, TrustInit, Between
  <2>2. QED
    BY <1>1, <2>1 DEF SearchFindsInv
<1>5. ChangesInv
  <2>1. Rounds = 0 /\ ~ At("commit") /\ 1..0 = {}
    BY <1>1 DEF Rounds, At
  <2>2. Tried(Rounds) = {} /\ Trying = {} /\ Accepted(0) = {}
    BY <2>1 DEF Tried, Trying, Accepted
  <2>3. \A d \in Changes : approvals[d] = {}
    BY <1>1 DEF ExampleInit, DualInit, DataInit
  <2>4. \A v \in 1..1 : carried[v] = {} /\ Accepted(v - 1) = {}
    <3>1. \A v \in 1..1 : v = 1 /\ v - 1 = 0
      OBVIOUS
    <3>2. QED
      BY <1>1, <2>2, <3>1 DEF ExampleInit, DualInit, DataInit
  <2>5. QED
    BY <1>1, <2>1, <2>2, <2>3, <2>4 DEF ChangesInv
<1>6. ReplicasInv
  BY <1>1 DEF ReplicasInv, At
<1>7. QED
  BY <1>2, <1>3, <1>4, <1>5, <1>6 DEF ExampleInv

LEMMA ExampleStepKeepsInv ==
  ASSUME TrustInv, DataInv, ExampleInv, [ExampleNext]_exampleVars
  PROVE  ExampleInv'
BY StageSteps, VersionsSteps, SearchSteps, DataSteps DEF ExampleInv

(***************************************************************************)
(* Where the program is decides what the versions, the search, the changes *)
(* and the replicas are.  (endorsements.rs 94-1160)                        *)
(***************************************************************************)
THEOREM ProgramIsOnCourse ==
  ExampleSpec => [](TrustInv /\ ChainOfQuorums /\ DataInv /\ ExampleInv)
<1>1. ExampleInit => ExampleInv
  BY ExampleInitHasInv
<1>2. TrustInv /\ DataInv /\ ExampleInv /\ [ExampleNext]_exampleVars => ExampleInv'
  BY ExampleStepKeepsInv
<1>3. QED
  BY <1>1, <1>2, ProgramIsDual, TrustInDual, DataIsClosed, PTL DEF ExampleSpec
-----------------------------------------------------------------------------
\* A commit fails for those whom the rules of the version do not let write.
LEMMA RefusedAreAsserted ==
  ASSUME ExampleInv, NEW r \in People, NEW v \in Committed
  PROVE  Change(r, v) \in stored <=> r \notin Outcome[v].refused
<1>1. v \in 1..3 /\ v <= Rounds /\ Rounds \in 0..3 /\ r \in People
  BY StageFacts DEF Committed, ExampleInv
<1>2. stored = Tried(Rounds) \cup Trying
  BY DEF ExampleInv, ChangesInv
<1>3. Change(r, v) \in Tried(Rounds) <=> r \in Writers(v) \cup {eve}
  BY <1>1, ChangesAfter
<1>4. Change(r, v) \notin Trying
  <2>1. SUFFICES ASSUME At("commit"), NEW q \in People,
                        Change(r, v) = Change(q, stage.version)
                 PROVE  FALSE
    BY DEF Trying
  <2>2. v # stage.version /\ stage.version \in 1..3
    BY <2>1, StageFacts DEF Committed, At, ExampleInv
  <2>3. QED
    BY <1>1, <2>1, <2>2, ChangesDiffer
<1>5. QED
  BY <1>1, <1>2, <1>3, <1>4, OutcomeIs

\* After a round, and after the last version, all see what the program asserts.
LEMMA SeenAreAsserted ==
  ASSUME ExampleInv, At("reload") \/ At("recover"), NEW r \in People \ stage.waiting
  PROVE  LET v == stage.version
             n == IF v = 4 THEN 3 ELSE v
         IN  /\ replica[r].loaded = Visible(v, n)
             /\ \A q \in People : Change(q, n) \in replica[r].loaded <=> q \in Outcome[v].seen
<1> DEFINE v == stage.version
           n == IF v = 4 THEN 3 ELSE v
<1>1. /\ v \in 1..4 /\ n \in 1..3 /\ n \in 0..3
      /\ At("reload") => v # 4
      /\ At("recover") => v = 4
  BY StageFacts DEF ExampleInv, StageInv
<1>2. replica[r].loaded = Visible(v, n)
  BY <1>1 DEF ExampleInv, ReplicasInv
<1>3. ASSUME NEW q \in People
      PROVE  Change(q, n) \in Visible(v, n) <=> q \in Outcome[v].seen
  <2>1. Change(q, n) \in Accepted(n) <=> q \in Writers(n)
    BY <1>1, ChangesAfter
  <2>2. CASE v # 4
    BY <1>1, <2>1, <2>2, OutcomeIs DEF Visible
  <2>3. CASE v = 4
    <3>1. n = 3 /\ Writers(3) = {anna, david} /\ Outcome[4].seen = {anna}
      BY <2>3 DEF Writers, Outcome, outcome_v4, outcome_v3
    <3>2. Change(q, 3) = Change(david, 3) <=> q = david
      BY ChangesDiffer DEF People
    <3>3. QED
      BY <2>1, <2>3, <3>1, <3>2, PeopleDiffer DEF Visible
  <2>4. QED
    BY <2>2, <2>3
<1>4. QED
  BY <1>2, <1>3

\* The search has an update only from a majority of the trustees before it.
LEMMA HeldHasMajority ==
  ASSUME TrustInv, ChainOfQuorums, ExampleInv, search[main].held > 1
  PROVE  Cardinality(endorsed[search[main].held] \cap EndorsersOf[search[main].held]) >= 2
<1> DEFINE v == search[main].held
           common == endorsed[v] \cap EndorsersOf[v]
<1>1. /\ v \in InEffect /\ v # Genesis /\ TrustTypeOK /\ v \in Versions /\ Versions = 1..4
      /\ Keys = People
  BY ExampleAssumption DEF ChainOfQuorums, TrustInv, TrustTypeOK, Search, InEffect
<1>2. PICK u \in InEffect : Ratifies(u, v)
  BY <1>1, EffectHasRatifier
<1>3. u \in Versions
  BY DEF InEffect
<1> DEFINE c == ConfigOf[u]
           A == Approvers(u, v)
<1>4. /\ c.endorsement_mode = "Majority" /\ c.keystore.trusted_keys = Trustees(u)
      /\ v \notin c.delta_filter.whitelist
  BY <1>1, <1>3, TrustDocumentIs, ExampleAssumption
<1>5. /\ A \in SUBSET Trustees(u) /\ A \subseteq endorsed[v]
      /\ Cardinality(Trustees(u) \ A) < Cardinality(A)
  <2>1. A = endorsed[v] \cap Eligible[u][v]
    BY DEF Approvers
  <2>2. Eligible[u][v] \subseteq c.keystore.trusted_keys
    BY <1>1, <1>3 DEF Eligible
  <2>3. IsQuorum(c, A)
    BY <1>2, <1>4 DEF Ratifies
  <2> HIDE DEF A, c
  <2>4. QED
    BY <1>4, <2>1, <2>2, <2>3 DEF IsQuorum
<1>6. endorsed[v] \subseteq EndorsersOf[v]
  BY <1>1 DEF ExampleInv, VersionsInv
<1> HIDE DEF A, c
<1>7. Cardinality(A) \in Nat /\ Cardinality(A) >= 2
  <2>1. Cardinality(A) \in Nat /\ Cardinality(Trustees(u) \ A) = 3 - Cardinality(A)
    BY <1>3, <1>5, TwoOfThree
  <2>2. QED
    BY <1>5, <2>1
<1>8. A \subseteq common /\ IsFiniteSet(common) /\ Cardinality(common) \in Nat
  <2>1. IsFiniteSet(People)
    BY ExampleAssumption, KeysAssumption
  <2>2. EndorsersOf[v] \subseteq People
    BY <1>1, EndorsersAre
  <2>3. IsFiniteSet(common)
    BY <2>1, <2>2, FS_Subset
  <2>4. QED
    BY <1>5, <1>6, <2>3, FS_CardinalityType
<1>9. Cardinality(A) <= Cardinality(common)
  BY <1>8, FS_Subset
<1>10. QED
  BY <1>7, <1>8, <1>9

(***************************************************************************)
(* The assertions of the program hold, in every order its people may act in: *)
(* whose commits fail, what all see after each round and after the last    *)
(* version, that no update is active before a majority of the old trustees *)
(* endorsed it, and that the last search recovers the last version.        *)
(* (299-366, 580-648, 860-927, 1063-1131, 470-471, 1154)                   *)
(***************************************************************************)
THEOREM AssertionsAreTrue == ExampleSpec => []AssertionsHold
<1>1. TrustInv /\ ChainOfQuorums /\ DataInv /\ ExampleInv => AssertionsHold
  <2> SUFFICES ASSUME TrustInv, ChainOfQuorums, DataInv, ExampleInv
               PROVE  AssertionsHold
    OBVIOUS
  <2>1. ExampleTypeOK
    BY DEF ExampleTypeOK, TrustInv, DataInv, ExampleInv, StageInv
  <2>2. \A r \in People, v \in Committed :
          Change(r, v) \in stored <=> r \notin Outcome[v].refused
    BY RefusedAreAsserted
  <2>3. ASSUME NEW r \in People \ stage.waiting, NEW s \in People \ stage.waiting,
               At("reload") \/ At("recover")
        PROVE  /\ replica[r].loaded = replica[s].loaded
               /\ LET v == stage.version
                      n == IF v = 4 THEN 3 ELSE v
                  IN  \A q \in People :
                        Change(q, n) \in replica[r].loaded <=> q \in Outcome[v].seen
    BY <2>3, SeenAreAsserted
  <2>4. search[main].held > 1 =>
          Cardinality(endorsed[search[main].held] \cap EndorsersOf[search[main].held]) >= 2
    BY HeldHasMajority
  <2>5. At("done") => search[main].held = 4
    <3>1. SUFFICES ASSUME At("done") PROVE search[main].held = 4
      OBVIOUS
    <3>2. stage.version = 4 /\ Least = 4 /\ ~ At("endorse") /\ ~ At("recover")
      BY <3>1 DEF ExampleInv, StageInv, Least, At
    <3>3. search[main].held \in 4..4
      BY <3>2 DEF ExampleInv, SearchFindsInv
    <3>4. QED
      BY <3>3
  <2>6. QED
    BY <2>1, <2>2, <2>3, <2>4, <2>5 DEF AssertionsHold
<1>2. QED
  BY <1>1, ProgramIsOnCourse, PTL
=============================================================================
