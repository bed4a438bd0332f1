------------------------ MODULE EndorsementsExample ------------------------
(***************************************************************************)
(* The program src/examples/endorsements.rs: five people, four versions of *)
(* their trust rules, and the changes they try to make under each.  The    *)
(* parts follow each other as in the program; within a part the people act *)
(* in any order, which the program fixes.                                  *)
(***************************************************************************)
EXTENDS DualCrdt

CONSTANTS michael, eve, lukas, david, anna,  \* people, and their keys
          main,                              \* the program's search
          trustee, participant,              \* roles
          rules, items                       \* objects

People == {michael, eve, lukas, david, anna}

Position == [r \in People |-> CASE r = michael -> 1 [] r = eve -> 2
                                [] r = lukas -> 3 [] r = david -> 4
                                [] r = anna -> 5]

\* The change r tries to make under version v, as michael_1 or eve_2.
Change(r, v) == 10 * v + Position[r]

Changes == {Change(r, v) : r \in People, v \in 1..3}

Allowing(k, role) ==
  [effect |-> "Allow", pubkey |-> k, role |-> role, objects |-> ObjectIds]

TrustPart(trustees, whitelist) ==
  [endorsement_mode |-> "Majority",
   keystore         |-> [k \in trustees |-> trustee],
   delta_filter     |-> [whitelist |-> whitelist, blacklist |-> {}],
   policy           |-> {Allowing(None, trustee)}]

\* The deltas a document lists in the whitelist of its data are in carried.
DataPart(writers, blacklist) ==
  [endorsement_mode |-> "Single",
   keystore         |-> [k \in People |-> participant],
   delta_filter     |-> [whitelist |-> {}, blacklist |-> blacklist],
   policy           |-> {Allowing(k, None) : k \in writers}]

trust_rules_v1 == [trust |-> TrustPart({michael, david, lukas}, {}),
                   data  |-> DataPart({michael, david}, {})]

trust_rules_v2 == [trust |-> TrustPart({michael, david, anna}, {1}),
                   data  |-> DataPart({anna, lukas}, {})]

trust_rules_v3 == [trust |-> TrustPart({michael, david, anna}, {1}),
                   data  |-> DataPart({anna, david}, {})]

trust_rules_v4 == [trust |-> TrustPart({michael, david, anna}, {1}),
                   data  |-> DataPart({anna, david}, {Change(david, 3)})]

TrustRulesOf == <<trust_rules_v1, trust_rules_v2, trust_rules_v3, trust_rules_v4>>

\* Those who endorse version v: the trustees of the version before.
EndorsersOf == <<{michael, david, lukas}, {michael, david, lukas},
                 {michael, david, anna}, {michael, david, anna}>>

\* Values for the constants of the Trust and the Data CRDT.
ExampleContent == [d \in Versions \cup Changes |-> IF d \in Versions THEN {rules} ELSE {items}]
ExampleRevision == [v \in Versions |-> v]
ExampleDocument == [v \in Versions |-> TrustRulesOf[v].trust]
ExampleDataDocument == [v \in Versions |-> TrustRulesOf[v].data]
ExampleWilling == [v \in Versions |-> EndorsersOf[v]]
ExampleSigningKey == [r \in People |-> r]
ExampleAuthor == [d \in Changes |-> CHOOSE r \in People : d % 10 = Position[r]]

\* Everybody but Eve endorses what they commit.
ExampleSupporting == [d \in Changes |-> {ExampleAuthor[d]} \ {eve}]

\* What the program asserts of the changes tried under each version: whose
\* commit fails, whose change everybody sees.  Eve's is stored and never seen.
outcome_v1 == [refused |-> {lukas, anna}, seen |-> {michael, david}]
outcome_v2 == [refused |-> {michael, david}, seen |-> {lukas, anna}]
outcome_v3 == [refused |-> {michael, lukas}, seen |-> {david, anna}]

\* And of the last of them once version 4 takes David's back.
outcome_v4 == [outcome_v3 EXCEPT !.seen = {anna}]

Outcome == <<outcome_v1, outcome_v2, outcome_v3, outcome_v4>>

\* Five different people, and what the program makes of the other constants.
ASSUME PeopleAssumption ==
  LET who == <<michael, eve, lukas, david, anna>>
  IN  \A i, j \in 1..5 : who[i] = who[j] => i = j

ASSUME ExampleAssumption ==
  /\ Keys = People /\ Replicas = People /\ Participants = {main} /\ Byzantine = {eve}
  /\ ObjectIds = {rules, items} /\ trustee \in Roles /\ participant \in Roles
  /\ Versions = 1..4 /\ Genesis = 1 /\ DataDeltas = Changes
  /\ Content = ExampleContent /\ Revision = ExampleRevision
  /\ Document = ExampleDocument /\ DataDocument = ExampleDataDocument
  /\ Willing = ExampleWilling /\ Supporting = ExampleSupporting
  /\ SigningKey = ExampleSigningKey /\ Author = ExampleAuthor

VARIABLE stage  \* the part of the program, and who has yet to act in it

exampleVars == <<dualVars, stage>>

Stage == [version : Versions,
          part    : {"endorse", "bootstrap", "commit", "reload", "recover", "done"},
          waiting : SUBSET (People \cup {main})]

At(part) == stage.part = part

\* One of the people, or the program, ends the part once nobody is waiting.
GoTo(version, part, waiting) ==
  stage' = [version |-> version, part |-> part, waiting |-> waiting]

Acted(r) == stage' = [stage EXCEPT !.waiting = @ \ {r}]
-----------------------------------------------------------------------------
ExampleInit ==
  /\ DualInit
  /\ stage = [version |-> 1, part |-> "endorse", waiting |-> EndorsersOf[1]]

\* endorse_trust_delta, by each endorser.
EndorseRules(r) ==
  /\ At("endorse")
  /\ r \in stage.waiting
  /\ EndorseTrustDelta(r, stage.version)
  /\ Acted(r)
  /\ UNCHANGED dataVars

\* get_trust_configuration, also while endorsements of an update are missing.
LookForRules ==
  /\ \/ At("endorse") /\ (stage.version > 1 \/ stage.waiting = {})
     \/ At("recover") /\ stage.waiting = {}
  /\ Searching(main)
  /\ UNCHANGED <<dataVars, stage>>

LookAgain ==
  /\ At("endorse")
  /\ search[main].held < stage.version
  /\ Resume(main)
  /\ UNCHANGED <<dataVars, stage>>

RulesActive ==
  /\ At("endorse")
  /\ stage.waiting = {}
  /\ search[main].phase = "settled"
  /\ search[main].held = stage.version
  /\ GoTo(stage.version, "bootstrap", People)
  /\ UNCHANGED dualVars

BootstrapOne(r) ==
  /\ At("bootstrap")
  /\ r \in stage.waiting
  /\ Bootstrap(r)
  /\ Acted(r)

AllBootstrapped ==
  /\ At("bootstrap")
  /\ stage.waiting = {}
  /\ IF stage.version = 4 THEN GoTo(4, "recover", {main})
                          ELSE GoTo(stage.version, "commit", People)
  /\ UNCHANGED dualVars

\* update and commit; a commit that is refused is unstaged.
CommitOne(r) ==
  LET d == Change(r, stage.version)
  IN  /\ At("commit")
      /\ r \in stage.waiting
      /\ IF MayWrite(DataConfig(r, stage.version), d)
           THEN CommitData(r, d)
           ELSE UNCHANGED dualVars
      /\ Acted(r)

EndorseOne(r) ==
  /\ At("commit")
  /\ EndorseDataDelta(r, Change(r, stage.version))
  /\ UNCHANGED stage

AllCommitted ==
  /\ At("commit")
  /\ stage.waiting = {}
  /\ \A d \in stored : Supporting[d] \subseteq approvals[d]
  /\ GoTo(stage.version, "reload", People)
  /\ UNCHANGED dualVars

ReloadOne(r) ==
  /\ At("reload")
  /\ r \in stage.waiting
  /\ Reload(r)
  /\ Acted(r)

ProposeNext ==
  LET next == stage.version + 1
  IN  /\ At("reload")
      /\ stage.waiting = {}
      /\ Propose(next)
      /\ GoTo(next, "endorse", EndorsersOf[next])

\* The last part starts again from the trust anchor, trust_rules_v1.
RecoverFromAnchor ==
  /\ At("recover")
  /\ main \in stage.waiting
  /\ Restart(main)
  /\ Acted(main)
  /\ UNCHANGED dataVars

Recovered ==
  /\ At("recover")
  /\ stage.waiting = {}
  /\ search[main].phase = "settled"
  /\ GoTo(4, "done", {})
  /\ UNCHANGED dualVars

ExampleNext ==
  \/ LookForRules \/ LookAgain \/ RulesActive
  \/ AllBootstrapped \/ AllCommitted \/ ProposeNext
  \/ RecoverFromAnchor \/ Recovered
  \/ \E r \in People : \/ EndorseRules(r) \/ BootstrapOne(r) \/ CommitOne(r)
                       \/ EndorseOne(r) \/ ReloadOne(r)

\* The program runs on, and the endorsers of an update get their turn.
ExampleSpec ==
  /\ ExampleInit
  /\ [][ExampleNext]_exampleVars
  /\ WF_exampleVars(ExampleNext)
  /\ WF_exampleVars(\E r \in People : EndorseRules(r))
-----------------------------------------------------------------------------

ExampleTypeOK ==
  /\ TrustTypeOK
  /\ DataTypeOK
  /\ stage \in Stage

Committed == {v \in 1..3 : v < stage.version \/ (v = stage.version /\ At("reload"))}

(***************************************************************************)
(* The assertions of the program hold in every order its people may act in:*)
(* whose commits fail, that all see the same, whose changes these are, that*)
(* an update is not active before a majority of the old trustees endorsed  *)
(* it, and which version the last search recovers.  (299-366, 580-648,     *)
(* 860-927, 1063-1131, 470-471, 1154)                                      *)
(***************************************************************************)
AssertionsHold ==
  /\ ExampleTypeOK
  /\ \A r \in People, v \in Committed :
        Change(r, v) \in stored <=> r \notin Outcome[v].refused
  /\ \A r, s \in People \ stage.waiting :
        (At("reload") \/ At("recover")) /\ search[main].phase = "settled"
          => /\ replica[r].loaded = replica[s].loaded
             /\ LET v == stage.version
                    n == IF v = 4 THEN 3 ELSE v
                IN  \A q \in People :
                      Change(q, n) \in replica[r].loaded <=> q \in Outcome[v].seen
  /\ LET v == search[main].held
     IN  v > 1 => Cardinality(endorsed[v] \cap EndorsersOf[v]) >= 2
  /\ At("done") => search[main].held = 4

(***************************************************************************)
(* The program ends: each version is found once it is endorsed, everybody  *)
(* gets to act, and the last loop arrives.  (94-1160)                      *)
(***************************************************************************)
ProgramEnds == <>At("done")
=============================================================================
