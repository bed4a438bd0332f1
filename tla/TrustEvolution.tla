--------------------------- MODULE TrustEvolution ---------------------------
(***************************************************************************)
(* The Trust CRDT (src/examples/endorsements.rs): a store of proposed trust*)
(* configurations, each a delta that any holder of a key may endorse, and  *)
(* participants that search the latest one from their trust anchor, reading*)
(* the store through a TrustAdapter that the configuration they hold sets  *)
(* up.  Melda is a library: it applies a delta when it can read it and all *)
(* deltas that one is based on, and of the applied versions of the document*)
(* it prefers the one of the highest revision.                             *)
(***************************************************************************)
EXTENDS TrustRules, FiniteSetsExt

CONSTANTS
  Participants,
  Versions,  \* trust deltas, numbered in Melda's order of preference
  Genesis,   \* the first of them, the trust anchor of every participant
  Revision,  \* Revision[v]: how many updates deep v is
  Document,  \* Document[v]: the trust configuration v proposes
  Willing    \* Willing[v]: the keys whose owners may ever endorse v

ASSUME VersionsAssumption ==
  /\ Versions \subseteq Deltas \cap Nat
  /\ IsFiniteSet(Versions)
  /\ Genesis \in Versions
  /\ Revision \in [Versions -> Nat]
  /\ \A v, w \in Versions : Revision[v] < Revision[w] => v < w

ASSUME DocumentAssumption ==
  /\ Document \in [Versions -> ConfigurationJson]
  /\ Willing \in [Versions -> SUBSET Keys]

VARIABLES
  proposals,  \* the trust deltas stored
  loads,      \* contents of the store that an author may have loaded
  based,      \* based[v]: the deltas v is based on
  endorsed,   \* endorsed[v]: the keys with a valid record for v
  search      \* search[p]: how far p is in its search of the latest version

trustVars == <<proposals, loads, based, endorsed, search>>

(***************************************************************************)
(* A search holds a version.  While it loads the store under that version, *)
(* some proposals are still to be read and some were readable.  "supported"*)
(* is a history bit for NoRollback: the version held was acceptable to     *)
(* itself when the load began.                                             *)
(***************************************************************************)
Search == [phase     : {"between", "loading", "settled", "failed"},
           held      : Versions,
           todo      : SUBSET Versions,
           shown     : SUBSET Versions,
           supported : BOOLEAN]

Between(v) == [phase |-> "between", held |-> v, todo |-> {}, shown |-> {},
               supported |-> FALSE]

Ended(v, phase) == [phase |-> phase, held |-> v, todo |-> {}, shown |-> {},
                    supported |-> FALSE]

\* The configuration that version u sets up.
ConfigOf == [u \in Versions |-> FromJson(Document[u])]

\* Whether a TrustAdapter set up by version u lets v be read.
Accepts(u, v) == Shows(ConfigOf[u], v, endorsed[v])

\* Mutant: a delta is applied whatever became of those it is based on.
Applied_Alone(shown) == shown

\* Melda applies what it could read together with all it is based on.
Applied(shown) == {v \in shown : based[v] \subseteq shown}

\* Mutant: of several updates the first is kept.
Preferred_FirstUpdate(applied) ==
  IF applied = {Genesis} THEN Genesis ELSE Min(applied \ {Genesis})

Preferred(applied) == Max(applied)

\* Version u accepts all of itself, so that reading under it finds it again.
Supported(u) == \A v \in based[u] \cup {u} : Accepts(u, v)

\* What an uninterrupted load under u would find, if anything.
Found(u) == Applied({v \in proposals : Accepts(u, v)})

TrustTypeOK ==
  /\ proposals \subseteq Versions /\ Genesis \in proposals
  /\ loads \subseteq SUBSET proposals
  /\ based \in [Versions -> SUBSET Versions]
  /\ endorsed \in [Versions -> SUBSET Keys]
  /\ search \in [Participants -> Search]

TrustInit ==
  /\ proposals = {Genesis}
  /\ loads = {{Genesis}}
  /\ based = [v \in Versions |-> {}]
  /\ endorsed = [v \in Versions |-> {}]
  /\ search = [p \in Participants |-> Between(Genesis)]
-----------------------------------------------------------------------------
(***************************************************************************)
(* update_trust_configuration loads the whole store, without a TrustAdapter, *)
(* and commits a new version on all of it.  Others commit in between, so the *)
(* store it loaded may be any earlier one.                                 *)
(***************************************************************************)
UpdateTrustConfiguration(v) ==
  /\ v \notin proposals
  /\ \E loaded \in loads :
       /\ Revision[v] = Revision[Preferred(loaded)] + 1
       /\ based' = [based EXCEPT ![v] = loaded]
  /\ proposals' = proposals \cup {v}
  /\ loads' = loads \cup {proposals'}
  /\ UNCHANGED <<endorsed, search>>

\* endorse_trust_delta signs through a permissive adapter: anybody may.
EndorseTrustDelta(k, v) ==
  /\ v \in proposals
  /\ k \in Willing[v] \ endorsed[v]
  /\ endorsed' = [endorsed EXCEPT ![v] = @ \cup {k}]
  /\ UNCHANGED <<proposals, loads, based, search>>

\* Mutant: the version held is not read again.
GetTrustConfiguration_SkipHeld(p) ==
  /\ search[p].phase = "between"
  /\ search' = [search EXCEPT ![p] =
       [@ EXCEPT !.phase = "loading", !.todo = proposals \ {search[p].held},
                 !.supported = Supported(search[p].held)]]
  /\ UNCHANGED <<proposals, loads, based, endorsed>>

(***************************************************************************)
(* get_trust_configuration: list the deltas, read each under the version   *)
(* held, take the document that results.  Each delta is read at a moment of*)
(* its own.                                                                *)
(***************************************************************************)
GetTrustConfiguration(p) ==
  /\ search[p].phase = "between"
  /\ search' = [search EXCEPT ![p] =
       [@ EXCEPT !.phase = "loading", !.todo = proposals,
                 !.supported = Supported(search[p].held)]]
  /\ UNCHANGED <<proposals, loads, based, endorsed>>

\* Mutant: the store is read without a TrustAdapter.
ReadProposal_Unfiltered(p, v) ==
  /\ search[p].phase = "loading"
  /\ v \in search[p].todo
  /\ search' = [search EXCEPT ![p] =
       [@ EXCEPT !.todo  = search[p].todo \ {v},
                 !.shown = search[p].shown \cup {v}]]
  /\ UNCHANGED <<proposals, loads, based, endorsed>>

ReadProposal(p, v) ==
  /\ search[p].phase = "loading"
  /\ v \in search[p].todo
  /\ search' = [search EXCEPT ![p] =
       [@ EXCEPT
         !.todo  = search[p].todo \ {v},
         !.shown = search[p].shown \cup (IF Accepts(search[p].held, v) THEN {v} ELSE {})]]
  /\ UNCHANGED <<proposals, loads, based, endorsed>>

\* Mutant: what was shown under the version before still counts.
FinishLoad_KeepShown(p) ==
  LET applied == Applied(search[p].shown)
  IN  /\ search[p].phase = "loading"
      /\ search[p].todo = {}
      /\ applied # {}
      /\ search' = [search EXCEPT ![p] =
           IF Preferred(applied) = @.held
             THEN Ended(@.held, "settled")
             ELSE [Between(Preferred(applied)) EXCEPT !.shown = search[p].shown]]
      /\ UNCHANGED <<proposals, loads, based, endorsed>>

\* With nothing applied there is no document, and the caller panics.
FinishLoad(p) ==
  LET held    == search[p].held
      applied == Applied(search[p].shown)
  IN  /\ search[p].phase = "loading"
      /\ search[p].todo = {}
      /\ \/ /\ applied = {}
            /\ search' = [search EXCEPT ![p] = Ended(held, "failed")]
         \/ /\ applied # {} /\ Preferred(applied) = held
            /\ search' = [search EXCEPT ![p] = Ended(held, "settled")]
         \/ /\ applied # {} /\ Preferred(applied) # held
            /\ search' = [search EXCEPT ![p] = Between(Preferred(applied))]
      /\ UNCHANGED <<proposals, loads, based, endorsed>>

\* A later look from the version held, as before each phase of the example.
Resume(p) ==
  /\ search[p].phase = "settled"
  /\ search' = [search EXCEPT ![p] = Between(@.held)]
  /\ UNCHANGED <<proposals, loads, based, endorsed>>

\* The program ends, by a panic or otherwise, and begins at its trust anchor.
Restart(p) ==
  /\ search' = [search EXCEPT ![p] = Between(Genesis)]
  /\ UNCHANGED <<proposals, loads, based, endorsed>>

Searching(p) ==
  \/ GetTrustConfiguration(p)
  \/ \E v \in Versions : ReadProposal(p, v)
  \/ FinishLoad(p)

TrustNext ==
  \/ \E v \in Versions : UpdateTrustConfiguration(v)
  \/ \E k \in Keys, v \in Versions : EndorseTrustDelta(k, v)
  \/ \E p \in Participants : Searching(p) \/ Resume(p) \/ Restart(p)

TrustSpec == TrustInit /\ [][TrustNext]_trustVars

(***************************************************************************)
(* Fairness: a search goes on, is repeated, and a program that panicked is *)
(* started again.                                                          *)
(***************************************************************************)
TrustFairness ==
  \A p \in Participants :
    /\ WF_trustVars(Searching(p))
    /\ WF_trustVars(Resume(p))
    /\ WF_trustVars(search[p].phase = "failed" /\ Restart(p))

FairTrustSpec == TrustSpec /\ TrustFairness
-----------------------------------------------------------------------------
(***************************************************************************)
(* Properties                                                              *)
(***************************************************************************)

\* A quorum of c's trusted keys, by what each mode promises.
IsQuorum(c, ks) ==
  LET trusted == c.keystore.trusted_keys
  IN  /\ c.endorsement_mode = "Single" => ks # {}
      /\ c.endorsement_mode = "Majority" => Cardinality(trusted \ ks) < Cardinality(ks)
      /\ c.endorsement_mode = "Unanimous" => ks = trusted

\* Eligible[u][w]: the trusted keys of version u that are allowed what w changes.
Eligible ==
  [u \in Versions |->
     LET c == ConfigOf[u]
     IN  [w \in Versions |-> {k \in c.keystore.trusted_keys : MayApprove(c, k, w)}]]

Approvers(u, w) == endorsed[w] \cap Eligible[u][w]

\* Version u lets v take effect, without counting as the adapter does.
Ratifies(u, v) ==
  LET c == ConfigOf[u]
  IN  \A w \in based[v] \cup {v} :
        /\ w \notin c.delta_filter.blacklist
        /\ w \in c.delta_filter.whitelist \/ IsQuorum(c, Approvers(u, w))

Ratified == {e \in Versions \X proposals : Ratifies(e[1], e[2])}

\* The versions with a chain of ratifications from the trust anchor.
InEffect ==
  LET ratified == Ratified
      closed   == {S \in SUBSET Versions :
                     Genesis \in S /\ \A e \in ratified : e[1] \in S => e[2] \in S}
  IN  {v \in Versions : \A S \in closed : v \in S}

heldBar == [p \in Participants |-> search[p].held]

Chain == INSTANCE TrustChain WITH ratified <- Ratified, held <- heldBar

(***************************************************************************)
(* The search implements TrustChain: whoever goes on to a version was let to *)
(* by the one held until then, at that instant and for all it is based on, *)
(* although the load read the proposals one by one while others proposed and *)
(* endorsed, and nothing shown under an earlier version counts.  (45-55,   *)
(* 1140-1157)                                                              *)
(***************************************************************************)
ChainSpec == Chain!Spec

(***************************************************************************)
(* A participant only ever holds a version with a chain of approvals to the*)
(* trust anchor: each version in it, and every proposal underneath it, was *)
(* ratified by the one before, although a load reads the proposals one by  *)
(* one while others propose and endorse.  (README.md 279; 45-55, 1140-1157)*)
(***************************************************************************)
ChainOfQuorums ==
  \A p \in Participants : search[p].held \in InEffect

(***************************************************************************)
(* Where a version is governed by a majority, any two proposals that it    *)
(* accepts have a common approver: an honest majority never lets two       *)
(* branches of the trust document grow, whatever the number of trustees and*)
(* whoever else signs.  (trustadapter.rs 446-452, 475-481)                 *)
(***************************************************************************)
ForksShareApprover ==
  \A u, v, w \in proposals :
    LET c == ConfigOf[u]
    IN  /\ c.endorsement_mode = "Majority"
        /\ {v, w} \cap c.delta_filter.whitelist = {}
        /\ Accepts(u, v) /\ Accepts(u, w)
        => Approvers(u, v) \cap Approvers(u, w) # {}

\* Any two majorities, one of S and one of T, have a key in common.
MajoritiesMeet(S, T) ==
  \A A \in SUBSET S, B \in SUBSET T :
    Cardinality(S \ A) < Cardinality(A) /\ Cardinality(T \ B) < Cardinality(B)
      => A \cap B # {}

\* The versions whose trustees decide by majorities that meet.
Akin ==
  {e \in Versions \X Versions :
     LET c(v) == ConfigOf[v]
     IN  /\ \A v \in {e[1], e[2]} : c(v).endorsement_mode = "Majority"
         /\ MajoritiesMeet(c(e[1]).keystore.trusted_keys, c(e[2]).keystore.trusted_keys)}

\* Neither of two versions was made in knowledge of the other.
Conflict(v, w) == v # w /\ v \notin based[w] /\ w \notin based[v]

\* All that participants may come to hold, by loads that nothing interrupts.
Adoptable ==
  LET found  == [u \in Versions |-> Found(u)]
      closed == {S \in SUBSET Versions : Genesis \in S /\ \A u \in S : found[u] \subseteq S}
  IN  {v \in Versions : \A S \in closed : v \in S}

(***************************************************************************)
(* The trust document does not split: if the versions that can be adopted  *)
(* exempt no proposal but the anchor and are governed by majorities that   *)
(* meet, and nobody endorsed both of two conflicting proposals, then all   *)
(* that participants hold, and that any of them can come to hold, lies on  *)
(* one branch, whoever proposed what, in which order and on which load of  *)
(* the store.  (README.md 279; 45-55, 1140-1157)                           *)
(***************************************************************************)
OneBranch ==
  LET adoptable == Adoptable
      steady    == /\ adoptable \X adoptable \subseteq Akin
                   /\ \A u \in adoptable : Document[u].delta_filter.whitelist \subseteq {Genesis}
      honest    == \A v, w \in proposals :
                     Conflict(v, w) => endorsed[v] \cap endorsed[w] = {}
      held      == {search[p].held : p \in Participants}
  IN  honest /\ steady =>
        \A v, w \in adoptable \cup held : ~ Conflict(v, w)

(***************************************************************************)
(* What the steps preserve together: a load has shown only what the version*)
(* held accepts now, and one that began on a version accepting itself has  *)
(* all of that version still to read or shown.  (45-55)                    *)
(***************************************************************************)
SearchInv(s) ==
  /\ s.held \in proposals
  /\ s.todo \cup s.shown \subseteq proposals
  /\ \A v \in s.shown : Accepts(s.held, v)
  /\ s.supported => /\ s.phase = "loading"
                    /\ Supported(s.held)
                    /\ based[s.held] \cup {s.held} \subseteq s.todo \cup s.shown

TrustInv ==
  /\ TrustTypeOK
  /\ \A loaded \in loads : Genesis \in loaded
  /\ \A v \in proposals : /\ based[v] \subseteq proposals
                          /\ v # Genesis => Genesis \in based[v]
  /\ \A p \in Participants : SearchInv(search[p])

(***************************************************************************)
(* A load that began on a version accepting itself ends the search there or*)
(* goes on to a later one: the search neither falls back nor ends without a*)
(* document, which would be a panic, and it takes no more loads than there *)
(* are versions, whatever is proposed or endorsed meanwhile.  (45-61,      *)
(* 1140-1152)                                                              *)
(***************************************************************************)
NoRollback ==
  [][\A p \in Participants :
       FinishLoad(p) /\ search[p].supported =>
         \/ search'[p].phase = "settled" /\ search'[p].held = search[p].held
         \/ search'[p].phase = "between" /\ search'[p].held > search[p].held]_trustVars

(***************************************************************************)
(* A participant whose versions keep accepting themselves arrives: the loop*)
(* ends, and from some time on what it holds is what a load would find.    *)
(* (1140-1152)                                                             *)
(***************************************************************************)
Arrives(p) ==
  /\ []<>(search[p].phase = "settled")
  /\ <>[](Found(search[p].held) # {} /\ search[p].held = Preferred(Found(search[p].held)))

\* From some time on the program is started again only after a panic.
NoMoreCrashes(p) ==
  <>[][Restart(p) => \/ search[p].phase = "failed"
                     \/ FinishLoad(p) \/ Resume(p)]_trustVars

SelfSupportedSearchArrives ==
  \A p \in Participants :
    NoMoreCrashes(p) /\ <>[]Supported(search[p].held) => Arrives(p)

(***************************************************************************)
(* "It only takes effect after receiving the required endorsements from the*)
(* trustees defined by the previous configuration" (README.md 279): a      *)
(* version held is ratified by the latest of those in effect that it is    *)
(* based on.                                                               *)
(***************************************************************************)
PreviousTrusteesDecide ==
  \A p \in Participants :
    LET v        == search[p].held
        previous == based[v] \cap InEffect
    IN  previous # {} => Ratifies(Preferred(previous), v)
=============================================================================
