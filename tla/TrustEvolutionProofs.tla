------------------------ MODULE TrustEvolutionProofs ------------------------
(***************************************************************************)
(* Proofs about the search of the latest trust configuration: what every   *)
(* step preserves, that a version held has its chain of quorums, and that a*)
(* search does not fall back.                                              *)
(***************************************************************************)
EXTENDS TrustEvolution, TrustRulesProofs

\* What a version sets up is read from its document, and well formed.
LEMMA ConfigIsFromDocument == \A u \in Versions : ConfigOf[u] = FromJson(Document[u])
BY DEF ConfigOf

LEMMA ConfigIsWellFormed == \A u \in Versions : ConfigOf[u] \in Configuration
BY ConfigIsFromDocument, DocumentAssumption, ConfigurationOfDocument DEF WellFormed

(***************************************************************************)
(* The preferred version exists: a least set of versions without a last one*)
(* would have one, since removing a version from it leaves a smaller set.  *)
(***************************************************************************)
LEMMA LastVersion ==
  ASSUME NEW applied \in SUBSET Versions, applied # {}
  PROVE  /\ Preferred(applied) \in applied
         /\ \A v \in applied : Preferred(applied) >= v
<1> DEFINE HasLast(S) == \E v \in S : \A w \in S : v >= w
           bad == {S \in SUBSET Versions : S # {} /\ ~ HasLast(S)}
           R == StrictSubsetOrdering(Versions)
<1>1. IsWellFoundedOn(R, FiniteSubsetsOf(Versions))
  BY FS_StrictSubsetOrderingWellFounded
<1>2. \A S \in SUBSET Versions : S \in FiniteSubsetsOf(Versions)
  BY VersionsAssumption, FS_Subset DEF FiniteSubsetsOf
<1>3. bad = {}
  <2> SUFFICES ASSUME bad # {} PROVE FALSE
    OBVIOUS
  <2>1. bad \subseteq FiniteSubsetsOf(Versions)
    BY <1>2
  <2>2. \E S \in bad : \A T \in bad : <<T, S>> \notin R
    <3> HIDE DEF bad, R
    <3>1. QED
      BY <1>1, <2>1, WFMin
  <2>3. PICK S \in bad : \A T \in bad : <<T, S>> \notin R
    BY <2>2
  <2>4. PICK x \in S : TRUE
    OBVIOUS
  <2>5. <<S \ {x}, S>> \in R
    BY DEF StrictSubsetOrdering
  <2>6. S \ {x} = {} \/ HasLast(S \ {x})
    BY <2>3, <2>5
  <2>7. \A v \in S : v \in Nat
    BY VersionsAssumption
  <2>8. HasLast(S)
    <3>1. CASE S \ {x} = {}
      BY <2>7, <3>1
    <3>2. CASE HasLast(S \ {x})
      <4>1. PICK m \in S \ {x} : \A w \in S \ {x} : m >= w
        BY <3>2
      <4>2. CASE m >= x
        BY <4>1, <4>2
      <4>3. CASE x >= m
        BY <2>7, <4>1, <4>3
      <4>4. QED
        BY <2>7, <4>2, <4>3
    <3>3. QED
      BY <2>6, <3>1, <3>2
  <2>9. QED
    BY <2>8
<1>4. HasLast(applied)
  BY <1>3
<1>5. QED
  BY <1>4 DEF Preferred, Max

\* Where a load found something, what it takes is among what it was shown.
LEMMA TakenWasShown ==
  ASSUME TrustTypeOK, NEW shown \in SUBSET Versions, Applied(shown) # {}
  PROVE  LET v == Preferred(Applied(shown))
         IN  /\ v \in Versions
             /\ based[v] \cup {v} \subseteq shown
             /\ \A w \in Applied(shown) : v >= w
<1>1. Applied(shown) \in SUBSET Versions
  BY DEF Applied
<1>2. Preferred(Applied(shown)) \in Applied(shown)
  BY <1>1, LastVersion
<1>3. QED
  BY <1>1, <1>2, LastVersion DEF Applied

\* Endorsements and proposals are never taken back, and what a proposal is
\* based on does not change.
Grows ==
  /\ proposals \subseteq proposals'
  /\ \A v \in Versions : endorsed[v] \subseteq endorsed'[v]
  /\ \A v \in proposals : based'[v] = based[v]

LEMMA StoreGrows ==
  ASSUME TrustTypeOK, [TrustNext]_trustVars
  PROVE  Grows
<1>1. ASSUME NEW v \in Versions, UpdateTrustConfiguration(v)
      PROVE  Grows
  BY <1>1 DEF UpdateTrustConfiguration, Grows, TrustTypeOK
<1>2. ASSUME NEW k \in Keys, NEW v \in Versions, EndorseTrustDelta(k, v)
      PROVE  Grows
  BY <1>2 DEF EndorseTrustDelta, Grows, TrustTypeOK
<1>3. ASSUME UNCHANGED <<proposals, loads, based, endorsed>>
      PROVE  Grows
  BY <1>3 DEF Grows
<1>4. ASSUME NEW p \in Participants, Searching(p) \/ Resume(p) \/ Restart(p)
      PROVE  Grows
  BY <1>3, <1>4 DEF Searching, GetTrustConfiguration, ReadProposal, FinishLoad,
                    Resume, Restart
<1>5. QED
  BY <1>1, <1>2, <1>3, <1>4 DEF TrustNext, trustVars

LEMMA AcceptsStays ==
  ASSUME TrustTypeOK, Grows, NEW u \in Versions, NEW v \in Versions, Accepts(u, v)
  PROVE  Accepts(u, v)'
<1>1. ConfigOf[u] \in Configuration
  BY ConfigIsWellFormed
<1>2. endorsed[v] \subseteq endorsed'[v]
  BY DEF Grows
<1>3. Shows(ConfigOf[u], v, endorsed'[v])
  BY <1>1, <1>2, MoreSignersShow DEF Accepts
<1>4. QED
  BY <1>3 DEF Accepts

\* The invariant of a search survives whatever happens to the store.
LEMMA SearchInvStays ==
  ASSUME TrustInv, TrustTypeOK', Grows, NEW s \in Search, SearchInv(s)
  PROVE  SearchInv(s)'
<1>1. s.held \in proposals /\ s.held \in Versions /\ proposals \subseteq Versions
  BY DEF SearchInv, TrustInv, TrustTypeOK
<1>2. s.held \in proposals' /\ based'[s.held] = based[s.held]
      /\ s.todo \cup s.shown \subseteq proposals'
  BY <1>1 DEF Grows, SearchInv
<1>3. \A v \in s.shown : Accepts(s.held, v)'
  BY <1>1, AcceptsStays DEF SearchInv, TrustInv
<1>4. ASSUME Supported(s.held) PROVE Supported(s.held)'
  <2>1. \A v \in based[s.held] \cup {s.held} : v \in Versions /\ Accepts(s.held, v)
    BY <1>1, <1>4 DEF Supported, TrustInv, TrustTypeOK
  <2>2. \A v \in based[s.held] \cup {s.held} : Accepts(s.held, v)'
    BY <1>1, <2>1, AcceptsStays DEF TrustInv
  <2>3. QED
    BY <1>2, <2>2 DEF Supported
<1>5. QED
  BY <1>2, <1>3, <1>4 DEF SearchInv

-----------------------------------------------------------------------------
\* A step that sets the search of p to s and leaves the store alone.
SearchBecomes(p, s) ==
  /\ search' = [search EXCEPT ![p] = s]
  /\ UNCHANGED <<proposals, loads, based, endorsed>>

LEMMA SearchStep ==
  ASSUME TrustInv, NEW p \in Participants, NEW s \in Search, SearchInv(s),
         SearchBecomes(p, s)
  PROVE  TrustInv'
<1>1. TrustTypeOK'
  BY DEF TrustInv, TrustTypeOK, SearchBecomes
<1>2. \A q \in Participants : search'[q] \in {search[q], s} /\ SearchInv(search'[q])
  BY DEF TrustInv, TrustTypeOK, SearchBecomes
<1>3. \A q \in Participants : SearchInv(search[q])'
  BY <1>2 DEF SearchBecomes, SearchInv, Supported, Accepts
<1>4. QED
  BY <1>1, <1>3 DEF TrustInv, SearchBecomes

LEMMA Proposing ==
  ASSUME TrustInv, NEW v \in Versions, UpdateTrustConfiguration(v)
  PROVE  TrustInv'
<1>1. PICK loaded \in loads : based' = [based EXCEPT ![v] = loaded]
  BY DEF UpdateTrustConfiguration
<1>2. /\ v \notin proposals
      /\ proposals' = proposals \cup {v}
      /\ loads' = loads \cup {proposals'}
      /\ UNCHANGED <<endorsed, search>>
  BY DEF UpdateTrustConfiguration
<1>3. loaded \subseteq proposals /\ loaded \in SUBSET Versions
  BY DEF TrustInv, TrustTypeOK
<1>4. TrustTypeOK'
  BY <1>1, <1>2, <1>3 DEF TrustInv, TrustTypeOK
<1>5. /\ \A l \in loads' : Genesis \in l
      /\ \A w \in proposals' : /\ based'[w] \subseteq proposals'
                               /\ w # Genesis => Genesis \in based'[w]
  BY <1>1, <1>2, <1>3 DEF TrustInv, TrustTypeOK
<1>6. Grows
  BY <1>1, <1>2 DEF Grows, TrustInv, TrustTypeOK
<1>7. ASSUME NEW p \in Participants PROVE SearchInv(search[p])'
  <2>1. PICK s \in Search : s = search[p] /\ SearchInv(s)
    BY DEF TrustInv, TrustTypeOK
  <2>2. SearchInv(s)'
    BY <1>4, <1>6, <2>1, SearchInvStays
  <2>3. search'[p] = s
    BY <1>2, <2>1
  <2>4. QED
    BY <2>2, <2>3 DEF SearchInv, Supported, Accepts
<1>8. QED
  BY <1>4, <1>5, <1>7 DEF TrustInv

LEMMA Endorsing ==
  ASSUME TrustInv, NEW k \in Keys, NEW v \in Versions, EndorseTrustDelta(k, v)
  PROVE  TrustInv'
<1>1. /\ endorsed' = [endorsed EXCEPT ![v] = @ \cup {k}]
      /\ UNCHANGED <<proposals, loads, based, search>>
  BY DEF EndorseTrustDelta
<1>2. TrustTypeOK' /\ Grows
  BY <1>1 DEF TrustInv, TrustTypeOK, Grows
<1>3. ASSUME NEW p \in Participants PROVE SearchInv(search[p])'
  <2>1. PICK s \in Search : s = search[p] /\ SearchInv(s)
    BY DEF TrustInv, TrustTypeOK
  <2>2. SearchInv(s)'
    BY <1>2, <2>1, SearchInvStays
  <2>3. search'[p] = s
    BY <1>1, <2>1
  <2>4. QED
    BY <2>2, <2>3 DEF SearchInv, Supported, Accepts
<1>4. QED
  BY <1>1, <1>2, <1>3 DEF TrustInv

LEMMA Reading ==
  ASSUME TrustInv, NEW p \in Participants,
         GetTrustConfiguration(p) \/ \E v \in Versions : ReadProposal(p, v)
  PROVE  TrustInv'
<1> DEFINE s == search[p]
<1>1. /\ s \in Search /\ SearchInv(s)
      /\ search \in [Participants -> Search] /\ proposals \in SUBSET Versions
      /\ based[s.held] \cup {s.held} \subseteq proposals
  BY DEF TrustInv, TrustTypeOK, SearchInv
<1>2. CASE GetTrustConfiguration(p)
  <2> DEFINE t == [s EXCEPT !.phase = "loading", !.todo = proposals,
                            !.supported = Supported(s.held)]
  <2>1. search' = [search EXCEPT ![p] = t]
    BY <1>2 DEF GetTrustConfiguration
  <2>2. t \in Search
    BY <1>1 DEF Search, Supported
  <2>3. /\ t.held = s.held /\ t.todo = proposals /\ t.shown = s.shown
        /\ t.phase = "loading" /\ t.supported = Supported(s.held)
    BY <1>1 DEF Search
  <2> HIDE DEF t
  <2>4. SearchInv(t)
    BY <1>1, <2>3 DEF SearchInv
  <2>5. QED
    BY <1>2, <2>1, <2>2, <2>4, SearchStep DEF SearchBecomes, GetTrustConfiguration
<1>3. ASSUME NEW v \in Versions, ReadProposal(p, v)
      PROVE  TrustInv'
  <2> DEFINE more == s.shown \cup (IF Accepts(s.held, v) THEN {v} ELSE {})
             rest == s.todo \ {v}
             t == [s EXCEPT !.todo = rest, !.shown = more]
  <2>1. search' = [search EXCEPT ![p] = t]
    BY <1>3 DEF ReadProposal
  <2>2. /\ v \in s.todo /\ s.phase = "loading"
        /\ more \in SUBSET (s.shown \cup {v}) /\ rest \subseteq s.todo
        /\ \A w \in more : Accepts(s.held, w)
        /\ Accepts(s.held, v) => s.todo \cup s.shown \subseteq rest \cup more
        /\ s.todo \cup s.shown \subseteq rest \cup more \cup {v}
    BY <1>1, <1>3 DEF ReadProposal, SearchInv
  <2>3. s.supported => based[s.held] \cup {s.held} \subseteq rest \cup more
    <3>1. CASE v \in based[s.held] \cup {s.held}
      BY <1>1, <2>2, <3>1 DEF SearchInv, Supported
    <3>2. CASE v \notin based[s.held] \cup {s.held}
      BY <1>1, <2>2, <3>2 DEF SearchInv
    <3>3. QED
      BY <3>1, <3>2
  <2> HIDE DEF more, rest
  <2>4. t \in Search
    <3>1. rest \in SUBSET Versions /\ more \in SUBSET Versions
      BY <1>1, <2>2 DEF Search
    <3>2. QED
      BY <1>1, <3>1 DEF Search
  <2>5. /\ t.held = s.held /\ t.todo = rest /\ t.shown = more
        /\ t.phase = s.phase /\ t.supported = s.supported
    BY <1>1 DEF Search
  <2> HIDE DEF t
  <2>6. SearchInv(t)
    BY <1>1, <2>2, <2>3, <2>5 DEF SearchInv
  <2>7. QED
    BY <1>3, <2>1, <2>4, <2>6, SearchStep DEF SearchBecomes, ReadProposal
<1>4. QED
  BY <1>2, <1>3

LEMMA Ending ==
  ASSUME TrustInv, NEW p \in Participants,
         FinishLoad(p) \/ Resume(p) \/ Restart(p)
  PROVE  TrustInv'
<1> DEFINE s == search[p]
<1>1. /\ s \in Search /\ SearchInv(s) /\ s.shown \in SUBSET Versions
      /\ search \in [Participants -> Search]
      /\ Genesis \in proposals /\ proposals \in SUBSET Versions
  BY DEF TrustInv, TrustTypeOK, Search
<1>2. \E v \in proposals, phase \in {"between", "settled", "failed"} :
        SearchBecomes(p, Ended(v, phase))
  <2>1. CASE FinishLoad(p) /\ Applied(s.shown) = {}
    <3>1. SearchBecomes(p, Ended(s.held, "failed"))
      BY <2>1 DEF FinishLoad, SearchBecomes
    <3>2. QED
      BY <1>1, <3>1 DEF SearchInv
  <2>2. CASE FinishLoad(p) /\ Applied(s.shown) # {}
    <3>1. Preferred(Applied(s.shown)) \in proposals
      BY <1>1, <2>2, TakenWasShown DEF TrustInv, SearchInv
    <3>2. CASE Preferred(Applied(s.shown)) = s.held
      <4>1. SearchBecomes(p, Ended(s.held, "settled"))
        BY <2>2, <3>2 DEF FinishLoad, SearchBecomes
      <4>2. QED
        BY <1>1, <4>1 DEF SearchInv
    <3>3. CASE Preferred(Applied(s.shown)) # s.held
      <4>1. SearchBecomes(p, Ended(Preferred(Applied(s.shown)), "between"))
        BY <2>2, <3>3 DEF FinishLoad, SearchBecomes, Between, Ended
      <4>2. QED
        BY <3>1, <4>1
    <3>4. QED
      BY <3>2, <3>3
  <2>3. CASE Resume(p)
    BY <1>1, <2>3 DEF Resume, SearchBecomes, SearchInv, Between, Ended
  <2>4. CASE Restart(p)
    BY <1>1, <2>4 DEF Restart, SearchBecomes, Between, Ended
  <2>5. QED
    BY <2>1, <2>2, <2>3, <2>4
<1>3. PICK v \in proposals, phase \in {"between", "settled", "failed"} :
        SearchBecomes(p, Ended(v, phase))
  BY <1>2
<1>4. Ended(v, phase) \in Search
  BY <1>1 DEF Ended, Search
<1>5. SearchInv(Ended(v, phase))
  BY DEF SearchInv, Ended
<1>6. QED
  BY <1>3, <1>4, <1>5, SearchStep

LEMMA TrustStepKeepsInv ==
  ASSUME TrustInv, [TrustNext]_trustVars
  PROVE  TrustInv'
<1>1. CASE \E v \in Versions : UpdateTrustConfiguration(v)
  BY <1>1, Proposing
<1>2. CASE \E k \in Keys, v \in Versions : EndorseTrustDelta(k, v)
  BY <1>2, Endorsing
<1>3. CASE \E p \in Participants : Searching(p) \/ Resume(p) \/ Restart(p)
  BY <1>3, Reading, Ending DEF Searching
<1>4. CASE UNCHANGED trustVars
  BY <1>4 DEF trustVars, TrustInv, TrustTypeOK, SearchInv, Supported, Accepts
<1>5. QED
  BY <1>1, <1>2, <1>3, <1>4 DEF TrustNext

LEMMA TrustInitHasInv == TrustInit => TrustInv
<1> SUFFICES ASSUME TrustInit PROVE TrustInv
  OBVIOUS
<1>1. Between(Genesis) \in Search /\ SearchInv(Between(Genesis))
  BY VersionsAssumption DEF TrustInit, Between, Search, SearchInv
<1>2. QED
  BY <1>1, VersionsAssumption DEF TrustInit, TrustInv, TrustTypeOK

(***************************************************************************)
(* The invariant of the search: what a load has shown, the version held    *)
(* accepts, while others propose and endorse.  (endorsements.rs 45-55)     *)
(***************************************************************************)
THEOREM SearchIsSound == TrustSpec => []TrustInv
<1>1. TrustInv /\ [TrustNext]_trustVars => TrustInv'
  BY TrustStepKeepsInv
<1>2. QED
  BY <1>1, TrustInitHasInv, PTL DEF TrustSpec

(***************************************************************************)
(* A load that began on a version accepting itself ends the search there or*)
(* goes on to a later one: that version is still among what the load was   *)
(* shown.  (endorsements.rs 45-61, 1140-1152)                              *)
(***************************************************************************)
THEOREM SearchNeverFallsBack == TrustSpec => NoRollback
<1> DEFINE Ends(p) == \/ search'[p].phase = "settled" /\ search'[p].held = search[p].held
                      \/ search'[p].phase = "between" /\ search'[p].held > search[p].held
           Forward == \A p \in Participants :
                        FinishLoad(p) /\ search[p].supported => Ends(p)
<1>1. ASSUME TrustInv, NEW p \in Participants, FinishLoad(p), search[p].supported
      PROVE  Ends(p)
  <2> DEFINE s == search[p]
             applied == Applied(s.shown)
  <2>1. /\ SearchInv(s) /\ s.todo = {} /\ s.held \in Versions
        /\ s.shown \in SUBSET Versions
        /\ search \in [Participants -> Search]
    BY <1>1 DEF TrustInv, TrustTypeOK, FinishLoad, SearchInv
  <2>2. s.held \in applied
    BY <1>1, <2>1 DEF SearchInv, Applied
  <2>3. Preferred(applied) >= s.held /\ Preferred(applied) \in Nat /\ s.held \in Nat
    BY <1>1, <2>1, <2>2, TakenWasShown, VersionsAssumption DEF TrustInv
  <2>4. /\ search'[p].held = Preferred(applied)
        /\ search'[p].phase = IF Preferred(applied) = s.held THEN "settled" ELSE "between"
    BY <1>1, <2>1, <2>2 DEF FinishLoad, Ended, Between
  <2> HIDE DEF applied
  <2>5. QED
    BY <2>3, <2>4
<1>2. TrustInv /\ [TrustNext]_trustVars => [Forward]_trustVars
  BY <1>1
<1>3. QED
  BY <1>2, SearchIsSound, PTL DEF TrustSpec, NoRollback
-----------------------------------------------------------------------------
LEMMA ApproversAre ==
  ASSUME NEW u \in Versions, NEW w \in Versions
  PROVE  LET c == ConfigOf[u]
         IN  Approvers(u, w) = AllowedEndorsers(c, w, endorsed[w] \cap c.keystore.trusted_keys)
<1> DEFINE c == ConfigOf[u]
<1>1. Eligible[u][w] = {k \in c.keystore.trusted_keys : MayApprove(c, k, w)}
  BY DEF Eligible
<1> HIDE DEF c
<1>2. QED
  BY <1>1 DEF c, Approvers, AllowedEndorsers

\* What the adapter of version u accepts has a quorum of u's trusted keys.
LEMMA AcceptedHasQuorum ==
  ASSUME NEW u \in Versions, NEW w \in Versions, Accepts(u, w)
  PROVE  LET c == ConfigOf[u]
         IN  /\ w \notin c.delta_filter.blacklist
             /\ w \in c.delta_filter.whitelist \/ IsQuorum(c, Approvers(u, w))
<1> DEFINE c == ConfigOf[u]
           trusted == c.keystore.trusted_keys
           valid == endorsed[w] \cap trusted
<1>1. c \in Configuration
  BY ConfigIsWellFormed
<1>2. w \notin c.delta_filter.blacklist
  BY DEF Accepts, Shows, IsBlacklisted
<1>3. Approvers(u, w) = AllowedEndorsers(c, w, valid)
  BY ApproversAre
<1>4. CASE c.endorsement_mode = "Permissive"
  BY <1>2, <1>4 DEF IsQuorum
<1>5. CASE EnoughEndorsers(c, w, valid)
  <2>1. AllowedEndorsers(c, w, valid) \in SUBSET trusted
    BY DEF AllowedEndorsers
  <2>2. Enough(c.endorsement_mode, Cardinality(AllowedEndorsers(c, w, valid)),
               Cardinality(trusted))
    BY <1>5 DEF EnoughEndorsers
  <2>3. IsQuorum(c, AllowedEndorsers(c, w, valid))
    BY <1>1, <2>1, <2>2, CountsAreQuorums DEF IsQuorum
  <2>4. QED
    BY <1>2, <1>3, <2>3
<1>6. CASE w \in c.delta_filter.whitelist
  BY <1>2, <1>6
<1>7. QED
  BY <1>4, <1>5, <1>6 DEF Accepts, Shows, SkipsEndorsements

\* A quorum remains one when more keys endorse.
LEMMA QuorumStays ==
  ASSUME NEW c \in Configuration,
         NEW more \in SUBSET c.keystore.trusted_keys, NEW ks \in SUBSET more,
         IsQuorum(c, ks)
  PROVE  IsQuorum(c, more)
<1> DEFINE trusted == c.keystore.trusted_keys
<1>1. /\ IsFiniteSet(trusted \ ks) /\ IsFiniteSet(more) /\ IsFiniteSet(ks)
      /\ IsFiniteSet(trusted \ more)
  BY TrustedIsFinite, FS_Subset
<1>2. /\ Cardinality(trusted \ more) <= Cardinality(trusted \ ks)
      /\ Cardinality(ks) <= Cardinality(more)
  <2>1. trusted \ more \in SUBSET (trusted \ ks)
    OBVIOUS
  <2>2. QED
    BY <1>1, <2>1, FS_Subset
<1>3. /\ Cardinality(trusted \ more) \in Nat /\ Cardinality(trusted \ ks) \in Nat
      /\ Cardinality(ks) \in Nat /\ Cardinality(more) \in Nat
  BY <1>1, FS_CardinalityType
<1>4. Cardinality(trusted \ ks) < Cardinality(ks)
        => Cardinality(trusted \ more) < Cardinality(more)
  BY <1>2, <1>3
<1>5. QED
  BY <1>4 DEF IsQuorum

LEMMA RatifiedStays ==
  ASSUME TrustInv, Grows, NEW u \in Versions, NEW v \in proposals, Ratifies(u, v)
  PROVE  Ratifies(u, v)'
<1> DEFINE c == ConfigOf[u]
           trusted == c.keystore.trusted_keys
<1>1. c \in Configuration
  BY ConfigIsWellFormed
<1>2. based'[v] = based[v] /\ based[v] \cup {v} \subseteq Versions
  BY DEF Grows, TrustInv, TrustTypeOK
<1>3. ASSUME NEW w \in Versions, IsQuorum(c, Approvers(u, w))
      PROVE  IsQuorum(c, Approvers(u, w))'
  <2> DEFINE more == endorsed'[w] \cap Eligible[u][w]
  <2>0. Eligible[u][w] \subseteq trusted
    BY DEF Eligible
  <2>1. Approvers(u, w) \subseteq more /\ more \subseteq trusted
    BY <2>0 DEF Approvers, Grows
  <2>2. IsQuorum(c, more)
    BY <1>1, <1>3, <2>1, QuorumStays
  <2>3. QED
    BY <2>2 DEF Approvers, IsQuorum
<1>4. QED
  BY <1>2, <1>3 DEF Ratifies

\* In effect once, in effect for good.
LEMMA EffectStays ==
  ASSUME TrustInv, Grows, NEW v \in InEffect
  PROVE  v \in InEffect'
<1> SUFFICES ASSUME NEW S \in SUBSET Versions, Genesis \in S,
                    \A e \in Versions \X proposals' :
                      Ratifies(e[1], e[2])' => (e[1] \in S => e[2] \in S)
             PROVE  v \in S
  BY DEF InEffect, Ratified
<1>1. ASSUME NEW e \in Versions \X proposals, Ratifies(e[1], e[2]), e[1] \in S
      PROVE  e[2] \in S
  BY <1>1, RatifiedStays DEF Grows
<1>2. QED
  BY <1>1 DEF InEffect, Ratified

LEMMA RatifiedIsInEffect ==
  ASSUME TrustTypeOK, NEW u \in InEffect, NEW v \in proposals, Ratifies(u, v)
  PROVE  v \in InEffect
<1> SUFFICES ASSUME NEW S \in SUBSET Versions, Genesis \in S,
                    \A e \in Versions \X proposals :
                      Ratifies(e[1], e[2]) => (e[1] \in S => e[2] \in S)
             PROVE  v \in S
  BY DEF InEffect, Ratified, TrustTypeOK
<1>1. u \in S /\ u \in Versions
  BY DEF InEffect, Ratified
<1>2. <<u, v>> \in Versions \X proposals
  BY <1>1
<1>3. QED
  BY <1>1, <1>2

\* A search moves only to what an uninterrupted load would find as well.
LEMMA MovesToFound ==
  ASSUME TrustInv, [TrustNext]_trustVars, NEW p \in Participants
  PROVE  \/ search'[p].held \in {search[p].held, Genesis}
         \/ search'[p].held \in Found(search[p].held)
<1> DEFINE s == search[p]
           v == Preferred(Applied(s.shown))
<1>1. /\ SearchInv(s) /\ s \in Search
      /\ search \in [Participants -> Search] /\ s.held \in Versions
      /\ s.shown \in SUBSET Versions
  BY DEF TrustInv, TrustTypeOK, SearchInv, Search
<1>2. CASE \E w \in Versions : UpdateTrustConfiguration(w)
  BY <1>2 DEF UpdateTrustConfiguration
<1>3. CASE \E k \in Keys, w \in Versions : EndorseTrustDelta(k, w)
  BY <1>3 DEF EndorseTrustDelta
<1>4. ASSUME NEW q \in Participants, Searching(q) \/ Resume(q) \/ Restart(q), q # p
      PROVE  search'[p].held = s.held
  <2>1. search'[p] = search[p]
    <3>1. CASE GetTrustConfiguration(q)
      BY <1>1, <1>4, <3>1 DEF GetTrustConfiguration
    <3>2. CASE \E w \in Versions : ReadProposal(q, w)
      BY <1>1, <1>4, <3>2 DEF ReadProposal
    <3>3. CASE FinishLoad(q)
      BY <1>1, <1>4, <3>3 DEF FinishLoad
    <3>4. CASE Resume(q) \/ Restart(q)
      BY <1>1, <1>4, <3>4 DEF Resume, Restart
    <3>5. QED
      BY <1>4, <3>1, <3>2, <3>3, <3>4 DEF Searching
  <2>2. QED
    BY <2>1
<1>5. CASE GetTrustConfiguration(p)
  <2>1. search'[p].held = s.held
    BY <1>1, <1>5 DEF GetTrustConfiguration, Search
  <2>2. QED
    BY <2>1
<1>6. CASE \E w \in Versions : ReadProposal(p, w)
  <2>1. search'[p].held = s.held
    BY <1>1, <1>6 DEF ReadProposal, Search
  <2>2. QED
    BY <2>1
<1>7. CASE FinishLoad(p)
  <2>1. CASE Applied(s.shown) = {} \/ v = s.held
    BY <1>1, <1>7, <2>1 DEF FinishLoad, Ended
  <2>2. CASE Applied(s.shown) # {} /\ v # s.held
    <3>1. search'[p].held = v
      BY <1>1, <1>7, <2>2 DEF FinishLoad, Between
    <3>2. based[v] \cup {v} \subseteq s.shown /\ v \in Versions
      BY <1>1, <2>2, TakenWasShown DEF TrustInv
    <3>3. v \in Found(s.held)
      BY <1>1, <3>2 DEF SearchInv, Found, Applied
    <3>4. QED
      BY <3>1, <3>3
  <2>3. QED
    BY <2>1, <2>2
<1>8. CASE Resume(p) \/ Restart(p)
  BY <1>1, <1>8 DEF Resume, Restart, Between
<1>9. CASE UNCHANGED trustVars
  BY <1>9 DEF trustVars
<1>10. QED
  BY <1>2, <1>3, <1>4, <1>5, <1>6, <1>7, <1>8, <1>9 DEF TrustNext, Searching

\* What a load under u finds is proposed, and let take effect by u.
LEMMA FoundIsRatified ==
  ASSUME TrustInv, NEW u \in Versions, NEW v \in Found(u)
  PROVE  v \in proposals /\ v \in Versions /\ Ratifies(u, v)
<1>1. /\ v \in proposals /\ v \in Versions
      /\ \A w \in based[v] \cup {v} : w \in Versions /\ Accepts(u, w)
  BY DEF Found, Applied, TrustInv, TrustTypeOK
<1>2. QED
  BY <1>1, AcceptedHasQuorum DEF Ratifies

\* A search moves only to a version that the one held ratifies.
LEMMA MovesToRatified ==
  ASSUME TrustInv, [TrustNext]_trustVars, NEW p \in Participants
  PROVE  \/ search'[p].held \in {search[p].held, Genesis}
         \/ /\ search'[p].held \in proposals
            /\ Ratifies(search[p].held, search'[p].held)
<1>1. search[p].held \in Versions
  BY DEF TrustInv, TrustTypeOK, Search
<1>2. QED
  BY <1>1, MovesToFound, FoundIsRatified

LEMMA GenesisIsInEffect == Genesis \in InEffect
BY VersionsAssumption DEF InEffect

(***************************************************************************)
(* A participant only ever holds a version with a chain of quorums to the  *)
(* trust anchor, although a load reads proposal by proposal while others   *)
(* propose and endorse.  (README.md 279; endorsements.rs 45-55, 1140-1157) *)
(***************************************************************************)
THEOREM HeldHasChain == TrustSpec => []ChainOfQuorums
<1>1. TrustInit => ChainOfQuorums
  BY GenesisIsInEffect DEF TrustInit, ChainOfQuorums, Between
<1>2. TrustInv /\ ChainOfQuorums /\ [TrustNext]_trustVars /\ TrustInv' => ChainOfQuorums'
  <2> SUFFICES ASSUME TrustInv, ChainOfQuorums, [TrustNext]_trustVars, TrustInv',
                      NEW p \in Participants
               PROVE  search'[p].held \in InEffect'
    BY DEF ChainOfQuorums
  <2>1. TrustTypeOK /\ Grows
    BY StoreGrows DEF TrustInv
  <2>2. search[p].held \in InEffect /\ Genesis \in InEffect
    BY GenesisIsInEffect DEF ChainOfQuorums
  <2>3. search'[p].held \in InEffect
    BY <2>1, <2>2, MovesToRatified, RatifiedIsInEffect
  <2>4. QED
    BY <2>1, <2>3, EffectStays
<1>3. QED
  BY <1>1, <1>2, SearchIsSound, PTL DEF TrustSpec
-----------------------------------------------------------------------------
LEMMA MajorityApproves ==
  ASSUME NEW u \in Versions, NEW w \in Versions, Accepts(u, w),
         ConfigOf[u].endorsement_mode = "Majority",
         w \notin ConfigOf[u].delta_filter.whitelist
  PROVE  LET c == ConfigOf[u]
         IN  /\ Approvers(u, w) \in SUBSET c.keystore.trusted_keys
             /\ Cardinality(Approvers(u, w)) * 2 > Cardinality(c.keystore.trusted_keys)
<1> DEFINE c == ConfigOf[u]
<1>1. EnoughEndorsers(c, w, endorsed[w] \cap c.keystore.trusted_keys)
  BY DEF Accepts, Shows, SkipsEndorsements
<1>2. AllowedEndorsers(c, w, endorsed[w] \cap c.keystore.trusted_keys) = Approvers(u, w)
  BY ApproversAre
<1>3. Enough("Majority", Cardinality(Approvers(u, w)), Cardinality(c.keystore.trusted_keys))
  BY <1>1, <1>2 DEF EnoughEndorsers
<1>4. Approvers(u, w) \subseteq c.keystore.trusted_keys
  BY DEF Approvers, Eligible
<1>5. QED
  BY <1>3, <1>4 DEF Enough

(***************************************************************************)
(* Two proposals that a version governed by a majority accepts have a common *)
(* approver, for any number of trustees, proposals and participants.       *)
(* (trustadapter.rs 446-452, 475-481)                                      *)
(***************************************************************************)
THEOREM ForkNeedsCommonApprover == TrustSpec => []ForksShareApprover
<1>1. TrustTypeOK => ForksShareApprover
  <2> SUFFICES ASSUME NEW u \in Versions, NEW v \in Versions, NEW w \in Versions,
                      Accepts(u, v), Accepts(u, w),
                      ConfigOf[u].endorsement_mode = "Majority",
                      {v, w} \cap ConfigOf[u].delta_filter.whitelist = {}
               PROVE  Approvers(u, v) \cap Approvers(u, w) # {}
    BY DEF ForksShareApprover, TrustTypeOK
  <2> DEFINE c       == ConfigOf[u]
             trusted == c.keystore.trusted_keys
             S       == Approvers(u, v)
             T       == Approvers(u, w)
  <2>1. c \in Configuration
    BY ConfigIsWellFormed
  <2>2. S \in SUBSET trusted /\ Cardinality(S) * 2 > Cardinality(trusted)
    BY MajorityApproves
  <2>3. T \in SUBSET trusted /\ Cardinality(T) * 2 > Cardinality(trusted)
    BY MajorityApproves
  <2>4. /\ IsFiniteSet(trusted) /\ Cardinality(trusted) \in Nat
        /\ Cardinality(S) \in Nat /\ Cardinality(T) \in Nat
    BY <2>1, <2>2, <2>3, TrustedIsFinite
  <2> HIDE DEF S, T, trusted
  <2>5. Cardinality(S) + Cardinality(T) > Cardinality(trusted)
    BY <2>2, <2>3, <2>4
  <2>6. S \cap T # {}
    BY <2>2, <2>3, <2>4, <2>5, FS_MajoritiesIntersect
  <2>7. QED
    BY <2>6 DEF S, T
<1>2. QED
  BY <1>1, SearchIsSound, PTL DEF TrustInv
-----------------------------------------------------------------------------
\* Ratifications are never withdrawn.
LEMMA RatifiedGrows ==
  ASSUME TrustInv, [TrustNext]_trustVars
  PROVE  Ratified \subseteq Ratified'
<1>1. Grows
  BY StoreGrows DEF TrustInv
<1>2. ASSUME NEW u \in Versions, NEW v \in proposals, Ratifies(u, v)
      PROVE  v \in proposals' /\ Ratifies(u, v)'
  BY <1>1, <1>2, RatifiedStays DEF Grows
<1>3. QED
  BY <1>2 DEF Ratified

\* A step of p's search leaves the store and what the others hold alone.
LEMMA SearchMovesAlone ==
  ASSUME TrustInv, NEW p \in Participants, Searching(p) \/ Resume(p) \/ Restart(p)
  PROVE  /\ UNCHANGED <<proposals, loads, based, endorsed>>
         /\ heldBar' = [heldBar EXCEPT ![p] = search'[p].held]
<1>1. /\ UNCHANGED <<proposals, loads, based, endorsed>>
      /\ search' = [search EXCEPT ![p] = search'[p]]
  <2>1. search \in [Participants -> Search]
    BY DEF TrustInv, TrustTypeOK
  <2>2. CASE GetTrustConfiguration(p)
    BY <2>1, <2>2 DEF GetTrustConfiguration
  <2>3. CASE \E v \in Versions : ReadProposal(p, v)
    BY <2>1, <2>3 DEF ReadProposal
  <2>4. CASE FinishLoad(p)
    BY <2>1, <2>4 DEF FinishLoad
  <2>5. CASE Resume(p) \/ Restart(p)
    BY <2>1, <2>5 DEF Resume, Restart
  <2>6. QED
    BY <2>2, <2>3, <2>4, <2>5 DEF Searching
<1>2. QED
  BY <1>1 DEF heldBar, TrustInv, TrustTypeOK

LEMMA StepFollowsChain ==
  ASSUME TrustInv, [TrustNext]_trustVars
  PROVE  [Chain!Next]_(Chain!chainVars)
<1>1. CASE UNCHANGED search
  BY <1>1, RatifiedGrows DEF Chain!Next, Chain!Ratify, heldBar
<1>2. ASSUME NEW p \in Participants, Searching(p) \/ Resume(p) \/ Restart(p)
      PROVE  [Chain!Next]_(Chain!chainVars)
  <2>1. /\ UNCHANGED <<proposals, loads, based, endorsed>>
        /\ heldBar' = [heldBar EXCEPT ![p] = search'[p].held]
    BY <1>2, SearchMovesAlone
  <2>2. Ratified' = Ratified
    BY <2>1 DEF Ratified, Ratifies, Approvers, IsQuorum
  <2>3. heldBar[p] = search[p].held /\ heldBar = [heldBar EXCEPT ![p] = heldBar[p]]
        /\ search[p].held \in Versions
    BY DEF heldBar, TrustInv, TrustTypeOK, Search
  <2>4. CASE search'[p].held = search[p].held
    BY <2>1, <2>2, <2>3, <2>4 DEF Chain!chainVars
  <2>5. CASE search'[p].held = Genesis
    BY <2>1, <2>2, <2>5 DEF Chain!Next, Chain!StartAgain
  <2>6. CASE /\ search'[p].held \in proposals
             /\ Ratifies(search[p].held, search'[p].held)
    <3>1. <<search[p].held, search'[p].held>> \in Ratified
      BY <2>3, <2>6 DEF Ratified
    <3>2. Chain!Advance(p)
      BY <2>1, <2>2, <2>3, <3>1 DEF Chain!Advance
    <3>3. QED
      BY <3>2 DEF Chain!Next
  <2>7. QED
    BY <2>4, <2>5, <2>6, MovesToRatified
<1>3. QED
  BY <1>1, <1>2 DEF TrustNext, trustVars, UpdateTrustConfiguration, EndorseTrustDelta

(***************************************************************************)
(* The search implements TrustChain: who goes on to a version was let to by*)
(* the one held, although the load read proposal by proposal while others  *)
(* proposed and endorsed.  (endorsements.rs 45-55, 1140-1157)              *)
(***************************************************************************)
THEOREM SearchFollowsChain == TrustSpec => ChainSpec
<1>1. TrustInit => Chain!Init
  BY DEF TrustInit, Chain!Init, heldBar, Between
<1>2. TrustInv /\ [TrustNext]_trustVars => [Chain!Next]_(Chain!chainVars)
  BY StepFollowsChain
<1>3. QED
  BY <1>1, <1>2, SearchIsSound, PTL DEF TrustSpec, ChainSpec, Chain!Spec
-----------------------------------------------------------------------------
(***************************************************************************)
(* Trustees added or removed one at a time keep their majorities meeting.  *)
(***************************************************************************)
LEMMA OneTrusteeAtATime ==
  ASSUME NEW S, IsFiniteSet(S), NEW x
  PROVE  MajoritiesMeet(S, S \cup {x}) /\ MajoritiesMeet(S \cup {x}, S)
<1> DEFINE T == S \cup {x}
<1>1. ASSUME NEW A \in SUBSET S, NEW B \in SUBSET T, A \cap B = {},
             Cardinality(S \ A) < Cardinality(A), Cardinality(T \ B) < Cardinality(B)
      PROVE  FALSE
  <2>1. IsFiniteSet(T) /\ IsFiniteSet(S \ A) /\ IsFiniteSet(T \ B) /\ IsFiniteSet(A)
    BY FS_AddElement, FS_Subset
  <2>2. IsFiniteSet((S \ A) \cup {x})
        /\ Cardinality((S \ A) \cup {x}) <= Cardinality(S \ A) + 1
    <3> DEFINE rest == S \ A
    <3>1. Cardinality(rest) \in Nat /\ IsFiniteSet(rest)
      BY <2>1, FS_CardinalityType
    <3> HIDE DEF rest
    <3>2. /\ IsFiniteSet(rest \cup {x})
          /\ Cardinality(rest \cup {x}) = IF x \in rest THEN Cardinality(rest)
                                                        ELSE Cardinality(rest) + 1
      BY <3>1, FS_AddElement
    <3>3. IsFiniteSet(rest \cup {x}) /\ Cardinality(rest \cup {x}) <= Cardinality(rest) + 1
      BY <3>1, <3>2
    <3>4. QED
      BY <3>3 DEF rest
  <2>3. Cardinality(B) <= Cardinality((S \ A) \cup {x}) /\ IsFiniteSet(B)
    <3>1. B \in SUBSET ((S \ A) \cup {x})
      BY <1>1
    <3>2. QED
      BY <2>2, <3>1, FS_Subset
  <2>4. Cardinality(A) <= Cardinality(T \ B)
    <3>1. A \in SUBSET (T \ B)
      BY <1>1
    <3>2. QED
      BY <2>1, <3>1, FS_Subset
  <2>5. /\ Cardinality(A) \in Nat /\ Cardinality(B) \in Nat
        /\ Cardinality(S \ A) \in Nat /\ Cardinality(T \ B) \in Nat
        /\ Cardinality((S \ A) \cup {x}) \in Nat
    BY <2>1, <2>2, <2>3, FS_CardinalityType
  <2>6. QED
    BY <1>1, <2>2, <2>3, <2>4, <2>5
<1>2. QED
  BY <1>1 DEF MajoritiesMeet

\* What is in effect, besides the anchor, was let take effect by such a version.
LEMMA EffectHasRatifier ==
  ASSUME TrustTypeOK, NEW v \in InEffect, v # Genesis
  PROVE  v \in proposals /\ \E u \in InEffect : Ratifies(u, v)
<1> DEFINE S == {w \in InEffect : \/ w = Genesis
                                  \/ w \in proposals /\ \E u \in InEffect : Ratifies(u, w)}
<1>1. S \in SUBSET Versions /\ Genesis \in S
  BY GenesisIsInEffect DEF InEffect
<1>2. ASSUME NEW e \in Ratified, e[1] \in S
      PROVE  e[2] \in S
  <2>1. e[1] \in InEffect /\ e[2] \in proposals /\ Ratifies(e[1], e[2])
    BY <1>2 DEF Ratified
  <2>2. e[2] \in InEffect
    BY <2>1, RatifiedIsInEffect
  <2>3. QED
    BY <2>1, <2>2
<1> HIDE DEF S
<1>3. v \in S
  BY <1>1, <1>2 DEF InEffect
<1>4. QED
  BY <1>3 DEF S

\* A load goes on finding what it found.
LEMMA FoundStays ==
  ASSUME TrustInv, Grows, NEW u \in Versions, NEW v \in Found(u)
  PROVE  v \in Found(u)'
<1>1. /\ v \in proposals /\ proposals \subseteq Versions
      /\ \A w \in based[v] \cup {v} : w \in proposals /\ Accepts(u, w)
  BY DEF Found, Applied, TrustInv, TrustTypeOK
<1>2. \A w \in based[v] \cup {v} : w \in proposals' /\ Accepts(u, w)'
  BY <1>1, AcceptsStays DEF Grows, TrustInv
<1>3. v \in proposals' /\ based'[v] = based[v]
  BY <1>1 DEF Grows
<1>4. QED
  BY <1>2, <1>3 DEF Found, Applied

LEMMA GenesisIsAdoptable == Genesis \in Adoptable
BY VersionsAssumption DEF Adoptable

LEMMA FoundIsAdoptable ==
  ASSUME TrustInv, NEW u \in Adoptable, NEW v \in Found(u)
  PROVE  v \in Adoptable
<1>1. u \in Versions
  BY DEF Adoptable
<1>2. v \in Versions
  BY <1>1, FoundIsRatified
<1>3. ASSUME NEW S \in SUBSET Versions, Genesis \in S, \A x \in S : Found(x) \subseteq S
      PROVE  v \in S
  <2>1. u \in S
    BY <1>3 DEF Adoptable
  <2>2. QED
    BY <1>3, <2>1
<1>4. QED
  BY <1>2, <1>3 DEF Adoptable

\* Adoptable once, adoptable for good.
LEMMA AdoptableStays ==
  ASSUME TrustInv, Grows, NEW v \in Adoptable
  PROVE  v \in Adoptable'
<1>1. ASSUME NEW S \in SUBSET Versions, Genesis \in S, \A x \in S : Found(x)' \subseteq S
      PROVE  v \in S
  <2>1. \A x \in S : Found(x) \subseteq S
    BY <1>1, FoundStays
  <2>2. QED
    BY <1>1, <2>1 DEF Adoptable
<1>2. v \in Versions
  BY DEF Adoptable
<1>3. QED
  BY <1>1, <1>2 DEF Adoptable

\* What is adoptable, besides the anchor, is found under such a version.
LEMMA AdoptableIsFound ==
  ASSUME TrustInv, NEW v \in Adoptable, v # Genesis
  PROVE  \E u \in Adoptable : v \in Found(u)
<1> DEFINE S == {w \in Adoptable : w = Genesis \/ \E u \in Adoptable : w \in Found(u)}
<1>1. S \in SUBSET Versions /\ Genesis \in S
  BY GenesisIsAdoptable DEF Adoptable
<1>2. \A x \in S : Found(x) \subseteq S
  BY FoundIsAdoptable
<1> HIDE DEF S
<1>3. v \in S
  BY <1>1, <1>2 DEF Adoptable
<1>4. QED
  BY <1>3 DEF S

LEMMA AdoptableIsProposed == TrustInv => Adoptable \subseteq proposals
<1>1. ASSUME TrustInv, NEW v \in Adoptable PROVE v \in proposals
  <2>1. CASE v = Genesis
    BY <1>1, <2>1 DEF TrustInv, TrustTypeOK
  <2>2. CASE v # Genesis
    <3>1. PICK u \in Adoptable : v \in Found(u)
      BY <1>1, <2>2, AdoptableIsFound
    <3>2. QED
      BY <1>1, <3>1 DEF Found, Applied
  <2>3. QED
    BY <2>1, <2>2
<1>2. QED
  BY <1>1

\* A participant holds an adoptable version.
HeldIsAdoptable == \A p \in Participants : search[p].held \in Adoptable

LEMMA HeldStaysAdoptable ==
  ASSUME TrustInv, HeldIsAdoptable, [TrustNext]_trustVars
  PROVE  HeldIsAdoptable'
<1> SUFFICES ASSUME NEW p \in Participants
             PROVE  search'[p].held \in Adoptable'
  BY DEF HeldIsAdoptable
<1>1. Grows
  BY StoreGrows DEF TrustInv
<1>2. search[p].held \in Adoptable
  BY DEF HeldIsAdoptable
<1>3. search'[p].held \in Adoptable
  BY <1>2, MovesToFound, GenesisIsAdoptable, FoundIsAdoptable
<1>4. QED
  BY <1>1, <1>3, AdoptableStays

(***************************************************************************)
(* The trust document does not split while majorities that meet decide and *)
(* nobody endorses two conflicting proposals, for any number of trustees,  *)
(* versions and participants.  (README.md 279; endorsements.rs 1140-1157)  *)
(***************************************************************************)
THEOREM TrustDoesNotSplit == TrustSpec => []OneBranch
<1>1. ASSUME TrustInv, Adoptable \X Adoptable \subseteq Akin,
             \A u \in Adoptable : Document[u].delta_filter.whitelist \subseteq {Genesis},
             \A v, w \in proposals : Conflict(v, w) => endorsed[v] \cap endorsed[w] = {},
             NEW v \in Adoptable, NEW w \in Adoptable, Conflict(v, w)
      PROVE  FALSE
  <2>1. v # Genesis /\ w # Genesis
    <3>1. ASSUME NEW a \in Adoptable, NEW b \in Adoptable, Conflict(a, b)
          PROVE  a # Genesis
      <4>1. SUFFICES ASSUME a = Genesis PROVE FALSE
        OBVIOUS
      <4>2. b # Genesis /\ a \notin based[b]
        BY <3>1, <4>1 DEF Conflict
      <4>3. b \in proposals
        BY <1>1, <4>2, AdoptableIsProposed
      <4>4. QED
        BY <1>1, <4>1, <4>2, <4>3 DEF TrustInv
    <3>2. Conflict(w, v)
      BY <1>1 DEF Conflict
    <3>3. QED
      BY <1>1, <3>1, <3>2
  <2>2. /\ v \in proposals /\ w \in proposals
        /\ \E x \in Adoptable : v \in Found(x)
        /\ \E y \in Adoptable : w \in Found(y)
    BY <1>1, <2>1, AdoptableIsFound, AdoptableIsProposed
  <2>3. PICK x \in Adoptable : v \in Found(x)
    BY <2>2
  <2>4. PICK y \in Adoptable : w \in Found(y)
    BY <2>2
  <2> DEFINE c == ConfigOf[x]
             d == ConfigOf[y]
             A == Approvers(x, v)
             B == Approvers(y, w)
  <2>5. /\ x \in Versions /\ y \in Versions
        /\ v \in Versions /\ w \in Versions /\ <<x, y>> \in Akin
    BY <1>1 DEF Adoptable
  <2>6. /\ c.endorsement_mode = "Majority" /\ d.endorsement_mode = "Majority"
        /\ MajoritiesMeet(c.keystore.trusted_keys, d.keystore.trusted_keys)
    BY <2>5 DEF Akin
  <2>7. v \notin c.delta_filter.whitelist /\ w \notin d.delta_filter.whitelist
    <3>1. ASSUME NEW u \in Versions, Document[u].delta_filter.whitelist \subseteq {Genesis}
          PROVE  ConfigOf[u].delta_filter.whitelist \subseteq {Genesis}
      <4>1. FromJson(Document[u]).delta_filter.whitelist \subseteq {Genesis}
        BY <3>1 DEF FromJson
      <4>2. QED
        BY <4>1, ConfigIsFromDocument
    <3> HIDE DEF c, d
    <3>2. /\ c.delta_filter.whitelist \subseteq {Genesis}
          /\ d.delta_filter.whitelist \subseteq {Genesis}
      BY <1>1, <2>5, <3>1 DEF c, d
    <3>3. QED
      BY <2>1, <3>2
  <2>8. IsQuorum(c, A) /\ IsQuorum(d, B)
    BY <1>1, <2>3, <2>4, <2>5, <2>7, FoundIsRatified DEF Ratifies
  <2>9. A \in SUBSET c.keystore.trusted_keys /\ B \in SUBSET d.keystore.trusted_keys
    BY <2>5 DEF Approvers, Eligible
  <2>10. A \cap B # {}
    <3> HIDE DEF A, B, c, d
    <3>1. QED
      BY <2>6, <2>8, <2>9 DEF IsQuorum, MajoritiesMeet
  <2>11. A \subseteq endorsed[v] /\ B \subseteq endorsed[w]
    BY DEF Approvers
  <2>12. QED
    BY <1>1, <2>2, <2>10, <2>11
<1>2. TrustInv /\ HeldIsAdoptable => OneBranch
  BY <1>1 DEF OneBranch, HeldIsAdoptable
<1>3. TrustInit => HeldIsAdoptable
  BY GenesisIsAdoptable DEF TrustInit, HeldIsAdoptable, Between
<1>4. TrustInv /\ HeldIsAdoptable /\ [TrustNext]_trustVars => HeldIsAdoptable'
  BY HeldStaysAdoptable
<1>5. QED
  BY <1>2, <1>3, <1>4, SearchIsSound, PTL DEF TrustSpec
=============================================================================
