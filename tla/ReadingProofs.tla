---------------------------- MODULE ReadingProofs ----------------------------
(***************************************************************************)
(* Proofs about Reading, for any relations, seeds, candidates, budgets,    *)
(* rows, hits, windows, documents, units and texts: a traversal of the     *)
(* graph is faithful to what an ingestion writes meanwhile, a ranking      *)
(* never pulls against what it is made of, an answer is packed as its      *)
(* budget asks, the triage gate is steady, excerpts lie apart, a document  *)
(* is cut without loss, workflow groups are classes, the embedding cache   *)
(* keeps what was used last, and a search shows the best hits of two pools *)
(* and the current sections of the sources in turn.                        *)
(***************************************************************************)
EXTENDS Reading, FiniteSetTheorems, SequenceTheorems, WellFoundedInduction, TLAPS

Ends(r) == {r.src, r.tgt}

\* The shape of a traversal: its rounds, and the entities of the last one.
TripShape(t) ==
    /\ t = [is |-> "trip", seeds |-> t.seeds, superseded |-> t.superseded, b |-> t.b,
            ever |-> t.ever, stayed |-> t.stayed]
    /\ t.b = [n |-> t.b.n, depth |-> t.b.depth, frontier |-> t.b.frontier,
              collected |-> t.b.collected]
    /\ t.b.n \in Nat
    /\ t.b.depth \in [DOMAIN t.b.depth -> 0..t.b.n]
    /\ t.b.frontier = {e \in DOMAIN t.b.depth : t.b.depth[e] = t.b.n}

\* What the history variables say of the graph as it is.
TripHistory(t, st) ==
    /\ t.stayed \subseteq Seen(st, t.superseded)
    /\ Seen(st, t.superseded) \subseteq t.ever
    /\ t.ever \subseteq Relations

\* What has been met was seen.
TripSound(t) ==
    /\ t.b.collected \subseteq t.ever
    /\ \A e \in DOMAIN t.b.depth : Walk(t.ever, t.seeds, e, t.b.depth[e])
    /\ \A r \in t.b.collected :
         /\ Ends(r) \subseteq DOMAIN t.b.depth
         /\ \E e \in Ends(r) : t.b.depth[e] < t.b.n

\* A relation that could be seen all the time is collected in the round of its nearer
\* end, and its farther end is at most one hop farther: the walks are closed round by
\* round, which TripSound does not say.
TripClosed(t) ==
    /\ \A e \in t.seeds : e \in DOMAIN t.b.depth /\ t.b.depth[e] = 0
    /\ \A r \in t.stayed : \A e \in Ends(r) \cap DOMAIN t.b.depth :
         t.b.depth[e] < t.b.n =>
           /\ r \in t.b.collected
           /\ \A f \in Ends(r) : f \in DOMAIN t.b.depth /\ t.b.depth[f] <= t.b.depth[e] + 1

Trip(t, st) == TripShape(t) /\ TripHistory(t, st) /\ TripSound(t) /\ TripClosed(t)

\* A behaviour about the graph has no case or a traversal, any other none.
TripInv ==
    /\ case.is = "trip" => Trip(case, status)
    /\ subject = "graph" => case = NoCase \/ case.is = "trip"
    /\ subject # "graph" => case.is # "trip"

TriagedItems == {i \in [role : {"user", "assistant", "tool"}, manual : BOOLEAN, event : BOOLEAN,
                       boilerplate : BOOLEAN] : i.event => i.role # "user"}

\* The gate is asked about a text and an item, and the case has its answer.
TriageInv ==
    case.is = "triage" =>
        /\ case.text \in SUBSET Keywords
        /\ case.item \in TriagedItems
        /\ case.out = TriageTrace(case.text, case.item)
-----------------------------------------------------------------------------
(* Walks: the reference a traversal is compared with.                      *)

\* The nearer end of a relation decides its hops.
LEMMA MinOfPair ==
    ASSUME NEW a \in Nat, NEW b \in Nat
    PROVE  Min({a, b}) \in {a, b} /\ Min({a, b}) <= a /\ Min({a, b}) <= b
<1>1. \E x \in {a, b} : \A y \in {a, b} : x =< y
  <2>1. a <= b \/ b <= a OBVIOUS
  <2> QED BY <2>1
<1> QED BY <1>1 DEF Min

\* A set of naturals has a least member.
LEMMA LeastNat ==
    ASSUME NEW T \in SUBSET Nat, T # {}
    PROVE  \E i \in T : \A j \in T : i <= j
<1>1. PICK i \in T : \A j \in T : <<j, i>> \notin OpToRel(<, Nat) BY NatLessThanWellFounded, WFMin
<1>2. \A j \in T : ~(j < i) BY <1>1 DEF OpToRel
<1> QED BY <1>2

\* A seed is reached without a step.
LEMMA WalkStart ==
    ASSUME NEW R, NEW seeds, NEW e \in seeds
    PROVE  Walk(R, seeds, e, 0)
<1> DEFINE w == [i \in 0..0 |-> e]
<1>1. w \in [0..0 -> seeds \cup UNION {{r.src, r.tgt} : r \in R}] OBVIOUS
<1>2. w[0] = e OBVIOUS
<1>3. 1..0 = {} OBVIOUS
<1> HIDE DEF w
<1> QED BY <1>1, <1>2, <1>3 DEF Walk

\* A walk stays one when relations are added.
LEMMA WalkMonotone ==
    ASSUME NEW few, NEW many, few \subseteq many, NEW seeds, NEW e, NEW n \in Nat,
           Walk(few, seeds, e, n)
    PROVE  Walk(many, seeds, e, n)
<1> DEFINE met(R) == UNION {{r.src, r.tgt} : r \in R}
<1>1. PICK w \in [0..n -> seeds \cup met(few)] :
          /\ w[0] \in seeds /\ w[n] = e
          /\ \A i \in 1..n : \E r \in few : {r.src, r.tgt} = {w[i - 1], w[i]}
  BY DEF Walk
<1>2. met(few) \subseteq met(many) OBVIOUS
<1>3. w \in [0..n -> seeds \cup met(many)]
  <2> HIDE DEF met
  <2> QED BY <1>1, <1>2
<1>4. \A i \in 1..n : \E r \in many : {r.src, r.tgt} = {w[i - 1], w[i]} BY <1>1
<1> QED BY <1>1, <1>3, <1>4 DEF Walk

\* A walk goes on along a relation that touches its end.
LEMMA WalkStep ==
    ASSUME NEW R, NEW seeds, NEW e, NEW n \in Nat, Walk(R, seeds, e, n),
           NEW r \in R, NEW f, Ends(r) = {e, f}
    PROVE  Walk(R, seeds, f, n + 1)
<1> DEFINE met == seeds \cup UNION {{x.src, x.tgt} : x \in R}
<1>1. PICK w \in [0..n -> met] :
          /\ w[0] \in seeds /\ w[n] = e
          /\ \A i \in 1..n : \E x \in R : {x.src, x.tgt} = {w[i - 1], w[i]}
  BY DEF Walk
<1> DEFINE v == [i \in 0..(n + 1) |-> IF i = n + 1 THEN f ELSE w[i]]
<1>2. f \in met BY DEF Ends
<1>3. v \in [0..(n + 1) -> met]
  <2> HIDE DEF met
  <2>1. \A i \in 0..(n + 1) : i # n + 1 => i \in 0..n OBVIOUS
  <2> QED BY <1>1, <1>2, <2>1
<1>4. /\ \A i \in 0..n : v[i] = w[i]
      /\ v[n + 1] = f
  OBVIOUS
<1>5. \A i \in 1..(n + 1) : \E x \in R : {x.src, x.tgt} = {v[i - 1], v[i]}
  <2> HIDE DEF v, met
  <2>1. TAKE i \in 1..(n + 1)
  <2>2. CASE i = n + 1
    <3>1. v[i - 1] = e /\ v[i] = f BY <1>1, <1>4, <2>2
    <3> QED BY <3>1 DEF Ends
  <2>3. CASE i \in 1..n
    <3>1. v[i - 1] = w[i - 1] /\ v[i] = w[i] BY <1>4, <2>3
    <3> QED BY <3>1, <1>1, <2>3
  <2>4. i = n + 1 \/ i \in 1..n OBVIOUS
  <2> QED BY <2>2, <2>3, <2>4
<1>6. v[0] \in seeds BY <1>1, <1>4
<1> HIDE DEF v
<1> QED BY <1>3, <1>4, <1>5, <1>6 DEF Walk

\* What could be seen all the time is found no later than a walk along it
\* would: by the first place of the walk where it is not.
LEMMA WalkMet ==
    ASSUME NEW t, NEW st, Trip(t, st), NEW m \in 0..t.b.n, NEW e,
           Walk(t.stayed, t.seeds, e, m)
    PROVE  e \in DOMAIN t.b.depth /\ t.b.depth[e] <= m
<1>1. PICK w \in [0..m -> t.seeds \cup UNION {{r.src, r.tgt} : r \in t.stayed}] :
          /\ w[0] \in t.seeds /\ w[m] = e
          /\ \A i \in 1..m : \E r \in t.stayed : {r.src, r.tgt} = {w[i - 1], w[i]}
  BY DEF Walk
<1>2. t.b.n \in Nat /\ m \in Nat /\ m <= t.b.n BY DEF Trip, TripShape
<1> DEFINE Met(i) == w[i] \in DOMAIN t.b.depth /\ t.b.depth[w[i]] <= i
           late == {i \in 0..m : ~Met(i)}
<1>3. Met(0) BY <1>1 DEF Trip, TripClosed
<1>4. ASSUME NEW i \in 1..m, Met(i - 1)
      PROVE  Met(i)
  <2>1. PICK r \in t.stayed : Ends(r) = {w[i - 1], w[i]} BY <1>1 DEF Ends
  <2>2. t.b.depth[w[i - 1]] \in Nat /\ i - 1 < t.b.n /\ i \in Nat
    BY <1>2, <1>4 DEF Trip, TripShape
  <2>3. t.b.depth[w[i - 1]] < t.b.n BY <1>2, <1>4, <2>2
  <2>4. w[i - 1] \in Ends(r) \cap DOMAIN t.b.depth /\ w[i] \in Ends(r) BY <1>4, <2>1
  <2>5. w[i] \in DOMAIN t.b.depth /\ t.b.depth[w[i]] <= t.b.depth[w[i - 1]] + 1
    BY <2>3, <2>4 DEF Trip, TripClosed
  <2>6. t.b.depth[w[i]] \in Nat BY <1>2, <2>5 DEF Trip, TripShape
  <2> QED BY <1>4, <2>2, <2>5, <2>6
<1>5. late = {}
  <2>1. SUFFICES ASSUME late # {} PROVE FALSE OBVIOUS
  <2>2. PICK i \in late : \A j \in late : i <= j
    <3>1. late \subseteq Nat BY <1>2
    <3> HIDE DEF late
    <3> QED BY <2>1, <3>1, LeastNat
  <2>3. i \in 0..m /\ ~Met(i) /\ i # 0 BY <1>3
  <2>4. i \in 1..m /\ i - 1 \in 0..m /\ i - 1 < i /\ i - 1 \in Nat /\ i \in Nat
    <3> HIDE DEF Met
    <3> QED BY <1>2, <2>3
  <2>5. Met(i - 1)
    <3>1. i - 1 \notin late
      <4> HIDE DEF late
      <4> QED BY <2>2, <2>4
    <3> HIDE DEF Met
    <3> QED BY <2>4, <3>1
  <2> HIDE DEF Met
  <2> QED BY <1>4, <2>3, <2>4, <2>5
<1>6. Met(m)
  <2> HIDE DEF Met
  <2> QED BY <1>2, <1>5
<1> QED BY <1>1, <1>6
-----------------------------------------------------------------------------
(* The steps of a traversal.                                               *)

\* The rounds of a traversal are numbered, and its depths lie within them.
LEMMA DepthIsNat ==
    ASSUME NEW t, TripShape(t), NEW e \in DOMAIN t.b.depth
    PROVE  t.b.depth[e] \in Nat /\ t.b.depth[e] <= t.b.n /\ t.b.n \in Nat
BY DEF TripShape

\* A query starts with its seeds, and nothing collected.
LEMMA BeginTrip ==
    ASSUME NEW seeds, NEW superseded, NEW st, NEW t,
           t = [is |-> "trip", seeds |-> seeds, superseded |-> superseded, b |-> Start(seeds),
                ever |-> Seen(st, superseded), stayed |-> Seen(st, superseded)]
    PROVE  Trip(t, st)
<1>1. PICK b, seen : b = Start(seeds) /\ seen = Seen(st, superseded) OBVIOUS
<1>2. PICK depth : depth = [e \in seeds |-> 0] OBVIOUS
<1>3. b = [n |-> 0, depth |-> depth, frontier |-> seeds, collected |-> {}] BY <1>1, <1>2 DEF Start
<1>4. t = [is |-> "trip", seeds |-> seeds, superseded |-> superseded, b |-> b,
           ever |-> seen, stayed |-> seen]
  BY <1>1
<1>5. /\ t.b = b /\ t.seeds = seeds /\ t.superseded = superseded
      /\ t.ever = seen /\ t.stayed = seen
  BY <1>4
<1>6. /\ b.n = 0 /\ b.depth = depth /\ b.frontier = seeds /\ b.collected = {}
      /\ DOMAIN depth = seeds /\ \A e \in seeds : depth[e] = 0
  BY <1>2, <1>3
<1>7. TripShape(t)
  <2>1. depth \in [seeds -> 0..0] BY <1>2
  <2> QED BY <1>3, <1>4, <1>5, <1>6, <2>1 DEF TripShape
<1>8. TripHistory(t, st) BY <1>1, <1>5 DEF TripHistory, Seen
<1>9. TripSound(t) BY <1>5, <1>6, WalkStart DEF TripSound
<1>10. TripClosed(t) BY <1>5, <1>6 DEF TripClosed
<1> QED BY <1>7, <1>8, <1>9, <1>10 DEF Trip

\* A traversal after the statuses became new, and after a hop.
Overtaken(t, new) == [t EXCEPT !.ever = @ \cup Seen(new, t.superseded),
                               !.stayed = @ \cap Seen(new, t.superseded)]
Hopped(t, st) ==
    [t EXCEPT !.b = Expand(@, Neighbors(Relations, st, @.frontier, t.superseded))]

\* What an ingestion writes changes what could be seen, and nothing that
\* was met.
LEMMA OvertakenTrip ==
    ASSUME NEW t, NEW st, Trip(t, st), NEW new
    PROVE  Trip(Overtaken(t, new), new)
<1>1. PICK seen, u : seen = Seen(new, t.superseded) /\ u = Overtaken(t, new) OBVIOUS
<1>2. PICK seeds, superseded, b, ever, stayed :
        t = [is |-> "trip", seeds |-> seeds, superseded |-> superseded, b |-> b,
             ever |-> ever, stayed |-> stayed]
  BY DEF Trip, TripShape
<1>3. /\ u = [is |-> "trip", seeds |-> seeds, superseded |-> superseded, b |-> b,
              ever |-> u.ever, stayed |-> u.stayed]
      /\ u.ever = ever \cup seen /\ u.stayed = stayed \cap seen
  <2>1. PICK more, less : more = ever \cup seen /\ less = stayed \cap seen OBVIOUS
  <2>2. Overtaken(t, new) = [t EXCEPT !.ever = more, !.stayed = less]
    <3>1. t.ever = ever /\ t.stayed = stayed BY <1>2
    <3> QED BY <1>1, <2>1, <3>1 DEF Overtaken
  <2>3. u = [is |-> "trip", seeds |-> seeds, superseded |-> superseded, b |-> b,
             ever |-> more, stayed |-> less]
    <3>1. PICK v : v = [t EXCEPT !.ever = more, !.stayed = less] OBVIOUS
    <3>2. v = [is |-> "trip", seeds |-> seeds, superseded |-> superseded, b |-> b,
               ever |-> more, stayed |-> less]
      BY <1>2, <3>1
    <3> QED BY <1>1, <2>2, <3>1, <3>2
  <2> QED BY <2>1, <2>3
<1>4. /\ u.seeds = t.seeds /\ u.superseded = t.superseded /\ u.b = t.b
      /\ u.ever = t.ever \cup seen /\ u.stayed = t.stayed \cap seen
  BY <1>2, <1>3
<1>5. TripShape(u)
  <2>1. u = [is |-> "trip", seeds |-> u.seeds, superseded |-> u.superseded, b |-> u.b,
             ever |-> u.ever, stayed |-> u.stayed]
    BY <1>3
  <2> QED BY <2>1, <1>4 DEF Trip, TripShape
<1>6. TripHistory(u, new)
  <2>1. seen \subseteq Relations BY <1>1 DEF Seen
  <2> QED BY <2>1, <1>1, <1>4 DEF Trip, TripHistory
<1>7. TripSound(u)
  <2>1. ASSUME NEW e \in DOMAIN t.b.depth
        PROVE  Walk(u.ever, u.seeds, e, u.b.depth[e])
    <3>1. Walk(t.ever, t.seeds, e, t.b.depth[e]) BY DEF Trip, TripSound
    <3>2. t.b.depth[e] \in Nat BY DepthIsNat DEF Trip
    <3>3. t.ever \subseteq u.ever BY <1>4
    <3> QED BY <3>1, <3>2, <3>3, <1>4, WalkMonotone
  <2> QED BY <2>1, <1>4 DEF Trip, TripSound
<1>8. TripClosed(u) BY <1>4 DEF Trip, TripClosed
<1> QED BY <1>1, <1>5, <1>6, <1>7, <1>8 DEF Trip

\* A hop collects the relations at the frontier as they can be seen, and
\* meets their other ends.
LEMMA HoppedTrip ==
    ASSUME NEW t, NEW st, Trip(t, st)
    PROVE  Trip(Hopped(t, st), st)
<1>1. PICK n, depth, frontier, collected :
        t.b = [n |-> n, depth |-> depth, frontier |-> frontier, collected |-> collected]
  BY DEF Trip, TripShape
<1>2. /\ n = t.b.n /\ depth = t.b.depth /\ frontier = t.b.frontier
      /\ collected = t.b.collected
  BY <1>1
<1>3. PICK edges : edges = Neighbors(Relations, st, frontier, t.superseded) OBVIOUS
<1>4. PICK met : met = (UNION {{r.src, r.tgt} : r \in edges}) \ DOMAIN depth OBVIOUS
<1>5. PICK b : b = [n |-> n + 1,
                    depth |-> [e \in (DOMAIN depth) \cup met |->
                                 IF e \in met THEN n + 1 ELSE depth[e]],
                    frontier |-> met,
                    collected |-> collected \cup edges]
  OBVIOUS
<1>6. b = Expand(t.b, Neighbors(Relations, st, t.b.frontier, t.superseded))
  BY <1>2, <1>3, <1>4, <1>5 DEF Expand
<1>7. PICK seeds, superseded, old, ever, stayed :
        t = [is |-> "trip", seeds |-> seeds, superseded |-> superseded, b |-> old,
             ever |-> ever, stayed |-> stayed]
  BY DEF Trip, TripShape
<1>8. PICK u : u = [is |-> "trip", seeds |-> seeds, superseded |-> superseded, b |-> b,
                    ever |-> ever, stayed |-> stayed]
  OBVIOUS
<1>9. /\ u.seeds = t.seeds /\ u.superseded = t.superseded /\ u.b = b
      /\ u.ever = t.ever /\ u.stayed = t.stayed
  BY <1>7, <1>8
<1>10. /\ b.n = n + 1 /\ b.frontier = met /\ b.collected = collected \cup edges
       /\ DOMAIN b.depth = (DOMAIN depth) \cup met
       /\ \A e \in DOMAIN depth : b.depth[e] = depth[e]
       /\ \A e \in met : b.depth[e] = n + 1
  BY <1>4, <1>5
<1>11. /\ n \in Nat /\ \A e \in DOMAIN depth : depth[e] \in Nat /\ depth[e] <= n
       /\ frontier = {e \in DOMAIN depth : depth[e] = n}
  BY <1>2, DepthIsNat DEF Trip, TripShape
<1>12. /\ edges = {r \in Seen(st, t.superseded) : Ends(r) \cap frontier # {}}
       /\ edges \subseteq t.ever
       /\ \A r \in edges : Ends(r) \subseteq (DOMAIN depth) \cup met
  <2>1. edges = {r \in Seen(st, t.superseded) : Ends(r) \cap frontier # {}}
    BY <1>3 DEF Neighbors, Seen, Ends
  <2>2. \A r \in edges : Ends(r) \subseteq (DOMAIN depth) \cup met BY <1>4 DEF Ends
  <2> QED BY <2>1, <2>2 DEF Trip, TripHistory
<1>13. TripShape(u)
  <2>1. u = [is |-> "trip", seeds |-> u.seeds, superseded |-> u.superseded, b |-> u.b,
             ever |-> u.ever, stayed |-> u.stayed]
    BY <1>8
  <2>2. b = [n |-> b.n, depth |-> b.depth, frontier |-> b.frontier, collected |-> b.collected]
    BY <1>5
  <2>3. b.depth = [e \in DOMAIN b.depth |-> b.depth[e]] BY <1>5
  <2>4. \A e \in DOMAIN b.depth : b.depth[e] \in 0..(n + 1) BY <1>10, <1>11
  <2>5. b.depth \in [DOMAIN b.depth -> 0..b.n] BY <2>3, <2>4, <1>10
  <2>6. b.frontier = {e \in DOMAIN b.depth : b.depth[e] = b.n}
    <3>1. \A e \in DOMAIN depth : e \notin met /\ b.depth[e] # n + 1 BY <1>4, <1>10, <1>11
    <3> QED BY <3>1, <1>10
  <2>7. b.n \in Nat BY <1>10, <1>11
  <2> QED BY <2>1, <2>2, <2>5, <2>6, <2>7, <1>9 DEF TripShape
<1>14. TripHistory(u, st) BY <1>9 DEF Trip, TripHistory
<1>15. TripSound(u)
  <2>1. b.collected \subseteq u.ever BY <1>2, <1>9, <1>10, <1>12 DEF Trip, TripSound
  <2>2. ASSUME NEW e \in DOMAIN b.depth
        PROVE  Walk(u.ever, u.seeds, e, b.depth[e])
    <3>1. CASE e \in DOMAIN depth BY <3>1, <1>2, <1>9, <1>10 DEF Trip, TripSound
    <3>2. CASE e \in met
      <4>1. PICK r \in edges : e \in Ends(r) BY <3>2, <1>4 DEF Ends
      <4>2. PICK f \in Ends(r) : f \in frontier BY <1>12
      <4>3. f \in DOMAIN depth /\ depth[f] = n /\ e # f BY <3>2, <4>2, <1>4, <1>11
      <4>4. Ends(r) = {f, e} BY <4>1, <4>2, <4>3 DEF Ends
      <4>5. Walk(t.ever, t.seeds, f, n) BY <4>3, <1>2 DEF Trip, TripSound
      <4>6. Walk(t.ever, t.seeds, e, n + 1) BY <4>1, <4>4, <4>5, <1>11, <1>12, WalkStep
      <4> QED BY <4>6, <3>2, <1>9, <1>10
    <3> QED BY <3>1, <3>2, <1>10
  <2>3. ASSUME NEW r \in b.collected
        PROVE  Ends(r) \subseteq DOMAIN b.depth /\ \E e \in Ends(r) : b.depth[e] < b.n
    <3>1. CASE r \in collected
      <4>1. PICK e \in Ends(r) : depth[e] < n /\ Ends(r) \subseteq DOMAIN depth
        BY <3>1, <1>2 DEF Trip, TripSound
      <4>2. depth[e] < n + 1 BY <4>1, <1>11
      <4> QED BY <4>1, <4>2, <1>10
    <3>2. CASE r \in edges
      <4>1. PICK e \in Ends(r) : e \in frontier BY <3>2, <1>12
      <4>2. e \in DOMAIN depth /\ depth[e] < n + 1 BY <4>1, <1>11
      <4> QED BY <3>2, <4>1, <4>2, <1>10, <1>12
    <3> QED BY <3>1, <3>2, <1>10
  <2> QED BY <2>1, <2>2, <2>3, <1>9 DEF TripSound
<1>16. TripClosed(u)
  <2>1. \A e \in u.seeds : e \in DOMAIN b.depth /\ b.depth[e] = 0
    BY <1>2, <1>9, <1>10 DEF Trip, TripClosed
  <2>2. ASSUME NEW r \in u.stayed, NEW e \in Ends(r) \cap DOMAIN b.depth, b.depth[e] < b.n
        PROVE  r \in b.collected /\ \A f \in Ends(r) : f \in DOMAIN b.depth
                                                    /\ b.depth[f] <= b.depth[e] + 1
    <3>1. e \in DOMAIN depth /\ b.depth[e] = depth[e] /\ depth[e] \in Nat BY <2>2, <1>10, <1>11
    <3>2. CASE depth[e] < n
      <4>1. r \in collected
            /\ \A f \in Ends(r) : f \in DOMAIN depth /\ depth[f] <= depth[e] + 1
        BY <3>1, <3>2, <1>2, <1>9 DEF Trip, TripClosed
      <4> QED BY <3>1, <4>1, <1>10
    <3>3. CASE depth[e] = n
      <4>1. r \in edges BY <3>1, <3>3, <1>9, <1>11, <1>12 DEF Trip, TripHistory
      <4>2. \A f \in Ends(r) : f \in DOMAIN b.depth BY <4>1, <1>10, <1>12
      <4>3. \A f \in DOMAIN b.depth : b.depth[f] <= n + 1 BY <1>10, <1>11
      <4> QED BY <3>1, <3>3, <4>1, <4>2, <4>3, <1>10
    <3>4. depth[e] < n \/ depth[e] = n BY <3>1, <1>11
    <3> QED BY <3>2, <3>3, <3>4
  <2> QED BY <2>1, <2>2, <1>9 DEF TripClosed
<1>17. u = Hopped(t, st)
  <2>1. PICK v : v = [t EXCEPT !.b = b] OBVIOUS
  <2>2. v = u BY <1>7, <1>8, <2>1
  <2> QED BY <1>6, <2>1, <2>2 DEF Hopped
<1> QED BY <1>13, <1>14, <1>15, <1>16, <1>17 DEF Trip

\* What the invariant says of a traversal is what the property says.
LEMMA TripIsFaithful ==
    ASSUME TripInv
    PROVE  TraversalFaithful
<1> SUFFICES ASSUME case.is = "trip" PROVE HopsSound /\ HopsComplete
  BY DEF TraversalFaithful, HopsSound, HopsComplete
<1>1. Trip(case, status) /\ case.b.n \in Nat BY DEF TripInv, Trip, TripShape
<1>2. HopsSound
  <2>1. ASSUME NEW r \in case.b.collected
        PROVE  Ends(r) \subseteq DOMAIN case.b.depth /\ Hops(case.b, r) < case.b.n
    <3>1. PICK e \in Ends(r) : case.b.depth[e] < case.b.n
                            /\ Ends(r) \subseteq DOMAIN case.b.depth
      BY <1>1 DEF Trip, TripSound
    <3>2. PICK a, b : a = case.b.depth[r.src] /\ b = case.b.depth[r.tgt] OBVIOUS
    <3>3. a \in Nat /\ b \in Nat BY <1>1, <3>1, <3>2, DepthIsNat DEF Trip, Ends
    <3>4. a < case.b.n \/ b < case.b.n BY <3>1, <3>2 DEF Ends
    <3>5. Min({a, b}) \in {a, b} /\ Min({a, b}) <= a /\ Min({a, b}) <= b BY <3>3, MinOfPair
    <3>6. Min({a, b}) < case.b.n BY <1>1, <3>3, <3>4, <3>5
    <3> QED BY <3>1, <3>2, <3>6 DEF Hops
  <2> QED BY <1>1, <2>1 DEF HopsSound, Trip, TripSound, Ends
<1>3. HopsComplete
  <2>1. ASSUME NEW m \in 0..case.b.n, NEW e, Walk(case.stayed, case.seeds, e, m)
        PROVE  /\ e \in DOMAIN case.b.depth /\ case.b.depth[e] <= m
               /\ m < case.b.n => \A r \in case.stayed : e \in {r.src, r.tgt} => r \in case.b.collected
    <3>1. e \in DOMAIN case.b.depth /\ case.b.depth[e] <= m BY <1>1, <2>1, WalkMet
    <3>2. ASSUME m < case.b.n, NEW r \in case.stayed, e \in {r.src, r.tgt}
          PROVE  r \in case.b.collected
      <4>1. case.b.depth[e] \in Nat /\ m \in Nat BY <1>1, <3>1, DepthIsNat DEF Trip
      <4>2. case.b.depth[e] < case.b.n BY <1>1, <3>1, <3>2, <4>1
      <4> QED BY <1>1, <3>1, <3>2, <4>2 DEF Trip, TripClosed, Ends
    <3> QED BY <3>1, <3>2
  <2> QED BY <2>1 DEF HopsComplete
<1> QED BY <1>2, <1>3
-----------------------------------------------------------------------------
(* The triage gate.                                                        *)

\* What each reason is worth.
LEMMA Worth ==
    /\ Importance("manual_intent") = 90 /\ Confidence("manual_intent") = 85
    /\ Importance("explicit_decision_or_rule") = 80
    /\ Confidence("explicit_decision_or_rule") = 75
    /\ Importance("failure_fix_or_procedure") = 65
    /\ Confidence("failure_fix_or_procedure") = 65
    /\ Importance("durable_change_with_intent") = 65
    /\ Confidence("durable_change_with_intent") = 60
    /\ Importance("declared_durable_fact") = 65
    /\ Confidence("declared_durable_fact") = 60
    /\ Importance("declared_durable_plan") = 55
    /\ Confidence("declared_durable_plan") = 55
    /\ Importance("weak_context_only") = 35 /\ Confidence("weak_context_only") = 50
    /\ Importance("boilerplate_content") = 0 /\ Confidence("boilerplate_content") = 0
BY DEF Importance, Confidence

\* What a decision says follows from its reason.
LEMMA DecidedFields ==
    ASSUME NEW text, NEW item
    PROVE  LET reason == IF item.boilerplate THEN "boilerplate_content" ELSE Reason(text, item)
               out == TriageTrace(text, item)
           IN  /\ out.extract = (reason \notin {"weak_context_only", "boilerplate_content"})
               /\ out.importance = Importance(reason) /\ out.confidence = Confidence(reason)
               /\ out.manual = item.manual
<1>1. PICK reason : reason = IF item.boilerplate THEN "boilerplate_content" ELSE Reason(text, item)
  OBVIOUS
<1>2. PICK extract, type, importance, confidence :
        /\ extract = (reason \notin {"weak_context_only", "boilerplate_content"})
        /\ type = IF reason = "boilerplate_content" THEN "context" ELSE UnitType(text)
        /\ importance = Importance(reason) /\ confidence = Confidence(reason)
  OBVIOUS
<1>3. PICK out : out = [extract |-> extract, reason |-> reason, type |-> type,
                        importance |-> importance, confidence |-> confidence,
                        manual |-> item.manual]
  OBVIOUS
<1>4. out = TriageTrace(text, item) BY <1>1, <1>2, <1>3 DEF TriageTrace, Decided
<1> QED BY <1>1, <1>2, <1>3, <1>4

\* Marks are found in every text that has more of them.
LEMMA MarksKept ==
    ASSUME NEW text, NEW more, text \subseteq more
    PROVE  /\ Explicit(text) => Explicit(more)
           /\ Durable(text) => Durable(more)
           /\ Failure(text) => Failure(more)
           /\ Fix(text) => Fix(more)
           /\ Procedure(text) => Procedure(more)
           /\ Correction(text) => Correction(more)
           /\ FactMark \in text => FactMark \in more
           /\ PlanMark \in text => PlanMark \in more
BY DEF Explicit, Durable, Failure, Fix, Procedure, Correction

\* A further mark moves a text to a reason worth at least as much, whatever
\* branch it took before.
LEMMA ReasonMonotone ==
    ASSUME NEW text, NEW more, text \subseteq more, NEW item \in TriagedItems
    PROVE  /\ Importance(Reason(more, item)) >= Importance(Reason(text, item))
           /\ Confidence(Reason(more, item)) >= Confidence(Reason(text, item))
<1> DEFINE decided(t) == (Explicit(t) /\ item.role = "user") \/ Correction(t)
           steps(t) == /\ Procedure(t) /\ ~item.event
                       /\ Durable(t) \/ Explicit(t) \/ Failure(t)
           fixed(t) == Fix(t) \/ steps(t)
           intent(t) == Durable(t) /\ Explicit(t)
           fact(t) == Durable(t) /\ FactMark \in t
           plan(t) == Durable(t) /\ PlanMark \in t /\ ~item.event
<1>1. /\ decided(text) => decided(more)
      /\ fixed(text) => fixed(more)
      /\ intent(text) => intent(more)
      /\ fact(text) => fact(more)
      /\ plan(text) => plan(more)
  BY MarksKept
<1>2. \A t : Reason(t, item) =
               IF item.manual THEN "manual_intent"
               ELSE IF decided(t) THEN "explicit_decision_or_rule"
               ELSE IF fixed(t) THEN "failure_fix_or_procedure"
               ELSE IF intent(t) THEN "durable_change_with_intent"
               ELSE IF fact(t) THEN "declared_durable_fact"
               ELSE IF plan(t) THEN "declared_durable_plan"
               ELSE "weak_context_only"
  BY DEF Reason
<1> HIDE DEF decided, fixed, intent, fact, plan
<1>3. CASE item.manual BY <1>2, <1>3, Worth
<1>4. CASE ~item.manual /\ decided(more) BY <1>2, <1>4, Worth
<1>5. CASE ~item.manual /\ ~decided(more) /\ fixed(more) BY <1>1, <1>2, <1>5, Worth
<1>6. CASE ~item.manual /\ ~decided(more) /\ ~fixed(more) BY <1>1, <1>2, <1>6, Worth
<1> QED BY <1>3, <1>4, <1>5, <1>6

\* Without an event's steps the gate decides an event alike.
LEMMA EventReason ==
    ASSUME NEW text, NEW item, item.event
    PROVE  Reason(text \ {Verify}, item) = Reason(text, item)
<1>1. PICK less : less = text \ {Verify} OBVIOUS
<1>2. /\ Explicit(less) <=> Explicit(text)
      /\ Durable(less) <=> Durable(text)
      /\ Fix(less) <=> Fix(text)
      /\ Correction(less) <=> Correction(text)
      /\ FactMark \in less <=> FactMark \in text
  BY <1>1 DEF Explicit, Durable, Failure, Fix, Correction, Always, Decision, Rule, Schema, Error,
         Fixed, Pass, Instead, FactMark, Verify
<1>3. Reason(less, item) = Reason(text, item) BY <1>2 DEF Reason
<1> QED BY <1>1, <1>3

\* What the gate decides is steady, for every text and item.
LEMMA GateIsSteady ==
    ASSUME TriageInv
    PROVE  GateSteady
<1> SUFFICES ASSUME case.is = "triage"
             PROVE  GateSteady
  BY DEF GateSteady, GateMonotone, StepsNeverExtractEvents, EventsExtractFor, GateActivates
<1>1. PICK text, item : text = case.text /\ item = case.item OBVIOUS
<1>2. text \in SUBSET Keywords /\ item \in TriagedItems /\ case.out = TriageTrace(text, item)
  BY <1>1 DEF TriageInv
<1>3. GateMonotone
  <2>1. ASSUME NEW k \in Keywords \ text
        PROVE  /\ TriageTrace(text \cup {k}, item).importance >= case.out.importance
               /\ TriageTrace(text \cup {k}, item).confidence >= case.out.confidence
    <3>1. PICK more : more = text \cup {k} OBVIOUS
    <3>2. /\ Importance(Reason(more, item)) >= Importance(Reason(text, item))
          /\ Confidence(Reason(more, item)) >= Confidence(Reason(text, item))
      BY <1>2, <3>1, ReasonMonotone
    <3>3. CASE item.boilerplate BY <1>2, <3>1, <3>3, DecidedFields, Worth
    <3>4. CASE ~item.boilerplate BY <1>2, <3>1, <3>2, <3>4, DecidedFields
    <3> QED BY <3>3, <3>4
  <2> QED BY <1>1, <2>1 DEF GateMonotone
<1>4. StepsNeverExtractEvents
  <2>1. ASSUME item.event
        PROVE  TriageTrace(text \ {Verify}, item).extract = case.out.extract
    <3>1. Reason(text \ {Verify}, item) = Reason(text, item) BY <2>1, EventReason
    <3> QED BY <1>2, <3>1, DecidedFields
  <2> QED BY <1>1, <2>1 DEF StepsNeverExtractEvents
<1>6. EventsExtractFor
  <2>1. ASSUME item.event
        PROVE  case.out.extract <=> /\ ~item.boilerplate
                                    /\ \/ item.manual \/ Correction(text) \/ Fix(text)
                                       \/ /\ Durable(text)
                                          /\ Explicit(text) \/ FactMark \in text
    <3>1. item.role # "user" BY <1>2, <2>1 DEF TriagedItems
    <3>2. Reason(text, item) \notin {"weak_context_only", "boilerplate_content"} <=>
             \/ item.manual \/ Correction(text) \/ Fix(text)
             \/ Durable(text) /\ (Explicit(text) \/ FactMark \in text)
      BY <2>1, <3>1 DEF Reason
    <3> QED BY <1>2, <3>2, DecidedFields
  <2> QED BY <1>1, <2>1 DEF EventsExtractFor
<1>5. GateActivates
  <2>1. case.out.extract <=> ActivationPasses(case.out, TRUE)
    <3>1. PICK reason : reason = IF item.boilerplate THEN "boilerplate_content"
                                 ELSE Reason(text, item)
      OBVIOUS
    <3>2. /\ reason \in {"manual_intent", "explicit_decision_or_rule",
                         "failure_fix_or_procedure", "durable_change_with_intent",
                         "declared_durable_fact", "declared_durable_plan",
                         "weak_context_only", "boilerplate_content"}
          /\ reason = "manual_intent" => item.manual
          /\ reason = "weak_context_only" => ~item.manual
      BY <3>1 DEF Reason
    <3>3. /\ case.out.extract = (reason \notin {"weak_context_only", "boilerplate_content"})
          /\ case.out.importance = Importance(reason)
          /\ case.out.confidence = Confidence(reason)
          /\ case.out.manual = item.manual
      BY <1>2, <3>1, DecidedFields
    <3>4. ActivationPasses(case.out, TRUE) <=>
             Confidence(reason) >= 50 /\ (Importance(reason) >= 45 \/ item.manual)
      BY <3>3 DEF ActivationPasses
    <3>5. (reason \notin {"weak_context_only", "boilerplate_content"}) <=>
             Confidence(reason) >= 50 /\ (Importance(reason) >= 45 \/ item.manual)
      BY <3>2, Worth
    <3> QED BY <3>3, <3>4, <3>5
  <2> QED BY <2>1 DEF GateActivates
<1> QED BY <1>3, <1>4, <1>5, <1>6 DEF GateSteady
-----------------------------------------------------------------------------
(* What the folds of Retrieval compute: the recursive function FoldLeft is *)
(* defined by exists (by the first length for which it would not), and     *)
(* takes one step for each element.                                        *)

\* The step of a fold: a sum, a power, an item, evidence or relation to pack, an element
\* to keep, a text to look up or to put into the cache, a unit to group, a span to merge,
\* a window to choose, or a line or paragraph of a document.
Step(f, b, x) ==
    CASE f.op = "spent" -> b + x.cost
      [] f.op = "power" -> f.base * b
      [] f.op = "greedy" -> PackItem(b, x, f.barred)
      [] f.op = "evidence" -> AddEvidence(b, f.ranked, x, f.k, f.admitted)
      [] f.op = "first" -> AddRelation(b, f.ranked, x, f.k)
      [] f.op = "only" -> AppendIf(b, x, x \in f.set)
      [] f.op = "distinct" -> AppendIf(b, x, x \notin ToSet(b))
      [] f.op = "get" -> Get(b, x)
      [] f.op = "put" -> Put(b, x, f.size)
      [] f.op = "joined" -> Joined(b, x)
      [] f.op = "span" -> AddSpan(b, x)
      [] f.op = "lexical" -> AddLexical(b, x)
      [] f.op = "cjk" -> AddCjk(b, x)
      [] f.op = "chars" -> b + f.doc[x].size
      [] f.op = "tokens" -> b + Tokens(f.doc, x)
      [] f.op = "line" -> AddLine(f.doc, b, x)
      [] f.op = "split" -> SplitLine(f.doc, b, x)
      [] f.op = "gather" -> AddParagraph(f.doc, b, x, f.max)
      [] f.op = "flat" -> b \o x

\* The equation of the recursive function that FoldLeft applies to the indices.
Iterates(f, g, base, s, n) ==
    g = [x \in SUBSET (1..n) |-> IF x = {} THEN base
                                 ELSE Step(f, g[x \ {Max(x)}], s[Max(x)])]

\* v is what the fold computes over the first n elements of s.
FoldsTo(f, base, s, n, v) == \E g : Iterates(f, g, base, s, n) /\ v = g[1..n]

\* Max of a set with a greatest member.
LEMMA MaxIs ==
    ASSUME NEW x \in SUBSET Nat, NEW m \in x, \A y \in x : y <= m
    PROVE  Max(x) = m
<1>1. \A y \in x : m >= y OBVIOUS
<1>2. Max(x) \in x /\ \A y \in x : Max(x) >= y BY <1>1 DEF Max
<1>3. Max(x) >= m /\ Max(x) <= m /\ Max(x) \in Nat BY <1>2
<1> QED BY <1>3

\* A set of indices has a greatest.
LEMMA MaxOfIndices ==
    ASSUME NEW n \in Nat, NEW x \in SUBSET (0..n), x # {}
    PROVE  Max(x) \in x /\ \A y \in x : y <= Max(x)
<1> DEFINE rest == {n - y : y \in x}
<1>1. rest \in SUBSET Nat /\ rest # {}
  <2>1. \A y \in x : n - y \in Nat OBVIOUS
  <2> QED BY <2>1
<1>2. PICK k \in rest : \A j \in rest : k <= j
  <2> HIDE DEF rest
  <2> QED BY <1>1, LeastNat
<1>3. PICK m \in x : k = n - m OBVIOUS
<1>4. \A y \in x : n - m <= n - y BY <1>2, <1>3
<1>5. \A y \in x : y <= m
  <2> HIDE DEF rest
  <2> QED BY <1>4
<1>6. Max(x) = m
  <2> HIDE DEF rest
  <2> QED BY <1>5, MaxIs
<1> QED BY <1>5, <1>6

\* What holds of 0 and goes on to the next number holds up to n.
LEMMA UpTo ==
    ASSUME NEW n \in Nat, NEW good \in SUBSET Nat, 0 \in good,
           \A j \in 1..n : j - 1 \in good => j \in good
    PROVE  \A j \in 0..n : j \in good
<1> DEFINE bad == {j \in 0..n : j \notin good}
<1>1. SUFFICES ASSUME bad # {} PROVE FALSE OBVIOUS
<1>2. bad \in SUBSET Nat OBVIOUS
<1>3. PICK j \in bad : \A i \in bad : j <= i
  <2> HIDE DEF bad
  <2> QED BY <1>1, <1>2, LeastNat
<1>4. j \in 0..n /\ j \notin good OBVIOUS
<1>5. j \in 1..n /\ j - 1 \in 0..n /\ ~(j <= j - 1) BY <1>4
<1>6. j - 1 \notin bad
  <2> HIDE DEF bad
  <2> QED BY <1>3, <1>5
<1> QED BY <1>4, <1>5, <1>6

\* The function over n indices extends to one more.
LEMMA IteratesStep ==
    ASSUME NEW f, NEW base, NEW s, NEW n \in Nat, NEW g, Iterates(f, g, base, s, n)
    PROVE  \E h : /\ Iterates(f, h, base, s, n + 1)
                  /\ \A x \in SUBSET (1..n) : h[x] = g[x]
<1> DEFINE all == SUBSET (1..(n + 1))
           h == [x \in all |-> IF n + 1 \in x THEN Step(f, g[x \ {n + 1}], s[n + 1]) ELSE g[x]]
<1>1. \A x \in SUBSET (1..n) : x \in all /\ n + 1 \notin x OBVIOUS
<1>2. \A x \in SUBSET (1..n) : h[x] = g[x] BY <1>1
<1>3. \A x \in all : h[x] = IF x = {} THEN base ELSE Step(f, h[x \ {Max(x)}], s[Max(x)])
  <2> SUFFICES ASSUME NEW x \in all
               PROVE  h[x] = IF x = {} THEN base ELSE Step(f, h[x \ {Max(x)}], s[Max(x)])
    OBVIOUS
  <2>1. CASE n + 1 \in x
    <3>1. Max(x) = n + 1
      <4>1. x \in SUBSET Nat /\ \A y \in x : y <= n + 1 OBVIOUS
      <4> HIDE DEF h, all
      <4> QED BY <2>1, <4>1, MaxIs
    <3>2. x \ {n + 1} \in SUBSET (1..n) OBVIOUS
    <3>3. h[x \ {n + 1}] = g[x \ {n + 1}]
      <4> HIDE DEF h, all
      <4> QED BY <3>2, <1>2
    <3>4. h[x] = Step(f, g[x \ {n + 1}], s[n + 1]) BY <2>1
    <3> HIDE DEF h, all
    <3> QED BY <2>1, <3>1, <3>3, <3>4
  <2>2. CASE n + 1 \notin x
    <3>1. x \in SUBSET (1..n) BY <2>2
    <3>2. h[x] = g[x] BY <3>1, <1>2
    <3>3. g[x] = IF x = {} THEN base ELSE Step(f, g[x \ {Max(x)}], s[Max(x)]) BY <3>1 DEF Iterates
    <3>4. h[x \ {Max(x)}] = g[x \ {Max(x)}]
      <4>1. x \ {Max(x)} \in SUBSET (1..n) BY <3>1
      <4> HIDE DEF h
      <4> QED BY <4>1, <1>2
    <3> HIDE DEF h, all
    <3> QED BY <3>2, <3>3, <3>4
  <2> QED BY <2>1, <2>2
<1>4. Iterates(f, h, base, s, n + 1)
  <2>1. h = [x \in all |-> h[x]] OBVIOUS
  <2>2. h = [x \in all |-> IF x = {} THEN base ELSE Step(f, h[x \ {Max(x)}], s[Max(x)])]
    <3> HIDE DEF h, all
    <3> QED BY <1>3, <2>1
  <2> HIDE DEF h
  <2> QED BY <2>2 DEF Iterates
<1> QED BY <1>2, <1>4

\* It exists for any number of indices.
LEMMA IteratesExists ==
    ASSUME NEW f, NEW base, NEW s, NEW n \in Nat
    PROVE  \E g : Iterates(f, g, base, s, n)
<1> DEFINE good == {m \in Nat : \E g : Iterates(f, g, base, s, m)}
<1>1. 0 \in good
  <2>1. PICK g : g = [x \in SUBSET (1..0) |-> base] OBVIOUS
  <2>2. SUBSET (1..0) = {{}} OBVIOUS
  <2>3. g = [x \in SUBSET (1..0) |-> IF x = {} THEN base
                                     ELSE Step(f, g[x \ {Max(x)}], s[Max(x)])]
    BY <2>1, <2>2
  <2> QED BY <2>3 DEF Iterates
<1>2. ASSUME NEW m \in 1..n, m - 1 \in good
      PROVE  m \in good
  <2>1. PICK k : k = m - 1 OBVIOUS
  <2>2. k \in Nat /\ m = k + 1 /\ m \in Nat BY <2>1
  <2>3. PICK g : Iterates(f, g, base, s, k) BY <1>2, <2>1
  <2>4. \E h : Iterates(f, h, base, s, k + 1) BY <2>2, <2>3, IteratesStep
  <2> QED BY <2>2, <2>4
<1>3. good \in SUBSET Nat /\ n \in 0..n OBVIOUS
<1>4. n \in good
  <2> HIDE DEF good
  <2> QED BY <1>1, <1>2, <1>3, UpTo
<1> QED BY <1>4

\* The values of a fold after each of n steps.
Runs(f, base, s, n, v, run) ==
    /\ run[0] = base /\ run[n] = v
    /\ \A j \in 1..n : run[j] = Step(f, run[j - 1], s[j])

\* A fold runs: it is the last of the values of its steps.
LEMMA FoldRuns ==
    ASSUME NEW f, NEW base, NEW s, NEW n \in Nat, NEW v, FoldsTo(f, base, s, n, v)
    PROVE  \E run : Runs(f, base, s, n, v, run)
<1>1. PICK g : Iterates(f, g, base, s, n) /\ v = g[1..n] BY DEF FoldsTo
<1> DEFINE run == [j \in 0..n |-> g[1..j]]
<1>2. \A j \in 0..n : run[j] = g[1..j] OBVIOUS
<1>3. g[1..0] = base
  <2>1. 1..0 = {} /\ {} \in SUBSET (1..n) OBVIOUS
  <2>2. g[{}] = base BY <1>1, <2>1 DEF Iterates
  <2> QED BY <2>1, <2>2
<1>4. ASSUME NEW j \in 1..n
      PROVE  g[1..j] = Step(f, g[1..(j - 1)], s[j])
  <2>1. Max(1..j) = j
    <3>1. j \in 1..j /\ 1..j \in SUBSET Nat /\ \A y \in 1..j : y <= j OBVIOUS
    <3> QED BY <3>1, MaxIs
  <2>2. (1..j) \ {j} = 1..(j - 1) OBVIOUS
  <2>3. 1..j \in SUBSET (1..n) /\ 1..j # {} OBVIOUS
  <2> QED BY <1>1, <2>1, <2>2, <2>3 DEF Iterates
<1>5. /\ 0 \in 0..n /\ n \in 0..n
      /\ \A j \in 1..n : j \in 0..n /\ j - 1 \in 0..n
  OBVIOUS
<1> HIDE DEF run
<1>6. \A j \in 1..n : run[j] = Step(f, run[j - 1], s[j]) BY <1>2, <1>4, <1>5
<1>7. Runs(f, base, s, n, v, run) BY <1>1, <1>2, <1>3, <1>5, <1>6 DEF Runs
<1> QED BY <1>7

\* A fold over nothing.
LEMMA FoldNothing ==
    ASSUME NEW f, NEW base, NEW s, NEW n, n = 0, NEW v, FoldsTo(f, base, s, n, v)
    PROVE  v = base
<1>1. n \in Nat OBVIOUS
<1>2. PICK run : Runs(f, base, s, n, v, run) BY <1>1, FoldRuns
<1> QED BY <1>2 DEF Runs

\* A fold over one element more takes one step more.
LEMMA FoldLonger ==
    ASSUME NEW f, NEW base, NEW s, NEW t, NEW n \in Nat, NEW m, m = n + 1,
           \A i \in 1..n : s[i] = t[i],
           NEW v, FoldsTo(f, base, s, n, v), NEW w, FoldsTo(f, base, t, m, w)
    PROVE  w = Step(f, v, t[m])
<1>1. PICK a : Runs(f, base, s, n, v, a) BY FoldRuns
<1>2. m \in Nat OBVIOUS
<1>3. PICK b : Runs(f, base, t, m, w, b) BY <1>2, FoldRuns
<1> DEFINE good == {j \in Nat : a[j] = b[j]}
<1>4. 0 \in good /\ good \in SUBSET Nat BY <1>1, <1>3 DEF Runs
<1>5. ASSUME NEW j \in 1..n, j - 1 \in good
      PROVE  j \in good
  <2>1. a[j - 1] = b[j - 1] /\ j \in 1..m /\ j \in Nat BY <1>5
  <2>2. a[j] = b[j] BY <1>1, <1>3, <2>1 DEF Runs
  <2> QED BY <2>1, <2>2
<1>6. n \in good
  <2>1. n \in 0..n OBVIOUS
  <2> HIDE DEF good
  <2> QED BY <1>4, <1>5, <2>1, UpTo
<1>7. m \in 1..m /\ m - 1 = n OBVIOUS
<1> QED BY <1>1, <1>3, <1>6, <1>7 DEF Runs
-----------------------------------------------------------------------------
(* The folds of Retrieval.                                                 *)

\* What a sequence of items costs is a fold.
LEMMA SpentFolds ==
    ASSUME NEW items, NEW n \in Nat, DOMAIN items = 1..n, NEW f, f = [op |-> "spent"]
    PROVE  FoldsTo(f, 0, items, n, Spent(items))
<1> DEFINE eq(g) == g = [x \in SUBSET (1..n) |->
                           IF x = {} THEN 0 ELSE g[x \ {Max(x)}] + items[Max(x)].cost]
           it == CHOOSE g : eq(g)
<1>1. Spent(items) = it[1..n] BY DEF Spent, FoldLeft, MapThenFoldSet
<1>2. \A b, x : Step(f, b, x) = b + x.cost BY DEF Step
<1>3. PICK g : Iterates(f, g, 0, items, n) BY IteratesExists
<1>4. eq(g) BY ONLY <1>2, <1>3 DEF Iterates
<1>5. eq(it)
  <2> HIDE DEF eq
  <2> QED BY <1>4
<1>6. PICK h : h = it OBVIOUS
<1>7. eq(h) BY <1>5, <1>6
<1>8. Iterates(f, h, 0, items, n) BY <1>2, <1>7 DEF Iterates
<1> QED BY <1>1, <1>6, <1>8 DEF FoldsTo

\* A power is a fold.
LEMMA PowerFolds ==
    ASSUME NEW a, NEW n \in Nat, NEW f, f = [op |-> "power", base |-> a]
    PROVE  FoldsTo(f, 1, [i \in 1..n |-> i], n, Power(a, n))
<1> DEFINE s == [i \in 1..n |-> i]
           eq(g) == g = [x \in SUBSET (1..n) |-> IF x = {} THEN 1 ELSE a * g[x \ {Max(x)}]]
           it == CHOOSE g : eq(g)
<1>1. Power(a, n) = it[1..n] BY DEF Power, FoldLeft, MapThenFoldSet
<1>2. \A b, x : Step(f, b, x) = a * b BY DEF Step
<1> HIDE DEF s
<1>3. PICK g : Iterates(f, g, 1, s, n) BY IteratesExists
<1>4. eq(g) BY <1>2, <1>3 DEF Iterates
<1>5. eq(it)
  <2> HIDE DEF eq
  <2> QED BY <1>4
<1>6. PICK h : h = it OBVIOUS
<1>7. eq(h) BY <1>5, <1>6
<1>8. Iterates(f, h, 1, s, n) BY <1>2, <1>7 DEF Iterates
<1>9. FoldsTo(f, 1, s, n, Power(a, n)) BY <1>1, <1>6, <1>8 DEF FoldsTo
<1> QED BY <1>9 DEF s

\* Greedy packing is a fold.
LEMMA GreedyFolds ==
    ASSUME NEW pack, NEW items, NEW barred, NEW n \in Nat, DOMAIN items = 1..n,
           NEW f, f = [op |-> "greedy", barred |-> barred]
    PROVE  FoldsTo(f, pack, items, n, Greedy(pack, items, barred))
<1> DEFINE eq(g) == g = [x \in SUBSET (1..n) |->
                           IF x = {} THEN pack ELSE PackItem(g[x \ {Max(x)}], items[Max(x)], barred)]
           it == CHOOSE g : eq(g)
<1>1. Greedy(pack, items, barred) = it[1..n] BY DEF Greedy, FoldLeft, MapThenFoldSet
<1>2. \A b, x : Step(f, b, x) = PackItem(b, x, barred) BY DEF Step
<1>3. PICK g : Iterates(f, g, pack, items, n) BY IteratesExists
<1>4. eq(g) BY <1>2, <1>3 DEF Iterates
<1>5. eq(it)
  <2> HIDE DEF eq
  <2> QED BY <1>4
<1>6. PICK h : h = it OBVIOUS
<1>7. eq(h) BY <1>5, <1>6
<1>8. Iterates(f, h, pack, items, n) BY <1>2, <1>7 DEF Iterates
<1> QED BY <1>1, <1>6, <1>8 DEF FoldsTo

\* The pass over the evidence of compact_output is a fold.
LEMMA EvidenceFolds ==
    ASSUME NEW ranked, NEW lines, NEW k, NEW n \in Nat, DOMAIN ranked = 1..n, NEW f,
           f = [op |-> "evidence", ranked |-> ranked, k |-> k, admitted |-> ToSet(lines.kept)]
    PROVE  FoldsTo(f, Pack(lines.left, <<>>), [i \in 1..n |-> i], n, EvidencePass(ranked, lines, k))
<1> DEFINE s == [i \in 1..n |-> i]
           base == Pack(lines.left, <<>>)
           admitted == ToSet(lines.kept)
           eq(g) == g = [x \in SUBSET (1..n) |->
                           IF x = {} THEN base
                           ELSE AddEvidence(g[x \ {Max(x)}], ranked, s[Max(x)], k, admitted)]
           it == CHOOSE g : eq(g)
<1>1. EvidencePass(ranked, lines, k) = it[1..n]
  BY DEF EvidencePass, FoldLeftDomain, FoldLeft, MapThenFoldSet
<1>2. \A b, x : Step(f, b, x) = AddEvidence(b, ranked, x, k, admitted) BY DEF Step
<1> HIDE DEF s, base, admitted
<1>3. PICK g : Iterates(f, g, base, s, n) BY IteratesExists
<1>4. eq(g) BY <1>2, <1>3 DEF Iterates
<1>5. eq(it)
  <2> HIDE DEF eq
  <2> QED BY <1>4
<1>6. PICK h : h = it OBVIOUS
<1>7. eq(h) BY <1>5, <1>6
<1>8. Iterates(f, h, base, s, n) BY <1>2, <1>7 DEF Iterates
<1>9. FoldsTo(f, base, s, n, EvidencePass(ranked, lines, k)) BY <1>1, <1>6, <1>8 DEF FoldsTo
<1> QED BY <1>9 DEF s, base

\* The first pass of fused_output is a fold.
LEMMA FirstFolds ==
    ASSUME NEW ranked, NEW allowance, NEW k, NEW n \in Nat, DOMAIN ranked = 1..n, NEW f,
           f = [op |-> "first", ranked |-> ranked, k |-> k]
    PROVE  FoldsTo(f, Output(<<>>, <<>>, <<>>, allowance), [i \in 1..n |-> i], n,
                 FirstPass(ranked, allowance, k))
<1> DEFINE s == [i \in 1..n |-> i]
           base == Output(<<>>, <<>>, <<>>, allowance)
           eq(g) == g = [x \in SUBSET (1..n) |->
                           IF x = {} THEN base
                           ELSE AddRelation(g[x \ {Max(x)}], ranked, s[Max(x)], k)]
           it == CHOOSE g : eq(g)
<1>1. FirstPass(ranked, allowance, k) = it[1..n]
  BY DEF FirstPass, FoldLeftDomain, FoldLeft, MapThenFoldSet
<1>2. \A b, x : Step(f, b, x) = AddRelation(b, ranked, x, k) BY DEF Step
<1> HIDE DEF s, base
<1>3. PICK g : Iterates(f, g, base, s, n) BY IteratesExists
<1>4. eq(g) BY <1>2, <1>3 DEF Iterates
<1>5. eq(it)
  <2> HIDE DEF eq
  <2> QED BY <1>4
<1>6. PICK h : h = it OBVIOUS
<1>7. eq(h) BY <1>5, <1>6
<1>8. Iterates(f, h, base, s, n) BY <1>2, <1>7 DEF Iterates
<1>9. FoldsTo(f, base, s, n, FirstPass(ranked, allowance, k)) BY <1>1, <1>6, <1>8 DEF FoldsTo
<1> QED BY <1>9 DEF s, base
-----------------------------------------------------------------------------
(* The folds of Sorting, EmbeddingCache, Distill and Search.               *)

\* The elements that are in a set are a fold.
LEMMA OnlyFolds ==
    ASSUME NEW S, NEW s, NEW n \in Nat, DOMAIN s = 1..n,
           NEW f, f = [op |-> "only", set |-> S]
    PROVE  FoldsTo(f, <<>>, s, n, Only(s, S))
<1> DEFINE eq(g) == g = [x \in SUBSET (1..n) |->
                           IF x = {} THEN <<>> ELSE AppendIf(g[x \ {Max(x)}], s[Max(x)], s[Max(x)] \in S)]
           it == CHOOSE g : eq(g)
<1>1. Only(s, S) = it[1..n] BY DEF Only, FoldLeft, MapThenFoldSet
<1>2. \A b, x : Step(f, b, x) = AppendIf(b, x, x \in S) BY DEF Step
<1>3. PICK g : Iterates(f, g, <<>>, s, n) BY IteratesExists
<1>4. eq(g) BY <1>2, <1>3 DEF Iterates
<1>5. eq(it)
  <2> HIDE DEF eq
  <2> QED BY <1>4
<1>6. PICK h : h = it OBVIOUS
<1>7. eq(h) BY <1>5, <1>6
<1>8. Iterates(f, h, <<>>, s, n) BY <1>2, <1>7 DEF Iterates
<1> QED BY <1>1, <1>6, <1>8 DEF FoldsTo

\* The distinct elements are a fold.
LEMMA DistinctFolds ==
    ASSUME NEW s, NEW n \in Nat, DOMAIN s = 1..n,
           NEW f, f = [op |-> "distinct"]
    PROVE  FoldsTo(f, <<>>, s, n, Distinct(s))
<1> DEFINE eq(g) == g = [x \in SUBSET (1..n) |->
                           IF x = {} THEN <<>> ELSE AppendIf(g[x \ {Max(x)}], s[Max(x)], s[Max(x)] \notin ToSet(g[x \ {Max(x)}]))]
           it == CHOOSE g : eq(g)
<1>1. Distinct(s) = it[1..n] BY DEF Distinct, FoldLeft, MapThenFoldSet
<1>2. \A b, x : Step(f, b, x) = AppendIf(b, x, x \notin ToSet(b)) BY DEF Step
<1>3. PICK g : Iterates(f, g, <<>>, s, n) BY IteratesExists
<1>4. eq(g) BY <1>2, <1>3 DEF Iterates
<1>5. eq(it)
  <2> HIDE DEF eq
  <2> QED BY <1>4
<1>6. PICK h : h = it OBVIOUS
<1>7. eq(h) BY <1>5, <1>6
<1>8. Iterates(f, h, <<>>, s, n) BY <1>2, <1>7 DEF Iterates
<1> QED BY <1>1, <1>6, <1>8 DEF FoldsTo

\* Looking texts up is a fold.
LEMMA GotFolds ==
    ASSUME NEW c, NEW s, NEW n \in Nat, DOMAIN s = 1..n,
           NEW f, f = [op |-> "get"]
    PROVE  FoldsTo(f, c, s, n, Got(c, s))
<1> DEFINE eq(g) == g = [x \in SUBSET (1..n) |->
                           IF x = {} THEN c ELSE Get(g[x \ {Max(x)}], s[Max(x)])]
           it == CHOOSE g : eq(g)
<1>1. Got(c, s) = it[1..n] BY DEF Got, FoldLeft, MapThenFoldSet
<1>2. \A b, x : Step(f, b, x) = Get(b, x) BY DEF Step
<1>3. PICK g : Iterates(f, g, c, s, n) BY IteratesExists
<1>4. eq(g) BY <1>2, <1>3 DEF Iterates
<1>5. eq(it)
  <2> HIDE DEF eq
  <2> QED BY <1>4
<1>6. PICK h : h = it OBVIOUS
<1>7. eq(h) BY <1>5, <1>6
<1>8. Iterates(f, h, c, s, n) BY <1>2, <1>7 DEF Iterates
<1> QED BY <1>1, <1>6, <1>8 DEF FoldsTo

\* Putting texts into the cache is a fold.
LEMMA PutFolds ==
    ASSUME NEW c, NEW size, NEW s, NEW n \in Nat, DOMAIN s = 1..n,
           NEW f, f = [op |-> "put", size |-> size]
    PROVE  FoldsTo(f, c, s, n, PutAll(c, s, size))
<1> DEFINE eq(g) == g = [x \in SUBSET (1..n) |->
                           IF x = {} THEN c ELSE Put(g[x \ {Max(x)}], s[Max(x)], size)]
           it == CHOOSE g : eq(g)
<1>1. PutAll(c, s, size) = it[1..n] BY DEF PutAll, FoldLeft, MapThenFoldSet
<1>2. \A b, x : Step(f, b, x) = Put(b, x, size) BY DEF Step
<1>3. PICK g : Iterates(f, g, c, s, n) BY IteratesExists
<1>4. eq(g) BY <1>2, <1>3 DEF Iterates
<1>5. eq(it)
  <2> HIDE DEF eq
  <2> QED BY <1>4
<1>6. PICK h : h = it OBVIOUS
<1>7. eq(h) BY <1>5, <1>6
<1>8. Iterates(f, h, c, s, n) BY <1>2, <1>7 DEF Iterates
<1> QED BY <1>1, <1>6, <1>8 DEF FoldsTo

\* Grouping units is a fold.
LEMMA GroupFolds ==
    ASSUME NEW units, NEW s, NEW n \in Nat, DOMAIN s = 1..n, s = ById(units),
           NEW f, f = [op |-> "joined"]
    PROVE  FoldsTo(f, {}, s, n, GroupUnits(units))
<1> DEFINE eq(g) == g = [x \in SUBSET (1..n) |->
                           IF x = {} THEN {} ELSE Joined(g[x \ {Max(x)}], s[Max(x)])]
           it == CHOOSE g : eq(g)
<1>1. GroupUnits(units) = it[1..n] BY DEF GroupUnits, FoldLeft, MapThenFoldSet
<1>2. \A b, x : Step(f, b, x) = Joined(b, x) BY DEF Step
<1>3. PICK g : Iterates(f, g, {}, s, n) BY IteratesExists
<1>4. eq(g) BY ZenonT(30), <1>2, <1>3 DEF Iterates
<1>5. eq(it)
  <2> HIDE DEF eq
  <2> QED BY <1>4
<1>6. PICK h : h = it OBVIOUS
<1>7. eq(h) BY <1>5, <1>6
<1>8. Iterates(f, h, {}, s, n)
  <2>1. PICK all, e : all = SUBSET (1..n) /\ e = {} OBVIOUS
  <2>2. h = [x \in all |-> IF x = {} THEN e ELSE Joined(h[x \ {Max(x)}], s[Max(x)])] BY <1>7, <2>1
  <2>3. h = [x \in all |-> IF x = {} THEN e ELSE Step(f, h[x \ {Max(x)}], s[Max(x)])]
    BY ONLY <1>2, <2>2
  <2> QED BY <2>1, <2>3 DEF Iterates
<1> QED BY <1>1, <1>6, <1>8 DEF FoldsTo

\* Merging spans is a fold.
LEMMA SpanFolds ==
    ASSUME NEW spans, NEW s, NEW n \in Nat, DOMAIN s = 1..n,
           s = Sorted(spans, [x \in spans |-> x]),
           NEW f, f = [op |-> "span"]
    PROVE  FoldsTo(f, <<>>, s, n, MergeSpans(spans))
<1> DEFINE eq(g) == g = [x \in SUBSET (1..n) |->
                           IF x = {} THEN <<>> ELSE AddSpan(g[x \ {Max(x)}], s[Max(x)])]
           it == CHOOSE g : eq(g)
<1>1. MergeSpans(spans) = it[1..n] BY DEF MergeSpans, FoldLeft, MapThenFoldSet
<1>2. \A b, x : Step(f, b, x) = AddSpan(b, x) BY DEF Step
<1>3. PICK g : Iterates(f, g, <<>>, s, n) BY IteratesExists
<1>4. eq(g) BY <1>2, <1>3 DEF Iterates
<1>5. eq(it)
  <2> HIDE DEF eq
  <2> QED BY <1>4
<1>6. PICK h : h = it OBVIOUS
<1>7. eq(h) BY <1>5, <1>6
<1>8. Iterates(f, h, <<>>, s, n) BY ONLY <1>2, <1>7 DEF Iterates
<1> QED BY <1>1, <1>6, <1>8 DEF FoldsTo

\* Choosing windows of words is a fold.
LEMMA LexicalFolds ==
    ASSUME NEW windows, NEW s, NEW n \in Nat, DOMAIN s = 1..n, s = ByTerms(windows),
           NEW f, f = [op |-> "lexical"]
    PROVE  FoldsTo(f, <<>>, s, n, LexicalWindows(windows))
<1> DEFINE eq(g) == g = [x \in SUBSET (1..n) |->
                           IF x = {} THEN <<>> ELSE AddLexical(g[x \ {Max(x)}], s[Max(x)])]
           it == CHOOSE g : eq(g)
<1>1. LexicalWindows(windows) = it[1..n] BY DEF LexicalWindows, FoldLeft, MapThenFoldSet
<1>2. \A b, x : Step(f, b, x) = AddLexical(b, x) BY DEF Step
<1>3. PICK g : Iterates(f, g, <<>>, s, n) BY IteratesExists
<1>4. eq(g) BY <1>2, <1>3 DEF Iterates
<1>5. eq(it)
  <2> HIDE DEF eq
  <2> QED BY <1>4
<1>6. PICK h : h = it OBVIOUS
<1>7. eq(h) BY <1>5, <1>6
<1>8. Iterates(f, h, <<>>, s, n) BY ONLY <1>2, <1>7 DEF Iterates
<1> QED BY <1>1, <1>6, <1>8 DEF FoldsTo

\* Choosing windows of CJK text is a fold.
LEMMA CjkFolds ==
    ASSUME NEW windows, NEW s, NEW n \in Nat, DOMAIN s = 1..n, s = ByTerms(windows),
           NEW f, f = [op |-> "cjk"]
    PROVE  FoldsTo(f, <<>>, s, n, CjkWindows(windows))
<1> DEFINE eq(g) == g = [x \in SUBSET (1..n) |->
                           IF x = {} THEN <<>> ELSE AddCjk(g[x \ {Max(x)}], s[Max(x)])]
           it == CHOOSE g : eq(g)
<1>1. CjkWindows(windows) = it[1..n] BY DEF CjkWindows, FoldLeft, MapThenFoldSet
<1>2. \A b, x : Step(f, b, x) = AddCjk(b, x) BY DEF Step
<1>3. PICK g : Iterates(f, g, <<>>, s, n) BY IteratesExists
<1>4. eq(g) BY <1>2, <1>3 DEF Iterates
<1>5. eq(it)
  <2> HIDE DEF eq
  <2> QED BY <1>4
<1>6. PICK h : h = it OBVIOUS
<1>7. eq(h) BY <1>5, <1>6
<1>8. Iterates(f, h, <<>>, s, n) BY ONLY <1>2, <1>7 DEF Iterates
<1> QED BY <1>1, <1>6, <1>8 DEF FoldsTo
-----------------------------------------------------------------------------
(* What items cost, and powers.                                            *)

\* Items that cost tokens.
Costed(C) == \A c \in C : c.cost \in Nat

\* Nothing costs nothing.
LEMMA SpentNothing == Spent(<<>>) = 0
<1>1. PICK f, n : f = [op |-> "spent"] /\ n = 0 OBVIOUS
<1>2. n \in Nat /\ DOMAIN <<>> = 1..n BY <1>1
<1>3. PICK base, none : base = 0 /\ none = <<>> OBVIOUS
<1>4. FoldsTo(f, base, none, n, Spent(none)) BY <1>1, <1>2, <1>3, SpentFolds
<1>5. Spent(none) = base BY <1>1, <1>4, FoldNothing
<1> QED BY <1>3, <1>5

\* One item more costs what it costs.
LEMMA SpentAppend ==
    ASSUME NEW C, NEW s \in Seq(C), NEW x
    PROVE  Spent(Append(s, x)) = Spent(s) + x.cost
<1>1. PICK f, n, m, base, t :
        /\ f = [op |-> "spent"] /\ n = Len(s) /\ m = n + 1 /\ base = 0 /\ t = Append(s, x)
  OBVIOUS
<1>2. n \in Nat /\ m \in Nat /\ DOMAIN s = 1..n BY <1>1
<1>3. DOMAIN t = 1..m /\ \A i \in 1..n : s[i] = t[i] BY <1>1
<1>4. t[m] = x BY <1>1
<1>5. FoldsTo(f, base, s, n, Spent(s)) /\ FoldsTo(f, base, t, m, Spent(t))
  BY <1>1, <1>2, <1>3, SpentFolds
<1>6. Spent(t) = Step(f, Spent(s), t[m])
  <2>1. PICK v, w : v = Spent(s) /\ w = Spent(t) OBVIOUS
  <2>2. m = n + 1 /\ \A i \in 1..n : s[i] = t[i] BY <1>1, <1>3
  <2>3. FoldsTo(f, base, s, n, v) /\ FoldsTo(f, base, t, m, w) BY <1>5, <2>1
  <2>4. w = Step(f, v, t[m]) BY <1>2, <2>2, <2>3, FoldLonger
  <2> QED BY <2>1, <2>4
<1>7. Step(f, Spent(s), t[m]) = Spent(s) + x.cost BY <1>1, <1>4 DEF Step
<1> QED BY <1>1, <1>6, <1>7

\* Costs add up to a natural.
LEMMA SpentType ==
    ASSUME NEW C, Costed(C), NEW s \in Seq(C)
    PROVE  Spent(s) \in Nat
<1>1. PICK f, n, base : f = [op |-> "spent"] /\ n = Len(s) /\ base = 0 OBVIOUS
<1>2. n \in Nat /\ DOMAIN s = 1..n BY <1>1
<1>3. FoldsTo(f, base, s, n, Spent(s)) BY <1>1, <1>2, SpentFolds
<1>4. PICK run : Runs(f, base, s, n, Spent(s), run) BY <1>2, <1>3, FoldRuns
<1> DEFINE good == {j \in Nat : run[j] \in Nat}
<1>5. 0 \in good /\ good \in SUBSET Nat BY <1>1, <1>4 DEF Runs
<1>6. ASSUME NEW j \in 1..n, j - 1 \in good
      PROVE  j \in good
  <2>1. run[j] = Step(f, run[j - 1], s[j]) BY <1>4 DEF Runs
  <2>2. Step(f, run[j - 1], s[j]) = run[j - 1] + s[j].cost BY <1>1 DEF Step
  <2>3. s[j] \in C /\ j \in Nat BY <1>1
  <2>4. s[j].cost \in Nat BY <2>3 DEF Costed
  <2>5. run[j - 1] \in Nat BY <1>6
  <2> QED BY <2>1, <2>2, <2>3, <2>4, <2>5
<1>7. n \in good
  <2>1. n \in 0..n BY <1>2
  <2> HIDE DEF good
  <2> QED BY <1>2, <1>5, <1>6, <2>1, UpTo
<1> QED BY <1>4, <1>7 DEF Runs

\* Powers are positive, and one factor more is a factor.
LEMMA PowerStep ==
    ASSUME NEW a, NEW n \in Nat, NEW m, m = n + 1
    PROVE  Power(a, m) = a * Power(a, n)
<1>1. PICK f, s, t, base :
        /\ f = [op |-> "power", base |-> a]
        /\ s = [i \in 1..n |-> i] /\ t = [i \in 1..m |-> i] /\ base = 1
  OBVIOUS
<1>2. m \in Nat /\ \A i \in 1..n : s[i] = t[i]
  <2>1. m \in Nat /\ \A i \in 1..n : i \in 1..m OBVIOUS
  <2>2. \A i \in 1..n : s[i] = i BY <1>1
  <2>3. \A i \in 1..m : t[i] = i BY <1>1
  <2> QED BY <2>1, <2>2, <2>3
<1>3. FoldsTo(f, base, s, n, Power(a, n)) /\ FoldsTo(f, base, t, m, Power(a, m))
  BY <1>1, <1>2, PowerFolds
<1>4. Power(a, m) = Step(f, Power(a, n), t[m]) BY <1>2, <1>3, FoldLonger
<1> QED BY <1>1, <1>4 DEF Step

\* Nothing multiplied is one.
LEMMA PowerNothing ==
    ASSUME NEW a, NEW n, n = 0
    PROVE  Power(a, n) = 1
<1>1. PICK f, s, base :
        f = [op |-> "power", base |-> a] /\ s = [i \in 1..n |-> i] /\ base = 1
  OBVIOUS
<1>2. n \in Nat OBVIOUS
<1>3. FoldsTo(f, base, s, n, Power(a, n)) BY <1>1, <1>2, PowerFolds
<1> QED BY <1>1, <1>3, FoldNothing

\* Powers of positive numbers are positive.
LEMMA PowerPositive ==
    ASSUME NEW a \in Nat \ {0}, NEW n \in Nat
    PROVE  Power(a, n) \in Nat \ {0}
<1> DEFINE good == {j \in Nat : Power(a, j) \in Nat \ {0}}
<1>1. 0 \in good /\ good \in SUBSET Nat
  <2>1. PICK z : z = 0 OBVIOUS
  <2>2. Power(a, z) = 1 BY <2>1, PowerNothing
  <2> QED BY <2>1, <2>2
<1>2. ASSUME NEW j \in 1..n, j - 1 \in good
      PROVE  j \in good
  <2>1. PICK i : i = j - 1 OBVIOUS
  <2>2. i \in Nat /\ j = i + 1 /\ j \in Nat BY <2>1
  <2>3. Power(a, j) = a * Power(a, i) BY <2>2, PowerStep
  <2>4. Power(a, i) \in Nat \ {0} BY <1>2, <2>1
  <2>5. \A x, y \in Nat \ {0} : x * y \in Nat \ {0} OBVIOUS
  <2> QED BY <2>2, <2>3, <2>4, <2>5
<1>3. n \in good
  <2>1. n \in 0..n OBVIOUS
  <2> HIDE DEF good
  <2> QED BY <1>1, <1>2, <2>1, UpTo
<1> QED BY <1>3
-----------------------------------------------------------------------------
(* Greedy packing.                                                         *)

\* What is left of a budget, and what was taken.
IsPack(C, p) == p = Pack(p.left, p.kept) /\ p.left \in Nat /\ p.kept \in Seq(C)

\* What may be packed was not packed before.
Unpacked(p, items, barred) == Once(p.kept) /\ Once(items) /\ ToSet(p.kept) \cap ToSet(items) \subseteq barred

\* q is what a greedy packing makes of p with the first n items.
PackedTo(C, p, items, barred, n, q) ==
    /\ IsPack(C, q)
    /\ q.left + Spent(q.kept) = p.left + Spent(p.kept) /\ q.left <= p.left
    /\ ToSet(p.kept) \subseteq ToSet(q.kept)
    /\ \A x \in ToSet(q.kept) : x \in ToSet(p.kept) \/ (x \notin barred /\ \E i \in 1..n : x = items[i])
    /\ \A i \in 1..n : items[i] \in ToSet(q.kept) \/ items[i] \in barred \/ items[i].cost > q.left
    /\ Unpacked(p, items, barred) => Once(q.kept)

\* The fields of a pack.
LEMMA PackFields ==
    ASSUME NEW left, NEW kept
    PROVE  Pack(left, kept).left = left /\ Pack(left, kept).kept = kept
BY DEF Pack

\* What a sequence with one element more holds.
LEMMA AppendSet ==
    ASSUME NEW C, NEW s \in Seq(C), NEW x
    PROVE  ToSet(Append(s, x)) = ToSet(s) \cup {x}
<1>1. PICK t, n : t = Append(s, x) /\ n = Len(s) OBVIOUS
<1>2. /\ n \in Nat /\ DOMAIN s = 1..n /\ DOMAIN t = 1..(n + 1)
      /\ t[n + 1] = x /\ \A i \in 1..n : t[i] = s[i]
  BY <1>1
<1>3. \A i \in 1..(n + 1) : i \in 1..n \/ i = n + 1 BY <1>2
<1>4. \A i \in 1..n : i \in 1..(n + 1) BY <1>2
<1>5. n + 1 \in 1..(n + 1) BY <1>2
<1>6. ToSet(t) \subseteq ToSet(s) \cup {x} BY <1>2, <1>3 DEF ToSet
<1>7. ToSet(s) \cup {x} \subseteq ToSet(t) BY <1>2, <1>4, <1>5 DEF ToSet
<1> QED BY <1>1, <1>6, <1>7

\* What is new to a sequence leaves it apart.
LEMMA AppendApart ==
    ASSUME NEW C, NEW s \in Seq(C), NEW x, x \notin ToSet(s), Once(s)
    PROVE  Once(Append(s, x))
<1>1. PICK t, n : t = Append(s, x) /\ n = Len(s) OBVIOUS
<1>2. /\ n \in Nat /\ DOMAIN s = 1..n /\ DOMAIN t = 1..(n + 1)
      /\ t[n + 1] = x /\ \A i \in 1..n : t[i] = s[i]
  BY <1>1
<1>3. \A i \in 1..(n + 1) : i \in 1..n \/ i = n + 1 BY <1>2
<1>4. \A i \in 1..n : s[i] # x BY <1>2 DEF ToSet
<1>5. Once(t) BY <1>2, <1>3, <1>4 DEF Once
<1> QED BY <1>1, <1>5

\* One item more.
LEMMA PackedStep ==
    ASSUME NEW C, Costed(C), NEW p, IsPack(C, p), NEW items \in Seq(C), NEW barred,
           NEW q, NEW n \in Nat, PackedTo(C, p, items, barred, n, q), NEW m, m = n + 1, m <= Len(items),
           NEW r, r = PackItem(q, items[m], barred)
    PROVE  PackedTo(C, p, items, barred, m, r)
<1>1. PICK x : x = items[m] OBVIOUS
<1>2. /\ m \in DOMAIN items /\ x \in C /\ \A i \in 1..m : i \in 1..n \/ i = m
      /\ \A i \in 1..n : i \in 1..m /\ i \in DOMAIN items /\ i # m
      /\ m \in 1..m
  <2>1. m \in DOMAIN items OBVIOUS
  <2>2. \A i \in 1..m : i \in 1..n \/ i = m OBVIOUS
  <2>3. \A i \in 1..n : i \in 1..m /\ i \in DOMAIN items /\ i # m OBVIOUS
  <2>4. m \in 1..m OBVIOUS
  <2> QED BY <1>1, <2>1, <2>2, <2>3, <2>4
<1>3. x.cost \in Nat BY <1>2 DEF Costed
<1>4. /\ IsPack(C, q) /\ q.left \in Nat /\ q.kept \in Seq(C)
      /\ q.left + Spent(q.kept) = p.left + Spent(p.kept) /\ q.left <= p.left
  BY DEF PackedTo, IsPack
<1>5. CASE x \in barred \/ x.cost > q.left
  <2>1. r = q BY <1>1, <1>5 DEF PackItem
  <2>2. \A i \in 1..m : items[i] \in ToSet(q.kept) \/ items[i] \in barred \/ items[i].cost > q.left
    BY <1>1, <1>2, <1>5 DEF PackedTo
  <2>3. \A y \in ToSet(q.kept) : y \in ToSet(p.kept) \/ (y \notin barred /\ \E i \in 1..m : y = items[i])
    BY <1>2 DEF PackedTo
  <2> QED BY <2>1, <2>2, <2>3 DEF PackedTo
<1>6. CASE x \notin barred /\ x.cost <= q.left
  <2>1. PICK left, kept : left = q.left - x.cost /\ kept = Append(q.kept, x) OBVIOUS
  <2>2. r = Pack(left, kept) BY <1>1, <1>3, <1>4, <1>6, <2>1 DEF PackItem
  <2>3. r.left = left /\ r.kept = kept BY <2>2, PackFields
  <2>4. left \in Nat /\ left <= q.left BY <1>3, <1>4, <1>6, <2>1
  <2>5. kept \in Seq(C) BY <1>2, <1>4, <2>1
  <2>6. IsPack(C, r) BY <2>2, <2>3, <2>4, <2>5 DEF IsPack
  <2>7. Spent(kept) = Spent(q.kept) + x.cost BY <1>4, <2>1, SpentAppend
  <2>8. Spent(q.kept) \in Nat /\ p.left \in Nat BY <1>4, SpentType DEF IsPack
  <2>9. r.left + Spent(r.kept) = p.left + Spent(p.kept) /\ r.left <= p.left
    <3>1. left + (Spent(q.kept) + x.cost) = q.left + Spent(q.kept) BY <1>3, <1>4, <2>1, <2>8
    <3> QED BY <3>1, <1>4, <2>3, <2>4, <2>7, <2>8
  <2>10. ToSet(r.kept) = ToSet(q.kept) \cup {x} BY <1>4, <2>1, <2>3, AppendSet
  <2>11. ToSet(p.kept) \subseteq ToSet(r.kept) BY <2>10 DEF PackedTo
  <2>12. \A y \in ToSet(r.kept) : y \in ToSet(p.kept) \/ (y \notin barred /\ \E i \in 1..m : y = items[i])
    BY <1>1, <1>2, <1>6, <2>10 DEF PackedTo
  <2>13. \A i \in 1..m : items[i] \in ToSet(r.kept) \/ items[i] \in barred \/ items[i].cost > r.left
    <3> TAKE i \in 1..m
    <3>1. CASE i = m BY <1>1, <2>10, <3>1
    <3>2. CASE i \in 1..n
      <4>1. items[i] \in ToSet(q.kept) \/ items[i] \in barred \/ items[i].cost > q.left
        BY <3>2 DEF PackedTo
      <4>2. items[i].cost \in Nat BY <1>2, <3>2 DEF Costed
      <4>3. items[i].cost > q.left => items[i].cost > r.left BY <1>4, <2>3, <2>4, <4>2
      <4> QED BY <2>10, <4>1, <4>3
    <3> QED BY <1>2, <3>1, <3>2
  <2>14. ASSUME Unpacked(p, items, barred)
         PROVE  Once(r.kept)
    <3>1. Once(q.kept) BY <2>14 DEF PackedTo
    <3>2. x \notin ToSet(p.kept)
      <4>1. x \in ToSet(items) BY <1>1, <1>2 DEF ToSet
      <4> QED BY <1>6, <2>14, <4>1 DEF Unpacked
    <3>3. \A i \in 1..n : x # items[i] BY <1>1, <1>2, <2>14 DEF Unpacked, Once
    <3>4. x \notin ToSet(q.kept) BY <3>2, <3>3 DEF PackedTo
    <3> QED BY <1>4, <2>1, <2>3, <3>1, <3>4, AppendApart
  <2> QED BY <2>6, <2>9, <2>11, <2>12, <2>13, <2>14 DEF PackedTo
<1>7. x \in barred \/ x.cost > q.left \/ (x \notin barred /\ x.cost <= q.left) BY <1>3, <1>4
<1> QED BY <1>5, <1>6, <1>7

\* A greedy packing keeps the account, leaves nothing that would still fit
\* and takes nothing twice.
LEMMA GreedyPacks ==
    ASSUME NEW C, Costed(C), NEW p, IsPack(C, p), NEW items \in Seq(C), NEW barred
    PROVE  PackedTo(C, p, items, barred, Len(items), Greedy(p, items, barred))
<1>1. PICK f, n, out :
        f = [op |-> "greedy", barred |-> barred] /\ n = Len(items) /\ out = Greedy(p, items, barred)
  OBVIOUS
<1>2. n \in Nat /\ DOMAIN items = 1..n BY <1>1
<1>3. FoldsTo(f, p, items, n, out) BY <1>1, <1>2, GreedyFolds
<1>4. PICK run : Runs(f, p, items, n, out, run) BY <1>2, <1>3, FoldRuns
<1> DEFINE good == {j \in Nat : j <= n => PackedTo(C, p, items, barred, j, run[j])}
<1>5. 0 \in good
  <2>1. PICK z : z = 0 OBVIOUS
  <2>2. 1..z = {} /\ z \in Nat BY <2>1
  <2>3. p.left \in Nat BY DEF IsPack
  <2>4. PackedTo(C, p, items, barred, z, p) BY <2>2, <2>3 DEF PackedTo, Unpacked
  <2> QED BY <1>4, <2>1, <2>4 DEF Runs
<1>6. ASSUME NEW j \in 1..n, j - 1 \in good
      PROVE  j \in good
  <2>1. PICK i, q, r : i = j - 1 /\ q = run[i] /\ r = run[j] OBVIOUS
  <2>2. i \in Nat /\ j = i + 1 /\ j \in Nat /\ i <= n /\ j <= Len(items) BY <1>1, <1>2, <2>1
  <2>3. PackedTo(C, p, items, barred, i, q) BY <1>6, <2>1, <2>2
  <2>4. r = PackItem(q, items[j], barred) BY <1>1, <1>4, <2>1 DEF Runs, Step
  <2>5. PackedTo(C, p, items, barred, j, r) BY <2>2, <2>3, <2>4, PackedStep
  <2> QED BY <2>1, <2>2, <2>5
<1>7. n \in good
  <2>1. n \in 0..n /\ good \in SUBSET Nat BY <1>2
  <2> HIDE DEF good
  <2> QED BY <1>2, <1>5, <1>6, <2>1, UpTo
<1>8. PackedTo(C, p, items, barred, n, run[n]) BY <1>2, <1>7
<1> QED BY <1>1, <1>4, <1>8 DEF Runs


\* Ranked relations, and their evidence.
IsRanked(C, ranked) ==
    /\ ranked \in Seq(C) /\ Once(ranked)
    /\ \A i \in DOMAIN ranked : ranked[i].evidence \in Seq(C)

\* What an answer is made of, and what it costs.
IsOutput(C, budget, out) ==
    /\ out = Output(out.relations, out.evidence, out.chunks, out.left)
    /\ out.relations \in Seq(C) /\ out.evidence \in Seq(C) /\ out.chunks \in Seq(C)
    /\ out.left \in Nat
    /\ out.left + Spent(out.relations) + Spent(out.evidence) + Spent(out.chunks) = budget

\* The fields of an output.
LEMMA OutputFields ==
    ASSUME NEW relations, NEW evidence, NEW chunks, NEW left
    PROVE  LET out == Output(relations, evidence, chunks, left)
           IN  /\ out.relations = relations /\ out.evidence = evidence
               /\ out.chunks = chunks /\ out.left = left
BY DEF Output

\* An empty pack of a budget.
LEMMA EmptyPack ==
    ASSUME NEW C, NEW left \in Nat
    PROVE  IsPack(C, Pack(left, <<>>)) /\ Once(<<>>) /\ ToSet(<<>>) = {}
<1>1. PICK none, p : none = <<>> /\ p = Pack(left, none) OBVIOUS
<1>2. p.left = left /\ p.kept = none BY <1>1, PackFields
<1>3. none \in Seq(C) /\ DOMAIN none = {} BY <1>1
<1>4. IsPack(C, p) BY <1>1, <1>2, <1>3 DEF IsPack
<1>5. Once(none) /\ ToSet(none) = {} BY <1>3 DEF Once, ToSet
<1> QED BY <1>1, <1>4, <1>5

\* The evidence of a ranked relation.
LEMMA EvidenceIsSeq ==
    ASSUME NEW C, NEW ranked, IsRanked(C, ranked), NEW i \in DOMAIN ranked, NEW k
    PROVE  EvidenceOf(ranked, i, k) \in Seq(C)
<1>1. <<>> \in Seq(C) OBVIOUS
<1> QED BY <1>1 DEF IsRanked, EvidenceOf

\* A pass over evidence keeps the account.
LEMMA EvidencePacks ==
    ASSUME NEW C, Costed(C), NEW ranked, IsRanked(C, ranked), NEW lines, lines.left \in Nat, NEW k,
           NEW e, e = EvidencePass(ranked, lines, k)
    PROVE  IsPack(C, e) /\ e.left + Spent(e.kept) = lines.left /\ e.left <= lines.left
<1>1. PICK f, n, base, s :
        /\ f = [op |-> "evidence", ranked |-> ranked, k |-> k, admitted |-> ToSet(lines.kept)]
        /\ n = Len(ranked) /\ base = Pack(lines.left, <<>>) /\ s = [i \in 1..n |-> i]
  OBVIOUS
<1>2. n \in Nat /\ DOMAIN ranked = 1..n BY <1>1 DEF IsRanked
<1>3. FoldsTo(f, base, s, n, e) BY <1>1, <1>2, EvidenceFolds
<1>4. PICK run : Runs(f, base, s, n, e, run) BY <1>2, <1>3, FoldRuns
<1> DEFINE Kept(q) == IsPack(C, q) /\ q.left + Spent(q.kept) = lines.left /\ q.left <= lines.left
           good == {j \in Nat : j <= n => Kept(run[j])}
<1>5. 0 \in good
  <2>1. IsPack(C, base) BY <1>1, EmptyPack
  <2>2. base.left = lines.left /\ Spent(base.kept) = 0 BY <1>1, PackFields, SpentNothing
  <2>3. Kept(base) BY <2>1, <2>2
  <2> QED BY <1>4, <2>3 DEF Runs
<1>6. ASSUME NEW j \in 1..n, j - 1 \in good
      PROVE  j \in good
  <2>1. PICK q : q = run[j - 1] OBVIOUS
  <2>2. Kept(q) /\ j \in DOMAIN ranked /\ j \in Nat BY <1>2, <1>6, <2>1
  <2>3. s[j] = j BY <1>1
  <2>4. run[j] = AddEvidence(q, ranked, j, k, ToSet(lines.kept))
    BY <1>1, <1>4, <2>1, <2>3 DEF Runs, Step
  <2>5. CASE ranked[j] \notin ToSet(lines.kept) BY <2>2, <2>4, <2>5 DEF AddEvidence
  <2>6. CASE ranked[j] \in ToSet(lines.kept)
    <3>1. PICK evidence, none, r :
            evidence = EvidenceOf(ranked, j, k) /\ none = {} /\ r = Greedy(q, evidence, none)
      OBVIOUS
    <3>2. evidence \in Seq(C) BY <2>2, <3>1, EvidenceIsSeq
    <3>3. PackedTo(C, q, evidence, none, Len(evidence), r) BY <2>2, <3>1, <3>2, GreedyPacks
    <3>4. run[j] = r BY <2>4, <2>6, <3>1 DEF AddEvidence
    <3>5. r.left \in Nat /\ q.left \in Nat BY <2>2, <3>3 DEF PackedTo, IsPack
    <3>6. Kept(r) BY <2>2, <3>3, <3>5 DEF PackedTo
    <3> QED BY <2>2, <3>4, <3>6
  <2> QED BY <2>5, <2>6
<1>7. n \in good
  <2>1. n \in 0..n /\ good \in SUBSET Nat BY <1>2
  <2> HIDE DEF good
  <2> QED BY <1>2, <1>5, <1>6, <2>1, UpTo
<1>8. Kept(run[n]) BY <1>2, <1>7
<1> QED BY <1>4, <1>8 DEF Runs

\* What the first pass of fused_output has packed after n relations.
FirstTo(C, ranked, allowance, n, b) ==
    /\ IsOutput(C, allowance, b) /\ b.chunks = <<>>
    /\ \A x \in ToSet(b.relations) : \E i \in 1..n : x = ranked[i]
    /\ Once(b.relations)

\* One relation more, and its evidence.
LEMMA FirstStep ==
    ASSUME NEW C, Costed(C), NEW ranked, IsRanked(C, ranked), NEW allowance, NEW k,
           NEW n \in Nat, NEW b, FirstTo(C, ranked, allowance, n, b), NEW m, m = n + 1, m <= Len(ranked),
           NEW c, c = AddRelation(b, ranked, m, k)
    PROVE  FirstTo(C, ranked, allowance, m, c)
<1>1. PICK x : x = ranked[m] OBVIOUS
<1>2. /\ m \in DOMAIN ranked /\ x \in C
      /\ \A i \in 1..n : i \in 1..m /\ i \in DOMAIN ranked /\ i # m
      /\ m \in 1..m
  <2>1. ranked \in Seq(C) /\ m \in Nat /\ m \in 1..m BY DEF IsRanked
  <2>2. m \in DOMAIN ranked BY <2>1
  <2>3. \A i \in 1..n : i \in 1..m /\ i \in DOMAIN ranked /\ i # m BY <2>1
  <2> QED BY <1>1, <2>1, <2>2, <2>3
<1>3. x.cost \in Nat BY <1>2 DEF Costed
<1>4. /\ b.relations \in Seq(C) /\ b.evidence \in Seq(C) /\ b.chunks = <<>> /\ b.left \in Nat
      /\ b.left + Spent(b.relations) + Spent(b.evidence) + Spent(b.chunks) = allowance
  BY DEF FirstTo, IsOutput
<1>5. CASE x.cost > b.left
  <2>1. c = b BY <1>1, <1>5 DEF AddRelation
  <2>2. \A y \in ToSet(b.relations) : \E i \in 1..m : y = ranked[i] BY <1>2 DEF FirstTo
  <2> QED BY <2>1, <2>2 DEF FirstTo
<1>6. CASE x.cost <= b.left
  <2>1. PICK left, evidence, none, p, e :
          /\ left = b.left - x.cost /\ evidence = EvidenceOf(ranked, m, k) /\ none = {}
          /\ p = Pack(left, b.evidence) /\ e = Greedy(p, evidence, none)
    OBVIOUS
  <2>2. left \in Nat /\ evidence \in Seq(C) BY <1>2, <1>3, <1>4, <1>6, <2>1, EvidenceIsSeq
  <2>3. p.left = left /\ p.kept = b.evidence BY <2>1, PackFields
  <2>4. IsPack(C, p) BY <1>4, <2>1, <2>2, <2>3 DEF IsPack
  <2>5. PackedTo(C, p, evidence, none, Len(evidence), e) BY <2>1, <2>2, <2>4, GreedyPacks
  <2>6. /\ e.left \in Nat /\ e.kept \in Seq(C)
        /\ e.left + Spent(e.kept) = left + Spent(b.evidence)
    BY <2>3, <2>5 DEF PackedTo, IsPack
  <2>7. PICK relations : relations = Append(b.relations, x) OBVIOUS
  <2>8. c = Output(relations, e.kept, <<>>, e.left)
    BY <1>1, <1>3, <1>4, <1>6, <2>1, <2>7 DEF AddRelation
  <2>9. c.relations = relations /\ c.evidence = e.kept /\ c.chunks = <<>> /\ c.left = e.left
    BY <2>8, OutputFields
  <2>10. relations \in Seq(C) BY <1>2, <1>4, <2>7
  <2>11. Spent(relations) = Spent(b.relations) + x.cost BY <1>4, <2>7, SpentAppend
  <2>12. /\ Spent(b.relations) \in Nat /\ Spent(b.evidence) \in Nat /\ Spent(e.kept) \in Nat
         /\ Spent(b.chunks) = 0 /\ Spent(c.chunks) = 0
    BY <1>4, <2>6, <2>9, SpentType, SpentNothing
  <2>13. c.left + Spent(c.relations) + Spent(c.evidence) + Spent(c.chunks) = allowance
    <3>1. PICK a1, a2, a3, a4, a5, a6 :
            /\ a1 = b.left /\ a2 = Spent(b.relations) /\ a3 = Spent(b.evidence)
            /\ a4 = e.left /\ a5 = Spent(e.kept) /\ a6 = x.cost
      OBVIOUS
    <3>2. /\ a1 \in Nat /\ a2 \in Nat /\ a3 \in Nat /\ a4 \in Nat /\ a5 \in Nat /\ a6 \in Nat
          /\ a4 + a5 = (a1 - a6) + a3 /\ a1 + a2 + a3 + 0 = allowance
      BY <1>3, <1>4, <2>1, <2>6, <2>12, <3>1
    <3>3. a4 + (a2 + a6) + a5 + 0 = allowance BY <3>2
    <3> QED BY <2>9, <2>11, <2>12, <3>1, <3>3
  <2>14. <<>> \in Seq(C) OBVIOUS
  <2>15. IsOutput(C, allowance, c) BY <2>6, <2>8, <2>9, <2>10, <2>13, <2>14 DEF IsOutput
  <2>16. ToSet(c.relations) = ToSet(b.relations) \cup {x}
    <3>1. PICK t : t = b.relations OBVIOUS
    <3>2. ToSet(Append(t, x)) = ToSet(t) \cup {x} BY <1>4, <3>1, AppendSet
    <3> QED BY <2>7, <2>9, <3>1, <3>2
  <2>17. \A y \in ToSet(c.relations) : \E i \in 1..m : y = ranked[i]
    BY <1>1, <1>2, <2>16 DEF FirstTo
  <2>18. Once(c.relations)
    <3>1. \A i \in 1..n : x # ranked[i] BY <1>1, <1>2 DEF IsRanked, Once
    <3>2. x \notin ToSet(b.relations) /\ Once(b.relations) BY <3>1 DEF FirstTo
    <3> QED BY <1>4, <2>7, <2>9, <3>2, AppendApart
  <2> QED BY <2>9, <2>15, <2>17, <2>18 DEF FirstTo
<1> QED BY <1>3, <1>4, <1>5, <1>6

\* The first pass of fused_output keeps the account of its allowance.
LEMMA FirstPacks ==
    ASSUME NEW C, Costed(C), NEW ranked, IsRanked(C, ranked), NEW allowance \in Nat, NEW k,
           NEW b, b = FirstPass(ranked, allowance, k)
    PROVE  FirstTo(C, ranked, allowance, Len(ranked), b)
<1>1. PICK f, n, base, s :
        /\ f = [op |-> "first", ranked |-> ranked, k |-> k]
        /\ n = Len(ranked) /\ base = Output(<<>>, <<>>, <<>>, allowance) /\ s = [i \in 1..n |-> i]
  OBVIOUS
<1>2. n \in Nat /\ DOMAIN ranked = 1..n BY <1>1 DEF IsRanked
<1>3. FoldsTo(f, base, s, n, b) BY <1>1, <1>2, FirstFolds
<1>4. PICK run : Runs(f, base, s, n, b, run) BY <1>2, <1>3, FoldRuns
<1> DEFINE good == {j \in Nat : j <= n => FirstTo(C, ranked, allowance, j, run[j])}
<1>5. 0 \in good
  <2>1. PICK z, none : z = 0 /\ none = <<>> OBVIOUS
  <2>2. /\ base.relations = none /\ base.evidence = none /\ base.chunks = none
        /\ base.left = allowance /\ base = Output(none, none, none, allowance)
    BY <1>1, <2>1, OutputFields
  <2>3. none \in Seq(C) /\ Spent(none) = 0 /\ Once(none) /\ ToSet(none) = {}
    BY <2>1, SpentNothing, EmptyPack
  <2>4. FirstTo(C, ranked, allowance, z, base) BY <2>1, <2>2, <2>3 DEF FirstTo, IsOutput
  <2> QED BY <1>4, <2>1, <2>4 DEF Runs
<1>6. ASSUME NEW j \in 1..n, j - 1 \in good
      PROVE  j \in good
  <2>1. PICK i, q, r : i = j - 1 /\ q = run[i] /\ r = run[j] OBVIOUS
  <2>2. i \in Nat /\ j = i + 1 /\ j \in Nat /\ i <= n /\ j <= Len(ranked) /\ s[j] = j
    BY <1>1, <1>2, <2>1
  <2>3. FirstTo(C, ranked, allowance, i, q) BY <1>6, <2>1, <2>2
  <2>4. r = AddRelation(q, ranked, j, k) BY <1>1, <1>4, <2>1, <2>2 DEF Runs, Step
  <2>5. FirstTo(C, ranked, allowance, j, r) BY <2>2, <2>3, <2>4, FirstStep
  <2> QED BY <2>1, <2>2, <2>5
<1>7. n \in good
  <2>1. n \in 0..n /\ good \in SUBSET Nat BY <1>2
  <2> HIDE DEF good
  <2> QED BY <1>2, <1>5, <1>6, <2>1, UpTo
<1>8. FirstTo(C, ranked, allowance, n, run[n]) BY <1>2, <1>7
<1> QED BY <1>1, <1>4, <1>8 DEF Runs
-----------------------------------------------------------------------------
(* Outputs.                                                                *)

\* Nothing is shown twice, and nothing is left out that would still fit.
Filled(out, ranked) ==
    /\ Once(out.relations) /\ Once(out.chunks)
    /\ \A x \in ToSet(ranked) \ ToSet(out.relations) : x.cost > out.left

\* Chunks that no document shown as evidence repeats.
Offered(chunks, out) == {c \in ToSet(chunks) : c.doc \notin DocsOf(out.evidence)}

\* Such chunks alone are shown; those left out fit neither what is left nor what the
\* chunks have not used of share.
ChunksFilled(out, chunks, share) ==
    /\ ToSet(out.chunks) \subseteq Offered(chunks, out)
    /\ \A c \in Offered(chunks, out) \ ToSet(out.chunks) :
         c.cost > out.left /\ c.cost + Spent(out.chunks) > share

\* The items of a sequence, by index.
LEMMA SetIndices ==
    ASSUME NEW C, NEW s \in Seq(C)
    PROVE  /\ \A x \in ToSet(s) : x \in C /\ \E i \in 1..Len(s) : x = s[i]
           /\ \A i \in 1..Len(s) : s[i] \in ToSet(s)
BY DEF ToSet

\* compact_output.
LEMMA CompactPacks ==
    ASSUME NEW C, Costed(C), NEW ranked, IsRanked(C, ranked), NEW budget \in Nat, NEW k,
           NEW out, out = CompactOutput(ranked, budget, k)
    PROVE  IsOutput(C, budget, out) /\ Filled(out, ranked)
<1>1. PICK none, empty, p, lines, e :
        /\ none = {} /\ empty = <<>> /\ p = Pack(budget, empty) /\ lines = Greedy(p, ranked, none)
        /\ e = EvidencePass(ranked, lines, k)
  OBVIOUS
<1>2. IsPack(C, p) /\ p.left = budget /\ p.kept = empty /\ Once(empty) /\ ToSet(empty) = {}
  BY <1>1, EmptyPack, PackFields
<1>3. ranked \in Seq(C) /\ Once(ranked) BY DEF IsRanked
<1>4. PackedTo(C, p, ranked, none, Len(ranked), lines) BY <1>1, <1>2, <1>3, GreedyPacks
<1>5. /\ lines.left \in Nat /\ lines.kept \in Seq(C) /\ Once(lines.kept)
      /\ lines.left + Spent(lines.kept) = budget + Spent(empty)
  BY <1>1, <1>2, <1>3, <1>4 DEF PackedTo, IsPack, Unpacked
<1>6. IsPack(C, e) /\ e.left + Spent(e.kept) = lines.left /\ e.left <= lines.left
  BY <1>1, <1>5, EvidencePacks
<1>7. out = Output(lines.kept, e.kept, empty, e.left) BY <1>1 DEF CompactOutput
<1>8. /\ out.relations = lines.kept /\ out.evidence = e.kept /\ out.chunks = empty
      /\ out.left = e.left
  BY <1>7, OutputFields
<1>9. /\ e.left \in Nat /\ e.kept \in Seq(C) /\ empty \in Seq(C) BY <1>1, <1>6 DEF IsPack
<1>10. Spent(empty) = 0 /\ Spent(lines.kept) \in Nat /\ Spent(e.kept) \in Nat
  BY <1>1, <1>5, <1>9, SpentNothing, SpentType
<1>11. IsOutput(C, budget, out)
  <2>1. out.left + Spent(out.relations) + Spent(out.evidence) + Spent(out.chunks) = budget
    <3>1. PICK a1, a2, a3, a4 :
            a1 = lines.left /\ a2 = Spent(lines.kept) /\ a3 = Spent(e.kept) /\ a4 = e.left
      OBVIOUS
    <3>2. /\ a1 \in Nat /\ a2 \in Nat /\ a3 \in Nat /\ a4 \in Nat
          /\ a1 + a2 = budget + 0 /\ a4 + a3 = a1
      BY <1>5, <1>6, <1>9, <1>10, <3>1
    <3>3. a4 + a2 + a3 + 0 = budget BY <3>2
    <3> QED BY <1>8, <1>10, <3>1, <3>3
  <2> QED BY <1>5, <1>7, <1>8, <1>9, <2>1 DEF IsOutput
<1>12. ASSUME NEW x \in ToSet(ranked) \ ToSet(out.relations)
       PROVE  x.cost > out.left
  <2>1. x.cost > lines.left BY <1>1, <1>3, <1>4, <1>8, SetIndices DEF PackedTo
  <2>2. x.cost \in Nat BY <1>3, SetIndices DEF Costed
  <2> QED BY <1>5, <1>6, <1>8, <1>9, <2>1, <2>2
<1> QED BY <1>2, <1>5, <1>8, <1>11, <1>12 DEF Filled

\* fts_fallback_output.
LEMMA FallbackPacks ==
    ASSUME NEW C, Costed(C), NEW chunks \in Seq(C), Once(chunks), NEW budget \in Nat,
           NEW out, out = FallbackOutput(chunks, budget)
    PROVE  /\ IsOutput(C, budget, out) /\ Once(out.relations) /\ Once(out.chunks)
           /\ \A c \in ToSet(chunks) \ ToSet(out.chunks) : c.cost > out.left
<1>1. PICK none, empty, p, fit :
        /\ none = {} /\ empty = <<>> /\ p = Pack(budget, empty) /\ fit = Greedy(p, chunks, none)
  OBVIOUS
<1>2. IsPack(C, p) /\ p.left = budget /\ p.kept = empty /\ Once(empty) /\ ToSet(empty) = {}
  BY <1>1, EmptyPack, PackFields
<1>3. PackedTo(C, p, chunks, none, Len(chunks), fit) BY <1>1, <1>2, GreedyPacks
<1>4. /\ fit.left \in Nat /\ fit.kept \in Seq(C) /\ Once(fit.kept)
      /\ fit.left + Spent(fit.kept) = budget + Spent(empty)
  BY <1>1, <1>2, <1>3 DEF PackedTo, IsPack, Unpacked
<1>5. out = Output(empty, empty, fit.kept, fit.left) BY <1>1 DEF FallbackOutput
<1>6. /\ out.relations = empty /\ out.evidence = empty /\ out.chunks = fit.kept
      /\ out.left = fit.left
  BY <1>5, OutputFields
<1>7. Spent(empty) = 0 /\ Spent(fit.kept) \in Nat /\ empty \in Seq(C)
  BY <1>1, <1>4, SpentNothing, SpentType
<1>8. IsOutput(C, budget, out)
  <2>1. fit.left + 0 + 0 + Spent(fit.kept) = budget BY <1>4, <1>7
  <2> QED BY <1>4, <1>5, <1>6, <1>7, <2>1 DEF IsOutput
<1>9. \A c \in ToSet(chunks) \ ToSet(out.chunks) : c.cost > out.left
  BY <1>1, <1>3, <1>6, SetIndices DEF PackedTo
<1> QED BY <1>2, <1>4, <1>6, <1>8, <1>9

\* A share is no more than the whole.
LEMMA ShareIsPart ==
    ASSUME NEW budget \in Nat, NEW percent \in 0..100
    PROVE  ShareOf(budget, percent) \in Nat /\ ShareOf(budget, percent) <= budget
<1>1. PICK x : x = budget * percent OBVIOUS
<1>2. percent \in Nat /\ percent <= 100 OBVIOUS
<1>3. x \in Nat /\ x <= budget * 100 BY <1>1, <1>2
<1>4. (x \div 100) \in Nat /\ 100 * (x \div 100) <= x BY <1>3
<1>5. x \div 100 <= budget BY <1>3, <1>4
<1> QED BY <1>1, <1>4, <1>5 DEF ShareOf

\* fused_output: the passes hand the budget on, and what the chunks are
\* given is at least their share.
LEMMA FusedPacks ==
    ASSUME NEW C, Costed(C), NEW ranked, IsRanked(C, ranked), NEW chunks \in Seq(C), Once(chunks),
           NEW budget \in Nat, NEW percent \in 0..100, NEW k,
           NEW out, out = FusedOutput(ranked, chunks, budget, percent, k)
    PROVE  /\ IsOutput(C, budget, out) /\ Filled(out, ranked)
           /\ ChunksFilled(out, chunks, ShareOf(budget, percent))
<1>1. PICK empty, reserve, allowance, first, p, repeated, second, q, shown, third :
        /\ empty = <<>> /\ reserve = ShareOf(budget, percent) /\ allowance = budget - reserve
        /\ first = FirstPass(ranked, allowance, k)
        /\ p = Pack(reserve + first.left, empty) /\ repeated = Repeated(chunks, first.evidence)
        /\ second = Greedy(p, chunks, repeated)
        /\ q = Pack(second.left, first.relations) /\ shown = ToSet(first.relations)
        /\ third = Greedy(q, ranked, shown)
  OBVIOUS
<1>2. reserve \in Nat /\ allowance \in Nat /\ reserve + allowance = budget
  <2>1. reserve \in Nat /\ reserve <= budget BY <1>1, ShareIsPart
  <2> QED BY <1>1, <2>1
<1>3. FirstTo(C, ranked, allowance, Len(ranked), first) BY <1>1, <1>2, FirstPacks
<1>4. /\ first.relations \in Seq(C) /\ first.evidence \in Seq(C) /\ first.chunks = empty
      /\ first.left \in Nat /\ Once(first.relations)
      /\ first.left + Spent(first.relations) + Spent(first.evidence) + Spent(empty) = allowance
  BY <1>1, <1>3 DEF FirstTo, IsOutput
<1>5. /\ IsPack(C, p) /\ p.left = reserve + first.left /\ p.kept = empty
      /\ Once(empty) /\ ToSet(empty) = {}
  <2>1. PICK given : given = reserve + first.left OBVIOUS
  <2>2. given \in Nat BY <1>2, <1>4, <2>1
  <2> QED BY <1>1, <2>1, <2>2, EmptyPack, PackFields
<1>6. PackedTo(C, p, chunks, repeated, Len(chunks), second) BY <1>1, <1>5, GreedyPacks
<1>7. /\ second.left \in Nat /\ second.kept \in Seq(C) /\ Once(second.kept)
      /\ second.left + Spent(second.kept) = (reserve + first.left) + Spent(empty)
  BY <1>5, <1>6 DEF PackedTo, IsPack, Unpacked
<1>8. q.left = second.left /\ q.kept = first.relations BY <1>1, PackFields
<1>9. IsPack(C, q) BY <1>1, <1>4, <1>7, <1>8 DEF IsPack
<1>10. ranked \in Seq(C) /\ Once(ranked) BY DEF IsRanked
<1>11. PackedTo(C, q, ranked, shown, Len(ranked), third) BY <1>1, <1>9, <1>10, GreedyPacks
<1>12. /\ third.left \in Nat /\ third.kept \in Seq(C) /\ Once(third.kept)
       /\ third.left + Spent(third.kept) = second.left + Spent(first.relations)
       /\ third.left <= second.left
       /\ shown \subseteq ToSet(third.kept)
  <2>1. ToSet(q.kept) = shown BY <1>1, <1>8
  <2>2. Once(q.kept) BY <1>4, <1>8
  <2>3. Unpacked(q, ranked, shown) BY <1>10, <2>1, <2>2 DEF Unpacked
  <2>4. /\ third.left \in Nat /\ third.kept \in Seq(C) /\ Once(third.kept)
        /\ third.left + Spent(third.kept) = q.left + Spent(q.kept)
        /\ third.left <= q.left /\ ToSet(q.kept) \subseteq ToSet(third.kept)
    BY <1>11, <2>3 DEF PackedTo, IsPack
  <2> QED BY <1>8, <2>1, <2>4
<1>13. out = Output(third.kept, first.evidence, second.kept, third.left) BY <1>1 DEF FusedOutput
<1>14. /\ out.relations = third.kept /\ out.evidence = first.evidence
       /\ out.chunks = second.kept /\ out.left = third.left
  BY <1>13, OutputFields
<1>15. /\ Spent(empty) = 0 /\ Spent(first.relations) \in Nat /\ Spent(first.evidence) \in Nat
       /\ Spent(second.kept) \in Nat /\ Spent(third.kept) \in Nat
  BY <1>1, <1>4, <1>7, <1>12, SpentNothing, SpentType
<1>16. IsOutput(C, budget, out)
  <2>1. PICK a1, a2, a3, a4, a5, a6, a7 :
          /\ a1 = first.left /\ a2 = Spent(first.relations) /\ a3 = Spent(first.evidence)
          /\ a4 = second.left /\ a5 = Spent(second.kept)
          /\ a6 = third.left /\ a7 = Spent(third.kept)
    OBVIOUS
  <2>2. /\ a1 \in Nat /\ a2 \in Nat /\ a3 \in Nat /\ a4 \in Nat /\ a5 \in Nat /\ a6 \in Nat
        /\ a7 \in Nat /\ a1 + a2 + a3 + 0 = allowance /\ a4 + a5 = (reserve + a1) + 0
        /\ a6 + a7 = a4 + a2
    BY <1>4, <1>7, <1>12, <1>15, <2>1
  <2>3. a6 + a7 + a3 + a5 = budget BY <1>2, <2>2
  <2>4. out.left + Spent(out.relations) + Spent(out.evidence) + Spent(out.chunks) = budget
    BY <1>14, <2>1, <2>3
  <2> QED BY <1>4, <1>7, <1>12, <1>13, <1>14, <2>4 DEF IsOutput
<1>17. ASSUME NEW x \in ToSet(ranked) \ ToSet(out.relations)
       PROVE  x.cost > out.left
  <2>1. x \notin shown /\ x \notin ToSet(third.kept) BY <1>12, <1>14
  <2> QED BY <1>10, <1>11, <1>14, <2>1, SetIndices DEF PackedTo
<1>18. Filled(out, ranked) BY <1>7, <1>12, <1>14, <1>17 DEF Filled
<1>19. repeated = ToSet(chunks) \ Offered(chunks, out) BY <1>1, <1>14 DEF Repeated, Offered
<1>20. ToSet(out.chunks) \subseteq Offered(chunks, out)
  BY <1>5, <1>6, <1>14, <1>19, SetIndices DEF PackedTo
<1>21. ASSUME NEW c \in Offered(chunks, out) \ ToSet(out.chunks)
       PROVE  c.cost > out.left /\ c.cost + Spent(out.chunks) > reserve
  <2>1. c \in ToSet(chunks) /\ c \notin repeated BY <1>19 DEF Offered
  <2>2. c.cost > second.left BY <1>6, <1>14, <2>1, SetIndices DEF PackedTo
  <2>3. c.cost \in Nat BY <2>1, SetIndices DEF Costed
  <2>4. PICK a1, a2, a3, a4, a5 :
          /\ a1 = first.left /\ a2 = second.left /\ a3 = Spent(second.kept)
          /\ a4 = third.left /\ a5 = c.cost
    OBVIOUS
  <2>5. /\ a1 \in Nat /\ a2 \in Nat /\ a3 \in Nat /\ a4 \in Nat /\ a5 \in Nat
        /\ a2 + a3 = (reserve + a1) + 0 /\ a4 <= a2 /\ a5 > a2
    BY <1>4, <1>7, <1>12, <1>15, <2>2, <2>3, <2>4
  <2>6. a5 > a4 /\ a5 + a3 > reserve BY <1>2, <2>5
  <2> QED BY <1>14, <2>4, <2>6
<1> QED BY <1>1, <1>16, <1>18, <1>20, <1>21 DEF ChunksFilled
-----------------------------------------------------------------------------
(* Sorting.                                                                *)

\* Keys of m integers each that tell the members apart.
Keys(S, key, m) ==
    /\ m \in Nat
    /\ \A x \in S : DOMAIN key[x] = 1..m /\ \A i \in 1..m : key[x][i] \in Int
    /\ \A x, y \in S : (\A i \in 1..m : key[x][i] = key[y][i]) => x = y

\* There are n numbers from 1 to n.
LEMMA CountTo ==
    ASSUME NEW n \in Nat
    PROVE  IsFiniteSet(1..n) /\ Cardinality(1..n) = n
<1>1. 1 \in Int /\ n \in Int /\ (IF 1 > n THEN 0 ELSE n - 1 + 1) = n OBVIOUS
<1>2. IsFiniteSet(1..n) /\ Cardinality(1..n) = IF 1 > n THEN 0 ELSE n - 1 + 1 BY <1>1, FS_Interval
<1> QED BY <1>1, <1>2

\* Nothing is before itself, nor before what is before it.
LEMMA BeforeIsStrict ==
    ASSUME NEW S, NEW key, NEW m, Keys(S, key, m), NEW x \in S, NEW y \in S, Less(key[x], key[y])
    PROVE  ~Less(key[y], key[x]) /\ x # y
<1>0. DOMAIN key[x] = 1..m /\ DOMAIN key[y] = 1..m BY DEF Keys
<1>1. PICK i \in 1..m : key[x][i] < key[y][i] /\ \A j \in 1..(i - 1) : key[x][j] = key[y][j]
  BY <1>0 DEF Less
<1>2. m \in Nat /\ \A j \in 1..m : key[x][j] \in Int /\ key[y][j] \in Int BY DEF Keys
<1>3. key[x][i] # key[y][i] BY <1>1, <1>2
<1>4. ASSUME NEW k \in 1..m, key[y][k] < key[x][k], \A j \in 1..(k - 1) : key[y][j] = key[x][j]
      PROVE  FALSE
  <2>1. k < i \/ k = i \/ i < k BY <1>2
  <2>2. k < i => k \in 1..(i - 1) BY <1>2
  <2>3. i < k => i \in 1..(k - 1) BY <1>2
  <2>4. CASE k < i BY <1>1, <1>2, <1>4, <2>2, <2>4
  <2>5. CASE k = i BY <1>1, <1>2, <1>4, <2>5
  <2>6. CASE i < k BY <1>3, <1>4, <2>3, <2>6
  <2> QED BY <2>1, <2>4, <2>5, <2>6
<1> QED BY <1>0, <1>3, <1>4 DEF Less

\* The order is transitive.
LEMMA BeforeIsTransitive ==
    ASSUME NEW S, NEW key, NEW m, Keys(S, key, m), NEW x \in S, NEW y \in S, NEW z \in S,
           Less(key[x], key[y]), Less(key[y], key[z])
    PROVE  Less(key[x], key[z])
<1>0. DOMAIN key[x] = 1..m /\ DOMAIN key[y] = 1..m /\ DOMAIN key[z] = 1..m BY DEF Keys
<1>1. PICK i \in 1..m : key[x][i] < key[y][i] /\ \A j \in 1..(i - 1) : key[x][j] = key[y][j]
  BY <1>0 DEF Less
<1>2. PICK k \in 1..m : key[y][k] < key[z][k] /\ \A j \in 1..(k - 1) : key[y][j] = key[z][j]
  BY <1>0 DEF Less
<1>3. m \in Nat /\ \A j \in 1..m : key[x][j] \in Int /\ key[y][j] \in Int /\ key[z][j] \in Int
  BY DEF Keys
<1>4. k < i \/ k = i \/ i < k BY <1>3
<1>5. CASE k < i
  <2>1. k \in 1..(i - 1) /\ \A j \in 1..(k - 1) : j \in 1..(i - 1) BY <1>3, <1>5
  <2> QED BY <1>0, <1>1, <1>2, <2>1 DEF Less
<1>6. CASE k = i
  <2>1. key[x][i] < key[z][i] /\ \A j \in 1..(i - 1) : key[x][j] = key[z][j]
    BY <1>1, <1>2, <1>3, <1>6
  <2> QED BY <1>0, <1>1, <2>1 DEF Less
<1>7. CASE i < k
  <2>1. i \in 1..(k - 1) /\ \A j \in 1..(i - 1) : j \in 1..(k - 1) BY <1>3, <1>7
  <2> QED BY <1>0, <1>1, <1>2, <2>1 DEF Less
<1> QED BY <1>4, <1>5, <1>6, <1>7

\* Of two members one is before the other: by the first integer in which
\* they differ.
LEMMA BeforeIsTotal ==
    ASSUME NEW S, NEW key, NEW m, Keys(S, key, m), NEW x \in S, NEW y \in S, x # y
    PROVE  Less(key[x], key[y]) \/ Less(key[y], key[x])
<1>1. /\ m \in Nat /\ DOMAIN key[x] = 1..m /\ DOMAIN key[y] = 1..m
      /\ \A j \in 1..m : key[x][j] \in Int /\ key[y][j] \in Int
  BY DEF Keys
<1> DEFINE differ == {i \in 1..m : key[x][i] # key[y][i]}
<1>2. differ # {} /\ differ \in SUBSET Nat BY DEF Keys
<1>3. PICK i \in differ : \A j \in differ : i <= j
  <2> HIDE DEF differ
  <2> QED BY <1>2, LeastNat
<1>4. i \in 1..m /\ key[x][i] # key[y][i] OBVIOUS
<1>5. \A j \in 1..(i - 1) : j \in 1..m /\ ~(i <= j) BY <1>1, <1>4
<1>6. \A j \in 1..(i - 1) : key[x][j] = key[y][j] BY <1>3, <1>5
<1> HIDE DEF differ
<1>7. key[x][i] < key[y][i] \/ key[y][i] < key[x][i] BY <1>1, <1>4
<1> QED BY <1>1, <1>4, <1>6, <1>7 DEF Less

\* A finite set can be put in this order: a member's place is the number of
\* those before it.
LEMMA OrderExists ==
    ASSUME NEW S, IsFiniteSet(S), NEW key, NEW m, Keys(S, key, m)
    PROVE  \E s \in SetToSeqs(S) : \A i, j \in DOMAIN s : i < j => Less(key[s[i]], key[s[j]])
<1> DEFINE ahead(x) == {y \in S : Less(key[y], key[x])}
           n == Cardinality(S)
           place == [x \in S |-> Cardinality(ahead(x)) + 1]
<1>1. n \in Nat BY FS_CardinalityType
<1>2. ASSUME NEW x \in S
      PROVE  IsFiniteSet(ahead(x)) /\ Cardinality(ahead(x)) \in Nat /\ Cardinality(ahead(x)) < n
  <2>1. PICK T : T = ahead(x) OBVIOUS
  <2>2. T \in SUBSET S /\ x \notin T BY <2>1, BeforeIsStrict
  <2>3. IsFiniteSet(T) /\ Cardinality(T) <= n /\ Cardinality(T) # n BY <2>2, FS_Subset
  <2>4. Cardinality(T) \in Nat BY <2>3, FS_CardinalityType
  <2>5. Cardinality(T) < n BY <1>1, <2>3, <2>4
  <2> QED BY <2>1, <2>3, <2>4, <2>5
<1>3. ASSUME NEW x \in S, NEW y \in S, Less(key[x], key[y])
      PROVE  place[x] < place[y]
  <2>1. PICK T, U : T = ahead(x) /\ U = ahead(y) OBVIOUS
  <2>2. IsFiniteSet(U) /\ Cardinality(U) \in Nat /\ Cardinality(T) \in Nat BY <1>2, <2>1
  <2>3. T \in SUBSET U BY <1>3, <2>1, BeforeIsTransitive
  <2>4. x \notin T BY <2>1, BeforeIsStrict
  <2>5. x \in U BY <1>3, <2>1
  <2>6. Cardinality(T) <= Cardinality(U) /\ Cardinality(T) # Cardinality(U)
    BY <2>2, <2>3, <2>4, <2>5, FS_Subset
  <2>7. place[x] = Cardinality(T) + 1 /\ place[y] = Cardinality(U) + 1 BY <2>1
  <2> HIDE DEF place, ahead
  <2> QED BY <2>2, <2>6, <2>7
<1>4. place \in [S -> 1..n]
  <2>1. \A x \in S : Cardinality(ahead(x)) + 1 \in 1..n
    <3> HIDE DEF ahead, n
    <3> QED BY <1>1, <1>2
  <2> HIDE DEF ahead, n
  <2> QED BY <2>1
<1>5. \A x, y \in S : x # y => place[x] # place[y]
  <2>1. \A x, y \in S : x # y => place[x] < place[y] \/ place[y] < place[x]
    <3> HIDE DEF place
    <3> QED BY <1>3, BeforeIsTotal
  <2>2. \A x \in S : place[x] \in Nat
    <3> HIDE DEF place, n
    <3> QED BY <1>1, <1>4
  <2> HIDE DEF place
  <2> QED BY <2>1, <2>2
<1>6. \A i \in 1..n : \E x \in S : place[x] = i
  <2>1. PICK f, T : f = place /\ T = 1..n OBVIOUS
  <2>2. f \in Injection(S, T)
    <3>1. \A x, y \in S : f[x] = f[y] => x = y
      <4> HIDE DEF place
      <4> QED BY <1>5, <2>1
    <3>2. f \in [S -> T]
      <4> HIDE DEF place, n
      <4> QED BY <1>4, <2>1
    <3> QED BY <3>1, <3>2 DEF Injection, IsInjective
  <2>3. IsFiniteSet(T) /\ Cardinality(T) = n
    <3>1. 1 \in Int /\ n \in Int /\ (IF 1 > n THEN 0 ELSE n - 1 + 1) = n
      <4> HIDE DEF n
      <4> QED BY <1>1
    <3>2. IsFiniteSet(1..n) /\ Cardinality(1..n) = IF 1 > n THEN 0 ELSE n - 1 + 1
      <4> HIDE DEF n
      <4> QED BY <3>1, FS_Interval
    <3> HIDE DEF n
    <3> QED BY <2>1, <3>1, <3>2
  <2>4. f \in Surjection(S, T) BY <2>2, <2>3, FS_Injection
  <2> HIDE DEF place, n
  <2> QED BY <2>1, <2>4 DEF Surjection
<1> DEFINE s == [i \in 1..n |-> CHOOSE x \in S : place[x] = i]
<1>7. \A i \in 1..n : s[i] \in S /\ place[s[i]] = i
  <2> HIDE DEF place, n
  <2> QED BY <1>6
<1>8. s \in SetToSeqs(S)
  <2>1. s \in [1..n -> S]
    <3>1. DOMAIN s = 1..n /\ s = [i \in 1..n |-> s[i]]
      <4> HIDE DEF n, place
      <4> QED OBVIOUS
    <3> HIDE DEF s, n
    <3> QED BY <1>7, <3>1
  <2>2. \A i, j \in 1..n : i # j => s[i] # s[j]
    <3> HIDE DEF s, n, place
    <3> QED BY <1>7
  <2> HIDE DEF s
  <2> QED BY <2>1, <2>2 DEF SetToSeqs
<1>9. ASSUME NEW i \in DOMAIN s, NEW j \in DOMAIN s, i < j
      PROVE  Less(key[s[i]], key[s[j]])
  <2>1. i \in 1..n /\ j \in 1..n OBVIOUS
  <2>2. s[i] \in S /\ s[j] \in S /\ place[s[i]] = i /\ place[s[j]] = j
    <3> HIDE DEF s, n, place
    <3> QED BY <1>7, <2>1
  <2> HIDE DEF s, n, place
  <2>3. s[i] # s[j] /\ ~(j < i)
    <3>1. i \in Nat /\ j \in Nat BY <1>1, <2>1
    <3> QED BY <1>9, <2>2, <3>1
  <2> QED BY <1>3, <2>2, <2>3, BeforeIsTotal
<1> HIDE DEF s
<1> QED BY <1>8, <1>9

\* Sorted puts them in this order.
LEMMA SortedIs ==
    ASSUME NEW S, IsFiniteSet(S), NEW key, NEW m, Keys(S, key, m), NEW s, s = Sorted(S, key)
    PROVE  /\ s \in SetToSeqs(S) /\ s \in [1..Cardinality(S) -> S] /\ Cardinality(S) \in Nat
           /\ DOMAIN s = 1..Cardinality(S) /\ ToSet(s) = S /\ Once(s) /\ s \in Seq(S)
           /\ \A i, j \in DOMAIN s : i < j => Less(key[s[i]], key[s[j]])
<1>1. \E t \in SetToSeqs(S) : \A i, j \in DOMAIN t : i < j => Less(key[t[i]], key[t[j]])
  BY OrderExists
<1>2. s \in SetToSeqs(S) /\ \A i, j \in DOMAIN s : i < j => Less(key[s[i]], key[s[j]])
  BY <1>1 DEF Sorted
<1>3. PICK n, N : n = Cardinality(S) /\ N = 1..n OBVIOUS
<1>4. n \in Nat BY <1>3, FS_CardinalityType
<1>5. s \in [N -> S] /\ \A i, j \in N : i # j => s[i] # s[j] BY <1>2, <1>3 DEF SetToSeqs
<1>6. IsFiniteSet(N) /\ Cardinality(N) = n BY <1>3, <1>4, CountTo
<1>7. s \in Injection(N, S) BY <1>5 DEF Injection, IsInjective
<1>8. s \in Surjection(N, S) BY <1>3, <1>6, <1>7, FS_Injection
<1>9. ToSet(s) = S BY <1>5, <1>8 DEF Surjection, ToSet
<1>10. s \in [1..n -> S] /\ DOMAIN s = 1..n BY <1>3, <1>5
<1>11. s \in Seq(S) BY <1>4, <1>10
<1>12. Once(s) BY <1>3, <1>5 DEF Once
<1> QED BY <1>2, <1>3, <1>4, <1>9, <1>10, <1>11, <1>12
-----------------------------------------------------------------------------
(* Memories.                                                               *)

\* Units, as a query finds them.
IsUnits(C, units) ==
    /\ IsFiniteSet(units) /\ units \subseteq C
    /\ \A u \in units : u.id \in Nat /\ u.weight \in Nat
    /\ \A u, v \in units : u.id = v.id => u = v

\* The hits of a question are a sequence of units.
LEMMA HitsAreUnits ==
    ASSUME NEW C, NEW units, IsUnits(C, units), NEW limit \in Nat
    PROVE  MemoryHits(units, limit) \in Seq(C)
<1> DEFINE live == {u \in units : /\ ~u.replaced
                                  /\ u.status \in {"active_unit", "crystal_candidate", "crystal"}}
           crystal(u) == IF u.status = "crystal" THEN 1 ELSE 0
           keys == [u \in live |-> <<-((2 + crystal(u)) * u.weight), -crystal(u), u.id>>]
           it == Sorted(live, keys)
<1>1. MemoryHits(units, limit) = SubSeq(it, 1, Min({limit, Len(it)})) BY DEF MemoryHits
<1>2. live \subseteq units /\ live \subseteq C /\ IsFiniteSet(live)
  <2>1. live \in SUBSET units OBVIOUS
  <2> HIDE DEF live
  <2> QED BY <2>1, FS_Subset DEF IsUnits
<1>3. PICK all, m, key : all = live /\ m = 3 /\ key = keys OBVIOUS
<1>4. ASSUME NEW u \in all
      PROVE  /\ DOMAIN key[u] = 1..m /\ key[u][3] = u.id /\ u.id \in Nat
             /\ \A i \in 1..m : key[u][i] \in Int
  <2>1. PICK w, c : w = u.weight /\ c = crystal(u) OBVIOUS
  <2>2. w \in Nat /\ c \in {0, 1} /\ u.id \in Nat BY <2>1, <1>2, <1>3 DEF IsUnits
  <2>3. PICK p : p = (2 + c) * w OBVIOUS
  <2>4. -p \in Int /\ -c \in Int BY <2>2, <2>3
  <2>5. key[u] = <<-p, -c, u.id>> BY <1>3, <2>1, <2>3
  <2>6. \A i \in 1..m : i = 1 \/ i = 2 \/ i = 3 BY <1>3
  <2> QED BY <1>3, <2>2, <2>4, <2>5, <2>6
<1>5. Keys(all, key, m)
  <2>1. m \in Nat /\ 3 \in 1..m BY <1>3
  <2>2. \A u, v \in all : u.id = v.id => u = v BY <1>2, <1>3 DEF IsUnits
  <2> QED BY <1>4, <2>1, <2>2 DEF Keys
<1>6. PICK t : t = Sorted(all, key) OBVIOUS
<1>7. t \in Seq(all) BY <1>2, <1>3, <1>5, <1>6, SortedIs
<1>8. t \in Seq(C) BY <1>2, <1>3, <1>7
<1>9. PICK n : n = Min({limit, Len(t)}) OBVIOUS
<1>10. n \in Nat /\ n <= Len(t) BY <1>8, <1>9, MinOfPair
<1>11. MemoryHits(units, limit) = SubSeq(t, 1, n) BY <1>1, <1>3, <1>6, <1>9
<1>12. SubSeq(t, 1, n) \in Seq(C) BY <1>8, <1>10
<1> QED BY <1>11, <1>12

\* The first hits, as many as fit.
MostHits(C, hits, budget, m, memory) ==
    /\ m \in Nat /\ m <= Len(hits) /\ memory = SubSeq(hits, 1, m)
    /\ memory \in Seq(C) /\ Len(memory) = m
    /\ Spent(memory) <= budget
    /\ m < Len(hits) => Spent(memory) + hits[m + 1].cost > budget

\* What is rendered of the hits.
LEMMA HitsFit ==
    ASSUME NEW C, Costed(C), NEW hits \in Seq(C), NEW budget \in Nat
    PROVE  \E m : /\ MostHits(C, hits, budget, m, RenderMemoryHits(hits, budget).hits)
                  /\ RenderMemoryHits(hits, budget).used = Spent(RenderMemoryHits(hits, budget).hits)
<1> DEFINE shown(n) == SubSeq(hits, 1, n)
           fit == {n \in 0..Len(hits) : Spent(shown(n)) <= budget}
           m == Max(fit)
           most == shown(m)
<1>1. RenderMemoryHits(hits, budget) = [hits |-> most, used |-> Spent(most)] BY DEF RenderMemoryHits
<1>2. PICK len : len = Len(hits) OBVIOUS
<1>3. len \in Nat BY <1>2
<1>4. m \in fit /\ \A n \in fit : n <= m
  <2>1. fit \in SUBSET (0..len) BY <1>2
  <2>2. 0 \in fit
    <3>1. shown(0) = <<>> BY <1>2
    <3>2. Spent(shown(0)) = 0 BY <3>1, SpentNothing
    <3>3. 0 <= budget /\ 0 \in 0..Len(hits) BY <1>2, <1>3
    <3> HIDE DEF shown
    <3> QED BY <3>2, <3>3
  <2> HIDE DEF fit
  <2> QED BY <1>3, <2>1, <2>2, MaxOfIndices
<1>5. PICK k, memory : k = m /\ memory = most OBVIOUS
<1>6. k \in Nat /\ k <= len /\ memory = SubSeq(hits, 1, k) /\ Spent(memory) <= budget
  <2>1. k \in 0..Len(hits) /\ Spent(shown(k)) <= budget
    <3>1. k \in fit
      <4> HIDE DEF fit
      <4> QED BY <1>4, <1>5
    <3> QED BY <3>1
  <2>2. memory = SubSeq(hits, 1, k)
    <3> HIDE DEF fit
    <3> QED BY <1>5
  <2> QED BY <1>2, <1>3, <2>1, <2>2
<1>7. memory \in Seq(C) /\ Len(memory) = k BY <1>2, <1>3, <1>6
<1>8. ASSUME k < len
      PROVE  Spent(memory) + hits[k + 1].cost > budget
  <2>1. PICK next, j : next = hits[k + 1] /\ j = k + 1 OBVIOUS
  <2>2. next \in C /\ j \in 0..len /\ j \in Nat /\ ~(j <= k) BY <1>2, <1>3, <1>6, <1>8, <2>1
  <2>3. SubSeq(hits, 1, j) = Append(memory, next) BY <1>2, <1>3, <1>6, <1>8, <2>1
  <2>4. Spent(shown(j)) = Spent(memory) + next.cost BY <1>7, <2>3, SpentAppend
  <2>5. j \notin fit
    <3> HIDE DEF fit
    <3> QED BY <1>4, <1>5, <2>2
  <2>6. ~(Spent(shown(j)) <= budget) BY <1>2, <2>2, <2>5
  <2>7. Spent(memory) \in Nat /\ next.cost \in Nat BY <1>7, <2>2, SpentType DEF Costed
  <2> HIDE DEF shown
  <2> QED BY <2>1, <2>4, <2>6, <2>7
<1>9. MostHits(C, hits, budget, k, memory) BY <1>2, <1>6, <1>7, <1>8 DEF MostHits
<1>10. PICK r : r = RenderMemoryHits(hits, budget) OBVIOUS
<1>11. r.hits = memory /\ r.used = Spent(memory)
  <2>1. r = [hits |-> memory, used |-> Spent(memory)]
    <3> HIDE DEF most
    <3> QED BY <1>1, <1>5, <1>10
  <2> QED BY <2>1
<1> QED BY <1>9, <1>10, <1>11
-----------------------------------------------------------------------------
(* Answers.                                                                *)

\* A case about an answer has what it was asked, and the answer to it.
AnswerInv ==
    case.is = "answer" =>
        /\ case.mode \in {"merge", "fallback"}
        /\ case.ranked \in Rankeds /\ case.chunks \in ChunkLists
        /\ \E units \in UnitSets : case.hits = MemoryHits(units, 2)
        /\ case.budget \in Budgets /\ case.percent \in ChunkPercents
        /\ case.out = QueryWithMemory(case.mode, case.ranked, case.chunks, case.hits, case.budget,
                                      case.percent, MemoryPercent, TopK)

\* A sequence without repetition is as long as it has elements.
LEMMA OnceIsShown ==
    ASSUME NEW C, NEW s \in Seq(C), Once(s)
    PROVE  Shown(s)
<1>1. PICK n, T, U : n = Len(s) /\ T = 1..n /\ U = ToSet(s) OBVIOUS
<1>2. n \in Nat /\ DOMAIN s = T BY <1>1
<1>3. s \in Bijection(T, U)
  <2>1. s \in [T -> U]
    <3>1. s \in [T -> C] BY <1>1
    <3> QED BY <1>1, <1>2, <3>1 DEF ToSet
  <2>2. \A i, j \in T : s[i] = s[j] => i = j BY <1>2 DEF Once
  <2>3. \A x \in U : \E i \in T : s[i] = x BY <1>1, <1>2 DEF ToSet
  <2> QED BY <2>1, <2>2, <2>3 DEF Bijection, Injection, IsInjective, Surjection
<1>4. Cardinality(U) = n
  <2>1. IsFiniteSet(T) /\ Cardinality(T) = n
    <3>1. 1 \in Int /\ n \in Int /\ (IF 1 > n THEN 0 ELSE n - 1 + 1) = n BY <1>2
    <3>2. IsFiniteSet(1..n) /\ Cardinality(1..n) = IF 1 > n THEN 0 ELSE n - 1 + 1
      BY <3>1, FS_Interval
    <3> QED BY <1>1, <3>1, <3>2
  <2>2. ExistsBijection(T, U) BY <1>3 DEF ExistsBijection
  <2> QED BY <2>1, <2>2, FS_Bijection
<1> QED BY <1>1, <1>4 DEF Shown

\* A sequence of some things is one of more things.
LEMMA SeqOfMore ==
    ASSUME NEW C, NEW s, s \in Seq(ToSet(s)), ToSet(s) \subseteq C
    PROVE  s \in Seq(C)
<1>1. PICK n : n = Len(s) OBVIOUS
<1>2. n \in Nat /\ s \in [1..n -> ToSet(s)] BY <1>1
<1>3. s \in [1..n -> C] BY <1>2
<1> QED BY <1>2, <1>3

\* What a question is answered from costs tokens.
LEMMA SourcesCost ==
    ASSUME NEW ranked \in Rankeds, NEW chunks \in ChunkLists, NEW units \in UnitSets
    PROVE  \E C : /\ Costed(C) /\ IsRanked(C, ranked) /\ chunks \in Seq(C) /\ Once(chunks)
                  /\ IsUnits(C, units)
<1>1. PICK C : C = ToSet(ranked) \cup ToSet(chunks) \cup units
                     \cup UNION {ToSet(x.evidence) : x \in ToSet(ranked)}
  OBVIOUS
<1>2. /\ Priced(ranked) /\ Once(ranked)
      /\ \A x \in ToSet(ranked) : Priced(x.evidence)
  BY AnswersAssumption
<1>3. Priced(chunks) /\ Once(chunks) BY AnswersAssumption
<1>4. /\ IsFiniteSet(units)
      /\ \A u \in units : u.id \in Nat /\ u.weight \in Nat /\ u.cost \in Nat
      /\ \A u, v \in units : u.id = v.id => u = v
  BY AnswersAssumption
<1>5. Costed(C) BY <1>1, <1>2, <1>3, <1>4 DEF Costed, Priced
<1>6. ranked \in Seq(C) /\ chunks \in Seq(C)
  <2>1. ToSet(ranked) \subseteq C /\ ToSet(chunks) \subseteq C BY <1>1
  <2> QED BY <1>2, <1>3, <2>1, SeqOfMore DEF Priced
<1>7. ASSUME NEW i \in DOMAIN ranked
      PROVE  ranked[i].evidence \in Seq(C)
  <2>1. PICK x : x = ranked[i] OBVIOUS
  <2>2. x \in ToSet(ranked) BY <2>1 DEF ToSet
  <2>3. ToSet(x.evidence) \subseteq C BY <1>1, <2>2
  <2> QED BY <1>2, <2>1, <2>2, <2>3, SeqOfMore DEF Priced
<1>8. IsUnits(C, units) BY <1>1, <1>4 DEF IsUnits
<1> QED BY <1>2, <1>3, <1>5, <1>6, <1>7, <1>8 DEF IsRanked

\* The answer from the graph, within what memories leave.
LEMMA BaseIsPacked ==
    ASSUME NEW C, Costed(C), NEW ranked, IsRanked(C, ranked), NEW chunks \in Seq(C), Once(chunks),
           NEW mode \in {"merge", "fallback"}, NEW budget \in Nat, NEW percent \in 0..100, NEW k,
           NEW out, out = CompactQuery(mode, ranked, chunks, budget, percent, k)
    PROVE  /\ IsOutput(C, budget, out) /\ Once(out.relations) /\ Once(out.chunks)
           /\ \A x \in ToSet(ranked) \ ToSet(out.relations) : x.cost > out.left
           /\ mode = "merge" => ChunksFilled(out, chunks, ShareOf(budget, percent))
           /\ ranked = <<>> => \A c \in Offered(chunks, out) \ ToSet(out.chunks) : c.cost > out.left
<1>1. CASE mode = "merge"
  <2>1. out = FusedOutput(ranked, chunks, budget, percent, k) BY <1>1 DEF CompactQuery
  <2>2. /\ IsOutput(C, budget, out) /\ Filled(out, ranked)
        /\ ChunksFilled(out, chunks, ShareOf(budget, percent))
    BY <2>1, FusedPacks
  <2> QED BY <2>2 DEF Filled, ChunksFilled
<1>2. CASE mode = "fallback" /\ ranked # <<>>
  <2>1. out = CompactOutput(ranked, budget, k) BY <1>2 DEF CompactQuery
  <2>2. IsOutput(C, budget, out) /\ Filled(out, ranked) BY <2>1, CompactPacks
  <2> QED BY <1>2, <2>2 DEF Filled
<1>3. CASE mode = "fallback" /\ ranked = <<>>
  <2>1. out = FallbackOutput(chunks, budget) BY <1>3 DEF CompactQuery
  <2>2. /\ IsOutput(C, budget, out) /\ Once(out.relations) /\ Once(out.chunks)
        /\ \A c \in ToSet(chunks) \ ToSet(out.chunks) : c.cost > out.left
    BY <2>1, FallbackPacks
  <2>3. ToSet(ranked) = {} BY <1>3, EmptyPack, SpentNothing DEF ToSet
  <2>4. Offered(chunks, out) \subseteq ToSet(chunks) BY DEF Offered
  <2> QED BY <1>3, <2>2, <2>3, <2>4
<1> QED BY <1>1, <1>2, <1>3

\* What is asked about an answer is what the packing owes.
LEMMA AnswerIsPacked ==
    ASSUME AnswerInv
    PROVE  AnswerPacked
<1> SUFFICES ASSUME case.is = "answer"
             PROVE  WithinBudget /\ ChunkShareKept /\ MemoryPrefix
  BY DEF AnswerPacked, WithinBudget, ChunkShareKept, MemoryPrefix
<1>1. PICK mode, ranked, chunks, hits, budget, percent, out :
        /\ mode = case.mode /\ ranked = case.ranked /\ chunks = case.chunks /\ hits = case.hits
        /\ budget = case.budget /\ percent = case.percent /\ out = case.out
  OBVIOUS
<1>2. /\ mode \in {"merge", "fallback"} /\ ranked \in Rankeds /\ chunks \in ChunkLists
      /\ budget \in Nat /\ percent \in 0..100 /\ MemoryPercent \in 0..100
      /\ out = QueryWithMemory(mode, ranked, chunks, hits, budget, percent, MemoryPercent, TopK)
  BY <1>1, AnswersAssumption DEF AnswerInv
<1>3. PICK units \in UnitSets : hits = MemoryHits(units, 2) BY <1>1 DEF AnswerInv
<1>4. PICK C : /\ Costed(C) /\ IsRanked(C, ranked) /\ chunks \in Seq(C) /\ Once(chunks)
               /\ IsUnits(C, units)
  BY <1>2, SourcesCost
<1>5. hits \in Seq(C)
  <2>1. PICK limit : limit = 2 OBVIOUS
  <2>2. limit \in Nat BY <2>1
  <2> QED BY <1>3, <1>4, <2>1, <2>2, HitsAreUnits
<1>6. PICK share, memory, semantic, base :
        /\ share = ShareOf(budget, MemoryPercent) /\ memory = RenderMemoryHits(hits, share)
        /\ semantic = budget - memory.used
        /\ base = CompactQuery(mode, ranked, chunks, semantic, percent, TopK)
  OBVIOUS
<1>7. out = [memory |-> memory.hits, used |-> memory.used + (semantic - base.left), base |-> base]
  BY <1>2, <1>6 DEF QueryWithMemory
<1>8. share \in Nat /\ share <= budget BY <1>2, <1>6, ShareIsPart
<1>9. PICK m : MostHits(C, hits, share, m, memory.hits) /\ memory.used = Spent(memory.hits)
  BY <1>4, <1>5, <1>6, <1>8, HitsFit
<1>10. /\ memory.used \in Nat /\ memory.used <= share /\ semantic \in Nat
       /\ semantic = budget - memory.used
  <2>1. memory.hits \in Seq(C) /\ Spent(memory.hits) <= share BY <1>9 DEF MostHits
  <2>2. memory.used \in Nat /\ memory.used <= share BY <1>4, <1>9, <2>1, SpentType
  <2> QED BY <1>2, <1>6, <1>8, <2>2
<1>11. /\ IsOutput(C, semantic, base) /\ Once(base.relations) /\ Once(base.chunks)
       /\ \A x \in ToSet(ranked) \ ToSet(base.relations) : x.cost > base.left
       /\ mode = "merge" => ChunksFilled(base, chunks, ShareOf(semantic, percent))
       /\ ranked = <<>> => \A c \in Offered(chunks, base) \ ToSet(base.chunks) : c.cost > base.left
  BY ZenonT(30), <1>2, <1>4, <1>6, <1>10, BaseIsPacked
<1>12. case.out.memory = memory.hits /\ case.out.base = base
       /\ case.out.used = memory.used + (semantic - base.left)
  BY <1>1, <1>7
<1>13. /\ base.relations \in Seq(C) /\ base.evidence \in Seq(C) /\ base.chunks \in Seq(C)
       /\ base.left \in Nat
       /\ base.left + Spent(base.relations) + Spent(base.evidence) + Spent(base.chunks) = semantic
  BY <1>11 DEF IsOutput
<1>14. /\ Spent(base.relations) \in Nat /\ Spent(base.evidence) \in Nat /\ Spent(base.chunks) \in Nat
  BY <1>4, <1>13, SpentType
<1>15. PICK used, a1, a2, a3, left :
        /\ used = memory.used /\ a1 = Spent(base.relations) /\ a2 = Spent(base.evidence)
        /\ a3 = Spent(base.chunks) /\ left = base.left
  OBVIOUS
<1>16. /\ used + (semantic - left) = used + a1 + a2 + a3
       /\ used + a1 + a2 + a3 <= budget
       /\ budget - (used + (semantic - left)) = left
  <2>1. /\ used \in Nat /\ a1 \in Nat /\ a2 \in Nat /\ a3 \in Nat /\ left \in Nat
        /\ semantic \in Nat /\ budget \in Nat
        /\ left + a1 + a2 + a3 = semantic /\ semantic = budget - used
    BY <1>2, <1>10, <1>13, <1>14, <1>15
  <2> QED BY <2>1
<1>17. WithinBudget
  <2>1. Shown(base.relations) /\ Shown(base.chunks) BY <1>11, <1>13, OnceIsShown
  <2>2. ASSUME NEW c \in ToSet(chunks) \ ToSet(base.chunks), c.doc \notin DocsOf(base.evidence),
               mode = "merge" \/ ranked = <<>>
        PROVE  c.cost > left
    <3>1. c \in Offered(chunks, base) \ ToSet(base.chunks) BY <2>2 DEF Offered
    <3> QED BY <1>11, <1>15, <2>2, <3>1 DEF ChunksFilled
  <2>3. \A x \in ToSet(ranked) \ ToSet(base.relations) : x.cost > left BY <1>11, <1>15
  <2>4. /\ budget - case.out.used = left
        /\ case.out.used = Spent(case.out.memory) + Spent(base.relations) + Spent(base.evidence)
                             + Spent(base.chunks)
        /\ case.out.used <= case.budget
    BY <1>1, <1>9, <1>12, <1>15, <1>16
  <2> QED BY <1>1, <1>12, <2>1, <2>2, <2>3, <2>4 DEF WithinBudget, Base
<1>18. ChunkShareKept
  <2>1. ASSUME mode = "merge"
        PROVE  ChunksFilled(base, chunks, ShareOf(case.budget - Spent(case.out.memory), case.percent))
    BY <1>1, <1>9, <1>10, <1>11, <1>12, <2>1
  <2> QED BY <1>1, <1>12, <2>1 DEF ChunkShareKept, Base, ChunksFilled, Offered
<1>19. MemoryPrefix
  <2>1. PICK found : found = memory.hits OBVIOUS
  <2>2. /\ m \in Nat /\ m <= Len(hits) /\ found = SubSeq(hits, 1, m) /\ found \in Seq(C)
        /\ Len(found) = m /\ Spent(found) <= share
        /\ m < Len(hits) => Spent(found) + hits[m + 1].cost > share
    BY <1>9, <2>1 DEF MostHits
  <2>3. SubSeq(found, 1, m) = found BY <2>2
  <2>4. IsPrefix(found, hits) BY <2>2, <2>3 DEF IsPrefix
  <2> QED BY <1>1, <1>6, <1>12, <2>1, <2>2, <2>4 DEF MemoryPrefix
<1> QED BY <1>17, <1>18, <1>19
-----------------------------------------------------------------------------
(* Ranking.                                                                *)

Candidates == [hops : 0..MaxHops, raw : Nat, sim : Nat, date : Nat]

\* A case about a ranking has the candidates, and their order.
RankInv ==
    case.is = "rank" =>
        /\ case.scored \in Scoreds /\ case.embedded \in BOOLEAN
        /\ case.order = Rank(case.scored, MaxHops, case.embedded)

\* Products grow with their factors.
LEMMA ProductGrows ==
    ASSUME NEW p \in Nat \ {0}, NEW q \in Nat \ {0}, q <= p, NEW u \in Nat, NEW v \in Nat, v <= u
    PROVE  q * v <= p * u /\ (v < u => q * v < p * u)
<1>1. PICK d : d = p - q OBVIOUS
<1>2. PICK e : e = u - v OBVIOUS
<1>3. d \in Nat /\ e \in Nat /\ p = q + d /\ u = v + e BY <1>1, <1>2
<1>4. p * u = q * v + q * e + d * u
  <2>1. p * u = q * u + d * u BY <1>3
  <2>2. q * u = q * v + q * e BY <1>3
  <2> QED BY <1>3, <2>1, <2>2
<1>5. q * e \in Nat /\ d * u \in Nat /\ q * v \in Nat BY <1>3
<1>6. v < u => q * e > 0
  <2>1. v < u => e > 0 BY <1>3
  <2> QED BY <1>3, <2>1
<1> QED BY <1>4, <1>5, <1>6

\* What decay leaves of a score, scaled.
Decayed(h) == Power(HopDecay, h) * Power(10, MaxHops - h)

\* Decay is positive, and stronger with every hop.
LEMMA DecayFalls ==
    ASSUME NEW h \in 0..MaxHops, NEW g \in 0..MaxHops, h <= g
    PROVE  Decayed(h) \in Nat \ {0} /\ Decayed(g) \in Nat \ {0} /\ Decayed(g) <= Decayed(h)
<1>1. MaxHops \in Nat BY RanksAssumption
<1>2. PICK seven, ten : seven = 7 /\ ten = 10 OBVIOUS
<1>3. seven \in Nat \ {0} /\ ten \in Nat \ {0} BY <1>2
<1>4. \A i \in 0..MaxHops : Decayed(i) = Power(seven, i) * Power(ten, MaxHops - i)
  BY <1>2 DEF Decayed, HopDecay
<1>5. \A i \in 0..MaxHops : Decayed(i) \in Nat \ {0}
  <2> TAKE i \in 0..MaxHops
  <2>1. i \in Nat /\ MaxHops - i \in Nat BY <1>1
  <2>2. PICK a, b : a = Power(seven, i) /\ b = Power(ten, MaxHops - i) OBVIOUS
  <2>3. a \in Nat \ {0} /\ b \in Nat \ {0}
    <3>1. PICK k : k = MaxHops - i OBVIOUS
    <3>2. k \in Nat BY <2>1, <3>1
    <3> QED BY <1>3, <2>1, <2>2, <3>1, <3>2, PowerPositive
  <2>4. a * b \in Nat \ {0} BY <2>3
  <2> QED BY <1>4, <2>2, <2>4
<1>6. ASSUME NEW i \in 0..MaxHops, i < MaxHops
      PROVE  Decayed(i + 1) <= Decayed(i)
  <2>1. PICK j, k, l : j = i + 1 /\ k = MaxHops - i /\ l = MaxHops - j OBVIOUS
  <2>2. i \in Nat /\ j \in 0..MaxHops /\ l \in Nat /\ k = l + 1 BY <1>1, <1>6, <2>1
  <2>3. Power(seven, j) = seven * Power(seven, i) BY <2>1, <2>2, PowerStep
  <2>4. Power(ten, k) = ten * Power(ten, l) BY <2>2, PowerStep
  <2>5. PICK a, b : a = Power(seven, i) /\ b = Power(ten, l) OBVIOUS
  <2>6. a \in Nat /\ b \in Nat BY <1>3, <2>2, <2>5, PowerPositive
  <2>7. Decayed(j) = (7 * a) * b /\ Decayed(i) = a * (10 * b)
    BY <1>2, <1>4, <2>1, <2>2, <2>3, <2>4, <2>5
  <2>8. (7 * a) * b <= a * (10 * b)
    <3>1. PICK c : c = a * b OBVIOUS
    <3>2. c \in Nat /\ (7 * a) * b = 7 * c /\ a * (10 * b) = 10 * c BY <2>6, <3>1
    <3>3. 7 * c <= 10 * c BY <3>2
    <3> QED BY <3>2, <3>3
  <2> QED BY <2>1, <2>7, <2>8
<1> DEFINE good == {j \in Nat : h + j <= MaxHops => Decayed(h + j) <= Decayed(h)}
<1>7. 0 \in good
  <2>1. h + 0 = h /\ Decayed(h) \in Nat BY <1>5
  <2>2. Decayed(h) <= Decayed(h) BY <2>1
  <2> QED BY <2>1, <2>2
<1>8. PICK n : n = g - h OBVIOUS
<1>9. n \in Nat /\ n \in 0..n /\ h + n = g /\ g <= MaxHops BY <1>1, <1>8
<1>10. ASSUME NEW j \in 1..n, j - 1 \in good
       PROVE  j \in good
  <2>1. SUFFICES ASSUME h + j <= MaxHops
                 PROVE  Decayed(h + j) <= Decayed(h)
    BY <1>9
  <2>2. PICK i : i = h + (j - 1) OBVIOUS
  <2>3. i \in 0..MaxHops /\ i < MaxHops /\ i + 1 = h + j /\ i <= MaxHops /\ h + j \in 0..MaxHops
    BY <1>1, <1>9, <2>1, <2>2
  <2>4. Decayed(i) <= Decayed(h) BY <1>10, <2>2, <2>3
  <2>5. Decayed(i + 1) <= Decayed(i) BY <1>6, <2>3
  <2>6. PICK a, b, c : a = Decayed(h + j) /\ b = Decayed(i) /\ c = Decayed(h) OBVIOUS
  <2>7. a \in Nat /\ b \in Nat /\ c \in Nat BY <1>5, <2>3, <2>6
  <2>8. a <= b /\ b <= c BY <2>3, <2>4, <2>5, <2>6
  <2>9. a <= c BY <2>7, <2>8
  <2> QED BY <2>6, <2>9
<1>11. n \in good
  <2>1. good \in SUBSET Nat OBVIOUS
  <2> HIDE DEF good
  <2> QED BY <1>7, <1>9, <1>10, <2>1, UpTo
<1>12. Decayed(g) <= Decayed(h) BY <1>9, <1>11
<1> QED BY <1>5, <1>12

\* The raw scores of those that match.
Matched(scored) == {scored[d].raw : d \in DOMAIN scored} \ {0}

\* Raw scores have a least and a greatest.
LEMMA MatchedBounds ==
    ASSUME NEW scored \in Seq(Candidates), Matched(scored) # {}
    PROVE  /\ Matched(scored) \in SUBSET Nat
           /\ Min(Matched(scored)) \in Matched(scored)
           /\ \A x \in Matched(scored) : Min(Matched(scored)) <= x /\ x <= Max(Matched(scored))
           /\ Max(Matched(scored)) \in Matched(scored)
<1>1. PICK n, M : n = Len(scored) /\ M = Matched(scored) OBVIOUS
<1>2. n \in Nat /\ DOMAIN scored = 1..n /\ \A d \in 1..n : scored[d].raw \in Nat
  <2>1. n \in Nat /\ DOMAIN scored = 1..n /\ \A d \in 1..n : scored[d] \in Candidates BY <1>1
  <2>2. \A x \in Candidates : x.raw \in Nat BY DEF Candidates
  <2> QED BY <2>1, <2>2
<1>3. M \in SUBSET Nat BY <1>1, <1>2 DEF Matched
<1>4. Min(M) \in M /\ \A x \in M : Min(M) <= x
  <2>1. \E x \in M : \A y \in M : x <= y BY <1>1, <1>3, LeastNat
  <2> QED BY <2>1 DEF Min
<1> DEFINE good == {j \in Nat : \E b \in Nat : \A d \in 1..n : d <= j => scored[d].raw <= b}
<1>5. 0 \in good
  <2>1. \A d \in 1..n : ~(d <= 0) BY <1>2
  <2> QED BY <2>1
<1>6. ASSUME NEW j \in 1..n, j - 1 \in good
      PROVE  j \in good
  <2>1. PICK b \in Nat : \A d \in 1..n : d <= j - 1 => scored[d].raw <= b BY <1>6
  <2>2. PICK c : c = b + scored[j].raw OBVIOUS
  <2>3. c \in Nat /\ b <= c /\ scored[j].raw <= c BY <1>2, <2>2
  <2>4. ASSUME NEW d \in 1..n, d <= j
        PROVE  scored[d].raw <= c
    <3>1. d <= j - 1 \/ d = j BY <1>2, <2>4
    <3>2. scored[d].raw \in Nat BY <1>2
    <3> QED BY <2>1, <2>3, <3>1, <3>2
  <2>5. j \in Nat BY <1>2
  <2> QED BY <2>3, <2>4, <2>5
<1>7. n \in good
  <2>1. good \in SUBSET Nat /\ n \in 0..n BY <1>2
  <2> HIDE DEF good
  <2> QED BY <1>2, <1>5, <1>6, <2>1, UpTo
<1>8. PICK b \in Nat : \A d \in 1..n : scored[d].raw <= b
  <2>1. PICK b \in Nat : \A d \in 1..n : d <= n => scored[d].raw <= b BY <1>7
  <2>2. \A d \in 1..n : d <= n BY <1>2
  <2> QED BY <2>1, <2>2
<1>9. M \in SUBSET (0..b) BY <1>1, <1>2, <1>8 DEF Matched
<1>10. Max(M) \in M /\ \A x \in M : x <= Max(M) BY <1>1, <1>9, MaxOfIndices
<1> QED BY <1>1, <1>3, <1>4, <1>10

\* The spread is positive.
LEMMA SpreadPositive ==
    ASSUME NEW scored \in Seq(Candidates)
    PROVE  Spread(scored, DOMAIN scored) \in Nat \ {0}
<1>1. PICK M : M = Matched(scored) OBVIOUS
<1>2. Spread(scored, DOMAIN scored) = IF Cardinality(M) < 2 THEN 1 ELSE Max(M) - Min(M)
  BY <1>1 DEF Spread, Matched
<1>3. CASE Cardinality(M) < 2 BY <1>2, <1>3
<1>4. CASE ~(Cardinality(M) < 2)
  <2>1. M # {}
    <3>1. Cardinality({}) = 0 BY FS_EmptySet
    <3>2. SUFFICES ASSUME M = {} PROVE FALSE OBVIOUS
    <3> QED BY <1>4, <3>1, <3>2
  <2>2. /\ M \in SUBSET Nat /\ Min(M) \in M /\ Max(M) \in M
        /\ \A x \in M : Min(M) <= x /\ x <= Max(M)
    <3>1. Matched(scored) # {} BY <1>1, <2>1
    <3>2. /\ Matched(scored) \in SUBSET Nat
          /\ Min(Matched(scored)) \in Matched(scored)
          /\ \A x \in Matched(scored) : Min(Matched(scored)) <= x /\ x <= Max(Matched(scored))
          /\ Max(Matched(scored)) \in Matched(scored)
      BY <3>1, MatchedBounds
    <3> QED BY <1>1, <3>2
  <2>3. Min(M) # Max(M)
    <3>1. SUFFICES ASSUME Min(M) = Max(M) PROVE FALSE OBVIOUS
    <3>2. PICK x : x = Min(M) OBVIOUS
    <3>3. M = {x}
      <4>1. x \in Nat /\ x \in M /\ \A y \in M : y \in Nat /\ x <= y /\ y <= x BY <2>2, <3>1, <3>2
      <4>2. \A y \in M : y = x BY <4>1
      <4> QED BY <4>1, <4>2
    <3>4. Cardinality({x}) = 1 BY FS_Singleton
    <3> QED BY <1>4, <3>3, <3>4
  <2>4. PICK a, b : a = Min(M) /\ b = Max(M) OBVIOUS
  <2>5. a \in Nat /\ b \in Nat /\ a <= b /\ a # b BY <2>2, <2>3, <2>4
  <2>6. b - a \in Nat \ {0} BY <2>5
  <2> QED BY <1>2, <1>4, <2>4, <2>6
<1> QED BY <1>3, <1>4

\* Normalisation keeps the order of the raw scores of those that match.
LEMMA NormalizedGrows ==
    ASSUME NEW scored \in Seq(Candidates), NEW c \in DOMAIN scored, NEW d \in DOMAIN scored,
           scored[d].raw <= scored[c].raw
    PROVE  LET N(e) == Normalized(scored, DOMAIN scored, e)
           IN  /\ N(c) \in Nat /\ N(d) \in Nat /\ N(d) <= N(c)
               /\ scored[d].raw > 0 /\ scored[d].raw < scored[c].raw => N(d) < N(c)
<1>1. PICK M : M = Matched(scored) OBVIOUS
<1>2. \A e : Normalized(scored, DOMAIN scored, e)
               = IF M = {} \/ scored[e].raw = 0 THEN 0 ELSE scored[e].raw - Min(M)
  BY <1>1 DEF Normalized, Matched
<1>3. scored[c].raw \in Nat /\ scored[d].raw \in Nat
  <2>1. scored[c] \in Candidates /\ scored[d] \in Candidates OBVIOUS
  <2> QED BY <2>1 DEF Candidates
<1>4. /\ scored[c].raw # 0 => scored[c].raw \in M
      /\ scored[d].raw # 0 => scored[d].raw \in M
  BY <1>1 DEF Matched
<1>5. CASE M = {} BY <1>2, <1>3, <1>4, <1>5
<1>6. CASE M # {}
  <2>1. Min(M) \in Nat /\ \A x \in M : Min(M) <= x BY <1>1, <1>6, MatchedBounds
  <2>2. PICK least, r, s : least = Min(M) /\ r = scored[c].raw /\ s = scored[d].raw OBVIOUS
  <2>3. least \in Nat /\ r \in Nat /\ s \in Nat /\ s <= r BY <1>3, <2>1, <2>2
  <2>4. PICK x, y : /\ x = IF r = 0 THEN 0 ELSE r - least
                    /\ y = IF s = 0 THEN 0 ELSE s - least
    OBVIOUS
  <2>5. x \in Nat /\ y \in Nat /\ y <= x /\ (s > 0 /\ s < r => y < x)
    <3>1. r # 0 => least <= r BY <1>4, <2>1, <2>2
    <3>2. s # 0 => least <= s BY <1>4, <2>1, <2>2
    <3> QED BY <2>3, <2>4, <3>1, <3>2
  <2> QED BY <1>2, <1>6, <2>2, <2>4, <2>5
<1> QED BY <1>5, <1>6


\* c is at least as near, as similar, as well matched and as recent as d, and ahead of
\* it in one that counts (as RankMonotone has it).
NoWorse(scored, c, d) ==
    /\ scored[c].hops <= scored[d].hops /\ scored[c].sim >= scored[d].sim
    /\ scored[c].raw >= scored[d].raw /\ scored[c].date >= scored[d].date
Ahead(scored, embedded, c, d) ==
    \/ scored[c].hops < scored[d].hops
    \/ scored[c].date > scored[d].date
    \/ embedded /\ scored[c].sim > scored[d].sim
    \/ scored[d].raw > 0 /\ scored[c].raw > scored[d].raw

\* Scores never pull against what they are made of.
LEMMA ScoreGrows ==
    ASSUME NEW scored \in Seq(Candidates), NEW c \in DOMAIN scored, NEW d \in DOMAIN scored,
           NEW embedded \in BOOLEAN, NoWorse(scored, c, d)
    PROVE  LET S(e) == Score(scored, DOMAIN scored, e, MaxHops, embedded)
           IN  /\ S(c) \in Nat /\ S(d) \in Nat /\ S(d) <= S(c)
               /\ embedded /\ scored[c].sim > scored[d].sim => S(d) < S(c)
               /\ scored[d].raw > 0 /\ scored[c].raw > scored[d].raw => S(d) < S(c)
<1>1. PICK all, spread, alpha, h, g, x, y, r, s, m, n :
        /\ all = DOMAIN scored /\ spread = Spread(scored, all)
        /\ alpha = (IF embedded THEN Alpha ELSE 0)
        /\ h = scored[c].hops /\ g = scored[d].hops
        /\ x = scored[c].sim /\ y = scored[d].sim /\ r = scored[c].raw /\ s = scored[d].raw
        /\ m = Normalized(scored, all, c) /\ n = Normalized(scored, all, d)
  OBVIOUS
<1>2. /\ h \in 0..MaxHops /\ g \in 0..MaxHops /\ h <= g /\ x \in Nat /\ y \in Nat /\ y <= x
      /\ r \in Nat /\ s \in Nat /\ s <= r
  <2>1. scored[c] \in Candidates /\ scored[d] \in Candidates OBVIOUS
  <2>2. MaxHops \in Nat BY RanksAssumption
  <2> QED BY <1>1, <2>1, <2>2 DEF Candidates, NoWorse
<1>3. spread \in Nat \ {0} BY <1>1, SpreadPositive
<1>4. m \in Nat /\ n \in Nat /\ n <= m /\ (s > 0 /\ s < r => n < m)
  <2>1. scored[d].raw <= scored[c].raw BY <1>1, <1>2
  <2> QED BY <1>1, <2>1, NormalizedGrows
<1>5. Decayed(h) \in Nat \ {0} /\ Decayed(g) \in Nat \ {0} /\ Decayed(g) <= Decayed(h)
  BY <1>2, DecayFalls
<1>6. PICK u, v, p, q :
        /\ u = alpha * x * spread + (10 - alpha) * MaxSim * m
        /\ v = alpha * y * spread + (10 - alpha) * MaxSim * n
        /\ p = Decayed(h) /\ q = Decayed(g)
  OBVIOUS
<1>7. /\ Score(scored, all, c, MaxHops, embedded) = p * u
      /\ Score(scored, all, d, MaxHops, embedded) = q * v
  BY <1>1, <1>6 DEF Score, Decayed
<1>8. PICK e, t : e = x * spread /\ t = y * spread OBVIOUS
<1>9. e \in Nat /\ t \in Nat /\ t <= e /\ (y < x => t < e) BY <1>2, <1>3, <1>8, ProductGrows
<1>10. /\ u \in Nat /\ v \in Nat /\ v <= u
       /\ embedded /\ y < x => v < u
       /\ s > 0 /\ s < r => v < u
  <2>1. CASE embedded
    <3>1. u = 6 * e + 8 * m /\ v = 6 * t + 8 * n
      <4>1. alpha = 6 /\ 10 - alpha = 4 BY <1>1, <2>1 DEF Alpha
      <4>2. u = (6 * x) * spread + (4 * 2) * m /\ v = (6 * y) * spread + (4 * 2) * n
        BY <1>6, <4>1 DEF MaxSim
      <4>3. (6 * x) * spread = 6 * e /\ (6 * y) * spread = 6 * t BY <1>2, <1>3, <1>8
      <4> QED BY <1>4, <4>2, <4>3
    <3> QED BY <1>4, <1>9, <3>1
  <2>2. CASE ~embedded
    <3>1. u = 20 * m /\ v = 20 * n
      <4>1. alpha = 0 /\ 10 - alpha = 10 BY <1>1, <2>2
      <4>2. u = (0 * x) * spread + (10 * 2) * m /\ v = (0 * y) * spread + (10 * 2) * n
        BY <1>6, <4>1 DEF MaxSim
      <4>3. (0 * x) * spread = 0 /\ (0 * y) * spread = 0 BY <1>2, <1>3
      <4> QED BY <1>4, <4>2, <4>3
    <3> QED BY <1>4, <2>2, <3>1
  <2> QED BY <2>1, <2>2
<1>11. q * v <= p * u /\ (v < u => q * v < p * u) BY <1>5, <1>6, <1>10, ProductGrows
<1>12. q * v \in Nat /\ p * u \in Nat BY <1>5, <1>6, <1>10
<1>13. x > y <=> y < x BY <1>2
<1>14. r > s <=> s < r BY <1>2
<1> QED BY <1>1, <1>7, <1>10, <1>11, <1>12, <1>13, <1>14

\* A score is a number.
LEMMA ScoreIsNat ==
    ASSUME NEW scored \in Seq(Candidates), NEW c \in DOMAIN scored, NEW embedded \in BOOLEAN
    PROVE  Score(scored, DOMAIN scored, c, MaxHops, embedded) \in Nat
<1>1. scored[c] \in Candidates /\ MaxHops \in Nat BY RanksAssumption
<1>2. NoWorse(scored, c, c) BY <1>1 DEF NoWorse, Candidates
<1> QED BY <1>2, ScoreGrows

\* What the ranking sorts by.
RankKey(scored, embedded) ==
    [c \in DOMAIN scored |->
       <<-Score(scored, DOMAIN scored, c, MaxHops, embedded), scored[c].hops, -scored[c].date, c>>]

\* The keys are numbers, and tell the candidates apart.
LEMMA RankKeys ==
    ASSUME NEW scored \in Seq(Candidates), NEW embedded \in BOOLEAN, NEW m, m = 4
    PROVE  Keys(DOMAIN scored, RankKey(scored, embedded), m)
<1>1. PICK key, all : key = RankKey(scored, embedded) /\ all = DOMAIN scored OBVIOUS
<1>2. ASSUME NEW c \in all
      PROVE  DOMAIN key[c] = 1..m /\ key[c][4] = c /\ \A i \in 1..m : key[c][i] \in Int
  <2>1. PICK s, h, t : /\ s = Score(scored, DOMAIN scored, c, MaxHops, embedded)
                       /\ h = scored[c].hops /\ t = scored[c].date
    OBVIOUS
  <2>2. s \in Nat BY <1>1, <2>1, ScoreIsNat
  <2>3. h \in Nat /\ t \in Nat /\ c \in Nat
    <3>1. scored[c] \in Candidates /\ MaxHops \in Nat /\ c \in Nat BY <1>1, RanksAssumption
    <3> QED BY <2>1, <3>1 DEF Candidates
  <2>4. key[c] = <<-s, h, -t, c>> BY <1>1, <2>1 DEF RankKey
  <2>5. -s \in Int /\ -t \in Int BY <2>2, <2>3
  <2>6. \A i \in 1..m : i = 1 \/ i = 2 \/ i = 3 \/ i = 4 OBVIOUS
  <2> QED BY <2>2, <2>3, <2>4, <2>5, <2>6
<1>3. m \in Nat /\ 4 \in 1..m OBVIOUS
<1> QED BY <1>1, <1>2, <1>3 DEF Keys

\* A candidate that is no worse, and ahead, has the lesser key.
LEMMA AheadIsBefore ==
    ASSUME NEW scored \in Seq(Candidates), NEW embedded \in BOOLEAN,
           NEW c \in DOMAIN scored, NEW d \in DOMAIN scored,
           NoWorse(scored, c, d), Ahead(scored, embedded, c, d)
    PROVE  Less(RankKey(scored, embedded)[c], RankKey(scored, embedded)[d])
<1>1. PICK all, s, t, key :
        /\ all = DOMAIN scored /\ key = RankKey(scored, embedded)
        /\ s = Score(scored, all, c, MaxHops, embedded) /\ t = Score(scored, all, d, MaxHops, embedded)
  OBVIOUS
<1>2. /\ s \in Nat /\ t \in Nat /\ t <= s
      /\ embedded /\ scored[c].sim > scored[d].sim => t < s
      /\ scored[d].raw > 0 /\ scored[c].raw > scored[d].raw => t < s
  BY <1>1, ScoreGrows
<1>3. PICK h, g, a, b : /\ h = scored[c].hops /\ g = scored[d].hops
                        /\ a = scored[c].date /\ b = scored[d].date
  OBVIOUS
<1>4. h \in Nat /\ g \in Nat /\ a \in Nat /\ b \in Nat /\ h <= g /\ b <= a
  <2>1. scored[c] \in Candidates /\ scored[d] \in Candidates /\ MaxHops \in Nat BY RanksAssumption
  <2> QED BY <1>3, <2>1 DEF Candidates, NoWorse
<1>5. key[c] = <<-s, h, -a, c>> /\ key[d] = <<-t, g, -b, d>> BY <1>1, <1>3 DEF RankKey
<1>6. /\ key[c][1] = -s /\ key[c][2] = h /\ key[c][3] = -a
      /\ key[d][1] = -t /\ key[d][2] = g /\ key[d][3] = -b
      /\ DOMAIN key[c] = 1..4
  BY <1>5
<1>7. 1 \in 1..4 /\ 2 \in 1..4 /\ 3 \in 1..4 OBVIOUS
<1>8. CASE t < s
  <2>1. key[c][1] < key[d][1] /\ \A j \in 1..(1 - 1) : key[c][j] = key[d][j] BY <1>2, <1>6, <1>8
  <2> QED BY <1>1, <1>6, <1>7, <2>1 DEF Less
<1>9. CASE s = t /\ h < g
  <2>1. key[c][2] < key[d][2] BY <1>4, <1>6, <1>9
  <2>2. \A j \in 1..(2 - 1) : key[c][j] = key[d][j]
    <3>1. \A j \in 1..(2 - 1) : j = 1 OBVIOUS
    <3> QED BY <1>6, <1>9, <3>1
  <2> QED BY <1>1, <1>6, <1>7, <2>1, <2>2 DEF Less
<1>10. CASE s = t /\ h = g /\ b < a
  <2>1. key[c][3] < key[d][3] BY <1>4, <1>6, <1>10
  <2>2. \A j \in 1..(3 - 1) : key[c][j] = key[d][j]
    <3>1. \A j \in 1..(3 - 1) : j = 1 \/ j = 2 OBVIOUS
    <3> QED BY <1>6, <1>10, <3>1
  <2> QED BY <1>1, <1>6, <1>7, <2>1, <2>2 DEF Less
<1>11. t < s \/ (s = t /\ h < g) \/ (s = t /\ h = g /\ b < a)
  <2>1. h < g \/ a > b \/ t < s BY <1>2, <1>3 DEF Ahead
  <2> QED BY <1>2, <1>4, <2>1
<1> QED BY <1>8, <1>9, <1>10, <1>11

\* Rankings are monotone.
LEMMA RankIsMonotone ==
    ASSUME RankInv
    PROVE  RankMonotone
<1> SUFFICES ASSUME case.is = "rank"
             PROVE  RankMonotone
  BY DEF RankMonotone
<1>1. PICK x, embedded, order : x = case.scored /\ embedded = case.embedded /\ order = case.order
  OBVIOUS
<1>2. /\ x \in Seq(Candidates) /\ embedded \in BOOLEAN
      /\ order = Rank(x, MaxHops, embedded)
  BY <1>1, RanksAssumption DEF RankInv, Candidates
<1>3. PICK m, n, key : m = 4 /\ n = Len(x) /\ key = RankKey(x, embedded) OBVIOUS
<1>4. n \in Nat /\ DOMAIN x = 1..n /\ IsFiniteSet(1..n) /\ Cardinality(1..n) = n
  BY <1>2, <1>3, CountTo
<1>5. Keys(1..n, key, m) BY <1>2, <1>3, <1>4, RankKeys
<1>6. order = Sorted(1..n, key) BY <1>2, <1>3, <1>4 DEF Rank, RankKey
<1>7. /\ order \in SetToSeqs(1..n) /\ order \in Seq(1..n)
      /\ DOMAIN order = 1..n /\ ToSet(order) = 1..n /\ Len(order) = n
      /\ \A i, j \in DOMAIN order : i < j => Less(key[order[i]], key[order[j]])
  <2>1. PICK S : S = 1..n OBVIOUS
  <2>2. IsFiniteSet(S) /\ Keys(S, key, m) /\ order = Sorted(S, key) /\ Cardinality(S) = n
    BY <1>4, <1>5, <1>6, <2>1
  <2>3. /\ order \in SetToSeqs(S) /\ DOMAIN order = 1..n /\ ToSet(order) = S
        /\ order \in Seq(S)
        /\ \A i, j \in DOMAIN order : i < j => Less(key[order[i]], key[order[j]])
    BY <2>2, SortedIs
  <2>4. Len(order) = n BY <1>4, <2>3
  <2> QED BY <2>1, <2>3, <2>4
<1> DEFINE place(c) == CHOOSE i \in DOMAIN case.order : case.order[i] = c
<1>9. \A c \in 1..n : place(c) \in 1..n /\ order[place(c)] = c
  <2>1. \A c \in 1..n : \E i \in DOMAIN case.order : case.order[i] = c BY <1>1, <1>7 DEF ToSet
  <2>2. \A c \in 1..n : place(c) \in DOMAIN case.order /\ case.order[place(c)] = c BY <2>1
  <2> HIDE DEF place
  <2> QED BY <1>1, <1>7, <2>2
<1>10. ASSUME NEW c \in 1..n, NEW d \in 1..n, NoWorse(x, c, d), Ahead(x, embedded, c, d)
       PROVE  place(c) < place(d)
  <2>1. Less(key[c], key[d]) BY <1>2, <1>3, <1>4, <1>10, AheadIsBefore
  <2>2. ~Less(key[d], key[c]) /\ c # d BY <1>5, <2>1, BeforeIsStrict
  <2>3. PICK i, j : i = place(c) /\ j = place(d) OBVIOUS
  <2>4. i \in 1..n /\ j \in 1..n /\ order[i] = c /\ order[j] = d
    <3> HIDE DEF place
    <3> QED BY <1>9, <2>3
  <2>5. ~(j < i) /\ i # j BY <1>7, <2>2, <2>4
  <2>6. i < j BY <1>4, <2>4, <2>5
  <2> HIDE DEF place
  <2> QED BY <2>3, <2>6
<1> HIDE DEF place
<1>11. /\ ToSet(case.order) = DOMAIN case.scored /\ Len(case.order) = Len(case.scored)
       /\ \A c, d \in DOMAIN case.scored :
            NoWorse(case.scored, c, d) /\ Ahead(case.scored, case.embedded, c, d) => place(c) < place(d)
  BY <1>1, <1>3, <1>4, <1>7, <1>10
<1> QED BY <1>11 DEF RankMonotone, NoWorse, Ahead, place
-----------------------------------------------------------------------------
(* Excerpts.                                                               *)

\* Windows, as an excerpt gets them.
IsWindows(windows) ==
    /\ IsFiniteSet(windows)
    /\ \A w \in windows : /\ w.from \in Nat /\ w.to \in Nat /\ w.from <= w.to
                         /\ IsFiniteSet(w.terms)
    /\ \A v, w \in windows : v.from = w.from /\ v.to = w.to => v = w

\* The image of a finite set is finite, and has no more members.
LEMMA ImageIsFinite ==
    ASSUME NEW S, IsFiniteSet(S), NEW f, DOMAIN f = S, NEW T, T = {f[x] : x \in S}
    PROVE  IsFiniteSet(T) /\ Cardinality(T) <= Cardinality(S)
<1>1. PICK g : g = [x \in S |-> f[x]] OBVIOUS
<1>2. g \in Surjection(S, T)
  <2>1. g \in [S -> T] /\ \A t \in T : \E x \in S : g[x] = t BY <1>1
  <2> QED BY <2>1 DEF Surjection
<1> QED BY <1>2, FS_Surjection

\* A sequence has finitely many elements, at most as many as it is long.
LEMMA FewElements ==
    ASSUME NEW C, NEW s \in Seq(C)
    PROVE  IsFiniteSet(ToSet(s)) /\ Cardinality(ToSet(s)) <= Len(s) /\ ToSet(s) \subseteq C
<1>1. PICK n, S : n = Len(s) /\ S = 1..n OBVIOUS
<1>2. n \in Nat /\ DOMAIN s = S /\ IsFiniteSet(S) /\ Cardinality(S) = n BY <1>1, CountTo
<1>3. ToSet(s) = {s[x] : x \in S} BY <1>2 DEF ToSet
<1>4. IsFiniteSet(ToSet(s)) /\ Cardinality(ToSet(s)) <= n BY <1>2, <1>3, ImageIsFinite
<1>5. ToSet(s) \subseteq C BY DEF ToSet
<1> QED BY <1>1, <1>4, <1>5

\* The windows in the order in which they are chosen.
LEMMA ByTermsIs ==
    ASSUME NEW windows, IsWindows(windows)
    PROVE  \E n \in Nat : /\ ByTerms(windows) \in [1..n -> windows]
                          /\ windows # {} => n > 0
<1>1. PICK key, m, s : /\ key = [w \in windows |-> <<-Cardinality(w.terms), w.from, w.to>>]
                       /\ m = 3 /\ s = ByTerms(windows)
  OBVIOUS
<1>2. IsFiniteSet(windows) BY DEF IsWindows
<1>3. ASSUME NEW w \in windows
      PROVE  /\ DOMAIN key[w] = 1..m /\ key[w][2] = w.from /\ key[w][3] = w.to
             /\ \A i \in 1..m : key[w][i] \in Int
  <2>1. PICK c : c = Cardinality(w.terms) OBVIOUS
  <2>2. c \in Nat /\ w.from \in Nat /\ w.to \in Nat BY <2>1, FS_CardinalityType DEF IsWindows
  <2>3. -c \in Int BY <2>2
  <2>4. key[w] = <<-c, w.from, w.to>> BY <1>1, <2>1
  <2>5. \A i \in 1..m : i = 1 \/ i = 2 \/ i = 3 BY <1>1
  <2> QED BY <1>1, <2>2, <2>3, <2>4, <2>5
<1>4. Keys(windows, key, m)
  <2>1. m \in Nat /\ 2 \in 1..m /\ 3 \in 1..m BY <1>1
  <2>2. \A v, w \in windows : v.from = w.from /\ v.to = w.to => v = w BY DEF IsWindows
  <2> QED BY <1>3, <2>1, <2>2 DEF Keys
<1>5. s = Sorted(windows, key) BY <1>1 DEF ByTerms
<1>6. PICK n : n = Cardinality(windows) OBVIOUS
<1>7. n \in Nat /\ s \in [1..n -> windows] /\ ToSet(s) = windows BY <1>2, <1>4, <1>5, <1>6, SortedIs
<1>8. windows # {} => n > 0 BY <1>7 DEF ToSet
<1> QED BY <1>1, <1>7, <1>8

\* Nothing is a sequence of anything.
LEMMA NothingIs ==
    ASSUME NEW C, NEW e, e = <<>>
    PROVE  e \in Seq(C) /\ Len(e) = 0 /\ DOMAIN e = {} /\ ToSet(e) = {} /\ Once(e)
BY DEF ToSet, Once

\* The windows of words that are chosen; of some, one is.
LEMMA LexicalIs ==
    ASSUME NEW windows, IsWindows(windows)
    PROVE  /\ LexicalWindows(windows) \in Seq(windows)
           /\ windows # {} => LexicalWindows(windows) # <<>>
<1>1. PICK s, n, f : s = ByTerms(windows) /\ n \in Nat /\ s \in [1..n -> windows] 
                     /\ (windows # {} => n > 0) /\ f = [op |-> "lexical"]
  BY ByTermsIs
<1>2. FoldsTo(f, <<>>, s, n, LexicalWindows(windows)) BY <1>1, LexicalFolds
<1>3. PICK run : Runs(f, <<>>, s, n, LexicalWindows(windows), run) BY <1>1, <1>2, FoldRuns
<1> DEFINE good == {j \in Nat : run[j] \in Seq(windows) /\ (j > 0 => run[j] # <<>>)}
<1>4. 0 \in good /\ good \in SUBSET Nat
  <2>1. PICK e : e = run[0] OBVIOUS
  <2>2. e \in Seq(windows) /\ DOMAIN e = {} BY <1>3, <2>1, NothingIs DEF Runs
  <2> QED BY <2>1, <2>2
<1>5. ASSUME NEW j \in 1..n, j - 1 \in good
      PROVE  j \in good
  <2>1. PICK b, x, t : b = run[j - 1] /\ x = s[j] /\ t = run[j] OBVIOUS
  <2>2. b \in Seq(windows) /\ x \in windows /\ j \in Nat BY <1>1, <1>5, <2>1
  <2>3. t = AddLexical(b, x) BY <1>1, <1>3, <2>1 DEF Runs, Step
  <2>4. PICK holds \in BOOLEAN : t = AppendIf(b, x, holds) /\ (b = <<>> => holds)
    <3>1. b = <<>> => Len(b) < Windows BY DEF Windows
    <3> QED BY <2>3, <3>1 DEF AddLexical
  <2>5. t \in Seq(windows) /\ t # <<>> BY <2>2, <2>4 DEF AppendIf
  <2> QED BY <2>1, <2>2, <2>5
<1>6. n \in good
  <2>1. n \in 0..n BY <1>1
  <2> HIDE DEF good
  <2> QED BY <1>1, <1>4, <1>5, <2>1, UpTo
<1> QED BY <1>1, <1>3, <1>6 DEF Runs

\* The windows of CJK text that are chosen lie apart.
LEMMA CjkIs ==
    ASSUME NEW windows, IsWindows(windows)
    PROVE  /\ CjkWindows(windows) \in Seq(windows)
           /\ windows # {} => CjkWindows(windows) # <<>>
           /\ \A i, j \in DOMAIN CjkWindows(windows) :
                i < j => Apart(CjkWindows(windows)[j], CjkWindows(windows)[i])
<1>1. PICK s, n, f : s = ByTerms(windows) /\ n \in Nat /\ s \in [1..n -> windows] 
                     /\ (windows # {} => n > 0) /\ f = [op |-> "cjk"]
  BY ByTermsIs
<1>2. FoldsTo(f, <<>>, s, n, CjkWindows(windows)) BY <1>1, CjkFolds
<1>3. PICK run : Runs(f, <<>>, s, n, CjkWindows(windows), run) BY <1>1, <1>2, FoldRuns
<1> DEFINE good == {j \in Nat : /\ run[j] \in Seq(windows) /\ (j > 0 => run[j] # <<>>)
                                /\ \A i, k \in DOMAIN run[j] : i < k => Apart(run[j][k], run[j][i])}
<1>4. 0 \in good /\ good \in SUBSET Nat
  <2>1. PICK e : e = run[0] OBVIOUS
  <2>2. e \in Seq(windows) /\ DOMAIN e = {} BY <1>3, <2>1, NothingIs DEF Runs
  <2> QED BY <2>1, <2>2
<1>5. ASSUME NEW j \in 1..n, j - 1 \in good
      PROVE  j \in good
  <2>1. PICK b, x, t : b = run[j - 1] /\ x = s[j] /\ t = run[j] OBVIOUS
  <2>2. /\ b \in Seq(windows) /\ x \in windows /\ j \in Nat
        /\ \A i, k \in DOMAIN b : i < k => Apart(b[k], b[i])
    BY <1>1, <1>5, <2>1
  <2>3. t = AddCjk(b, x) BY <1>1, <1>3, <2>1 DEF Runs, Step
  <2>4. PICK holds \in BOOLEAN : /\ t = AppendIf(b, x, holds) /\ (b = <<>> => holds)
                                 /\ holds => \A i \in DOMAIN b : Apart(x, b[i])
    <3>1. b = <<>> => Len(b) < Windows /\ \A i \in DOMAIN b : Apart(x, b[i]) BY DEF Windows
    <3> QED BY <2>3, <3>1 DEF AddCjk
  <2>5. t \in Seq(windows) /\ t # <<>> BY <2>2, <2>4 DEF AppendIf
  <2>6. ASSUME NEW i \in DOMAIN t, NEW k \in DOMAIN t, i < k
        PROVE  Apart(t[k], t[i])
    <3>1. CASE ~holds BY <2>2, <2>4, <2>6, <3>1 DEF AppendIf
    <3>2. CASE holds
      <4>1. t = Append(b, x) BY <2>4, <3>2 DEF AppendIf
      <4>2. /\ i \in DOMAIN b /\ t[i] = b[i]
            /\ (k \in DOMAIN b /\ t[k] = b[k]) \/ t[k] = x
        BY <2>2, <2>6, <4>1
      <4> QED BY <2>2, <2>4, <2>6, <3>2, <4>2
    <3> QED BY <3>1, <3>2
  <2> QED BY <2>1, <2>2, <2>5, <2>6
<1>6. n \in good
  <2>1. n \in 0..n BY <1>1
  <2> HIDE DEF good
  <2> QED BY <1>1, <1>4, <1>5, <2>1, UpTo
<1>7. PICK out : out = CjkWindows(windows) OBVIOUS
<1>8. run[n] = out /\ n \in Nat /\ (windows # {} => n > 0) BY <1>1, <1>3, <1>7 DEF Runs
<1>9. /\ out \in Seq(windows) /\ (n > 0 => out # <<>>)
      /\ \A i, k \in DOMAIN out : i < k => Apart(out[k], out[i])
  BY <1>6, <1>8
<1> QED BY <1>7, <1>8, <1>9

\* Spans, as they are merged.
Spans == {s \in Nat \X Nat : s[1] <= s[2]}

\* Spans that are merged, of the first of some.
MergedTo(m, s, j) ==
    /\ m \in Seq(Spans)
    /\ \A i, k \in DOMAIN m : i < k => m[i][2] < m[k][1]
    /\ j = 0 => m = <<>>
    /\ j > 0 => m # <<>> /\ m[Len(m)][1] <= s[j][1]
    /\ \A i \in 1..j : \E k \in DOMAIN m : m[k][1] <= s[i][1] /\ s[i][2] <= m[k][2]

\* The greater of two numbers.
LEMMA MaxOfPair ==
    ASSUME NEW a \in Nat, NEW b \in Nat
    PROVE  Max({a, b}) \in Nat /\ a <= Max({a, b}) /\ b <= Max({a, b})
<1>1. PICK S : S = {a, b} OBVIOUS
<1>2. S \in SUBSET Nat /\ a \in S /\ b \in S BY <1>1
<1>3. a <= b \/ b <= a OBVIOUS
<1>4. CASE a <= b BY <1>1, <1>2, <1>4, MaxIs
<1>5. CASE b <= a BY <1>1, <1>2, <1>5, MaxIs
<1> QED BY <1>3, <1>4, <1>5

\* The next span extends the last one or follows it.
LEMMA SpanStep ==
    ASSUME NEW n \in Nat, NEW s \in [1..n -> Spans], NEW j \in 1..n, NEW m, MergedTo(m, s, j - 1),
           j > 1 => s[j - 1][1] <= s[j][1]
    PROVE  MergedTo(AddSpan(m, s[j]), s, j)
<1>1. PICK x, t, l : x = s[j] /\ t = AddSpan(m, x) /\ l = Len(m) OBVIOUS
<1>2. /\ x \in Spans /\ x[1] \in Nat /\ x[2] \in Nat /\ x[1] <= x[2]
      /\ m \in Seq(Spans) /\ l \in Nat /\ DOMAIN m = 1..l /\ j \in Nat
  BY <1>1 DEF MergedTo, Spans
<1>3. \A i \in 1..l : m[i] \in Spans /\ m[i][1] \in Nat /\ m[i][2] \in Nat /\ m[i][1] <= m[i][2]
  BY <1>1, <1>2 DEF Spans
<1>4. /\ m # <<>> <=> l > 0
      /\ l > 0 => m[l][1] <= x[1]
  <2>1. m # <<>> <=> l > 0 BY <1>1, <1>2
  <2>2. ASSUME l > 0 PROVE m[l][1] <= x[1]
    <3>1. j > 1 BY <1>1, <1>2, <2>1, <2>2 DEF MergedTo
    <3>2. m[l][1] <= s[j - 1][1] /\ s[j - 1] \in Spans BY <1>1, <1>2, <3>1 DEF MergedTo
    <3>3. s[j - 1][1] \in Nat BY <3>2 DEF Spans
    <3>4. m[l][1] \in Nat BY <1>2, <1>3, <2>2
    <3> QED BY <1>1, <1>2, <3>1, <3>2, <3>3, <3>4
  <2> QED BY <2>1, <2>2
<1>5. CASE l > 0 /\ x[1] <= m[l][2]
  <2>1. PICK b, big, y : b = SubSeq(m, 1, l - 1) /\ big = Max({m[l][2], x[2]}) /\ y = <<m[l][1], big>>
    OBVIOUS
  <2>2. l \in 1..l /\ m[l][1] \in Nat /\ m[l][2] \in Nat /\ m[l][1] <= m[l][2] BY <1>2, <1>3, <1>5
  <2>3. big \in Nat /\ m[l][2] <= big /\ x[2] <= big BY <1>2, <2>1, <2>2, MaxOfPair
  <2>4. y \in Spans /\ y[1] = m[l][1] /\ y[2] = big
    <3>1. PICK a, c : a = m[l][1] /\ c = m[l][2] OBVIOUS
    <3>2. a \in Nat /\ c \in Nat /\ a <= c /\ c <= big /\ y = <<a, big>> BY <2>1, <2>2, <2>3, <3>1
    <3>3. a <= big /\ y \in Nat \X Nat /\ y[1] = a /\ y[2] = big BY <2>3, <3>2
    <3> QED BY <3>1, <3>3 DEF Spans
  <2>5. /\ b \in Seq(Spans) /\ Len(b) = l - 1 /\ DOMAIN b = 1..(l - 1)
        /\ \A i \in 1..(l - 1) : b[i] = m[i]
    BY <1>2, <1>5, <2>1
  <2>6. t = Append(b, y) BY <1>1, <1>4, <1>5, <2>1 DEF AddSpan, Last, Front
  <2>7. /\ t \in Seq(Spans) /\ Len(t) = l /\ DOMAIN t = 1..l /\ t[l] = y
        /\ \A i \in 1..(l - 1) : t[i] = m[i]
    BY <1>2, <1>5, <2>4, <2>5, <2>6
  <2>8. ASSUME NEW i \in DOMAIN t, NEW k \in DOMAIN t, i < k
        PROVE  t[i][2] < t[k][1]
    <3>1. i \in 1..(l - 1) /\ m[i][2] < m[k][1] /\ t[i] = m[i] BY <1>2, <2>7, <2>8 DEF MergedTo
    <3>2. t[k][1] = m[k][1] BY <1>2, <2>4, <2>7, <2>8
    <3> QED BY <3>1, <3>2
  <2>9. t # <<>> /\ t[Len(t)][1] <= x[1] BY <1>4, <1>5, <2>4, <2>7
  <2>10. ASSUME NEW i \in 1..j
         PROVE  \E k \in DOMAIN t : t[k][1] <= s[i][1] /\ s[i][2] <= t[k][2]
    <3>1. CASE i = j BY <1>1, <1>4, <1>5, <2>2, <2>3, <2>4, <2>7, <3>1
    <3>2. CASE i # j
      <4>1. i \in 1..(j - 1) /\ i \in 1..n BY <1>2, <3>2
      <4>2. PICK k \in DOMAIN m : m[k][1] <= s[i][1] /\ s[i][2] <= m[k][2] BY <4>1 DEF MergedTo
      <4>3. CASE k = l
        <5>1. s[i][2] \in Nat BY <4>1 DEF Spans
        <5> QED BY <2>2, <2>3, <2>4, <2>7, <4>2, <4>3, <5>1
      <4>4. CASE k # l
        <5>1. k \in 1..(l - 1) BY <1>2, <4>4
        <5> QED BY <1>2, <2>7, <4>2, <5>1
      <4> QED BY <4>3, <4>4
    <3> QED BY <3>1, <3>2
  <2> QED BY <1>1, <1>2, <2>7, <2>8, <2>9, <2>10 DEF MergedTo
<1>6. CASE ~(l > 0 /\ x[1] <= m[l][2])
  <2>1. t = Append(m, x) BY <1>1, <1>4, <1>6 DEF AddSpan, Last
  <2>2. /\ t \in Seq(Spans) /\ Len(t) = l + 1 /\ DOMAIN t = 1..(l + 1) /\ t[l + 1] = x
        /\ \A i \in 1..l : t[i] = m[i]
    BY <1>2, <2>1
  <2>3. ASSUME NEW i \in 1..l
        PROVE  m[i][2] < x[1]
    <3>1. l \in 1..l /\ m[l][2] < x[1] BY <1>2, <1>3, <1>6
    <3>2. CASE i = l BY <3>1, <3>2
    <3>3. CASE i # l
      <4>1. i < l BY <1>2, <3>3
      <4>2. m[i][2] < m[l][1] BY <1>2, <3>1, <4>1 DEF MergedTo
      <4> QED BY <1>2, <1>3, <3>1, <4>2
    <3> QED BY <3>2, <3>3
  <2>4. ASSUME NEW i \in DOMAIN t, NEW k \in DOMAIN t, i < k
        PROVE  t[i][2] < t[k][1]
    <3>1. i \in 1..l /\ t[i] = m[i] BY <1>2, <2>2, <2>4
    <3>2. CASE k = l + 1 BY <2>2, <2>3, <3>1, <3>2
    <3>3. CASE k # l + 1
      <4>1. k \in 1..l /\ t[k] = m[k] BY <1>2, <2>2, <3>3
      <4>2. m[i][2] < m[k][1] BY <1>2, <2>4, <3>1, <4>1 DEF MergedTo
      <4> QED BY <3>1, <4>1, <4>2
    <3> QED BY <3>2, <3>3
  <2>5. t # <<>> /\ t[Len(t)][1] <= x[1] BY <1>2, <2>2
  <2>6. ASSUME NEW i \in 1..j
        PROVE  \E k \in DOMAIN t : t[k][1] <= s[i][1] /\ s[i][2] <= t[k][2]
    <3>1. CASE i = j
      <4>1. l + 1 \in DOMAIN t /\ s[i] = x BY <1>1, <1>2, <2>2, <3>1
      <4> QED BY <1>2, <2>2, <4>1
    <3>2. CASE i # j
      <4>1. i \in 1..(j - 1) BY <1>2, <3>2
      <4>2. PICK k \in DOMAIN m : m[k][1] <= s[i][1] /\ s[i][2] <= m[k][2] BY <4>1 DEF MergedTo
      <4>3. k \in DOMAIN t /\ t[k] = m[k] BY <1>2, <2>2, <4>2
      <4> QED BY <4>2, <4>3
    <3> QED BY <3>1, <3>2
  <2> QED BY <1>1, <1>2, <2>2, <2>4, <2>5, <2>6 DEF MergedTo
<1> QED BY <1>1, <1>5, <1>6

\* Merged spans follow one another, and each span is within one of them.
LEMMA MergeIs ==
    ASSUME NEW spans \in SUBSET Spans, IsFiniteSet(spans), NEW m, m = MergeSpans(spans)
    PROVE  /\ m \in Seq(Spans)
           /\ \A i, k \in DOMAIN m : i < k => m[i][2] < m[k][1]
           /\ \A s \in spans : \E k \in DOMAIN m : m[k][1] <= s[1] /\ s[2] <= m[k][2]
           /\ spans # {} => m # <<>>
<1>1. PICK key, w, s, n, f : /\ key = [x \in spans |-> x] /\ w = 2 /\ s = Sorted(spans, key)
                             /\ n = Cardinality(spans) /\ f = [op |-> "span"]
  OBVIOUS
<1>2. Keys(spans, key, w)
  <2>1. \A x \in spans : x = <<x[1], x[2]>> /\ x[1] \in Nat /\ x[2] \in Nat BY DEF Spans
  <2>2. \A x \in spans : key[x] = x BY <1>1
  <2>3. w \in Nat /\ 1 \in 1..w /\ 2 \in 1..w /\ \A i \in 1..w : i = 1 \/ i = 2 BY <1>1
  <2>4. ASSUME NEW x \in spans
        PROVE  DOMAIN key[x] = 1..w /\ \A i \in 1..w : key[x][i] \in Int
    <3>1. PICK a, b : x = <<a, b>> /\ a \in Nat /\ b \in Nat BY <2>1
    <3> QED BY <1>1, <2>2, <2>3, <3>1
  <2>5. ASSUME NEW x \in spans, NEW y \in spans, \A i \in 1..w : key[x][i] = key[y][i]
        PROVE  x = y
    <3>1. x[1] = y[1] /\ x[2] = y[2] BY <2>2, <2>3, <2>5
    <3> QED BY <2>1, <3>1
  <2> QED BY <2>3, <2>4, <2>5 DEF Keys
<1>3. /\ n \in Nat /\ s \in [1..n -> spans] /\ DOMAIN s = 1..n /\ ToSet(s) = spans
      /\ \A i, j \in DOMAIN s : i < j => Less(key[s[i]], key[s[j]])
  BY <1>1, <1>2, SortedIs
<1>4. s \in [1..n -> Spans] BY <1>3
<1>5. ASSUME NEW i \in 1..n, NEW j \in 1..n, i < j
      PROVE  s[i][1] <= s[j][1]
  <2>1. PICK x, y : x = s[i] /\ y = s[j] OBVIOUS
  <2>2. x \in Spans /\ y \in Spans /\ Less(x, y) BY <1>1, <1>3, <1>5, <2>1
  <2>3. x[1] \in Nat /\ y[1] \in Nat /\ DOMAIN x = 1..2 BY <2>2 DEF Spans
  <2>4. PICK h \in 1..2 : x[h] < y[h] /\ \A g \in 1..(h - 1) : x[g] = y[g] BY <2>2, <2>3 DEF Less
  <2>5. h = 1 \/ (h = 2 /\ 1 \in 1..(h - 1)) OBVIOUS
  <2> QED BY <2>1, <2>3, <2>4, <2>5
<1>6. FoldsTo(f, <<>>, s, n, m) BY <1>1, <1>3, SpanFolds
<1>7. PICK run : Runs(f, <<>>, s, n, m, run) BY <1>3, <1>6, FoldRuns
<1> DEFINE good == {j \in Nat : MergedTo(run[j], s, j)}
<1>8. 0 \in good /\ good \in SUBSET Nat
  <2>1. run[0] \in Seq(Spans) /\ DOMAIN run[0] = {} /\ run[0] = <<>> BY <1>7, NothingIs DEF Runs
  <2>2. MergedTo(run[0], s, 0) BY <2>1 DEF MergedTo
  <2> QED BY <2>2
<1>9. ASSUME NEW j \in 1..n, j - 1 \in good
      PROVE  j \in good
  <2>1. MergedTo(run[j - 1], s, j - 1) BY <1>9
  <2>2. j > 1 => s[j - 1][1] <= s[j][1]
    <3>1. j > 1 => j - 1 \in 1..n /\ j - 1 < j BY <1>3
    <3> QED BY <1>5, <3>1
  <2>3. MergedTo(AddSpan(run[j - 1], s[j]), s, j) BY <1>3, <1>4, <2>1, <2>2, SpanStep
  <2>4. run[j] = AddSpan(run[j - 1], s[j]) BY <1>1, <1>7 DEF Runs, Step
  <2> QED BY <2>3, <2>4
<1>10. MergedTo(m, s, n)
  <2>1. n \in 0..n BY <1>3
  <2>2. n \in good
    <3> HIDE DEF good
    <3> QED BY <1>3, <1>8, <1>9, <2>1, UpTo
  <2>3. MergedTo(run[n], s, n) BY <2>2
  <2> QED BY <1>7, <2>3 DEF Runs
<1>11. \A x \in spans : \E i \in 1..n : s[i] = x BY <1>3 DEF ToSet
<1>12. spans # {} => n > 0 BY <1>3, <1>11
<1> QED BY <1>10, <1>11, <1>12 DEF MergedTo

\* The case of an excerpt has the windows it was asked about and the answers.
ExcerptInv ==
    case.is = "excerpt" =>
        /\ IsWindows(case.windows)
        /\ case.chosen = LexicalWindows(case.windows)
        /\ case.lexical = LexicalExcerpt(case.windows)
        /\ case.cjk = CjkWindows(case.windows)

\* Excerpts show nothing twice.
LEMMA ExcerptIsApart ==
    ASSUME ExcerptInv
    PROVE  ExcerptApart
<1> SUFFICES ASSUME case.is = "excerpt"
             PROVE  ExcerptApart
  BY DEF ExcerptApart
<1>1. PICK windows, chosen, spans, lexical, cjk :
        /\ windows = case.windows /\ chosen = case.chosen /\ lexical = case.lexical /\ cjk = case.cjk
        /\ spans = {<<w.from, w.to>> : w \in ToSet(chosen)}
  OBVIOUS
<1>2. /\ IsWindows(windows) /\ chosen = LexicalWindows(windows) /\ cjk = CjkWindows(windows)
      /\ lexical = MergeSpans(spans)
  BY <1>1 DEF ExcerptInv, LexicalExcerpt
<1>3. chosen \in Seq(windows) /\ (windows # {} => chosen # <<>>) BY <1>2, LexicalIs
<1>4. IsFiniteSet(ToSet(chosen)) /\ ToSet(chosen) \subseteq windows BY <1>3, FewElements
<1>5. spans \in SUBSET Spans
  <2>1. ASSUME NEW w \in windows
        PROVE  <<w.from, w.to>> \in Spans
    <3>1. PICK a, b : a = w.from /\ b = w.to OBVIOUS
    <3>2. a \in Nat /\ b \in Nat /\ a <= b BY <1>2, <3>1 DEF IsWindows
    <3>3. <<a, b>> \in Spans BY <3>2 DEF Spans
    <3> QED BY <3>1, <3>3
  <2> QED BY <1>1, <1>4, <2>1
<1>6. IsFiniteSet(spans)
  <2>1. PICK T, f : T = ToSet(chosen) /\ f = [w \in T |-> <<w.from, w.to>>] OBVIOUS
  <2>2. DOMAIN f = T /\ spans = {f[w] : w \in T} BY <1>1, <2>1
  <2> QED BY <1>4, <2>1, <2>2, ImageIsFinite
<1>7. /\ \A i, j \in DOMAIN lexical : i < j => lexical[i][2] < lexical[j][1]
      /\ \A s \in spans : \E k \in DOMAIN lexical : lexical[k][1] <= s[1] /\ s[2] <= lexical[k][2]
      /\ spans # {} => lexical # <<>>
  BY <1>2, <1>5, <1>6, MergeIs
<1>8. ASSUME NEW w \in ToSet(chosen)
      PROVE  \E s \in ToSet(lexical) : s[1] <= w.from /\ w.to <= s[2]
  <2>1. PICK s : s = <<w.from, w.to>> OBVIOUS
  <2>2. s \in spans /\ s[1] = w.from /\ s[2] = w.to BY <1>1, <2>1
  <2>3. PICK k \in DOMAIN lexical : lexical[k][1] <= s[1] /\ s[2] <= lexical[k][2] BY <1>7, <2>2
  <2>4. lexical[k] \in ToSet(lexical) BY DEF ToSet
  <2> QED BY <2>2, <2>3, <2>4
<1>9. /\ cjk \in Seq(windows) /\ (windows # {} => cjk # <<>>)
      /\ \A i, j \in DOMAIN cjk : i < j => Apart(cjk[j], cjk[i])
  BY <1>2, CjkIs
<1>10. ASSUME NEW i \in DOMAIN cjk, NEW j \in DOMAIN cjk, i # j
       PROVE  cjk[i].from..(cjk[i].to - 1) \cap cjk[j].from..(cjk[j].to - 1) = {}
  <2>1. PICK a, b, c, d : a = cjk[i].from /\ b = cjk[i].to /\ c = cjk[j].from /\ d = cjk[j].to
    OBVIOUS
  <2>2. a \in Nat /\ b \in Nat /\ c \in Nat /\ d \in Nat
    <3>1. cjk[i] \in windows /\ cjk[j] \in windows BY <1>9
    <3> QED BY <1>2, <2>1, <3>1 DEF IsWindows
  <2>3. i \in Nat /\ j \in Nat BY <1>9
  <2>4. i < j \/ j < i BY <1>10, <2>3
  <2>5. d <= a \/ b <= c BY <1>9, <2>1, <2>4 DEF Apart
  <2>6. a..(b - 1) \cap c..(d - 1) = {} BY <2>2, <2>5
  <2> QED BY <2>1, <2>6
<1>11. windows # {} => lexical # <<>>
  <2>1. ASSUME windows # {}
        PROVE  spans # {}
    <3>1. chosen # <<>> /\ chosen \in Seq(windows) BY <1>3, <2>1
    <3>2. Len(chosen) \in Nat /\ Len(chosen) # 0 BY <3>1
    <3>3. 1 \in DOMAIN chosen BY <3>1, <3>2
    <3>4. chosen[1] \in ToSet(chosen) BY <3>3 DEF ToSet
    <3> QED BY <1>1, <3>4
  <2> QED BY <1>7, <2>1
<1> QED BY <1>1, <1>7, <1>8, <1>9, <1>10, <1>11 DEF ExcerptApart
-----------------------------------------------------------------------------
(***************************************************************************)
(* Workflow groups.                                                        *)
(***************************************************************************)

\* Memory units, as a report gets them.
IsReported(units) ==
    /\ IsFiniteSet(units)
    /\ \A u \in units : u.id \in Nat /\ IsFiniteSet(u.sources)
    /\ \A u, v \in units : u.id = v.id => u = v

\* A chain of n units of a set, each like the one before it, from one to another.
IsChain(S, n, u, v, chain) ==
    /\ chain \in [1..n -> S] /\ chain[1] = u /\ chain[n] = v
    /\ \A i \in 1..(n - 1) : chain[i] = chain[i + 1] \/ Alike(chain[i], chain[i + 1])
Chained(S, n, u, v) == \E chain : IsChain(S, n, u, v, chain)

\* Groups of the units of a set: apart, closed under likeness, and each linked.
Grouping(G, U) ==
    /\ UNION G = U
    /\ \A g \in G : g # {}
    /\ \A g, h \in G : g # h => g \cap h = {}
    /\ \A g, h \in G : \A a \in g, b \in h : Alike(a, b) => g = h
    /\ \A g \in G : \A a, b \in g : \E n \in 1..Cardinality(g) : Chained(g, n, a, b)

\* Likeness has no direction.
LEMMA AlikeIsSymmetric ==
    ASSUME NEW u, NEW v, Alike(u, v)
    PROVE  Alike(v, u)
<1>1. PICK s, t : s = u.terms /\ t = v.terms OBVIOUS
<1>2. s \cap t = t \cap s /\ {Cardinality(s), Cardinality(t)} = {Cardinality(t), Cardinality(s)}
  OBVIOUS
<1>3. PICK both, low : both = Cardinality(s \cap t) /\ low = Min({Cardinality(s), Cardinality(t)})
  OBVIOUS
<1>4. s # {} /\ t # {} /\ 100 * both >= 35 * low BY <1>1, <1>3 DEF Alike, Overlap
<1>5. both = Cardinality(t \cap s) /\ low = Min({Cardinality(t), Cardinality(s)}) BY <1>2, <1>3
<1> QED BY <1>1, <1>4, <1>5 DEF Alike, Overlap

\* A chain read backwards.
LEMMA ChainReversed ==
    ASSUME NEW S, NEW n \in Nat \ {0}, NEW u, NEW v, Chained(S, n, u, v)
    PROVE  Chained(S, n, v, u)
<1>1. PICK c : IsChain(S, n, u, v, c) BY DEF Chained
<1>2. PICK d : d = [i \in 1..n |-> c[n + 1 - i]] OBVIOUS
<1>3. \A i \in 1..n : n + 1 - i \in 1..n /\ d[i] = c[n + 1 - i] BY <1>2
<1>4. d \in [1..n -> S] BY <1>1, <1>2, <1>3 DEF IsChain
<1>5. d[1] = v /\ d[n] = u
  <2>1. 1 \in 1..n /\ n \in 1..n /\ n + 1 - 1 = n /\ n + 1 - n = 1 OBVIOUS
  <2> QED BY <1>1, <1>3, <2>1 DEF IsChain
<1>6. ASSUME NEW i \in 1..(n - 1)
      PROVE  d[i] = d[i + 1] \/ Alike(d[i], d[i + 1])
  <2>1. PICK k : k = n - i OBVIOUS
  <2>2. k \in 1..(n - 1) /\ n + 1 - i = k + 1 /\ n + 1 - (i + 1) = k /\ i \in 1..n /\ i + 1 \in 1..n
    BY <2>1
  <2>3. d[i] = c[k + 1] /\ d[i + 1] = c[k] BY <1>3, <2>2
  <2>4. c[k] = c[k + 1] \/ Alike(c[k], c[k + 1]) BY <1>1, <2>2 DEF IsChain
  <2> QED BY <2>3, <2>4, AlikeIsSymmetric
<1>7. IsChain(S, n, v, u, d) BY <1>4, <1>5, <1>6 DEF IsChain
<1> QED BY <1>7 DEF Chained

\* Two chains make one.
LEMMA ChainsJoined ==
    ASSUME NEW S, NEW T, NEW U, S \subseteq U, T \subseteq U,
           NEW n \in Nat \ {0}, NEW m \in Nat \ {0}, NEW u, NEW p, NEW q, NEW v,
           Chained(S, n, u, p), Chained(T, m, q, v), Alike(p, q)
    PROVE  Chained(U, n + m, u, v)
<1>1. PICK c, d : IsChain(S, n, u, p, c) /\ IsChain(T, m, q, v, d) BY DEF Chained
<1>2. PICK e : e = [i \in 1..(n + m) |-> IF i <= n THEN c[i] ELSE d[i - n]] OBVIOUS
<1>3. /\ \A i \in 1..n : i \in 1..(n + m) /\ e[i] = c[i]
      /\ \A i \in 1..(n + m) : ~(i <= n) => e[i] = d[i - n] /\ i - n \in 1..m
  BY <1>2
<1>4. e \in [1..(n + m) -> U]
  <2>1. \A i \in 1..(n + m) : i <= n => i \in 1..n OBVIOUS
  <2>2. \A i \in 1..(n + m) : e[i] \in U BY <1>1, <1>3, <2>1 DEF IsChain
  <2> QED BY <1>2, <2>2
<1>5. e[1] = u /\ e[n + m] = v
  <2>1. 1 \in 1..n /\ n + m \in 1..(n + m) /\ ~(n + m <= n) /\ n + m - n = m OBVIOUS
  <2> QED BY <1>1, <1>3, <2>1 DEF IsChain
<1>6. ASSUME NEW i \in 1..(n + m - 1)
      PROVE  e[i] = e[i + 1] \/ Alike(e[i], e[i + 1])
  <2>1. CASE i < n
    <3>1. i \in 1..n /\ i + 1 \in 1..n /\ i \in 1..(n - 1) BY <2>1
    <3>2. e[i] = c[i] /\ e[i + 1] = c[i + 1] BY <1>3, <3>1
    <3>3. c[i] = c[i + 1] \/ Alike(c[i], c[i + 1]) BY <1>1, <3>1 DEF IsChain
    <3> QED BY <3>2, <3>3
  <2>2. CASE i = n
    <3>1. n \in 1..n /\ n + 1 \in 1..(n + m) /\ ~(n + 1 <= n) /\ n + 1 - n = 1 OBVIOUS
    <3>2. e[i] = p /\ e[i + 1] = q BY <1>1, <1>3, <2>2, <3>1 DEF IsChain
    <3> QED BY <3>2
  <2>3. CASE i > n
    <3>1. PICK k : k = i - n OBVIOUS
    <3>2. /\ i \in 1..(n + m) /\ i + 1 \in 1..(n + m) /\ ~(i <= n) /\ ~(i + 1 <= n)
          /\ k \in 1..(m - 1) /\ i + 1 - n = k + 1
      BY <2>3, <3>1
    <3>3. e[i] = d[k] /\ e[i + 1] = d[k + 1] BY <1>3, <3>1, <3>2
    <3>4. d[k] = d[k + 1] \/ Alike(d[k], d[k + 1]) BY <1>1, <3>2 DEF IsChain
    <3> QED BY <3>3, <3>4
  <2> QED BY <2>1, <2>2, <2>3
<1>7. IsChain(U, n + m, u, v, e) BY <1>4, <1>5, <1>6 DEF IsChain
<1> QED BY <1>7 DEF Chained

\* A chain of some units is one of more.
LEMMA ChainOfMore ==
    ASSUME NEW S, NEW T, S \subseteq T, NEW n, NEW u, NEW v, Chained(S, n, u, v)
    PROVE  Chained(T, n, u, v)
BY DEF Chained, IsChain

\* A unit alone.
LEMMA ChainOfOne ==
    ASSUME NEW x
    PROVE  Chained({x}, 1, x, x)
<1>1. PICK c, n : c = [i \in 1..1 |-> x] /\ n = 1 OBVIOUS
<1>2. IsChain({x}, n, x, x, c) BY <1>1 DEF IsChain
<1> QED BY <1>1, <1>2 DEF Chained

\* A unit joins every group that holds a unit like it.
LEMMA JoinedGroups ==
    ASSUME NEW G, NEW U, IsFiniteSet(U), Grouping(G, U), NEW x, x \notin U
    PROVE  Grouping(Joined(G, x), U \cup {x})
<1>1. PICK M, R, N, H : /\ M = {g \in G : \E v \in g : Alike(x, v)} /\ R = G \ M
                        /\ N = {x} \cup UNION M /\ H = Joined(G, x)
  OBVIOUS
<1>2. H = R \cup {N} BY <1>1 DEF Joined
<1>3. \A g \in G : g \subseteq U /\ x \notin g /\ g # {} BY DEF Grouping
<1>4. /\ UNION H = U \cup {x}
      /\ \A g \in H : g # {}
  <2>1. UNION G = U BY DEF Grouping
  <2>2. \A a \in U : \E g \in G : a \in g BY <2>1
  <2>3. \A g \in G : g \in R \/ g \in M BY <1>1
  <2>4. \A a \in U : \E g \in H : a \in g BY <1>1, <1>2, <2>2, <2>3
  <2>5. \A g \in H : g \subseteq U \cup {x} /\ g # {} BY <1>1, <1>2, <1>3
  <2>6. x \in N /\ N \in H BY <1>1, <1>2
  <2> QED BY <2>4, <2>5, <2>6
<1>5. ASSUME NEW g \in R
      PROVE  g \cap N = {}
  <2>1. \A h \in M : g \cap h = {} BY <1>1 DEF Grouping
  <2> QED BY <1>1, <1>3, <2>1
<1>6. \A g, h \in H : g # h => g \cap h = {}
  <2>1. \A g, h \in R : g # h => g \cap h = {} BY <1>1 DEF Grouping
  <2> QED BY <1>2, <1>5, <2>1
<1>7. ASSUME NEW g \in R, NEW a \in g, NEW b \in N
      PROVE  ~Alike(a, b) /\ ~Alike(b, a)
  <2>1. CASE b = x BY <1>1, <2>1, AlikeIsSymmetric
  <2>2. CASE b # x
    <3>1. PICK h \in M : b \in h BY <1>1, <2>2
    <3>2. g # h /\ g \in G /\ h \in G BY <1>1, <3>1
    <3> QED BY <3>1, <3>2, AlikeIsSymmetric DEF Grouping
  <2> QED BY <2>1, <2>2
<1>8. \A g, h \in H : \A a \in g, b \in h : Alike(a, b) => g = h
  <2>1. \A g, h \in R : \A a \in g, b \in h : Alike(a, b) => g = h BY <1>1 DEF Grouping
  <2> QED BY <1>2, <1>7, <2>1
<1>9. IsFiniteSet(N) /\ Cardinality(N) \in Nat /\ N \subseteq U \cup {x}
  <2>1. N \in SUBSET (U \cup {x}) BY <1>1, <1>3
  <2>2. IsFiniteSet(U \cup {x}) BY FS_AddElement
  <2>3. IsFiniteSet(N) BY <2>1, <2>2, FS_Subset
  <2> QED BY <2>1, <2>3, FS_CardinalityType
<1>10. ASSUME NEW g \in M
       PROVE  /\ IsFiniteSet(g) /\ Cardinality(g) \in Nat /\ g \subseteq N /\ x \notin g
              /\ IsFiniteSet(g \cup {x}) /\ Cardinality(g \cup {x}) = Cardinality(g) + 1
  <2>1. g \in SUBSET U /\ x \notin g BY <1>1, <1>3
  <2>2. IsFiniteSet(g) BY <2>1, FS_Subset
  <2> QED BY <1>1, <2>1, <2>2, FS_CardinalityType, FS_AddElement
\* From the unit to any unit of a group it joins.
<1>11. ASSUME NEW g \in M, NEW b \in g
       PROVE  \E n \in 1..(Cardinality(g) + 1) : n > 1 /\ Chained(g \cup {x}, n, x, b)
  <2>1. PICK v \in g : Alike(x, v) BY <1>1
  <2>2. PICK n \in 1..Cardinality(g) : Chained(g, n, v, b) BY <1>1, <2>1 DEF Grouping
  <2>3. Cardinality(g) \in Nat BY <1>10
  <2>4. n \in Nat \ {0} /\ 1 \in Nat \ {0} /\ 1 + n \in 1..(Cardinality(g) + 1) /\ 1 + n > 1
    BY <2>2, <2>3
  <2>5. Chained(g \cup {x}, 1 + n, x, b)
    <3>1. {x} \subseteq g \cup {x} /\ g \subseteq g \cup {x} OBVIOUS
    <3>2. Chained({x}, 1, x, x) BY ChainOfOne
    <3> QED BY <2>1, <2>2, <2>4, <3>1, <3>2, ChainsJoined
  <2> QED BY <2>4, <2>5
<1>12. ASSUME NEW g \in M
       PROVE  g \cup {x} \subseteq N /\ Cardinality(g) + 1 <= Cardinality(N)
  <2>1. PICK T, k, m : T = g \cup {x} /\ k = Cardinality(g) /\ m = Cardinality(N) OBVIOUS
  <2>2. T \in SUBSET N /\ Cardinality(T) = k + 1 BY <1>1, <1>10, <2>1
  <2>3. Cardinality(T) <= m BY <1>9, <2>1, <2>2, FS_Subset
  <2> QED BY <2>1, <2>2, <2>3
<1>13. ASSUME NEW a \in N, NEW b \in N
       PROVE  \E n \in 1..Cardinality(N) : Chained(N, n, a, b)
  <2>1. CASE a = x /\ b = x
    <3>1. Cardinality({x}) = 1 /\ {x} \in SUBSET N BY <1>1, FS_Singleton
    <3>2. 1 <= Cardinality(N) BY <1>9, <3>1, FS_Subset
    <3>3. 1 \in 1..Cardinality(N) BY <1>9, <3>2
    <3>4. Chained(N, 1, x, x) BY <3>1, ChainOfOne, ChainOfMore
    <3> QED BY <2>1, <3>3, <3>4
  <2>2. ASSUME NEW c \in N, c # x
        PROVE  \E n \in 1..Cardinality(N) : Chained(N, n, x, c) /\ Chained(N, n, c, x)
    <3>1. PICK g \in M : c \in g BY <1>1, <2>2
    <3>2. PICK n \in 1..(Cardinality(g) + 1) : Chained(g \cup {x}, n, x, c) BY <1>11, <3>1
    <3>3. n \in 1..Cardinality(N) /\ n \in Nat \ {0} BY <1>9, <1>10, <1>12, <3>2
    <3>4. Chained(N, n, x, c) BY <1>12, <3>2, ChainOfMore
    <3>5. Chained(N, n, c, x) BY <3>3, <3>4, ChainReversed
    <3> QED BY <3>3, <3>4, <3>5
  <2>3. CASE a # x /\ b # x
    <3>1. PICK g \in M, h \in M : a \in g /\ b \in h BY <1>1, <2>3
    <3>2. CASE g = h
      <4>1. PICK n \in 1..Cardinality(g) : Chained(g, n, a, b) BY <1>1, <3>1, <3>2 DEF Grouping
      <4>2. PICK k, m : k = Cardinality(g) /\ m = Cardinality(N) OBVIOUS
      <4>3. k \in Nat /\ m \in Nat /\ k + 1 <= m /\ n \in 1..k BY <1>9, <1>10, <1>12, <4>1, <4>2
      <4>4. n \in 1..m BY <4>3
      <4> QED BY <1>10, <4>1, <4>2, <4>4, ChainOfMore
    <3>3. CASE g # h
      <4>1. PICK w \in g : Alike(x, w) BY <1>1
      <4>2. PICK n \in 1..Cardinality(g) : Chained(g, n, a, w) BY <1>1, <3>1, <4>1 DEF Grouping
      <4>3. PICK m \in 1..(Cardinality(h) + 1) : Chained(h \cup {x}, m, x, b) BY <1>11, <3>1
      <4>4. n \in Nat \ {0} /\ m \in Nat \ {0} BY <1>10, <4>2, <4>3
      <4>5. Chained(N, n + m, a, b)
        <5>1. g \subseteq N /\ h \cup {x} \subseteq N /\ Alike(w, x)
          BY <1>10, <1>12, <4>1, AlikeIsSymmetric
        <5> QED BY <4>2, <4>3, <4>4, <5>1, ChainsJoined
      <4>6. PICK T, k, l, c : /\ T = h \cup {x} /\ k = Cardinality(g) /\ l = Cardinality(h)
                              /\ c = Cardinality(N)
        OBVIOUS
      <4>7. k \in Nat /\ l \in Nat /\ c \in Nat /\ k + (l + 1) <= c
        <5>1. /\ IsFiniteSet(T) /\ Cardinality(T) = l + 1 /\ IsFiniteSet(g)
              /\ k \in Nat /\ l \in Nat /\ c \in Nat
          BY <1>9, <1>10, <4>6
        <5>2. g \cap T = {} BY <1>1, <1>10, <3>3, <4>6 DEF Grouping
        <5>3. Cardinality(g \cap T) = 0 BY <5>2, FS_EmptySet
        <5>4. Cardinality(g \cup T) = Cardinality(g) + Cardinality(T) - Cardinality(g \cap T)
          BY <5>1, FS_Union
        <5>5. Cardinality(g \cup T) = k + (l + 1) - 0 BY <4>6, <5>1, <5>3, <5>4
        <5>6. g \cup T \in SUBSET N BY <1>12, <4>6
        <5>7. Cardinality(g \cup T) <= c BY <1>9, <4>6, <5>6, FS_Subset
        <5>8. k + (l + 1) - 0 <= c BY <5>5, <5>7
        <5> QED BY <5>1, <5>8
      <4>8. n \in 1..k /\ m \in 1..(l + 1) BY <4>2, <4>3, <4>6
      <4>9. n + m \in 1..c BY <4>7, <4>8
      <4> QED BY <4>5, <4>6, <4>9
    <3> QED BY <3>2, <3>3
  <2> QED BY <2>1, <2>2, <2>3
<1>14. \A g \in H : \A a, b \in g : \E n \in 1..Cardinality(g) : Chained(g, n, a, b)
  <2>1. \A g \in R : \A a, b \in g : \E n \in 1..Cardinality(g) : Chained(g, n, a, b)
    BY <1>1 DEF Grouping
  <2>2. \A a, b \in N : \E n \in 1..Cardinality(N) : Chained(N, n, a, b) BY <1>13
  <2>3. \A g \in H : g \in R \/ g = N BY <1>2
  <2> QED BY <2>1, <2>2, <2>3
<1> QED BY <1>1, <1>4, <1>6, <1>8, <1>14 DEF Grouping

\* The units of a report in the order of their ids.
LEMMA ByIdIs ==
    ASSUME NEW units, IsReported(units)
    PROVE  /\ Cardinality(units) \in Nat
           /\ ById(units) \in [1..Cardinality(units) -> units]
           /\ ById(units) \in Seq(units) /\ ToSet(ById(units)) = units /\ Once(ById(units))
<1>1. PICK key, m, s : key = [u \in units |-> <<u.id>>] /\ m = 1 /\ s = ById(units) OBVIOUS
<1>2. ASSUME NEW u \in units
      PROVE  DOMAIN key[u] = 1..m /\ key[u][1] = u.id /\ \A i \in 1..m : key[u][i] \in Int
  <2>1. key[u] = <<u.id>> /\ u.id \in Nat BY <1>1 DEF IsReported
  <2>2. \A i \in 1..m : i = 1 BY <1>1
  <2> QED BY <1>1, <2>1, <2>2
<1>3. Keys(units, key, m)
  <2>1. m \in Nat /\ 1 \in 1..m BY <1>1
  <2>2. \A u, v \in units : u.id = v.id => u = v BY DEF IsReported
  <2> QED BY <1>2, <2>1, <2>2 DEF Keys
<1>4. IsFiniteSet(units) /\ s = Sorted(units, key) BY <1>1 DEF IsReported, ById
<1> QED BY <1>1, <1>3, <1>4, SortedIs

\* Groups are built one unit at a time.
LEMMA GroupsAreGrouping ==
    ASSUME NEW units, IsReported(units)
    PROVE  Grouping(GroupUnits(units), units)
<1>1. PICK s, n, f, G : /\ s = ById(units) /\ n = Cardinality(units) /\ f = [op |-> "joined"]
                        /\ G = GroupUnits(units)
  OBVIOUS
<1>2. n \in Nat /\ s \in [1..n -> units] /\ DOMAIN s = 1..n /\ ToSet(s) = units /\ Once(s)
  BY <1>1, ByIdIs
<1>3. FoldsTo(f, {}, s, n, G) BY <1>1, <1>2, GroupFolds
<1>4. PICK run : Runs(f, {}, s, n, G, run) BY <1>2, <1>3, FoldRuns
<1> DEFINE good == {j \in Nat : Grouping(run[j], {s[i] : i \in 1..j})}
<1>5. 0 \in good /\ good \in SUBSET Nat
  <2>1. PICK e, o : e = run[0] /\ o = {s[i] : i \in 1..0} OBVIOUS
  <2>2. e = {} /\ o = {} BY <1>4, <2>1 DEF Runs
  <2>3. Grouping(e, o) BY <2>2 DEF Grouping
  <2> QED BY <2>1, <2>3
<1>6. ASSUME NEW j \in 1..n, j - 1 \in good
      PROVE  j \in good
  <2>1. PICK b, x, U, V : b = run[j - 1] /\ x = s[j] /\ U = {s[i] : i \in 1..(j - 1)} /\ V = {s[i] : i \in 1..j}
    OBVIOUS
  <2>2. Grouping(b, U) BY <1>6, <2>1
  <2>3. \A i \in 1..(j - 1) : i \in 1..n /\ i # j /\ i \in 1..j BY <1>2
  <2>4. x \notin U BY <1>2, <2>1, <2>3 DEF Once
  <2>5. IsFiniteSet(U)
    <3>1. U \in SUBSET units BY <1>2, <2>1, <2>3
    <3>2. IsFiniteSet(units) BY DEF IsReported
    <3> QED BY <3>1, <3>2, FS_Subset
  <2>6. V = U \cup {x}
    <3>1. \A i \in 1..j : i \in 1..(j - 1) \/ i = j BY <1>2
    <3>2. j \in 1..j BY <1>2
    <3> QED BY <2>1, <2>3, <3>1, <3>2
  <2>7. run[j] = Joined(b, x) BY <1>1, <1>4, <2>1 DEF Runs, Step
  <2>8. Grouping(run[j], V) BY <2>2, <2>4, <2>5, <2>6, <2>7, JoinedGroups
  <2>9. j \in Nat BY <1>2
  <2> QED BY <2>1, <2>8, <2>9
<1>7. n \in good
  <2>1. n \in 0..n BY <1>2
  <2> HIDE DEF good
  <2> QED BY <1>2, <1>5, <1>6, <2>1, UpTo
<1>8. {s[i] : i \in 1..n} = units BY <1>2 DEF ToSet
<1>9. run[n] = G BY <1>4 DEF Runs
<1>10. Grouping(run[n], {s[i] : i \in 1..n}) BY <1>7
<1> QED BY <1>1, <1>8, <1>9, <1>10

\* A chain of units stays in its group.
LEMMA ChainStays ==
    ASSUME NEW G, NEW U, Grouping(G, U), NEW g \in G, NEW u \in g, NEW v,
           NEW n \in Nat \ {0}, Chained(U, n, u, v)
    PROVE  v \in g
<1>1. PICK c : IsChain(U, n, u, v, c) BY DEF Chained
<1>2. PICK k : k = n - 1 OBVIOUS
<1>3. k \in Nat /\ n = k + 1 BY <1>2
<1> DEFINE good == {j \in Nat : c[j + 1] \in g}
<1>4. 0 \in good /\ good \in SUBSET Nat BY <1>1 DEF IsChain
<1>5. ASSUME NEW j \in 1..k, j - 1 \in good
      PROVE  j \in good
  <2>1. j \in 1..(n - 1) /\ j + 1 \in 1..n /\ j - 1 + 1 = j /\ j \in Nat BY <1>3
  <2>2. c[j] \in g BY <1>5, <2>1
  <2>3. c[j] = c[j + 1] \/ Alike(c[j], c[j + 1]) BY <1>1, <2>1 DEF IsChain
  <2>4. c[j + 1] \in U BY <1>1, <2>1 DEF IsChain
  <2>5. PICK h \in G : c[j + 1] \in h BY <2>4 DEF Grouping
  <2>6. c[j + 1] \in g BY <2>2, <2>3, <2>5 DEF Grouping
  <2> QED BY <2>1, <2>6
<1>6. k \in good
  <2>1. k \in 0..k BY <1>3
  <2> HIDE DEF good
  <2> QED BY <1>3, <1>4, <1>5, <2>1, UpTo
<1>7. c[n] \in g BY <1>3, <1>6
<1> QED BY <1>1, <1>7 DEF IsChain

\* The groups are the classes of the units linked by chains.
LEMMA GroupingIsClasses ==
    ASSUME NEW G, NEW U, IsFiniteSet(U), Grouping(G, U)
    PROVE  G = Classes(U)
<1>1. ASSUME NEW u \in U, NEW v \in U
      PROVE  Linked(U, u, v) <=> \E n \in 1..Cardinality(U) : Chained(U, n, u, v)
  BY DEF Linked, Chained, IsChain
<1>2. Cardinality(U) \in Nat BY FS_CardinalityType
<1>3. ASSUME NEW g \in G, NEW u \in g
      PROVE  u \in U /\ g = {v \in U : Linked(U, u, v)}
  <2>1. g \in SUBSET U /\ u \in U BY <1>3 DEF Grouping
  <2>2. PICK k, m : k = Cardinality(g) /\ m = Cardinality(U) OBVIOUS
  <2>3. IsFiniteSet(g) /\ k \in Nat /\ m \in Nat /\ k <= m
    BY <1>2, <2>1, <2>2, FS_Subset, FS_CardinalityType
  <2>4. ASSUME NEW v \in g
        PROVE  Linked(U, u, v)
    <3>1. PICK n \in 1..k : Chained(g, n, u, v) BY <2>2, <2>4 DEF Grouping
    <3>2. n \in 1..m /\ Chained(U, n, u, v) BY <2>1, <2>3, <3>1, ChainOfMore
    <3> QED BY <1>1, <2>1, <2>2, <3>2
  <2>5. ASSUME NEW v \in U, Linked(U, u, v)
        PROVE  v \in g
    <3>1. PICK n \in 1..m : Chained(U, n, u, v) BY <1>1, <2>1, <2>2, <2>5
    <3>2. n \in Nat \ {0} BY <2>3
    <3> QED BY <3>1, <3>2, ChainStays
  <2> QED BY <2>1, <2>4, <2>5
<1>4. G \subseteq Classes(U)
  <2>1. \A g \in G : \E u \in g : TRUE BY DEF Grouping
  <2> QED BY <1>3, <2>1 DEF Classes
<1>5. Classes(U) \subseteq G
  <2>1. \A u \in U : \E g \in G : u \in g BY DEF Grouping
  <2> QED BY <1>3, <2>1 DEF Classes
<1> QED BY <1>4, <1>5

\* The case of a report has the units it was asked about and the plan.
DistillInv ==
    case.is = "distill" => IsReported(case.units) /\ case.plan = DistillPlan(case.units, Assets)

\* A group has enough evidence.
Worthy(g) == IndependentSessions(g) >= 2 \/ \E u \in g : u.confirmed

\* What a report says of a group.
LEMMA CandidateIs ==
    ASSUME NEW U, IsReported(U), NEW g \in SUBSET U, g # {}, NEW c, c = Candidate(g, Assets)
    PROVE  /\ c.sessions \in Nat /\ c.members \in Seq(U) /\ ToSet(c.members) = g
           /\ Len(c.members) \in Nat /\ 1 \in DOMAIN c.members
           /\ c.members[1] \in g
<1>1. IsReported(g)
  <2>1. IsFiniteSet(g) BY FS_Subset DEF IsReported
  <2> QED BY <2>1 DEF IsReported
<1>2. PICK s, k : s = ById(g) /\ k = Cardinality(g) OBVIOUS
<1>3. k \in Nat /\ s \in [1..k -> g] /\ ToSet(s) = g BY <1>1, <1>2, ByIdIs
<1>4. c.members = s /\ c.sessions = IndependentSessions(g) BY <1>2 DEF Candidate
<1>5. k > 0 BY <1>3 DEF ToSet
<1>6. s \in Seq(U) /\ Len(s) = k /\ DOMAIN s = 1..k /\ 1 \in 1..k /\ s[1] \in g BY <1>3, <1>5
<1>7. IndependentSessions(g) \in Nat
  <2>1. PICK f, T : f = [u \in g |-> u.sources] /\ T = {f[u] : u \in g} OBVIOUS
  <2>2. IsFiniteSet(T) BY <1>1, <2>1, ImageIsFinite DEF IsReported
  <2>3. \A x \in T : IsFiniteSet(x) BY <1>1, <2>1 DEF IsReported
  <2>4. T = {u.sources : u \in g} BY <2>1
  <2>5. IsFiniteSet(UNION T) BY <2>2, <2>3, FS_UNION
  <2>6. Cardinality(UNION T) \in Nat BY <2>5, FS_CardinalityType
  <2> QED BY <2>4, <2>6 DEF IndependentSessions
<1> QED BY <1>3, <1>4, <1>6, <1>7

\* Reports show the classes of alike units that have evidence.
LEMMA GroupsAreTheClasses ==
    ASSUME DistillInv
    PROVE  GroupsAreClasses
<1> SUFFICES ASSUME case.is = "distill"
             PROVE  GroupsAreClasses
  BY DEF GroupsAreClasses
<1>1. PICK units, U, G, R : /\ units = case.units /\ U = EligibleUnits(units) /\ G = GroupUnits(U)
                            /\ R = {g \in G : Worthy(g)}
  OBVIOUS
<1>2. IsReported(units) /\ U \in SUBSET units BY <1>1 DEF DistillInv, EligibleUnits
<1>3. IsReported(U)
  <2>1. IsFiniteSet(U) BY <1>2, FS_Subset DEF IsReported
  <2> QED BY <1>2, <2>1 DEF IsReported
<1>4. Grouping(G, U) /\ IsFiniteSet(U) BY <1>1, <1>3, GroupsAreGrouping DEF IsReported
<1>5. G = Classes(U) BY <1>4, GroupingIsClasses
<1>6. IsFiniteSet(R) /\ R \in SUBSET G
  <2>1. R \in SUBSET (SUBSET U) /\ R \in SUBSET G BY <1>1, <1>4 DEF Grouping
  <2>2. IsFiniteSet(SUBSET U) BY <1>4, FS_SUBSET
  <2> QED BY <2>1, <2>2, FS_Subset
<1>7. PICK K, f, key, plan, m :
        /\ f = [g \in R |-> Candidate(g, Assets)] /\ K = {f[g] : g \in R} /\ m = 3
        /\ key = [c \in K |-> <<-c.sessions, -Len(c.members), c.members[1].id>>]
        /\ plan = case.plan
  OBVIOUS
<1>8. K = {Candidate(g, Assets) : g \in R} /\ IsFiniteSet(K) BY <1>6, <1>7, ImageIsFinite
<1>9. plan = Sorted(K, key)
  <2>1. R = {g \in GroupUnits(EligibleUnits(units)) : IndependentSessions(g) >= 2 \/ \E u \in g : u.confirmed}
    BY <1>1 DEF Worthy
  <2>2. plan = DistillPlan(units, Assets) BY <1>1, <1>7 DEF DistillInv
  <2> QED BY <1>7, <1>8, <2>1, <2>2 DEF DistillPlan
<1>10. ASSUME NEW g \in R, NEW c, c = Candidate(g, Assets)
       PROVE  /\ c.sessions \in Nat /\ Len(c.members) \in Nat /\ ToSet(c.members) = g
              /\ c.members[1] \in g /\ g \in SUBSET U /\ c.members[1].id \in Nat
  <2>1. g \in SUBSET U /\ g # {} BY <1>4, <1>6 DEF Grouping
  <2>2. /\ c.sessions \in Nat /\ Len(c.members) \in Nat /\ ToSet(c.members) = g
        /\ c.members[1] \in g
    BY <1>3, <1>10, <2>1, CandidateIs
  <2> QED BY <1>3, <2>1, <2>2 DEF IsReported
<1>11. ASSUME NEW c \in K
       PROVE  /\ DOMAIN key[c] = 1..m /\ \A i \in 1..m : key[c][i] \in Int
              /\ key[c][1] = -c.sessions /\ key[c][3] = c.members[1].id /\ c.sessions \in Nat
  <2>1. PICK g \in R : c = Candidate(g, Assets) BY <1>8
  <2>2. PICK a, b, d : a = c.sessions /\ b = Len(c.members) /\ d = c.members[1].id OBVIOUS
  <2>3. a \in Nat /\ b \in Nat /\ d \in Nat BY <1>10, <2>1, <2>2
  <2>4. key[c] = <<-a, -b, d>> /\ -a \in Int /\ -b \in Int BY <1>7, <2>2, <2>3
  <2>5. \A i \in 1..m : i = 1 \/ i = 2 \/ i = 3 BY <1>7
  <2> QED BY <1>7, <2>2, <2>3, <2>4, <2>5
<1>12. Keys(K, key, m)
  <2>1. m \in Nat /\ 3 \in 1..m BY <1>7
  <2>2. ASSUME NEW c \in K, NEW d \in K, c.members[1].id = d.members[1].id
        PROVE  c = d
    <3>1. PICK g \in R, h \in R : c = Candidate(g, Assets) /\ d = Candidate(h, Assets) BY <1>8
    <3>2. c.members[1] \in g /\ d.members[1] \in h /\ g \subseteq U /\ h \subseteq U
      BY <1>10, <3>1
    <3>3. c.members[1] = d.members[1] BY <1>3, <2>2, <3>2 DEF IsReported
    <3>4. g = h BY <1>4, <1>6, <3>2, <3>3 DEF Grouping
    <3> QED BY <3>1, <3>4
  <2> QED BY <1>11, <2>1, <2>2 DEF Keys
<1>13. /\ ToSet(plan) = K /\ plan \in Seq(K)
       /\ \A i, j \in DOMAIN plan : i < j => Less(key[plan[i]], key[plan[j]])
  BY <1>8, <1>9, <1>12, SortedIs
<1>14. {ToSet(c.members) : c \in ToSet(plan)} = R BY <1>8, <1>10, <1>13
<1>15. ASSUME NEW i \in DOMAIN plan, NEW j \in DOMAIN plan, i < j
       PROVE  plan[i].sessions >= plan[j].sessions
  <2>1. PICK c, d, a, b : c = plan[i] /\ d = plan[j] /\ a = c.sessions /\ b = d.sessions OBVIOUS
  <2>2. c \in K /\ d \in K /\ Less(key[c], key[d]) BY <1>13, <1>15, <2>1
  <2>3. a \in Nat /\ b \in Nat /\ key[c][1] = -a /\ key[d][1] = -b /\ DOMAIN key[c] = 1..m
    BY <1>11, <2>1, <2>2
  <2>4. PICK h \in 1..m : key[c][h] < key[d][h] /\ \A g \in 1..(h - 1) : key[c][g] = key[d][g]
    BY <2>2, <2>3 DEF Less
  <2>5. h = 1 \/ 1 \in 1..(h - 1) BY <1>7
  <2>6. -a < -b \/ -a = -b BY <2>3, <2>4, <2>5
  <2> QED BY <2>1, <2>3, <2>6
<1>16. R = {g \in Classes(U) : Cardinality(UNION {u.sources : u \in g}) >= 2 \/ \E u \in g : u.confirmed}
  BY <1>1, <1>5 DEF Worthy, IndependentSessions
<1> QED BY <1>1, <1>7, <1>14, <1>15, <1>16 DEF GroupsAreClasses
-----------------------------------------------------------------------------
(***************************************************************************)
(* What Only keeps of a sequence.                                          *)
(***************************************************************************)

\* kept has the elements of the first n of s that are in S, each at the place at[i].
KeptOf(s, S, n, kept, at) ==
    /\ at \in [1..Len(kept) -> 1..n]
    /\ \A i, j \in 1..Len(kept) : i < j => at[i] < at[j]
    /\ \A i \in 1..Len(kept) : kept[i] = s[at[i]] /\ s[at[i]] \in S
    /\ \A k \in 1..n : s[k] \in S => \E i \in 1..Len(kept) : at[i] = k

\* One element more.
LEMMA KeptStep ==
    ASSUME NEW C, NEW s \in Seq(C), NEW S, NEW j \in 1..Len(s), NEW kept \in Seq(C), NEW at,
           KeptOf(s, S, j - 1, kept, at)
    PROVE  \E more : KeptOf(s, S, j, AppendIf(kept, s[j], s[j] \in S), more)
<1>1. PICK x, t, l : x = s[j] /\ t = AppendIf(kept, x, x \in S) /\ l = Len(kept) OBVIOUS
<1>2. x \in C /\ l \in Nat /\ j \in Nat /\ DOMAIN kept = 1..l BY <1>1
<1>3. CASE x \notin S
  <2>1. t = kept BY <1>1, <1>3 DEF AppendIf
  <2>2. \A k \in 1..(j - 1) : k \in 1..j BY <1>2
  <2>3. \A k \in 1..j : k \in 1..(j - 1) \/ k = j BY <1>2
  <2>4. at \in [1..l -> 1..j] BY <1>1, <2>2 DEF KeptOf
  <2>5. \A k \in 1..j : s[k] \in S => \E i \in 1..l : at[i] = k BY <1>1, <1>3, <2>3 DEF KeptOf
  <2>6. /\ \A a, b \in 1..l : a < b => at[a] < at[b]
        /\ \A a \in 1..l : kept[a] = s[at[a]] /\ s[at[a]] \in S
    BY <1>1 DEF KeptOf
  <2>7. KeptOf(s, S, j, t, at) BY <1>1, <2>1, <2>4, <2>5, <2>6 DEF KeptOf
  <2> QED BY <1>1, <2>7
<1>4. CASE x \in S
  <2>1. t = Append(kept, x) BY <1>1, <1>4 DEF AppendIf
  <2>2. Len(t) = l + 1 /\ t[l + 1] = x /\ \A i \in 1..l : t[i] = kept[i] BY <1>1, <1>2, <2>1
  <2>3. PICK more : more = [i \in 1..(l + 1) |-> IF i = l + 1 THEN j ELSE at[i]] OBVIOUS
  <2>4. /\ more[l + 1] = j /\ \A i \in 1..l : more[i] = at[i] /\ at[i] \in 1..(j - 1)
        /\ \A i \in 1..(l + 1) : i \in 1..l \/ i = l + 1
        /\ \A i \in 1..l : i \in 1..(l + 1)
    BY <1>1, <1>2, <2>3 DEF KeptOf
  <2>5. more \in [1..(l + 1) -> 1..j]
    <3>1. \A i \in 1..(l + 1) : more[i] \in 1..j BY SMTT(30), <1>2, <2>4
    <3> QED BY <2>3, <3>1
  <2>6. ASSUME NEW a \in 1..(l + 1), NEW b \in 1..(l + 1), a < b
        PROVE  more[a] < more[b]
    <3>1. a \in 1..l BY <1>2, <2>6
    <3>2. CASE b = l + 1 BY <1>2, <2>4, <3>1, <3>2
    <3>3. CASE b # l + 1 BY <1>1, <2>4, <2>6, <3>1, <3>3 DEF KeptOf
    <3> QED BY <3>2, <3>3
  <2>7. \A i \in 1..(l + 1) : t[i] = s[more[i]] /\ s[more[i]] \in S
    BY SMTT(30), <1>1, <1>4, <2>2, <2>4 DEF KeptOf
  <2>8. ASSUME NEW k \in 1..j, s[k] \in S
        PROVE  \E i \in 1..(l + 1) : more[i] = k
    <3>1. CASE k = j
      <4>1. l + 1 \in 1..(l + 1) BY <1>2
      <4> QED BY <2>4, <3>1, <4>1
    <3>2. CASE k # j
      <4>1. k \in 1..(j - 1) BY <1>2, <3>2
      <4>2. PICK i \in 1..l : at[i] = k BY <1>1, <2>8, <4>1 DEF KeptOf
      <4> QED BY <2>4, <4>2
    <3> QED BY <3>1, <3>2
  <2>9. KeptOf(s, S, j, t, more) BY <2>2, <2>5, <2>6, <2>7, <2>8 DEF KeptOf
  <2> QED BY <1>1, <2>9
<1> QED BY <1>3, <1>4

\* Only keeps the elements in a set, in their order.
LEMMA OnlyKeeps ==
    ASSUME NEW C, NEW s \in Seq(C), NEW S
    PROVE  Only(s, S) \in Seq(C) /\ \E at : KeptOf(s, S, Len(s), Only(s, S), at)
<1>1. PICK n, f, out : n = Len(s) /\ f = [op |-> "only", set |-> S] /\ out = Only(s, S) OBVIOUS
<1>2. n \in Nat /\ DOMAIN s = 1..n BY <1>1
<1>3. FoldsTo(f, <<>>, s, n, out) BY <1>1, <1>2, OnlyFolds
<1>4. PICK run : Runs(f, <<>>, s, n, out, run) BY <1>2, <1>3, FoldRuns
<1> DEFINE good == {j \in Nat : run[j] \in Seq(C) /\ \E at : KeptOf(s, S, j, run[j], at)}
<1>5. 0 \in good /\ good \in SUBSET Nat
  <2>1. PICK e : e = run[0] OBVIOUS
  <2>2. e \in Seq(C) /\ Len(e) = 0 BY <1>4, <2>1, NothingIs DEF Runs
  <2>3. KeptOf(s, S, 0, e, [i \in 1..0 |-> i]) BY <2>2 DEF KeptOf
  <2> QED BY <2>1, <2>2, <2>3
<1>6. ASSUME NEW j \in 1..n, j - 1 \in good
      PROVE  j \in good
  <2>1. PICK at : run[j - 1] \in Seq(C) /\ KeptOf(s, S, j - 1, run[j - 1], at) BY <1>6
  <2>2. run[j] = AppendIf(run[j - 1], s[j], s[j] \in S) BY <1>1, <1>4 DEF Runs, Step
  <2>3. \E more : KeptOf(s, S, j, run[j], more) BY <1>1, <2>1, <2>2, KeptStep
  <2>4. s[j] \in C /\ j \in Nat BY <1>1, <1>2
  <2>5. run[j] \in Seq(C) BY <2>1, <2>2, <2>4 DEF AppendIf
  <2> QED BY <2>3, <2>4, <2>5
<1>7. n \in good
  <2>1. n \in 0..n BY <1>2
  <2> HIDE DEF good
  <2> QED BY <1>2, <1>5, <1>6, <2>1, UpTo
<1>8. run[n] = out BY <1>4 DEF Runs
<1> QED BY <1>1, <1>7, <1>8

\* What Only keeps, as a set.
LEMMA OnlyIs ==
    ASSUME NEW C, NEW s \in Seq(C), NEW S
    PROVE  /\ Only(s, S) \in Seq(C)
           /\ ToSet(Only(s, S)) = ToSet(s) \cap S
           /\ Once(s) => Once(Only(s, S))
<1>1. PICK t, n, l : t = Only(s, S) /\ n = Len(s) /\ l = Len(t) OBVIOUS
<1>2. PICK at : t \in Seq(C) /\ KeptOf(s, S, n, t, at) BY <1>1, OnlyKeeps
<1>3. n \in Nat /\ l \in Nat /\ DOMAIN s = 1..n /\ DOMAIN t = 1..l BY <1>1, <1>2
<1>4. ToSet(t) \subseteq ToSet(s) \cap S BY <1>1, <1>2, <1>3 DEF KeptOf, ToSet
<1>5. ToSet(s) \cap S \subseteq ToSet(t)
  <2>1. ASSUME NEW x \in ToSet(s), x \in S
        PROVE  x \in ToSet(t)
    <3>1. PICK k \in 1..n : s[k] = x BY <1>3 DEF ToSet
    <3>2. PICK i \in 1..l : at[i] = k BY <1>1, <1>2, <2>1, <3>1 DEF KeptOf
    <3>3. t[i] = x BY <1>1, <1>2, <3>1, <3>2 DEF KeptOf
    <3> QED BY <1>3, <3>3 DEF ToSet
  <2> QED BY <2>1
<1>6. ASSUME Once(s)
      PROVE  Once(t)
  <2>1. ASSUME NEW i \in 1..l, NEW j \in 1..l, i # j
        PROVE  t[i] # t[j]
    <3>1. i < j \/ j < i BY <1>3, <2>1
    <3>2. at[i] \in 1..n /\ at[j] \in 1..n /\ (at[i] < at[j] \/ at[j] < at[i])
      BY <1>1, <1>2, <3>1 DEF KeptOf
    <3>3. at[i] # at[j] BY <1>3, <3>2
    <3>4. t[i] = s[at[i]] /\ t[j] = s[at[j]] BY <1>1, <1>2 DEF KeptOf
    <3> QED BY <1>3, <1>6, <3>2, <3>3, <3>4 DEF Once
  <2> QED BY <1>3, <2>1 DEF Once
<1> QED BY <1>1, <1>2, <1>4, <1>5, <1>6

\* Everything is kept when everything is in the set.
LEMMA OnlyAll ==
    ASSUME NEW C, NEW s \in Seq(C), NEW S, ToSet(s) \subseteq S
    PROVE  Only(s, S) = s
<1>1. PICK n, f, out : n = Len(s) /\ f = [op |-> "only", set |-> S] /\ out = Only(s, S) OBVIOUS
<1>2. n \in Nat /\ DOMAIN s = 1..n /\ s \in [1..n -> C] BY <1>1
<1>3. FoldsTo(f, <<>>, s, n, out) BY <1>1, <1>2, OnlyFolds
<1>4. PICK run : Runs(f, <<>>, s, n, out, run) BY <1>2, <1>3, FoldRuns
<1> DEFINE good == {j \in Nat : run[j] \in Seq(C) /\ Len(run[j]) = j /\ \A i \in 1..j : run[j][i] = s[i]}
<1>5. 0 \in good /\ good \in SUBSET Nat
  <2>1. run[0] \in Seq(C) /\ Len(run[0]) = 0 BY <1>4, NothingIs DEF Runs
  <2> QED BY <2>1
<1>6. ASSUME NEW j \in 1..n, j - 1 \in good
      PROVE  j \in good
  <2>1. PICK b, t, x : b = run[j - 1] /\ t = run[j] /\ x = s[j] OBVIOUS
  <2>2. /\ b \in Seq(C) /\ Len(b) = j - 1 /\ j \in Nat /\ x \in C /\ x \in S
        /\ \A i \in 1..(j - 1) : b[i] = s[i]
    BY <1>2, <1>6, <2>1 DEF ToSet
  <2>3. t = AppendIf(b, x, x \in S) BY <1>1, <1>4, <2>1 DEF Runs, Step
  <2>4. t = Append(b, x) BY <2>2, <2>3 DEF AppendIf
  <2>5. t \in Seq(C) /\ Len(t) = j /\ t[j] = x /\ \A i \in 1..(j - 1) : t[i] = s[i] BY <2>2, <2>4
  <2>6. \A i \in 1..j : i \in 1..(j - 1) \/ i = j BY <2>2
  <2> QED BY <2>1, <2>2, <2>5, <2>6
<1>7. n \in good
  <2>1. n \in 0..n BY <1>2
  <2> HIDE DEF good
  <2> QED BY <1>2, <1>5, <1>6, <2>1, UpTo
<1>8. run[n] = out BY <1>4 DEF Runs
<1>9. out \in Seq(C) /\ Len(out) = n /\ \A i \in 1..n : out[i] = s[i] BY <1>7, <1>8
<1>10. out \in [1..n -> C] BY <1>9
<1>11. out = s BY <1>2, <1>9, <1>10
<1> QED BY <1>1, <1>11

\* Distinct has each element once.
LEMMA DistinctIs ==
    ASSUME NEW C, NEW s \in Seq(C)
    PROVE  Distinct(s) \in Seq(C) /\ ToSet(Distinct(s)) = ToSet(s) /\ Once(Distinct(s))
<1>1. PICK n, f, out : n = Len(s) /\ f = [op |-> "distinct"] /\ out = Distinct(s) OBVIOUS
<1>2. n \in Nat /\ DOMAIN s = 1..n BY <1>1
<1>3. FoldsTo(f, <<>>, s, n, out) BY <1>1, <1>2, DistinctFolds
<1>4. PICK run : Runs(f, <<>>, s, n, out, run) BY <1>2, <1>3, FoldRuns
<1> DEFINE good == {j \in Nat : run[j] \in Seq(C) /\ Once(run[j]) /\ ToSet(run[j]) = {s[i] : i \in 1..j}}
<1>5. 0 \in good /\ good \in SUBSET Nat
  <2>1. run[0] \in Seq(C) /\ Once(run[0]) /\ ToSet(run[0]) = {} BY <1>4, NothingIs DEF Runs
  <2>2. {s[i] : i \in 1..0} = {} OBVIOUS
  <2> QED BY <2>1, <2>2
<1>6. ASSUME NEW j \in 1..n, j - 1 \in good
      PROVE  j \in good
  <2>1. PICK b, t, x : b = run[j - 1] /\ t = run[j] /\ x = s[j] OBVIOUS
  <2>2. b \in Seq(C) /\ Once(b) /\ ToSet(b) = {s[i] : i \in 1..(j - 1)} /\ j \in Nat /\ x \in C
    BY <1>2, <1>6, <2>1
  <2>3. t = AppendIf(b, x, x \notin ToSet(b)) BY <1>1, <1>4, <2>1 DEF Runs, Step
  <2>4. t \in Seq(C) /\ Once(t) /\ ToSet(t) = ToSet(b) \cup {x}
    <3>1. CASE x \in ToSet(b) BY <2>2, <2>3, <3>1 DEF AppendIf
    <3>2. CASE x \notin ToSet(b)
      <4>1. t = Append(b, x) BY <2>3, <3>2 DEF AppendIf
      <4> QED BY <2>2, <3>2, <4>1, AppendSet, AppendApart
    <3> QED BY <3>1, <3>2
  <2>5. {s[i] : i \in 1..j} = {s[i] : i \in 1..(j - 1)} \cup {x}
    <3>1. \A i \in 1..j : i \in 1..(j - 1) \/ i = j BY <2>2
    <3>2. j \in 1..j /\ \A i \in 1..(j - 1) : i \in 1..j BY <2>2
    <3> QED BY <2>1, <3>1, <3>2
  <2> QED BY <2>1, <2>2, <2>4, <2>5
<1>7. n \in good
  <2>1. n \in 0..n BY <1>2
  <2> HIDE DEF good
  <2> QED BY <1>2, <1>5, <1>6, <2>1, UpTo
<1>8. run[n] = out BY <1>4 DEF Runs
<1>9. out \in Seq(C) /\ Once(out) /\ ToSet(out) = {s[i] : i \in 1..n} BY <1>7, <1>8
<1>10. {s[i] : i \in 1..n} = ToSet(s) BY <1>2 DEF ToSet
<1> QED BY <1>1, <1>9, <1>10
-----------------------------------------------------------------------------
(***************************************************************************)
(* The embedding cache.                                                    *)
(***************************************************************************)

\* c has texts of T once, those used last at its end, and none left out was used later.
Latest(C, c, T) ==
    /\ c \in Seq(C) /\ T \in Seq(C) /\ Once(c) /\ ToSet(c) \subseteq ToSet(T)
    /\ \A i, j \in DOMAIN c : i < j => UsedAfter(T, c[i], c[j])
    /\ \A t \in ToSet(T) \ ToSet(c) : \A i \in DOMAIN c : UsedAfter(T, t, c[i])

\* As many as fit.
Recent(C, c, T, size) ==
    Latest(C, c, T) /\ Len(c) <= size /\ (Len(c) < size => ToSet(T) \subseteq ToSet(c))

\* A use of another text changes nothing between two.
LEMMA UsedStill ==
    ASSUME NEW C, NEW T \in Seq(C), NEW t \in C, NEW x, x # t, NEW y, UsedAfter(T, x, y)
    PROVE  UsedAfter(Append(T, t), x, y)
<1>1. PICK U, n : U = Append(T, t) /\ n = Len(T) OBVIOUS
<1>2. /\ n \in Nat /\ DOMAIN T = 1..n /\ DOMAIN U = 1..(n + 1) /\ Len(U) = n + 1
      /\ U[n + 1] = t /\ \A i \in 1..n : U[i] = T[i]
  BY <1>1
<1>3. PICK j \in 1..n : T[j] = y /\ \A i \in j..n : T[i] # x BY <1>1, <1>2 DEF UsedAfter
<1>4. \A i \in j..(n + 1) : i = n + 1 \/ (i \in j..n /\ i \in 1..n) BY <1>2
<1>5. j \in 1..(n + 1) /\ U[j] = y /\ \A i \in j..(n + 1) : U[i] # x BY <1>2, <1>3, <1>4
<1> QED BY <1>1, <1>2, <1>5 DEF UsedAfter

\* The last use is after all others.
LEMMA UsedLast ==
    ASSUME NEW C, NEW T \in Seq(C), NEW t \in C, NEW x, x # t
    PROVE  UsedAfter(Append(T, t), x, t)
<1>1. PICK U, n : U = Append(T, t) /\ n = Len(T) OBVIOUS
<1>2. n \in Nat /\ DOMAIN U = 1..(n + 1) /\ Len(U) = n + 1 /\ U[n + 1] = t BY <1>1
<1>3. n + 1 \in 1..(n + 1) /\ \A i \in (n + 1)..(n + 1) : i = n + 1 BY <1>2
<1> QED BY <1>1, <1>2, <1>3 DEF UsedAfter

\* A text that is used goes to the end.
LEMMA TouchLatest ==
    ASSUME NEW C, NEW c, NEW T, Latest(C, c, T), NEW t \in C
    PROVE  /\ Latest(C, Touched(c, t), Append(T, t))
           /\ ToSet(Touched(c, t)) = ToSet(c) \cup {t}
           /\ Len(Touched(c, t)) = IF t \in ToSet(c) THEN Len(c) ELSE Len(c) + 1
<1>1. PICK S, d, e, U, l, n :
        /\ S = ToSet(c) \ {t} /\ d = Only(c, S) /\ e = Touched(c, t) /\ U = Append(T, t)
        /\ l = Len(d) /\ n = Len(c)
  OBVIOUS
<1>2. /\ c \in Seq(C) /\ T \in Seq(C) /\ Once(c) /\ ToSet(c) \subseteq ToSet(T) /\ n \in Nat
      /\ DOMAIN c = 1..n
  BY <1>1 DEF Latest
<1>3. d \in Seq(C) /\ ToSet(d) = S /\ Once(d)
  <2>1. ToSet(c) \cap S = S BY <1>1
  <2> QED BY <1>1, <1>2, <2>1, OnlyIs
<1>4. PICK at : KeptOf(c, S, n, d, at) BY <1>1, <1>2, OnlyKeeps
<1>5. l \in Nat /\ DOMAIN d = 1..l BY <1>1, <1>3
<1>6. e = Append(d, t) /\ t \notin ToSet(d) BY <1>1, <1>3 DEF Touched
<1>7. e \in Seq(C) /\ Once(e) /\ ToSet(e) = S \cup {t} /\ U \in Seq(C) /\ ToSet(U) = ToSet(T) \cup {t}
  <2>1. e \in Seq(C) /\ U \in Seq(C) BY <1>1, <1>2, <1>3, <1>6
  <2>2. Once(e) /\ ToSet(e) = S \cup {t} BY <1>3, <1>6, AppendSet, AppendApart
  <2>3. ToSet(U) = ToSet(T) \cup {t} BY <1>1, <1>2, AppendSet
  <2> QED BY <2>1, <2>2, <2>3
<1>8. ToSet(e) = ToSet(c) \cup {t} /\ ToSet(e) \subseteq ToSet(U) BY <1>1, <1>2, <1>7
<1>9. DOMAIN e = 1..(l + 1) /\ e[l + 1] = t /\ \A i \in 1..l : e[i] = d[i] /\ d[i] # t
  <2>1. DOMAIN e = 1..(l + 1) /\ e[l + 1] = t /\ \A i \in 1..l : e[i] = d[i]
    BY <1>1, <1>3, <1>5, <1>6
  <2>2. \A i \in 1..l : d[i] # t BY <1>5, <1>6 DEF ToSet
  <2> QED BY <2>1, <2>2
<1>10. ASSUME NEW i \in DOMAIN e, NEW j \in DOMAIN e, i < j
       PROVE  UsedAfter(U, e[i], e[j])
  <2>1. i \in 1..l BY <1>5, <1>9, <1>10
  <2>2. e[i] # t /\ e[i] = d[i] BY <1>9, <2>1
  <2>3. CASE j = l + 1 BY <1>1, <1>2, <1>9, <2>2, <2>3, UsedLast
  <2>4. CASE j # l + 1
    <3>1. j \in 1..l /\ e[j] = d[j] BY <1>5, <1>9, <2>4
    <3>2. /\ at[i] \in 1..n /\ at[j] \in 1..n /\ at[i] < at[j]
          /\ d[i] = c[at[i]] /\ d[j] = c[at[j]]
      BY <1>1, <1>4, <1>10, <2>1, <3>1 DEF KeptOf
    <3>3. UsedAfter(T, d[i], d[j]) BY <1>2, <3>2 DEF Latest
    <3> QED BY <1>1, <1>2, <2>2, <3>1, <3>3, UsedStill
  <2> QED BY <2>3, <2>4
<1>11. ASSUME NEW u \in ToSet(U) \ ToSet(e), NEW i \in DOMAIN e
       PROVE  UsedAfter(U, u, e[i])
  <2>1. u # t /\ u \in ToSet(T) \ ToSet(c) BY <1>7, <1>8
  <2>2. CASE i = l + 1 BY <1>1, <1>2, <1>9, <2>1, <2>2, UsedLast
  <2>3. CASE i # l + 1
    <3>1. i \in 1..l /\ e[i] = d[i] BY <1>5, <1>9, <2>3
    <3>2. at[i] \in 1..n /\ d[i] = c[at[i]] BY <1>1, <1>4, <3>1 DEF KeptOf
    <3>3. UsedAfter(T, u, d[i]) BY <1>2, <2>1, <3>2 DEF Latest
    <3> QED BY <1>1, <1>2, <2>1, <3>1, <3>3, UsedStill
  <2> QED BY <2>2, <2>3
<1>12. Latest(C, e, U) BY <1>7, <1>8, <1>10, <1>11 DEF Latest
<1>13. Len(e) = IF t \in ToSet(c) THEN n ELSE n + 1
  <2>1. Len(e) = Cardinality(ToSet(e)) /\ n = Cardinality(ToSet(c))
    BY <1>1, <1>2, <1>7, OnceIsShown DEF Shown
  <2>2. IsFiniteSet(ToSet(c)) BY <1>2, FewElements
  <2> QED BY <1>8, <2>1, <2>2, FS_AddElement
<1> QED BY <1>1, <1>8, <1>12, <1>13

\* d is what c has from the place k on.
IsEnd(c, k, d) == k \in 1..(Len(c) + 1) /\ d = SubSeq(c, k, Len(c))

\* The end of such a sequence is one.
LEMMA LatestEnd ==
    ASSUME NEW C, NEW c, NEW T, Latest(C, c, T), NEW k, NEW d, IsEnd(c, k, d)
    PROVE  Latest(C, d, T) /\ Len(d) = Len(c) - k + 1
<1>1. PICK n, l : n = Len(c) /\ l = n - k + 1 OBVIOUS
<1>2. c \in Seq(C) /\ T \in Seq(C) /\ n \in Nat /\ DOMAIN c = 1..n /\ k \in 1..(n + 1) /\ l \in Nat
      /\ d = SubSeq(c, k, n)
  BY <1>1 DEF Latest, IsEnd
<1>3. /\ d \in Seq(C) /\ Len(d) = l /\ DOMAIN d = 1..l
      /\ \A i \in 1..l : d[i] = c[k + i - 1] /\ k + i - 1 \in 1..n
  <2>1. d \in Seq(C) /\ Len(d) = l BY <1>1, <1>2
  <2>2. \A i \in 1..l : k + i - 1 \in 1..n BY <1>1, <1>2
  <2>3. \A i \in 1..l : d[i] = c[k + i - 1] BY <1>1, <1>2
  <2> QED BY <2>1, <2>2, <2>3
<1>4. Once(d)
  <2>1. ASSUME NEW i \in 1..l, NEW j \in 1..l, i # j
        PROVE  d[i] # d[j]
    <3>1. PICK a, b : a = k + i - 1 /\ b = k + j - 1 OBVIOUS
    <3>2. a # b /\ a \in 1..n /\ b \in 1..n /\ d[i] = c[a] /\ d[j] = c[b]
      BY <1>2, <1>3, <2>1, <3>1
    <3>3. c[a] # c[b] BY <1>2, <3>2 DEF Latest, Once
    <3> QED BY <3>2, <3>3
  <2> QED BY <1>3, <2>1 DEF Once
<1>5. ToSet(d) \subseteq ToSet(c) BY <1>2, <1>3 DEF ToSet
<1>6. ASSUME NEW i \in DOMAIN d, NEW j \in DOMAIN d, i < j
      PROVE  UsedAfter(T, d[i], d[j])
  <2>1. k + i - 1 < k + j - 1 BY <1>2, <1>3, <1>6
  <2> QED BY <1>2, <1>3, <2>1 DEF Latest
<1>7. ASSUME NEW t \in ToSet(T) \ ToSet(d), NEW i \in DOMAIN d
      PROVE  UsedAfter(T, t, d[i])
  <2>1. PICK a : a = k + i - 1 OBVIOUS
  <2>2. a \in 1..n /\ d[i] = c[a] BY <1>3, <2>1
  <2>3. CASE t \notin ToSet(c) BY <1>2, <2>2, <2>3 DEF Latest
  <2>4. CASE t \in ToSet(c)
    <3>1. PICK h \in 1..n : c[h] = t BY <1>2, <2>4 DEF ToSet
    <3>2. h < k
      <4>1. ASSUME ~(h < k)
            PROVE  FALSE
        <5>1. h - k + 1 \in 1..l /\ k + (h - k + 1) - 1 = h BY <1>1, <1>2, <4>1
        <5>2. d[h - k + 1] = t BY <1>3, <3>1, <5>1
        <5> QED BY <1>3, <5>1, <5>2 DEF ToSet
      <4> QED BY <4>1
    <3>3. h < a BY <1>2, <1>3, <2>1, <3>2
    <3> QED BY <1>2, <2>2, <3>1, <3>3 DEF Latest
  <2> QED BY <2>3, <2>4
<1> QED BY <1>1, <1>2, <1>3, <1>4, <1>5, <1>6, <1>7 DEF Latest

\* A text that is found is used.
LEMMA GetRecent ==
    ASSUME NEW C, NEW c, NEW T, NEW size \in Nat, Recent(C, c, T, size), NEW t \in C
    PROVE  /\ Recent(C, Get(c, t), IF t \in ToSet(c) THEN Append(T, t) ELSE T, size)
           /\ ToSet(Get(c, t)) = ToSet(c)
<1>1. CASE t \notin ToSet(c) BY <1>1 DEF Get
<1>2. CASE t \in ToSet(c)
  <2>1. PICK e : e = Touched(c, t) OBVIOUS
  <2>2. /\ Latest(C, e, Append(T, t)) /\ ToSet(e) = ToSet(c) \cup {t} /\ Len(e) = Len(c)
    BY <1>2, <2>1, TouchLatest DEF Recent
  <2>3. ToSet(e) = ToSet(c) /\ ToSet(Append(T, t)) = ToSet(T) \cup {t}
    BY <1>2, <2>2, AppendSet DEF Recent, Latest
  <2>4. Recent(C, e, Append(T, t), size) BY <1>2, <2>2, <2>3 DEF Recent
  <2> QED BY <1>2, <2>1, <2>3, <2>4 DEF Get
<1> QED BY <1>1, <1>2

\* A text that is put is used, and the oldest leave.
LEMMA PutRecent ==
    ASSUME NEW C, NEW c, NEW T, NEW size \in Nat, Recent(C, c, T, size), NEW t \in C
    PROVE  Recent(C, Put(c, t, size), Append(T, t), size)
<1>1. PICK e, U, l, k, d : /\ e = Touched(c, t) /\ U = Append(T, t) /\ l = Len(e)
                           /\ k = Max({1, l - size + 1}) /\ d = SubSeq(e, k, l)
  OBVIOUS
<1>2. /\ Latest(C, e, U) /\ ToSet(e) = ToSet(c) \cup {t}
      /\ l = IF t \in ToSet(c) THEN Len(c) ELSE Len(c) + 1
  BY <1>1, TouchLatest DEF Recent
<1>3. Len(c) \in Nat /\ Len(c) <= size /\ l \in Nat BY <1>1, <1>2 DEF Recent, Latest
<1>4. d = Put(c, t, size) BY <1>1 DEF Put
<1>5. ToSet(U) = ToSet(T) \cup {t} BY <1>1, AppendSet DEF Recent, Latest
<1>6. CASE l <= size
  <2>1. k = 1
    <3>1. PICK a, S : a = l - size + 1 /\ S = {1, a} OBVIOUS
    <3>2. a \in Int /\ a <= 1 /\ \A y \in S : 1 >= y BY <1>3, <1>6, <3>1
    <3>3. k \in S /\ \A y \in S : k >= y BY <1>1, <3>1, <3>2 DEF Max
    <3> QED BY <3>1, <3>2, <3>3
  <2>3. d = e
    <3>1. e \in Seq(C) BY <1>2 DEF Latest
    <3> QED BY <1>1, <2>1, <3>1, SubSeqFull
  <2>2. Latest(C, d, U) /\ Len(d) = l BY <1>1, <1>2, <2>3
  <2>4. ASSUME l < size
        PROVE  ToSet(U) \subseteq ToSet(e)
    <3>1. Len(c) < size BY <1>2, <1>3, <2>4
    <3>2. ToSet(T) \subseteq ToSet(c) BY <3>1 DEF Recent
    <3> QED BY <1>2, <1>5, <3>2
  <2>5. Recent(C, d, U, size) BY <1>1, <1>6, <2>2, <2>3, <2>4 DEF Recent
  <2> QED BY <1>1, <1>4, <2>5
<1>7. CASE ~(l <= size)
  <2>1. k = l - size + 1 /\ k \in 1..(l + 1)
    <3>1. PICK a, S : a = l - size + 1 /\ S = {1, a} OBVIOUS
    <3>2. a \in 1..(l + 1) /\ 1 <= a /\ \A y \in S : a >= y BY <1>3, <1>7, <3>1
    <3>3. k \in S /\ \A y \in S : k >= y BY <1>1, <3>1, <3>2 DEF Max
    <3>4. k = a BY <3>1, <3>2, <3>3
    <3> QED BY <3>1, <3>2, <3>4
  <2>2. Latest(C, d, U) /\ Len(d) = l - k + 1
    <3>1. IsEnd(e, k, d) BY <1>1, <2>1 DEF IsEnd
    <3>2. Latest(C, e, U) BY <1>2
    <3>3. Latest(C, d, U) BY <3>1, <3>2, LatestEnd
    <3>4. Len(d) = Len(e) - k + 1 BY <3>1, <3>2, LatestEnd
    <3> QED BY <1>1, <3>3, <3>4
  <2>3. Len(d) = size BY <1>3, <2>1, <2>2
  <2>4. Recent(C, d, U, size) BY <2>2, <2>3 DEF Recent
  <2> QED BY <1>1, <1>4, <2>4
<1> QED BY <1>6, <1>7

\* The next element joins a sequence and its beginning.
LEMMA NextJoins ==
    ASSUME NEW C, NEW T \in Seq(C), NEW m \in Seq(C), NEW j \in 1..Len(m)
    PROVE  T \o SubSeq(m, 1, j) = Append(T \o SubSeq(m, 1, j - 1), m[j])
<1>1. PICK a, b, n, l : /\ a = SubSeq(m, 1, j) /\ b = SubSeq(m, 1, j - 1)
                        /\ n = Len(m) /\ l = Len(T)
  OBVIOUS
<1>2. n \in Nat /\ l \in Nat /\ j \in 1..n /\ j \in Nat /\ j - 1 \in Nat BY <1>1
<1>3. /\ a \in Seq(C) /\ Len(a) = j /\ \A i \in 1..j : a[i] = m[i]
      /\ b \in Seq(C) /\ Len(b) = j - 1 /\ \A i \in 1..(j - 1) : b[i] = m[i]
  BY <1>1, <1>2
<1>4. a = Append(b, m[j])
  <2>1. m[j] \in C BY <1>1, <1>2
  <2>2. Append(b, m[j]) \in Seq(C) /\ Len(Append(b, m[j])) = j BY <1>2, <1>3, <2>1
  <2>3. \A i \in 1..j : a[i] = Append(b, m[j])[i] BY <1>2, <1>3
  <2> QED BY <1>3, <2>2, <2>3, SeqEqual
<1>5. T \o Append(b, m[j]) = Append(T \o b, m[j]) BY <1>1, <1>2, <1>3
<1> QED BY <1>1, <1>4, <1>5

\* Nothing more.
LEMMA NothingJoins ==
    ASSUME NEW C, NEW T \in Seq(C), NEW m \in Seq(C)
    PROVE  /\ T \o SubSeq(m, 1, 0) = T /\ T \o SubSeq(m, 1, Len(m)) = T \o m
           /\ T \o m \in Seq(C) /\ ToSet(T \o m) = ToSet(T) \cup ToSet(m)
<1>1. SubSeq(m, 1, 0) = <<>> /\ T \o <<>> = T BY ConcatEmptySeq
<1>2. SubSeq(m, 1, Len(m)) = m BY SubSeqFull
<1>3. PICK o, l, k : o = T \o m /\ l = Len(T) /\ k = Len(m) OBVIOUS
<1>4. /\ l \in Nat /\ k \in Nat /\ o \in Seq(C) /\ Len(o) = l + k /\ DOMAIN o = 1..(l + k)
      /\ DOMAIN T = 1..l /\ DOMAIN m = 1..k
      /\ \A i \in 1..(l + k) : o[i] = IF i <= l THEN T[i] ELSE m[i - l]
  BY <1>3
<1>5. ToSet(o) \subseteq ToSet(T) \cup ToSet(m)
  <2>1. \A i \in 1..(l + k) : (i <= l => i \in 1..l) /\ (~(i <= l) => i - l \in 1..k) BY <1>4
  <2> QED BY <1>4, <2>1 DEF ToSet
<1>6. ToSet(T) \cup ToSet(m) \subseteq ToSet(o)
  <2>1. \A i \in 1..l : i \in 1..(l + k) /\ i <= l BY <1>4
  <2>2. \A i \in 1..l : o[i] = T[i] BY <1>4, <2>1
  <2>3. ASSUME NEW i \in 1..k
        PROVE  m[i] \in ToSet(o)
    <3>1. PICK h : h = i + l OBVIOUS
    <3>2. h \in 1..(l + k) /\ ~(h <= l) /\ h - l = i BY <1>4, <3>1
    <3>3. o[h] = m[i] BY <1>4, <3>2
    <3> QED BY <1>4, <3>2, <3>3 DEF ToSet
  <2>4. ASSUME NEW i \in 1..l
        PROVE  T[i] \in ToSet(o)
    BY <1>4, <2>1, <2>2 DEF ToSet
  <2>5. ToSet(T) = {T[i] : i \in 1..l} /\ ToSet(m) = {m[i] : i \in 1..k} BY <1>4 DEF ToSet
  <2> QED BY <2>3, <2>4, <2>5
<1> QED BY <1>1, <1>2, <1>3, <1>4, <1>5, <1>6

\* Texts that are put are used.
LEMMA PutAllRecent ==
    ASSUME NEW C, NEW c, NEW T, NEW size \in Nat, Recent(C, c, T, size), NEW m \in Seq(C)
    PROVE  Recent(C, PutAll(c, m, size), T \o m, size)
<1>1. PICK n, f, out : n = Len(m) /\ f = [op |-> "put", size |-> size] /\ out = PutAll(c, m, size)
  OBVIOUS
<1>2. n \in Nat /\ DOMAIN m = 1..n /\ T \in Seq(C) BY <1>1 DEF Recent, Latest
<1>3. FoldsTo(f, c, m, n, out) BY <1>1, <1>2, PutFolds
<1>4. PICK run : Runs(f, c, m, n, out, run) BY <1>2, <1>3, FoldRuns
<1> DEFINE good == {j \in Nat : Recent(C, run[j], T \o SubSeq(m, 1, j), size)}
<1>5. 0 \in good /\ good \in SUBSET Nat
  <2>1. Recent(C, run[0], T \o SubSeq(m, 1, 0), size) BY <1>2, <1>4, NothingJoins DEF Runs
  <2> QED BY <2>1
<1>6. ASSUME NEW j \in 1..n, j - 1 \in good
      PROVE  j \in good
  <2>1. PICK b, U, x : b = run[j - 1] /\ U = T \o SubSeq(m, 1, j - 1) /\ x = m[j] OBVIOUS
  <2>2. Recent(C, b, U, size) /\ x \in C /\ j \in Nat BY <1>2, <1>6, <2>1
  <2>3. run[j] = Put(b, x, size) BY <1>1, <1>4, <2>1 DEF Runs, Step
  <2>4. Recent(C, run[j], Append(U, x), size) BY <2>2, <2>3, PutRecent
  <2>5. T \o SubSeq(m, 1, j) = Append(U, x) BY <1>1, <1>2, <2>1, NextJoins
  <2> QED BY <2>2, <2>4, <2>5
<1>7. n \in good
  <2>1. n \in 0..n BY <1>2
  <2> HIDE DEF good
  <2> QED BY <1>2, <1>5, <1>6, <2>1, UpTo
<1>8. Recent(C, run[n], T \o SubSeq(m, 1, n), size) /\ run[n] = out BY <1>4, <1>7 DEF Runs
<1>9. T \o SubSeq(m, 1, n) = T \o m BY <1>1, <1>2, NothingJoins
<1>10. Recent(C, out, T \o m, size) BY <1>8, <1>9
<1> QED BY <1>1, <1>10

\* Texts that are found are used.
LEMMA GotRecent ==
    ASSUME NEW C, NEW c, NEW T, NEW size \in Nat, Recent(C, c, T, size), NEW m \in Seq(C)
    PROVE  /\ Recent(C, Got(c, m), T \o Only(m, ToSet(c)), size)
           /\ ToSet(Got(c, m)) = ToSet(c)
<1>1. PICK n, f, g, S, out, kept : /\ n = Len(m) /\ f = [op |-> "get"] /\ S = ToSet(c)
                                   /\ g = [op |-> "only", set |-> S]
                                   /\ out = Got(c, m) /\ kept = Only(m, S)
  OBVIOUS
<1>2. n \in Nat /\ DOMAIN m = 1..n /\ T \in Seq(C) BY <1>1 DEF Recent, Latest
<1>3. FoldsTo(f, c, m, n, out) /\ FoldsTo(g, <<>>, m, n, kept) BY <1>1, <1>2, GotFolds, OnlyFolds
<1>4. PICK run : Runs(f, c, m, n, out, run) BY <1>2, <1>3, FoldRuns
<1>5. PICK use : Runs(g, <<>>, m, n, kept, use) BY <1>2, <1>3, FoldRuns
<1> DEFINE good == {j \in Nat : /\ use[j] \in Seq(C) /\ ToSet(run[j]) = S
                                /\ Recent(C, run[j], T \o use[j], size)}
<1>6. 0 \in good /\ good \in SUBSET Nat
  <2>1. use[0] = <<>> /\ run[0] = c /\ T \o <<>> = T /\ use[0] \in Seq(C)
    BY <1>2, <1>4, <1>5, NothingIs, ConcatEmptySeq DEF Runs
  <2>2. Recent(C, run[0], T \o use[0], size) /\ ToSet(run[0]) = S BY <1>1, <2>1
  <2> QED BY <2>1, <2>2
<1>7. ASSUME NEW j \in 1..n, j - 1 \in good
      PROVE  j \in good
  <2>1. PICK b, u, U, x : b = run[j - 1] /\ u = use[j - 1] /\ U = T \o u /\ x = m[j] OBVIOUS
  <2>2. u \in Seq(C) /\ ToSet(b) = S /\ Recent(C, b, U, size) /\ x \in C /\ j \in Nat
    BY <1>2, <1>7, <2>1
  <2>3. run[j] = Get(b, x) BY <1>1, <1>4, <2>1 DEF Runs, Step
  <2>4. use[j] = AppendIf(u, x, x \in S) BY <1>1, <1>5, <2>1 DEF Runs, Step
  <2>5. Recent(C, run[j], IF x \in S THEN Append(U, x) ELSE U, size) /\ ToSet(run[j]) = S
    BY <2>2, <2>3, GetRecent
  <2>6. CASE x \in S
    <3>1. use[j] = Append(u, x) BY <2>4, <2>6 DEF AppendIf
    <3>2. T \o Append(u, x) = Append(U, x) /\ Append(u, x) \in Seq(C) BY SMTT(30), <1>2, <2>1, <2>2
    <3>3. Recent(C, run[j], T \o use[j], size) /\ use[j] \in Seq(C) BY <2>5, <2>6, <3>1, <3>2
    <3> QED BY <2>2, <2>5, <3>3
  <2>7. CASE x \notin S
    <3>1. use[j] = u BY <2>4, <2>7 DEF AppendIf
    <3>2. Recent(C, run[j], T \o use[j], size) BY <2>1, <2>5, <2>7, <3>1
    <3> QED BY <2>2, <2>5, <3>1, <3>2
  <2> QED BY <2>6, <2>7
<1>8. n \in good
  <2>1. n \in 0..n BY <1>2
  <2> HIDE DEF good
  <2> QED BY <1>2, <1>6, <1>7, <2>1, UpTo
<1>9. run[n] = out /\ use[n] = kept BY <1>4, <1>5 DEF Runs
<1>10. Recent(C, run[n], T \o use[n], size) /\ ToSet(run[n]) = S BY <1>8
<1> QED BY <1>1, <1>9, <1>10

\* A cache holds its own texts.
LEMMA CacheIsRecent ==
    ASSUME NEW C, NEW c \in Seq(C), Once(c), NEW size \in Nat, Len(c) <= size
    PROVE  Recent(C, c, c, size)
<1>1. Len(c) \in Nat /\ DOMAIN c = 1..Len(c) OBVIOUS
<1>2. ASSUME NEW i \in DOMAIN c, NEW j \in DOMAIN c, i < j
      PROVE  UsedAfter(c, c[i], c[j])
  <2>1. \A h \in j..Len(c) : h \in DOMAIN c /\ h # i BY <1>1, <1>2
  <2>2. \A h \in j..Len(c) : c[h] # c[i] BY <2>1 DEF Once
  <2> QED BY <2>2 DEF UsedAfter
<1> QED BY <1>2 DEF Recent, Latest

\* It has as many as fit.
LEMMA RecentLength ==
    ASSUME NEW C, NEW c, NEW T, NEW size \in Nat, Recent(C, c, T, size)
    PROVE  /\ Len(c) = Min({size, Cardinality(ToSet(T))}) /\ Shown(c)
           /\ Cardinality(ToSet(c)) = Len(c) /\ c \in Seq(C) /\ Once(c) /\ Len(c) <= size
<1>1. c \in Seq(C) /\ T \in Seq(C) /\ Once(c) /\ ToSet(c) \subseteq ToSet(T) /\ Len(c) <= size
  BY DEF Recent, Latest
<1>2. Shown(c) /\ Len(c) = Cardinality(ToSet(c)) BY <1>1, OnceIsShown DEF Shown
<1>3. IsFiniteSet(ToSet(T)) BY <1>1, FewElements
<1>4. PICK l, k, m : l = Len(c) /\ k = Cardinality(ToSet(T)) /\ m = Min({size, k}) OBVIOUS
<1>5. l \in Nat /\ k \in Nat /\ l <= k BY <1>1, <1>2, <1>3, <1>4, FS_Subset, FS_CardinalityType
<1>6. m \in {size, k} /\ m <= size /\ m <= k BY <1>4, <1>5, MinOfPair
<1>7. CASE l < size
  <2>1. ToSet(c) = ToSet(T) BY <1>1, <1>4, <1>7 DEF Recent
  <2>2. k = l BY <1>2, <1>4, <2>1
  <2>3. m = l BY <1>5, <1>6, <1>7, <2>2
  <2> QED BY <1>1, <1>2, <1>4, <2>3
<1>8. CASE ~(l < size)
  <2>1. l = size BY <1>1, <1>4, <1>5, <1>8
  <2>2. m = l BY <1>5, <1>6, <2>1
  <2> QED BY <1>1, <1>2, <1>4, <2>2
<1> QED BY <1>7, <1>8

\* A new text that does not stay is one of more than fit.
LEMMA LostIsOver ==
    ASSUME NEW C, NEW c, NEW T \in Seq(C), NEW m \in Seq(C), NEW size \in Nat,
           Recent(C, c, T \o m, size), NEW t \in ToSet(m), t \notin ToSet(c)
    PROVE  Cardinality(ToSet(m)) > size
<1>1. PICK U, l, n, k : U = T \o m /\ l = Len(T) /\ n = Len(m) /\ k = Len(c) OBVIOUS
<1>2. /\ l \in Nat /\ n \in Nat /\ U \in Seq(C) /\ Len(U) = l + n /\ DOMAIN U = 1..(l + n)
      /\ DOMAIN m = 1..n /\ \A i \in 1..(l + n) : U[i] = IF i <= l THEN T[i] ELSE m[i - l]
  BY <1>1
<1>3. c \in Seq(C) /\ Once(c) /\ k \in Nat /\ DOMAIN c = 1..k /\ k <= size /\ Recent(C, c, U, size)
  BY <1>1 DEF Recent, Latest
<1>4. t \in ToSet(U) BY <1>1, NothingJoins
<1>5. k = size BY <1>1, <1>3, <1>4 DEF Recent
<1>6. PICK p \in 1..n : m[p] = t BY <1>2 DEF ToSet
<1>7. l + p \in 1..(l + n) /\ ~(l + p <= l) /\ l + p - l = p BY <1>2, <1>6
<1>8. U[l + p] = t BY <1>2, <1>6, <1>7
<1>9. ASSUME NEW i \in 1..k
      PROVE  c[i] \in ToSet(m) \ {t}
  <2>1. UsedAfter(U, t, c[i]) BY <1>3, <1>4 DEF Recent, Latest
  <2>2. PICK j \in 1..(l + n) : U[j] = c[i] /\ \A h \in j..(l + n) : U[h] # t
    BY <1>2, <2>1 DEF UsedAfter
  <2>3. ~(j <= l + p) BY <1>2, <1>7, <1>8, <2>2
  <2>4. j - l \in 1..n /\ ~(j <= l) BY <1>2, <1>6, <2>2, <2>3
  <2>5. U[j] = m[j - l] BY <1>2, <2>4
  <2>6. c[i] \in ToSet(m) BY <1>2, <2>2, <2>4, <2>5 DEF ToSet
  <2>7. c[i] # t BY <1>3 DEF ToSet
  <2> QED BY <2>6, <2>7
<1>10. ToSet(c) \subseteq ToSet(m) \ {t} BY <1>3, <1>9 DEF ToSet
<1>11. IsFiniteSet(ToSet(m)) BY FewElements
<1>12. Cardinality(ToSet(c)) = size BY <1>1, <1>3, <1>5, RecentLength
<1>13. PICK S : S = ToSet(m) \ {t} OBVIOUS
<1>14. IsFiniteSet(S) /\ Cardinality(S) = Cardinality(ToSet(m)) - 1
  BY <1>11, <1>13, FS_RemoveElement
<1>15. size <= Cardinality(S) /\ Cardinality(S) \in Nat /\ Cardinality(ToSet(m)) \in Nat
  BY <1>10, <1>11, <1>12, <1>13, <1>14, FS_Subset, FS_CardinalityType
<1> QED BY <1>14, <1>15

\* What a call owes to the texts used before it and by it (CacheServes).
Served(before, texts, size, c, error) ==
    LET held == ToSet(before)
        misses == Only(texts, ToSet(texts) \ held)
        uses == before \o Only(texts, held) \o Distinct(misses) \o misses
    IN  /\ Len(c) <= size /\ Shown(c)
        /\ Cardinality(ToSet(misses)) <= size => error # "not populated"
        /\ error = "none" =>
             /\ Len(c) = Min({size, Cardinality(ToSet(uses))})
             /\ ToSet(c) \subseteq ToSet(uses)
             /\ \A i, j \in DOMAIN c : i < j => UsedAfter(uses, c[i], c[j])
             /\ \A t \in ToSet(uses) \ ToSet(c) : \A i \in DOMAIN c : UsedAfter(uses, t, c[i])

\* A beginning is a sequence.
LEMMA BeginningIsSeq ==
    ASSUME NEW C, NEW s \in Seq(C), NEW k, k \in 0..Len(s)
    PROVE  SubSeq(s, 1, k) \in Seq(C)
<1>1. \A i \in 1..k : s[i] \in C OBVIOUS
<1>2. SubSeq(s, 1, k) = [i \in 1..k |-> s[i]] OBVIOUS
<1> QED BY <1>1, <1>2

\* The fields of a call.
LEMMA CallFields ==
    ASSUME NEW c, NEW a, NEW e
    PROVE  Call(c, a, e).cache = c /\ Call(c, a, e).error = e
BY DEF Call

\* The texts before the first that is lost.
LEMMA FirstLost ==
    ASSUME NEW C, NEW asked \in Seq(C), NEW lost, NEW k,
           k = IF lost = {} THEN Len(asked) ELSE Min({i \in DOMAIN asked : asked[i] \in lost}) - 1,
           lost \subseteq ToSet(asked)
    PROVE  SubSeq(asked, 1, k) \in Seq(C)
<1>1. PICK n, S : n = Len(asked) /\ S = {i \in DOMAIN asked : asked[i] \in lost} OBVIOUS
<1>2. n \in Nat /\ DOMAIN asked = 1..n BY <1>1
<1>3. k \in 0..n
  <2>1. CASE lost = {} BY <1>1, <1>2, <2>1
  <2>2. CASE lost # {}
    <3>1. S # {} /\ S \in SUBSET Nat /\ S \subseteq 1..n BY <1>1, <1>2, <2>2 DEF ToSet
    <3>2. PICK i \in S : \A j \in S : i <= j BY <3>1, LeastNat
    <3>3. Min(S) \in S BY <3>2 DEF Min
    <3> QED BY <1>1, <1>2, <2>2, <3>1, <3>3
  <2> QED BY <2>1, <2>2
<1> QED BY <1>1, <1>3, BeginningIsSeq

\* A sequence is one of its elements.
LEMMA SeqOfOwn ==
    ASSUME NEW C, NEW s \in Seq(C)
    PROVE  s \in Seq(ToSet(s))
<1>1. Len(s) \in Nat /\ s \in [1..Len(s) -> ToSet(s)] BY DEF ToSet
<1> QED BY <1>1

\* embed_many.
LEMMA CallServes ==
    ASSUME NEW C, NEW b \in Seq(C), Once(b), NEW size \in Nat, Len(b) <= size,
           NEW texts \in Seq(C), NEW batch \in Nat \ {0}, NEW failing \in 0..2,
           NEW call, call = EmbedMany(b, texts, size, batch, failing)
    PROVE  /\ Served(b, texts, size, call.cache, call.error)
           /\ call.cache \in Seq(C) /\ Once(call.cache) /\ Len(call.cache) <= size
<1>1. PICK held, asked, missing, n, answered, some, got, filled, lost, firstLost :
        /\ held = ToSet(b) /\ asked = Only(texts, ToSet(texts) \ held)
        /\ missing = Distinct(asked) /\ n = Len(missing)
        /\ answered = IF failing = 0 THEN n ELSE Min({n, batch * (failing - 1)})
        /\ some = SubSeq(missing, 1, answered) /\ got = Got(b, texts)
        /\ filled = PutAll(got, some, size) /\ lost = ToSet(missing) \ ToSet(filled)
        /\ firstLost = IF lost = {} THEN Len(asked)
                       ELSE Min({i \in DOMAIN asked : asked[i] \in lost}) - 1
  OBVIOUS
<1>2. PICK r, s, u :
        /\ r = Call(filled, <<>>, "provider")
        /\ s = Call(Got(filled, SubSeq(asked, 1, firstLost)), <<>>, "not populated")
        /\ u = Call(Got(filled, asked), texts, "none")
  OBVIOUS
<1>3. /\ asked \in Seq(C) /\ missing \in Seq(C) /\ ToSet(missing) = ToSet(asked) /\ n \in Nat
  BY <1>1, OnlyIs, DistinctIs
<1>4. answered \in 0..n
  <2>1. CASE failing = 0 BY <1>1, <1>3, <2>1
  <2>2. CASE failing # 0
    <3>1. batch * (failing - 1) \in Nat
      <4>1. failing = 1 \/ failing = 2 BY <2>2
      <4>2. batch * 0 = 0 /\ batch * 1 = batch OBVIOUS
      <4> QED BY <4>1, <4>2
    <3>2. answered \in {n, batch * (failing - 1)} /\ answered <= n
      BY <1>1, <1>3, <2>2, <3>1, MinOfPair
    <3> QED BY <1>3, <3>1, <3>2
  <2> QED BY <2>1, <2>2
<1>13. /\ answered < n => call = r
       /\ ~(answered < n) /\ answered = n /\ lost # {} => call = s
       /\ ~(answered < n) /\ answered = n /\ lost = {} => call = u
  <2>1. call = CASE answered < n -> r
                 [] answered = n /\ lost # {} -> s
                 [] answered = n /\ lost = {} -> u
    BY <1>1, <1>2 DEF EmbedMany
  <2>2. n \in Nat /\ answered \in Nat BY <1>3, <1>4
  <2> QED BY ONLY <2>1, <2>2
<1>5. some \in Seq(C) BY <1>1, <1>3, <1>4, BeginningIsSeq
<1>6. PICK T : T = b \o Only(texts, held) OBVIOUS
<1>7. Recent(C, got, T, size) /\ T \in Seq(C)
  <2>1. Recent(C, b, b, size) BY CacheIsRecent
  <2>2. Recent(C, got, T, size) BY <1>1, <1>6, <2>1, GotRecent
  <2> QED BY <2>2 DEF Recent, Latest
<1>8. Recent(C, filled, T \o some, size) BY <1>1, <1>5, <1>7, PutAllRecent
<1>9. ASSUME NEW c, NEW a, NEW e, call = Call(c, a, e), e \in {"provider", "not populated"},
             Cardinality(ToSet(asked)) <= size => e # "not populated",
             NEW U, Recent(C, c, U, size)
      PROVE  /\ Served(b, texts, size, call.cache, call.error)
             /\ call.cache \in Seq(C) /\ Once(call.cache) /\ Len(call.cache) <= size
  <2>1. call.cache = c /\ call.error = e
    <3>1. Call(c, a, e).cache = c /\ Call(c, a, e).error = e BY CallFields
    <3>2. call = Call(c, a, e) BY <1>9
    <3> QED BY ONLY <3>1, <3>2
  <2>2. Shown(c) /\ c \in Seq(C) /\ Once(c) /\ Len(c) <= size BY <1>9, RecentLength
  <2>3. Served(b, texts, size, c, e) BY <1>1, <1>9, <2>2 DEF Served
  <2> QED BY <2>1, <2>2, <2>3
<1>10. CASE answered < n
  <2>1. call = Call(filled, <<>>, "provider") BY <1>2, <1>13, <1>10
  <2> QED BY <1>8, <1>9, <2>1
<1>11. CASE ~(answered < n)
  <2>1. answered = n BY <1>3, <1>4, <1>11
  <2>2. some = missing BY <1>1, <1>3, <2>1, SubSeqFull
  <2>3. PICK U : U = T \o missing OBVIOUS
  <2>4. Recent(C, filled, U, size) /\ U \in Seq(C) BY <1>8, <2>2, <2>3 DEF Recent, Latest
  <2>5. CASE lost # {}
    <3>1. PICK t : t \in ToSet(missing) /\ t \notin ToSet(filled) BY <1>1, <2>5
    <3>2. ~(Cardinality(ToSet(asked)) <= size)
      <4>1. Cardinality(ToSet(missing)) > size BY <1>3, <1>7, <2>3, <2>4, <3>1, LostIsOver
      <4>2. Cardinality(ToSet(asked)) \in Nat BY <1>3, FewElements, FS_CardinalityType
      <4> QED BY <1>3, <4>1, <4>2
    <3>3. PICK part : part = SubSeq(asked, 1, firstLost) OBVIOUS
    <3>4. part \in Seq(C)
      <4>1. lost \subseteq ToSet(asked) BY <1>1, <1>3
      <4> QED BY ZenonT(30), <1>1, <1>3, <3>3, <4>1, FirstLost
    <3>5. Recent(C, Got(filled, part), U \o Only(part, ToSet(filled)), size)
      BY <2>4, <3>4, GotRecent
    <3>6. call = Call(Got(filled, part), <<>>, "not populated")
      BY <1>2, <1>13, <1>11, <2>1, <2>5, <3>3
    <3> QED BY <1>3, <1>9, <3>2, <3>5, <3>6
  <2>6. CASE lost = {}
    <3>1. ToSet(asked) \subseteq ToSet(filled) BY <1>1, <1>3, <2>6
    <3>2. Only(asked, ToSet(filled)) = asked BY <1>3, <3>1, OnlyAll
    <3>3. PICK c, V : c = Got(filled, asked) /\ V = U \o asked OBVIOUS
    <3>4. Recent(C, c, V, size) BY <1>3, <2>4, <3>2, <3>3, GotRecent
    <3>5. call = Call(c, texts, "none") BY <1>2, <1>13, <1>11, <2>1, <2>6, <3>3
    <3>6. call.cache = c /\ call.error = "none" BY <3>5, CallFields
    <3>7. /\ Len(c) = Min({size, Cardinality(ToSet(V))}) /\ Shown(c)
          /\ c \in Seq(C) /\ Once(c) /\ Len(c) <= size
      BY ONLY <3>4, RecentLength
    <3>9. /\ ToSet(c) \subseteq ToSet(V)
          /\ \A i, j \in DOMAIN c : i < j => UsedAfter(V, c[i], c[j])
          /\ \A t \in ToSet(V) \ ToSet(c) : \A i \in DOMAIN c : UsedAfter(V, t, c[i])
      BY <3>4 DEF Recent, Latest
    <3>10. V = b \o Only(texts, held) \o Distinct(asked) \o asked BY <1>1, <1>6, <2>3, <3>3
    <3>11. Served(b, texts, size, c, "none") BY <1>1, <3>7, <3>9, <3>10 DEF Served
    <3> QED BY <3>6, <3>7, <3>11
  <2> QED BY <2>5, <2>6
<1> QED BY <1>10, <1>11

\* The inductive invariant: the cache holds distinct texts, as many as fit.
EmbedInv ==
    /\ cache \in Seq(ToSet(cache)) /\ Once(cache) /\ Len(cache) <= CacheSize
    /\ case.is = "embed" => Served(case.before, case.texts, CacheSize, cache, case.error)

\* Every call keeps it.
LEMMA EmbedKeeps == EmbedInv /\ EmbedTexts => EmbedInv'
<1> SUFFICES ASSUME EmbedInv, EmbedTexts
             PROVE  EmbedInv'
  OBVIOUS
<1>1. PICK texts \in Texts, failing \in 0..2 :
        LET call == EmbedMany(cache, texts, CacheSize, BatchSize, failing)
        IN  /\ cache' = call.cache
            /\ case' = [is |-> "embed", texts |-> texts, before |-> cache, error |-> call.error]
  BY DEF EmbedTexts
<1>2. PICK call, C, b, e, d : /\ call = EmbedMany(cache, texts, CacheSize, BatchSize, failing)
                              /\ C = ToSet(cache) \cup ToSet(texts) /\ b = cache
                              /\ e = call.error /\ d = call.cache
  OBVIOUS
<1>3. case' = [is |-> "embed", texts |-> texts, before |-> b, error |-> e] /\ cache' = d
  BY <1>1, <1>2
<1>4. CacheSize \in Nat /\ BatchSize \in Nat \ {0} /\ texts \in Seq(ToSet(texts)) BY CacheAssumption
<1>5. b \in Seq(C) /\ texts \in Seq(C) /\ Once(b) /\ Len(b) <= CacheSize
  <2>1. ToSet(cache) \subseteq C /\ ToSet(texts) \subseteq C BY <1>2
  <2> QED BY <1>2, <1>4, <2>1, SeqOfMore DEF EmbedInv
<1>6. /\ Served(b, texts, CacheSize, d, e)
      /\ d \in Seq(C) /\ Once(d) /\ Len(d) <= CacheSize
  BY <1>2, <1>4, <1>5, CallServes
<1>7. d \in Seq(ToSet(d)) BY <1>6, SeqOfOwn
<1>8. /\ case'.is = "embed" /\ case'.texts = texts /\ case'.before = b /\ case'.error = e BY <1>3
<1> QED BY <1>3, <1>6, <1>7, <1>8 DEF EmbedInv

\* It implies the property.
LEMMA CallsServe ==
    ASSUME EmbedInv
    PROVE  CacheServes
BY DEF EmbedInv, CacheServes, Served
-----------------------------------------------------------------------------
(***************************************************************************)
(* Counting, and the best of two pools.                                    *)
(***************************************************************************)

\* The lower of two numbers.
LEMMA MinIs ==
    ASSUME NEW a \in Nat, NEW b \in Nat
    PROVE  Min({a, b}) = IF a <= b THEN a ELSE b
<1>1. PICK m : m = Min({a, b}) OBVIOUS
<1>2. m \in {a, b} /\ m <= a /\ m <= b BY <1>1, MinOfPair
<1>3. m = IF a <= b THEN a ELSE b BY <1>2
<1> QED BY <1>1, <1>3

\* Two sets that correspond have as many members.
LEMMA SameCount ==
    ASSUME NEW S, IsFiniteSet(S), NEW T, NEW f \in [S -> T],
           \A x, y \in S : x # y => f[x] # f[y], \A t \in T : \E x \in S : f[x] = t
    PROVE  IsFiniteSet(T) /\ Cardinality(T) = Cardinality(S)
<1>1. f \in Injection(S, T) BY DEF Injection, IsInjective
<1>2. f \in Surjection(S, T) BY DEF Surjection
<1>3. ExistsBijection(S, T) BY <1>1, <1>2 DEF ExistsBijection, Bijection
<1> QED BY <1>3, FS_Bijection

\* A set of numbers that has all below its members is counted by its last.
LEMMA CountBeginning ==
    ASSUME NEW n \in Nat, NEW B \in SUBSET (1..n), \A j \in B : \A i \in 1..j : i \in B
    PROVE  \E m \in 0..n : B = 1..m /\ Cardinality(B) = m
<1>1. CASE B = {}
  <2>1. B = 1..0 /\ 0 \in 0..n BY <1>1
  <2> QED BY <2>1, CountTo
<1>2. CASE B # {}
  <2>1. B \in SUBSET (0..n) OBVIOUS
  <2>2. PICK m : m \in B /\ \A y \in B : y <= m BY <1>2, <2>1, MaxOfIndices
  <2>3. m \in 0..n /\ m \in Nat BY <2>2
  <2>4. B = 1..m
    <3>1. \A i \in 1..m : i \in B BY <2>2
    <3>2. \A i \in B : i \in 1..n /\ i <= m BY <2>2
    <3>3. \A i \in B : i \in 1..m BY <2>3, <3>2
    <3> QED BY <3>1, <3>3
  <2> QED BY <2>3, <2>4, CountTo
<1> QED BY <1>1, <1>2

\* The hits of a sequence with a rank of at most x, by their places, and their number.
Upper(seq, x) == {i \in DOMAIN seq : seq[i].rank <= x}

Better(seq, x) == Cardinality(Upper(seq, x))

\* Hits have ranks.
IsHits(C) == \A h \in C : h.rank \in Int

\* They are finitely many.
LEMMA BetterIs ==
    ASSUME NEW C, NEW s \in Seq(C), NEW x
    PROVE  IsFiniteSet(Upper(s, x)) /\ Better(s, x) \in Nat /\ Better(s, x) <= Len(s)
<1>1. PICK n : n = Len(s) OBVIOUS
<1>2. n \in Nat /\ DOMAIN s = 1..n BY <1>1
<1>3. Upper(s, x) \in SUBSET (1..n) BY <1>2 DEF Upper
<1>4. IsFiniteSet(1..n) /\ Cardinality(1..n) = n BY <1>2, CountTo
<1> QED BY <1>1, <1>3, <1>4, FS_Subset, FS_CardinalityType DEF Better

\* Those of two sequences are as many as those of both.
LEMMA BetterOfBoth ==
    ASSUME NEW C, NEW a \in Seq(C), NEW b \in Seq(C), NEW x
    PROVE  Better(a \o b, x) = Better(a, x) + Better(b, x)
<1>1. PICK o, l, k : o = a \o b /\ l = Len(a) /\ k = Len(b) OBVIOUS
<1>2. /\ l \in Nat /\ k \in Nat /\ DOMAIN o = 1..(l + k) /\ DOMAIN a = 1..l /\ DOMAIN b = 1..k
      /\ \A i \in 1..(l + k) : o[i] = IF i <= l THEN a[i] ELSE b[i - l]
  BY <1>1
<1>3. PICK A, B, D, f : /\ A = Upper(a, x) /\ B = Upper(b, x)
                        /\ D = {i \in Upper(o, x) : i > l} /\ f = [j \in B |-> j + l]
  OBVIOUS
<1>4. A \in SUBSET (1..l) /\ B \in SUBSET (1..k) BY <1>2, <1>3 DEF Upper
<1>5. IsFiniteSet(A) /\ IsFiniteSet(B) BY <1>3, BetterIs
<1>6. IsFiniteSet(D) /\ Cardinality(D) = Cardinality(B)
  <2>1. \A j \in B : j + l \in 1..(l + k) /\ ~(j + l <= l) /\ j + l - l = j BY <1>2, <1>4
  <2>2. ASSUME NEW j \in B
        PROVE  o[j + l] = b[j]
    <3>1. PICK h : h = j + l OBVIOUS
    <3>2. h \in 1..(l + k) /\ ~(h <= l) /\ h - l = j BY <1>2, <1>4, <3>1
    <3>3. o[h] = b[h - l] BY <1>2, <3>2
    <3> QED BY <3>1, <3>2, <3>3
  <2>3. \A j \in B : b[j].rank <= x BY <1>3 DEF Upper
  <2>4. \A j \in B : f[j] = j + l /\ j + l \in D BY <1>2, <1>3, <2>1, <2>2, <2>3 DEF Upper
  <2>5. f \in [B -> D] BY <1>3, <2>4
  <2>6. \A i, j \in B : i # j => f[i] # f[j] BY <1>2, <1>4, <2>4
  <2>7. ASSUME NEW d \in D
        PROVE  \E j \in B : f[j] = d
    <3>1. d \in 1..(l + k) /\ d > l /\ o[d].rank <= x BY <1>2, <1>3 DEF Upper
    <3>2. d - l \in 1..k /\ ~(d <= l) /\ d - l + l = d BY <1>2, <3>1
    <3>3. o[d] = b[d - l] BY <1>2, <3>1, <3>2
    <3>4. d - l \in B BY <1>2, <1>3, <3>1, <3>2, <3>3 DEF Upper
    <3> QED BY <2>4, <3>2, <3>4
  <2> QED BY <1>5, <2>5, <2>6, <2>7, SameCount
<1>7. Upper(o, x) = A \cup D
  <2>1. \A i \in A : i \in 1..(l + k) /\ i <= l BY <1>2, <1>4
  <2>2. \A i \in A : o[i] = a[i] /\ a[i].rank <= x BY <1>2, <1>3, <2>1 DEF Upper
  <2>3. A \subseteq Upper(o, x) BY <1>2, <2>1, <2>2 DEF Upper
  <2>4. ASSUME NEW i \in Upper(o, x), ~(i > l)
        PROVE  i \in A
    <3>1. i \in 1..(l + k) /\ o[i].rank <= x BY <1>2 DEF Upper
    <3>2. i \in 1..l /\ i <= l BY <1>2, <2>4, <3>1
    <3> QED BY <1>2, <1>3, <3>1, <3>2 DEF Upper
  <2> QED BY <1>3, <2>3, <2>4
<1>8. A \cap D = {} BY <1>2, <1>3, <1>4
<1>9. Cardinality(A \cup D) = Cardinality(A) + Cardinality(D) - Cardinality(A \cap D)
  BY <1>5, <1>6, FS_Union
<1>10. Cardinality({}) = 0 /\ Cardinality(A) \in Nat /\ Cardinality(D) \in Nat
  BY <1>5, <1>6, FS_EmptySet, FS_CardinalityType
<1>11. Cardinality(Upper(o, x)) = Cardinality(A) + Cardinality(B)
  <2>1. Cardinality(A \cap D) = 0 BY <1>8, <1>10
  <2>2. PICK ca, cd : ca = Cardinality(A) /\ cd = Cardinality(D) OBVIOUS
  <2>3. Cardinality(A \cup D) = ca + cd - 0 /\ ca \in Nat /\ cd \in Nat BY <1>9, <1>10, <2>1, <2>2
  <2>4. Cardinality(A \cup D) = ca + cd BY <2>3
  <2> QED BY <1>6, <1>7, <2>2, <2>4
<1> QED BY <1>1, <1>3, <1>11 DEF Better

\* t has the elements of s, each at the place p[i], by number.
ByNumber(s, number, n, t, p) ==
    /\ p \in [1..n -> 1..n] /\ \A i, j \in 1..n : i # j => p[i] # p[j]
    /\ \A k \in 1..n : \E i \in 1..n : p[i] = k
    /\ t = [i \in 1..n |-> s[p[i]]]
    /\ \A i, j \in 1..n : i < j => number[p[i]] <= number[p[j]]

\* A sequence sorted by numbers.
LEMMA SortedSeqIs ==
    ASSUME NEW s, NEW n \in Nat, DOMAIN s = 1..n, NEW number, \A i \in 1..n : number[i] \in Int
    PROVE  \E p : ByNumber(s, number, n, SortedSeq(s, number), p)
<1>1. PICK S, key, p, m : /\ S = 1..n /\ key = [i \in S |-> <<number[i], i>>]
                          /\ p = Sorted(S, key) /\ m = 2
  OBVIOUS
<1>2. IsFiniteSet(S) /\ Cardinality(S) = n BY <1>1, CountTo
<1>3. \A i \in S : /\ DOMAIN key[i] = 1..2 /\ key[i][1] = number[i] /\ key[i][2] = i
                   /\ number[i] \in Int /\ i \in Int
  BY <1>1
<1>4. Keys(S, key, m)
  <2>1. \A x \in S : DOMAIN key[x] = 1..2 /\ \A i \in 1..2 : key[x][i] \in Int
    <3>1. \A i \in 1..2 : i = 1 \/ i = 2 OBVIOUS
    <3> QED BY <1>3, <3>1
  <2>2. ASSUME NEW x \in S, NEW y \in S, \A i \in 1..2 : key[x][i] = key[y][i]
        PROVE  x = y
    <3>1. 2 \in 1..2 OBVIOUS
    <3> QED BY <1>3, <2>2, <3>1
  <2> QED BY <1>1, <2>1, <2>2 DEF Keys
<1>5. /\ p \in [1..n -> S] /\ ToSet(p) = S /\ Once(p) /\ DOMAIN p = 1..n
      /\ \A i, j \in DOMAIN p : i < j => Less(key[p[i]], key[p[j]])
  <2>0. p = Sorted(S, key) BY <1>1
  <2>1. /\ p \in [1..Cardinality(S) -> S] /\ ToSet(p) = S /\ Once(p)
        /\ \A i, j \in DOMAIN p : i < j => Less(key[p[i]], key[p[j]])
    BY <1>2, <1>4, <2>0, SortedIs
  <2>2. p \in [1..n -> S] /\ DOMAIN p = 1..n BY <1>2, <2>1
  <2> QED BY <2>1, <2>2
<1>6. ASSUME NEW i \in 1..n, NEW j \in 1..n, i < j
      PROVE  number[p[i]] <= number[p[j]]
  <2>1. PICK a, b : a = p[i] /\ b = p[j] OBVIOUS
  <2>2. a \in S /\ b \in S /\ Less(key[a], key[b]) BY <1>5, <1>6, <2>1
  <2>3. PICK h \in DOMAIN key[a] : /\ key[a][h] < key[b][h]
                                   /\ \A g \in 1..(h - 1) : key[a][g] = key[b][g]
    BY <2>2 DEF Less
  <2>4. h = 1 \/ h = 2 BY <1>3, <2>2, <2>3
  <2>5. CASE h = 1 BY <1>3, <2>1, <2>2, <2>3, <2>5
  <2>6. CASE h = 2
    <3>1. 1 \in 1..(h - 1) BY <2>6
    <3>2. key[a][1] = key[b][1] BY <2>3, <3>1
    <3>3. number[a] = number[b] /\ number[a] \in Int BY <1>3, <2>2, <3>2
    <3>4. number[a] <= number[b] BY <3>3
    <3> QED BY <2>1, <3>4
  <2> QED BY <2>4, <2>5, <2>6
<1>7. \A k \in 1..n : \E i \in 1..n : p[i] = k BY <1>1, <1>5 DEF ToSet
<1>8. p \in [1..n -> 1..n] /\ \A i, j \in 1..n : i # j => p[i] # p[j] BY ONLY <1>1, <1>5 DEF Once
<1>9. SortedSeq(s, number) = [i \in 1..n |-> s[p[i]]] BY <1>1 DEF SortedSeq
<1>10. ByNumber(s, number, n, SortedSeq(s, number), p) BY <1>6, <1>7, <1>8, <1>9 DEF ByNumber
<1> QED BY <1>10

\* The first of a sequence.
LEMMA TakeIs ==
    ASSUME NEW C, NEW s \in Seq(C), NEW limit \in Nat, NEW k, k = Min({limit, Len(s)})
    PROVE  /\ Take(s, limit) \in Seq(C) /\ Len(Take(s, limit)) = k /\ k \in 0..Len(s) /\ k <= limit
           /\ \A i \in 1..k : Take(s, limit)[i] = s[i]
           /\ ToSet(Take(s, limit)) \subseteq ToSet(s)
<1>1. PICK n, t : n = Len(s) /\ t = Take(s, limit) OBVIOUS
<1>2. n \in Nat /\ DOMAIN s = 1..n /\ \A i \in 1..n : s[i] \in C BY <1>1
<1>3. k \in 0..n /\ k <= limit BY <1>1, <1>2, MinIs
<1>4. t = SubSeq(s, 1, k) BY <1>1 DEF Take
<1>5. t = [i \in 1..k |-> s[i]] BY <1>3, <1>4
<1>6. t \in [1..k -> C] /\ \A i \in 1..k : i \in 1..n
  <2>1. \A i \in 1..k : i \in 1..n BY <1>2, <1>3
  <2> QED BY <1>2, <1>5, <2>1
<1>7. t \in Seq(C) /\ Len(t) = k
  <2>1. k \in Nat BY <1>2, <1>3
  <2>2. t \in [1..k -> C] BY <1>6
  <2> QED BY ONLY <2>1, <2>2
<1>8. ToSet(t) \subseteq ToSet(s) BY <1>2, <1>5, <1>6 DEF ToSet
<1> QED BY <1>1, <1>3, <1>5, <1>7, <1>8

\* The best of a sequence: as many as there are, up to the limit, of each
\* rank and below.
LEMMA BestIs ==
    ASSUME NEW C, IsHits(C), NEW s \in Seq(C), NEW limit \in Nat
    PROVE  /\ Best(s, limit) \in Seq(C) /\ Len(Best(s, limit)) = Min({limit, Len(s)})
           /\ ToSet(Best(s, limit)) \subseteq ToSet(s)
           /\ \A x \in Int : Better(Best(s, limit), x) = Min({limit, Better(s, x)})
<1>1. PICK n, number, o, k, t :
        /\ n = Len(s) /\ number = [i \in DOMAIN s |-> s[i].rank] /\ o = SortedSeq(s, number)
        /\ k = Min({limit, n}) /\ t = Best(s, limit)
  OBVIOUS
<1>2. n \in Nat /\ DOMAIN s = 1..n /\ \A i \in 1..n : s[i] \in C BY <1>1
<1>3. \A i \in 1..n : number[i] = s[i].rank /\ s[i].rank \in Int BY <1>1, <1>2 DEF IsHits
<1>4. PICK p : ByNumber(s, number, n, o, p) BY <1>1, <1>2, <1>3, SortedSeqIs
<1>5. /\ DOMAIN o = 1..n /\ \A i \in 1..n : o[i] = s[p[i]] /\ p[i] \in 1..n
      /\ \A i, j \in 1..n : i < j => o[i].rank <= o[j].rank
  <2>1. DOMAIN o = 1..n /\ \A i \in 1..n : o[i] = s[p[i]] /\ p[i] \in 1..n BY <1>4 DEF ByNumber
  <2>2. \A i, j \in 1..n : i < j => number[p[i]] <= number[p[j]] BY <1>4 DEF ByNumber
  <2>3. \A i \in 1..n : o[i].rank = number[p[i]] BY <1>3, <2>1
  <2> QED BY <2>1, <2>2, <2>3
<1>6. o \in Seq(C) /\ Len(o) = n /\ ToSet(o) \subseteq ToSet(s)
  <2>1. o = [i \in 1..n |-> s[p[i]]] BY <1>4 DEF ByNumber
  <2>2. o \in [1..n -> C] BY <1>2, <1>5, <2>1
  <2>3. ToSet(o) \subseteq ToSet(s) BY <1>2, <1>5 DEF ToSet
  <2> QED BY <1>2, <2>2, <2>3
<1>7. t = Take(o, limit) BY <1>1 DEF Best
<1>8. /\ t \in Seq(C) /\ Len(t) = k /\ k \in 0..n /\ k <= limit /\ ToSet(t) \subseteq ToSet(s)
      /\ \A i \in 1..k : t[i] = o[i]
  <2>1. k = Min({limit, Len(o)}) BY <1>1, <1>6
  <2>2. /\ Take(o, limit) \in Seq(C) /\ Len(Take(o, limit)) = k /\ k \in 0..Len(o) /\ k <= limit
        /\ \A i \in 1..k : Take(o, limit)[i] = o[i]
        /\ ToSet(Take(o, limit)) \subseteq ToSet(o)
    BY <1>6, <2>1, TakeIs
  <2> QED BY <1>6, <1>7, <2>2
<1>9. ASSUME NEW x \in Int
      PROVE  Better(t, x) = Min({limit, Better(s, x)})
  <2>1. PICK B, D, f : /\ B = Upper(o, x) /\ D = Upper(s, x) /\ f = [i \in B |-> p[i]] OBVIOUS
  <2>2. B \in SUBSET (1..n) /\ \A i \in B : o[i].rank <= x BY <1>5, <2>1 DEF Upper
  <2>3. ASSUME NEW j \in B, NEW i \in 1..j
        PROVE  i \in B
    <3>0. j \in 1..n BY <2>2
    <3>1. i \in 1..n /\ j \in 1..n /\ (i = j \/ i < j) BY <1>2, <3>0
    <3>2. o[i].rank \in Int /\ o[j].rank \in Int BY <1>3, <1>5, <3>1
    <3>3. o[i].rank <= o[j].rank BY <1>5, <3>1, <3>2
    <3>4. o[i].rank <= x BY <2>2, <3>2, <3>3
    <3> QED BY <1>5, <2>1, <3>1, <3>4 DEF Upper
  <2>4. PICK m \in 0..n : B = 1..m /\ Cardinality(B) = m BY <1>2, <2>2, <2>3, CountBeginning
  <2>5. Cardinality(D) = m
    <3>1. \A i \in B : f[i] = p[i] /\ p[i] \in D BY <1>2, <1>5, <2>1, <2>2 DEF Upper
    <3>2. f \in [B -> D] BY <2>1, <3>1
    <3>3. \A i, j \in B : i # j => f[i] # f[j] BY <1>4, <2>2, <3>1 DEF ByNumber
    <3>4. ASSUME NEW d \in D
          PROVE  \E i \in B : f[i] = d
      <4>1. d \in 1..n /\ s[d].rank <= x BY <1>2, <2>1 DEF Upper
      <4>2. PICK i \in 1..n : p[i] = d BY <1>4, <4>1 DEF ByNumber
      <4>3. i \in B BY <1>5, <2>1, <4>1, <4>2 DEF Upper
      <4> QED BY <3>1, <4>2, <4>3
    <3>5. IsFiniteSet(B) BY <2>4, CountTo
    <3> QED BY <2>4, <3>2, <3>3, <3>4, <3>5, SameCount
  <2>6. PICK h : h = IF k <= m THEN k ELSE m OBVIOUS
  <2>7. Upper(t, x) = 1..h
    <3>1. DOMAIN t = 1..k BY <1>8
    <3>2. \A i \in 1..k : i \in 1..n BY <1>2, <1>8
    <3>3. \A i \in 1..k : t[i].rank <= x <=> i \in B BY <1>5, <1>8, <2>1, <3>2 DEF Upper
    <3>4. Upper(t, x) = {i \in 1..k : i \in 1..m} BY <2>4, <3>1, <3>3 DEF Upper
    <3>5. \A i \in 1..h : i \in 1..k /\ i \in 1..m BY <1>8, <2>4, <2>6
    <3>6. \A i \in 1..k : i \in 1..m => i \in 1..h BY <1>8, <2>4, <2>6
    <3> QED BY <3>4, <3>5, <3>6
  <2>8. h \in Nat BY <1>8, <2>4, <2>6
  <2>9. Better(t, x) = h BY <2>7, <2>8, CountTo DEF Better
  <2>10. h = Min({limit, m})
    <3>1. Min({limit, m}) = IF limit <= m THEN limit ELSE m BY <2>4, MinIs
    <3>2. k = IF limit <= n THEN limit ELSE n BY <1>1, <1>2, MinIs
    <3> QED BY <1>2, <2>4, <2>6, <3>1, <3>2
  <2> QED BY <2>1, <2>5, <2>9, <2>10 DEF Better
<1> QED BY <1>1, <1>8, <1>9

\* Hits are the best of a pool.
TopOf(out, pool, limit) ==
    /\ Len(out) = Min({limit, Len(pool)}) /\ ToSet(out) \subseteq ToSet(pool)
    /\ \A x \in Int : Better(out, x) = Min({limit, Better(pool, x)})

\* The best of the best of two pools are the best of both.
LEMMA BestOfBoth ==
    ASSUME NEW C, IsHits(C), NEW s \in Seq(C), NEW d \in Seq(C), NEW limit \in Nat,
           NEW out, out = Merged(Best(s, limit), Best(d, limit), limit)
    PROVE  TopOf(out, s \o d, limit)
<1>1. PICK a, b, o : a = Best(s, limit) /\ b = Best(d, limit) /\ o = a \o b OBVIOUS
<1>2. /\ a \in Seq(C) /\ Len(a) = Min({limit, Len(s)}) /\ ToSet(a) \subseteq ToSet(s)
      /\ \A x \in Int : Better(a, x) = Min({limit, Better(s, x)})
  BY <1>1, BestIs
<1>3. /\ b \in Seq(C) /\ Len(b) = Min({limit, Len(d)}) /\ ToSet(b) \subseteq ToSet(d)
      /\ \A x \in Int : Better(b, x) = Min({limit, Better(d, x)})
  BY <1>1, BestIs
<1>4. o \in Seq(C) /\ Len(o) = Len(a) + Len(b) /\ ToSet(o) = ToSet(a) \cup ToSet(b)
  BY <1>1, <1>2, <1>3, NothingJoins
<1>5. out = Best(o, limit) BY <1>1 DEF Merged
<1>6. /\ Len(out) = Min({limit, Len(o)}) /\ ToSet(out) \subseteq ToSet(o)
      /\ \A x \in Int : Better(out, x) = Min({limit, Better(o, x)})
  BY <1>4, <1>5, BestIs
<1>7. ASSUME NEW u \in Nat, NEW v \in Nat
      PROVE  Min({limit, Min({limit, u}) + Min({limit, v})}) = Min({limit, u + v})
  <2>1. PICK g, h : g = Min({limit, u}) /\ h = Min({limit, v}) OBVIOUS
  <2>2. g = (IF limit <= u THEN limit ELSE u) /\ h = (IF limit <= v THEN limit ELSE v)
    BY <2>1, MinIs
  <2>3. g \in Nat /\ h \in Nat BY <2>2
  <2>4. /\ Min({limit, g + h}) = IF limit <= g + h THEN limit ELSE g + h
        /\ Min({limit, u + v}) = IF limit <= u + v THEN limit ELSE u + v
    BY <2>3, MinIs
  <2>5. Min({limit, g + h}) = Min({limit, u + v}) BY <2>2, <2>4
  <2> QED BY <2>1, <2>5
<1>8. Len(out) = Min({limit, Len(s \o d)})
  <2>1. Len(s \o d) = Len(s) + Len(d) /\ Len(s) \in Nat /\ Len(d) \in Nat OBVIOUS
  <2>2. Min({limit, Min({limit, Len(s)}) + Min({limit, Len(d)})}) = Min({limit, Len(s) + Len(d)})
    BY <1>7, <2>1
  <2> QED BY <1>2, <1>3, <1>4, <1>6, <2>1, <2>2
<1>9. ToSet(out) \subseteq ToSet(s \o d) BY <1>2, <1>3, <1>4, <1>6, NothingJoins
<1>10. ASSUME NEW x \in Int
       PROVE  Better(out, x) = Min({limit, Better(s \o d, x)})
  <2>1. Better(s, x) \in Nat /\ Better(d, x) \in Nat BY BetterIs
  <2>2. Better(s \o d, x) = Better(s, x) + Better(d, x) BY BetterOfBoth
  <2>3. Better(o, x) = Better(a, x) + Better(b, x) BY <1>1, <1>2, <1>3, BetterOfBoth
  <2>4. Better(out, x) = Min({limit, Better(a, x) + Better(b, x)}) BY <1>6, <2>3
  <2> QED BY <1>2, <1>3, <1>7, <2>1, <2>2, <2>4
<1> QED BY <1>8, <1>9, <1>10 DEF TopOf

\* The inductive invariant: a case about the history has the hits of its search.
HistoryInv ==
    case.is = "history" =>
        /\ case.said \in MessageLists /\ case.evts \in EventLists
        /\ case.kind \in {"any", "tool_result", "tool_error"}
        /\ case.out = SearchHistory(case.said, case.evts, case.kind, case.project, HistoryLimit)

\* The hits a search may show (HistoryTop).
Wanted(kind, project, h) ==
    /\ project = "all" \/ h.project = project
    /\ kind = "any" \/ h.kind = "tool_result"
    /\ kind = "tool_error" => h.error

\* Those of two pools.
WantedOf(seq, kind, project) == Only(seq, {h \in ToSet(seq) : Wanted(kind, project, h)})

IsPool(messages, evts, kind, project, pool) ==
    /\ kind \in {"any", "tool_result", "tool_error"}
    /\ pool = WantedOf(IF kind = "any" THEN messages ELSE <<>>, kind, project)
                \o WantedOf(evts, kind, project)

\* What is searched of the two pools.
LEMMA SearchIs ==
    ASSUME NEW C, IsHits(C), NEW messages \in Seq(C), NEW evts \in Seq(C),
           NEW kind, NEW project, NEW pool, IsPool(messages, evts, kind, project, pool),
           NEW limit \in Nat, NEW out, out = SearchHistory(messages, evts, kind, project, limit)
    PROVE  TopOf(out, pool, limit)
<1> DEFINE inProject(h) == project = "all" \/ h.project = project
           ofKind(h) == CASE kind = "any" -> TRUE
                          [] kind = "tool_error" -> h.kind = "tool_result" /\ h.error
                          [] OTHER -> h.kind = kind
<1>1. PICK said, s, d : /\ said = IF kind = "any" THEN messages ELSE <<>>
                        /\ s = Only(said, {h \in ToSet(said) : Wanted(kind, project, h)})
                        /\ d = Only(evts, {h \in ToSet(evts) : Wanted(kind, project, h)})
  OBVIOUS
<1>2. said \in Seq(C)
  <2>1. CASE kind = "any" BY <1>1, <2>1
  <2>2. CASE kind # "any" BY <1>1, <2>2, NothingIs
  <2> QED BY <2>1, <2>2
<1>3. s \in Seq(C) /\ d \in Seq(C) BY <1>1, <1>2, OnlyIs
<1>4. s = IF kind # "any" THEN <<>> ELSE Only(messages, {h \in ToSet(messages) : inProject(h)})
  <2>1. CASE kind # "any"
    <3>1. said = <<>> BY <1>1, <2>1
    <3>2. said \in Seq(C) /\ ToSet(said) = {} BY <3>1, NothingIs
    <3>3. s = said BY <1>1, <3>2, OnlyAll
    <3> QED BY <2>1, <3>1, <3>3
  <2>2. CASE kind = "any"
    <3>1. said = messages BY <1>1, <2>2
    <3>2. {h \in ToSet(said) : Wanted(kind, project, h)} = {h \in ToSet(messages) : inProject(h)}
      BY <2>2, <3>1 DEF Wanted
    <3> QED BY <1>1, <2>2, <3>1, <3>2
  <2> QED BY <2>1, <2>2
<1>5. d = Only(evts, {h \in ToSet(evts) : inProject(h) /\ ofKind(h)})
  <2>1. ASSUME NEW h
        PROVE  Wanted(kind, project, h) <=> inProject(h) /\ ofKind(h)
    <3>1. CASE kind = "any" BY <3>1 DEF Wanted
    <3>2. CASE kind = "tool_error" BY <3>2 DEF Wanted
    <3>3. CASE kind = "tool_result" BY <3>3 DEF Wanted
    <3> QED BY <3>1, <3>2, <3>3 DEF IsPool
  <2>2. {h \in ToSet(evts) : Wanted(kind, project, h)}
          = {h \in ToSet(evts) : inProject(h) /\ ofKind(h)}
    <3> HIDE DEF inProject, ofKind
    <3> QED BY <2>1
  <2> QED BY <1>1, <2>2
<1>6. out = Merged(Best(s, limit), Best(d, limit), limit) BY <1>4, <1>5 DEF SearchHistory
<1>7. pool = s \o d BY <1>1 DEF IsPool, WantedOf
<1> HIDE DEF inProject, ofKind
<1>8. TopOf(out, s \o d, limit) BY <1>3, <1>6, BestOfBoth
<1> QED BY <1>7, <1>8

\* It implies the property.
LEMMA HistoryIsTop ==
    ASSUME HistoryInv
    PROVE  HistoryTop
<1> SUFFICES ASSUME case.is = "history"
             PROVE  HistoryTop
  BY DEF HistoryTop
<1>1. PICK messages, evts, kind, project, out, said, pool, C :
        /\ messages = case.said /\ evts = case.evts /\ kind = case.kind
        /\ project = case.project /\ out = case.out
        /\ said = IF kind = "any" THEN messages ELSE <<>>
        /\ pool = WantedOf(said, kind, project) \o WantedOf(evts, kind, project)
        /\ C = ToSet(messages) \cup ToSet(evts)
  OBVIOUS
<1>2. /\ messages \in MessageLists /\ evts \in EventLists
      /\ kind \in {"any", "tool_result", "tool_error"}
      /\ out = SearchHistory(messages, evts, kind, project, HistoryLimit)
  BY <1>1 DEF HistoryInv
<1>3. /\ messages \in Seq(ToSet(messages)) /\ evts \in Seq(ToSet(evts)) /\ HistoryLimit \in Nat
      /\ \A h \in C : h.rank \in Int
  BY <1>1, <1>2, SearchAssumption
<1>4. messages \in Seq(C) /\ evts \in Seq(C) /\ IsHits(C)
  <2>1. ToSet(messages) \subseteq C /\ ToSet(evts) \subseteq C BY <1>1
  <2> QED BY <1>3, <2>1, SeqOfMore DEF IsHits
<1>5. /\ Len(out) = Min({HistoryLimit, Len(pool)}) /\ ToSet(out) \subseteq ToSet(pool)
      /\ \A x \in Int : Better(out, x) = Min({HistoryLimit, Better(pool, x)})
  <2>1. IsPool(messages, evts, kind, project, pool) BY <1>1, <1>2 DEF IsPool
  <2>2. TopOf(out, pool, HistoryLimit) BY <1>2, <1>3, <1>4, <2>1, SearchIs
  <2> QED BY <2>2 DEF TopOf
<1>6. ToSet(pool) \subseteq C
  <2>1. said \in Seq(C)
    <3>1. CASE kind = "any" BY <1>1, <1>4, <3>1
    <3>2. CASE kind # "any" BY <1>1, <3>2, NothingIs
    <3> QED BY <3>1, <3>2
  <2>2. PICK s, d : /\ s = Only(said, {h \in ToSet(said) : Wanted(kind, project, h)})
                    /\ d = Only(evts, {h \in ToSet(evts) : Wanted(kind, project, h)})
    OBVIOUS
  <2>3. s \in Seq(C) /\ d \in Seq(C) /\ pool = s \o d
    BY <1>1, <1>4, <2>1, <2>2, OnlyIs DEF WantedOf
  <2>4. ToSet(pool) = ToSet(s) \cup ToSet(d) BY <2>3, NothingJoins
  <2>5. ToSet(s) \subseteq C /\ ToSet(d) \subseteq C BY <2>3, FewElements
  <2> QED BY <2>4, <2>5
<1>7. \A x \in {h.rank : h \in ToSet(pool)} :
        Cardinality({i \in DOMAIN out : out[i].rank <= x})
          = Min({HistoryLimit, Cardinality({i \in DOMAIN pool : pool[i].rank <= x})})
  BY <1>3, <1>5, <1>6 DEF Better, Upper
<1>8. said = IF case.kind = "any" THEN case.said ELSE <<>> BY <1>1
<1>9. pool = Only(said, {h \in ToSet(said) : /\ case.project = "all" \/ h.project = case.project
                                             /\ case.kind = "any" \/ h.kind = "tool_result"
                                             /\ case.kind = "tool_error" => h.error})
             \o Only(case.evts, {h \in ToSet(case.evts) :
                                   /\ case.project = "all" \/ h.project = case.project
                                   /\ case.kind = "any" \/ h.kind = "tool_result"
                                   /\ case.kind = "tool_error" => h.error})
  BY <1>1 DEF Wanted, WantedOf
<1> QED BY <1>1, <1>5, <1>7, <1>8, <1>9 DEF HistoryTop
-----------------------------------------------------------------------------
(***************************************************************************)
(* The chunks of a fallback.                                               *)
(***************************************************************************)

\* Rows have versions and scores.
IsRows(C) == \A row \in C : row.version \in Nat /\ row.score \in Int

\* Finitely many numbers have a bound.
LEMMA BoundExists ==
    ASSUME NEW n \in Nat, NEW v, \A i \in 1..n : v[i] \in Nat
    PROVE  \E b \in Nat : \A i \in 1..n : v[i] <= b
<1>1. CASE n = 0
  <2>1. \A i \in 1..n : v[i] <= 0 BY <1>1
  <2> QED BY <2>1
<1>2. CASE n # 0
  <2>1. PICK s : s = [i \in 1..n |-> i] OBVIOUS
  <2>2. DOMAIN s = 1..n /\ \A i \in 1..n : v[i] \in Int BY <2>1
  <2>3. PICK p : ByNumber(s, v, n, SortedSeq(s, v), p) BY <2>2, SortedSeqIs
  <2>4. n \in 1..n /\ p[n] \in 1..n BY <1>2, <2>3 DEF ByNumber
  <2>5. ASSUME NEW i \in 1..n
        PROVE  v[i] <= v[p[n]]
    <3>1. PICK k \in 1..n : p[k] = i BY <2>3 DEF ByNumber
    <3>2. k = n \/ k < n BY <3>1
    <3>3. CASE k = n BY <2>4, <3>1, <3>3
    <3>4. CASE k < n BY <2>3, <2>4, <3>1, <3>4 DEF ByNumber
    <3> QED BY <3>2, <3>3, <3>4
  <2> QED BY <2>4, <2>5
<1> QED BY <1>1, <1>2

\* Sections of one key are of one source.
LEMMA SectionsOfSource ==
    ASSUME NEW r, NEW s, ChunkKey(r) = ChunkKey(s)
    PROVE  SourceKey(r) = SourceKey(s)
<1>1. CASE r.path = NoPath /\ s.path = NoPath BY <1>1 DEF ChunkKey, SourceKey
<1>2. CASE r.path # NoPath /\ s.path # NoPath BY <1>2 DEF ChunkKey, SourceKey
<1>3. CASE r.path = NoPath /\ s.path # NoPath BY <1>3 DEF ChunkKey
<1>4. CASE r.path # NoPath /\ s.path = NoPath BY <1>4 DEF ChunkKey
<1> QED BY <1>1, <1>2, <1>3, <1>4

\* The newest row of a section.
LEMMA NewestIs ==
    ASSUME NEW C, IsRows(C), NEW s \in Seq(C), NEW i \in DOMAIN s,
           NEW r, r = Newest(s, i)
    PROVE  /\ r \in ToSet(s) /\ ChunkKey(r) = ChunkKey(s[i])
           /\ \A j \in DOMAIN s : ChunkKey(s[j]) = ChunkKey(s[i]) => s[j].version <= r.version
<1>1. PICK n, same, V, m, S, h, v :
        /\ n = Len(s) /\ same = {j \in DOMAIN s : ChunkKey(s[j]) = ChunkKey(s[i])}
        /\ V = {s[j].version : j \in same} /\ m = Max(V)
        /\ S = {j \in same : s[j].version = m} /\ h = Min(S)
        /\ v = [j \in DOMAIN s |-> s[j].version]
  OBVIOUS
<1>2. /\ n \in Nat /\ DOMAIN s = 1..n /\ i \in same /\ same \subseteq 1..n
      /\ \A j \in 1..n : s[j] \in C /\ s[j].version \in Nat /\ v[j] = s[j].version
  <2>1. n \in Nat /\ DOMAIN s = 1..n /\ \A j \in 1..n : s[j] \in C BY <1>1
  <2> QED BY <1>1, <2>1 DEF IsRows
<1>3. PICK b \in Nat : \A j \in 1..n : v[j] <= b BY <1>2, BoundExists
<1>4. V \in SUBSET (0..b) /\ V # {}
  <2>1. \A j \in 1..n : s[j].version \in 0..b BY <1>2, <1>3
  <2> QED BY <1>1, <1>2, <2>1
<1>5. m \in V /\ \A y \in V : y <= m BY <1>1, <1>4, MaxOfIndices
<1>6. S # {} /\ S \in SUBSET Nat
  <2>1. PICK j \in same : s[j].version = m BY <1>1, <1>5
  <2>2. j \in S BY <1>1, <2>1
  <2>3. S \subseteq 1..n BY <1>1, <1>2
  <2> QED BY <2>2, <2>3
<1>7. h \in S
  <2>1. PICK x \in S : \A y \in S : x <= y BY <1>6, LeastNat
  <2> QED BY <1>1, <2>1 DEF Min
<1>8. r = s[h] BY <1>1 DEF Newest
<1>9. h \in 1..n /\ ChunkKey(s[h]) = ChunkKey(s[i]) /\ s[h].version = m BY <1>1, <1>2, <1>7
<1>10. \A j \in DOMAIN s : ChunkKey(s[j]) = ChunkKey(s[i]) => s[j].version <= m BY <1>1, <1>5
<1> QED BY <1>2, <1>8, <1>9, <1>10 DEF ToSet

\* d has the newest row of each section of s once.
Current(d, s) ==
    /\ \A i, j \in DOMAIN d : ChunkKey(d[i]) = ChunkKey(d[j]) => i = j
    /\ \A j \in DOMAIN s : \E i \in DOMAIN d : ChunkKey(d[i]) = ChunkKey(s[j])
    /\ \A i \in DOMAIN d : /\ d[i] \in ToSet(s)
                           /\ \A j \in DOMAIN s :
                                ChunkKey(s[j]) = ChunkKey(d[i]) => s[j].version <= d[i].version

\* Rows are deduplicated.
LEMMA DeduplicatedIs ==
    ASSUME NEW C, IsRows(C), NEW s \in Seq(C)
    PROVE  Deduplicated(s) \in Seq(C) /\ Current(Deduplicated(s), s)
<1>1. PICK n, first, ids, order, d, l :
        /\ n = Len(s)
        /\ first = {i \in DOMAIN s : \A j \in 1..(i - 1) : ChunkKey(s[j]) # ChunkKey(s[i])}
        /\ ids = [i \in DOMAIN s |-> i] /\ order = Only(ids, first)
        /\ d = Deduplicated(s) /\ l = Len(order)
  OBVIOUS
<1>2. n \in Nat /\ DOMAIN s = 1..n /\ ids \in Seq(Nat) /\ Len(ids) = n /\ \A i \in 1..n : ids[i] = i
  <2>1. n \in Nat /\ DOMAIN s = 1..n BY <1>1
  <2>2. ids = [i \in 1..n |-> i] BY <1>1, <2>1
  <2>3. ids \in [1..n -> Nat] BY <2>1, <2>2
  <2> QED BY <2>1, <2>2, <2>3
<1>3. PICK at : order \in Seq(Nat) /\ KeptOf(ids, first, n, order, at)
  <2>1. Only(ids, first) \in Seq(Nat) /\ \E at : KeptOf(ids, first, Len(ids), Only(ids, first), at)
    <3>1. ids \in Seq(Nat) BY <1>2
    <3> QED BY ONLY <3>1, OnlyKeeps
  <2>2. order = Only(ids, first) /\ Len(ids) = n BY <1>1, <1>2
  <2> QED BY ONLY <2>1, <2>2
<1>4. l \in Nat /\ DOMAIN order = 1..l BY <1>1, <1>3
<1>5. \A i \in 1..l : order[i] = at[i] /\ order[i] \in 1..n /\ order[i] \in first
  BY ZenonT(30), <1>1, <1>2, <1>3 DEF KeptOf
<1>6. d = [i \in 1..l |-> Newest(s, order[i])] BY <1>1, <1>4 DEF Deduplicated
<1>7. \A i \in 1..l : /\ d[i] \in ToSet(s) /\ ChunkKey(d[i]) = ChunkKey(s[order[i]])
                      /\ \A j \in 1..n : ChunkKey(s[j]) = ChunkKey(s[order[i]])
                                           => s[j].version <= d[i].version
  BY <1>2, <1>5, <1>6, NewestIs
<1>8. d \in Seq(C)
  <2>1. ToSet(s) \subseteq C BY FewElements
  <2>2. d \in [1..l -> C] BY <1>6, <1>7, <2>1
  <2> QED BY <1>4, <2>2
<1>9. ASSUME NEW i \in 1..l, NEW j \in 1..l, i < j
      PROVE  ChunkKey(d[i]) # ChunkKey(d[j])
  <2>1. at[i] < at[j] BY <1>1, <1>3, <1>9 DEF KeptOf
  <2>2. order[i] \in 1..(order[j] - 1) BY <1>2, <1>5, <2>1
  <2>3. ChunkKey(s[order[i]]) # ChunkKey(s[order[j]]) BY <1>1, <1>5, <2>2
  <2> QED BY <1>7, <2>3
<1>10. \A i, j \in 1..l : ChunkKey(d[i]) = ChunkKey(d[j]) => i = j
  <2>1. \A i, j \in 1..l : i < j \/ j < i \/ i = j BY <1>4
  <2> QED BY <1>9, <2>1
<1>11. ASSUME NEW j \in 1..n
       PROVE  \E i \in 1..l : ChunkKey(d[i]) = ChunkKey(s[j])
  <2>1. PICK S : S = {h \in 1..n : ChunkKey(s[h]) = ChunkKey(s[j])} OBVIOUS
  <2>2. S # {} /\ S \in SUBSET Nat BY <1>2, <2>1
  <2>3. PICK h \in S : \A y \in S : h <= y BY <2>2, LeastNat
  <2>4. h \in first
    <3>1. h \in 1..n BY <2>1
    <3>2. ASSUME NEW g \in 1..(h - 1), ChunkKey(s[g]) = ChunkKey(s[h])
          PROVE  FALSE
      <4>1. g \in 1..n /\ g < h BY <1>2, <3>1
      <4>2. g \in S BY <2>1, <3>2, <4>1
      <4> QED BY <1>2, <2>3, <3>1, <4>1, <4>2
    <3> QED BY <1>1, <1>2, <3>1, <3>2
  <2>5. h \in 1..n /\ ids[h] \in first BY <1>2, <2>1, <2>4
  <2>6. PICK i \in 1..l : at[i] = h BY <1>1, <1>3, <2>5 DEF KeptOf
  <2>7. order[i] = h /\ ChunkKey(s[h]) = ChunkKey(s[j]) BY <1>5, <2>1, <2>6
  <2> QED BY <1>7, <2>7
<1>12. DOMAIN d = 1..l BY <1>6
<1>13. Current(d, s) BY <1>2, <1>7, <1>10, <1>11, <1>12 DEF Current
<1> QED BY <1>1, <1>8, <1>13

\* The places of the chunks of a source.
Of(seq, k) == {i \in DOMAIN seq : SourceKey(seq[i]) = k}

\* How many of its source come before a chunk.
TurnOf(d, i) == Cardinality({j \in 1..(i - 1) : SourceKey(d[j]) = SourceKey(d[i])})

\* out has chunks of d, each once, by its place.
Selection(out, d, q) ==
    /\ q \in [DOMAIN out -> DOMAIN d] /\ \A i, j \in DOMAIN out : i # j => q[i] # q[j]
    /\ \A i \in DOMAIN out : out[i] = d[q[i]]

\* No source is more than a chunk ahead of one that has more.
InTurn(out, d) ==
    \A k, l : Cardinality(Of(out, l)) < Cardinality(Of(d, l))
                => Cardinality(Of(out, k)) <= Cardinality(Of(out, l)) + 1

\* Where d has the chunks of a source that are selected.
ChosenOf(out, q, k) == {q[i] : i \in Of(out, k)}

\* They are as many in both sequences.
LEMMA SelectedOf ==
    ASSUME NEW out, NEW d, NEW n \in Nat, DOMAIN d = 1..n, NEW m \in Nat, DOMAIN out = 1..m,
           NEW q, Selection(out, d, q), NEW k
    PROVE  /\ ChosenOf(out, q, k) \subseteq Of(d, k)
           /\ IsFiniteSet(ChosenOf(out, q, k)) /\ IsFiniteSet(Of(d, k))
           /\ Cardinality(ChosenOf(out, q, k)) = Cardinality(Of(out, k))
           /\ Cardinality(ChosenOf(out, q, k)) \in Nat
<1>1. PICK S, T, f : S = Of(out, k) /\ T = {q[i] : i \in S} /\ f = [i \in S |-> q[i]] OBVIOUS
<1>2. S \subseteq 1..m /\ Of(d, k) \subseteq 1..n BY <1>1 DEF Of
<1>3. IsFiniteSet(S) /\ IsFiniteSet(Of(d, k)) BY <1>2, CountTo, FS_Subset
<1>4. f \in [S -> T] /\ \A i \in S : f[i] = q[i] BY <1>1
<1>5. \A i, j \in S : i # j => f[i] # f[j] BY <1>2, <1>4 DEF Selection
<1>6. \A t \in T : \E i \in S : f[i] = t BY <1>1, <1>4
<1>7. IsFiniteSet(T) /\ Cardinality(T) = Cardinality(S) BY <1>3, <1>4, <1>5, <1>6, SameCount
<1>8. T \subseteq Of(d, k)
  <2>1. ASSUME NEW i \in S
        PROVE  q[i] \in Of(d, k)
    <3>1. i \in DOMAIN out /\ SourceKey(out[i]) = k BY <1>1 DEF Of
    <3> QED BY <3>1 DEF Of, Selection
  <2> QED BY <1>1, <2>1
<1>9. ChosenOf(out, q, k) = T BY <1>1 DEF ChosenOf
<1> QED BY <1>1, <1>3, <1>7, <1>8, <1>9, FS_CardinalityType

\* p has the places of d, those of earlier turns first.
ByTurns(d, n, p) ==
    /\ DOMAIN d = 1..n
    /\ p \in [1..n -> 1..n] /\ \A i, j \in 1..n : i # j => p[i] # p[j]
    /\ \A k \in 1..n : \E i \in 1..n : p[i] = k
    /\ \A i, j \in 1..n : i < j => TurnOf(d, p[i]) <= TurnOf(d, p[j])

\* out has the chunks of d at the first m of them.
FirstOf(out, d, m, p) == DOMAIN out = 1..m /\ \A i \in 1..m : out[i] = d[p[i]]

\* Chunks in the order of their turns.
LEMMA TurnsAreTaken ==
    ASSUME NEW d, NEW n \in Nat, NEW p, ByTurns(d, n, p), NEW m \in 0..n,
           NEW out, FirstOf(out, d, m, p)
    PROVE  (\E q : Selection(out, d, q)) /\ InTurn(out, d)
<1>0. /\ DOMAIN d = 1..n /\ p \in [1..n -> 1..n] /\ \A i, j \in 1..n : i # j => p[i] # p[j]
      /\ \A k \in 1..n : \E i \in 1..n : p[i] = k
      /\ \A i, j \in 1..n : i < j => TurnOf(d, p[i]) <= TurnOf(d, p[j])
      /\ DOMAIN out = 1..m /\ \A i \in 1..m : out[i] = d[p[i]]
  BY DEF ByTurns, FirstOf
<1>1. PICK q : q = [i \in 1..m |-> p[i]] OBVIOUS
<1>2. m \in Nat /\ \A i \in 1..m : i \in 1..n OBVIOUS
<1>3. Selection(out, d, q) BY <1>0, <1>1, <1>2 DEF Selection
<1>4. ASSUME NEW k, NEW l, Cardinality(Of(out, l)) < Cardinality(Of(d, l)),
             ~(Cardinality(Of(out, k)) <= Cardinality(Of(out, l)) + 1)
      PROVE  FALSE
  <2>1. PICK K, L, a, b : /\ K = ChosenOf(out, q, k) /\ L = ChosenOf(out, q, l)
                          /\ a = Cardinality(K) /\ b = Cardinality(L)
    OBVIOUS
  <2>2. /\ K \subseteq Of(d, k) /\ IsFiniteSet(K) /\ IsFiniteSet(Of(d, k))
        /\ a = Cardinality(Of(out, k)) /\ a \in Nat
    <3>1. /\ K \subseteq Of(d, k) /\ IsFiniteSet(K) /\ IsFiniteSet(Of(d, k))
          /\ Cardinality(K) = Cardinality(Of(out, k)) /\ Cardinality(K) \in Nat
      BY <1>0, <1>2, <1>3, <2>1, SelectedOf
    <3> QED BY <2>1, <3>1
  <2>3. /\ L \subseteq Of(d, l) /\ IsFiniteSet(L) /\ IsFiniteSet(Of(d, l))
        /\ b = Cardinality(Of(out, l)) /\ b \in Nat
    <3>1. /\ L \subseteq Of(d, l) /\ IsFiniteSet(L) /\ IsFiniteSet(Of(d, l))
          /\ Cardinality(L) = Cardinality(Of(out, l)) /\ Cardinality(L) \in Nat
      BY <1>0, <1>2, <1>3, <2>1, SelectedOf
    <3> QED BY <2>1, <3>1
  <2>4. a > b + 1 BY <1>4, <2>2, <2>3
  <2>5. PICK R : R = Of(d, l) \ L OBVIOUS
  <2>6. R # {}
    <3>1. ASSUME R = {}
          PROVE  FALSE
      <4>1. L = Of(d, l) BY <2>3, <2>5, <3>1
      <4>2. b < Cardinality(Of(d, l)) /\ b = Cardinality(Of(d, l)) BY <1>4, <2>1, <2>3, <4>1
      <4> QED BY <2>3, <4>2
    <3> QED BY <3>1
  <2>7. R \in SUBSET Nat /\ R \subseteq 1..n BY <1>0, <2>5 DEF Of
  <2>8. PICK y \in R : \A z \in R : y <= z BY <1>0, <2>6, <2>7, LeastNat
  <2>9. y \in 1..n /\ SourceKey(d[y]) = l /\ y \notin L BY <1>0, <2>5, <2>8 DEF Of
  <2>10. TurnOf(d, y) <= b /\ TurnOf(d, y) \in Nat
    <3>1. PICK B : B = {j \in 1..(y - 1) : SourceKey(d[j]) = l} OBVIOUS
    <3>2. ASSUME NEW j \in B
          PROVE  j \in L
      <4>1. j \in 1..n /\ SourceKey(d[j]) = l /\ j < y BY <1>0, <2>9, <3>1
      <4>2. j \notin R BY <1>0, <2>7, <2>8, <4>1
      <4> QED BY <1>0, <2>5, <4>1, <4>2 DEF Of
    <3>3. Cardinality(B) <= b /\ IsFiniteSet(B)
      <4>1. B \in SUBSET L BY <3>2
      <4>2. IsFiniteSet(L) /\ Cardinality(L) = b BY <2>1, <2>3
      <4> QED BY <4>1, <4>2, FS_Subset
    <3> QED BY <1>0, <2>9, <3>1, <3>3, FS_CardinalityType DEF TurnOf
  <2>11. K # {} /\ K \in SUBSET (0..n)
    <3>1. K # {}
      <4>1. ASSUME K = {}
            PROVE  FALSE
        <5>1. a = 0 BY <2>1, <4>1, FS_EmptySet
        <5> QED BY <2>3, <2>4, <5>1
      <4> QED BY <4>1
    <3>2. K \subseteq 1..n BY <1>0, <2>2 DEF Of
    <3>3. \A i \in 1..n : i \in 0..n OBVIOUS
    <3> QED BY <1>0, <3>1, <3>2, <3>3
  <2>12. PICK x \in K : \A z \in K : z <= x BY <1>0, <2>11, MaxOfIndices
  <2>13. x \in 1..n /\ SourceKey(d[x]) = k BY <1>0, <2>2, <2>12 DEF Of
  <2>14. TurnOf(d, x) \in Nat /\ a - 1 <= TurnOf(d, x)
    <3>1. PICK B, D : B = {j \in 1..(x - 1) : SourceKey(d[j]) = k} /\ D = K \ {x} OBVIOUS
    <3>2. ASSUME NEW j \in D
          PROVE  j \in B
      <4>1. j \in K /\ j # x BY <3>1
      <4>2. j \in 1..n /\ SourceKey(d[j]) = k BY <1>0, <2>2, <4>1 DEF Of
      <4>3. j <= x BY <2>12, <4>1
      <4>4. j \in 1..(x - 1) BY <1>0, <2>13, <4>1, <4>2, <4>3
      <4> QED BY <3>1, <4>2, <4>4
    <3>3. Cardinality(D) = a - 1 BY <2>1, <2>2, <2>12, <3>1, FS_RemoveElement
    <3>4. IsFiniteSet(B)
      <4>1. x - 1 \in Nat /\ B \subseteq 1..(x - 1) BY <1>0, <2>13, <3>1
      <4> QED BY <1>0, <4>1, CountTo, FS_Subset
    <3>5. Cardinality(D) <= Cardinality(B) /\ Cardinality(B) \in Nat
      BY <3>2, <3>4, FS_Subset, FS_CardinalityType
    <3>6. TurnOf(d, x) = Cardinality(B) BY <1>0, <2>13, <3>1 DEF TurnOf
    <3> QED BY <3>3, <3>5, <3>6
  <2>15. TurnOf(d, y) < TurnOf(d, x) BY <2>2, <2>3, <2>4, <2>10, <2>14
  <2>16. PICK g \in Of(out, k) : q[g] = x BY <2>1, <2>12 DEF ChosenOf
  <2>17. g \in 1..m /\ p[g] = x BY <1>0, <1>1, <2>16 DEF Of
  <2>18. PICK h \in 1..n : p[h] = y BY <1>0, <2>9
  <2>19. ~(g <= h)
    <3>1. ASSUME g <= h
          PROVE  FALSE
      <4>1. g < h \/ g = h BY <2>17, <2>18, <3>1
      <4>2. CASE g = h BY <2>10, <2>15, <2>17, <2>18, <4>2
      <4>3. CASE g < h
        <5>1. g \in 1..n BY <1>0, <1>2, <2>17
        <5>2. TurnOf(d, x) <= TurnOf(d, y) BY <1>0, <2>17, <2>18, <4>3, <5>1
        <5> QED BY <2>10, <2>14, <2>15, <5>2
      <4> QED BY <4>1, <4>2, <4>3
    <3> QED BY <3>1
  <2>20. h \in 1..m BY <1>0, <1>2, <2>17, <2>18, <2>19
  <2>21. h \in Of(out, l) /\ q[h] = y BY <1>0, <1>1, <2>9, <2>18, <2>20 DEF Of
  <2> QED BY <2>1, <2>9, <2>21 DEF ChosenOf
<1>5. InTurn(out, d) BY <1>4 DEF InTurn
<1> QED BY <1>3, <1>5

\* The first of each source, and then the next.
LEMMA RoundRobinIs ==
    ASSUME NEW C, NEW d \in Seq(C), NEW limit \in Nat, NEW out, out = RoundRobin(d, limit)
    PROVE  /\ \E m \in Nat : DOMAIN out = 1..m
           /\ \E q : Selection(out, d, q)
           /\ out # <<>> => InTurn(out, d)
<1>1. PICK n : n = Len(d) OBVIOUS
<1>2. n \in Nat /\ DOMAIN d = 1..n /\ \A i \in 1..n : d[i] \in C BY <1>1
<1>3. CASE limit = 0 \/ n <= limit
  <2>1. out = Take(d, limit) BY <1>1, <1>3 DEF RoundRobin
  <2>2. PICK m : m = Min({limit, Len(d)}) OBVIOUS
  <2>3. /\ out \in Seq(C) /\ Len(out) = m /\ m \in 0..n /\ m <= limit
        /\ \A i \in 1..m : out[i] = d[i]
    <3>1. /\ Take(d, limit) \in Seq(C) /\ Len(Take(d, limit)) = m /\ m \in 0..Len(d) /\ m <= limit
          /\ \A i \in 1..m : Take(d, limit)[i] = d[i]
      BY <2>2, TakeIs
    <3> QED BY <1>1, <2>1, <3>1
  <2>4. m \in Nat /\ DOMAIN out = 1..m /\ \A i \in 1..m : i \in 1..n BY <1>2, <2>3
  <2>5. Selection(out, d, [i \in 1..m |-> i]) BY <1>2, <2>3, <2>4 DEF Selection
  <2>6. ASSUME out # <<>>
        PROVE  InTurn(out, d)
    <3>1. m # 0 BY <2>3, <2>6
    <3>2. n <= limit BY <1>3, <2>3, <3>1
    <3>3. m = n BY <1>1, <1>2, <2>2, <3>2, MinIs
    <3>4. \A l : Of(out, l) = Of(d, l) BY <1>2, <2>3, <2>4, <3>3 DEF Of
    <3>5. \A l : Cardinality(Of(d, l)) \in Nat
      <4>1. \A l : Of(d, l) \subseteq 1..n BY <1>2 DEF Of
      <4>2. IsFiniteSet(1..n) BY <1>2, CountTo
      <4> QED BY <4>1, <4>2, FS_Subset, FS_CardinalityType
    <3> QED BY <3>4, <3>5 DEF InTurn
  <2> QED BY <2>4, <2>5, <2>6
<1>4. CASE ~(limit = 0 \/ n <= limit)
  <2> DEFINE turn(i) == Cardinality({j \in 1..(i - 1) : SourceKey(d[j]) = SourceKey(d[i])})
             lead(i) == Min({j \in DOMAIN d : SourceKey(d[j]) = SourceKey(d[i])})
  <2>1. PICK S, key, p, s, two : /\ S = DOMAIN d /\ key = [i \in S |-> <<turn(i), lead(i)>>]
                                 /\ p = Sorted(S, key) /\ s = [i \in DOMAIN d |-> d[p[i]]]
                                 /\ two = 2
    OBVIOUS
  <2>2. out = Take(s, limit) BY <1>1, <1>4, <2>1 DEF RoundRobin
  <2>3. S = 1..n /\ IsFiniteSet(S) /\ Cardinality(S) = n BY <1>2, <2>1, CountTo
  <2>4. ASSUME NEW i \in 1..n
        PROVE  /\ turn(i) \in Nat /\ IsFiniteSet({j \in 1..(i - 1) : SourceKey(d[j]) = SourceKey(d[i])})
               /\ lead(i) \in Nat /\ SourceKey(d[lead(i)]) = SourceKey(d[i])
    <3>1. PICK B, T : /\ B = {j \in 1..(i - 1) : SourceKey(d[j]) = SourceKey(d[i])}
                      /\ T = {j \in DOMAIN d : SourceKey(d[j]) = SourceKey(d[i])}
      OBVIOUS
    <3>2. IsFiniteSet(B)
      <4>1. i - 1 \in Nat /\ B \subseteq 1..(i - 1) BY <3>1
      <4> QED BY <4>1, CountTo, FS_Subset
    <3>3. Cardinality(B) \in Nat BY <3>2, FS_CardinalityType
    <3>4. T # {} /\ T \in SUBSET Nat BY <1>2, <3>1
    <3>5. PICK x \in T : \A y \in T : x <= y BY <3>4, LeastNat
    <3>6. Min(T) \in T BY <3>5 DEF Min
    <3> QED BY <3>1, <3>2, <3>3, <3>4, <3>6
  <2>5. ASSUME NEW i \in 1..n, NEW j \in 1..n, i < j, SourceKey(d[i]) = SourceKey(d[j])
        PROVE  turn(i) < turn(j)
    <3>1. PICK A, B : /\ A = {h \in 1..(i - 1) : SourceKey(d[h]) = SourceKey(d[i])}
                      /\ B = {h \in 1..(j - 1) : SourceKey(d[h]) = SourceKey(d[j])}
      OBVIOUS
    <3>2. A \subseteq B /\ i \in B /\ i \notin A
      <4>1. \A h \in 1..(i - 1) : h \in 1..(j - 1) BY <2>5
      <4>2. i \in 1..(j - 1) /\ i \notin 1..(i - 1) BY <2>5
      <4> QED BY <2>5, <3>1, <4>1, <4>2
    <3>3. IsFiniteSet(B) /\ IsFiniteSet(A) /\ Cardinality(A) \in Nat /\ Cardinality(B) \in Nat
      BY <2>4, <3>1
    <3>4. Cardinality(A) <= Cardinality(B) /\ Cardinality(A) # Cardinality(B)
      BY <3>2, <3>3, FS_Subset
    <3> QED BY <3>1, <3>3, <3>4
  <2> HIDE DEF turn, lead
  <2>6. \A i \in S : /\ DOMAIN key[i] = 1..2 /\ key[i][1] = turn(i) /\ key[i][2] = lead(i)
                     /\ turn(i) \in Int /\ lead(i) \in Int
    <3>1. ASSUME NEW i \in S
          PROVE  key[i] = <<turn(i), lead(i)>> /\ turn(i) \in Nat /\ lead(i) \in Nat
      BY <2>1, <2>3, <2>4
    <3>2. \A x, y : DOMAIN <<x, y>> = 1..2 /\ <<x, y>>[1] = x /\ <<x, y>>[2] = y OBVIOUS
    <3> QED BY <3>1, <3>2
  <2>7. Keys(S, key, two)
    <3>1. \A x \in S : DOMAIN key[x] = 1..2 /\ \A i \in 1..2 : key[x][i] \in Int
      <4>1. \A i \in 1..2 : i = 1 \/ i = 2 OBVIOUS
      <4> QED BY <2>6, <4>1
    <3>2. ASSUME NEW x \in S, NEW y \in S, \A i \in 1..2 : key[x][i] = key[y][i]
          PROVE  x = y
      <4>1. 1 \in 1..2 /\ 2 \in 1..2 OBVIOUS
      <4>2. turn(x) = turn(y) /\ lead(x) = lead(y) BY <2>6, <3>2, <4>1
      <4>3. SourceKey(d[x]) = SourceKey(d[y]) BY <2>3, <2>4, <4>2
      <4>4. ~(x < y) /\ ~(y < x)
        <5>1. x \in 1..n /\ y \in 1..n BY <2>3
        <5>2. turn(x) \in Nat BY <2>4, <5>1
        <5>3. x < y => turn(x) < turn(y) BY <2>5, <4>3, <5>1
        <5>4. y < x => turn(y) < turn(x) BY <2>5, <4>3, <5>1
        <5> QED BY <4>2, <5>2, <5>3, <5>4
      <4>5. x \in 1..n /\ y \in 1..n BY <2>3
      <4> QED BY <4>4, <4>5
    <3> QED BY <2>1, <3>1, <3>2 DEF Keys
  <2>8. p = Sorted(S, key) BY <2>1
  <2>9. /\ p \in [1..Cardinality(S) -> S] /\ ToSet(p) = S /\ Once(p)
        /\ \A i, j \in DOMAIN p : i < j => Less(key[p[i]], key[p[j]])
    BY <2>3, <2>7, <2>8, SortedIs
  <2>10. /\ p \in [1..n -> 1..n] /\ DOMAIN p = 1..n /\ \A i, j \in 1..n : i # j => p[i] # p[j]
         /\ \A k \in 1..n : \E i \in 1..n : p[i] = k
    <3>1. p \in [1..n -> 1..n] /\ DOMAIN p = 1..n BY <2>3, <2>9
    <3> QED BY <2>3, <2>9, <3>1 DEF Once, ToSet
  <2>11. ASSUME NEW i \in 1..n, NEW j \in 1..n, i < j
         PROVE  TurnOf(d, p[i]) <= TurnOf(d, p[j])
    <3>1. PICK a, b : a = p[i] /\ b = p[j] OBVIOUS
    <3>2. a \in S /\ b \in S /\ Less(key[a], key[b]) BY <2>3, <2>9, <2>10, <2>11, <3>1
    <3>3. PICK h \in DOMAIN key[a] : /\ key[a][h] < key[b][h]
                                     /\ \A g \in 1..(h - 1) : key[a][g] = key[b][g]
      BY <3>2 DEF Less
    <3>4. h = 1 \/ h = 2 BY <2>6, <3>2, <3>3
    <3>5. turn(a) <= turn(b)
      <4>1. CASE h = 1 BY <2>6, <3>2, <3>3, <4>1
      <4>2. CASE h = 2
        <5>1. 1 \in 1..(h - 1) BY <4>2
        <5>2. key[a][1] = key[b][1] BY <3>3, <5>1
        <5>3. turn(a) = turn(b) /\ turn(a) \in Int BY <2>6, <3>2, <5>2
        <5> QED BY <5>3
      <4> QED BY <3>4, <4>1, <4>2
    <3>6. TurnOf(d, a) = turn(a) /\ TurnOf(d, b) = turn(b) BY DEF TurnOf, turn
    <3> QED BY <3>1, <3>5, <3>6
  <2>12. s \in Seq(C) /\ Len(s) = n /\ \A i \in 1..n : s[i] = d[p[i]]
    <3>1. s = [i \in 1..n |-> d[p[i]]] BY <1>2, <2>1
    <3>2. s \in [1..n -> C] BY <1>2, <2>10, <3>1
    <3> QED BY <1>2, <3>1, <3>2
  <2>13. PICK m : m = Min({limit, Len(s)}) OBVIOUS
  <2>14. /\ out \in Seq(C) /\ Len(out) = m /\ m \in 0..n /\ \A i \in 1..m : out[i] = s[i]
    <3>1. /\ Take(s, limit) \in Seq(C) /\ Len(Take(s, limit)) = m /\ m \in 0..Len(s)
          /\ \A i \in 1..m : Take(s, limit)[i] = s[i]
      <4>1. s \in Seq(C) BY <2>12
      <4> QED BY <2>13, <4>1, TakeIs
    <3> QED BY <2>2, <2>12, <3>1
  <2>15. m \in Nat /\ DOMAIN out = 1..m /\ \A i \in 1..m : out[i] = d[p[i]] BY <1>2, <2>12, <2>14
  <2>16. (\E q : Selection(out, d, q)) /\ InTurn(out, d)
    <3>1. ByTurns(d, n, p) BY <1>2, <2>10, <2>11 DEF ByTurns
    <3>2. FirstOf(out, d, m, p) BY <2>15 DEF FirstOf
    <3> QED BY <1>2, <2>14, <3>1, <3>2, TurnsAreTaken
  <2> QED BY <2>15, <2>16
<1> QED BY <1>3, <1>4

\* The inductive invariant: a case about chunks has those of the rows fetched.
ChunksInv ==
    case.is = "chunks" =>
        /\ case.rows \in Seq(ToSet(case.rows)) /\ IsRows(ToSet(case.rows))
        /\ case.out = FallbackChunks(case.rows, ChunkLimit)

\* As many sections of a source as chunks when each has its newest row.
LEMMA HeldOf ==
    ASSUME NEW C, NEW d \in Seq(C), NEW rows, Current(d, rows),
           \A i \in DOMAIN d : d[i] \in ToSet(rows), NEW k
    PROVE  Cardinality(Of(d, k))
             = Cardinality({ChunkKey(rows[i]) : i \in {j \in DOMAIN rows : SourceKey(rows[j]) = k}})
<1>1. PICK S, T, f : /\ S = Of(d, k) /\ f = [i \in S |-> ChunkKey(d[i])]
                     /\ T = {ChunkKey(rows[i]) : i \in {j \in DOMAIN rows : SourceKey(rows[j]) = k}}
  OBVIOUS
<1>2. IsFiniteSet(S)
  <2>1. PICK n \in Nat : DOMAIN d = 1..n OBVIOUS
  <2>2. S \subseteq 1..n BY <1>1, <2>1 DEF Of
  <2> QED BY <2>2, CountTo, FS_Subset
<1>3. ASSUME NEW i \in S
      PROVE  f[i] = ChunkKey(d[i]) /\ f[i] \in T /\ i \in DOMAIN d
  <2>1. i \in DOMAIN d /\ SourceKey(d[i]) = k BY <1>1 DEF Of
  <2>2. PICK j \in DOMAIN rows : d[i] = rows[j] BY <2>1 DEF ToSet
  <2> QED BY <1>1, <2>1, <2>2
<1>4. f \in [S -> T] BY <1>1, <1>3
<1>5. \A i, j \in S : i # j => f[i] # f[j] BY <1>3 DEF Current
<1>6. ASSUME NEW t \in T
      PROVE  \E i \in S : f[i] = t
  <2>1. PICK j \in DOMAIN rows : SourceKey(rows[j]) = k /\ t = ChunkKey(rows[j]) BY <1>1
  <2>2. PICK i \in DOMAIN d : ChunkKey(d[i]) = ChunkKey(rows[j]) BY <2>1 DEF Current
  <2>3. SourceKey(d[i]) = k BY <2>1, <2>2, SectionsOfSource
  <2>4. i \in S BY <1>1, <2>3 DEF Of
  <2> QED BY <1>3, <2>1, <2>2, <2>4
<1>7. Cardinality(T) = Cardinality(S) BY <1>2, <1>4, <1>5, <1>6, SameCount
<1> QED BY <1>1, <1>7

\* The rows are sorted, and none is lost.
LEMMA SortedRows ==
    ASSUME NEW C, IsRows(C), NEW rows \in Seq(C),
           NEW s, s = SortedSeq(rows, [i \in DOMAIN rows |-> -rows[i].score])
    PROVE  s \in Seq(C) /\ ToSet(s) = ToSet(rows)
<1>1. PICK n, number : n = Len(rows) /\ number = [i \in DOMAIN rows |-> -rows[i].score] OBVIOUS
<1>2. n \in Nat /\ DOMAIN rows = 1..n /\ \A i \in 1..n : rows[i] \in C BY <1>1
<1>3. \A i \in 1..n : number[i] \in Int
  <2>1. \A i \in 1..n : rows[i].score \in Int /\ number[i] = -rows[i].score
    BY <1>1, <1>2 DEF IsRows
  <2> QED BY <2>1
<1>4. s = SortedSeq(rows, number) BY <1>1
<1>5. PICK p : ByNumber(rows, number, n, s, p) BY <1>2, <1>3, <1>4, SortedSeqIs
<1>6. /\ p \in [1..n -> 1..n] /\ \A k \in 1..n : \E i \in 1..n : p[i] = k
      /\ s = [i \in 1..n |-> rows[p[i]]]
  BY <1>5 DEF ByNumber
<1>7. s \in [1..n -> C]
  <2>1. \A i \in 1..n : rows[p[i]] \in C BY <1>2, <1>6
  <2> QED BY <1>6, <2>1
<1>8. s \in Seq(C) BY <1>2, <1>7
<1>9. ToSet(s) \subseteq ToSet(rows)
  <2>1. \A i \in 1..n : s[i] = rows[p[i]] /\ p[i] \in 1..n BY <1>6
  <2>2. \A i \in 1..n : s[i] \in ToSet(rows) BY <1>2, <2>1 DEF ToSet
  <2>3. DOMAIN s = 1..n BY <1>6
  <2> QED BY <2>2, <2>3 DEF ToSet
<1>10. ASSUME NEW k \in 1..n
       PROVE  rows[k] \in ToSet(s)
  <2>1. PICK i \in 1..n : p[i] = k BY <1>6
  <2>2. s[i] = rows[k] /\ DOMAIN s = 1..n BY <1>6, <2>1
  <2> QED BY <2>2 DEF ToSet
<1>11. ToSet(rows) \subseteq ToSet(s) BY <1>2, <1>10 DEF ToSet
<1> QED BY <1>8, <1>9, <1>11

\* What is current of one order of rows is of another.
LEMMA CurrentInAnyOrder ==
    ASSUME NEW d, NEW s, NEW rows, ToSet(s) = ToSet(rows), Current(d, s)
    PROVE  Current(d, rows)
<1>1. ASSUME NEW j \in DOMAIN rows
      PROVE  \E h \in DOMAIN s : s[h] = rows[j]
  <2>1. rows[j] \in ToSet(s) BY DEF ToSet
  <2> QED BY <2>1 DEF ToSet
<1>2. ASSUME NEW j \in DOMAIN rows
      PROVE  \E i \in DOMAIN d : ChunkKey(d[i]) = ChunkKey(rows[j])
  <2>1. PICK h \in DOMAIN s : s[h] = rows[j] BY <1>1
  <2> QED BY <2>1 DEF Current
<1>3. ASSUME NEW i \in DOMAIN d, NEW j \in DOMAIN rows, ChunkKey(rows[j]) = ChunkKey(d[i])
      PROVE  rows[j].version <= d[i].version
  <2>1. PICK h \in DOMAIN s : s[h] = rows[j] BY <1>1
  <2>2. s[h].version <= d[i].version BY <1>3, <2>1 DEF Current
  <2> QED BY <2>1, <2>2
<1>4. \A i \in DOMAIN d : d[i] \in ToSet(rows) BY DEF Current
<1>5. \A i, j \in DOMAIN d : ChunkKey(d[i]) = ChunkKey(d[j]) => i = j BY DEF Current
<1> QED BY <1>2, <1>3, <1>4, <1>5 DEF Current

\* The invariant implies the property.
LEMMA ChunksAreChosen ==
    ASSUME ChunksInv
    PROVE  ChunksChosen
<1> SUFFICES ASSUME case.is = "chunks"
             PROVE  ChunksChosen
  BY DEF ChunksChosen, NewestOfSection, SourcesTakeTurns
<1>1. PICK rows, out, C, s, d :
        /\ rows = case.rows /\ out = case.out /\ C = ToSet(rows)
        /\ s = SortedSeq(rows, [i \in DOMAIN rows |-> -rows[i].score]) /\ d = Deduplicated(s)
  OBVIOUS
<1>2. rows \in Seq(C) /\ IsRows(C) /\ out = FallbackChunks(rows, ChunkLimit) /\ ChunkLimit \in Nat
  BY <1>1, SearchAssumption DEF ChunksInv
<1>3. s \in Seq(C) /\ ToSet(s) = ToSet(rows) BY <1>1, <1>2, SortedRows
<1>4. d \in Seq(C) /\ Current(d, s) BY <1>1, <1>2, <1>3, DeduplicatedIs
<1>5. Current(d, rows) BY <1>3, <1>4, CurrentInAnyOrder
<1>6. out = RoundRobin(d, ChunkLimit) BY <1>1, <1>2 DEF FallbackChunks, Chunks
<1>7. /\ \E q : Selection(out, d, q)
      /\ out # <<>> => InTurn(out, d)
  BY <1>2, <1>4, <1>6, RoundRobinIs
<1>8. NewestOfSection
  <2>1. PICK q : Selection(out, d, q) BY <1>7
  <2>2. ASSUME NEW i \in DOMAIN out, NEW j \in DOMAIN out, ChunkKey(out[i]) = ChunkKey(out[j])
        PROVE  i = j
    <3>1. q[i] \in DOMAIN d /\ q[j] \in DOMAIN d /\ out[i] = d[q[i]] /\ out[j] = d[q[j]]
      BY <2>1 DEF Selection
    <3>2. q[i] = q[j] BY <1>5, <2>2, <3>1 DEF Current
    <3> QED BY <2>1, <3>2 DEF Selection
  <2>3. ASSUME NEW i \in DOMAIN out, NEW j \in DOMAIN rows, ChunkKey(rows[j]) = ChunkKey(out[i])
        PROVE  rows[j].version <= out[i].version
    <3>1. q[i] \in DOMAIN d /\ out[i] = d[q[i]] BY <2>1 DEF Selection
    <3> QED BY <1>5, <2>3, <3>1 DEF Current
  <2> QED BY <1>1, <2>2, <2>3 DEF NewestOfSection
<1>9. SourcesTakeTurns
  <2> DEFINE shown(k) == Cardinality({i \in DOMAIN case.out : SourceKey(case.out[i]) = k})
             held(k) == Cardinality({ChunkKey(case.rows[i]) :
                                       i \in {j \in DOMAIN case.rows : SourceKey(case.rows[j]) = k}})
  <2>1. \A k : shown(k) = Cardinality(Of(out, k)) BY <1>1 DEF Of
  <2>2. \A k : held(k) = Cardinality(Of(d, k))
    <3>1. \A i \in DOMAIN d : d[i] \in ToSet(rows) BY <1>5 DEF Current
    <3>2. \A k : Cardinality(Of(d, k))
                   = Cardinality({ChunkKey(rows[i]) :
                                    i \in {j \in DOMAIN rows : SourceKey(rows[j]) = k}})
      BY <1>4, <1>5, <3>1, HeldOf
    <3> QED BY <1>1, <3>2
  <2>3. ASSUME case.out # <<>>, NEW k, NEW l, shown(l) < held(l)
        PROVE  shown(k) <= shown(l) + 1
    <3> HIDE DEF shown, held
    <3>1. Cardinality(Of(out, l)) < Cardinality(Of(d, l)) BY <2>1, <2>2, <2>3
    <3>2. Cardinality(Of(out, k)) <= Cardinality(Of(out, l)) + 1
      BY <1>1, <1>7, <2>3, <3>1 DEF InTurn
    <3> QED BY <2>1, <3>2
  <2> QED BY <2>3 DEF SourcesTakeTurns
<1> QED BY <1>8, <1>9 DEF ChunksChosen

\* The rows fetched are rows of an index.
LEMMA FetchedIs ==
    ASSUME NEW rows \in RowLists, NEW found, found = rows \/ found = <<>>, NEW question, NEW sidecar,
           NEW fetched, fetched = Fetched(question, sidecar, found, found, rows, ChunkLimit)
    PROVE  fetched \in Seq(ToSet(fetched)) /\ IsRows(ToSet(fetched))
<1>1. PICK C, a, b : C = ToSet(rows) /\ a = 8 * ChunkLimit /\ b = 16 * ChunkLimit OBVIOUS
<1>2. rows \in Seq(C) /\ IsRows(C) /\ ChunkLimit \in Nat BY <1>1, SearchAssumption DEF IsRows
<1>3. a \in Nat /\ b \in Nat BY <1>1, <1>2
<1>4. <<>> \in Seq(C) /\ found \in Seq(C) BY ONLY <1>2, NothingIs, found = rows \/ found = <<>>
<1>5. Take(found, a) \in Seq(C) BY <1>3, <1>4, TakeIs
<1>6. Take(rows, b) \in Seq(C) BY <1>2, <1>3, TakeIs
<1>7. fetched = <<>> \/ fetched = Take(found, a) \/ fetched = Take(rows, b) BY <1>1 DEF Fetched
<1>8. fetched \in Seq(C) BY <1>4, <1>5, <1>6, <1>7
<1>9. fetched \in Seq(ToSet(fetched)) /\ ToSet(fetched) \subseteq C BY <1>8, SeqOfOwn, FewElements
<1> QED BY <1>2, <1>9 DEF IsRows
-----------------------------------------------------------------------------
(***************************************************************************)
(* The chunks of a document.                                               *)
(***************************************************************************)

\* The characters of lines are a fold.
LEMMA SizeFolds ==
    ASSUME NEW doc, NEW s, NEW n \in Nat, DOMAIN s = 1..n, NEW f, f = [op |-> "chars", doc |-> doc]
    PROVE  FoldsTo(f, 0, s, n, SizeOf(doc, s))
<1> DEFINE add(b, x) == b + doc[x].size
           eq(g) == g = [x \in SUBSET (1..n) |-> IF x = {} THEN 0 ELSE add(g[x \ {Max(x)}], s[Max(x)])]
           it == CHOOSE g : eq(g)
<1>1. SizeOf(doc, s) = it[1..n] BY DEF SizeOf, FoldLeft, MapThenFoldSet
<1>2. \A b, x : Step(f, b, x) = add(b, x) BY DEF Step
<1> HIDE DEF add
<1>3. PICK g : Iterates(f, g, 0, s, n) BY IteratesExists
<1>4. eq(g) BY ONLY <1>2, <1>3 DEF Iterates
<1>5. eq(it)
  <2> HIDE DEF eq
  <2> QED BY <1>4
<1>6. PICK h : h = it OBVIOUS
<1>7. eq(h) BY <1>5, <1>6
<1>8. Iterates(f, h, 0, s, n) BY ONLY <1>2, <1>7 DEF Iterates
<1> QED BY <1>1, <1>6, <1>8 DEF FoldsTo

\* So are the tokens of paragraphs.
LEMMA TokensFold ==
    ASSUME NEW doc, NEW s, NEW n \in Nat, DOMAIN s = 1..n, NEW f, f = [op |-> "tokens", doc |-> doc]
    PROVE  FoldsTo(f, 0, s, n, TokensOf(doc, s))
<1> DEFINE eq(g) == g = [x \in SUBSET (1..n) |-> IF x = {} THEN 0 ELSE g[x \ {Max(x)}] + Tokens(doc, s[Max(x)])]
           it == CHOOSE g : eq(g)
<1>1. TokensOf(doc, s) = it[1..n] BY DEF TokensOf, FoldLeft, MapThenFoldSet
<1>2. \A b, x : Step(f, b, x) = b + Tokens(doc, x) BY DEF Step
<1>3. PICK g : Iterates(f, g, 0, s, n) BY IteratesExists
<1>4. eq(g) BY ONLY <1>2, <1>3 DEF Iterates
<1>5. eq(it)
  <2> HIDE DEF eq
  <2> QED BY <1>4
<1>6. PICK h : h = it OBVIOUS
<1>7. eq(h) BY <1>5, <1>6
<1>8. Iterates(f, h, 0, s, n) BY ONLY <1>2, <1>7 DEF Iterates
<1> QED BY <1>1, <1>6, <1>8 DEF FoldsTo

\* So are the lines of a document.
LEMMA LinesFold ==
    ASSUME NEW doc, NEW s, NEW n \in Nat, DOMAIN s = 1..n, s = [i \in DOMAIN doc |-> i],
           NEW f, f = [op |-> "line", doc |-> doc]
    PROVE  FoldsTo(f, Sectioning(<<>>, 0, <<>>, "none"), s, n, AllLines(doc))
<1> DEFINE eq(g) == g = [x \in SUBSET (1..n) |-> IF x = {} THEN Sectioning(<<>>, 0, <<>>, "none") ELSE AddLine(doc, g[x \ {Max(x)}], s[Max(x)])]
           it == CHOOSE g : eq(g)
<1>1. AllLines(doc) = it[1..n] BY DEF AllLines, FoldLeftDomain, FoldLeft, MapThenFoldSet
<1>2. \A b, x : Step(f, b, x) = AddLine(doc, b, x) BY DEF Step
<1>3. PICK g : Iterates(f, g, Sectioning(<<>>, 0, <<>>, "none"), s, n) BY IteratesExists
<1>4. eq(g) BY ONLY <1>2, <1>3 DEF Iterates
<1>5. eq(it)
  <2> HIDE DEF eq
  <2> QED BY <1>4
<1>6. PICK h : h = it OBVIOUS
<1>7. eq(h) BY <1>5, <1>6
<1>8. Iterates(f, h, Sectioning(<<>>, 0, <<>>, "none"), s, n) BY ONLY <1>2, <1>7 DEF Iterates
<1> QED BY <1>1, <1>6, <1>8 DEF FoldsTo

\* So is splitting a body into paragraphs.
LEMMA SplitFolds ==
    ASSUME NEW doc, NEW s, NEW n \in Nat, DOMAIN s = 1..n, NEW f, f = [op |-> "split", doc |-> doc]
    PROVE  FoldsTo(f, Splitting(<<>>, <<>>, "none"), s, n, Split(doc, s))
<1> DEFINE eq(g) == g = [x \in SUBSET (1..n) |-> IF x = {} THEN Splitting(<<>>, <<>>, "none") ELSE SplitLine(doc, g[x \ {Max(x)}], s[Max(x)])]
           it == CHOOSE g : eq(g)
<1>1. Split(doc, s) = it[1..n] BY DEF Split, FoldLeft, MapThenFoldSet
<1>2. \A b, x : Step(f, b, x) = SplitLine(doc, b, x) BY DEF Step
<1>3. PICK g : Iterates(f, g, Splitting(<<>>, <<>>, "none"), s, n) BY IteratesExists
<1>4. eq(g) BY ONLY <1>2, <1>3 DEF Iterates
<1>5. eq(it)
  <2> HIDE DEF eq
  <2> QED BY <1>4
<1>6. PICK h : h = it OBVIOUS
<1>7. eq(h) BY <1>5, <1>6
<1>8. Iterates(f, h, Splitting(<<>>, <<>>, "none"), s, n) BY ONLY <1>2, <1>7 DEF Iterates
<1> QED BY <1>1, <1>6, <1>8 DEF FoldsTo

\* So is gathering paragraphs.
LEMMA GatherFolds ==
    ASSUME NEW doc, NEW max, NEW s, NEW n \in Nat, DOMAIN s = 1..n, NEW f, f = [op |-> "gather", doc |-> doc, max |-> max]
    PROVE  FoldsTo(f, Gathering(<<>>, <<>>, 0), s, n, Gathered(doc, s, max))
<1> DEFINE eq(g) == g = [x \in SUBSET (1..n) |-> IF x = {} THEN Gathering(<<>>, <<>>, 0) ELSE AddParagraph(doc, g[x \ {Max(x)}], s[Max(x)], max)]
           it == CHOOSE g : eq(g)
<1>1. Gathered(doc, s, max) = it[1..n] BY DEF Gathered, FoldLeft, MapThenFoldSet
<1>2. \A b, x : Step(f, b, x) = AddParagraph(doc, b, x, max) BY DEF Step
<1>3. PICK g : Iterates(f, g, Gathering(<<>>, <<>>, 0), s, n) BY IteratesExists
<1>4. eq(g) BY ONLY <1>2, <1>3 DEF Iterates
<1>5. eq(it)
  <2> HIDE DEF eq
  <2> QED BY <1>4
<1>6. PICK h : h = it OBVIOUS
<1>7. eq(h) BY <1>5, <1>6
<1>8. Iterates(f, h, Gathering(<<>>, <<>>, 0), s, n) BY ONLY <1>2, <1>7 DEF Iterates
<1> QED BY <1>1, <1>6, <1>8 DEF FoldsTo

\* The first n elements of t are those of the first j sequences of B, one sequence after the
\* other: the k-th is that at pos[k] of B[at[k]].
FlatTo(B, j, t, n, at, pos) ==
    /\ at \in [1..n -> 1..j] /\ pos \in [1..n -> Nat]
    /\ \A k \in 1..n : pos[k] \in DOMAIN B[at[k]] /\ t[k] = B[at[k]][pos[k]]
    /\ \A k, l \in 1..n : k < l => at[k] < at[l] \/ (at[k] = at[l] /\ pos[k] < pos[l])
    /\ \A m \in 1..j : \A i \in DOMAIN B[m] : \E k \in 1..n : at[k] = m /\ pos[k] = i

\* One sequence more.
LEMMA FlatStep ==
    ASSUME NEW C, NEW B \in Seq(Seq(C)), NEW j \in 1..Len(B), NEW t \in Seq(C), NEW at, NEW pos,
           FlatTo(B, j - 1, t, Len(t), at, pos)
    PROVE  \E more, next : FlatTo(B, j, t \o B[j], Len(t \o B[j]), more, next)
<1>1. PICK b, u, n, m : b = B[j] /\ u = t \o b /\ n = Len(t) /\ m = Len(b) OBVIOUS
<1>2. b \in Seq(C) /\ n \in Nat /\ m \in Nat /\ j \in Nat /\ j - 1 \in Nat BY <1>1
<1>3. DOMAIN b = 1..m /\ DOMAIN t = 1..n BY <1>1, <1>2
<1>4. /\ u \in Seq(C) /\ Len(u) = n + m
      /\ \A k \in 1..(n + m) : u[k] = IF k <= n THEN t[k] ELSE b[k - n]
  BY ONLY <1>1, <1>2, t \in Seq(C)
<1>5. PICK more, next : /\ more = [k \in 1..(n + m) |-> IF k <= n THEN at[k] ELSE j]
                        /\ next = [k \in 1..(n + m) |-> IF k <= n THEN pos[k] ELSE k - n]
  OBVIOUS
<1>6. \A k \in 1..n : k \in 1..(n + m) /\ more[k] = at[k] /\ next[k] = pos[k] /\ u[k] = t[k]
  BY <1>2, <1>4, <1>5
<1>7. \A i \in 1..m : n + i \in 1..(n + m) /\ more[n + i] = j /\ next[n + i] = i /\ u[n + i] = b[i]
  <2> TAKE i \in 1..m
  <2>1. n + i \in 1..(n + m) /\ ~(n + i <= n) /\ (n + i) - n = i BY <1>2
  <2> QED BY <1>4, <1>5, <2>1
<1>8. ASSUME NEW k \in 1..(n + m)
      PROVE  k \in 1..n \/ \E i \in 1..m : k = n + i
  <2>1. k \in 1..n \/ (k - n \in 1..m /\ k = n + (k - n)) BY <1>2
  <2> QED BY <2>1
<1>9. /\ at \in [1..n -> 1..(j - 1)] /\ pos \in [1..n -> Nat]
      /\ \A k \in 1..n : pos[k] \in DOMAIN B[at[k]] /\ t[k] = B[at[k]][pos[k]]
      /\ \A k, l \in 1..n : k < l => at[k] < at[l] \/ (at[k] = at[l] /\ pos[k] < pos[l])
      /\ \A h \in 1..(j - 1) : \A i \in DOMAIN B[h] : \E k \in 1..n : at[k] = h /\ pos[k] = i
  BY ONLY <1>1, FlatTo(B, j - 1, t, Len(t), at, pos) DEF FlatTo
<1>10. \A k \in 1..n : at[k] \in 1..j /\ at[k] < j /\ pos[k] \in Nat
  <2>1. \A k \in 1..n : at[k] \in 1..(j - 1) /\ pos[k] \in Nat BY ONLY <1>9
  <2> QED BY <1>2, <2>1
<1>11. /\ more \in [1..(n + m) -> 1..j] /\ next \in [1..(n + m) -> Nat]
       /\ \A k \in 1..(n + m) : next[k] \in DOMAIN B[more[k]] /\ u[k] = B[more[k]][next[k]]
  <2>1. ASSUME NEW k \in 1..(n + m)
        PROVE  /\ more[k] \in 1..j /\ next[k] \in Nat
               /\ next[k] \in DOMAIN B[more[k]] /\ u[k] = B[more[k]][next[k]]
    <3>1. CASE k \in 1..n BY <1>6, <1>9, <1>10, <3>1
    <3>2. CASE \E i \in 1..m : k = n + i
      <4>1. PICK i \in 1..m : k = n + i BY <3>2
      <4>2. more[k] = j /\ next[k] = i /\ u[k] = b[i] BY <1>7, <4>1
      <4>3. i \in DOMAIN b /\ i \in Nat /\ j \in 1..j BY <1>2, <1>3
      <4> QED BY <1>1, <4>2, <4>3
    <3> QED BY <1>8, <3>1, <3>2
  <2> QED BY <1>5, <2>1
<1>12. ASSUME NEW k \in 1..(n + m), NEW l \in 1..(n + m), k < l
       PROVE  more[k] < more[l] \/ (more[k] = more[l] /\ next[k] < next[l])
  <2>1. CASE k \in 1..n /\ l \in 1..n BY <1>6, <1>9, <1>12, <2>1
  <2>2. CASE k \in 1..n /\ \E i \in 1..m : l = n + i BY <1>6, <1>7, <1>10, <2>2
  <2>3. CASE \E i \in 1..m : k = n + i
    <3>1. PICK i \in 1..m : k = n + i BY <2>3
    <3>2. PICK g \in 1..m : l = n + g
      <4>1. l \notin 1..n BY <1>2, <1>12, <3>1
      <4> QED BY <1>8, <4>1
    <3>3. i < g BY <1>2, <1>12, <3>1, <3>2
    <3> QED BY <1>7, <3>1, <3>2, <3>3
  <2> QED BY <1>8, <2>1, <2>2, <2>3
<1>13. ASSUME NEW h \in 1..j, NEW i \in DOMAIN B[h]
       PROVE  \E k \in 1..(n + m) : more[k] = h /\ next[k] = i
  <2>1. CASE h = j
    <3>1. i \in 1..m BY <1>1, <1>3, <1>13, <2>1
    <3> QED BY <1>7, <2>1, <3>1
  <2>2. CASE h # j
    <3>1. h \in 1..(j - 1) BY <1>2, <2>2
    <3>2. PICK k \in 1..n : at[k] = h /\ pos[k] = i BY <1>9, <1>13, <3>1
    <3> QED BY <1>6, <3>2
  <2> QED BY <2>1, <2>2
<1>14. FlatTo(B, j, u, Len(u), more, next) BY <1>4, <1>11, <1>12, <1>13 DEF FlatTo
<1> QED BY <1>1, <1>14

\* run[j] is what the first j sequences of B make.
FlatRuns(B, n, t, run) ==
    run[0] = <<>> /\ run[n] = t /\ \A j \in 1..n : run[j] = run[j - 1] \o B[j]

\* FlattenSeq puts one sequence after the other.
LEMMA FlattenRuns ==
    ASSUME NEW C, NEW B \in Seq(Seq(C)), NEW n, n = Len(B), NEW t, t = FlattenSeq(B)
    PROVE  \E run : FlatRuns(B, n, t, run)
<1>1. PICK f : f = [op |-> "flat"] OBVIOUS
<1>2. n \in Nat /\ DOMAIN B = 1..n /\ \A i \in 1..n : B[i] \in Seq(C) OBVIOUS
<1>3. PICK g : Iterates(f, g, <<>>, B, n) BY <1>2, IteratesExists
<1>4. FoldsTo(f, <<>>, B, n, g[1..n]) BY <1>3 DEF FoldsTo
<1>5. PICK run : Runs(f, <<>>, B, n, g[1..n], run) BY <1>2, <1>4, FoldRuns
<1>6. run[0] = <<>> /\ \A j \in 1..n : run[j] = run[j - 1] \o B[j]
  <2>1. \A b, x : Step(f, b, x) = b \o x BY <1>1 DEF Step
  <2> QED BY <1>5, <2>1 DEF Runs
<1>7. CASE n = 0
  <2>1. B = <<>> /\ t = B BY <1>2, <1>7 DEF FlattenSeq
  <2> QED BY <1>6, <1>7, <2>1 DEF FlatRuns
<1>8. CASE n # 0
  <2> DEFINE eq(h) == h = [i \in 1..n |-> IF i = 1 THEN B[i] ELSE h[i - 1] \o B[i]]
             it == CHOOSE h : eq(h)
  <2>1. t = it[n] BY <1>8 DEF FlattenSeq
  <2>2. run[1] = B[1]
    <3>1. 1 \in 1..n /\ 1 - 1 = 0 BY <1>2, <1>8
    <3>2. run[1] = <<>> \o B[1] BY <1>6, <3>1
    <3>3. B[1] \in Seq(C) BY <1>2, <3>1
    <3> QED BY ONLY <3>2, <3>3
  <2>3. PICK h : h = [i \in 1..n |-> run[i]] OBVIOUS
  <2>4. eq(h)
    <3>1. \A i \in 1..n : i = 1 \/ i - 1 \in 1..n BY <1>2
    <3>2. \A i \in 1..n : h[i] = IF i = 1 THEN B[i] ELSE h[i - 1] \o B[i]
      BY <1>6, <2>2, <2>3, <3>1
    <3> QED BY <2>3, <3>2
  <2>5. eq(it)
    <3> HIDE DEF eq
    <3> QED BY <2>4
  <2>6. PICK k : k = it OBVIOUS
  <2>7. eq(k)
    <3> HIDE DEF eq, it
    <3> QED BY ONLY <2>5, <2>6
  <2> DEFINE good == {i \in Nat : i = 0 \/ k[i] = run[i]}
  <2>8. 0 \in good /\ good \in SUBSET Nat OBVIOUS
  <2>9. ASSUME NEW j \in 1..n, j - 1 \in good
        PROVE  j \in good
    <3>1. j \in Nat /\ (j - 1 = 0 => j = 1) /\ (j # 1 => j - 1 # 0) OBVIOUS
    <3>2. CASE j = 1 BY <2>2, <2>7, <3>1, <3>2
    <3>3. CASE j # 1
      <4>1. k[j - 1] = run[j - 1] BY <2>9, <3>1, <3>3
      <4>2. k[j] = k[j - 1] \o B[j] BY <2>7, <3>3
      <4> QED BY <1>6, <3>1, <4>1, <4>2
    <3> QED BY <3>2, <3>3
  <2>10. n \in good
    <3>1. n \in 0..n BY <1>2
    <3> HIDE DEF good
    <3> QED BY <1>2, <2>8, <2>9, <3>1, UpTo
  <2>11. k[n] = run[n] BY <1>8, <2>10
  <2>12. run[n] = t BY <2>1, <2>6, <2>11
  <2> QED BY ONLY <1>6, <2>12 DEF FlatRuns
<1> QED BY <1>7, <1>8

\* What FlattenSeq returns.
LEMMA FlattenIs ==
    ASSUME NEW C, NEW B \in Seq(Seq(C)), NEW t, t = FlattenSeq(B)
    PROVE  t \in Seq(C) /\ \E at, pos : FlatTo(B, Len(B), t, Len(t), at, pos)
<1>1. PICK n : n = Len(B) OBVIOUS
<1>2. n \in Nat /\ DOMAIN B = 1..n /\ \A i \in 1..n : B[i] \in Seq(C) BY <1>1
<1>0. PICK run : FlatRuns(B, n, t, run)
  BY ONLY <1>1, FlattenRuns, B \in Seq(Seq(C)), t = FlattenSeq(B)
<1>3. run[0] = <<>> /\ run[n] = t /\ \A j \in 1..n : run[j] = run[j - 1] \o B[j]
  BY <1>0 DEF FlatRuns
<1> DEFINE good == {j \in Nat : run[j] \in Seq(C) /\ \E at, pos : FlatTo(B, j, run[j], Len(run[j]), at, pos)}
<1>4. 0 \in good /\ good \in SUBSET Nat
  <2>1. PICK z, e : z = 0 /\ e = run[0] OBVIOUS
  <2>2. e \in Seq(C) /\ Len(e) = 0 BY <1>3, <2>1, NothingIs
  <2>3. PICK none : none = [k \in 1..0 |-> 1] OBVIOUS
  <2>4. none \in [1..Len(e) -> 1..z] /\ none \in [1..Len(e) -> Nat] BY <2>1, <2>2, <2>3
  <2>5. (\A k \in 1..Len(e) : FALSE) /\ \A m \in 1..z : FALSE BY <2>1, <2>2
  <2>6. FlatTo(B, z, e, Len(e), none, none) BY <2>4, <2>5 DEF FlatTo
  <2> QED BY <2>1, <2>2, <2>6
<1>5. ASSUME NEW j \in 1..n, j - 1 \in good
      PROVE  j \in good
  <2>1. PICK b, x, r : b = run[j - 1] /\ x = B[j] /\ r = run[j] OBVIOUS
  <2>2. b \in Seq(C) /\ \E at, pos : FlatTo(B, j - 1, b, Len(b), at, pos) BY <1>5, <2>1
  <2>3. x \in Seq(C) /\ r = b \o x BY <1>2, <1>3, <2>1
  <2>4. PICK at, pos : FlatTo(B, j - 1, b, Len(b), at, pos) BY <2>2
  <2>5. \E more, next : FlatTo(B, j, b \o B[j], Len(b \o B[j]), more, next)
    BY <1>1, <2>2, <2>4, FlatStep
  <2>6. r \in Seq(C) BY <2>2, <2>3
  <2>7. run[j] \in Seq(C) /\ \E more, next : FlatTo(B, j, run[j], Len(run[j]), more, next)
    BY ONLY <2>1, <2>3, <2>5, <2>6
  <2> QED BY ONLY <2>7, j \in 1..n, <1>2
<1>6. n \in good
  <2>1. n \in 0..n BY <1>2
  <2> HIDE DEF good
  <2> QED BY <1>2, <1>4, <1>5, <2>1, UpTo
<1>7. run[n] \in Seq(C) /\ \E at, pos : FlatTo(B, n, run[n], Len(run[n]), at, pos) BY <1>6
<1> QED BY <1>1, <1>3, <1>7

IsDoc(doc) == doc \in Seq([kind : Kinds, size : Nat])

\* F[i] is the fence that is open after the first i lines.
Fences(doc, F) == F[0] = "none" /\ \A i \in 1..Len(doc) : F[i] = Fence(F[i - 1], doc[i].kind)

\* What the lines of a document are.
LEMMA DocIs ==
    ASSUME NEW doc, IsDoc(doc), NEW n, n = Len(doc)
    PROVE  n \in Nat /\ DOMAIN doc = 1..n /\ \A j \in 1..n : doc[j].kind \in Kinds /\ doc[j].size \in Nat
<1>1. PICK R : R = [kind : Kinds, size : Nat] OBVIOUS
<1>2. doc \in Seq(R) BY <1>1 DEF IsDoc
<1>3. n \in Nat /\ DOMAIN doc = 1..n /\ \A j \in 1..n : doc[j] \in R BY <1>2
<1>4. \A r \in R : r.kind \in Kinds /\ r.size \in Nat BY ONLY <1>1
<1> QED BY <1>3, <1>4

\* What a line does to the fence.
LEMMA FenceIs ==
    ASSUME NEW open \in {"none", "tick", "tilde"}, NEW kind \in Kinds
    PROVE  /\ Fence(open, kind) \in {"none", "tick", "tilde"}
           /\ \A c \in {"tick", "tilde"} :
                Fence(open, kind) = c <=> (open = c /\ kind # c) \/ (open = "none" /\ kind = c)
           /\ kind \in {"blank", "head", "text"} => Fence(open, kind) = open
BY DEF Fence, Kinds

\* A fence is one of two, or none.
LEMMA FencesAre ==
    ASSUME NEW doc, IsDoc(doc), NEW F, Fences(doc, F), NEW i \in 0..Len(doc)
    PROVE  F[i] \in {"none", "tick", "tilde"}
<1> DEFINE good == {j \in Nat : F[j] \in {"none", "tick", "tilde"}}
<1>1. PICK n : n = Len(doc) OBVIOUS
<1>2. n \in Nat /\ DOMAIN doc = 1..n /\ \A j \in 1..n : doc[j].kind \in Kinds BY <1>1, DocIs
<1>3. 0 \in good /\ good \in SUBSET Nat BY DEF Fences
<1>4. ASSUME NEW j \in 1..n, j - 1 \in good
      PROVE  j \in good
  <2>1. F[j] = Fence(F[j - 1], doc[j].kind) /\ F[j - 1] \in {"none", "tick", "tilde"}
    BY <1>1, <1>4 DEF Fences
  <2> QED BY <1>2, <2>1, FenceIs
<1>5. \A j \in 0..n : j \in good
  <2> HIDE DEF good
  <2> QED BY <1>2, <1>3, <1>4, UpTo
<1> QED BY <1>1, <1>5

\* A line before the n-th opened the fence c, and none has closed it.
OpenBy(doc, F, n, c) ==
    \E o \in 1..n : doc[o].kind = c /\ F[o - 1] = "none" /\ \A j \in (o + 1)..n : doc[j].kind # c

\* The open fence is the one that a line opened and no line closed.
LEMMA FenceOpened ==
    ASSUME NEW doc, IsDoc(doc), NEW F, Fences(doc, F), NEW i \in 0..Len(doc), NEW c \in {"tick", "tilde"}
    PROVE  F[i] = c <=> OpenBy(doc, F, i, c)
<1> DEFINE good == {j \in Nat : F[j] = c <=> OpenBy(doc, F, j, c)}
<1>1. PICK n : n = Len(doc) OBVIOUS
<1>2. n \in Nat /\ DOMAIN doc = 1..n /\ \A j \in 1..n : doc[j].kind \in Kinds BY <1>1, DocIs
<1>3. 0 \in good /\ good \in SUBSET Nat
  <2>1. F[0] = "none" /\ ~OpenBy(doc, F, 0, c) BY DEF Fences, OpenBy
  <2>2. F[0] = c <=> OpenBy(doc, F, 0, c) BY <2>1
  <2> QED BY <2>2
<1>4. ASSUME NEW j \in 1..n, j - 1 \in good
      PROVE  j \in good
  <2>1. j \in Nat /\ j - 1 \in 0..n BY <1>2
  <2>2. F[j] = c <=> (F[j - 1] = c /\ doc[j].kind # c) \/ (F[j - 1] = "none" /\ doc[j].kind = c)
    <3>1. F[j - 1] \in {"none", "tick", "tilde"} /\ F[j] = Fence(F[j - 1], doc[j].kind)
      BY <1>1, <2>1, FencesAre DEF Fences
    <3> QED BY <1>2, <3>1, FenceIs
  <2>3. F[j - 1] = c <=> OpenBy(doc, F, j - 1, c) BY <1>4
  <2>4. OpenBy(doc, F, j, c) <=> \/ OpenBy(doc, F, j - 1, c) /\ doc[j].kind # c
                                 \/ F[j - 1] = "none" /\ doc[j].kind = c
    <3>1. ASSUME NEW o \in 1..j
          PROVE  (o = j /\ (o + 1)..j = {}) \/ (o \in 1..(j - 1) /\ (o + 1)..j = ((o + 1)..(j - 1)) \cup {j})
      BY <2>1
    <3>2. \A o \in 1..(j - 1) : o \in 1..j /\ (o + 1)..j = ((o + 1)..(j - 1)) \cup {j} BY <2>1
    <3>3. j \in 1..j /\ (j + 1)..j = {} BY <2>1
    <3> QED BY <3>1, <3>2, <3>3 DEF OpenBy
  <2> QED BY <2>1, <2>2, <2>3, <2>4
<1>5. \A j \in 0..n : j \in good
  <2> HIDE DEF good
  <2> QED BY <1>2, <1>3, <1>4, UpTo
<1> QED BY <1>1, <1>5

\* The reference definition says the same.
LEMMA InFenceIs ==
    ASSUME NEW doc, IsDoc(doc), NEW F, Fences(doc, F), NEW i \in 1..Len(doc)
    PROVE  InFence(doc, i) <=> F[i - 1] # "none"
<1> DEFINE in(h, n) == \E o \in 1..(n - 1) : /\ doc[o].kind \in {"tick", "tilde"} /\ ~h[o]
                                             /\ \A j \in (o + 1)..(n - 1) : doc[j].kind # doc[o].kind
           eq(h) == h = [n \in 1..i |-> in(h, n)]
           it == CHOOSE h : eq(h)
<1>1. InFence(doc, i) <=> it[i] BY DEF InFence
<1>2. PICK m : m = Len(doc) OBVIOUS
<1>3. /\ m \in Nat /\ i \in Nat /\ i <= m /\ 1 <= i
      /\ \A n \in 1..i : n - 1 \in 0..m /\ n \in Nat
  BY <1>2, DocIs
<1>4. ASSUME NEW n \in 1..i
      PROVE  F[n - 1] # "none" <=>
             \E o \in 1..(n - 1) : /\ doc[o].kind \in {"tick", "tilde"} /\ F[o - 1] = "none"
                                   /\ \A j \in (o + 1)..(n - 1) : doc[j].kind # doc[o].kind
  <2>1. F[n - 1] \in {"none", "tick", "tilde"} BY <1>2, <1>3, FencesAre
  <2>2. \A c \in {"tick", "tilde"} : F[n - 1] = c <=> OpenBy(doc, F, n - 1, c)
    BY <1>2, <1>3, FenceOpened
  <2> QED BY ONLY <2>1, <2>2 DEF OpenBy
<1>5. PICK h : h = [n \in 1..i |-> F[n - 1] # "none"] OBVIOUS
<1>6. eq(h)
  <2>1. \A n \in 1..i : \A o \in 1..(n - 1) : o \in 1..i BY <1>3
  <2>2. \A n \in 1..i : (F[n - 1] # "none") <=> in(h, n) BY <1>4, <1>5, <2>1
  <2>3. \A n \in 1..i : (F[n - 1] # "none") = in(h, n) BY <2>2
  <2> HIDE DEF in
  <2> QED BY <1>5, <2>3
<1>7. eq(it)
  <2> HIDE DEF eq
  <2> QED BY <1>6
<1>8. PICK k : k = it OBVIOUS
<1>9. eq(k)
  <2> HIDE DEF eq, it
  <2> QED BY ONLY <1>7, <1>8
<1>10. \A n \in 1..i : k[n] = in(k, n)
  <2> HIDE DEF in
  <2> QED BY <1>9
<1> DEFINE good == {n \in Nat : \A o \in 1..n : o <= i => (k[o] <=> F[o - 1] # "none")}
<1>11. 0 \in good /\ good \in SUBSET Nat OBVIOUS
<1>12. ASSUME NEW n \in 1..i, n - 1 \in good
       PROVE  n \in good
  <2>1. \A o \in 1..(n - 1) : o <= i /\ (k[o] <=> F[o - 1] # "none") BY <1>3, <1>12
  <2>2. k[n] <=> F[n - 1] # "none" BY ZenonT(30), <1>4, <1>10, <2>1
  <2>3. n \in Nat /\ \A o \in 1..n : o = n \/ o \in 1..(n - 1) BY <1>3
  <2> QED BY <2>1, <2>2, <2>3
<1>13. i \in good
  <2>1. i \in 0..i BY <1>3
  <2> HIDE DEF good
  <2> QED BY <1>3, <1>11, <1>12, <2>1, UpTo
<1>14. k[i] <=> F[i - 1] # "none" BY <1>3, <1>13
<1> QED BY ONLY <1>1, <1>8, <1>14

\* One element more.
LEMMA AppendIs ==
    ASSUME NEW C, NEW s \in Seq(C), NEW x \in C, NEW t, t = Append(s, x), NEW n, n = Len(s)
    PROVE  /\ n \in Nat /\ DOMAIN s = 1..n /\ t \in Seq(C) /\ Len(t) = n + 1 /\ DOMAIN t = 1..(n + 1)
           /\ t[n + 1] = x /\ \A i \in 1..n : t[i] = s[i] /\ i \in 1..(n + 1)
           /\ n + 1 \in 1..(n + 1) /\ \A i \in 1..(n + 1) : i \in 1..n \/ i = n + 1
           /\ ToSet(t) = ToSet(s) \cup {x} /\ t # <<>>
<1>1. /\ n \in Nat /\ DOMAIN s = 1..n /\ t \in Seq(C) /\ Len(t) = n + 1 /\ DOMAIN t = 1..(n + 1)
      /\ t[n + 1] = x /\ \A i \in 1..n : t[i] = s[i]
  OBVIOUS
<1>2. /\ \A i \in 1..n : i \in 1..(n + 1)
      /\ n + 1 \in 1..(n + 1) /\ \A i \in 1..(n + 1) : i \in 1..n \/ i = n + 1
  BY ONLY <1>1
<1>3. ToSet(t) = ToSet(s) \cup {x} BY AppendSet
<1>4. t # <<>> BY <1>1
<1> QED BY <1>1, <1>2, <1>3, <1>4

\* s is the lines after a up to b.
Stretch(s, a, b) ==
    /\ a \in Nat /\ b \in Nat /\ a <= b
    /\ s \in Seq(Nat) /\ Len(s) = b - a /\ \A i \in 1..(b - a) : s[i] = a + i

Blank(doc, a, b) == \A i \in (a + 1)..b : doc[i].kind = "blank"

\* The lines of such a sequence.
LEMMA StretchIs ==
    ASSUME NEW s, NEW a, NEW b, Stretch(s, a, b)
    PROVE  ToSet(s) = (a + 1)..b /\ DOMAIN s = 1..(b - a) /\ (s = <<>> <=> a = b)
<1>1. DOMAIN s = 1..(b - a) /\ a \in Nat /\ b \in Nat /\ a <= b /\ \A i \in 1..(b - a) : s[i] = a + i
  BY DEF Stretch
<1>2. ToSet(s) = {s[i] : i \in 1..(b - a)} BY ONLY <1>1 DEF ToSet
<1>3. ToSet(s) \subseteq (a + 1)..b BY ONLY <1>1, <1>2
<1>4. ASSUME NEW i \in (a + 1)..b
      PROVE  i \in ToSet(s)
  <2>1. i - a \in 1..(b - a) /\ a + (i - a) = i BY <1>1
  <2> QED BY ONLY <1>1, <1>2, <2>1
<1>5. s = <<>> <=> a = b BY <1>1 DEF Stretch
<1> QED BY <1>1, <1>3, <1>4, <1>5

\* Blank lines change no fence.
LEMMA BlankKeeps ==
    ASSUME NEW doc, IsDoc(doc), NEW F, Fences(doc, F), NEW a \in Nat, NEW b \in Nat, a <= b, b <= Len(doc),
           Blank(doc, a, b)
    PROVE  F[b] = F[a]
<1> DEFINE good == {k \in Nat : F[a + k] = F[a]}
<1>1. PICK n : n = Len(doc) OBVIOUS
<1>2. n \in Nat /\ b <= n /\ b - a \in Nat BY <1>1, DocIs
<1>3. 0 \in good /\ good \in SUBSET Nat OBVIOUS
<1>4. ASSUME NEW j \in 1..(b - a), j - 1 \in good
      PROVE  j \in good
  <2>1. /\ a + j \in (a + 1)..b /\ a + j \in 1..n /\ (a + j) - 1 = a + (j - 1)
        /\ j \in Nat /\ (a + j) - 1 \in 0..n
    BY <1>2
  <2>2. doc[a + j].kind = "blank" BY <2>1 DEF Blank
  <2>3. F[a + j] = Fence(F[(a + j) - 1], doc[a + j].kind) BY <1>1, <2>1 DEF Fences
  <2>4. F[(a + j) - 1] \in {"none", "tick", "tilde"} BY <1>1, <2>1, FencesAre
  <2>5. F[a + j] = F[(a + j) - 1] BY <2>2, <2>3, <2>4, FenceIs DEF Kinds
  <2> QED BY <1>4, <2>1, <2>5
<1>5. b - a \in good
  <2>1. b - a \in 0..(b - a) BY <1>2
  <2> HIDE DEF good
  <2> QED BY <1>2, <1>3, <1>4, <2>1, UpTo
<1> QED BY <1>2, <1>5

\* Stripping leaves out blank lines at both ends.
LEMMA StrippedIs ==
    ASSUME NEW doc, NEW s, NEW a, NEW b, Stretch(s, a, b), NEW r, r = Stripped(doc, s)
    PROVE  \E c, d : a <= c /\ d <= b /\ Stretch(r, c, d) /\ Blank(doc, a, c) /\ Blank(doc, d, b)
<1>1. PICK inked : inked = {i \in DOMAIN s : doc[s[i]].kind # "blank"} OBVIOUS
<1>2. r = IF inked = {} THEN <<>> ELSE SubSeq(s, Min(inked), Max(inked)) BY <1>1 DEF Stripped
<1>3. /\ DOMAIN s = 1..(b - a) /\ a \in Nat /\ b \in Nat /\ a <= b /\ \A i \in 1..(b - a) : s[i] = a + i
      /\ s \in Seq(Nat) /\ Len(s) = b - a
  BY StretchIs DEF Stretch
<1>4. ASSUME NEW i \in (a + 1)..b, i - a \notin inked
      PROVE  doc[i].kind = "blank"
  <2>1. i - a \in 1..(b - a) /\ a + (i - a) = i BY <1>3
  <2> QED BY <1>1, <1>3, <1>4, <2>1
<1>5. CASE inked = {}
  <2>1. r \in Seq(Nat) /\ Len(r) = 0 BY <1>2, <1>5, NothingIs
  <2>2. Stretch(r, b, b) BY <1>3, <2>1 DEF Stretch
  <2>3. Blank(doc, a, b) /\ Blank(doc, b, b) BY <1>3, <1>4, <1>5 DEF Blank
  <2> QED BY <1>3, <2>2, <2>3
<1>6. CASE inked # {}
  <2>1. PICK lo, hi : lo = Min(inked) /\ hi = Max(inked) OBVIOUS
  <2>2. inked \in SUBSET Nat /\ inked \in SUBSET (0..(b - a)) /\ b - a \in Nat BY <1>1, <1>3
  <2>3. lo \in inked /\ \A i \in inked : lo <= i
    <3>1. PICK m \in inked : \A i \in inked : m <= i BY <1>6, <2>2, LeastNat
    <3>2. Min(inked) \in inked /\ \A i \in inked : Min(inked) <= i BY <3>1 DEF Min
    <3> QED BY <2>1, <3>2
  <2>4. hi \in inked /\ \A i \in inked : i <= hi BY <1>6, <2>1, <2>2, MaxOfIndices
  <2>5. lo \in 1..(b - a) /\ hi \in 1..(b - a) /\ lo <= hi BY <1>1, <1>3, <2>3, <2>4
  <2>6. PICK c, d : c = a + lo - 1 /\ d = a + hi OBVIOUS
  <2>7. c \in Nat /\ d \in Nat /\ c <= d /\ a <= c /\ d <= b /\ d - c = hi - lo + 1
    BY <1>3, <2>5, <2>6
  <2>8. /\ r \in Seq(Nat) /\ Len(r) = hi - lo + 1
        /\ \A i \in 1..(hi - lo + 1) : r[i] = s[lo + i - 1]
    <3>1. r = SubSeq(s, lo, hi) BY <1>2, <1>6, <2>1
    <3>2. s \in Seq(Nat) /\ lo \in 1..Len(s) /\ hi \in 1..Len(s) /\ lo <= hi BY <1>3, <2>5
    <3> QED BY ONLY <3>1, <3>2
  <2>9. \A i \in 1..(hi - lo + 1) : lo + i - 1 \in 1..(b - a) /\ a + (lo + i - 1) = c + i
    BY <1>3, <2>5, <2>6
  <2>10. Stretch(r, c, d) BY <1>3, <2>7, <2>8, <2>9 DEF Stretch
  <2>11. Blank(doc, a, c)
    <3>1. \A i \in (a + 1)..c : i \in (a + 1)..b /\ ~(lo <= i - a) BY <1>3, <2>5, <2>6, <2>7
    <3> QED BY <1>4, <2>3, <3>1 DEF Blank
  <2>12. Blank(doc, d, b)
    <3>1. \A i \in (d + 1)..b : i \in (a + 1)..b /\ ~(i - a <= hi) BY <1>3, <2>5, <2>6, <2>7
    <3> QED BY <1>4, <2>4, <3>1 DEF Blank
  <2> QED BY <2>7, <2>10, <2>11, <2>12
<1> QED BY <1>5, <1>6

SectionType == [title : Nat, body : Seq(Nat)]

\* A section of a document: a heading outside a fence, or none, and lines after it.
IsSection(doc, F, c) ==
    /\ c.title \in 0..Len(doc) /\ (c.title # 0 => F[c.title - 1] = "none")
    /\ \E a, b : Stretch(c.body, a, b) /\ c.title <= a /\ b <= Len(doc) /\ F[a] = "none"

Before(c, i) == c.title < i /\ \A x \in ToSet(c.body) : x < i

Holds(c, i) == c.title = i \/ i \in ToSet(c.body)

\* The first j lines are these sections.
AreSections(doc, F, chunks, j) ==
    /\ chunks \in Seq(SectionType)
    /\ \A n \in DOMAIN chunks : IsSection(doc, F, chunks[n]) /\ Before(chunks[n], j + 1)
    /\ \A m, n \in DOMAIN chunks : m < n => Before(chunks[m], chunks[n].title)
    /\ \A i \in 1..j : doc[i].kind # "blank" => \E n \in DOMAIN chunks : Holds(chunks[n], i)

\* What has been read of the first j lines.
ReadTo(doc, F, j, s) ==
    /\ s.fence = F[j] /\ s.title \in 0..j /\ Stretch(s.body, s.title, j)
    /\ F[s.title] = "none" /\ (s.title # 0 => F[s.title - 1] = "none")
    /\ \E k \in Nat : /\ AreSections(doc, F, s.chunks, k)
                      /\ IF s.title = 0 THEN k = 0 /\ s.chunks = <<>> ELSE k + 1 = s.title

\* Nothing is a section of nothing.
LEMMA NoSections ==
    ASSUME NEW doc, NEW F, NEW e, e = <<>>
    PROVE  AreSections(doc, F, e, 0)
<1>1. e \in Seq(SectionType) /\ DOMAIN e = {} BY NothingIs
<1> QED BY <1>1 DEF AreSections

\* The last section ends with the lines that were read.
LEMMA FlushIs ==
    ASSUME NEW doc, IsDoc(doc), NEW F, Fences(doc, F), NEW j \in 0..Len(doc), NEW s, ReadTo(doc, F, j, s)
    PROVE  AreSections(doc, F, Flushed(doc, s), j)
<1>1. PICK N, t, body, old, k, all, c :
        /\ N = Len(doc) /\ t = s.title /\ body = Stripped(doc, s.body) /\ old = s.chunks
        /\ all = Flushed(doc, s) /\ c = [title |-> t, body |-> body]
        /\ k \in Nat /\ AreSections(doc, F, old, k)
        /\ IF t = 0 THEN k = 0 /\ old = <<>> ELSE k + 1 = t
  BY DEF ReadTo
<1>2. N \in Nat /\ j \in 0..N /\ j \in Nat BY <1>1, DocIs
<1>3. /\ t \in 0..j /\ t \in Nat /\ t <= j /\ Stretch(s.body, t, j) /\ F[t] = "none" /\ (t # 0 => F[t - 1] = "none")
  <2>1. t \in 0..j /\ Stretch(s.body, t, j) /\ F[t] = "none" /\ (t # 0 => F[t - 1] = "none")
    BY ONLY <1>1, ReadTo(doc, F, j, s) DEF ReadTo
  <2> QED BY <1>2, <2>1
<1>4. PICK a, b : t <= a /\ b <= j /\ Stretch(body, a, b) /\ Blank(doc, t, a) /\ Blank(doc, b, j)
  BY <1>1, <1>3, StrippedIs
<1>5. /\ a \in Nat /\ b \in Nat /\ a <= b /\ body \in Seq(Nat) /\ ToSet(body) = (a + 1)..b
      /\ (body = <<>> <=> a = b)
  BY <1>4, StretchIs DEF Stretch
<1>6. F[a] = "none"
  <2>1. a <= N BY <1>2, <1>4, <1>5
  <2> QED BY <1>1, <1>3, <1>4, <1>5, <2>1, BlankKeeps
<1>7. c.title = t /\ c.body = body /\ c \in SectionType BY <1>1, <1>3, <1>5 DEF SectionType
<1>8. IsSection(doc, F, c) /\ Before(c, j + 1)
  <2>1. t \in 0..N /\ b <= N /\ t < j + 1 /\ \A x \in (a + 1)..b : x < j + 1
    BY <1>2, <1>3, <1>4, <1>5
  <2> QED BY <1>1, <1>3, <1>4, <1>5, <1>6, <1>7, <2>1 DEF IsSection, Before
<1>9. \A i \in 1..j : i < t \/ (i = t /\ t # 0) \/ (i \in (t + 1)..a) \/ i \in (a + 1)..b \/ i \in (b + 1)..j
  BY <1>2, <1>3, <1>4, <1>5
<1>10. ASSUME NEW i \in 1..j, doc[i].kind # "blank"
       PROVE  i < t \/ Holds(c, i)
  <2>1. i \notin (t + 1)..a /\ i \notin (b + 1)..j BY <1>4, <1>10 DEF Blank
  <2> QED BY <1>5, <1>7, <1>9, <2>1 DEF Holds
<1>11. CASE t # 0 \/ body # <<>>
  <2>1. all = Append(old, c) BY <1>1, <1>11 DEF Flushed
  <2>2. /\ old \in Seq(SectionType)
        /\ \A n \in DOMAIN old : IsSection(doc, F, old[n]) /\ Before(old[n], k + 1)
        /\ \A m, n \in DOMAIN old : m < n => Before(old[m], old[n].title)
        /\ \A i \in 1..k : doc[i].kind # "blank" => \E n \in DOMAIN old : Holds(old[n], i)
    BY ONLY <1>1 DEF AreSections
  <2>3. PICK n : n = Len(old) OBVIOUS
  <2>4. /\ n \in Nat /\ DOMAIN old = 1..n /\ all \in Seq(SectionType) /\ DOMAIN all = 1..(n + 1)
        /\ all[n + 1] = c /\ \A i \in 1..n : all[i] = old[i] /\ i \in 1..(n + 1)
        /\ n + 1 \in 1..(n + 1) /\ \A i \in 1..(n + 1) : i \in 1..n \/ i = n + 1
    BY <1>7, <2>1, <2>2, <2>3, AppendIs
  <2>5. ASSUME NEW m \in 1..n
        PROVE  IsSection(doc, F, all[m]) /\ Before(all[m], t) /\ Before(all[m], j + 1)
    <3>1. t # 0 /\ k + 1 = t
      <4>1. old # <<>> BY <2>3, <2>4
      <4> QED BY <1>1, <4>1
    <3>2. Before(old[m], t) /\ all[m] = old[m] /\ IsSection(doc, F, old[m]) BY <2>2, <2>4, <3>1
    <3>3. old[m].title \in Nat /\ ToSet(old[m].body) \subseteq Nat
      <4>1. old[m] \in SectionType BY <2>2, <2>4
      <4>2. old[m].title \in Nat /\ old[m].body \in Seq(Nat) BY <4>1 DEF SectionType
      <4> QED BY <4>2 DEF ToSet
    <3>4. Before(old[m], j + 1)
      <4>1. \A x \in Nat : x < t => x < j + 1 BY <1>2, <1>3
      <4> QED BY <3>2, <3>3, <4>1 DEF Before
    <3> QED BY <3>2, <3>4
  <2>6. \A m \in 1..(n + 1) : IsSection(doc, F, all[m]) /\ Before(all[m], j + 1)
    BY <1>8, <2>4, <2>5
  <2>7. ASSUME NEW m \in 1..(n + 1), NEW h \in 1..(n + 1), m < h
        PROVE  Before(all[m], all[h].title)
    <3>1. CASE h = n + 1
      <4>1. m \in 1..n BY <2>4, <2>7, <3>1
      <4> QED BY <1>7, <2>4, <2>5, <3>1, <4>1
    <3>2. CASE h \in 1..n
      <4>1. m \in 1..n BY <2>4, <2>7, <3>2
      <4> QED BY <2>2, <2>4, <2>7, <3>2, <4>1
    <3> QED BY <2>4, <3>1, <3>2
  <2>8. ASSUME NEW i \in 1..j, doc[i].kind # "blank"
        PROVE  \E m \in 1..(n + 1) : Holds(all[m], i)
    <3>1. CASE Holds(c, i) BY <2>4, <3>1
    <3>2. CASE i < t
      <4>1. k + 1 = t /\ i \in 1..k BY <1>1, <1>3, <3>2
      <4>2. PICK m \in 1..n : Holds(old[m], i) BY <2>2, <2>4, <2>8, <4>1
      <4> QED BY <2>4, <4>2
    <3> QED BY <1>10, <2>8, <3>1, <3>2
  <2> QED BY <1>1, <2>4, <2>6, <2>7, <2>8 DEF AreSections
<1>12. CASE t = 0 /\ body = <<>>
  <2>1. all = old /\ old = <<>> BY <1>1, <1>12 DEF Flushed
  <2>2. \A i \in 1..j : doc[i].kind = "blank"
    <3>1. ASSUME NEW i \in 1..j
          PROVE  ~(i < t) /\ ~Holds(c, i)
      BY <1>5, <1>7, <1>12 DEF Holds
    <3> QED BY <1>10, <3>1
  <2>3. all \in Seq(SectionType) /\ DOMAIN all = {} BY <2>1, NothingIs
  <2>4. AreSections(doc, F, all, j) BY ONLY <2>2, <2>3 DEF AreSections
  <2> QED BY <1>1, <2>4
<1> QED BY <1>11, <1>12

\* One line more.
LEMMA LineReads ==
    ASSUME NEW doc, IsDoc(doc), NEW F, Fences(doc, F), NEW j \in 1..Len(doc), NEW s, ReadTo(doc, F, j - 1, s)
    PROVE  ReadTo(doc, F, j, AddLine(doc, s, j))
<1>1. PICK N, z : N = Len(doc) /\ z = AddLine(doc, s, j) OBVIOUS
<1>2. /\ N \in Nat /\ j \in 1..N /\ j \in Nat /\ j - 1 \in Nat /\ j - 1 \in 0..N /\ doc[j].kind \in Kinds
  BY <1>1, DocIs
<1>3. F[j] = Fence(F[j - 1], doc[j].kind) /\ F[j - 1] \in {"none", "tick", "tilde"}
  BY <1>1, <1>2, FencesAre DEF Fences
<1>4. /\ s.fence = F[j - 1] /\ s.title \in 0..(j - 1) /\ Stretch(s.body, s.title, j - 1)
      /\ F[s.title] = "none" /\ (s.title # 0 => F[s.title - 1] = "none")
      /\ \E k \in Nat : /\ AreSections(doc, F, s.chunks, k)
                        /\ IF s.title = 0 THEN k = 0 /\ s.chunks = <<>> ELSE k + 1 = s.title
  BY DEF ReadTo
<1>5. CASE doc[j].kind = "head" /\ s.fence = "none"
  <2>1. z = Sectioning(Flushed(doc, s), j, <<>>, s.fence) BY <1>1, <1>5 DEF AddLine
  <2>2. z.chunks = Flushed(doc, s) /\ z.title = j /\ z.body = <<>> /\ z.fence = s.fence
    BY <2>1 DEF Sectioning
  <2>3. F[j] = "none" /\ F[j - 1] = "none" BY <1>2, <1>3, <1>4, <1>5, FenceIs
  <2>4. Stretch(z.body, j, j)
    <3>1. z.body \in Seq(Nat) /\ Len(z.body) = 0 BY <2>2, NothingIs
    <3> QED BY <1>2, <3>1 DEF Stretch
  <2>5. AreSections(doc, F, z.chunks, j - 1) BY <1>1, <1>2, <2>2, FlushIs
  <2>6. j \in 0..j /\ (j - 1) + 1 = j /\ j # 0 BY <1>2
  <2>7. ReadTo(doc, F, j, z) BY ONLY <1>2, <1>4, <2>2, <2>3, <2>4, <2>5, <2>6 DEF ReadTo
  <2> QED BY <1>1, <2>7
<1>6. CASE ~(doc[j].kind = "head" /\ s.fence = "none")
  <2>1. z = Sectioning(s.chunks, s.title, Append(s.body, j), Fence(s.fence, doc[j].kind))
    BY <1>1, <1>6 DEF AddLine
  <2>2. /\ z.chunks = s.chunks /\ z.title = s.title /\ z.body = Append(s.body, j)
        /\ z.fence = Fence(s.fence, doc[j].kind)
    BY <2>1 DEF Sectioning
  <2>3. s.title \in 0..j /\ s.title \in Nat BY <1>2, <1>4
  <2>4. Stretch(z.body, s.title, j)
    <3>1. PICK a, x, y, n : a = s.title /\ x = s.body /\ y = z.body /\ n = Len(x) OBVIOUS
    <3>2. a \in Nat /\ a <= j - 1 /\ x \in Seq(Nat) /\ n = (j - 1) - a /\ \A i \in 1..((j - 1) - a) : x[i] = a + i
      BY <1>4, <3>1 DEF Stretch
    <3>3. y = Append(x, j) BY <2>2, <3>1
    <3>4. y \in Seq(Nat) /\ Len(y) = n + 1 /\ y[n + 1] = j /\ \A i \in 1..n : y[i] = x[i]
      <4>1. x \in Seq(Nat) /\ j \in Nat /\ n = Len(x) BY <1>2, <3>1, <3>2
      <4> QED BY ONLY <3>3, <4>1
    <3>5. a <= j /\ n + 1 = j - a /\ j = a + (n + 1) /\ \A i \in 1..(j - a) : i \in 1..((j - 1) - a) \/ i = n + 1
      BY ONLY <1>2, <3>2
    <3>6. \A i \in 1..(j - a) : y[i] = a + i BY ONLY <3>2, <3>4, <3>5
    <3>7. Stretch(y, a, j) BY ONLY <1>2, <3>2, <3>4, <3>5, <3>6 DEF Stretch
    <3> QED BY <3>1, <3>7
  <2>5. z.fence = F[j] BY <1>3, <1>4, <2>2
  <2>6. ReadTo(doc, F, j, z) BY ONLY <1>4, <2>2, <2>3, <2>4, <2>5 DEF ReadTo
  <2> QED BY <1>1, <2>6
<1> QED BY <1>5, <1>6

\* The sections of a document.
LEMMA SectionsAre ==
    ASSUME NEW doc, IsDoc(doc)
    PROVE  \E F : Fences(doc, F) /\ AreSections(doc, F, Sections(doc), Len(doc)) /\ Sections(doc) # <<>>
<1>1. PICK N, s, f, z : /\ N = Len(doc) /\ s = [i \in DOMAIN doc |-> i] /\ f = [op |-> "line", doc |-> doc]
                        /\ z = Sectioning(<<>>, 0, <<>>, "none")
  OBVIOUS
<1>2. N \in Nat /\ DOMAIN doc = 1..N /\ \A j \in 1..N : doc[j].kind \in Kinds BY <1>1, DocIs
<1>3. DOMAIN s = 1..N /\ \A j \in 1..N : s[j] = j BY <1>1, <1>2
<1>4. FoldsTo(f, z, s, N, AllLines(doc)) BY <1>1, <1>2, <1>3, LinesFold
<1>5. PICK run : Runs(f, z, s, N, AllLines(doc), run) BY <1>2, <1>4, FoldRuns
<1>6. run[0] = z /\ run[N] = AllLines(doc) /\ \A j \in 1..N : run[j] = AddLine(doc, run[j - 1], j)
  <2>1. \A b, x : Step(f, b, x) = AddLine(doc, b, x) BY <1>1 DEF Step
  <2> QED BY <1>3, <1>5, <2>1 DEF Runs
<1>7. PICK F : F = [j \in 0..N |-> run[j].fence] OBVIOUS
<1>8. z.chunks = <<>> /\ z.title = 0 /\ z.body = <<>> /\ z.fence = "none" BY <1>1 DEF Sectioning
<1>9. Fences(doc, F)
  <2>1. 0 \in 0..N /\ F[0] = "none" BY <1>2, <1>6, <1>7, <1>8
  <2>2. ASSUME NEW j \in 1..N
        PROVE  F[j] = Fence(F[j - 1], doc[j].kind)
    <3>1. j \in 0..N /\ j - 1 \in 0..N BY <1>2
    <3>2. F[j] = AddLine(doc, run[j - 1], j).fence /\ F[j - 1] = run[j - 1].fence
      BY <1>6, <1>7, <3>1
    <3>3. AddLine(doc, run[j - 1], j).fence = Fence(run[j - 1].fence, doc[j].kind)
      <4>1. \A open : Fence(open, "head") = open BY DEF Fence
      <4> QED BY <4>1 DEF AddLine, Sectioning
    <3> QED BY <3>2, <3>3
  <2> QED BY <1>1, <2>1, <2>2 DEF Fences
<1> DEFINE good == {j \in Nat : ReadTo(doc, F, j, run[j])}
<1>10. 0 \in good /\ good \in SUBSET Nat
  <2>1. Stretch(z.body, 0, 0)
    <3>1. z.body \in Seq(Nat) /\ Len(z.body) = 0 BY <1>8, NothingIs
    <3> QED BY <3>1 DEF Stretch
  <2>2. AreSections(doc, F, z.chunks, 0) BY <1>8, NoSections
  <2>3. F[0] = "none" BY <1>9 DEF Fences
  <2>4. ReadTo(doc, F, 0, z) BY ONLY <1>8, <2>1, <2>2, <2>3 DEF ReadTo
  <2> QED BY <1>6, <2>4
<1>11. ASSUME NEW j \in 1..N, j - 1 \in good
       PROVE  j \in good
  BY <1>1, <1>6, <1>9, <1>11, LineReads
<1>12. ReadTo(doc, F, N, AllLines(doc))
  <2>1. N \in good
    <3>1. N \in 0..N BY <1>2
    <3> HIDE DEF good
    <3> QED BY <1>2, <1>10, <1>11, <3>1, UpTo
  <2> QED BY <1>6, <2>1
<1>13. PICK all : all = Flushed(doc, AllLines(doc)) OBVIOUS
<1>14. AreSections(doc, F, all, N)
  <2>1. N \in 0..N BY <1>2
  <2> QED BY <1>1, <1>9, <1>12, <1>13, <2>1, FlushIs
<1>15. CASE all # <<>> BY <1>1, <1>9, <1>13, <1>14, <1>15 DEF Sections
<1>16. CASE all = <<>>
  <2>1. PICK c, one : c = [title |-> 0, body |-> <<>>] /\ one = <<c>> OBVIOUS
  <2>2. Sections(doc) = one BY <1>13, <1>16, <2>1 DEF Sections
  <2>3. c.title = 0 /\ c.body = <<>> /\ c.body \in Seq(Nat) /\ Len(c.body) = 0 /\ ToSet(c.body) = {}
    BY <2>1, NothingIs
  <2>4. c \in SectionType BY <2>1, <2>3 DEF SectionType
  <2>5. one \in Seq(SectionType) /\ DOMAIN one = 1..1 /\ one[1] = c /\ one # <<>> BY <2>1, <2>4
  <2>6. F[0] = "none" BY <1>9 DEF Fences
  <2>7. Stretch(c.body, 0, 0) BY <2>3 DEF Stretch
  <2>8. IsSection(doc, F, c) BY <1>1, <1>2, <2>3, <2>6, <2>7 DEF IsSection
  <2>9. Before(c, N + 1) BY <1>2, <2>3 DEF Before
  <2>10. \A i \in 1..N : ~(doc[i].kind # "blank")
    <3>1. DOMAIN all = {} BY <1>16
    <3> QED BY <1>14, <3>1 DEF AreSections
  <2>11. \A m, n \in 1..1 : ~(m < n) OBVIOUS
  <2>12. AreSections(doc, F, one, N) BY <2>5, <2>8, <2>9, <2>10, <2>11 DEF AreSections
  <2> QED BY <1>1, <1>9, <2>2, <2>5, <2>12
<1> QED BY <1>15, <1>16

\* Lines have a number of tokens.
LEMMA TokensAre ==
    ASSUME NEW doc, IsDoc(doc), NEW s \in Seq(1..Len(doc))
    PROVE  Tokens(doc, s) \in Nat
<1>1. PICK n, f, N, v : n = Len(s) /\ f = [op |-> "chars", doc |-> doc] /\ N = Len(doc) /\ v = SizeOf(doc, s)
  OBVIOUS
<1>2. n \in Nat /\ DOMAIN s = 1..n /\ \A i \in 1..n : s[i] \in 1..N BY <1>1
<1>3. FoldsTo(f, 0, s, n, v) BY <1>1, <1>2, SizeFolds
<1>4. PICK run : Runs(f, 0, s, n, v, run) BY <1>2, <1>3, FoldRuns
<1>5. run[0] = 0 /\ run[n] = v /\ \A j \in 1..n : run[j] = run[j - 1] + doc[s[j]].size
  <2>1. \A b, x : Step(f, b, x) = b + doc[x].size BY <1>1 DEF Step
  <2> QED BY <1>4, <2>1 DEF Runs
<1>6. \A i \in 1..n : doc[s[i]].size \in Nat BY <1>1, <1>2, DocIs
<1> DEFINE good == {j \in Nat : run[j] \in Nat}
<1>7. 0 \in good /\ good \in SUBSET Nat BY <1>5
<1>8. ASSUME NEW j \in 1..n, j - 1 \in good
      PROVE  j \in good
  BY ONLY <1>5, <1>6, <1>8
<1>9. n \in good
  <2>1. n \in 0..n BY <1>2
  <2> HIDE DEF good
  <2> QED BY <1>2, <1>7, <1>8, <2>1, UpTo
<1>10. v \in Nat BY <1>5, <1>9
<1>11. s # <<>> => n >= 1 BY <1>1, <1>2
<1>12. CASE s = <<>>
  <2>1. Tokens(doc, s) = 0 \div 4 BY <1>12 DEF Tokens
  <2> QED BY <2>1
<1>13. CASE s # <<>>
  <2>1. PICK w : w = v + n - 1 + 3 OBVIOUS
  <2>2. w \in Nat BY <1>2, <1>10, <1>11, <1>13, <2>1
  <2>3. w \div 4 \in Nat BY <2>2
  <2>4. Tokens(doc, s) = w \div 4 BY <1>1, <1>13, <2>1 DEF Tokens
  <2> QED BY <2>3, <2>4
<1> QED BY <1>12, <1>13

\* Lines come in order, within a sequence and from one to the next.
Rising(B) ==
    \A m, n \in DOMAIN B : \A i \in DOMAIN B[m], j \in DOMAIN B[n] :
        m < n \/ (m = n /\ i < j) => B[m][i] < B[n][j]

\* The lines after a up to b are these paragraphs.
AreParagraphs(doc, F, P, a, b) ==
    /\ P \in Seq(Seq(Nat)) /\ Rising(P)
    /\ \A m \in DOMAIN P : /\ P[m] # <<>> /\ F[P[m][1] - 1] = "none"
                           /\ \A i \in DOMAIN P[m] : P[m][i] \in (a + 1)..b
    /\ \A i \in (a + 1)..b : doc[i].kind # "blank" => \E m \in DOMAIN P : i \in ToSet(P[m])

\* A blank line is of none.
LEMMA BlankPasses ==
    ASSUME NEW doc, NEW F, NEW P, NEW a \in Nat, NEW b \in Nat, NEW h, h = b + 1,
           AreParagraphs(doc, F, P, a, b), doc[h].kind = "blank"
    PROVE  AreParagraphs(doc, F, P, a, h)
<1>1. (\A i \in (a + 1)..b : i \in (a + 1)..h) /\ (\A i \in (a + 1)..h : i = h \/ i \in (a + 1)..b)
  OBVIOUS
<1> QED BY ONLY <1>1, AreParagraphs(doc, F, P, a, b), doc[h].kind = "blank" DEF AreParagraphs

\* A line outside a fence begins a paragraph.
LEMMA ParagraphBegins ==
    ASSUME NEW doc, NEW F, NEW P, NEW a \in Nat, NEW b \in Nat, NEW h, h = b + 1, a <= b,
           AreParagraphs(doc, F, P, a, b), F[b] = "none"
    PROVE  AreParagraphs(doc, F, Append(P, <<h>>), a, h)
<1>1. /\ P \in Seq(Seq(Nat)) /\ Rising(P)
      /\ \A m \in DOMAIN P : /\ P[m] # <<>> /\ F[P[m][1] - 1] = "none"
                             /\ \A i \in DOMAIN P[m] : P[m][i] \in (a + 1)..b
      /\ \A i \in (a + 1)..b : doc[i].kind # "blank" => \E m \in DOMAIN P : i \in ToSet(P[m])
  BY DEF AreParagraphs
<1>2. PICK p, Q, n : p = <<h>> /\ Q = Append(P, p) /\ n = Len(P) OBVIOUS
<1>3. p \in Seq(Nat) /\ DOMAIN p = {1} /\ p[1] = h /\ p # <<>> /\ h \in ToSet(p) BY <1>2 DEF ToSet
<1>4. /\ n \in Nat /\ DOMAIN P = 1..n /\ Q \in Seq(Seq(Nat)) /\ DOMAIN Q = 1..(n + 1)
      /\ Q[n + 1] = p /\ \A i \in 1..n : Q[i] = P[i] /\ i \in 1..(n + 1)
      /\ n + 1 \in 1..(n + 1) /\ \A i \in 1..(n + 1) : i \in 1..n \/ i = n + 1
  BY <1>1, <1>2, <1>3, AppendIs
<1>5. /\ \A i \in (a + 1)..b : i \in (a + 1)..h /\ i < h
      /\ \A i \in (a + 1)..h : i = h \/ i \in (a + 1)..b
      /\ h \in (a + 1)..h /\ h - 1 = b
  OBVIOUS
<1>6. ASSUME NEW m \in 1..(n + 1)
      PROVE  /\ Q[m] # <<>> /\ F[Q[m][1] - 1] = "none"
             /\ \A i \in DOMAIN Q[m] : Q[m][i] \in (a + 1)..h
  <2>1. CASE m = n + 1 BY <1>3, <1>4, <1>5, <2>1
  <2>2. CASE m \in 1..n BY <1>1, <1>4, <1>5, <2>2
  <2> QED BY <1>4, <2>1, <2>2
<1>7. ASSUME NEW m \in 1..(n + 1), NEW k \in 1..(n + 1), NEW i \in DOMAIN Q[m], NEW j \in DOMAIN Q[k],
             m < k \/ (m = k /\ i < j)
      PROVE  Q[m][i] < Q[k][j]
  <2>1. CASE k \in 1..n
    <3>1. m \in 1..n BY <1>4, <1>7, <2>1
    <3> QED BY <1>1, <1>4, <1>7, <2>1, <3>1 DEF Rising
  <2>2. CASE k = n + 1
    <3>1. j = 1 /\ Q[k][j] = h BY <1>3, <1>4, <2>2
    <3>2. m \in 1..n
      <4>1. CASE m = n + 1
        <5>1. i = 1 BY <1>3, <1>4, <4>1
        <5> QED BY <1>4, <1>7, <2>2, <3>1, <4>1, <5>1
      <4> QED BY <1>4, <4>1
    <3>3. Q[m][i] \in (a + 1)..b BY <1>1, <1>4, <3>2
    <3> QED BY <1>5, <3>1, <3>3
  <2> QED BY <1>4, <2>1, <2>2
<1>8. Rising(Q) BY <1>4, <1>7 DEF Rising
<1>9. ASSUME NEW i \in (a + 1)..h, doc[i].kind # "blank"
      PROVE  \E m \in 1..(n + 1) : i \in ToSet(Q[m])
  <2>1. CASE i = h BY <1>3, <1>4, <2>1
  <2>2. CASE i \in (a + 1)..b BY <1>1, <1>4, <1>9, <2>2
  <2> QED BY <1>5, <2>1, <2>2
<1>10. AreParagraphs(doc, F, Q, a, h) BY <1>4, <1>6, <1>8, <1>9 DEF AreParagraphs
<1> QED BY <1>2, <1>10

\* Another line continues it.
LEMMA ParagraphGrows ==
    ASSUME NEW doc, NEW F, NEW all \in Seq(Seq(Nat)), NEW p \in Seq(Nat), p # <<>>,
           NEW a \in Nat, NEW b \in Nat, NEW h, h = b + 1, a <= b,
           AreParagraphs(doc, F, Append(all, p), a, b)
    PROVE  AreParagraphs(doc, F, Append(all, Append(p, h)), a, h)
<1>1. PICK P, q, Q, n, l : P = Append(all, p) /\ q = Append(p, h) /\ Q = Append(all, q) /\ n = Len(all) /\ l = Len(p)
  OBVIOUS
<1>2. /\ P \in Seq(Seq(Nat)) /\ Rising(P)
      /\ \A m \in DOMAIN P : /\ P[m] # <<>> /\ F[P[m][1] - 1] = "none"
                             /\ \A i \in DOMAIN P[m] : P[m][i] \in (a + 1)..b
      /\ \A i \in (a + 1)..b : doc[i].kind # "blank" => \E m \in DOMAIN P : i \in ToSet(P[m])
  BY <1>1 DEF AreParagraphs
<1>3. /\ l \in Nat /\ DOMAIN p = 1..l /\ q \in Seq(Nat) /\ DOMAIN q = 1..(l + 1)
      /\ q[l + 1] = h /\ \A i \in 1..l : q[i] = p[i] /\ i \in 1..(l + 1)
      /\ l + 1 \in 1..(l + 1) /\ \A i \in 1..(l + 1) : i \in 1..l \/ i = l + 1
      /\ ToSet(q) = ToSet(p) \cup {h} /\ q # <<>>
  <2>1. q = Append(p, h) /\ l = Len(p) /\ p \in Seq(Nat) /\ h \in Nat BY <1>1
  <2>2. /\ l \in Nat /\ DOMAIN p = 1..l /\ q \in Seq(Nat) /\ Len(q) = l + 1 /\ DOMAIN q = 1..(l + 1)
        /\ q[l + 1] = h /\ \A i \in 1..l : q[i] = p[i]
    BY ONLY <2>1
  <2>3. /\ \A i \in 1..l : i \in 1..(l + 1)
        /\ l + 1 \in 1..(l + 1) /\ \A i \in 1..(l + 1) : i \in 1..l \/ i = l + 1
    BY ONLY <2>2
  <2>4. q # <<>> BY ONLY <2>2
  <2>5. ToSet(q) = ToSet(p) \cup {h}
    <3>1. PICK C : C = Nat OBVIOUS
    <3>2. p \in Seq(C) BY <2>1, <3>1
    <3> QED BY ONLY <2>1, <3>2, AppendSet
  <2> QED BY <2>2, <2>3, <2>4, <2>5
<1>4. 1 \in 1..l /\ q[1] = p[1]
  <2>1. l # 0 BY <1>1
  <2> QED BY <1>3, <2>1
<1>5. /\ n \in Nat /\ DOMAIN all = 1..n
      /\ \A i \in 1..n : i \in 1..(n + 1)
      /\ n + 1 \in 1..(n + 1) /\ \A i \in 1..(n + 1) : i \in 1..n \/ i = n + 1
  BY <1>1
<1>6. DOMAIN P = 1..(n + 1) /\ P[n + 1] = p /\ \A i \in 1..n : P[i] = all[i] BY <1>1, <1>5
<1>7. Q \in Seq(Seq(Nat)) /\ DOMAIN Q = 1..(n + 1) /\ Q[n + 1] = q /\ \A i \in 1..n : Q[i] = P[i]
  BY <1>1, <1>3, <1>5, <1>6
<1>8. /\ \A i \in (a + 1)..b : i \in (a + 1)..h /\ i < h
      /\ \A i \in (a + 1)..h : i = h \/ i \in (a + 1)..b
      /\ h \in (a + 1)..h
  OBVIOUS
<1>9. ASSUME NEW m \in 1..(n + 1), NEW i \in DOMAIN Q[m]
      PROVE  \/ m = n + 1 /\ i = l + 1 /\ Q[m][i] = h
             \/ i \in DOMAIN P[m] /\ Q[m][i] = P[m][i] /\ P[m][i] \in (a + 1)..b
  <2>1. CASE m \in 1..n BY <1>2, <1>5, <1>6, <1>7, <2>1
  <2>2. CASE m = n + 1
    <3>1. i \in 1..(l + 1) BY <1>3, <1>7, <2>2
    <3>2. CASE i = l + 1 BY <1>3, <1>7, <2>2, <3>2
    <3>3. CASE i \in 1..l BY <1>2, <1>3, <1>5, <1>6, <1>7, <2>2, <3>3
    <3> QED BY <1>3, <3>1, <3>2, <3>3
  <2> QED BY <1>5, <2>1, <2>2
<1>10. ASSUME NEW m \in 1..(n + 1)
       PROVE  /\ Q[m] # <<>> /\ F[Q[m][1] - 1] = "none"
              /\ \A i \in DOMAIN Q[m] : Q[m][i] \in (a + 1)..h
  <2>1. \A i \in DOMAIN Q[m] : Q[m][i] \in (a + 1)..h BY <1>8, <1>9
  <2>2. CASE m \in 1..n BY <1>2, <1>5, <1>6, <1>7, <2>1, <2>2
  <2>3. CASE m = n + 1 BY ONLY ZenonT(30), <1>2, <1>3, <1>4, <1>5, <1>6, <1>7, <2>1, <2>3
  <2> QED BY <1>5, <2>2, <2>3
<1>11. ASSUME NEW m \in 1..(n + 1), NEW k \in 1..(n + 1), NEW i \in DOMAIN Q[m], NEW j \in DOMAIN Q[k],
              m < k \/ (m = k /\ i < j)
       PROVE  Q[m][i] < Q[k][j]
  <2>1. CASE k = n + 1 /\ j = l + 1 /\ Q[k][j] = h
    <3>1. ~(m = n + 1 /\ i = l + 1) BY <1>3, <1>5, <1>11, <2>1
    <3>2. Q[m][i] \in (a + 1)..b BY <1>9, <3>1
    <3> QED BY <1>8, <2>1, <3>2
  <2>2. CASE j \in DOMAIN P[k] /\ Q[k][j] = P[k][j] /\ P[k][j] \in (a + 1)..b
    <3>1. ~(m = n + 1 /\ i = l + 1)
      <4>1. ASSUME m = n + 1, i = l + 1
            PROVE  FALSE
        <5>1. k = n + 1 /\ i < j BY <1>5, <1>11, <4>1
        <5>2. j \in 1..l BY <1>3, <1>6, <2>2, <5>1
        <5> QED BY <1>3, <4>1, <5>1, <5>2
      <4> QED BY <4>1
    <3>2. i \in DOMAIN P[m] /\ Q[m][i] = P[m][i] BY <1>9, <3>1
    <3> QED BY <1>2, <1>6, <1>11, <2>2, <3>2 DEF Rising
  <2> QED BY <1>9, <2>1, <2>2
<1>12. Rising(Q) BY <1>7, <1>11 DEF Rising
<1>13. ASSUME NEW i \in (a + 1)..h, doc[i].kind # "blank"
       PROVE  \E m \in 1..(n + 1) : i \in ToSet(Q[m])
  <2>1. CASE i = h BY <1>3, <1>5, <1>7, <2>1
  <2>2. CASE i \in (a + 1)..b
    <3>1. PICK m \in 1..(n + 1) : i \in ToSet(P[m]) BY <1>2, <1>6, <1>13, <2>2
    <3> QED BY <1>3, <1>5, <1>6, <1>7, <3>1
  <2> QED BY <1>8, <2>1, <2>2
<1>14. AreParagraphs(doc, F, Q, a, h) BY <1>7, <1>10, <1>12, <1>13 DEF AreParagraphs
<1> QED BY <1>1, <1>14

\* What has been split of the lines after a up to b.
SplitTo(doc, F, a, b, s) ==
    /\ s.fence = F[b] /\ s.all \in Seq(Seq(Nat)) /\ s.current \in Seq(Nat)
    /\ AreParagraphs(doc, F, Closed(s.all, s.current), a, b)
    /\ s.current = <<>> => F[b] = "none"

\* One line more.
LEMMA LineSplits ==
    ASSUME NEW doc, IsDoc(doc), NEW F, Fences(doc, F), NEW a \in Nat, NEW b \in Nat, a <= b,
           NEW h \in 1..Len(doc), h = b + 1, NEW s, SplitTo(doc, F, a, b, s)
    PROVE  SplitTo(doc, F, a, h, SplitLine(doc, s, h))
<1>1. PICK N, z : N = Len(doc) /\ z = SplitLine(doc, s, h) OBVIOUS
<1>2. N \in Nat /\ h \in 1..N /\ h \in Nat /\ b \in 0..N /\ h - 1 = b /\ doc[h].kind \in Kinds
  BY <1>1, DocIs
<1>3. F[h] = Fence(F[b], doc[h].kind) /\ F[b] \in {"none", "tick", "tilde"}
  <2>1. F[h] = Fence(F[h - 1], doc[h].kind) BY <1>1, <1>2 DEF Fences
  <2>2. F[b] \in {"none", "tick", "tilde"} BY <1>1, <1>2, FencesAre
  <2> QED BY <1>2, <2>1, <2>2
<1>4. /\ s.fence = F[b] /\ s.all \in Seq(Seq(Nat)) /\ s.current \in Seq(Nat)
      /\ AreParagraphs(doc, F, Closed(s.all, s.current), a, b)
      /\ s.current = <<>> => F[b] = "none"
  BY DEF SplitTo
<1>5. CASE doc[h].kind = "blank" /\ s.fence = "none"
  <2>1. AreParagraphs(doc, F, Closed(s.all, s.current), a, h) BY <1>4, <1>5, BlankPasses
  <2>2. F[h] = "none" BY <1>2, <1>3, <1>4, <1>5, FenceIs
  <2>3. CASE s.current = <<>>
    <3>1. z = s BY <1>1, <1>5, <2>3 DEF SplitLine
    <3>2. SplitTo(doc, F, a, h, z) BY <1>4, <1>5, <2>1, <2>2, <3>1 DEF SplitTo
    <3> QED BY <1>1, <3>2
  <2>4. CASE s.current # <<>>
    <3>1. z = Splitting(Append(s.all, s.current), <<>>, s.fence) BY <1>1, <1>5, <2>4 DEF SplitLine
    <3>2. z.all = Append(s.all, s.current) /\ z.current = <<>> /\ z.fence = s.fence
      BY <3>1 DEF Splitting
    <3>3. Closed(z.all, z.current) = Closed(s.all, s.current) BY <2>4, <3>2 DEF Closed
    <3>4. z.all \in Seq(Seq(Nat)) /\ z.current \in Seq(Nat) BY <1>4, <3>2
    <3>5. SplitTo(doc, F, a, h, z) BY <1>5, <2>1, <2>2, <3>2, <3>3, <3>4 DEF SplitTo
    <3> QED BY <1>1, <3>5
  <2> QED BY <2>3, <2>4
<1>6. CASE ~(doc[h].kind = "blank" /\ s.fence = "none")
  <2>1. z = Splitting(s.all, Append(s.current, h), Fence(s.fence, doc[h].kind))
    BY <1>1, <1>6 DEF SplitLine
  <2>2. z.all = s.all /\ z.current = Append(s.current, h) /\ z.fence = F[h]
    BY <1>3, <1>4, <2>1 DEF Splitting
  <2>3. z.current \in Seq(Nat) /\ z.current # <<>>
    <3>1. PICK x, y : x = s.current /\ y = z.current OBVIOUS
    <3>2. x \in Seq(Nat) /\ h \in Nat /\ y = Append(x, h) BY <1>2, <1>4, <2>2, <3>1
    <3>3. y \in Seq(Nat) /\ Len(y) = Len(x) + 1 /\ Len(x) \in Nat BY ONLY <3>2
    <3>4. y # <<>> BY ONLY <3>3
    <3> QED BY <3>1, <3>3, <3>4
  <2>4. Closed(z.all, z.current) = Append(s.all, Append(s.current, h)) BY <2>2, <2>3 DEF Closed
  <2>5. AreParagraphs(doc, F, Closed(z.all, z.current), a, h)
    <3>1. CASE s.current = <<>>
      <4>1. Append(s.current, h) = <<h>> /\ Closed(s.all, s.current) = s.all BY <3>1 DEF Closed
      <4> QED BY <1>4, <2>4, <3>1, <4>1, ParagraphBegins
    <3>2. CASE s.current # <<>>
      <4>1. Closed(s.all, s.current) = Append(s.all, s.current) BY <3>2 DEF Closed
      <4> QED BY <1>4, <2>4, <3>2, <4>1, ParagraphGrows
    <3> QED BY <3>1, <3>2
  <2>6. SplitTo(doc, F, a, h, z) BY <1>4, <2>2, <2>3, <2>5 DEF SplitTo
  <2> QED BY <1>1, <2>6
<1> QED BY <1>5, <1>6

\* The paragraphs of a section.
LEMMA ParagraphsAre ==
    ASSUME NEW doc, IsDoc(doc), NEW F, Fences(doc, F), NEW s, NEW a, NEW b, Stretch(s, a, b),
           b <= Len(doc), F[a] = "none"
    PROVE  AreParagraphs(doc, F, Paragraphs(doc, s), a, b)
<1>1. PICK N, n, f, z, v : /\ N = Len(doc) /\ n = b - a /\ f = [op |-> "split", doc |-> doc]
                           /\ z = Splitting(<<>>, <<>>, "none") /\ v = Split(doc, s)
  OBVIOUS
<1>2. /\ N \in Nat /\ a \in Nat /\ b \in Nat /\ a <= b /\ b <= N /\ n \in Nat
      /\ DOMAIN s = 1..n /\ \A i \in 1..n : s[i] = a + i
  BY <1>1, DocIs, StretchIs DEF Stretch
<1>3. FoldsTo(f, z, s, n, v) BY <1>1, <1>2, SplitFolds
<1>4. PICK run : Runs(f, z, s, n, v, run) BY <1>2, <1>3, FoldRuns
<1>5. run[0] = z /\ run[n] = v /\ \A j \in 1..n : run[j] = SplitLine(doc, run[j - 1], a + j)
  <2>1. \A x, y : Step(f, x, y) = SplitLine(doc, x, y) BY <1>1 DEF Step
  <2> QED BY <1>2, <1>4, <2>1 DEF Runs
<1> DEFINE good == {j \in Nat : SplitTo(doc, F, a, a + j, run[j])}
<1>6. 0 \in good /\ good \in SUBSET Nat
  <2>1. z.all = <<>> /\ z.current = <<>> /\ z.fence = "none" BY <1>1 DEF Splitting
  <2>2. PICK e : e = <<>> OBVIOUS
  <2>3. e \in Seq(Nat) /\ e \in Seq(Seq(Nat)) /\ DOMAIN e = {} /\ Closed(z.all, z.current) = e
    BY <2>1, <2>2, NothingIs DEF Closed
  <2>4. (a + 1)..a = {} /\ a + 0 = a BY <1>2
  <2>5. AreParagraphs(doc, F, e, a, a) BY <2>3, <2>4 DEF AreParagraphs, Rising
  <2>6. SplitTo(doc, F, a, a, z) BY <2>1, <2>2, <2>3, <2>5 DEF SplitTo
  <2> QED BY <1>5, <2>4, <2>6
<1>7. ASSUME NEW j \in 1..n, j - 1 \in good
      PROVE  j \in good
  <2>1. PICK h, g : h = a + j /\ g = a + (j - 1) OBVIOUS
  <2>2. h \in 1..N /\ h = g + 1 /\ g \in Nat /\ a <= g /\ j \in Nat BY <1>1, <1>2, <2>1
  <2>3. SplitTo(doc, F, a, g, run[j - 1]) BY <1>7, <2>1
  <2>4. SplitTo(doc, F, a, h, SplitLine(doc, run[j - 1], h)) BY <1>1, <1>2, <2>2, <2>3, LineSplits
  <2> QED BY <1>5, <2>1, <2>2, <2>4
<1>8. n \in good
  <2>1. n \in 0..n BY <1>2
  <2> HIDE DEF good
  <2> QED BY <1>2, <1>6, <1>7, <2>1, UpTo
<1>9. SplitTo(doc, F, a, b, v)
  <2>1. a + n = b BY <1>1, <1>2
  <2> QED BY <1>5, <1>8, <2>1
<1> QED BY <1>1, <1>9 DEF SplitTo, Paragraphs

\* The tokens of nothing, and of one paragraph more.
LEMMA TokensOfMore ==
    ASSUME NEW doc, NEW C, NEW s \in Seq(C), NEW x \in C
    PROVE  /\ TokensOf(doc, <<>>) = 0
           /\ TokensOf(doc, Append(s, x)) = TokensOf(doc, s) + Tokens(doc, x)
<1>1. PICK e, t, n, m, f, base : /\ e = <<>> /\ t = Append(s, x) /\ n = Len(s) /\ m = n + 1
                                 /\ f = [op |-> "tokens", doc |-> doc] /\ base = 0
  OBVIOUS
<1>2. \A b, y : Step(f, b, y) = b + Tokens(doc, y) BY <1>1 DEF Step
<1>3. /\ n \in Nat /\ DOMAIN s = 1..n /\ DOMAIN t = 1..m /\ t[m] = x /\ m \in Nat
      /\ \A i \in 1..n : s[i] = t[i]
  BY <1>1
<1>4. TokensOf(doc, e) = 0
  <2>1. DOMAIN e = 1..0 /\ 0 \in Nat BY <1>1, NothingIs
  <2>2. FoldsTo(f, 0, e, 0, TokensOf(doc, e)) BY <1>1, <2>1, TokensFold
  <2> QED BY <2>2, FoldNothing
<1>5. TokensOf(doc, t) = TokensOf(doc, s) + Tokens(doc, x)
  <2>1. PICK v, w : v = TokensOf(doc, s) /\ w = TokensOf(doc, t) OBVIOUS
  <2>2. FoldsTo(f, base, s, n, v) /\ FoldsTo(f, base, t, m, w) BY <1>1, <1>3, <2>1, TokensFold
  <2>3. m = n + 1 BY <1>1
  <2>4. w = Step(f, v, t[m]) BY <1>3, <2>2, <2>3, FoldLonger
  <2> QED BY <1>2, <1>3, <2>1, <2>4
<1> QED BY <1>1, <1>4, <1>5

\* Tokens add up to a number.
LEMMA TokensOfAre ==
    ASSUME NEW doc, NEW C, \A p \in C : Tokens(doc, p) \in Nat, NEW s \in Seq(C)
    PROVE  TokensOf(doc, s) \in Nat
<1>1. PICK n, f, v : n = Len(s) /\ f = [op |-> "tokens", doc |-> doc] /\ v = TokensOf(doc, s)
  OBVIOUS
<1>2. n \in Nat /\ DOMAIN s = 1..n /\ \A i \in 1..n : s[i] \in C BY <1>1
<1>3. FoldsTo(f, 0, s, n, v) BY <1>1, <1>2, TokensFold
<1>4. PICK run : Runs(f, 0, s, n, v, run) BY <1>2, <1>3, FoldRuns
<1>5. run[0] = 0 /\ run[n] = v /\ \A j \in 1..n : run[j] = run[j - 1] + Tokens(doc, s[j])
  <2>1. \A b, x : Step(f, b, x) = b + Tokens(doc, x) BY <1>1 DEF Step
  <2> QED BY <1>4, <2>1 DEF Runs
<1> DEFINE good == {j \in Nat : run[j] \in Nat}
<1>6. 0 \in good /\ good \in SUBSET Nat BY <1>5
<1>7. ASSUME NEW j \in 1..n, j - 1 \in good
      PROVE  j \in good
  <2>1. Tokens(doc, s[j]) \in Nat BY <1>2
  <2> QED BY <1>5, <1>7, <2>1
<1>8. n \in good
  <2>1. n \in 0..n BY <1>2
  <2> HIDE DEF good
  <2> QED BY <1>2, <1>6, <1>7, <2>1, UpTo
<1> QED BY <1>1, <1>5, <1>8

\* One paragraph, or paragraphs within the limit.
FitsIn(doc, group, max) == Len(group) <= 1 \/ TokensOf(doc, group) <= max

\* What has been gathered of the first k paragraphs.
GatherTo(doc, C, P, k, s, max) ==
    /\ s.all \in Seq(Seq(C)) /\ s.group \in Seq(C) /\ s.tokens = TokensOf(doc, s.group)
    /\ \E at, pos : FlatTo(Append(s.all, s.group), Len(s.all) + 1, P, k, at, pos)
    /\ \A m \in DOMAIN s.all : s.all[m] # <<>> /\ FitsIn(doc, s.all[m], max)
    /\ FitsIn(doc, s.group, max)
    /\ s.group = <<>> => k = 0 /\ s.all = <<>>
    /\ s.all = <<>> => Len(s.group) = k /\ \A i \in 1..k : s.group[i] = P[i]

\* A paragraph begins a group.
LEMMA GroupBegins ==
    ASSUME NEW C, NEW all \in Seq(Seq(C)), NEW group \in Seq(C), NEW P, NEW k \in Nat, NEW h, h = k + 1,
           P[h] \in C, NEW at, NEW pos, FlatTo(Append(all, group), Len(all) + 1, P, k, at, pos)
    PROVE  \E more, next : FlatTo(Append(Append(all, group), <<P[h]>>), Len(Append(all, group)) + 1, P, h, more, next)
<1>1. PICK A, l, x, B, L : /\ A = Append(all, group) /\ l = Len(all) + 1 /\ x = <<P[h]>>
                           /\ B = Append(A, x) /\ L = Len(A) + 1
  OBVIOUS
<1>2. A \in Seq(Seq(C)) /\ x \in Seq(C) /\ Len(A) = l /\ l \in Nat /\ L = l + 1 BY <1>1
<1>3. DOMAIN x = {1} /\ x[1] = P[h] BY <1>1
<1>4. B[l + 1] = x /\ \A i \in 1..l : B[i] = A[i] BY ONLY <1>1, <1>2
<1>5. PICK more, next : /\ more = [i \in 1..h |-> IF i = h THEN l + 1 ELSE at[i]]
                        /\ next = [i \in 1..h |-> IF i = h THEN 1 ELSE pos[i]]
  OBVIOUS
<1>6. /\ at \in [1..k -> 1..l] /\ pos \in [1..k -> Nat]
      /\ \A i \in 1..k : pos[i] \in DOMAIN A[at[i]] /\ P[i] = A[at[i]][pos[i]]
      /\ \A i, j \in 1..k : i < j => at[i] < at[j] \/ (at[i] = at[j] /\ pos[i] < pos[j])
      /\ \A m \in 1..l : \A i \in DOMAIN A[m] : \E j \in 1..k : at[j] = m /\ pos[j] = i
  BY ONLY <1>1, FlatTo(Append(all, group), Len(all) + 1, P, k, at, pos) DEF FlatTo
<1>7. h \in 1..h /\ h \in Nat /\ \A i \in 1..h : i = h \/ (i \in 1..k /\ i # h) OBVIOUS
<1>8. \A i \in 1..k : i \in 1..h /\ i # h /\ i < h OBVIOUS
<1>9. \A i \in 1..k : more[i] = at[i] /\ next[i] = pos[i] /\ at[i] \in 1..l /\ pos[i] \in Nat
  BY <1>5, <1>6, <1>8
<1>10. more[h] = l + 1 /\ next[h] = 1 BY <1>5, <1>7
<1>11. (\A m \in 1..l : m \in 1..(l + 1) /\ m < l + 1) /\ l + 1 \in 1..(l + 1)
       /\ \A m \in 1..(l + 1) : m \in 1..l \/ m = l + 1
  BY <1>2
<1>12. more \in [1..h -> 1..(l + 1)] /\ next \in [1..h -> Nat]
  <2>1. \A i \in 1..h : more[i] \in 1..(l + 1) /\ next[i] \in Nat
    <3> TAKE i \in 1..h
    <3>1. CASE i = h BY <1>10, <1>11, <3>1
    <3>2. CASE i \in 1..k
      <4>1. more[i] = at[i] /\ at[i] \in 1..l /\ next[i] \in Nat BY <1>9, <3>2
      <4> QED BY <1>11, <4>1
    <3> QED BY <1>7, <3>1, <3>2
  <2> QED BY <1>5, <2>1
<1>13. ASSUME NEW i \in 1..h
       PROVE  next[i] \in DOMAIN B[more[i]] /\ P[i] = B[more[i]][next[i]]
  <2>1. CASE i = h BY <1>3, <1>4, <1>10, <2>1
  <2>2. CASE i \in 1..k
    <3>1. pos[i] \in DOMAIN A[at[i]] /\ P[i] = A[at[i]][pos[i]] BY <1>6, <2>2
    <3>2. more[i] = at[i] /\ next[i] = pos[i] /\ B[at[i]] = A[at[i]] BY <1>4, <1>9, <2>2
    <3> QED BY <3>1, <3>2
  <2> QED BY <1>7, <2>1, <2>2
<1>14. ASSUME NEW i \in 1..h, NEW j \in 1..h, i < j
       PROVE  more[i] < more[j] \/ (more[i] = more[j] /\ next[i] < next[j])
  <2>1. i \in 1..k BY <1>7, <1>14
  <2>2. CASE j = h BY <1>9, <1>10, <1>11, <2>1, <2>2
  <2>3. CASE j \in 1..k BY ONLY <1>6, <1>9, <1>14, <2>1, <2>3
  <2> QED BY <1>7, <2>2, <2>3
<1>15. ASSUME NEW m \in 1..(l + 1), NEW i \in DOMAIN B[m]
       PROVE  \E j \in 1..h : more[j] = m /\ next[j] = i
  <2>1. CASE m = l + 1
    <3>1. i = 1 BY <1>3, <1>4, <2>1
    <3> QED BY <1>7, <1>10, <2>1, <3>1
  <2>2. CASE m \in 1..l
    <3>1. PICK j \in 1..k : at[j] = m /\ pos[j] = i BY <1>4, <1>6, <2>2
    <3> QED BY <1>8, <1>9, <3>1
  <2> QED BY <1>11, <2>1, <2>2
<1>16. FlatTo(B, l + 1, P, h, more, next) BY <1>12, <1>13, <1>14, <1>15 DEF FlatTo
<1> QED BY <1>1, <1>2, <1>16

\* Another paragraph joins it.
LEMMA GroupGrows ==
    ASSUME NEW C, NEW all \in Seq(Seq(C)), NEW group \in Seq(C), NEW P, NEW k \in Nat, NEW h, h = k + 1,
           P[h] \in C, NEW at, NEW pos, FlatTo(Append(all, group), Len(all) + 1, P, k, at, pos)
    PROVE  \E more, next : FlatTo(Append(all, Append(group, P[h])), Len(all) + 1, P, h, more, next)
<1>1. PICK A, n, l, x, B, g : /\ A = Append(all, group) /\ n = Len(all) /\ l = n + 1 /\ x = Append(group, P[h])
                              /\ B = Append(all, x) /\ g = Len(group)
  OBVIOUS
<1>2. /\ n \in Nat /\ l \in Nat /\ g \in Nat /\ DOMAIN group = 1..g
      /\ x \in Seq(C) /\ DOMAIN x = 1..(g + 1) /\ x[g + 1] = P[h] /\ \A i \in 1..g : x[i] = group[i]
  BY <1>1
<1>3. A[l] = group /\ B[l] = x /\ \A m \in 1..n : A[m] = B[m]
  BY ONLY <1>1, <1>2, all \in Seq(Seq(C)), group \in Seq(C)
<1>4. (\A m \in 1..l : m \in 1..n \/ m = l) /\ (\A m \in 1..n : m \in 1..l /\ m < l) /\ l \in 1..l
  BY <1>1, <1>2
<1>5. PICK more, next : /\ more = [i \in 1..h |-> IF i = h THEN l ELSE at[i]]
                        /\ next = [i \in 1..h |-> IF i = h THEN g + 1 ELSE pos[i]]
  OBVIOUS
<1>6. /\ at \in [1..k -> 1..l] /\ pos \in [1..k -> Nat]
      /\ \A i \in 1..k : pos[i] \in DOMAIN A[at[i]] /\ P[i] = A[at[i]][pos[i]]
      /\ \A i, j \in 1..k : i < j => at[i] < at[j] \/ (at[i] = at[j] /\ pos[i] < pos[j])
      /\ \A m \in 1..l : \A i \in DOMAIN A[m] : \E j \in 1..k : at[j] = m /\ pos[j] = i
  BY ONLY <1>1, FlatTo(Append(all, group), Len(all) + 1, P, k, at, pos) DEF FlatTo
<1>7. h \in 1..h /\ h \in Nat /\ \A i \in 1..h : i = h \/ (i \in 1..k /\ i # h) OBVIOUS
<1>8. \A i \in 1..k : i \in 1..h /\ i # h /\ i < h OBVIOUS
<1>9. \A i \in 1..k : more[i] = at[i] /\ next[i] = pos[i] /\ at[i] \in 1..l /\ pos[i] \in Nat
  BY <1>5, <1>6, <1>8
<1>10. more[h] = l /\ next[h] = g + 1 BY <1>5, <1>7
<1>11. \A i \in 1..g : i \in 1..(g + 1) /\ i < g + 1 BY <1>2
<1>12. more \in [1..h -> 1..l] /\ next \in [1..h -> Nat]
  <2>1. \A i \in 1..h : more[i] \in 1..l /\ next[i] \in Nat
    <3> TAKE i \in 1..h
    <3>1. CASE i = h BY <1>2, <1>4, <1>10, <3>1
    <3>2. CASE i \in 1..k BY <1>9, <3>2
    <3> QED BY <1>7, <3>1, <3>2
  <2> QED BY <1>5, <2>1
<1>13. ASSUME NEW i \in 1..h
       PROVE  next[i] \in DOMAIN B[more[i]] /\ P[i] = B[more[i]][next[i]]
  <2>1. CASE i = h
    <3>1. g + 1 \in 1..(g + 1) BY <1>2
    <3> QED BY <1>2, <1>3, <1>10, <2>1, <3>1
  <2>2. CASE i \in 1..k
    <3>1. pos[i] \in DOMAIN A[at[i]] /\ P[i] = A[at[i]][pos[i]] /\ more[i] = at[i] /\ next[i] = pos[i] /\ at[i] \in 1..l
      BY <1>6, <1>9, <2>2
    <3>2. CASE at[i] \in 1..n BY <1>3, <3>1, <3>2
    <3>3. CASE at[i] = l
      <4>1. pos[i] \in 1..g /\ P[i] = group[pos[i]] BY <1>2, <1>3, <3>1, <3>3
      <4> QED BY <1>2, <1>3, <1>11, <3>1, <3>3, <4>1
    <3> QED BY <1>4, <3>1, <3>2, <3>3
  <2> QED BY <1>7, <2>1, <2>2
<1>14. ASSUME NEW i \in 1..h, NEW j \in 1..h, i < j
       PROVE  more[i] < more[j] \/ (more[i] = more[j] /\ next[i] < next[j])
  <2>1. i \in 1..k BY <1>7, <1>14
  <2>2. CASE j = h
    <3>1. pos[i] \in DOMAIN A[at[i]] /\ more[i] = at[i] /\ next[i] = pos[i] /\ at[i] \in 1..l
      BY <1>6, <1>9, <2>1
    <3>2. CASE at[i] \in 1..n BY <1>4, <1>10, <2>2, <3>1, <3>2
    <3>3. CASE at[i] = l
      <4>1. pos[i] \in 1..g BY <1>2, <1>3, <3>1, <3>3
      <4> QED BY <1>10, <1>11, <2>2, <3>1, <3>3, <4>1
    <3> QED BY <1>4, <3>1, <3>2, <3>3
  <2>3. CASE j \in 1..k BY ONLY <1>6, <1>9, <1>14, <2>1, <2>3
  <2> QED BY <1>7, <2>2, <2>3
<1>15. ASSUME NEW m \in 1..l, NEW i \in DOMAIN B[m]
       PROVE  \E j \in 1..h : more[j] = m /\ next[j] = i
  <2>1. CASE m = l /\ i = g + 1 BY <1>7, <1>10, <2>1
  <2>2. CASE ~(m = l /\ i = g + 1)
    <3>1. i \in DOMAIN A[m]
      <4>1. CASE m = l
        <5>1. i \in 1..(g + 1) /\ i # g + 1 BY <1>2, <1>3, <2>2, <4>1
        <5>2. i \in 1..g BY <1>2, <5>1
        <5> QED BY <1>2, <1>3, <4>1, <5>2
      <4>2. CASE m \in 1..n BY <1>3, <4>2
      <4> QED BY <1>4, <4>1, <4>2
    <3>2. PICK j \in 1..k : at[j] = m /\ pos[j] = i BY <1>6, <3>1
    <3> QED BY <1>8, <1>9, <3>2
  <2> QED BY <2>1, <2>2
<1>16. FlatTo(B, l, P, h, more, next) BY <1>12, <1>13, <1>14, <1>15 DEF FlatTo
<1> QED BY <1>1, <1>16

\* One paragraph more.
LEMMA ParagraphGathers ==
    ASSUME NEW doc, NEW C, NEW P \in Seq(C), \A p \in C : Tokens(doc, p) \in Nat,
           NEW max \in Nat, NEW h \in 1..Len(P), NEW k \in Nat, h = k + 1,
           NEW s, GatherTo(doc, C, P, k, s, max)
    PROVE  GatherTo(doc, C, P, h, AddParagraph(doc, s, P[h], max), max)
<1>1. PICK z, p, all, group : /\ z = AddParagraph(doc, s, p, max) /\ p = P[h]
                              /\ all = s.all /\ group = s.group
  OBVIOUS
<1>2. p \in C /\ P[h] \in C BY <1>1
<1>3. /\ all \in Seq(Seq(C)) /\ group \in Seq(C) /\ s.tokens = TokensOf(doc, group)
      /\ \E at, pos : FlatTo(Append(all, group), Len(all) + 1, P, k, at, pos)
      /\ \A m \in DOMAIN all : all[m] # <<>> /\ FitsIn(doc, all[m], max)
      /\ FitsIn(doc, group, max)
      /\ group = <<>> => k = 0 /\ all = <<>>
      /\ all = <<>> => Len(group) = k /\ \A i \in 1..k : group[i] = P[i]
  BY ONLY <1>1, GatherTo(doc, C, P, k, s, max) DEF GatherTo
<1>4. PICK at, pos : FlatTo(Append(all, group), Len(all) + 1, P, k, at, pos) BY <1>3
<1>5. CASE group # <<>> /\ s.tokens + Tokens(doc, p) > max
  <2>1. PICK A, one, n : A = Append(all, group) /\ one = <<p>> /\ n = Len(all) OBVIOUS
  <2>2. z = Gathering(A, one, Tokens(doc, p)) BY ONLY <1>1, <1>5, <2>1 DEF AddParagraph
  <2>3. z.all = A /\ z.group = one /\ z.tokens = Tokens(doc, p) BY <2>2 DEF Gathering
  <2>4. A \in Seq(Seq(C)) /\ one \in Seq(C) /\ Len(one) = 1 /\ one # <<>> BY <1>2, <1>3, <2>1
  <2>5. /\ n \in Nat /\ DOMAIN all = 1..n /\ DOMAIN A = 1..(n + 1)
        /\ A[n + 1] = group /\ \A m \in 1..n : A[m] = all[m]
    BY ONLY <1>3, <2>1
  <2>6. A # <<>> /\ \A m \in 1..(n + 1) : m \in 1..n \/ m = n + 1 BY ONLY <2>5
  <2>7. \A m \in DOMAIN A : A[m] # <<>> /\ FitsIn(doc, A[m], max) BY <1>3, <1>5, <2>5, <2>6
  <2>8. FitsIn(doc, one, max) BY <2>4 DEF FitsIn
  <2>9. Tokens(doc, p) = TokensOf(doc, one)
    <3>1. PICK e : e = <<>> OBVIOUS
    <3>2. e \in Seq(C) /\ one = Append(e, p) BY <1>2, <2>1, <3>1
    <3>3. TokensOf(doc, e) = 0 /\ TokensOf(doc, Append(e, p)) = TokensOf(doc, e) + Tokens(doc, p)
      BY <1>2, <3>1, <3>2, TokensOfMore
    <3>4. Tokens(doc, p) \in Nat BY <1>2
    <3>5. 0 + Tokens(doc, p) = Tokens(doc, p) BY <3>4
    <3> QED BY ONLY <3>2, <3>3, <3>5
  <2>10. \E more, next : FlatTo(Append(A, one), Len(A) + 1, P, h, more, next)
    BY ZenonT(30), <1>1, <1>2, <1>3, <1>4, <2>1, GroupBegins
  <2>11. GatherTo(doc, C, P, h, z, max)
    BY ONLY <2>3, <2>4, <2>6, <2>7, <2>8, <2>9, <2>10 DEF GatherTo
  <2> QED BY <1>1, <2>11
<1>6. CASE ~(group # <<>> /\ s.tokens + Tokens(doc, p) > max)
  <2>1. PICK g, n : g = Append(group, p) /\ n = Len(group) OBVIOUS
  <2>2. z = Gathering(all, g, s.tokens + Tokens(doc, p)) BY ONLY <1>1, <1>6, <2>1 DEF AddParagraph
  <2>3. z.all = all /\ z.group = g /\ z.tokens = s.tokens + Tokens(doc, p) BY <2>2 DEF Gathering
  <2>4. /\ n \in Nat /\ g \in Seq(C) /\ Len(g) = n + 1 /\ g[n + 1] = p /\ \A i \in 1..n : g[i] = group[i]
    BY ONLY <1>2, <1>3, <2>1
  <2>5. g # <<>> BY ONLY <2>4
  <2>6. z.tokens = TokensOf(doc, g)
    <3>1. TokensOf(doc, g) = TokensOf(doc, group) + Tokens(doc, p)
      BY <1>2, <1>3, <2>1, TokensOfMore
    <3> QED BY <1>3, <2>3, <3>1
  <2>7. FitsIn(doc, g, max)
    <3>1. CASE group = <<>>
      <4>1. n = 0 BY <2>1, <3>1
      <4> QED BY <2>4, <4>1 DEF FitsIn
    <3>2. CASE group # <<>>
      <4>1. ~(z.tokens > max) BY <1>6, <2>3, <3>2
      <4>2. z.tokens \in Int
        <5>1. Tokens(doc, p) \in Nat /\ s.tokens \in Nat
          <6>1. TokensOf(doc, group) \in Nat
            BY ONLY <1>3, \A y \in C : Tokens(doc, y) \in Nat, TokensOfAre
          <6> QED BY <1>2, <1>3, <6>1
        <5> QED BY <2>3, <5>1
      <4>3. z.tokens <= max BY <4>1, <4>2
      <4> QED BY <2>6, <4>3 DEF FitsIn
    <3> QED BY <3>1, <3>2
  <2>8. \E more, next : FlatTo(Append(all, g), Len(all) + 1, P, h, more, next)
    BY ZenonT(30), <1>1, <1>2, <1>3, <1>4, <2>1, GroupGrows
  <2>9. all = <<>> => Len(g) = h /\ \A i \in 1..h : g[i] = P[i]
    <3>1. CASE all = <<>>
      <4>1. n = k /\ \A i \in 1..k : group[i] = P[i] BY <1>3, <2>1, <3>1
      <4>2. \A i \in 1..h : i \in 1..k \/ i = h OBVIOUS
      <4> QED BY <1>1, <2>4, <4>1, <4>2
    <3> QED BY <3>1
  <2>10. GatherTo(doc, C, P, h, z, max)
    BY ONLY <1>3, <2>3, <2>4, <2>5, <2>6, <2>7, <2>8, <2>9 DEF GatherTo
  <2> QED BY <1>1, <2>10
<1> QED BY <1>5, <1>6

\* The groups of a section.
LEMMA GroupsAre ==
    ASSUME NEW doc, NEW C, NEW P \in Seq(C), \A p \in C : Tokens(doc, p) \in Nat, NEW max \in Nat,
           NEW end, end = Gathered(doc, P, max), NEW G, G = Closed(end.all, end.group)
    PROVE  /\ G \in Seq(Seq(C)) /\ \A m \in DOMAIN G : G[m] # <<>> /\ FitsIn(doc, G[m], max)
           /\ \E at, pos : FlatTo(G, Len(G), P, Len(P), at, pos)
           /\ Len(G) < 2 => FitsIn(doc, P, max)
<1>1. PICK n, f, z : /\ n = Len(P) /\ f = [op |-> "gather", doc |-> doc, max |-> max]
                     /\ z = Gathering(<<>>, <<>>, 0)
  OBVIOUS
<1>2. n \in Nat /\ DOMAIN P = 1..n BY <1>1
<1>3. FoldsTo(f, z, P, n, end) BY <1>1, <1>2, GatherFolds
<1>4. PICK run : Runs(f, z, P, n, end, run) BY <1>2, <1>3, FoldRuns
<1>5. run[0] = z /\ run[n] = end /\ \A j \in 1..n : run[j] = AddParagraph(doc, run[j - 1], P[j], max)
  <2>1. \A x, y : Step(f, x, y) = AddParagraph(doc, x, y, max) BY <1>1 DEF Step
  <2> QED BY <1>4, <2>1 DEF Runs
<1> DEFINE good == {j \in Nat : GatherTo(doc, C, P, j, run[j], max)}
<1>6. 0 \in good /\ good \in SUBSET Nat
  <2>1. z.all = <<>> /\ z.group = <<>> /\ z.tokens = 0 BY <1>1 DEF Gathering
  <2>2. PICK e, A, o, l : e = <<>> /\ A = Append(e, e) /\ o = 0 /\ l = Len(e) + 1 OBVIOUS
  <2>3. e \in Seq(Seq(C)) /\ e \in Seq(C) /\ DOMAIN e = {} /\ Len(e) = 0 BY <2>2, NothingIs
  <2>4. l = 1 /\ A[1] = e BY <2>2, <2>3
  <2>5. PICK none : none = [i \in 1..o |-> 1] OBVIOUS
  <2>6. none \in [1..o -> 1..l] /\ none \in [1..o -> Nat] /\ \A i \in 1..o : FALSE
    BY <2>2, <2>4, <2>5
  <2>7. \A m \in 1..l : A[m] = e BY <2>4
  <2>8. FlatTo(A, l, P, o, none, none) BY <2>3, <2>6, <2>7 DEF FlatTo
  <2>9. FlatTo(Append(z.all, z.group), Len(z.all) + 1, P, 0, none, none) BY <2>1, <2>2, <2>8
  <2>10. TokensOf(doc, e) = 0
    <3>1. CASE C = {}
      <4>1. PICK D, c : D = {0} /\ c = 0 OBVIOUS
      <4>2. e \in Seq(D) /\ c \in D BY <2>2, <4>1
      <4> QED BY <2>2, <4>2, TokensOfMore
    <3>2. CASE C # {} BY <2>2, <2>3, <3>2, TokensOfMore
    <3> QED BY <3>1, <3>2
  <2>11. FitsIn(doc, z.group, max) BY <2>1, <2>2, <2>3 DEF FitsIn
  <2>12. \A i \in 1..0 : FALSE OBVIOUS
  <2>13. GatherTo(doc, C, P, 0, z, max)
    BY ONLY <2>1, <2>2, <2>3, <2>9, <2>10, <2>11, <2>12 DEF GatherTo
  <2> QED BY <1>5, <2>13
<1>7. ASSUME NEW j \in 1..n, j - 1 \in good
      PROVE  j \in good
  <2>1. j - 1 \in Nat /\ j = (j - 1) + 1 /\ j \in Nat BY <1>2
  <2>2. GatherTo(doc, C, P, j, AddParagraph(doc, run[j - 1], P[j], max), max)
    BY <1>1, <1>7, <2>1, ParagraphGathers
  <2> QED BY <1>5, <2>1, <2>2
<1>8. GatherTo(doc, C, P, n, end, max)
  <2>1. n \in good
    <3>1. n \in 0..n BY <1>2
    <3> HIDE DEF good
    <3> QED BY <1>2, <1>6, <1>7, <3>1, UpTo
  <2> QED BY <1>5, <2>1
<1>9. PICK all, group : all = end.all /\ group = end.group OBVIOUS
<1>10. /\ all \in Seq(Seq(C)) /\ group \in Seq(C)
       /\ \E at, pos : FlatTo(Append(all, group), Len(all) + 1, P, n, at, pos)
       /\ \A m \in DOMAIN all : all[m] # <<>> /\ FitsIn(doc, all[m], max)
       /\ FitsIn(doc, group, max)
       /\ group = <<>> => n = 0 /\ all = <<>>
       /\ all = <<>> => Len(group) = n /\ \A i \in 1..n : group[i] = P[i]
  BY ONLY <1>8, <1>9 DEF GatherTo
<1>11. CASE group = <<>>
  <2>1. n = 0 /\ G = <<>> BY <1>9, <1>10, <1>11 DEF Closed
  <2>2. G \in Seq(Seq(C)) /\ DOMAIN G = {} /\ Len(G) = 0 BY <2>1, NothingIs
  <2>3. PICK none, o : o = 0 /\ none = [i \in 1..o |-> 1] OBVIOUS
  <2>4. none \in [1..o -> 1..o] /\ none \in [1..o -> Nat] /\ \A i \in 1..o : FALSE BY <2>3
  <2>5. FlatTo(G, o, P, o, none, none) BY <2>4 DEF FlatTo
  <2>6. FitsIn(doc, P, max) BY <1>1, <2>1 DEF FitsIn
  <2> QED BY <1>1, <2>1, <2>2, <2>3, <2>5, <2>6
<1>12. CASE group # <<>>
  <2>1. PICK l : l = Len(all) OBVIOUS
  <2>2. G = Append(all, group) BY <1>9, <1>12 DEF Closed
  <2>3. /\ l \in Nat /\ DOMAIN all = 1..l /\ G \in Seq(Seq(C)) /\ Len(G) = l + 1 /\ DOMAIN G = 1..(l + 1)
        /\ G[l + 1] = group /\ \A m \in 1..l : G[m] = all[m]
    BY ONLY <1>10, <2>1, <2>2
  <2>4. \A m \in 1..(l + 1) : m \in 1..l \/ m = l + 1 BY ONLY <2>3
  <2>5. \A m \in DOMAIN G : G[m] # <<>> /\ FitsIn(doc, G[m], max) BY ONLY <1>10, <1>12, <2>3, <2>4
  <2>6. \E at, pos : FlatTo(G, Len(G), P, Len(P), at, pos) BY <1>1, <1>10, <2>1, <2>2, <2>3
  <2>7. ASSUME Len(G) < 2
        PROVE  FitsIn(doc, P, max)
    <3>1. all = <<>> BY <1>10, <2>1, <2>3, <2>7
    <3>2. Len(group) = Len(P) /\ \A i \in 1..Len(P) : P[i] = group[i] BY <1>1, <1>10, <3>1
    <3>3. P = group BY <1>10, <3>2, SeqEqual
    <3> QED BY <1>10, <3>3
  <2> QED BY <2>3, <2>5, <2>6, <2>7
<1> QED BY <1>11, <1>12

\* What is flattened comes in the same order.
LEMMA FlatOrder ==
    ASSUME NEW B, NEW t, NEW l \in Nat, NEW n \in Nat, NEW at, NEW pos, FlatTo(B, l, t, n, at, pos),
           NEW k \in 1..n, NEW h \in 1..n,
           at[k] < at[h] \/ (at[k] = at[h] /\ pos[k] < pos[h])
    PROVE  k < h
<1>1. /\ at[k] \in 1..l /\ at[h] \in 1..l /\ pos[k] \in Nat /\ pos[h] \in Nat
      /\ h < k => at[h] < at[k] \/ (at[h] = at[k] /\ pos[h] < pos[k])
  BY DEF FlatTo
<1>2. ~(h < k) /\ h # k BY <1>1
<1> QED BY <1>2

\* L[n] has the lines of the n-th group of paragraphs.
LinesAre(G, L) == L = [n \in DOMAIN G |-> FlattenSeq(G[n])]

\* The i-th of them is line p[i] of paragraph a[i] of the group.
LinesTo(G, L, n, a, p) == FlatTo(G[n], Len(G[n]), L[n], Len(L[n]), a, p)

\* The lines of groups of paragraphs are those of the paragraphs.
LEMMA GroupedLines ==
    ASSUME NEW P \in Seq(Seq(Nat)), Rising(P), \A m \in DOMAIN P : P[m] # <<>>,
           NEW G \in Seq(Seq(Seq(Nat))), \A m \in DOMAIN G : G[m] # <<>>,
           NEW at, NEW pos, FlatTo(G, Len(G), P, Len(P), at, pos), NEW L, LinesAre(G, L)
    PROVE  /\ L \in Seq(Seq(Nat)) /\ DOMAIN L = DOMAIN G /\ Rising(L)
           /\ \A m \in DOMAIN P : \A i \in ToSet(P[m]) : \E n \in DOMAIN L : i \in ToSet(L[n])
           /\ \A n \in DOMAIN L : \A i \in DOMAIN L[n] : \E m \in DOMAIN P : L[n][i] \in ToSet(P[m])
           /\ \A n \in DOMAIN L : L[n] # <<>> /\ \E m \in DOMAIN P : L[n][1] = P[m][1]
<1>1. PICK N, g : N = Len(P) /\ g = Len(G) OBVIOUS
<1>2. /\ N \in Nat /\ DOMAIN P = 1..N /\ \A m \in 1..N : P[m] \in Seq(Nat)
      /\ g \in Nat /\ DOMAIN G = 1..g /\ \A n \in 1..g : G[n] \in Seq(Seq(Nat))
  BY <1>1
<1>3. /\ at \in [1..N -> 1..g] /\ pos \in [1..N -> Nat]
      /\ \A k \in 1..N : pos[k] \in DOMAIN G[at[k]] /\ P[k] = G[at[k]][pos[k]]
      /\ \A m \in 1..g : \A i \in DOMAIN G[m] : \E k \in 1..N : at[k] = m /\ pos[k] = i
  BY ONLY <1>1, FlatTo(G, Len(G), P, Len(P), at, pos) DEF FlatTo
<1>4. \A k, h \in 1..N : at[k] < at[h] \/ (at[k] = at[h] /\ pos[k] < pos[h]) => k < h
  BY ONLY <1>1, <1>2, FlatTo(G, Len(G), P, Len(P), at, pos), FlatOrder
<1>5. DOMAIN L = 1..g /\ \A n \in 1..g : L[n] = FlattenSeq(G[n])
  BY ONLY <1>2, LinesAre(G, L) DEF LinesAre
<1>6. ASSUME NEW n \in 1..g
      PROVE  L[n] \in Seq(Nat) /\ \E a, p : LinesTo(G, L, n, a, p)
  <2>1. PICK B, t, C : B = G[n] /\ t = L[n] /\ C = Nat OBVIOUS
  <2>2. B \in Seq(Seq(C)) /\ t = FlattenSeq(B) BY <1>2, <1>5, <2>1
  <2>3. t \in Seq(C) /\ \E a, p : FlatTo(B, Len(B), t, Len(t), a, p) BY ONLY <2>2, FlattenIs
  <2> QED BY <2>1, <2>3 DEF LinesTo
<1>7. L \in Seq(Seq(Nat))
  <2>1. L = [n \in 1..g |-> FlattenSeq(G[n])] BY ONLY <1>2, LinesAre(G, L) DEF LinesAre
  <2>2. L \in [1..g -> Seq(Nat)] BY <1>5, <1>6, <2>1
  <2> QED BY <1>2, <2>2
\* Which line of which paragraph a line is.
<1>8. ASSUME NEW n \in 1..g, NEW a, NEW p, LinesTo(G, L, n, a, p), NEW i \in DOMAIN L[n]
      PROVE  \E k \in 1..N : /\ at[k] = n /\ pos[k] = a[i] /\ P[k] = G[n][a[i]]
                             /\ p[i] \in DOMAIN P[k] /\ L[n][i] = P[k][p[i]]
  <2>1. L[n] \in Seq(Nat) /\ G[n] \in Seq(Seq(Nat)) BY <1>2, <1>6
  <2>2. i \in 1..Len(L[n]) BY <2>1
  <2>3. a[i] \in 1..Len(G[n]) /\ p[i] \in DOMAIN G[n][a[i]] /\ L[n][i] = G[n][a[i]][p[i]]
    BY ONLY <1>8, <2>2 DEF FlatTo, LinesTo
  <2>4. a[i] \in DOMAIN G[n] BY <2>1, <2>3
  <2>5. PICK k \in 1..N : at[k] = n /\ pos[k] = a[i] BY <1>3, <2>4
  <2>6. P[k] = G[n][a[i]] BY <1>3, <2>5
  <2> QED BY <2>3, <2>5, <2>6
<1>9. ASSUME NEW m \in 1..g, NEW n \in 1..g, NEW i \in DOMAIN L[m], NEW j \in DOMAIN L[n],
             m < n \/ (m = n /\ i < j)
      PROVE  L[m][i] < L[n][j]
  <2>1. CASE m < n
    <3>1. PICK a, p : LinesTo(G, L, m, a, p) BY <1>6
    <3>2. PICK b, q : LinesTo(G, L, n, b, q) BY <1>6
    <3>3. PICK k \in 1..N : at[k] = m /\ p[i] \in DOMAIN P[k] /\ L[m][i] = P[k][p[i]]
      BY ONLY <1>8, <3>1
    <3>4. PICK h \in 1..N : at[h] = n /\ q[j] \in DOMAIN P[h] /\ L[n][j] = P[h][q[j]]
      BY ONLY <1>8, <3>2
    <3>5. k < h BY <1>4, <2>1, <3>3, <3>4
    <3> QED BY <1>2, <3>3, <3>4, <3>5 DEF Rising
  <2>2. CASE m = n /\ i < j
    <3>1. PICK a, p : LinesTo(G, L, n, a, p) BY <1>6
    <3>2. PICK k \in 1..N : at[k] = n /\ pos[k] = a[i] /\ P[k] = G[n][a[i]] /\ p[i] \in DOMAIN P[k] /\ L[n][i] = P[k][p[i]]
      BY <1>8, <2>2, <3>1
    <3>3. PICK h \in 1..N : at[h] = n /\ pos[h] = a[j] /\ P[h] = G[n][a[j]] /\ p[j] \in DOMAIN P[h] /\ L[n][j] = P[h][p[j]]
      BY <1>8, <3>1
    <3>4. a[i] < a[j] \/ (a[i] = a[j] /\ p[i] < p[j])
      <4>1. L[n] \in Seq(Nat) BY <1>6
      <4>2. i \in 1..Len(L[n]) /\ j \in 1..Len(L[n]) BY <2>2, <4>1
      <4> QED BY ONLY <2>2, <3>1, <4>2 DEF FlatTo, LinesTo
    <3>5. CASE a[i] < a[j]
      <4>1. k < h BY <1>4, <3>2, <3>3, <3>5
      <4> QED BY <1>2, <2>2, <3>2, <3>3, <4>1 DEF Rising
    <3>6. CASE a[i] = a[j] /\ p[i] < p[j]
      <4>1. p[j] \in DOMAIN P[k] /\ L[n][j] = P[k][p[j]] BY <3>2, <3>3, <3>6
      <4> QED BY <1>2, <2>2, <3>2, <3>6, <4>1 DEF Rising
    <3> QED BY <3>4, <3>5, <3>6
  <2> QED BY <1>9, <2>1, <2>2
<1>10. Rising(L) BY <1>5, <1>9 DEF Rising
<1>11. ASSUME NEW m \in 1..N, NEW y \in DOMAIN P[m]
       PROVE  \E n \in 1..g : P[m][y] \in ToSet(L[n])
  <2>1. PICK n, x : n = at[m] /\ x = pos[m] OBVIOUS
  <2>2. n \in 1..g /\ x \in DOMAIN G[n] /\ P[m] = G[n][x] BY <1>3, <2>1
  <2>3. PICK a, p : LinesTo(G, L, n, a, p) BY <1>6, <2>2
  <2>4. x \in 1..Len(G[n]) /\ y \in DOMAIN G[n][x]
    <3>1. G[n] \in Seq(Seq(Nat)) BY <1>2, <2>2
    <3> QED BY SMTT(30), <2>2, <3>1
  <2>5. PICK i \in 1..Len(L[n]) : a[i] = x /\ p[i] = y BY ONLY <2>3, <2>4 DEF FlatTo, LinesTo
  <2>6. L[n][i] = G[n][x][y] BY ONLY <2>3, <2>5 DEF FlatTo, LinesTo
  <2>7. i \in DOMAIN L[n]
    <3>1. L[n] \in Seq(Nat) BY <1>6, <2>2
    <3> QED BY <2>5, <3>1
  <2>8. P[m][y] = L[n][i] BY <2>2, <2>6
  <2> QED BY <2>2, <2>7, <2>8 DEF ToSet
<1>12. \A m \in 1..N : \A i \in ToSet(P[m]) : \E n \in 1..g : i \in ToSet(L[n]) BY <1>11 DEF ToSet
<1>13. ASSUME NEW n \in 1..g, NEW i \in DOMAIN L[n]
       PROVE  \E m \in 1..N : L[n][i] \in ToSet(P[m])
  <2>1. PICK a, p : LinesTo(G, L, n, a, p) BY <1>6
  <2>2. PICK k \in 1..N : p[i] \in DOMAIN P[k] /\ L[n][i] = P[k][p[i]] BY <1>8, <2>1
  <2> QED BY <2>2 DEF ToSet
<1>14. ASSUME NEW n \in 1..g
       PROVE  L[n] # <<>> /\ \E m \in 1..N : L[n][1] = P[m][1]
  <2>1. PICK a, p : LinesTo(G, L, n, a, p) BY <1>6
  <2>2. G[n] \in Seq(Seq(Nat)) /\ G[n] # <<>> /\ L[n] \in Seq(Nat) BY <1>2, <1>6
  <2>3. 1 \in 1..Len(G[n]) /\ 1 \in DOMAIN G[n] BY <2>2
  <2>4. PICK m \in 1..N : at[m] = n /\ pos[m] = 1 BY <1>3, <2>3
  <2>5. P[m] = G[n][1] /\ P[m] \in Seq(Nat) /\ P[m] # <<>> BY ZenonT(30), <1>2, <1>3, <2>4
  <2>6. 1 \in DOMAIN G[n][1] BY <2>5
  <2>7. PICK i \in 1..Len(L[n]) : a[i] = 1 /\ p[i] = 1
    BY ONLY <2>1, <2>3, <2>6 DEF FlatTo, LinesTo
  <2>8. L[n][i] = G[n][1][1] BY ONLY <2>1, <2>7 DEF FlatTo, LinesTo
  <2>9. PICK l : l = Len(L[n]) OBVIOUS
  <2>10. l \in Nat /\ i \in 1..l /\ DOMAIN L[n] = 1..l /\ 1 \in 1..l BY <2>2, <2>7, <2>9
  <2>11. L[n] # <<>> BY <2>10
  <2>12. i = 1
    <3>1. ASSUME 1 < i
          PROVE  FALSE
      <4>1. a[1] < a[i] \/ (a[1] = a[i] /\ p[1] < p[i])
        BY ONLY <2>1, <2>9, <2>10, <3>1 DEF FlatTo, LinesTo
      <4>2. a[1] \in 1..Len(G[n]) /\ p[1] \in DOMAIN G[n][a[1]]
        BY ONLY <2>1, <2>9, <2>10 DEF FlatTo, LinesTo
      <4>3. G[n][a[1]] \in Seq(Nat) BY <2>2, <4>2
      <4>4. 1 <= p[1] /\ 1 <= a[1] /\ p[1] \in Nat /\ a[1] \in Nat
        <5>1. PICK s : s = G[n][a[1]] OBVIOUS
        <5>2. DOMAIN s = 1..Len(s) /\ p[1] \in DOMAIN s BY <4>2, <4>3, <5>1
        <5>3. 1 <= p[1] /\ p[1] \in Nat BY <5>2
        <5> QED BY <4>2, <5>3
      <4> QED BY <2>7, <4>1, <4>4
    <3> QED BY <2>10, <3>1
  <2> QED BY <2>5, <2>8, <2>11, <2>12
<1> QED BY <1>2, <1>5, <1>7, <1>10, <1>12, <1>13, <1>14

\* One sequence is what it flattens to.
LEMMA FlattenOne ==
    ASSUME NEW C, NEW s \in Seq(C)
    PROVE  FlattenSeq(<<s>>) = s
<1>1. PICK B, n, t : B = <<s>> /\ n = Len(B) /\ t = FlattenSeq(B) OBVIOUS
<1>2. B \in Seq(Seq(C)) /\ n = 1 /\ B[1] = s BY <1>1
<1>3. PICK run : FlatRuns(B, n, t, run) BY ONLY <1>1, <1>2, FlattenRuns
<1>4. run[0] = <<>> /\ run[1] = t /\ run[1] = run[1 - 1] \o B[1]
  <2>1. run[0] = <<>> /\ run[n] = t /\ \A j \in 1..n : run[j] = run[j - 1] \o B[j]
    BY <1>3 DEF FlatRuns
  <2>2. 1 \in 1..n /\ 1 - 1 = 0 BY <1>2
  <2> QED BY ONLY <1>2, <2>1, <2>2
<1>5. t = <<>> \o s BY <1>2, <1>4
<1> QED BY <1>1, <1>5

ChunkType == [title : Nat, part : Nat, of : Nat, paragraphs : Seq(Seq(Nat))]

\* What each of these chunks tells.
Telling(parts) == [n \in DOMAIN parts |-> Told(parts[n])]

\* These chunks tell the lines of a section.
Tells(doc, c, parts, max) ==
    /\ parts \in Seq(ChunkType) /\ Telling(parts) \in Seq(Seq(Nat)) /\ Rising(Telling(parts))
    /\ \A n \in DOMAIN parts : \A x \in ToSet(Told(parts[n])) : x # 0 /\ Holds(c, x)
    /\ \A i \in 1..Len(doc) : doc[i].kind # "blank" /\ Holds(c, i) =>
                              \E n \in DOMAIN parts : i \in ToSet(Told(parts[n]))
    /\ FencesWhole(doc, parts) /\ WithinLimit(doc, parts, max)

\* These chunks have these lines of a section, in order.
HasLines(doc, F, c, parts, L) ==
    /\ L \in Seq(Seq(Nat)) /\ L # <<>> /\ Rising(L) /\ parts \in Seq(ChunkType) /\ DOMAIN parts = DOMAIN L
    /\ \A n \in DOMAIN L : /\ parts[n].title = c.title /\ parts[n].part = n /\ LinesOf(parts[n]) = L[n]
                           /\ \A i \in DOMAIN L[n] : L[n][i] \in ToSet(c.body)
                           /\ L[n] # <<>> => F[L[n][1] - 1] = "none"
    /\ \A i \in ToSet(c.body) : doc[i].kind # "blank" => \E n \in DOMAIN L : i \in ToSet(L[n])

\* A sequence is one over every set that has its elements.
LEMMA SeqOver ==
    ASSUME NEW C, NEW s \in Seq(C), NEW D, \A i \in DOMAIN s : s[i] \in D
    PROVE  s \in Seq(D)
<1>1. PICK n : n = Len(s) OBVIOUS
<1>2. n \in Nat /\ DOMAIN s = 1..n /\ s = [i \in 1..n |-> s[i]] BY <1>1
<1> QED BY <1>2

\* Such chunks tell the section.
LEMMA LinesTold ==
    ASSUME NEW doc, IsDoc(doc), NEW F, Fences(doc, F), NEW c \in SectionType, IsSection(doc, F, c), NEW max,
           NEW parts, WithinLimit(doc, parts, max), NEW L, HasLines(doc, F, c, parts, L)
    PROVE  Tells(doc, c, parts, max)
<1>0. /\ L \in Seq(Seq(Nat)) /\ L # <<>> /\ Rising(L) /\ parts \in Seq(ChunkType) /\ DOMAIN parts = DOMAIN L
      /\ \A n \in DOMAIN L : parts[n].title = c.title /\ parts[n].part = n /\ LinesOf(parts[n]) = L[n]
      /\ \A n \in DOMAIN L : \A i \in DOMAIN L[n] : L[n][i] \in ToSet(c.body)
      /\ \A n \in DOMAIN L : L[n] # <<>> => F[L[n][1] - 1] = "none"
      /\ \A i \in ToSet(c.body) : doc[i].kind # "blank" => \E n \in DOMAIN L : i \in ToSet(L[n])
  BY ONLY HasLines(doc, F, c, parts, L) DEF HasLines
<1> USE <1>0
<1>1. PICK N, t, T, g : N = Len(doc) /\ t = c.title /\ T = Telling(parts) /\ g = Len(L) OBVIOUS
<1>2. /\ N \in Nat /\ g \in Nat /\ DOMAIN L = 1..g /\ 1 \in 1..g /\ \A n \in 1..g : L[n] \in Seq(Nat)
      /\ DOMAIN T = 1..g /\ \A n \in 1..g : T[n] = Told(parts[n])
      /\ \A m \in 1..g : ~(m < 1) /\ m >= 1
  <2>1. g \in Nat /\ DOMAIN L = 1..g /\ 1 \in 1..g /\ \A n \in 1..g : L[n] \in Seq(Nat) BY <1>1
  <2>2. DOMAIN T = 1..g /\ \A n \in 1..g : T[n] = Told(parts[n]) BY <1>1, <2>1 DEF Telling
  <2>3. \A m \in 1..g : ~(m < 1) /\ m >= 1 BY <2>1
  <2> QED BY <1>1, <2>1, <2>2, <2>3, DocIs
<1>3. PICK a, b : Stretch(c.body, a, b) /\ t <= a /\ b <= N /\ F[a] = "none" BY <1>1 DEF IsSection
<1>4. /\ a \in Nat /\ b \in Nat /\ ToSet(c.body) = (a + 1)..b
      /\ t \in 0..N /\ t \in Nat /\ (t # 0 => F[t - 1] = "none")
  <2>1. t \in 0..N /\ (t # 0 => F[t - 1] = "none") BY <1>1 DEF IsSection
  <2>2. a \in Nat /\ b \in Nat BY ONLY <1>3 DEF Stretch
  <2>3. ToSet(c.body) = (a + 1)..b BY ONLY <1>3, StretchIs
  <2> QED BY <1>2, <2>1, <2>2, <2>3
<1>5. \A x \in ToSet(c.body) : x \in 1..N /\ t < x /\ x # 0 BY <1>2, <1>3, <1>4
<1>6. \A n \in 1..g : T[n] = IF t # 0 /\ n = 1 THEN <<t>> \o L[n] ELSE L[n]
  <2>1. \A n \in 1..g : parts[n].title = t /\ parts[n].part = n /\ LinesOf(parts[n]) = L[n]
    BY <1>1, <1>2
  <2> QED BY ONLY ZenonT(30), <1>2, <2>1 DEF Told
<1>7. \A n \in 1..g : \A i \in DOMAIN L[n] : L[n][i] \in ToSet(c.body) BY <1>2
<1>8. \A m, n \in 1..g : \A i \in DOMAIN L[m], j \in DOMAIN L[n] :
        m < n \/ (m = n /\ i < j) => L[m][i] < L[n][j]
  BY <1>2 DEF Rising
<1>9. /\ \A n \in 1..g : T[n] \in Seq(Nat)
      /\ Rising(T)
      /\ \A n \in 1..g : \A x \in ToSet(T[n]) : (x = t /\ t # 0) \/ x \in ToSet(c.body)
      /\ \A n \in 1..g : ToSet(L[n]) \subseteq ToSet(T[n])
      /\ t # 0 => t \in ToSet(T[1])
  <2>1. CASE t = 0
    <3>1. \A n \in 1..g : T[n] = L[n] BY <1>6, <2>1
    <3>2. Rising(T) BY ONLY <1>2, <1>8, <3>1 DEF Rising
    <3>3. \A n \in 1..g : \A x \in ToSet(T[n]) : x \in ToSet(c.body)
      <4>1. \A n \in 1..g : \A x \in ToSet(L[n]) : x \in ToSet(c.body)
        <5>1. PICK B : B = ToSet(c.body) OBVIOUS
        <5>2. \A n \in 1..g : \A i \in DOMAIN L[n] : L[n][i] \in B BY <1>7, <5>1
        <5> QED BY ONLY <5>1, <5>2 DEF ToSet
      <4> QED BY ONLY <3>1, <4>1
    <3> QED BY ONLY <1>2, <2>1, <3>1, <3>2, <3>3
  <2>2. CASE t # 0
    <3>1. PICK l : l = Len(L[1]) OBVIOUS
    <3>2. \A n \in 1..g : n = 1 \/ (T[n] = L[n] /\ 1 < n) BY <1>2, <1>6
    <3>3. T[1] = <<t>> \o L[1] /\ L[1] \in Seq(Nat) BY <1>2, <1>6, <2>2
    <3>4. /\ l \in Nat /\ T[1] \in Seq(Nat) /\ DOMAIN T[1] = 1..(l + 1) /\ T[1][1] = t
          /\ \A i \in 1..l : T[1][i + 1] = L[1][i]
      <4>1. PICK r, s, o : r = T[1] /\ s = L[1] /\ o = <<t>> OBVIOUS
      <4>2. /\ o \in Seq(Nat) /\ Len(o) = 1 /\ o[1] = t /\ t \in Nat
            /\ s \in Seq(Nat) /\ l = Len(s) /\ l \in Nat /\ DOMAIN s = 1..l
        BY <1>4, <3>1, <3>3, <4>1
      <4>3. r = o \o s BY ONLY <3>3, <4>1
      <4>4. r \in Seq(Nat) /\ DOMAIN r = 1..(l + 1) /\ r[1] = t /\ \A i \in 1..l : r[i + 1] = s[i]
        <5>1. PICK m, k : m = Len(o) /\ k = m + l OBVIOUS
        <5>2. /\ r \in Seq(Nat) /\ Len(r) = k
              /\ \A i \in 1..m : r[i] = o[i]
              /\ \A i \in 1..l : r[i + m] = s[i]
          <6>0. o \in Seq(Nat) /\ s \in Seq(Nat) /\ l = Len(s) BY <4>2
          <6>1. r \in Seq(Nat) BY ONLY <6>0, <4>3
          <6>2. Len(r) = k BY ONLY <6>0, <4>3, <5>1
          <6>3. \A i \in 1..m : r[i] = o[i] BY ONLY <6>0, <4>3, <5>1
          <6>4. \A i \in 1..l : r[i + m] = s[i] BY ONLY <6>0, <4>3, <5>1
          <6> QED BY <6>1, <6>2, <6>3, <6>4
        <5>3. m = 1 /\ k = l + 1 BY <4>2, <5>1
        <5> QED BY ONLY <4>2, <5>2, <5>3
      <4> QED BY ONLY <4>1, <4>2, <4>4
    <3>5. DOMAIN L[1] = 1..l BY <3>1, <3>3
    <3>6. /\ ToSet(T[1]) = {t} \cup ToSet(L[1])
          /\ \A i \in 1..(l + 1) : \/ i = 1 /\ T[1][i] = t
                                   \/ i - 1 \in DOMAIN L[1] /\ T[1][i] = L[1][i - 1] /\ 1 < i
      <4>1. /\ 1 \in 1..(l + 1) /\ \A i \in 1..l : i + 1 \in 1..(l + 1)
            /\ \A i \in 1..(l + 1) : i = 1 \/ (i - 1 \in 1..l /\ (i - 1) + 1 = i /\ 1 < i)
        BY ONLY <3>4
      <4>2. \A i \in 1..(l + 1) : \/ i = 1 /\ T[1][i] = t
                                  \/ i - 1 \in DOMAIN L[1] /\ T[1][i] = L[1][i - 1] /\ 1 < i
        BY ONLY <3>4, <3>5, <4>1
      <4>3. ToSet(T[1]) = {T[1][i] : i \in 1..(l + 1)} /\ ToSet(L[1]) = {L[1][i] : i \in 1..l}
        BY ONLY <3>4, <3>5 DEF ToSet
      <4>4. ToSet(T[1]) \subseteq {t} \cup ToSet(L[1]) BY ONLY <3>5, <4>2, <4>3
      <4>5. t \in ToSet(T[1]) BY ONLY <3>4, <4>1, <4>3
      <4>6. ToSet(L[1]) \subseteq ToSet(T[1])
        <5>1. ASSUME NEW i \in 1..l
              PROVE  L[1][i] \in {T[1][k] : k \in 1..(l + 1)}
          <6>1. i + 1 \in 1..(l + 1) /\ T[1][i + 1] = L[1][i] BY <3>4, <4>1
          <6> QED BY ONLY <6>1
        <5> QED BY ONLY <4>3, <5>1
      <4> QED BY ONLY <4>2, <4>4, <4>5, <4>6
    <3>7. ASSUME NEW m \in 1..g, NEW n \in 1..g, NEW i \in DOMAIN T[m], NEW j \in DOMAIN T[n],
                 m < n \/ (m = n /\ i < j)
          PROVE  T[m][i] < T[n][j]
      <4>1. CASE m = 1
        <5>1. \/ i = 1 /\ T[m][i] = t
              \/ i - 1 \in DOMAIN L[1] /\ T[m][i] = L[1][i - 1] /\ 1 < i
          BY <3>4, <3>6, <4>1
        <5>2. PICK k : k \in DOMAIN L[n] /\ T[n][j] = L[n][k] /\ (n = 1 => k = j - 1)
          <6>1. CASE n = 1
            <7>1. j # 1 BY <3>4, <3>7, <4>1, <6>1
            <7> QED BY <3>4, <3>6, <6>1, <7>1
          <6>2. CASE n # 1 BY <3>2, <6>2
          <6> QED BY <6>1, <6>2
        <5>3. L[n][k] \in ToSet(c.body) BY <1>7, <5>2
        <5>4. CASE i = 1 /\ T[m][i] = t BY <1>5, <5>2, <5>3, <5>4
        <5>5. CASE i - 1 \in DOMAIN L[1] /\ T[m][i] = L[1][i - 1] /\ 1 < i
          <6>1. i \in 1..(l + 1) BY <3>4, <4>1
          <6>2. n = 1 => j \in 1..(l + 1) BY <3>4
          <6>3. 1 < n \/ (1 = n /\ i - 1 < k) BY <3>4, <3>7, <4>1, <5>2, <6>1, <6>2
          <6> QED BY <1>2, <1>8, <5>2, <5>5, <6>3
        <5> QED BY <5>1, <5>4, <5>5
      <4>2. CASE m # 1
        <5>1. n # 1 BY <1>2, <3>7, <4>2
        <5>2. T[m] = L[m] /\ T[n] = L[n] BY <3>2, <4>2, <5>1
        <5> QED BY <1>8, <3>7, <5>2
      <4> QED BY <4>1, <4>2
    <3>8. Rising(T) BY <1>2, <3>7 DEF Rising
    <3>9. \A n \in 1..g : T[n] \in Seq(Nat) /\ (ToSet(T[n]) = ToSet(L[n]) \/ ToSet(T[n]) = {t} \cup ToSet(L[n]))
      BY <1>2, <3>2, <3>4, <3>6
    <3>10. \A n \in 1..g : \A x \in ToSet(L[n]) : x \in ToSet(c.body)
      <4>1. PICK B : B = ToSet(c.body) OBVIOUS
      <4>2. \A n \in 1..g : \A i \in DOMAIN L[n] : L[n][i] \in B BY <1>7, <4>1
      <4> QED BY ONLY <4>1, <4>2 DEF ToSet
    <3> QED BY ONLY <2>2, <3>4, <3>6, <3>8, <3>9, <3>10
  <2> QED BY <2>1, <2>2
<1>10. T \in Seq(Seq(Nat))
  <2>1. PICK X : X = Seq(Nat) OBVIOUS
  <2>2. T = [n \in 1..g |-> Told(parts[n])] /\ \A n \in 1..g : Told(parts[n]) \in X
    BY <1>1, <1>2, <1>9, <2>1 DEF Telling
  <2>3. T \in Seq(X) BY ONLY <1>2, <2>2
  <2> QED BY <2>1, <2>3
<1>11. \A n \in DOMAIN parts : \A x \in ToSet(Told(parts[n])) : x # 0 /\ Holds(c, x)
  BY <1>1, <1>2, <1>5, <1>9 DEF Holds
<1>12. ASSUME NEW i \in 1..N, doc[i].kind # "blank", Holds(c, i)
       PROVE  \E n \in DOMAIN parts : i \in ToSet(Told(parts[n]))
  <2>1. CASE i = t
    <3>1. t # 0 BY <1>2, <2>1
    <3> QED BY <1>2, <1>9, <2>1, <3>1
  <2>2. CASE i \in ToSet(c.body)
    <3>1. PICK n \in 1..g : i \in ToSet(L[n]) BY <1>2, <1>12, <2>2
    <3> QED BY <1>2, <1>9, <3>1
  <2> QED BY <1>1, <1>12, <2>1, <2>2 DEF Holds
<1>13. FencesWhole(doc, parts)
  <2>1. \A i \in 1..N : InFence(doc, i) <=> F[i - 1] # "none" BY <1>1, InFenceIs
  <2>2. ASSUME NEW n \in 1..g
        PROVE  /\ parts[n].title # 0 => ~InFence(doc, parts[n].title)
               /\ LinesOf(parts[n]) # <<>> => ~InFence(doc, LinesOf(parts[n])[1])
    <3>1. parts[n].title = t /\ LinesOf(parts[n]) = L[n] BY <1>1, <1>2
    <3>2. t # 0 => t \in 1..N /\ F[t - 1] = "none" BY <1>2, <1>4
    <3>3. L[n] # <<>> => L[n][1] \in 1..N /\ F[L[n][1] - 1] = "none"
      <4>1. L[n] # <<>> => 1 \in DOMAIN L[n] BY <1>2
      <4> QED BY <1>2, <1>5, <1>7, <4>1
    <3> QED BY <2>1, <3>1, <3>2, <3>3
  <2> QED BY <1>2, <2>2 DEF FencesWhole
<1>14. \A i \in 1..Len(doc) : doc[i].kind # "blank" /\ Holds(c, i) =>
            \E n \in DOMAIN parts : i \in ToSet(Told(parts[n]))
  BY <1>1, <1>12
<1> QED BY <1>1, <1>9, <1>10, <1>11, <1>13, <1>14 DEF Tells

\* A section that stays whole tells its lines.
LEMMA WholeTells ==
    ASSUME NEW doc, IsDoc(doc), NEW F, Fences(doc, F), NEW c \in SectionType, IsSection(doc, F, c), NEW max,
           max = 0 \/ Tokens(doc, c.body) <= max \/ FitsIn(doc, Paragraphs(doc, c.body), max),
           NEW parts, parts = <<[title |-> c.title, part |-> 1, of |-> 1, paragraphs |-> <<c.body>>]>>
    PROVE  Tells(doc, c, parts, max)
<1>1. PICK body, one, L : body = c.body /\ one = parts[1] /\ L = <<body>> OBVIOUS
<1>2. body \in Seq(Nat) /\ c.title \in Nat BY <1>1 DEF SectionType
<1>3. one.title = c.title /\ one.part = 1 /\ one.of = 1 /\ one.paragraphs = L BY <1>1
<1>4. L \in Seq(Seq(Nat)) /\ DOMAIN L = {1} /\ L[1] = body /\ L # <<>> BY <1>1, <1>2
<1>5. parts \in Seq(ChunkType) /\ DOMAIN parts = {1}
  <2>1. PICK o : o = [title |-> c.title, part |-> 1, of |-> 1, paragraphs |-> L] OBVIOUS
  <2>2. o \in ChunkType BY <1>2, <1>4, <2>1 DEF ChunkType
  <2>3. parts = <<o>> BY <1>1, <2>1
  <2> QED BY <2>2, <2>3
<1>6. LinesOf(one) = body
  <2>1. FlattenSeq(<<body>>) = body BY <1>2, FlattenOne
  <2> QED BY <1>1, <1>3, <2>1 DEF LinesOf
<1>7. PICK a, b : Stretch(body, a, b) /\ F[a] = "none" BY <1>1 DEF IsSection
<1>8. /\ a \in Nat /\ b \in Nat /\ DOMAIN body = 1..(b - a)
      /\ \A i \in 1..(b - a) : body[i] = a + i
      /\ body # <<>> => a < b
  BY <1>7, StretchIs DEF Stretch
<1>9. Rising(L)
  <2>1. \A i, j \in 1..(b - a) : i < j => body[i] < body[j] BY <1>8
  <2> QED BY ONLY <1>4, <1>8, <2>1 DEF Rising
<1>10. \A n \in DOMAIN L : L[n] # <<>> => F[L[n][1] - 1] = "none"
  <2>1. body # <<>> => body[1] - 1 = a BY <1>8
  <2> QED BY <1>4, <1>7, <2>1
<1>11. WithinLimit(doc, parts, max)
  <2>1. \A n \in DOMAIN parts : parts[n] = one BY <1>1, <1>5
  <2>2. max = 0 \/ Tokens(doc, body) <= max \/ FitsIn(doc, Paragraphs(doc, body), max) BY <1>1
  <2> QED BY ONLY <1>3, <1>6, <2>1, <2>2 DEF WithinLimit, FitsIn
<1>12. \A n \in DOMAIN L : parts[n].title = c.title /\ parts[n].part = n /\ LinesOf(parts[n]) = L[n]
  BY <1>1, <1>3, <1>4, <1>6
<1>13. \A n \in DOMAIN L : \A i \in DOMAIN L[n] : L[n][i] \in ToSet(c.body) BY <1>1, <1>4 DEF ToSet
<1>14. \A i \in ToSet(c.body) : doc[i].kind # "blank" => \E n \in DOMAIN L : i \in ToSet(L[n])
  BY <1>1, <1>4
<1>15. DOMAIN parts = DOMAIN L BY <1>4, <1>5
<1>16. HasLines(doc, F, c, parts, L)
  BY ONLY <1>4, <1>5, <1>9, <1>10, <1>12, <1>13, <1>14, <1>15 DEF HasLines
<1> QED BY <1>11, <1>16, LinesTold

\* The parts of a section tell its lines.
LEMMA PartsTell ==
    ASSUME NEW doc, IsDoc(doc), NEW F, Fences(doc, F), NEW c \in SectionType, IsSection(doc, F, c),
           NEW max \in Nat, NEW parts, parts = Parts(doc, c, max)
    PROVE  Tells(doc, c, parts, max)
<1>1. PICK N, body, C, P, end, G, g :
        /\ N = Len(doc) /\ body = c.body /\ C = Seq(1..N) /\ P = Paragraphs(doc, body)
        /\ end = Gathered(doc, P, max) /\ G = Closed(end.all, end.group) /\ g = Len(G)
  OBVIOUS
<1>2. G = Groups(doc, body, max) BY <1>1 DEF Groups
<1>3. PICK a, b : Stretch(body, a, b) /\ b <= N /\ F[a] = "none" BY <1>1 DEF IsSection
<1>4. a \in Nat /\ b \in Nat /\ N \in Nat /\ ToSet(body) = (a + 1)..b
  <2>1. a \in Nat /\ b \in Nat BY ONLY <1>3 DEF Stretch
  <2>2. ToSet(body) = (a + 1)..b BY ONLY <1>3, StretchIs
  <2> QED BY <1>1, <2>1, <2>2, DocIs
<1>5. /\ P \in Seq(Seq(Nat)) /\ Rising(P)
      /\ \A m \in DOMAIN P : /\ P[m] # <<>> /\ F[P[m][1] - 1] = "none"
                             /\ \A i \in DOMAIN P[m] : P[m][i] \in (a + 1)..b
      /\ \A i \in (a + 1)..b : doc[i].kind # "blank" => \E m \in DOMAIN P : i \in ToSet(P[m])
  <2>1. AreParagraphs(doc, F, P, a, b) BY <1>1, <1>3, ParagraphsAre
  <2> QED BY ONLY <2>1 DEF AreParagraphs
<1>6. P \in Seq(C)
  <2>1. \A x \in (a + 1)..b : x \in 1..N BY <1>3, <1>4
  <2>2. ASSUME NEW m \in DOMAIN P
        PROVE  P[m] \in C
    <3>1. PICK p, S, X : p = P[m] /\ S = 1..N /\ X = Nat OBVIOUS
    <3>2. p \in Seq(X) /\ \A i \in DOMAIN p : p[i] \in S BY <1>5, <2>1, <3>1
    <3>3. p \in Seq(S) BY ONLY <3>2, SeqOver
    <3> QED BY <1>1, <3>1, <3>3
  <2>3. PICK X : X = Seq(Nat) OBVIOUS
  <2>4. P \in Seq(X) BY <1>5, <2>3
  <2> QED BY ONLY <2>2, <2>4, SeqOver
<1>7. \A p \in C : Tokens(doc, p) \in Nat BY <1>1, TokensAre
<1>8. /\ G \in Seq(Seq(C)) /\ \A m \in DOMAIN G : G[m] # <<>> /\ FitsIn(doc, G[m], max)
      /\ \E at, pos : FlatTo(G, Len(G), P, Len(P), at, pos)
      /\ Len(G) < 2 => FitsIn(doc, P, max)
  <2>1. end = Gathered(doc, P, max) /\ G = Closed(end.all, end.group) BY <1>1
  <2> QED BY ONLY ZenonT(30), <1>6, <1>7, <2>1, max \in Nat, GroupsAre
<1>9. G \in Seq(Seq(Seq(Nat))) /\ g \in Nat /\ DOMAIN G = 1..g
  <2>1. PICK X, Y, Z : X = Seq(Nat) /\ Y = Seq(X) /\ Z = Seq(C) OBVIOUS
  <2>2. \A x \in C : x \in X
    <3>1. PICK S, O : S = 1..N /\ O = Nat OBVIOUS
    <3>2. \A k \in S : k \in O BY <1>4, <3>1
    <3>3. ASSUME NEW x \in Seq(S)
          PROVE  x \in Seq(O)
      <4>1. \A i \in DOMAIN x : x[i] \in S OBVIOUS
      <4> QED BY ONLY <3>2, <4>1, x \in Seq(S), SeqOver
    <3> QED BY <1>1, <2>1, <3>1, <3>3
  <2>3. ASSUME NEW m \in DOMAIN G
        PROVE  G[m] \in Y
    <3>1. PICK x : x = G[m] OBVIOUS
    <3>2. x \in Seq(C) BY <1>8, <3>1
    <3>3. \A i \in DOMAIN x : x[i] \in X BY ONLY <2>2, <3>2
    <3>4. x \in Seq(X) BY ONLY <3>2, <3>3, SeqOver
    <3> QED BY <2>1, <3>1, <3>4
  <2>4. G \in Seq(Y)
    <3>1. G \in Seq(Z) BY <1>8, <2>1
    <3> QED BY ONLY <2>3, <3>1, SeqOver
  <2>5. g \in Nat /\ DOMAIN G = 1..g BY ONLY <1>1, <2>4
  <2> QED BY <2>1, <2>4, <2>5
<1>10. CASE max = 0 \/ Tokens(doc, body) <= max \/ g < 2
  <2>1. parts = <<[title |-> c.title, part |-> 1, of |-> 1, paragraphs |-> <<c.body>>]>>
    BY ONLY <1>1, <1>2, <1>10, parts = Parts(doc, c, max) DEF Parts
  <2>2. max = 0 \/ Tokens(doc, c.body) <= max \/ FitsIn(doc, Paragraphs(doc, c.body), max)
    BY <1>1, <1>8, <1>10
  <2> QED BY <2>1, <2>2, WholeTells
<1>11. CASE ~(max = 0 \/ Tokens(doc, body) <= max \/ g < 2)
  <2>1. parts = [n \in DOMAIN G |-> [title |-> c.title, part |-> n, of |-> Len(G), paragraphs |-> G[n]]]
    BY ONLY <1>1, <1>2, <1>11, parts = Parts(doc, c, max) DEF Parts
  <2>2. g >= 2 /\ g # 1 /\ 1 \in 1..g BY <1>9, <1>11
  <2>3. /\ DOMAIN parts = 1..g
        /\ \A n \in 1..g : /\ parts[n].title = c.title /\ parts[n].part = n /\ parts[n].of = g
                           /\ parts[n].paragraphs = G[n]
    BY <1>1, <1>9, <2>1
  <2>4. parts \in Seq(ChunkType)
    <3>1. c.title \in Nat BY DEF SectionType
    <3>2. ASSUME NEW n \in 1..g
          PROVE  [title |-> c.title, part |-> n, of |-> g, paragraphs |-> G[n]] \in ChunkType
      <4>1. n \in Nat /\ G[n] \in Seq(Seq(Nat)) BY <1>9
      <4> QED BY <1>9, <3>1, <4>1 DEF ChunkType
    <3>3. parts = [n \in 1..g |-> [title |-> c.title, part |-> n, of |-> g, paragraphs |-> G[n]]]
      BY <1>1, <1>9, <2>1
    <3> QED BY ONLY <1>9, <3>2, <3>3
  <2>5. PICK L : LinesAre(G, L) BY DEF LinesAre
  <2>6. PICK at, pos : FlatTo(G, Len(G), P, Len(P), at, pos) BY <1>8
  <2>7. /\ L \in Seq(Seq(Nat)) /\ DOMAIN L = DOMAIN G /\ Rising(L)
        /\ \A m \in DOMAIN P : \A i \in ToSet(P[m]) : \E n \in DOMAIN L : i \in ToSet(L[n])
        /\ \A n \in DOMAIN L : \A i \in DOMAIN L[n] : \E m \in DOMAIN P : L[n][i] \in ToSet(P[m])
        /\ \A n \in DOMAIN L : L[n] # <<>> /\ \E m \in DOMAIN P : L[n][1] = P[m][1]
    <3>1. (\A m \in DOMAIN P : P[m] # <<>>) /\ (\A m \in DOMAIN G : G[m] # <<>>) BY <1>5, <1>8
    <3>2. P \in Seq(Seq(Nat)) /\ Rising(P) /\ G \in Seq(Seq(Seq(Nat))) BY <1>5, <1>9
    <3> QED BY ONLY <2>5, <2>6, <3>1, <3>2, GroupedLines
  <2>8. L # <<>> /\ DOMAIN parts = DOMAIN L BY <1>9, <2>2, <2>3, <2>7
  <2>9. \A n \in DOMAIN L : parts[n].title = c.title /\ parts[n].part = n /\ LinesOf(parts[n]) = L[n]
    <3>1. \A n \in 1..g : L[n] = FlattenSeq(G[n]) BY ONLY <1>9, <2>5 DEF LinesAre
    <3> QED BY ONLY <1>9, <2>3, <2>7, <3>1 DEF LinesOf
  <2>10. \A n \in DOMAIN L : \A i \in DOMAIN L[n] : L[n][i] \in ToSet(c.body)
    <3>1. \A m \in DOMAIN P : \A x \in ToSet(P[m]) : x \in (a + 1)..b
      <4>1. PICK B : B = (a + 1)..b OBVIOUS
      <4>2. \A m \in DOMAIN P : \A i \in DOMAIN P[m] : P[m][i] \in B BY <1>5, <4>1
      <4> QED BY ONLY <4>1, <4>2 DEF ToSet
    <3> QED BY ONLY <1>1, <1>4, <2>7, <3>1
  <2>11. \A i \in ToSet(c.body) : doc[i].kind # "blank" => \E n \in DOMAIN L : i \in ToSet(L[n])
    BY ONLY <1>1, <1>4, <1>5, <2>7
  <2>12. \A n \in DOMAIN L : L[n] # <<>> => F[L[n][1] - 1] = "none" BY ONLY ZenonT(30), <1>5, <2>7
  <2>13. WithinLimit(doc, parts, max)
    <3>1. \A n \in 1..g : parts[n].of # 1 /\ parts[n].paragraphs = G[n] /\ FitsIn(doc, G[n], max)
      BY <1>8, <1>9, <2>2, <2>3
    <3> QED BY ONLY <2>3, <3>1 DEF WithinLimit, FitsIn
  <2>14. HasLines(doc, F, c, parts, L)
    BY ONLY <2>4, <2>7, <2>8, <2>9, <2>10, <2>11, <2>12 DEF HasLines
  <2> QED BY <2>13, <2>14, LinesTold
<1> QED BY <1>10, <1>11

\* What two sections tell comes in their order.
LEMMA SectionsApart ==
    ASSUME NEW doc, NEW F, NEW c \in SectionType, NEW e \in SectionType, IsSection(doc, F, c), IsSection(doc, F, e),
           Before(c, e.title), NEW x, Holds(c, x), NEW y, y # 0, Holds(e, y)
    PROVE  x < y
<1>1. PICK t, u : t = c.title /\ u = e.title OBVIOUS
<1>2. PICK a, b : Stretch(c.body, a, b) /\ t <= a BY <1>1 DEF IsSection
<1>3. PICK k, l : Stretch(e.body, k, l) /\ u <= k BY <1>1 DEF IsSection
<1>4. t \in Nat /\ u \in Nat BY <1>1 DEF SectionType
<1>5. a \in Nat /\ b \in Nat /\ k \in Nat /\ l \in Nat BY ONLY <1>2, <1>3 DEF Stretch
<1>6. ToSet(c.body) = (a + 1)..b BY ONLY <1>2, StretchIs
<1>7. ToSet(e.body) = (k + 1)..l BY ONLY <1>3, StretchIs
<1>8. x < u /\ x \in Nat
  <2>1. x = t \/ x \in (a + 1)..b BY <1>1, <1>6 DEF Holds
  <2>2. x \in Nat BY <1>4, <1>5, <2>1
  <2>3. t < u /\ \A z \in (a + 1)..b : z < u BY <1>1, <1>6 DEF Before
  <2> QED BY <2>1, <2>2, <2>3
<1>9. y = u \/ y \in (k + 1)..l BY <1>1, <1>7 DEF Holds
<1>10. y \in Nat /\ u <= y BY <1>3, <1>4, <1>5, <1>9
<1> QED BY <1>4, <1>8, <1>10

\* The chunks of a document are what they must be.
LEMMA ChunksAreWhole ==
    ASSUME NEW doc, IsDoc(doc), NEW max \in Nat, NEW chunks, chunks = ChunkMarkdown(doc, max)
    PROVE  Covered(doc, chunks) /\ FencesWhole(doc, chunks) /\ WithinLimit(doc, chunks, max)
<1>1. PICK N, S, s, B : /\ N = Len(doc) /\ S = Sections(doc) /\ s = Len(S)
                        /\ B = [n \in DOMAIN S |-> Parts(doc, S[n], max)]
  OBVIOUS
<1>2. chunks = FlattenSeq(B) BY <1>1 DEF ChunkMarkdown
<1>3. PICK F : Fences(doc, F) /\ AreSections(doc, F, S, N) BY <1>1, SectionsAre
<1>4. /\ S \in Seq(SectionType)
      /\ \A n \in DOMAIN S : IsSection(doc, F, S[n])
      /\ \A m, n \in DOMAIN S : m < n => Before(S[m], S[n].title)
      /\ \A i \in 1..N : doc[i].kind # "blank" => \E n \in DOMAIN S : Holds(S[n], i)
  BY ONLY <1>3 DEF AreSections
<1>5. s \in Nat /\ DOMAIN S = 1..s /\ \A n \in 1..s : S[n] \in SectionType BY <1>1, <1>4
<1>6. DOMAIN B = 1..s /\ \A n \in 1..s : B[n] = Parts(doc, S[n], max) BY <1>1, <1>5
<1>7. ASSUME NEW n \in 1..s
      PROVE  Tells(doc, S[n], B[n], max)
  <2>1. PICK c, parts : c = S[n] /\ parts = B[n] OBVIOUS
  <2>2. c \in SectionType /\ IsSection(doc, F, c) /\ parts = Parts(doc, c, max)
    BY <1>4, <1>5, <1>6, <2>1
  <2>3. Tells(doc, c, parts, max) BY ONLY <1>3, <2>2, IsDoc(doc), max \in Nat, PartsTell
  <2> QED BY <2>1, <2>3
<1>8. \A n \in 1..s :
        /\ B[n] \in Seq(ChunkType) /\ Telling(B[n]) \in Seq(Seq(Nat)) /\ Rising(Telling(B[n]))
        /\ \A p \in DOMAIN B[n] : \A x \in ToSet(Told(B[n][p])) : x # 0 /\ Holds(S[n], x)
        /\ \A i \in 1..N : doc[i].kind # "blank" /\ Holds(S[n], i) =>
                           \E p \in DOMAIN B[n] : i \in ToSet(Told(B[n][p]))
        /\ FencesWhole(doc, B[n]) /\ WithinLimit(doc, B[n], max)
  BY ONLY <1>1, <1>7 DEF Tells
<1>9. chunks \in Seq(ChunkType) /\ \E at, pos : FlatTo(B, Len(B), chunks, Len(chunks), at, pos)
  <2>1. PICK C, X : C = ChunkType /\ X = Seq(C) OBVIOUS
  <2>2. B = [n \in 1..s |-> B[n]] /\ \A n \in 1..s : B[n] \in X BY <1>1, <1>5, <1>6, <1>8, <2>1
  <2>3. B \in Seq(X) BY ONLY <1>5, <2>2
  <2>4. B \in Seq(Seq(C)) BY <2>1, <2>3
  <2>5. chunks \in Seq(C) /\ \E at, pos : FlatTo(B, Len(B), chunks, Len(chunks), at, pos)
    BY ONLY <1>2, <2>4, FlattenIs
  <2> QED BY <2>1, <2>5
<1>10. PICK at, pos, n : FlatTo(B, Len(B), chunks, n, at, pos) /\ n = Len(chunks) BY <1>9
<1>11. Len(B) = s /\ n \in Nat /\ DOMAIN chunks = 1..n
  <2>1. B \in Seq({B[m] : m \in 1..s})
    <3>1. B = [m \in 1..s |-> B[m]] BY <1>1, <1>5, <1>6
    <3> QED BY <1>5, <3>1
  <2> QED BY <1>5, <1>6, <1>9, <1>10, <2>1
<1>12. /\ \A k \in 1..n : at[k] \in 1..s /\ pos[k] \in DOMAIN B[at[k]] /\ chunks[k] = B[at[k]][pos[k]]
       /\ \A k, l \in 1..n : k < l => at[k] < at[l] \/ (at[k] = at[l] /\ pos[k] < pos[l])
       /\ \A m \in 1..s : \A i \in DOMAIN B[m] : \E k \in 1..n : at[k] = m /\ pos[k] = i
  BY ONLY <1>10, <1>11 DEF FlatTo
<1>13. ASSUME NEW k \in 1..n, NEW l \in 1..n, NEW i \in DOMAIN Told(chunks[k]), NEW j \in DOMAIN Told(chunks[l]),
              k < l \/ (k = l /\ i < j)
       PROVE  Told(chunks[k])[i] < Told(chunks[l])[j]
  <2>1. PICK a, b, p, q, x, y :
          /\ a = at[k] /\ b = at[l] /\ p = pos[k] /\ q = pos[l]
          /\ x = Told(chunks[k])[i] /\ y = Told(chunks[l])[j]
    OBVIOUS
  <2>2. /\ a \in 1..s /\ p \in DOMAIN B[a] /\ chunks[k] = B[a][p]
        /\ b \in 1..s /\ q \in DOMAIN B[b] /\ chunks[l] = B[b][q]
    BY <1>12, <2>1
  <2>3. x \in ToSet(Told(B[a][p])) /\ y \in ToSet(Told(B[b][q])) BY <2>1, <2>2 DEF ToSet
  <2>4. Holds(S[a], x) /\ Holds(S[b], y) /\ y # 0 BY <1>8, <2>2, <2>3
  <2>5. CASE k < l /\ a < b
    <3>1. PICK c, e : c = S[a] /\ e = S[b] OBVIOUS
    <3>2. c \in SectionType /\ e \in SectionType /\ IsSection(doc, F, c) /\ IsSection(doc, F, e) /\ Before(c, e.title)
      BY <1>4, <1>5, <2>2, <2>5, <3>1
    <3>3. x < y BY <2>4, <3>1, <3>2, SectionsApart
    <3> QED BY <2>1, <3>3
  <2>6. CASE a = b /\ (p < q \/ (p = q /\ i < j))
    <3>1. PICK T : T = Telling(B[a]) OBVIOUS
    <3>2. Rising(T) /\ DOMAIN T = DOMAIN B[a] /\ \A r \in DOMAIN B[a] : T[r] = Told(B[a][r])
      BY <1>8, <2>2, <3>1 DEF Telling
    <3>3. T[p] = Told(chunks[k]) /\ T[q] = Told(chunks[l]) /\ p \in DOMAIN T /\ q \in DOMAIN T
      BY <2>2, <2>6, <3>2
    <3>4. i \in DOMAIN T[p] /\ j \in DOMAIN T[q] /\ x = T[p][i] /\ y = T[q][j] BY <2>1, <3>3
    <3>5. T[p][i] < T[q][j] BY ONLY <2>6, <3>2, <3>3, <3>4 DEF Rising
    <3> QED BY <2>1, <3>4, <3>5
  <2>7. (k < l /\ a < b) \/ (a = b /\ (p < q \/ (p = q /\ i < j))) BY <1>12, <1>13, <2>1
  <2> QED BY <2>5, <2>6, <2>7
<1>14. ASSUME NEW i \in DOMAIN doc, doc[i].kind # "blank"
       PROVE  \E k \in 1..n : i \in ToSet(Told(chunks[k]))
  <2>1. i \in 1..N BY <1>1, DocIs
  <2>2. PICK m \in 1..s : Holds(S[m], i) BY <1>4, <1>5, <1>14, <2>1
  <2>3. PICK p \in DOMAIN B[m] : i \in ToSet(Told(B[m][p])) BY <1>8, <1>14, <2>1, <2>2
  <2>4. PICK k \in 1..n : at[k] = m /\ pos[k] = p BY <1>12, <2>3
  <2>5. chunks[k] = B[m][p] BY <1>12, <2>4
  <2> QED BY <2>3, <2>5
<1>15. Covered(doc, chunks) BY ONLY <1>11, <1>13, <1>14 DEF Covered
<1>16. FencesWhole(doc, chunks)
  <2>1. \A m \in 1..s : \A p \in DOMAIN B[m] :
          /\ B[m][p].title # 0 => ~InFence(doc, B[m][p].title)
          /\ LinesOf(B[m][p]) # <<>> => ~InFence(doc, LinesOf(B[m][p])[1])
    BY ONLY <1>8 DEF FencesWhole
  <2> QED BY ONLY <1>11, <1>12, <2>1 DEF FencesWhole
<1>17. WithinLimit(doc, chunks, max)
  <2> DEFINE fits(c) == LET paragraphs == IF c.of = 1 THEN Paragraphs(doc, LinesOf(c)) ELSE c.paragraphs
                        IN  \/ max = 0 \/ Len(paragraphs) <= 1
                            \/ c.of = 1 /\ Tokens(doc, LinesOf(c)) <= max
                            \/ TokensOf(doc, paragraphs) <= max
  <2>1. \A parts : WithinLimit(doc, parts, max) <=> \A m \in DOMAIN parts : fits(parts[m])
    BY DEF WithinLimit
  <2> HIDE DEF fits
  <2>2. \A m \in 1..s : \A p \in DOMAIN B[m] : fits(B[m][p]) BY ONLY <1>8, <2>1
  <2>3. \A k \in 1..n : fits(chunks[k]) BY ONLY <1>12, <2>2
  <2> QED BY <1>11, <2>1, <2>3
<1> QED BY <1>15, <1>16, <1>17

\* A document's chunks are those chunk_markdown makes of it.
DocumentInv ==
    case.is = "document" =>
        case.doc \in Documents /\ case.limit \in TokenLimits /\ case.chunks = ChunkMarkdown(case.doc, case.limit)

\* They lose no line, begin outside the fences and are within the limit.
LEMMA DocumentIsWhole == DocumentInv => ChunksWhole
<1> SUFFICES ASSUME DocumentInv, case.is = "document"
             PROVE  Covered(case.doc, case.chunks) /\ FencesWhole(case.doc, case.chunks)
                    /\ WithinLimit(case.doc, case.chunks, case.limit)
  BY DEF ChunksWhole, ChunksCover, FencesKept, ChunksFit
<1>1. PICK doc, max, chunks : doc = case.doc /\ max = case.limit /\ chunks = case.chunks OBVIOUS
<1>2. IsDoc(doc) /\ max \in Nat /\ chunks = ChunkMarkdown(doc, max)
  BY <1>1, DocumentsAssumption DEF DocumentInv, IsDoc
<1>3. Covered(doc, chunks) /\ FencesWhole(doc, chunks) /\ WithinLimit(doc, chunks, max)
  BY ONLY <1>2, ChunksAreWhole
<1> QED BY <1>1, <1>3
-----------------------------------------------------------------------------
(* The specification.                                                      *)

\* The actions that are asked once about another subject than the graph.
Asked == \/ ScoredQuery \/ Query \/ FtsFallbackChunks \/ HistorySearch \/ Excerpt
         \/ ChunkDocument \/ DistillReport \/ EmbedTexts

\* None of them answers with a traversal or a decision of the gate.
LEMMA AskedElsewhere ==
    ASSUME Asked
    PROVE  subject # "graph" /\ subject' = subject /\ case'.is \notin {"trip", "triage"}
<1>1. CASE ScoredQuery BY <1>1 DEF ScoredQuery, Ready
<1>2. CASE Query BY <1>2 DEF Query, Ready
<1>3. CASE FtsFallbackChunks BY <1>3 DEF FtsFallbackChunks, Ready
<1>4. CASE HistorySearch BY <1>4 DEF HistorySearch, Ready
<1>5. CASE Excerpt BY <1>5 DEF Excerpt, Ready
<1>6. CASE ChunkDocument BY <1>6 DEF ChunkDocument, Ready
<1>7. CASE DistillReport BY <1>7 DEF DistillReport, Ready
<1>8. CASE EmbedTexts BY <1>8 DEF EmbedTexts
<1> QED BY <1>1, <1>2, <1>3, <1>4, <1>5, <1>6, <1>7, <1>8 DEF Asked

\* Nor do the others answer with a ranking or a packed answer.
LEMMA RankedElsewhere ==
    ASSUME FtsFallbackChunks \/ HistorySearch \/ Excerpt \/ ChunkDocument \/ DistillReport
             \/ Triage \/ EmbedTexts
    PROVE  case'.is \notin {"rank", "answer"}
<1>1. CASE FtsFallbackChunks BY <1>1 DEF FtsFallbackChunks, Ready
<1>2. CASE HistorySearch BY <1>2 DEF HistorySearch, Ready
<1>3. CASE Excerpt BY <1>3 DEF Excerpt, Ready
<1>4. CASE ChunkDocument BY <1>4 DEF ChunkDocument, Ready
<1>5. CASE DistillReport BY <1>5 DEF DistillReport, Ready
<1>6. CASE Triage BY <1>6 DEF Triage, Ready
<1>7. CASE EmbedTexts BY <1>7 DEF EmbedTexts
<1> QED BY <1>1, <1>2, <1>3, <1>4, <1>5, <1>6, <1>7

\* The invariants hold initially: there is no case yet.
LEMMA InvInit == Init => TripInv /\ TriageInv /\ RankInv /\ AnswerInv
BY DEF Init, NoCase, TripInv, TriageInv, RankInv, AnswerInv

\* The invariants of the cases that are asked once about texts.
TextInv == ExcerptInv /\ DistillInv /\ HistoryInv /\ ChunksInv /\ DocumentInv

\* They hold initially, and nothing is cached.
LEMMA TextInit == Init => TextInv /\ EmbedInv
<1> SUFFICES ASSUME Init
             PROVE  TextInv /\ EmbedInv
  OBVIOUS
<1>1. case.is = "none" /\ cache = <<>> BY DEF Init, NoCase
<1>2. cache \in Seq(ToSet(cache)) /\ Len(cache) = 0 /\ Once(cache) BY <1>1, NothingIs
<1>3. Len(cache) <= CacheSize BY <1>2, CacheAssumption
<1> QED BY <1>1, <1>2, <1>3 DEF TextInv, ExcerptInv, DistillInv, HistoryInv, ChunksInv, DocumentInv, EmbedInv

\* Every step keeps them.
LEMMA InvStep == TripInv /\ TriageInv /\ [Next]_vars => TripInv' /\ TriageInv'
<1> SUFFICES ASSUME TripInv, TriageInv, [Next]_vars
             PROVE  TripInv' /\ TriageInv'
  OBVIOUS
<1>1. CASE WriteRelation
  <2>1. subject = "graph" /\ subject' = subject BY <1>1 DEF WriteRelation
  <2>2. CASE case = NoCase BY <1>1, <2>1, <2>2 DEF WriteRelation, TripInv, TriageInv, NoCase
  <2>3. CASE case # NoCase
    <3>1. case.is = "trip" /\ Trip(case, status) BY <2>1, <2>3 DEF TripInv
    <3>2. case' = Overtaken(case, status') BY <1>1, <2>3 DEF WriteRelation, Overtaken
    <3>3. PICK new : new = status' OBVIOUS
    <3>4. Trip(Overtaken(case, new), new) BY <3>1, OvertakenTrip
    <3>5. Trip(case, status)' /\ case'.is = "trip"
      <4>1. PICK old : old = Overtaken(case, new) OBVIOUS
      <4>2. Trip(old, new) BY <3>4, <4>1
      <4>3. old.is = "trip" BY <4>2 DEF Trip, TripShape
      <4>4. case' = old /\ status' = new BY <3>2, <3>3, <4>1
      <4> QED BY <4>2, <4>3, <4>4
    <3> QED BY <2>1, <3>5 DEF TripInv, TriageInv
  <2> QED BY <2>2, <2>3
<1>2. CASE BeginQuery
  <2>1. subject = "graph" /\ subject' = subject /\ status' = status BY <1>2 DEF BeginQuery
  <2>2. PICK seeds \in SeedSets, superseded \in BOOLEAN :
          case' = [is |-> "trip", seeds |-> seeds, superseded |-> superseded, b |-> Start(seeds),
                   ever |-> Seen(status, superseded), stayed |-> Seen(status, superseded)]
    BY <1>2 DEF BeginQuery
  <2>3. PICK new : new = [is |-> "trip", seeds |-> seeds, superseded |-> superseded,
                          b |-> Start(seeds), ever |-> Seen(status, superseded),
                          stayed |-> Seen(status, superseded)]
    OBVIOUS
  <2>4. Trip(new, status) BY <2>3, BeginTrip
  <2>5. new.is = "trip" BY <2>3
  <2>6. case' = new BY <2>2, <2>3
  <2>7. Trip(case, status)' /\ case'.is = "trip" BY <2>1, <2>4, <2>5, <2>6
  <2> QED BY <2>1, <2>7 DEF TripInv, TriageInv
<1>3. CASE Hop
  <2>1. subject = "graph" /\ subject' = subject /\ status' = status BY <1>3 DEF Hop
  <2>2. case.is = "trip" /\ Trip(case, status) BY <1>3 DEF Hop, TripInv
  <2>3. case' = Hopped(case, status) BY <1>3 DEF Hop, Hopped
  <2>4. PICK new : new = Hopped(case, status) OBVIOUS
  <2>5. Trip(new, status) BY <2>2, <2>4, HoppedTrip
  <2>6. new.is = "trip" BY <2>5 DEF Trip, TripShape
  <2>7. Trip(case, status)' /\ case'.is = "trip" BY <2>1, <2>3, <2>4, <2>5, <2>6
  <2> QED BY <2>1, <2>7 DEF TripInv, TriageInv
<1>4. CASE Triage
  <2>1. subject = "triage" /\ subject' = subject BY <1>4 DEF Triage, Ready
  <2>a. PICK text \in SUBSET Keywords, manual \in BOOLEAN, event \in BOOLEAN,
             boilerplate \in BOOLEAN : \E role \in Roles(event) :
          LET item == [role |-> role, manual |-> manual, event |-> event,
                       boilerplate |-> boilerplate]
          IN  case' = [is |-> "triage", text |-> text, item |-> item,
                       out |-> TriageTrace(text, item)]
    BY <1>4 DEF Triage
  <2>b. /\ Roles(event) \subseteq {"user", "assistant", "tool"}
        /\ event => "user" \notin Roles(event)
    BY DEF Roles
  <2>2. PICK role \in Roles(event) :
          LET item == [role |-> role, manual |-> manual, event |-> event,
                       boilerplate |-> boilerplate]
          IN  case' = [is |-> "triage", text |-> text, item |-> item,
                       out |-> TriageTrace(text, item)]
    BY <2>a, <2>b
  <2>3. PICK item : item = [role |-> role, manual |-> manual, event |-> event,
                            boilerplate |-> boilerplate]
    OBVIOUS
  <2>4. case' = [is |-> "triage", text |-> text, item |-> item, out |-> TriageTrace(text, item)]
    BY <2>2, <2>3
  <2>5. item \in TriagedItems
    <3>1. /\ item \in [role : {"user", "assistant", "tool"}, manual : BOOLEAN, event : BOOLEAN,
                       boilerplate : BOOLEAN]
          /\ item.event = event /\ item.role = role
      BY <2>3, <2>b
    <3>2. item.event => item.role # "user" BY <3>1, <2>b
    <3> QED BY <3>1, <3>2 DEF TriagedItems
  <2>6. /\ case'.is = "triage" /\ case'.text = text /\ case'.item = item
        /\ case'.out = TriageTrace(text, item)
    BY <2>4
  <2> QED BY <2>1, <2>5, <2>6 DEF TripInv, TriageInv
<1>5. CASE Asked BY <1>5, AskedElsewhere DEF TripInv, TriageInv
<1>6. CASE UNCHANGED vars BY <1>6 DEF vars, TripInv, TriageInv
<1> QED BY <1>1, <1>2, <1>3, <1>4, <1>5, <1>6 DEF Next, Asked

\* So are those of the cases about a ranking or an answer: each is asked
\* once.
LEMMA AnsweredStep == TripInv' /\ RankInv /\ AnswerInv /\ [Next]_vars => RankInv' /\ AnswerInv'
<1> SUFFICES ASSUME TripInv', RankInv, AnswerInv, [Next]_vars
             PROVE  RankInv' /\ AnswerInv'
  OBVIOUS
<1>1. CASE WriteRelation \/ BeginQuery \/ Hop
  <2>1. subject' = "graph" BY <1>1 DEF WriteRelation, BeginQuery, Hop
  <2>2. case'.is \notin {"rank", "answer"} BY <2>1 DEF TripInv, NoCase
  <2> QED BY <2>2 DEF RankInv, AnswerInv
<1>2. CASE ScoredQuery
  <2>1. PICK scored \in Scoreds, embedded \in BOOLEAN :
          case' = [is |-> "rank", scored |-> scored, embedded |-> embedded,
                   order |-> Rank(scored, MaxHops, embedded)]
    BY <1>2 DEF ScoredQuery
  <2>2. /\ case'.is = "rank" /\ case'.scored = scored /\ case'.embedded = embedded
        /\ case'.order = Rank(scored, MaxHops, embedded)
    BY <2>1
  <2> QED BY <2>2 DEF RankInv, AnswerInv
<1>3. CASE Query
  <2>1. PICK mode \in {"merge", "fallback"}, ranked \in Rankeds, chunks \in ChunkLists,
             units \in UnitSets, budget \in Budgets, percent \in ChunkPercents :
          case' = [is |-> "answer", mode |-> mode, ranked |-> ranked, chunks |-> chunks,
                   hits |-> MemoryHits(units, 2), budget |-> budget, percent |-> percent,
                   out |-> QueryWithMemory(mode, ranked, chunks, MemoryHits(units, 2), budget,
                                           percent, MemoryPercent, TopK)]
    BY <1>3 DEF Query
  <2>2. PICK hits : hits = MemoryHits(units, 2) OBVIOUS
  <2>3. PICK out : out = QueryWithMemory(mode, ranked, chunks, hits, budget, percent,
                                         MemoryPercent, TopK)
    OBVIOUS
  <2>4. case' = [is |-> "answer", mode |-> mode, ranked |-> ranked, chunks |-> chunks,
                 hits |-> hits, budget |-> budget, percent |-> percent, out |-> out]
    BY <2>1, <2>2, <2>3
  <2>5. /\ case'.is = "answer" /\ case'.mode = mode /\ case'.ranked = ranked
        /\ case'.chunks = chunks /\ case'.hits = hits /\ case'.budget = budget
        /\ case'.percent = percent /\ case'.out = out
    BY <2>4
  <2> QED BY <2>2, <2>3, <2>5 DEF RankInv, AnswerInv
<1>4. CASE FtsFallbackChunks \/ HistorySearch \/ Excerpt \/ ChunkDocument \/ DistillReport
             \/ Triage \/ EmbedTexts
  BY <1>4, RankedElsewhere DEF RankInv, AnswerInv
<1>5. CASE UNCHANGED vars BY <1>5 DEF vars, RankInv, AnswerInv
<1> QED BY <1>1, <1>2, <1>3, <1>4, <1>5 DEF Next

\* A case about texts comes from an action of its own.
LEMMA TextElsewhere ==
    ASSUME ScoredQuery \/ Query \/ Triage
    PROVE  case'.is \notin {"document", "excerpt", "distill", "history", "chunks", "embed"} /\ cache' = cache
<1>1. CASE ScoredQuery BY <1>1 DEF ScoredQuery, Ready
<1>2. CASE Query BY <1>2 DEF Query, Ready
<1>3. CASE Triage BY <1>3 DEF Triage, Ready
<1> QED BY <1>1, <1>2, <1>3

\* Each of those actions answers with what its invariant says.
LEMMA TextAnswered ==
    ASSUME FtsFallbackChunks \/ HistorySearch \/ Excerpt \/ ChunkDocument \/ DistillReport
    PROVE  TextInv' /\ case'.is # "embed" /\ cache' = cache
<1>1. CASE FtsFallbackChunks
  <2>1. PICK question \in {"cjk", "short_cjk", "words", "blank"}, sidecar \in BOOLEAN,
             rows \in RowLists, trigram \in BOOLEAN :
          LET found == IF trigram THEN rows ELSE <<>>
              fetched == Fetched(question, sidecar, found, found, rows, ChunkLimit)
          IN  case' = [is |-> "chunks", rows |-> fetched, out |-> FallbackChunks(fetched, ChunkLimit)]
    BY <1>1 DEF FtsFallbackChunks
  <2>2. PICK found : found = IF trigram THEN rows ELSE <<>> OBVIOUS
  <2>3. PICK fetched : fetched = Fetched(question, sidecar, found, found, rows, ChunkLimit)
    OBVIOUS
  <2>4. PICK out : out = FallbackChunks(fetched, ChunkLimit) OBVIOUS
  <2>5. case' = [is |-> "chunks", rows |-> fetched, out |-> out] BY <2>1, <2>2, <2>3, <2>4
  <2>6. case'.is = "chunks" /\ case'.rows = fetched /\ case'.out = out BY <2>5
  <2>7. found = rows \/ found = <<>> BY <2>2
  <2>8. fetched \in Seq(ToSet(fetched)) /\ IsRows(ToSet(fetched)) BY <2>3, <2>7, FetchedIs
  <2>9. ChunksInv' BY <2>4, <2>6, <2>8 DEF ChunksInv
  <2>10. cache' = cache BY <1>1 DEF FtsFallbackChunks, Ready
  <2> QED BY <2>6, <2>9, <2>10 DEF TextInv, ExcerptInv, DistillInv, HistoryInv, DocumentInv
<1>2. CASE HistorySearch
  <2>1. PICK said \in MessageLists, evts \in EventLists, kind \in {"any", "tool_result", "tool_error"},
             project \in {"all", "p"} :
          case' = [is |-> "history", said |-> said, evts |-> evts, kind |-> kind, project |-> project,
                   out |-> SearchHistory(said, evts, kind, project, HistoryLimit)]
    BY <1>2 DEF HistorySearch
  <2>2. PICK out : out = SearchHistory(said, evts, kind, project, HistoryLimit) OBVIOUS
  <2>3. case' = [is |-> "history", said |-> said, evts |-> evts, kind |-> kind, project |-> project,
                 out |-> out]
    BY <2>1, <2>2
  <2>4. /\ case'.is = "history" /\ case'.said = said /\ case'.evts = evts /\ case'.kind = kind
        /\ case'.project = project /\ case'.out = out
    BY <2>3
  <2>5. HistoryInv' BY <2>1, <2>2, <2>4 DEF HistoryInv
  <2>6. cache' = cache BY <1>2 DEF HistorySearch, Ready
  <2> QED BY <2>4, <2>5, <2>6 DEF TextInv, ExcerptInv, DistillInv, ChunksInv, DocumentInv
<1>3. CASE Excerpt
  <2>1. PICK windows \in WindowSets :
          case' = [is |-> "excerpt", windows |-> windows,
                   lexical |-> LexicalExcerpt(windows), chosen |-> LexicalWindows(windows),
                   cjk |-> CjkWindows(windows)]
    BY <1>3 DEF Excerpt
  <2>2. PICK spans, chosen, apart : /\ spans = LexicalExcerpt(windows) /\ chosen = LexicalWindows(windows)
                                    /\ apart = CjkWindows(windows)
    OBVIOUS
  <2>3. case' = [is |-> "excerpt", windows |-> windows, lexical |-> spans, chosen |-> chosen,
                 cjk |-> apart]
    BY <2>1, <2>2
  <2>4. /\ case'.is = "excerpt" /\ case'.windows = windows /\ case'.lexical = spans
        /\ case'.chosen = chosen /\ case'.cjk = apart
    BY <2>3
  <2>5. IsWindows(windows) BY WindowsAssumption DEF IsWindows
  <2>6. ExcerptInv' BY <2>2, <2>4, <2>5 DEF ExcerptInv
  <2>7. cache' = cache BY <1>3 DEF Excerpt, Ready
  <2> QED BY <2>4, <2>6, <2>7 DEF TextInv, DistillInv, HistoryInv, ChunksInv, DocumentInv
<1>4. CASE DistillReport
  <2>1. PICK units \in DistillUnits :
          case' = [is |-> "distill", units |-> units, plan |-> DistillPlan(units, Assets)]
    BY <1>4 DEF DistillReport
  <2>2. PICK plan : plan = DistillPlan(units, Assets) OBVIOUS
  <2>3. case' = [is |-> "distill", units |-> units, plan |-> plan] BY <2>1, <2>2
  <2>4. case'.is = "distill" /\ case'.units = units /\ case'.plan = plan BY <2>3
  <2>5. IsReported(units) BY DistillAssumption DEF IsReported
  <2>6. DistillInv' BY <2>2, <2>4, <2>5 DEF DistillInv
  <2>7. cache' = cache BY <1>4 DEF DistillReport, Ready
  <2> QED BY <2>4, <2>6, <2>7 DEF TextInv, ExcerptInv, HistoryInv, ChunksInv, DocumentInv
<1>5. CASE ChunkDocument
  <2>1. PICK doc \in Documents, limit \in TokenLimits :
          case' = [is |-> "document", doc |-> doc, limit |-> limit, chunks |-> ChunkMarkdown(doc, limit)]
    BY <1>5 DEF ChunkDocument
  <2>2. PICK chunks : chunks = ChunkMarkdown(doc, limit) OBVIOUS
  <2>3. case' = [is |-> "document", doc |-> doc, limit |-> limit, chunks |-> chunks] BY <2>1, <2>2
  <2>4. case'.is = "document" /\ case'.doc = doc /\ case'.limit = limit /\ case'.chunks = chunks
    BY <2>3
  <2>5. DocumentInv' BY <2>2, <2>4 DEF DocumentInv
  <2>6. cache' = cache BY <1>5 DEF ChunkDocument, Ready
  <2> QED BY <2>4, <2>5, <2>6 DEF TextInv, ExcerptInv, DistillInv, HistoryInv, ChunksInv
<1> QED BY <1>1, <1>2, <1>3, <1>4, <1>5

\* Every step keeps them: only embed_many writes the cache.
LEMMA TextStep == TripInv' /\ TextInv /\ EmbedInv /\ [Next]_vars => TextInv' /\ EmbedInv'
<1> SUFFICES ASSUME TripInv', TextInv, EmbedInv, [Next]_vars
             PROVE  TextInv' /\ EmbedInv'
  OBVIOUS
<1>1. CASE case'.is \notin {"document", "excerpt", "distill", "history", "chunks", "embed"} /\ cache' = cache
  <2>1. TextInv' BY <1>1 DEF TextInv, ExcerptInv, DistillInv, HistoryInv, ChunksInv, DocumentInv
  <2>2. EmbedInv' BY <1>1 DEF EmbedInv
  <2> QED BY <2>1, <2>2
<1>2. CASE WriteRelation \/ BeginQuery \/ Hop
  <2>1. subject' = "graph" /\ cache' = cache BY <1>2 DEF WriteRelation, BeginQuery, Hop
  <2>2. case'.is \notin {"document", "excerpt", "distill", "history", "chunks", "embed"}
    BY <2>1 DEF TripInv, NoCase
  <2> QED BY <1>1, <2>1, <2>2
<1>3. CASE ScoredQuery \/ Query \/ Triage BY <1>1, <1>3, TextElsewhere
<1>4. CASE FtsFallbackChunks \/ HistorySearch \/ Excerpt \/ ChunkDocument \/ DistillReport
  BY <1>4, TextAnswered DEF EmbedInv
<1>5. CASE EmbedTexts
  <2>1. EmbedInv' BY <1>5, EmbedKeeps
  <2>2. case'.is = "embed" BY <1>5 DEF EmbedTexts
  <2> QED BY <2>1, <2>2 DEF TextInv, ExcerptInv, DistillInv, HistoryInv, ChunksInv, DocumentInv
<1>6. CASE UNCHANGED vars
  BY <1>6 DEF vars, TextInv, ExcerptInv, DistillInv, HistoryInv, ChunksInv, DocumentInv, EmbedInv
<1> QED BY <1>2, <1>3, <1>4, <1>5, <1>6 DEF Next

\* TraversalFaithful: whatever an ingestion writes between two hops of
\* bfs_query_with_depths, a traversal of any graph, from any seeds and to
\* any number of hops, reports only relations that could be seen while it
\* ran, at depths that are lengths of walks along them, and misses nothing
\* that could be seen all the time, nor finds it later than a shortest walk
\* would.
THEOREM TraversalFaithfulHolds == Spec => []TraversalFaithful
<1>1. TripInv => TraversalFaithful BY TripIsFaithful
<1> QED BY <1>1, InvInit, InvStep, PTL DEF Spec

\* GateSteady: for every text and item of triage_trace, no further mark
\* weakens a decision, bare procedure signals never decide whether an event
\* is extracted, and what is extracted is what would become active.
THEOREM GateSteadyHolds == Spec => []GateSteady
<1>1. TriageInv => GateSteady BY GateIsSteady
<1> QED BY <1>1, InvInit, InvStep, PTL DEF Spec

\* RankMonotone: for any candidates, with or without a query embedding, a
\* candidate of scored_query that is no worse in hops, similarity, match
\* and date than another, and better in one that counts, is ranked before
\* it.
THEOREM RankMonotoneHolds == Spec => []RankMonotone
<1>1. RankInv => RankMonotone BY RankIsMonotone
<1> QED BY <1>1, InvInit, InvStep, AnsweredStep, PTL DEF Spec

\* AnswerPacked: for any relations, evidence, chunks, memories, budget and
\* shares, what compact_output, fused_output and the memories of an answer
\* charge adds up to what it says and is within the budget; it shows no
\* relation and no chunk twice and no chunk of a document shown as evidence,
\* keeps the chunks' share, gives the memories in order and leaves out no
\* relation and no chunk that would still fit.
THEOREM AnswerPackedHolds == Spec => []AnswerPacked
<1>1. AnswerInv => AnswerPacked BY AnswerIsPacked
<1> QED BY <1>1, InvInit, InvStep, AnsweredStep, PTL DEF Spec

\* ChunksChosen: for any rows of the full-text indexes and any limit,
\* fts_fallback_chunks shows of each section the newest version fetched,
\* no section twice, and no source gets a second chunk more than another
\* that still has one to show.
THEOREM ChunksChosenHolds == Spec => []ChunksChosen
<1>1. TextInv => ChunksChosen BY ChunksAreChosen DEF TextInv
<1> QED BY <1>1, InvInit, InvStep, TextInit, TextStep, PTL DEF Spec

\* HistoryTop: for any two pools of hits and any limit, what
\* search_history shows is as many of them as the limit allows, the best
\* ranked of both pools together, each as its filters ask.
THEOREM HistoryTopHolds == Spec => []HistoryTop
<1>1. TextInv => HistoryTop BY HistoryIsTop DEF TextInv
<1> QED BY <1>1, InvInit, InvStep, TextInit, TextStep, PTL DEF Spec

\* ExcerptApart: for any windows of a text, the spans of _lexical_excerpt
\* and the windows of _cjk_excerpt show no character twice, the spans
\* cover the windows chosen, and a text with a match is never left out.
THEOREM ExcerptApartHolds == Spec => []ExcerptApart
<1>1. TextInv => ExcerptApart BY ExcerptIsApart DEF TextInv
<1> QED BY <1>1, InvInit, InvStep, TextInit, TextStep, PTL DEF Spec

\* ChunksWhole: of any document and for any limit, chunk_markdown makes
\* chunks that have every line with content once and in order, begin
\* outside the fences, and are above the limit only as a single paragraph
\* or by what joins paragraphs that fit.
THEOREM ChunksWholeHolds == Spec => []ChunksWhole
<1>1. TextInv => ChunksWhole BY DocumentIsWhole DEF TextInv
<1> QED BY <1>1, InvInit, InvStep, TextInit, TextStep, PTL DEF Spec

\* GroupsAreClasses: for any units, the groups distill builds one unit at
\* a time are the classes of units linked by chains of alike ones, whatever
\* the order of the ids; those with evidence are reported once each, the
\* ones with the most sessions first.
THEOREM GroupsAreClassesHolds == Spec => []GroupsAreClasses
<1>1. TextInv => GroupsAreClasses BY GroupsAreTheClasses DEF TextInv
<1> QED BY <1>1, InvInit, InvStep, TextInit, TextStep, PTL DEF Spec

\* CacheServes: after any calls of embed_many, for any texts, cache and
\* batch size and wherever the provider fails, the cache holds as many
\* distinct texts as fit; a call whose new texts fit it is answered unless
\* the provider fails, and an answered call leaves the texts used last, the
\* oldest first.
THEOREM CacheServesHolds == Spec => []CacheServes
<1>1. EmbedInv => CacheServes BY CallsServe
<1> QED BY <1>1, InvInit, InvStep, TextInit, TextStep, PTL DEF Spec
=============================================================================
