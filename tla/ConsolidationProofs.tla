------------------------ MODULE ConsolidationProofs ------------------------
(***************************************************************************)
(* Lemmas about the operators of Consolidation, for any table of units and *)
(* any text heuristics: what a plan may contain, and what its application  *)
(* does to a row.  The proofs about the memory lifecycle and about repeated*)
(* rounds of consolidation rest on them.                                   *)
(***************************************************************************)
EXTENDS Consolidation, FiniteSetTheorems, WellFoundedInduction, TLAPS

(* Max is the greatest of a set of unit ids: the newest of a group.        *)
LEMMA MaxOfIds ==
    ASSUME NEW N \in Nat, NEW us \in SUBSET (1..N), us # {}
    PROVE  Max(us) \in us /\ \A u \in us : u <= Max(us)
<1> DEFINE below == {N - u : u \in us}
<1>1. below \subseteq Nat /\ below # {}
    <2>1. \A u \in us : N - u \in Nat
        OBVIOUS
    <2> QED BY <2>1
<1>2. PICK n \in below : \A k \in below : <<k, n>> \notin OpToRel(<, Nat)
    <2> HIDE DEF below
    <2> QED BY <1>1, NatLessThanWellFounded, WFMin
<1>3. \A k \in below : ~(k < n)
    <2> HIDE DEF below
    <2> QED BY <1>1, <1>2 DEF OpToRel
<1>4. PICK m \in us : n = N - m
    OBVIOUS
<1>5. \A u \in us : m >= u
    <2>1. \A u \in us : ~(N - u < N - m)
        BY <1>3, <1>4
    <2> HIDE DEF below
    <2> QED BY <2>1
<1>6. \A u \in us : Max(us) \in us /\ Max(us) >= u
    BY <1>5 DEF Max
<1> QED BY <1>6

\* A row of the unit table.
IsRow(row) == row = [content |-> row.content, status |-> row.status, by |-> row.by,
                     sources |-> row.sources, logged |-> row.logged, before |-> row.before]

(* What one audited transition writes, and what it leaves.                 *)
LEMMA MovedFields ==
    ASSUME NEW row, IsRow(row), NEW to, NEW by
    PROVE  Moved(row, to, by) =
              [content |-> row.content, status |-> to,
               by |-> IF by = NoUnit THEN row.by ELSE by, sources |-> row.sources,
               logged |-> to, before |-> IF to = "archived" THEN row.status ELSE row.before]
<1>1. PICK c, s, b, ss, l, w : row = [content |-> c, status |-> s, by |-> b,
                                      sources |-> ss, logged |-> l, before |-> w]
    BY DEF IsRow
<1>2. PICK newBy : newBy = IF by = NoUnit THEN row.by ELSE by
    OBVIOUS
<1>3. PICK newBefore : newBefore = IF to = "archived" THEN row.status ELSE row.before
    OBVIOUS
<1>4. PICK new : new = [row EXCEPT !.status = to, !.by = newBy, !.logged = to,
                                   !.before = newBefore]
    OBVIOUS
<1>5. new = [content |-> c, status |-> to, by |-> newBy, sources |-> ss, logged |-> to,
             before |-> newBefore]
    BY <1>1, <1>4
<1>6. Moved(row, to, by) = new
    BY <1>2, <1>3, <1>4 DEF Moved
<1> QED BY <1>1, <1>2, <1>3, <1>5, <1>6

\* The five groups of ordered_transitions.
MoveKinds == {"superseded", "archived", "crystal", "crystal_candidate", "active_unit"}

(* Every move of a plan is in the group of its target status, and only a   *)
(* supersession names a replacement.                                       *)
LEMMA PlanGroups ==
    ASSUME NEW U, NEW m \in Plan(U)
    PROVE  \/ m \in Supersessions(U)
           \/ /\ m = [unit |-> m.unit, to |-> m.to, by |-> NoUnit]
              /\ m.unit \in Ordinary(U)
              /\ \/ m.to = "archived" /\ m.unit \in Archives(U)
                 \/ m.to = "crystal" /\ m.unit \in Promotions(U)
                 \/ m.to = "crystal_candidate" /\ m.unit \in Candidates(U)
                 \/ m.to = "active_unit" /\ m.unit \in Demotions(U)
<1>1. \A us, to : m \in Moves(us, to) =>
           m = [unit |-> m.unit, to |-> m.to, by |-> NoUnit] /\ m.unit \in us /\ m.to = to
    BY DEF Moves
<1>2. /\ Archives(U) \subseteq Ordinary(U) /\ Promotions(U) \subseteq Ordinary(U)
      /\ Candidates(U) \subseteq Ordinary(U) /\ Demotions(U) \subseteq Ordinary(U)
    BY DEF Archives, Promotions, Candidates, Demotions, Reviewable
<1>3. \/ m \in Supersessions(U) \/ m \in Moves(Archives(U), "archived")
      \/ m \in Moves(Promotions(U), "crystal")
      \/ m \in Moves(Candidates(U), "crystal_candidate")
      \/ m \in Moves(Demotions(U), "active_unit")
    BY DEF Plan
<1> QED BY <1>1, <1>2, <1>3

(* A supersession names a unit, and a newer one that replaces it, neither  *)
(* of them in conflict.                                                    *)
LEMMA SupersessionMove ==
    ASSUME NEW N \in Nat, NEW U, DOMAIN U = 1..N, NEW m \in Supersessions(U)
    PROVE  /\ m.to = "superseded"
           /\ m.unit \in Current(U) /\ m.by \in Current(U)
           /\ Replacement(U, m.unit, m.by)
           /\ m = [unit |-> m.unit, to |-> m.to, by |-> m.by]
<1> DEFINE Newer(u) == {v \in Current(U) : Replacement(U, u, v)}
<1>1. PICK u \in {v \in Current(U) : Newer(v) # {}} :
          m = [unit |-> u, to |-> "superseded", by |-> Max(Newer(u))]
    BY DEF Supersessions
<1>2. Current(U) \subseteq 1..N
    BY DEF Current, Valid, Listed
<1>3. Max(Newer(u)) \in Newer(u)
    <2>1. Newer(u) \in SUBSET (1..N) /\ Newer(u) # {}
        BY <1>1, <1>2
    <2> HIDE DEF Newer
    <2> QED BY <2>1, MaxOfIds
<1> QED BY <1>1, <1>3

(* A plan has at most one move for a unit: no group takes up again what    *)
(* another has moved, whatever the order in which they are applied.        *)
LEMMA OneMove ==
    ASSUME NEW U, NEW m \in Plan(U), NEW n \in Plan(U), m.unit = n.unit
    PROVE  m = n
<1>1. ASSUME NEW x \in Supersessions(U), NEW y \in Supersessions(U), x.unit = y.unit
      PROVE  x = y
    <2> DEFINE Newer(u) == {v \in Current(U) : Replacement(U, u, v)}
    <2>1. PICK u \in Current(U) : x = [unit |-> u, to |-> "superseded", by |-> Max(Newer(u))]
        BY DEF Supersessions
    <2>2. PICK v \in Current(U) : y = [unit |-> v, to |-> "superseded", by |-> Max(Newer(v))]
        BY DEF Supersessions
    <2> HIDE DEF Newer
    <2> QED BY <1>1, <2>1, <2>2
<1>2. \A x \in Supersessions(U) : x.unit \notin Ordinary(U)
    BY DEF Ordinary
<1>3. CASE m \in Supersessions(U) \/ n \in Supersessions(U)
    BY <1>1, <1>2, <1>3, PlanGroups
<1>4. CASE m \notin Supersessions(U) /\ n \notin Supersessions(U)
    <2>1. /\ m = [unit |-> m.unit, to |-> m.to, by |-> NoUnit]
          /\ n = [unit |-> n.unit, to |-> n.to, by |-> NoUnit]
        BY <1>4, PlanGroups
    <2>2. m.to = n.to
        BY <1>4, PlanGroups
           DEF Archives, Promotions, Candidates, Demotions, Reviewable
    <2> QED BY <2>1, <2>2
<1> QED BY <1>3, <1>4

(* What a plan moves is valid and in no conflict.                          *)
LEMMA PlanUnits ==
    ASSUME NEW N \in Nat, NEW U, DOMAIN U = 1..N, NEW m \in Plan(U)
    PROVE  /\ m.unit \in 1..N /\ m.unit \in Valid(U) \ Conflicted(U)
           /\ U[m.unit].status \in LiveStatuses \cup {"unit_candidate"}
           /\ m.to \in MoveKinds
           /\ m.by \in (1..N) \cup {NoUnit}
           /\ m = [unit |-> m.unit, to |-> m.to, by |-> m.by]
<1>1. Valid(U) \subseteq Listed(U) /\ Listed(U) \subseteq 1..N
    BY DEF Valid, Listed
<1>2. CASE m \in Supersessions(U)
    BY <1>1, <1>2, SupersessionMove DEF Current, MoveKinds, Listed
<1>3. CASE m \notin Supersessions(U)
    BY <1>1, <1>3, PlanGroups DEF Ordinary, MoveKinds, Listed
<1> QED BY <1>2, <1>3

\* What applying the group of one target status does to a row.
After(plan, u, row, to) ==
    LET moves == {m \in plan : m.unit = u /\ m.to = to}
    IN  IF moves = {} THEN row ELSE Moved(row, to, (CHOOSE m \in moves : TRUE).by)

\* The five groups, in their order.
AfterAll(plan, u, row) ==
    After(plan, u, After(plan, u, After(plan, u, After(plan, u, After(plan, u, row,
        "superseded"), "archived"), "crystal"), "crystal_candidate"), "active_unit")

(* The application of a plan, row by row and group by group.               *)
LEMMA AppliedAfter ==
    ASSUME NEW U, NEW plan
    PROVE  Applied(U, plan) = [u \in DOMAIN U |-> AfterAll(plan, u, U[u])]
BY DEF Applied, AfterAll, After

(* A row that the plan does not name stays as it is.                       *)
LEMMA AppliedNone ==
    ASSUME NEW U, NEW plan, NEW u \in DOMAIN U, \A m \in plan : m.unit # u
    PROVE  Applied(U, plan)[u] = U[u]
<1>1. \A row, to : After(plan, u, row, to) = row
    BY DEF After
<1> QED BY <1>1, AppliedAfter DEF AfterAll

(* A row that the plan names once gets that transition and no other.       *)
LEMMA AppliedOnce ==
    ASSUME NEW U, NEW plan, NEW m \in plan, m.unit \in DOMAIN U, m.to \in MoveKinds,
           \A n \in plan : n.unit = m.unit => n = m
    PROVE  Applied(U, plan)[m.unit] = Moved(U[m.unit], m.to, m.by)
<1>1. \A row, to : to # m.to => After(plan, m.unit, row, to) = row
    BY DEF After
<1>2. \A row : After(plan, m.unit, row, m.to) = Moved(row, m.to, m.by)
    <2> DEFINE moves == {n \in plan : n.unit = m.unit /\ n.to = m.to}
    <2>1. moves = {m}
        OBVIOUS
    <2>2. (CHOOSE n \in moves : TRUE) = m
        BY <2>1
    <2> QED BY <2>1, <2>2 DEF After
<1>3. Applied(U, plan)[m.unit] = AfterAll(plan, m.unit, U[m.unit])
    BY AppliedAfter
<1>4. CASE m.to = "superseded"
    BY <1>1, <1>2, <1>3, <1>4 DEF AfterAll
<1>5. CASE m.to = "archived"
    BY <1>1, <1>2, <1>3, <1>5 DEF AfterAll
<1>6. CASE m.to = "crystal"
    BY <1>1, <1>2, <1>3, <1>6 DEF AfterAll
<1>7. CASE m.to = "crystal_candidate"
    BY <1>1, <1>2, <1>3, <1>7 DEF AfterAll
<1>8. CASE m.to = "active_unit"
    BY <1>1, <1>2, <1>3, <1>8 DEF AfterAll
<1> QED BY <1>4, <1>5, <1>6, <1>7, <1>8 DEF MoveKinds
=============================================================================
