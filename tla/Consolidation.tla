--------------------------- MODULE Consolidation ---------------------------
(***************************************************************************)
(* The pure consolidation policy of membox: the plan that                  *)
(* build_consolidation_plan makes for the memory units of one project, and *)
(* its application in one transaction.                                     *)
(*                                                                         *)
(* What the text heuristics decide about a content, or a pair of contents, *)
(* is a constant relation; what they decide it for, in which order, and    *)
(* what follows from it is modelled.  A unit table U maps unit ids to rows *)
(* [content, status, by, sources, logged, before].                         *)
(***************************************************************************)
EXTENDS Naturals, FiniteSets, FiniteSetsExt

CONSTANTS Contents,     \* what units may say
          Title,        \* [Contents -> titles], as compared by the validator
          SessionOf,    \* [sources -> sessions], the unit of independence
          Malformed,    \* contents the validator rejects by themselves
          Conflicting,  \* pairs for which _looks_conflicting holds
          Replaces,     \* <<older, newer>> for which _looks_like_replacement holds
          Expired,      \* contents with valid_to in the past
          Horizon,      \* contents of type plan or context
          Confirmed,    \* user-confirmed, or a decision with high scores
          Procedural,   \* contents of type procedure or learning
          Failing,      \* contents that speak of failures, errors, verification
          CrystalSourceThreshold

ASSUME RelationsAssumption ==
    /\ Conflicting \subseteq Contents \X Contents
    /\ Replaces \subseteq Contents \X Contents
    /\ Malformed \cup Expired \cup Horizon \cup Confirmed \subseteq Contents
    /\ Procedural \cup Failing \subseteq Contents
    /\ \A pair \in Conflicting : <<pair[2], pair[1]>> \in Conflicting
    /\ CrystalSourceThreshold \in Nat

LiveStatuses == {"active_unit", "crystal_candidate", "crystal"}
Statuses == LiveStatuses \cup {"absent", "unit_candidate", "archived", "superseded",
                               "retracted"}
NoUnit == 0

\* list_units_for_consolidation: what is not archived, superseded, retracted.
Listed(U) == {u \in DOMAIN U : U[u].status \in LiveStatuses \cup {"unit_candidate"}}

\* validate_units: the first unit of a title keeps it, later ones are
\* rejected, even when the first is rejected itself.
Valid(U) ==
    LET listed == Listed(U)
    IN  {u \in listed : /\ U[u].content \notin Malformed
                        /\ \A v \in listed : v < u => Title[U[v].content] # Title[U[u].content]}

Related(rel, U, u, v) == <<U[u].content, U[v].content>> \in rel

\* Only the older unit of a pair is held back.
ConflictedOlder(U) ==
    LET live == {u \in Valid(U) : U[u].status \in LiveStatuses}
    IN  {u \in live : \E v \in live : u < v /\ Related(Conflicting, U, u, v)}

\* detect_conflicts: both units of a pair are left to a human.
Conflicted(U) ==
    LET live == {u \in Valid(U) : U[u].status \in LiveStatuses}
    IN  {u \in live : \E v \in live \ {u} : Related(Conflicting, U, u, v)}

\* detect_supersessions.
Current(U) == {u \in Valid(U) \ Conflicted(U) : U[u].status \in {"active_unit", "crystal"}}
ReplacementAny(U, u, v) == u # v /\ Related(Replaces, U, u, v)
Replacement(U, u, v) == u < v /\ Related(Replaces, U, u, v)

Supersessions(U) ==
    LET current == Current(U)
        Newer(u) == {v \in current : Replacement(U, u, v)}
    IN  {[unit |-> u, to |-> "superseded", by |-> Max(Newer(u))] :
            u \in {v \in current : Newer(v) # {}}}

\* count_independent_sources: sources of one session count once.
IndependentSources(U, u) == Cardinality({SessionOf[s] : s \in U[u].sources})
\* A repeated source counts as often as it was quoted, whatever its session.
CrystalPolicyBySource(U, u) == \/ U[u].content \in Confirmed
                               \/ Cardinality(U[u].sources) >= CrystalSourceThreshold

\* crystal_policy.
CrystalPolicy(U, u) == \/ U[u].content \in Confirmed
                       \/ IndependentSources(U, u) >= CrystalSourceThreshold

\* should_be_crystal_candidate.
Recurring(U, u) == /\ U[u].content \in Procedural
                   /\ U[u].content \in Failing \/ Cardinality(U[u].sources) > 1

\* What neither is in conflict nor was superseded.
OrdinaryAll(U) == Valid(U) \ Conflicted(U)
Ordinary(U) == Valid(U) \ (Conflicted(U) \cup {m.unit : m \in Supersessions(U)})

\* decay_action: plans and contexts past their valid_to are only reviewed.
Archives(U) == {u \in Ordinary(U) : U[u].content \in Expired \ Horizon}
Reviewable(U) == {u \in Ordinary(U) : U[u].content \notin Expired}

Promotions(U) == {u \in Reviewable(U) :
                     /\ U[u].status \in {"active_unit", "crystal_candidate"}
                     /\ CrystalPolicy(U, u)}
Candidates(U) == {u \in Reviewable(U) : /\ U[u].status = "active_unit"
                                        /\ Recurring(U, u) /\ ~CrystalPolicy(U, u)}
DemotionsAll(U) == {u \in Reviewable(U) : /\ U[u].status = "crystal_candidate"
                                          /\ ~CrystalPolicy(U, u)}
Demotions(U) == {u \in Reviewable(U) : /\ U[u].status = "crystal_candidate"
                                       /\ ~Recurring(U, u) /\ ~CrystalPolicy(U, u)}

Moves(us, to) == {[unit |-> u, to |-> to, by |-> NoUnit] : u \in us}

\* build_consolidation_plan, as the transitions of ordered_transitions.
Plan(U) == UNION {Supersessions(U),
                  Moves(Archives(U), "archived"),
                  Moves(Promotions(U), "crystal"),
                  Moves(Candidates(U), "crystal_candidate"),
                  Moves(Demotions(U), "active_unit")}

\* One audited transition: superseded_by is COALESCEd, never cleared.  Of
\* the status log a row keeps what is read: the newest to_status (logged)
\* and the from_status of the newest to_status='archived' (before).
Moved(row, to, by) ==
    [row EXCEPT !.status = to,
                !.by = IF by = NoUnit THEN @ ELSE by,
                !.logged = to,
                !.before = IF to = "archived" THEN row.status ELSE @]

\* transition_memory_units_atomically, group by group in the order of
\* ordered_transitions.  The status a plan was made for is not compared with
\* the status found.
Applied(U, plan) ==
    [u \in DOMAIN U |->
        LET After(row, to) ==
                LET moves == {m \in plan : m.unit = u /\ m.to = to}
                IN  IF moves = {} THEN row ELSE Moved(row, to, (CHOOSE m \in moves : TRUE).by)
        IN  After(After(After(After(After(U[u], "superseded"), "archived"), "crystal"),
                        "crystal_candidate"), "active_unit")]
=============================================================================
