------------------------ MODULE ConsolidationRounds ------------------------
(***************************************************************************)
(* One process runs `membox memory consolidate --apply` again and again,   *)
(* from any table of units that the store may hold: what the plan of       *)
(* Consolidation does to them in the long run.                             *)
(***************************************************************************)
EXTENDS Consolidation

CONSTANTS Provenances,  \* the sets of sources a unit may have
          UnitCount     \* bound: units of the project

ASSUME CountAssumption == UnitCount \in Nat
ASSUME ProvenancesAssumption == \A ss \in Provenances : IsFiniteSet(ss)

VARIABLE table

Ids == 1..UnitCount
Row(c, s, ss) == [content |-> c, status |-> s, by |-> NoUnit, sources |-> ss,
                  logged |-> s, before |-> "absent"]

\* create_memory_unit stores a unit with any status; contents are unique.
Init == \E say \in [Ids -> Contents], has \in [Ids -> Provenances],
           is \in [Ids -> LiveStatuses \cup {"unit_candidate"}] :
            /\ \A u, v \in Ids : say[u] = say[v] => u = v
            /\ table = [u \in Ids |-> Row(say[u], is[u], has[u])]

Round == \E plan \in {Plan(table)} : plan # {} /\ table' = Applied(table, plan)

Spec == Init /\ [][Round]_table /\ WF_table(Round)
-----------------------------------------------------------------------------
(* Rounds come to an end: build_consolidation_plan finds nothing to do     *)
(* after finitely many, no unit goes back and forth between statuses.      *)
Settles == <>[](Plan(table) = {})

(* search_memory_units_for_query wants superseded_by IS NULL besides a     *)
(* live status, so no other group of the plan may revive a unit that the   *)
(* supersessions of this or an earlier round have replaced.                *)
NoLiveReplaced == \A u \in Ids : table[u].status \in LiveStatuses => table[u].by = NoUnit

(* Following superseded_by leads out of the superseded units: units never  *)
(* replace each other in a ring, which would hide all of them.             *)
ChainsEnd ==
    \A ring \in SUBSET {u \in Ids : table[u].status = "superseded"} :
        ring # {} => \E u \in ring : table[u].by \notin ring

(* Conflicts are surfaced, never resolved: a round leaves both units of a  *)
(* valid conflicting pair as they are.                                     *)
ConflictsHeld ==
    [][\A u, v \in Valid(table) :
          /\ u # v
          /\ {table[u].status, table[v].status} \subseteq LiveStatuses
          /\ Related(Conflicting, table, u, v)
          => table'[u] = table[u]]_table
=============================================================================
