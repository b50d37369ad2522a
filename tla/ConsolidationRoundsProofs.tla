--------------------- MODULE ConsolidationRoundsProofs ---------------------
(***************************************************************************)
(* Theorems about ConsolidationRounds for any number of units, any sources *)
(* and any text heuristics.                                                *)
(***************************************************************************)
EXTENDS ConsolidationRounds, ConsolidationProofs

USE CountAssumption

RowType == [content : Contents, status : Statuses \ {"absent", "retracted"},
            by : Ids \cup {NoUnit}, sources : Provenances,
            logged : Statuses, before : Statuses]

TableType == table \in [Ids -> RowType]

\* What a superseded unit names is a newer unit; nothing else names any.
ReplacedBy(u, row) == IF row.status = "superseded" THEN row.by \in Ids /\ u < row.by
                      ELSE row.by = NoUnit
ReplacedInv == \A u \in Ids : ReplacedBy(u, table[u])

RoundsInv == TableType /\ ReplacedInv

LEMMA InitRoundsInv == Init => RoundsInv
<1> SUFFICES ASSUME Init PROVE RoundsInv
    OBVIOUS
<1>1. PICK say \in [Ids -> Contents], has \in [Ids -> Provenances],
           is \in [Ids -> LiveStatuses \cup {"unit_candidate"}] :
              table = [u \in Ids |-> Row(say[u], is[u], has[u])]
    BY DEF Init
<1>2. ASSUME NEW u \in Ids PROVE table[u] \in RowType /\ ReplacedBy(u, table[u])
    BY <1>1 DEF Row, RowType, ReplacedBy, Statuses, LiveStatuses
<1>3. table \in [Ids -> RowType]
    BY <1>1, <1>2
<1> QED BY <1>2, <1>3 DEF RoundsInv, TableType, ReplacedInv

(* A round changes the rows its plan names, each by the one transition the *)
(* plan has for it, and leaves the others as they are.                     *)
LEMMA RoundRows ==
    ASSUME TableType, [Round]_table
    PROVE  /\ DOMAIN table = 1..UnitCount /\ DOMAIN table' = Ids
           /\ \A u \in Ids :
                 \/ table'[u] = table[u]
                 \/ \E m \in Plan(table) : /\ m.unit = u
                                           /\ table'[u] = Moved(table[u], m.to, m.by)
           /\ \A u \in Ids : (\A m \in Plan(table) : m.unit # u) => table'[u] = table[u]
<1>1. DOMAIN table = 1..UnitCount
    BY DEF TableType, Ids
<1>2. CASE Round
    <2>1. table' = Applied(table, Plan(table))
        BY <1>2 DEF Round
    <2>2. DOMAIN table' = Ids
        BY <1>1, <2>1, AppliedAfter DEF Ids
    <2>3. ASSUME NEW u \in Ids, \A m \in Plan(table) : m.unit # u PROVE table'[u] = table[u]
        BY <1>1, <2>1, <2>3, AppliedNone DEF Ids
    <2>4. ASSUME NEW u \in Ids, NEW m \in Plan(table), m.unit = u
          PROVE  table'[u] = Moved(table[u], m.to, m.by)
        <3>1. \A n \in Plan(table) : n.unit = m.unit => n = m
            BY OneMove
        <3>2. m.to \in MoveKinds
            BY <1>1, PlanUnits
        <3> QED BY <1>1, <2>1, <2>4, <3>1, <3>2, AppliedOnce DEF Ids
    <2> QED BY <1>1, <2>2, <2>3, <2>4
<1>3. CASE table' = table
    BY <1>1, <1>3 DEF Ids
<1> QED BY <1>1, <1>2, <1>3

(* A move of a plan, made to the row it was planned for, keeps the row's   *)
(* type, and names a replacement only for the unit it supersedes.          *)
LEMMA RowMoved ==
    ASSUME RoundsInv, NEW m \in Plan(table)
    PROVE  /\ m.unit \in Ids
           /\ Moved(table[m.unit], m.to, m.by) \in RowType
           /\ ReplacedBy(m.unit, Moved(table[m.unit], m.to, m.by))
<1> DEFINE row == table[m.unit]
<1>1. DOMAIN table = 1..UnitCount
    BY DEF RoundsInv, TableType, Ids
<1>2. /\ m.unit \in Ids /\ m.to \in MoveKinds /\ m.by \in Ids \cup {NoUnit}
      /\ row.status \in LiveStatuses \cup {"unit_candidate"}
    BY <1>1, PlanUnits DEF Ids
<1>3. row \in RowType /\ row.by = NoUnit
    BY <1>2 DEF RoundsInv, TableType, ReplacedInv, ReplacedBy, LiveStatuses
<1> DEFINE new == Moved(row, m.to, m.by)
<1>4. new \in RowType /\ new.status = m.to /\ new.by = m.by
    <2>1. /\ m.to \in Statuses \ {"absent", "retracted"} /\ m.to \in Statuses
          /\ row.status \in Statuses
        BY <1>2 DEF MoveKinds, Statuses, LiveStatuses
    <2> DEFINE before == IF m.to = "archived" THEN row.status ELSE row.before
    <2>2. before \in Statuses
        BY <1>3, <2>1 DEF RowType
    <2>3. new = [content |-> row.content, status |-> m.to, by |-> m.by,
                 sources |-> row.sources, logged |-> m.to, before |-> before]
        <3>1. IsRow(row) /\ (IF m.by = NoUnit THEN row.by ELSE m.by) = m.by
            BY <1>3 DEF IsRow, RowType
        <3> HIDE DEF row
        <3> QED BY <3>1, MovedFields
    <2> HIDE DEF before
    <2> QED BY <1>2, <1>3, <2>1, <2>2, <2>3 DEF RowType
<1>5. ReplacedBy(m.unit, new)
    <2>1. CASE m \in Supersessions(table)
        <3>1. m.to = "superseded" /\ m.by \in Ids /\ m.unit < m.by
            <4>1. m.to = "superseded" /\ m.by \in Current(table) /\ m.unit < m.by
                BY <1>1, <2>1, SupersessionMove DEF Replacement
            <4>2. Current(table) \subseteq Ids
                BY <1>1 DEF Current, Valid, Listed, Ids
            <4> QED BY <4>1, <4>2
        <3> HIDE DEF new
        <3> QED BY <1>4, <3>1 DEF ReplacedBy
    <2>2. CASE m \notin Supersessions(table)
        <3>1. m.to # "superseded" /\ m.by = NoUnit
            BY <2>2, PlanGroups
        <3> HIDE DEF new
        <3> QED BY <1>4, <3>1 DEF ReplacedBy
    <2> QED BY <2>1, <2>2
<1> QED BY <1>2, <1>4, <1>5

LEMMA StepRoundsInv == RoundsInv /\ [Round]_table => RoundsInv'
<1> SUFFICES ASSUME RoundsInv, [Round]_table PROVE RoundsInv'
    OBVIOUS
<1>1. TableType
    BY DEF RoundsInv
<1>2. ASSUME NEW u \in Ids PROVE table'[u] \in RowType /\ ReplacedBy(u, table'[u])
    <2>1. CASE table'[u] = table[u]
        BY <2>1 DEF RoundsInv, TableType, ReplacedInv
    <2>2. CASE \E m \in Plan(table) : /\ m.unit = u
                                      /\ table'[u] = Moved(table[u], m.to, m.by)
        BY <2>2, RowMoved
    <2> QED BY <1>1, <2>1, <2>2, RoundRows
<1>3. table' \in [Ids -> RowType]
    <2>1. table' = [u \in Ids |-> table'[u]]
        <3>1. CASE Round
            <4>1. table' = Applied(table, Plan(table))
                BY <3>1 DEF Round
            <4>2. DOMAIN table = Ids
                BY <1>1 DEF TableType
            <4> QED BY <4>1, <4>2, AppliedAfter
        <3>2. CASE table' = table
            BY <1>1, <3>2 DEF TableType
        <3> QED BY <3>1, <3>2
    <2> QED BY <1>2, <2>1
<1> QED BY <1>2, <1>3 DEF RoundsInv, TableType, ReplacedInv

LEMMA RoundsInvAlways == Spec => []RoundsInv
<1>1. Init => RoundsInv
    BY InitRoundsInv
<1>2. RoundsInv /\ [Round]_table => RoundsInv'
    BY StepRoundsInv
<1> QED BY <1>1, <1>2, PTL DEF Spec

(* The retrieval filter may ask for superseded_by IS NULL: no plan revives *)
(* a unit that this or an earlier round has replaced.                      *)
THEOREM NoLiveReplacedHolds == Spec => []NoLiveReplaced
<1>1. RoundsInv => NoLiveReplaced
    BY DEF RoundsInv, ReplacedInv, ReplacedBy, NoLiveReplaced, LiveStatuses
<1> QED BY <1>1, RoundsInvAlways, PTL

(* Units never replace each other in a ring, however many rounds there     *)
(* are: the newest unit of any set of superseded ones names one outside.   *)
THEOREM ChainsEndHolds == Spec => []ChainsEnd
<1>1. ASSUME RoundsInv,
             NEW ring \in SUBSET {u \in Ids : table[u].status = "superseded"}, ring # {}
      PROVE  \E u \in ring : table[u].by \notin ring
    <2>1. ring \in SUBSET (1..UnitCount)
        BY DEF Ids
    <2>2. Max(ring) \in ring /\ \A v \in ring : v <= Max(ring)
        BY <1>1, <2>1, MaxOfIds
    <2> DEFINE last == Max(ring)
    <2>3. table[last].by \in Ids /\ last < table[last].by
        <3>1. last \in Ids /\ table[last].status = "superseded"
            BY <2>2
        <3> HIDE DEF last
        <3> QED BY <1>1, <3>1 DEF RoundsInv, ReplacedInv, ReplacedBy
    <2>4. last \in Nat /\ table[last].by \in Nat
        <3>1. last \in 1..UnitCount
            BY <2>1, <2>2
        <3> HIDE DEF last
        <3> QED BY <2>3, <3>1 DEF Ids
    <2> HIDE DEF last
    <2>5. ~(table[last].by <= last)
        BY <2>3, <2>4
    <2> QED BY <2>2, <2>5 DEF last
<1>2. RoundsInv => ChainsEnd
    BY <1>1 DEF ChainsEnd
<1> QED BY <1>2, RoundsInvAlways, PTL

(* A round leaves both units of a valid conflicting pair as they are, the  *)
(* decision is a human's.                                                  *)
THEOREM ConflictsHeldHolds == Spec => ConflictsHeld
<1> DEFINE Held == \A u, v \in Valid(table) :
                      /\ u # v
                      /\ {table[u].status, table[v].status} \subseteq LiveStatuses
                      /\ Related(Conflicting, table, u, v)
                      => table'[u] = table[u]
<1>1. RoundsInv /\ [Round]_table => [Held]_table
    <2> SUFFICES ASSUME RoundsInv, [Round]_table,
                        NEW u \in Valid(table), NEW v \in Valid(table), u # v,
                        table[u].status \in LiveStatuses, table[v].status \in LiveStatuses,
                        Related(Conflicting, table, u, v)
                 PROVE  table'[u] = table[u]
        OBVIOUS
    <2>1. TableType /\ DOMAIN table = 1..UnitCount
        BY DEF RoundsInv, TableType, Ids
    <2>2. u \in Ids
        BY <2>1 DEF Valid, Listed, Ids
    <2>3. u \in Conflicted(table)
        BY DEF Conflicted
    <2>4. \A m \in Plan(table) : m.unit # u
        BY <2>1, <2>3, PlanUnits
    <2> QED BY <2>1, <2>2, <2>4, RoundRows
<1> HIDE DEF Held
<1>2. [][Held]_table <=> ConflictsHeld
    BY DEF Held, ConflictsHeld
<1> QED BY <1>1, <1>2, RoundsInvAlways, PTL DEF Spec
-----------------------------------------------------------------------------
(* Rounds settle: the argument without the fairness.                       *)

\* How far a unit has come.  The two middle statuses follow each other in
\* the order that what recurs, which no round changes, gives them.
Rung(U, u) == CASE U[u].status = "unit_candidate" -> 0
                [] U[u].status = "active_unit" -> IF Recurring(U, u) THEN 1 ELSE 2
                [] U[u].status = "crystal_candidate" -> IF Recurring(U, u) THEN 2 ELSE 1
                [] U[u].status = "crystal" -> 3
                [] OTHER -> 4

\* A round that changes anything takes some unit to a higher rung, and none
\* to a lower one.
RoundsClimb == [][/\ \A u \in Ids : table'[u] = table[u] \/ Rung(table', u) > Rung(table, u)
                  /\ \E u \in Ids : Rung(table', u) > Rung(table, u)]_table

(* Each move of a plan takes its unit to a higher rung.                    *)
LEMMA MoveClimbs ==
    ASSUME RoundsInv, NEW m \in Plan(table), NEW W, NEW u, u = m.unit,
           W[u] = Moved(table[u], m.to, m.by)
    PROVE  Rung(W, u) > Rung(table, u)
<1>1. DOMAIN table = 1..UnitCount
    BY DEF RoundsInv, TableType, Ids
<1>2. /\ u \in Ids
      /\ table[u].status \in {"unit_candidate", "active_unit", "crystal_candidate", "crystal"}
    BY <1>1, PlanUnits DEF Ids, LiveStatuses
<1>3. /\ W[u].status = m.to /\ W[u].content = table[u].content
      /\ W[u].sources = table[u].sources
    <2>1. IsRow(table[u])
        BY <1>2 DEF RoundsInv, TableType, RowType, IsRow
    <2> QED BY <2>1, MovedFields
<1>4. Recurring(W, u) <=> Recurring(table, u)
    BY <1>3 DEF Recurring
<1>5. CASE m \in Supersessions(table)
    <2>1. m.to = "superseded"
        BY <1>1, <1>5, SupersessionMove
    <2> QED BY <1>2, <1>3, <2>1 DEF Rung
<1>6. CASE m.to = "archived" /\ m.unit \in Archives(table)
    BY <1>2, <1>3, <1>6 DEF Rung
<1>7. CASE m.to = "crystal" /\ m.unit \in Promotions(table)
    <2>1. table[u].status \in {"active_unit", "crystal_candidate"}
        BY <1>7 DEF Promotions
    <2> QED BY <1>3, <1>7, <2>1 DEF Rung
<1>8. CASE m.to = "crystal_candidate" /\ m.unit \in Candidates(table)
    <2>1. table[u].status = "active_unit" /\ Recurring(table, u)
        BY <1>8 DEF Candidates
    <2> QED BY <1>3, <1>4, <1>8, <2>1 DEF Rung
<1>9. CASE m.to = "active_unit" /\ m.unit \in Demotions(table)
    <2>1. table[u].status = "crystal_candidate" /\ ~Recurring(table, u)
        BY <1>9 DEF Demotions
    <2> QED BY <1>3, <1>4, <1>9, <2>1 DEF Rung
<1> QED BY <1>5, <1>6, <1>7, <1>8, <1>9, PlanGroups

(* No unit goes back and forth between statuses: in every round some unit  *)
(* climbs and none falls, so there are at most four rounds per unit.  That *)
(* they end, given fairness, is what the run of Settles shows.             *)
THEOREM RoundsClimbHolds == Spec => RoundsClimb
<1> DEFINE Climb == /\ \A u \in Ids : table'[u] = table[u] \/ Rung(table', u) > Rung(table, u)
                    /\ \E u \in Ids : Rung(table', u) > Rung(table, u)
<1>1. RoundsInv /\ [Round]_table => [Climb]_table
    <2> SUFFICES ASSUME RoundsInv, [Round]_table, table' # table PROVE Climb
        BY DEF Climb
    <2>1. \A u \in Ids : table'[u] = table[u] \/ Rung(table', u) > Rung(table, u)
        <3> SUFFICES ASSUME NEW u \in Ids, table'[u] # table[u]
                     PROVE  Rung(table', u) > Rung(table, u)
            OBVIOUS
        <3>1. PICK m \in Plan(table) : m.unit = u /\ table'[u] = Moved(table[u], m.to, m.by)
            BY RoundRows DEF RoundsInv
        <3> QED BY <3>1, MoveClimbs
    <2>2. \E u \in Ids : table'[u] # table[u]
        <3>1. table \in [Ids -> RowType] /\ table' \in [Ids -> RowType]
            BY StepRoundsInv DEF RoundsInv, TableType
        <3> QED BY <3>1
    <2> QED BY <2>1, <2>2
<1> HIDE DEF Climb
<1>2. [][Climb]_table <=> RoundsClimb
    BY DEF Climb, RoundsClimb
<1> QED BY <1>1, <1>2, RoundsInvAlways, PTL DEF Spec

(* Every row of the table keeps its type, and no row is retracted or       *)
(* vanishes.                                                               *)
THEOREM RowsKeepType == Spec => []TableType
<1>1. RoundsInv => TableType
    BY DEF RoundsInv
<1> QED BY <1>1, RoundsInvAlways, PTL
=============================================================================
