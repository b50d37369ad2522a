-------------------------------- MODULE Distill --------------------------------
(***************************************************************************)
(* Phase F: memory units that describe one workflow are grouped, and a     *)
(* group with enough independent evidence is reported as a candidate.      *)
(*                                                                         *)
(* A unit is [id, type, status, replaced, terms, title, confirmed,         *)
(* sources]: terms are the tokens of all its text, title those of its      *)
(* title, sources the keys of the sessions and documents it came from.     *)
(***************************************************************************)
EXTENDS Sorting

\* list_units_for_distill
EligibleUnits(units) ==
    {u \in units : /\ u.type \in {"procedure", "learning"} /\ ~u.replaced
                   /\ u.status \in {"active_unit", "crystal_candidate", "crystal"}}

\* Shared tokens, in percent of the smaller set, reach a bound.
Overlap(s, t, percent) ==
    s # {} /\ t # {} /\ 100 * Cardinality(s \cap t) >= percent * Min({Cardinality(s), Cardinality(t)})

Alike(u, v) == Overlap(u.terms, v.terms, 35)

ById(units) == Sorted(units, [u \in units |-> <<u.id>>])

\* Mutant: a unit joins the first group it matches, and the others stay apart.
GroupsFirstMatch(units) ==
    FoldLeft(LAMBDA groups, u :
               LET matching == {g \in groups : \E v \in g : Alike(u, v)}
                   joined == IF matching = {} THEN {} ELSE CHOOSE g \in matching : TRUE
               IN  (groups \ {joined}) \cup {joined \cup {u}},
             {}, ById(units))

\* A unit joins, and so merges, every group that holds a unit like it.
Joined(groups, u) ==
    LET matching == {g \in groups : \E v \in g : Alike(u, v)}
    IN  (groups \ matching) \cup {{u} \cup UNION matching}

GroupUnits(units) == FoldLeft(LAMBDA groups, u : Joined(groups, u), {}, ById(units))

\* count_independent_sources_for_unit_group: a session that two units share counts once.
IndependentSessions(group) == Cardinality(UNION {u.sources : u \in group})

\* recommend_form; the terms that tell forms apart are named after them.
RecommendForm(group) ==
    LET types == {u.type : u \in group}
        terms == UNION {u.terms : u \in group}
    IN  CASE "procedure" \in types /\ "script" \in terms -> "script"
          [] "procedure" \in types /\ "script" \notin terms /\ "command" \in terms -> "command"
          [] types = {"learning"} -> "convention_doc"
          [] OTHER -> IF "skill" \in terms \/ types # {"procedure"} THEN "skill_file" ELSE "command"

\* An asset is [form, name], the name a set of tokens; covered by the first that fits, 0 for none.
CoveredBy(group, assets) ==
    LET title == UNION {u.title : u \in group}
        fits == {i \in DOMAIN assets : /\ assets[i].form = RecommendForm(group)
                                       /\ Overlap(title, assets[i].name, 40)}
    IN  IF fits = {} THEN 0 ELSE Min(fits)

Candidate(group, assets) ==
    [members |-> ById(group), sessions |-> IndependentSessions(group),
     form |-> RecommendForm(group), covered |-> CoveredBy(group, assets)]

\* build_distill_plan: the most evidence first, then the larger group, then the older.
DistillPlan(units, assets) ==
    LET reported == {g \in GroupUnits(EligibleUnits(units)) :
                       IndependentSessions(g) >= 2 \/ \E u \in g : u.confirmed}
        candidates == {Candidate(g, assets) : g \in reported}
    IN  Sorted(candidates, [c \in candidates |-> <<-c.sessions, -Len(c.members), c.members[1].id>>])
-----------------------------------------------------------------------------
(* What the groups must be: the classes of units linked by chains of alike *)
(* units, whatever the order of their ids.                                 *)

Linked(units, u, v) ==
    \E n \in 1..Cardinality(units) : \E chain \in [1..n -> units] :
        /\ chain[1] = u /\ chain[n] = v
        /\ \A i \in 1..(n - 1) : chain[i] = chain[i + 1] \/ Alike(chain[i], chain[i + 1])

Classes(units) == {{v \in units : Linked(units, u, v)} : u \in units}
=============================================================================
