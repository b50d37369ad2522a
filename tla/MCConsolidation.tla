-------------------------- MODULE MCConsolidation --------------------------
(* Small instances of ConsolidationRounds for TLC.                         *)
EXTENDS ConsolidationRounds

CONSTANTS rule, fix,    \* fix corrects rule
          clash,        \* contradicts rule, is corrected by fix
          copy,         \* another content under the title of rule
          stale, plan,  \* past their valid_to; the plan is only reviewed
          d1, d2        \* documents

MCContents == {rule, fix, clash, copy, stale, plan}
MCTitle == [c \in MCContents |-> IF c = copy THEN rule ELSE c]
MCSessionOf == [s \in {d1, d2} |-> s]
MCConflicting == {<<rule, clash>>, <<clash, rule>>}
MCReplaces == {<<rule, fix>>, <<fix, rule>>, <<copy, fix>>, <<clash, fix>>, <<rule, stale>>,
               <<plan, fix>>}
MCProvenances == {{d1}, {d1, d2}}
=============================================================================
