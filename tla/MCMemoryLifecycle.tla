------------------------- MODULE MCMemoryLifecycle -------------------------
(* Small instances of MemoryLifecycle for TLC.  A captured source is the   *)
(* pair of a document and the index of a unit in it.                       *)
EXTENDS MemoryLifecycle

CONSTANTS t1, t2,       \* traces: t1 is activated at once, t2 a candidate
          rule, fix,    \* fix corrects rule
          clash,        \* contradicts rule
          copy,         \* another content under the title of rule
          d1, d2        \* documents

MCContents == {t1, t2, rule, fix, clash, copy}
MCTitle == [c \in MCContents |-> IF c = copy THEN rule ELSE c]
MCSources == {t1, t2, <<d1, 0>>, <<d1, 1>>, <<d2, 0>>}
MCSessionOf == [s \in MCSources |-> IF s \in {t1, t2} THEN s ELSE s[1]]
MCConflicting == {<<rule, clash>>, <<clash, rule>>}
MCReplaces == {<<rule, fix>>, <<copy, fix>>, <<fix, clash>>}

\* The same rule found three times in two documents.
RuleCaptures == {<<rule, <<d1, 0>>>>, <<rule, <<d1, 1>>>>, <<rule, <<d2, 0>>>>}
RivalCaptures == {<<rule, <<d1, 0>>>>, <<copy, <<d1, 0>>>>}
=============================================================================
