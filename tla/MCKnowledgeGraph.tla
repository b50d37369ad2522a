-------------------------- MODULE MCKnowledgeGraph --------------------------
(* Small instances of KnowledgeGraph for TLC.  app and App normalise to    *)
(* one alias, sqlite is similar to sql.                                    *)
EXTENDS KnowledgeGraph, TLC

CONSTANTS app, App, sql, sqlite, uses, notes, label

MCNames == {app, App, sql, sqlite}
MCNorm == [n \in MCNames |-> IF n = App THEN app ELSE n]
MCSimilar == {<<n, n>> : n \in MCNames} \cup {<<app, App>>, <<App, app>>, <<sqlite, sql>>}

\* notes changes what app uses; a graph without a source path says it of App.
ChangingHistory ==
    (notes :> << << << <<app, uses, sql>> >> >>, << << <<app, uses, App>> >> >> >>) @@
    (label :> << << << <<App, uses, sqlite>> >> >> >>)

\* One file, never changed, with two things to say about one predicate.
StableHistory == notes :> << << << <<app, uses, sql>>, <<app, uses, sqlite>> >> >> >>
=============================================================================
