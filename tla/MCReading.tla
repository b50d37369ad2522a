------------------------------ MODULE MCReading ------------------------------
(* Inputs of Reading: small enough to enumerate, large enough for every     *)
(* branch to be taken.                                                      *)
EXTENDS Reading

SeqsUpTo(S, n) == UNION {[1..m -> S] : m \in 0..n}

MCRelations == {[id |-> 1, src |-> "a", tgt |-> "b"], [id |-> 2, src |-> "c", tgt |-> "b"],
                [id |-> 3, src |-> "c", tgt |-> "d"], [id |-> 4, src |-> "a", tgt |-> "c"]}
MCSeedSets == {{"a"}, {"d"}, {"a", "d"}}

MCCandidates == [hops : {0, 1}, raw : 0..2, sim : {0, 2}, date : {0}]
MCScoreds == [1..3 -> MCCandidates] \cup [1..2 -> [hops : 0..2, raw : 0..2, sim : 0..2, date : 0..1]]

MCEvidence == {<<>>, <<[doc |-> 1, cost |-> 1, tag |-> 1]>>, <<[doc |-> 2, cost |-> 3, tag |-> 1]>>,
               <<[doc |-> 1, cost |-> 2, tag |-> 1], [doc |-> 2, cost |-> 1, tag |-> 1]>>}
\* With TopK = 2 the third relation of a list is not to have evidence.
MCRankeds == {[i \in DOMAIN s |-> [id |-> i, cost |-> s[i][1], evidence |-> s[i][2]]] :
                s \in SeqsUpTo({1, 3} \X MCEvidence, 2)
                       \cup [1..3 -> {1} \X (MCEvidence \ {<<>>})]}
MCChunkLists == {[i \in DOMAIN s |-> [doc |-> s[i][1] + i, cost |-> s[i][2]]] :
                   s \in SeqsUpTo({0, 2} \X {1, 3}, 2)}
MCUnitSets == {{}} \cup {{[id |-> 1, status |-> s, replaced |-> FALSE, weight |-> 3, cost |-> 2],
                          [id |-> 2, status |-> "crystal", replaced |-> FALSE, weight |-> w, cost |-> 1]} :
                           s \in {"active_unit", "retracted"}, w \in {1, 2}}

MCRows == {[doc |-> 1, path |-> "p", section |-> "s", version |-> 1, score |-> 1],
           [doc |-> 2, path |-> "p", section |-> "s", version |-> 2, score |-> 0],
           [doc |-> 3, path |-> "p", section |-> "t", version |-> 2, score |-> 0],
           [doc |-> 4, path |-> "p", section |-> "u", version |-> 1, score |-> 1],
           [doc |-> 5, path |-> "q", section |-> "s", version |-> 1, score |-> 0],
           [doc |-> 6, path |-> NoPath, section |-> "none", version |-> 1, score |-> 0]}
MCRowLists == {s \in SeqsUpTo(MCRows, 4) : \A i, j \in DOMAIN s : s[i] = s[j] => i = j}

MCMessages == [pool : {"message"}, rank : {1, 3}, project : {"p", "q"}, kind : {"none"}, error : {FALSE}]
MCEvents == [pool : {"event"}, rank : {2, 3}, project : {"p", "q"}, kind : {"tool_result"}, error : BOOLEAN]
              \cup [pool : {"event"}, rank : {2}, project : {"p"}, kind : {"tool_call"}, error : {FALSE}]

MCMessageLists == SeqsUpTo(MCMessages, 2)
MCEventLists == SeqsUpTo(MCEvents, 2)

MCWindows == {[from |-> f, to |-> f + 2, terms |-> t] : f \in 0..4, t \in (SUBSET {"t", "u"}) \ {{}}}
\* The terms of a window are read from its span.
MCWindowSets == {W \in SUBSET MCWindows : /\ Cardinality(W) <= 3
                                         /\ \A v, w \in W : v.from = w.from => v = w}

MCLines == {[kind |-> "text", size |-> 4], [kind |-> "text", size |-> 9], [kind |-> "blank", size |-> 0],
            [kind |-> "head", size |-> 4], [kind |-> "tick", size |-> 3], [kind |-> "tilde", size |-> 3]}
MCDocuments == SeqsUpTo(MCLines, 5)

MCUnits(id) ==
    {[id |-> id, type |-> k[1], status |-> k[2], replaced |-> FALSE, confirmed |-> k[3],
      terms |-> t, title |-> t, sources |-> s] :
        k \in {<<"procedure", "active_unit", FALSE>>, <<"learning", "crystal", TRUE>>,
               <<"procedure", "retracted", FALSE>>},
        t \in {{"script"}, {"skill"}, {"script", "skill"}, {"x"}}, s \in {{"s1"}, {"s2"}}}
MCDistillUnits == {{u, v, w} : u \in MCUnits(1), v \in MCUnits(2), w \in MCUnits(3)}
MCAssets == <<[form |-> "script", name |-> {"x"}], [form |-> "script", name |-> {"script", "x"}],
              [form |-> "skill_file", name |-> {"skill"}]>>

MCTexts == SeqsUpTo({"t1", "t2", "t3", "t4"}, 3)
=============================================================================
