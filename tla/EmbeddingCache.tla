---------------------------- MODULE EmbeddingCache ----------------------------
(***************************************************************************)
(* EmbeddingService.embed_many over its cache of the least recently used   *)
(* kind.  The cache is the sequence of its texts, the last used at the     *)
(* end; the vector of a text is the text itself.                           *)
(***************************************************************************)
EXTENDS Sorting

\* Move to the end, or append.
Touched(cache, text) == Append(Only(cache, ToSet(cache) \ {text}), text)

\* Mutant: a text that is found again keeps its place.
PutInPlace(cache, text, size) ==
    LET grown == IF text \in ToSet(cache) THEN cache ELSE <<text>> \o cache
    IN  SubSeq(grown, Max({1, Len(grown) - size + 1}), Len(grown))

\* _cache_put: the oldest leave.
Put(cache, text, size) ==
    LET grown == Touched(cache, text)
    IN  SubSeq(grown, Max({1, Len(grown) - size + 1}), Len(grown))

\* _cache_get
Get(cache, text) == IF text \in ToSet(cache) THEN Touched(cache, text) ELSE cache

\* _cache_get for each text, in order.
Got(cache, texts) ==
    FoldLeft(LAMBDA c, t : Get(c, t), cache, texts)

Distinct(texts) ==
    FoldLeft(LAMBDA d, t : AppendIf(d, t, t \notin ToSet(d)), <<>>, texts)

PutAll(cache, texts, size) == FoldLeft(LAMBDA c, t : Put(c, t, size), cache, texts)

Call(cache, answers, error) == [cache |-> cache, answers |-> answers, error |-> error]

\* The call of the provider for a batch may fail; failing is its number, 0 for none.
EmbedMany(cache, texts, size, batchSize, failing) ==
    LET held == ToSet(cache)
        asked == Only(texts, ToSet(texts) \ held)
        missing == Distinct(asked)
        answered == IF failing = 0 THEN Len(missing) ELSE Min({Len(missing), batchSize * (failing - 1)})
        filled == PutAll(Got(cache, texts), SubSeq(missing, 1, answered), size)
        lost == ToSet(missing) \ ToSet(filled)
        firstLost == IF lost = {} THEN Len(asked) ELSE Min({i \in DOMAIN asked : asked[i] \in lost}) - 1
    IN  CASE answered < Len(missing) -> Call(filled, <<>>, "provider")
          [] answered = Len(missing) /\ lost # {} ->
               Call(Got(filled, SubSeq(asked, 1, firstLost)), <<>>, "not populated")
          [] answered = Len(missing) /\ lost = {} -> Call(Got(filled, asked), texts, "none")
=============================================================================
