------------------------- MODULE HistoryImportProofs -------------------------
(***************************************************************************)
(* Theorems about HistoryImport for the importers that read a log in its   *)
(* own order (membox, codex, pi): any number of importers, any lines, any  *)
(* bounds, replacements of the log and kills.                              *)
(*                                                                         *)
(* ImportInv says what a stored offset stands for: some first k lines that *)
(* were parsed without an error, whose rows are all in the tables.  It is  *)
(* kept because a parse that resumes there finds the rows that one of the  *)
(* whole log finds (ContinuesAll), under the same ids (FreshId).           *)
(***************************************************************************)
EXTENDS HistoryImport, FiniteSetTheorems, WellFoundedInduction, TLAPS

(***************************************************************************)
(* Reading a log line by line: Reads(f, b, lines, k, m) is b after the     *)
(* lines k+1 to m, Whole(f, lines, m) what a parse knows that began with   *)
(* the log.                                                                *)
(***************************************************************************)
ReadAll(f, b, lines) == FoldLeft(LAMBDA read, line : ReadLine(f, read, line), b, lines)
Reads(f, b, lines, k, m) == ReadAll(f, b, SubSeq(lines, k + 1, m))
Whole(f, lines, m) == Reads(f, Batch(FALSE, 0), lines, 0, m)

-----------------------------------------------------------------------------
(* What FoldLeft computes: the recursive function it is defined by exists  *)
(* (by the first number of lines for which it would not), and takes one    *)
(* step for each line.                                                     *)

\* The equation of the recursive function that FoldLeft applies to the indices.
Iterates(f, g, base, s, n) ==
    g = [x \in SUBSET (1..n) |-> IF x = {} THEN base
                                 ELSE ReadLine(f, g[x \ {Max(x)}], s[Max(x)])]

(* A set of naturals has a least member.                                   *)
LEMMA LeastNat ==
    ASSUME NEW T \in SUBSET Nat, T # {}
    PROVE  \E i \in T : \A j \in T : i <= j
<1>1. PICK i \in T : \A j \in T : <<j, i>> \notin OpToRel(<, Nat)
    BY NatLessThanWellFounded, WFMin
<1>2. \A j \in T : ~(j < i)
    BY <1>1 DEF OpToRel
<1> QED BY <1>2

(* Max of a set with a greatest member.                                    *)
LEMMA MaxIs ==
    ASSUME NEW x \in SUBSET Nat, NEW m \in x, \A y \in x : y <= m
    PROVE  Max(x) = m
<1>1. \A y \in x : m >= y
    OBVIOUS
<1>2. Max(x) \in x /\ \A y \in x : Max(x) >= y
    BY <1>1 DEF Max
<1>3. Max(x) >= m /\ Max(x) <= m /\ Max(x) \in Nat
    BY <1>2
<1> QED BY <1>3

(* A set of indices has a greatest.                                        *)
LEMMA MaxOfIndices ==
    ASSUME NEW n \in Nat, NEW x \in SUBSET (1..n), x # {}
    PROVE  Max(x) \in x /\ \A y \in x : y <= Max(x)
<1> DEFINE rest == {n - y : y \in x}
<1>1. rest \in SUBSET Nat /\ rest # {}
    <2>1. \A y \in x : n - y \in Nat
        OBVIOUS
    <2> QED BY <2>1
<1>2. PICK k \in rest : \A j \in rest : k <= j
    <2> HIDE DEF rest
    <2> QED BY <1>1, LeastNat
<1>3. PICK m \in x : k = n - m
    OBVIOUS
<1>4. \A y \in x : n - m <= n - y
    BY <1>2, <1>3
<1>5. \A y \in x : y <= m
    <2> HIDE DEF rest
    <2> QED BY <1>4
<1>6. Max(x) = m
    <2> HIDE DEF rest
    <2> QED BY <1>5, MaxIs
<1> QED BY <1>5, <1>6

(* The function over n indices extends to one more.                        *)
LEMMA IteratesStep ==
    ASSUME NEW f, NEW base, NEW s, NEW n \in Nat, NEW g, Iterates(f, g, base, s, n)
    PROVE  \E h : /\ Iterates(f, h, base, s, n + 1)
                  /\ \A x \in SUBSET (1..n) : h[x] = g[x]
<1> DEFINE all == SUBSET (1..(n + 1))
           h == [x \in all |-> IF n + 1 \in x THEN ReadLine(f, g[x \ {n + 1}], s[n + 1]) ELSE g[x]]
<1>1. \A x \in SUBSET (1..n) : x \in all /\ n + 1 \notin x
    OBVIOUS
<1>2. \A x \in SUBSET (1..n) : h[x] = g[x]
    BY <1>1
<1>3. \A x \in all : h[x] = IF x = {} THEN base ELSE ReadLine(f, h[x \ {Max(x)}], s[Max(x)])
    <2> SUFFICES ASSUME NEW x \in all
                 PROVE  h[x] = IF x = {} THEN base ELSE ReadLine(f, h[x \ {Max(x)}], s[Max(x)])
        OBVIOUS
    <2>1. CASE n + 1 \in x
        <3>1. Max(x) = n + 1
            <4>1. x \in SUBSET Nat /\ \A y \in x : y <= n + 1
                OBVIOUS
            <4> HIDE DEF h, all
            <4> QED BY <2>1, <4>1, MaxIs
        <3>2. x \ {n + 1} \in SUBSET (1..n)
            OBVIOUS
        <3>3. h[x \ {n + 1}] = g[x \ {n + 1}]
            <4> HIDE DEF h, all
            <4> QED BY <3>2, <1>2
        <3>4. h[x] = ReadLine(f, g[x \ {n + 1}], s[n + 1])
            BY <2>1
        <3> HIDE DEF h, all
        <3> QED BY <2>1, <3>1, <3>3, <3>4
    <2>2. CASE n + 1 \notin x
        <3>1. x \in SUBSET (1..n)
            BY <2>2
        <3>2. h[x] = g[x]
            BY <3>1, <1>2
        <3>3. g[x] = IF x = {} THEN base ELSE ReadLine(f, g[x \ {Max(x)}], s[Max(x)])
            BY <3>1 DEF Iterates
        <3>4. h[x \ {Max(x)}] = g[x \ {Max(x)}]
            <4>1. x \ {Max(x)} \in SUBSET (1..n)
                BY <3>1
            <4> HIDE DEF h
            <4> QED BY <4>1, <1>2
        <3> HIDE DEF h, all
        <3> QED BY <3>2, <3>3, <3>4
    <2> QED BY <2>1, <2>2
<1>4. Iterates(f, h, base, s, n + 1)
    <2>1. h = [x \in all |-> h[x]]
        OBVIOUS
    <2>2. h = [x \in all |-> IF x = {} THEN base ELSE ReadLine(f, h[x \ {Max(x)}], s[Max(x)])]
        <3> HIDE DEF h, all
        <3> QED BY <1>3, <2>1
    <2> HIDE DEF h
    <2> QED BY <2>2 DEF Iterates
<1> QED BY <1>2, <1>4

(* It exists for any number of indices.                                    *)
LEMMA IteratesExists ==
    ASSUME NEW f, NEW base, NEW s, NEW n \in Nat
    PROVE  \E g : Iterates(f, g, base, s, n)
<1> DEFINE without == {m \in Nat : ~\E g : Iterates(f, g, base, s, m)}
<1>1. 0 \notin without
    <2>1. PICK g : g = [x \in SUBSET (1..0) |-> base]
        OBVIOUS
    <2>2. SUBSET (1..0) = {{}}
        OBVIOUS
    <2>3. g = [x \in SUBSET (1..0) |-> IF x = {} THEN base
                                       ELSE ReadLine(f, g[x \ {Max(x)}], s[Max(x)])]
        BY <2>1, <2>2
    <2> QED BY <2>3 DEF Iterates
<1>2. ASSUME NEW m \in Nat, m \notin without
      PROVE  m + 1 \notin without
    <2>1. PICK g : Iterates(f, g, base, s, m)
        BY <1>2
    <2> QED BY <2>1, IteratesStep
<1>3. without = {}
    <2> SUFFICES ASSUME without # {} PROVE FALSE
        OBVIOUS
    <2>1. PICK m \in without : \A k \in without : m <= k
        <3>1. without \in SUBSET Nat
            OBVIOUS
        <3> HIDE DEF without
        <3> QED BY <3>1, LeastNat
    <2>2. m \in Nat
        OBVIOUS
    <2> HIDE DEF without
    <2>3. m # 0 /\ m - 1 \in Nat /\ m - 1 + 1 = m /\ m - 1 < m
        BY <1>1, <2>2
    <2>4. m - 1 \notin without
        BY <2>1, <2>2, <2>3
    <2> QED BY <1>2, <2>3, <2>4
<1> QED BY <1>3

\* The function FoldLeft applies to the indices of a sequence of length n.
Iter(f, base, s, n) == CHOOSE g : Iterates(f, g, base, s, n)

(* It satisfies its equation.                                              *)
LEMMA IterIterates ==
    ASSUME NEW f, NEW base, NEW s, NEW n \in Nat
    PROVE  Iterates(f, Iter(f, base, s, n), base, s, n)
BY IteratesExists DEF Iter

(* FoldLeft is its value at all the indices.                               *)
LEMMA FoldIsIter ==
    ASSUME NEW f, NEW base, NEW s, NEW n \in Nat, DOMAIN s = 1..n
    PROVE  ReadAll(f, base, s) = Iter(f, base, s, n)[1..n]
BY DEF ReadAll, FoldLeft, MapThenFoldSet, Iter, Iterates

(* Two such functions agree on the prefixes their sequences share.         *)
LEMMA IteratesAgree ==
    ASSUME NEW f, NEW base, NEW s, NEW t, NEW n \in Nat, NEW m \in Nat, NEW g, NEW h,
           Iterates(f, g, base, s, n), Iterates(f, h, base, t, m),
           n <= m, \A i \in 1..n : s[i] = t[i]
    PROVE  g[1..n] = h[1..n]
<1> DEFINE apart == {j \in 0..n : g[1..j] # h[1..j]}
<1>1. g[1..0] = h[1..0]
    <2>1. 1..0 = {} /\ {} \in SUBSET (1..n) /\ {} \in SUBSET (1..m)
        OBVIOUS
    <2>2. g[{}] = base /\ h[{}] = base
        BY <2>1 DEF Iterates
    <2> QED BY <2>1, <2>2
<1>2. ASSUME NEW j \in 1..n, g[1..(j - 1)] = h[1..(j - 1)]
      PROVE  g[1..j] = h[1..j]
    <2>1. Max(1..j) = j
        <3>1. j \in 1..j /\ 1..j \in SUBSET Nat /\ \A y \in 1..j : y <= j
            OBVIOUS
        <3> QED BY <3>1, MaxIs
    <2>2. (1..j) \ {j} = 1..(j - 1)
        OBVIOUS
    <2>3. 1..j \in SUBSET (1..n) /\ 1..j \in SUBSET (1..m) /\ 1..j # {}
        OBVIOUS
    <2>4. g[1..j] = ReadLine(f, g[1..(j - 1)], s[j])
        BY ZenonT(30), <2>1, <2>2, <2>3 DEF Iterates
    <2>5. h[1..j] = ReadLine(f, h[1..(j - 1)], t[j])
        BY ZenonT(30), <2>1, <2>2, <2>3 DEF Iterates
    <2> QED BY <1>2, <2>4, <2>5
<1>3. apart = {}
    <2> SUFFICES ASSUME apart # {} PROVE FALSE
        OBVIOUS
    <2>1. apart \in SUBSET Nat
        OBVIOUS
    <2>2. PICK j \in apart : \A i \in apart : j <= i
        <3> HIDE DEF apart
        <3> QED BY <2>1, LeastNat
    <2>3. j \in 0..n /\ g[1..j] # h[1..j]
        OBVIOUS
    <2>4. j \in 1..n /\ j - 1 \in 0..n /\ j - 1 < j
        BY <1>1, <2>3
    <2>5. j - 1 \notin apart
        <3> HIDE DEF apart
        <3> QED BY <2>2, <2>4
    <2>6. g[1..(j - 1)] = h[1..(j - 1)]
        BY <2>4, <2>5
    <2> QED BY <1>2, <2>3, <2>4, <2>6
<1>4. n \in 0..n
    OBVIOUS
<1> QED BY <1>3, <1>4

(* Folding nothing.                                                        *)
LEMMA ReadNothing ==
    ASSUME NEW f, NEW base
    PROVE  ReadAll(f, base, <<>>) = base
<1>1. DOMAIN <<>> = 1..0 /\ {} \in SUBSET (1..0) /\ 1..0 = {}
    OBVIOUS
<1>2. ReadAll(f, base, <<>>) = Iter(f, base, <<>>, 0)[1..0]
    BY <1>1, FoldIsIter
<1>3. Iterates(f, Iter(f, base, <<>>, 0), base, <<>>, 0)
    BY IterIterates
<1>4. \A g : Iterates(f, g, base, <<>>, 0) => g[{}] = base
    BY <1>1 DEF Iterates
<1> QED BY <1>1, <1>2, <1>3, <1>4

(* Folding one more element.                                               *)
LEMMA ReadLonger ==
    ASSUME NEW f, NEW base, NEW s, NEW t, NEW n \in Nat, DOMAIN s = 1..n, DOMAIN t = 1..(n + 1),
           \A i \in 1..n : t[i] = s[i]
    PROVE  ReadAll(f, base, t) = ReadLine(f, ReadAll(f, base, s), t[n + 1])
<1>1. PICK g : g = Iter(f, base, s, n) /\ Iterates(f, g, base, s, n)
    BY IterIterates
<1>2. PICK h : h = Iter(f, base, t, n + 1) /\ Iterates(f, h, base, t, n + 1)
    BY IterIterates
<1>3. ReadAll(f, base, s) = g[1..n]
    BY <1>1, FoldIsIter
<1>4. ReadAll(f, base, t) = h[1..(n + 1)]
    BY <1>2, FoldIsIter
<1>5. g[1..n] = h[1..n]
    <2>1. PICK m : m = n + 1
        OBVIOUS
    <2>2. m \in Nat /\ n <= m /\ \A i \in 1..n : s[i] = t[i]
        BY <2>1
    <2>3. Iterates(f, h, base, t, m)
        BY <1>2, <2>1
    <2>4. Iterates(f, g, base, s, n)
        BY <1>1
    <2> QED BY <2>2, <2>3, <2>4, IteratesAgree
<1>6. h[1..(n + 1)] = ReadLine(f, h[1..n], t[n + 1])
    <2>1. Max(1..(n + 1)) = n + 1
        <3>1. n + 1 \in 1..(n + 1) /\ 1..(n + 1) \in SUBSET Nat /\ \A y \in 1..(n + 1) : y <= n + 1
            OBVIOUS
        <3> QED BY <3>1, MaxIs
    <2>2. (1..(n + 1)) \ {n + 1} = 1..n /\ 1..(n + 1) # {}
        OBVIOUS
    <2> QED BY <1>2, <2>1, <2>2 DEF Iterates
<1> QED BY <1>3, <1>4, <1>5, <1>6
-----------------------------------------------------------------------------
(* One line.                                                               *)

IsFcn(g) == g = [x \in DOMAIN g |-> g[x]]

\* The shape of a batch under construction; only the membox importer refuses a log.
IsBatch(f, b) ==
    /\ b = [known |-> b.known, bad |-> b.bad, messages |-> b.messages, events |-> b.events,
            next |-> b.next, seen |-> b.seen, ordinals |-> b.ordinals, last |-> b.last]
    /\ b.known \in BOOLEAN /\ b.bad \in BOOLEAN /\ (f # "membox" => ~b.bad)
    /\ b.next \in Nat
    /\ b.seen = DOMAIN b.messages /\ IsFiniteSet(b.seen)
    /\ IsFcn(b.messages) /\ IsFcn(b.events)

\* The id of a message whose text was not met before, and that of an event with one.
MessageId(f, line, seq) ==
    IF f # "codex" /\ line.key # NoKey THEN <<line.key, 0>>
    ELSE IF f = "pi" THEN <<NoKey, seq + 1>> ELSE <<line.text, 1>>
CallId(line) == <<line.key, "call", line.kind>>

TakesMessage(b, line) == b.known /\ ~b.bad /\ line.kind = "message"
TakesEvent(f, b, line) == b.known /\ ~b.bad /\ f # "pi" /\ IsEvent(line)

\* c is b after the line.
LineRead(f, b, line, c) ==
    /\ IsBatch(f, c)
    /\ c.known = (b.known \/ (~b.bad /\ line.kind = "session"))
    /\ c.bad = (b.bad \/ (f = "membox" /\ IsRecord(line) /\ ~b.known /\ line.kind # "session"))
    /\ ~IsRecord(line) => c = b
    /\ c.next = IF TakesMessage(b, line) THEN b.next + 1 ELSE b.next
    /\ c.messages = IF TakesMessage(b, line)
                    THEN Set(b.messages, MessageId(f, line, b.next),
                             [text |-> line.text, seq |-> b.next])
                    ELSE b.messages
    /\ IF TakesEvent(f, b, line)
       THEN \E m : c.events = Set(b.events, CallId(line), [text |-> line.text, message |-> m])
       ELSE c.events = b.events

(* The first synthetic id of a text, if this pass has not given it.        *)
LEMMA FirstSynthetic ==
    ASSUME NEW text, NEW seen, IsFiniteSet(seen), <<text, 1>> \notin seen
    PROVE  SynthExternalId(text, seen) = <<text, 1>>
<1> DEFINE free == {n \in 1..(Cardinality(seen) + 1) : <<text, n>> \notin seen}
<1>1. Cardinality(seen) \in Nat
    BY FS_CardinalityType
<1>2. 1 \in free /\ free \in SUBSET Nat /\ \A n \in free : 1 <= n
    BY <1>1
<1> HIDE DEF free
<1>3. Min(free) = 1
    <2>1. Min(free) \in free /\ \A n \in free : Min(free) <= n
        BY <1>2 DEF Min
    <2>2. Min(free) \in Nat /\ 1 <= Min(free) /\ Min(free) <= 1
        BY <1>2, <2>1
    <2> QED BY <2>2
<1> QED BY <1>3 DEF SynthExternalId, free

(* Reading a message.                                                      *)
LEMMA MessageReads ==
    ASSUME NEW f, NEW b, IsBatch(f, b), NEW line, b.known, ~b.bad, line.kind = "message",
           NEW c, c = AddMessage(b, MessageId(f, line, b.next), line)
    PROVE  LineRead(f, b, line, c)
<1>1. PICK ext : ext = MessageId(f, line, b.next)
    OBVIOUS
<1>2. PICK rows : rows = Set(b.messages, ext, [text |-> line.text, seq |-> b.next])
    OBVIOUS
<1>3. c = [known |-> b.known, bad |-> b.bad, messages |-> rows, events |-> b.events,
           next |-> b.next + 1, seen |-> b.seen \cup {ext}, ordinals |-> b.ordinals, last |-> ext]
    BY <1>1, <1>2 DEF AddMessage, IsBatch
<1>4. DOMAIN rows = b.seen \cup {ext} /\ IsFcn(rows)
    BY <1>2 DEF Set, IsBatch, IsFcn
<1>5. IsFiniteSet(b.seen \cup {ext})
    BY FS_AddElement DEF IsBatch
<1>6. IsBatch(f, c)
    BY <1>3, <1>4, <1>5 DEF IsBatch
<1>7. TakesMessage(b, line) /\ ~TakesEvent(f, b, line) /\ IsRecord(line) /\ line.kind # "session"
    BY DEF TakesMessage, TakesEvent, IsEvent, IsRecord
<1>8. b.known = TRUE /\ b.bad = FALSE /\ c.known = TRUE /\ c.bad = FALSE
    BY <1>3 DEF IsBatch
<1>9. c.known = (b.known \/ (~b.bad /\ line.kind = "session"))
    BY <1>8
<1>10. c.bad = (b.bad \/ (f = "membox" /\ IsRecord(line) /\ ~b.known /\ line.kind # "session"))
    BY <1>8
<1>11. c.messages = rows /\ c.events = b.events /\ c.next = b.next + 1
    BY <1>3
<1> QED BY <1>1, <1>2, <1>6, <1>7, <1>9, <1>10, <1>11 DEF LineRead

(* Reading an event.                                                       *)
LEMMA EventReads ==
    ASSUME NEW f, NEW b, IsBatch(f, b), NEW line, b.known, ~b.bad, IsEvent(line), f # "pi", NEW m,
           NEW c, c = AddEvent(b, CallId(line), m, line)
    PROVE  LineRead(f, b, line, c)
<1>0. PICK kept : kept = IF CallId(line) \in DOMAIN b.events
                        THEN b.events[CallId(line)].message ELSE m
    OBVIOUS
<1>1. PICK rows : rows = Set(b.events, CallId(line), [text |-> line.text, message |-> kept])
    OBVIOUS
<1>2. c = [known |-> b.known, bad |-> b.bad, messages |-> b.messages, events |-> rows,
           next |-> b.next, seen |-> b.seen, ordinals |-> b.ordinals, last |-> b.last]
    BY <1>0, <1>1 DEF AddEvent, IsBatch
<1>3. IsFcn(rows)
    BY <1>1 DEF Set, IsFcn
<1>4. IsBatch(f, c)
    BY <1>2, <1>3 DEF IsBatch
<1>5. ~TakesMessage(b, line) /\ TakesEvent(f, b, line) /\ IsRecord(line) /\ line.kind # "session"
    BY DEF TakesMessage, TakesEvent, IsEvent, IsRecord
<1>6. b.known = TRUE /\ b.bad = FALSE /\ c.known = TRUE /\ c.bad = FALSE
    BY <1>2 DEF IsBatch
<1>7. c.known = (b.known \/ (~b.bad /\ line.kind = "session"))
    BY <1>6
<1>8. c.bad = (b.bad \/ (f = "membox" /\ IsRecord(line) /\ ~b.known /\ line.kind # "session"))
    BY <1>6
<1>9. c.events = rows /\ c.messages = b.messages /\ c.next = b.next
    BY <1>2
<1> QED BY <1>1, <1>4, <1>5, <1>7, <1>8, <1>9 DEF LineRead

(* Meeting a session header, and a record before it.                       *)
LEMMA FlagRead ==
    ASSUME NEW f, NEW b, IsBatch(f, b)
    PROVE  /\ LET c == [b EXCEPT !.known = TRUE]
              IN  /\ IsBatch(f, c) /\ c.known /\ c.bad = b.bad /\ c.messages = b.messages
                  /\ c.events = b.events /\ c.next = b.next
           /\ LET c == [b EXCEPT !.bad = TRUE]
              IN  /\ f = "membox" => IsBatch(f, c)
                  /\ c.known = b.known /\ c.bad /\ c.messages = b.messages
                  /\ c.events = b.events /\ c.next = b.next
<1>1. PICK c : c = [b EXCEPT !.known = TRUE]
    OBVIOUS
<1>2. c = [known |-> TRUE, bad |-> b.bad, messages |-> b.messages, events |-> b.events,
           next |-> b.next, seen |-> b.seen, ordinals |-> b.ordinals, last |-> b.last]
    BY <1>1 DEF IsBatch
<1>3. PICK d : d = [b EXCEPT !.bad = TRUE]
    OBVIOUS
<1>4. d = [known |-> b.known, bad |-> TRUE, messages |-> b.messages, events |-> b.events,
           next |-> b.next, seen |-> b.seen, ordinals |-> b.ordinals, last |-> b.last]
    BY <1>3 DEF IsBatch
<1>5. IsBatch(f, c)
    BY <1>2 DEF IsBatch
<1>6. f = "membox" => IsBatch(f, d)
    BY <1>4 DEF IsBatch
<1> QED BY <1>1, <1>2, <1>3, <1>4, <1>5, <1>6

(* Counting the events of a message leaves the rest as it is.              *)
LEMMA OrdinalsRead ==
    ASSUME NEW f, NEW b, IsBatch(f, b), NEW ordinals
    PROVE  LET c == [b EXCEPT !.ordinals = ordinals]
           IN  /\ IsBatch(f, c) /\ c.known = b.known /\ c.bad = b.bad /\ c.messages = b.messages
               /\ c.events = b.events /\ c.next = b.next
<1>1. PICK c : c = [b EXCEPT !.ordinals = ordinals]
    OBVIOUS
<1>2. c = [known |-> b.known, bad |-> b.bad, messages |-> b.messages, events |-> b.events,
           next |-> b.next, seen |-> b.seen, ordinals |-> ordinals, last |-> b.last]
    BY <1>1 DEF IsBatch
<1>3. IsBatch(f, c)
    BY <1>2 DEF IsBatch
<1> QED BY <1>1, <1>2, <1>3

(* What an identified line does to a batch that has not given its id yet,  *)
(* format by format.                                                       *)
LEMMA MemboxLineRead ==
    ASSUME NEW b, IsBatch("membox", b), NEW line,
           IsEvent(line) => line.key # NoKey,
           line.kind = "message" => MessageId("membox", line, b.next) \notin b.seen
    PROVE  LineRead("membox", b, line, MemboxLine(b, line))
<1>0. b.known \in BOOLEAN /\ b.bad \in BOOLEAN
    BY DEF IsBatch
<1>1. CASE b.bad \/ ~IsRecord(line)
    BY <1>1 DEF MemboxLine, LineRead, TakesMessage, TakesEvent, IsEvent, IsRecord, IsBatch
<1>2. CASE ~b.bad /\ line.kind = "session"
    <2>1. MemboxLine(b, line) = [b EXCEPT !.known = TRUE] /\ IsRecord(line) /\ ~IsEvent(line)
        BY <1>2 DEF MemboxLine, IsRecord, IsEvent
    <2> QED BY ZenonT(30), <1>2, <2>1, FlagRead DEF LineRead, TakesMessage, TakesEvent, IsBatch
<1>3. CASE ~b.bad /\ IsRecord(line) /\ line.kind # "session" /\ ~b.known
    <2>1. MemboxLine(b, line) = [b EXCEPT !.bad = TRUE]
        BY <1>3 DEF MemboxLine
    <2> QED BY ZenonT(30), <1>3, <2>1, FlagRead DEF LineRead, TakesMessage, TakesEvent, IsBatch
<1>4. CASE ~b.bad /\ b.known /\ line.kind = "message"
    <2>1. IsRecord(line) /\ ~IsEvent(line)
        BY <1>4 DEF IsRecord, IsEvent
    <2>2. MemboxLine(b, line) = AddMessage(b, MessageId("membox", line, b.next), line)
        <3>1. CASE line.key # NoKey
            BY <1>4, <2>1, <3>1 DEF MemboxLine, MessageId
        <3>2. CASE line.key = NoKey
            <4>1. SynthExternalId(line.text, b.seen) = <<line.text, 1>>
                BY <1>4, <3>2, FirstSynthetic DEF MessageId, IsBatch
            <4> QED BY <1>4, <2>1, <3>2, <4>1 DEF MemboxLine, MessageId
        <3> QED BY <3>1, <3>2
    <2> QED BY <1>0, <1>4, <2>1, <2>2, MessageReads
<1>5. CASE ~b.bad /\ b.known /\ IsEvent(line)
    <2>1. IsRecord(line) /\ line.kind # "session" /\ line.kind # "message"
        BY <1>5 DEF IsRecord, IsEvent
    <2>2. \E ordinals, m : MemboxLine(b, line) =
              AddEvent([b EXCEPT !.ordinals = ordinals], CallId(line), m, line)
        BY <1>5, <2>1 DEF MemboxLine, EventId, CallId
    <2>3. PICK ordinals, m : MemboxLine(b, line) =
              AddEvent([b EXCEPT !.ordinals = ordinals], CallId(line), m, line)
        BY <2>2
    <2>4. PICK counted : counted = [b EXCEPT !.ordinals = ordinals]
        OBVIOUS
    <2>5. /\ IsBatch("membox", counted) /\ counted.known = b.known /\ counted.bad = b.bad
          /\ counted.messages = b.messages /\ counted.events = b.events /\ counted.next = b.next
        BY <2>4, OrdinalsRead
    <2>6. LineRead("membox", counted, line, MemboxLine(b, line))
        BY <1>5, <2>3, <2>4, <2>5, EventReads
    <2>7. TakesMessage(counted, line) = TakesMessage(b, line)
        BY <2>5 DEF TakesMessage
    <2>8. TakesEvent("membox", counted, line) = TakesEvent("membox", b, line)
        BY <2>5 DEF TakesEvent
    <2> QED BY <2>1, <2>5, <2>6, <2>7, <2>8 DEF LineRead
<1>6. CASE ~b.bad /\ b.known /\ line.kind \notin {"session", "message"} /\ ~IsEvent(line)
    <2>1. MemboxLine(b, line) = b
        BY <1>6 DEF MemboxLine
    <2> QED BY <1>0, <1>6, <2>1 DEF LineRead, TakesMessage, TakesEvent
<1> QED BY <1>1, <1>2, <1>3, <1>4, <1>5, <1>6 DEF IsBatch

\* CodexLine reads a line as LineRead says.
LEMMA CodexLineRead ==
    ASSUME NEW b, IsBatch("codex", b), NEW line,
           IsEvent(line) => line.key # NoKey,
           line.kind = "message" => MessageId("codex", line, b.next) \notin b.seen
    PROVE  LineRead("codex", b, line, CodexLine(b, line))
<1>0. b.known \in BOOLEAN /\ b.bad = FALSE
    BY DEF IsBatch
<1>1. CASE line.kind = "session"
    <2>1. CodexLine(b, line) = [b EXCEPT !.known = TRUE] /\ IsRecord(line) /\ ~IsEvent(line)
        BY <1>1 DEF CodexLine, IsRecord, IsEvent
    <2> QED BY ZenonT(30), <1>1, <2>1, FlagRead DEF LineRead, TakesMessage, TakesEvent, IsBatch
<1>2. CASE line.kind # "session" /\ ~b.known
    BY <1>2 DEF CodexLine, LineRead, TakesMessage, TakesEvent, IsBatch
<1>3. CASE b.known /\ line.kind = "message"
    <2>1. IsRecord(line) /\ ~IsEvent(line)
        BY <1>3 DEF IsRecord, IsEvent
    <2>2. SynthExternalId(line.text, b.seen) = <<line.text, 1>>
        BY <1>3, FirstSynthetic DEF MessageId, IsBatch
    <2>3. CodexLine(b, line) = AddMessage(b, MessageId("codex", line, b.next), line)
        BY <1>3, <2>2 DEF CodexLine, MessageId
    <2> QED BY <1>0, <1>3, <2>3, MessageReads
<1>4. CASE b.known /\ IsEvent(line)
    <2>1. IsRecord(line) /\ line.kind # "session" /\ line.kind # "message"
        BY <1>4 DEF IsRecord, IsEvent
    <2>2. CodexLine(b, line) = AddEvent(b, CallId(line), b.last, line)
        BY <1>4, <2>1 DEF CodexLine, EventId, CallId
    <2> QED BY <1>0, <1>4, <2>2, EventReads
<1>5. CASE b.known /\ line.kind \notin {"session", "message"} /\ ~IsEvent(line)
    BY <1>5 DEF CodexLine, LineRead, TakesMessage, TakesEvent, IsBatch
<1> QED BY <1>1, <1>2, <1>3, <1>4, <1>5 DEF IsBatch

\* PiLine reads a line as LineRead says.
LEMMA PiLineRead ==
    ASSUME NEW b, IsBatch("pi", b), NEW line
    PROVE  LineRead("pi", b, line, PiLine(b, line))
<1>0. b.known \in BOOLEAN /\ b.bad = FALSE
    BY DEF IsBatch
<1>1. CASE line.kind = "session"
    <2>1. PiLine(b, line) = [b EXCEPT !.known = TRUE] /\ IsRecord(line)
        BY <1>1 DEF PiLine, IsRecord
    <2> QED BY ZenonT(30), <1>1, <2>1, FlagRead DEF LineRead, TakesMessage, TakesEvent, IsBatch
<1>2. CASE line.kind # "session" /\ (~b.known \/ line.kind # "message")
    BY <1>2 DEF PiLine, LineRead, TakesMessage, TakesEvent, IsBatch
<1>3. CASE b.known /\ line.kind = "message"
    <2>1. PiLine(b, line) = AddMessage(b, MessageId("pi", line, b.next), line)
        BY <1>3 DEF PiLine, MessageId
    <2> QED BY <1>0, <1>3, <2>1, MessageReads
<1> QED BY <1>1, <1>2, <1>3 DEF IsBatch

Readers == {"membox", "codex", "pi"}

(* The same for the three.                                                 *)
LEMMA LineIsRead ==
    ASSUME NEW f \in Readers, NEW b, IsBatch(f, b), NEW line,
           f # "pi" /\ IsEvent(line) => line.key # NoKey,
           line.kind = "message" => MessageId(f, line, b.next) \notin b.seen
    PROVE  LineRead(f, b, line, ReadLine(f, b, line))
<1>1. CASE f = "membox"
    <2>1. ReadLine(f, b, line) = MemboxLine(b, line)
        BY <1>1 DEF ReadLine
    <2> QED BY <1>1, <2>1, MemboxLineRead
<1>2. CASE f = "codex"
    <2>1. ReadLine(f, b, line) = CodexLine(b, line)
        BY <1>2 DEF ReadLine
    <2> QED BY <1>2, <2>1, CodexLineRead
<1>3. CASE f = "pi"
    <2>1. ReadLine(f, b, line) = PiLine(b, line)
        BY <1>3 DEF ReadLine
    <2> QED BY <1>3, <2>1, PiLineRead
<1> QED BY <1>1, <1>2, <1>3 DEF Readers
-----------------------------------------------------------------------------
(* Line after line.                                                        *)

\* The lines of a log without "unkeyed": no record twice, events with an id of their own.
Unrepeated(lines) ==
    \A i, j \in DOMAIN lines : i < j => lines[i] # lines[j] \/ ~IsRecord(lines[j])
Identifies(f, lines) ==
    /\ lines \in Seq(Lines[f])
    /\ Unrepeated(lines)
    /\ f \in {"membox", "codex"} => \A i \in DOMAIN lines : lines[i].key # NoKey \/ ~IsEvent(lines[i])

\* A row of messages, and one of events, comes from one of the first k lines.
MessageOf(f, lines, b, k, x) ==
    \E i \in 1..k : lines[i].kind = "message" /\ x = MessageId(f, lines[i], b.messages[x].seq)
EventOf(lines, k, x) ==
    \E i \in 1..k : IsEvent(lines[i]) /\ x = CallId(lines[i])

\* What a parse has when k lines were read.
Ran(f, lines, b, k) ==
    /\ IsBatch(f, b)
    /\ \A x \in DOMAIN b.messages :
         b.messages[x].seq \in Nat /\ b.messages[x].seq < b.next /\ MessageOf(f, lines, b, k, x)
    /\ \A x, y \in DOMAIN b.messages : b.messages[x].seq = b.messages[y].seq => x = y
    /\ \A x \in DOMAIN b.events : EventOf(lines, k, x)

\* All rows of b are in c as they are.
Extends(b, c) ==
    /\ \A x \in DOMAIN b.messages : x \in DOMAIN c.messages /\ c.messages[x] = b.messages[x]
    /\ \A x \in DOMAIN b.events : x \in DOMAIN c.events /\ c.events[x] = b.events[x]

(* Pairs are equal part by part.                                           *)
LEMMA Pairs == \A a, b, c, d : <<a, b>> = <<c, d>> => a = c /\ b = d
OBVIOUS

(* Two messages with one id are one line: the names that the importers     *)
(* make of a record depend on nothing but the record, or on the seq.       *)
LEMMA OneMessage ==
    ASSUME NEW f \in Readers, f \in Formats, NEW k \in Lines[f], NEW l \in Lines[f],
           k.kind = "message", l.kind = "message",
           NEW m \in Nat, NEW n \in Nat, m # n, MessageId(f, k, m) = MessageId(f, l, n)
    PROVE  k = l
<1>1. CASE f = "codex"
    <2>1. k.text = l.text
        BY <1>1 DEF MessageId
    <2> QED BY <1>1, <2>1, LinesAssumption
<1>2. m + 1 # 0 /\ n + 1 # 0 /\ m + 1 # n + 1
    OBVIOUS
<1>3. CASE f # "codex" /\ k.key # NoKey
    <2>1. MessageId(f, k, m) = <<k.key, 0>>
        BY <1>3 DEF MessageId
    <2>2. CASE l.key # NoKey
        <3>1. MessageId(f, l, n) = <<l.key, 0>>
            BY <1>3, <2>2 DEF MessageId
        <3>2. k.key = l.key
            BY <2>1, <3>1, Pairs
        <3> QED BY <1>3, <3>2, LinesAssumption
    <2>3. CASE l.key = NoKey
        <3>1. MessageId(f, l, n) = <<NoKey, n + 1>> \/ MessageId(f, l, n) = <<l.text, 1>>
            BY <2>3 DEF MessageId
        <3> QED BY <1>2, <2>1, <3>1, Pairs
    <2> QED BY <2>2, <2>3
<1>4. CASE f # "codex" /\ k.key = NoKey
    <2>1. CASE l.key # NoKey
        <3>1. MessageId(f, l, n) = <<l.key, 0>>
            BY <1>4, <2>1 DEF MessageId
        <3>2. MessageId(f, k, m) = <<NoKey, m + 1>> \/ MessageId(f, k, m) = <<k.text, 1>>
            BY <1>4 DEF MessageId
        <3> QED BY <1>2, <3>1, <3>2, Pairs
    <2>2. CASE l.key = NoKey /\ f = "pi"
        <3>1. MessageId(f, l, n) = <<NoKey, n + 1>> /\ MessageId(f, k, m) = <<NoKey, m + 1>>
            BY <1>4, <2>2 DEF MessageId
        <3> QED BY <1>2, <3>1, Pairs
    <2>3. CASE l.key = NoKey /\ f = "membox"
        <3>1. MessageId(f, l, n) = <<l.text, 1>> /\ MessageId(f, k, m) = <<k.text, 1>>
            BY <1>4, <2>3 DEF MessageId
        <3>2. k.text = l.text
            BY <3>1, Pairs
        <3> QED BY <1>4, <2>3, <3>2, LinesAssumption
    <2> QED BY <1>4, <2>1, <2>2, <2>3 DEF Readers
<1> QED BY <1>1, <1>3, <1>4

(* Two events with one id are one line.                                    *)
LEMMA OneEvent ==
    ASSUME NEW f \in Formats, NEW k \in Lines[f], NEW l \in Lines[f],
           IsEvent(k), IsEvent(l), k.key # NoKey, CallId(k) = CallId(l)
    PROVE  k = l
<1>1. k.key = l.key /\ k.kind = l.kind
    BY DEF CallId
<1>2. k.kind \in {"message", "call", "result"}
    BY DEF IsEvent
<1> QED BY <1>1, <1>2, LinesAssumption

(* The next line has an id that the parse has not given.                   *)
LEMMA FreshId ==
    ASSUME NEW f \in Readers, f \in Formats, NEW lines, Identifies(f, lines),
           NEW k \in Nat, k < Len(lines), NEW b, Ran(f, lines, b, k)
    PROVE  /\ lines[k + 1].kind = "message" => MessageId(f, lines[k + 1], b.next) \notin DOMAIN b.messages
           /\ f # "pi" /\ IsEvent(lines[k + 1]) => /\ lines[k + 1].key # NoKey
                                                   /\ CallId(lines[k + 1]) \notin DOMAIN b.events
<1>1. /\ DOMAIN lines = 1..Len(lines) /\ Len(lines) \in Nat
      /\ \A i \in 1..Len(lines) : lines[i] \in Lines[f]
    BY DEF Identifies
<1>2. k + 1 \in DOMAIN lines /\ \A i \in 1..k : i \in DOMAIN lines /\ i < k + 1
    BY <1>1
<1>3. PICK line : line = lines[k + 1]
    OBVIOUS
<1>4. line \in Lines[f] /\ \A i \in 1..k : lines[i] # line \/ ~IsRecord(line)
    BY <1>1, <1>2, <1>3 DEF Identifies, Unrepeated
<1>5. ASSUME line.kind = "message", MessageId(f, line, b.next) \in DOMAIN b.messages
      PROVE  FALSE
    <2>1. PICK x \in DOMAIN b.messages : x = MessageId(f, line, b.next)
        BY <1>5
    <2>2. PICK seq : seq = b.messages[x].seq
        OBVIOUS
    <2>3. seq \in Nat /\ seq < b.next /\ b.next \in Nat /\ MessageOf(f, lines, b, k, x)
        BY <2>2 DEF Ran, IsBatch
    <2>4. PICK i \in 1..k : lines[i].kind = "message" /\ x = MessageId(f, lines[i], seq)
        BY <2>2, <2>3 DEF MessageOf
    <2>5. lines[i] \in Lines[f] /\ seq # b.next
        BY <1>1, <1>2, <2>3
    <2>6. lines[i] = line
        BY <1>4, <1>5, <2>1, <2>3, <2>4, <2>5, OneMessage
    <2>7. IsRecord(line)
        BY <1>5 DEF IsRecord
    <2> QED BY <1>4, <2>6, <2>7
<1>6. ASSUME f # "pi", IsEvent(line)
      PROVE  line.key # NoKey /\ CallId(line) \notin DOMAIN b.events
    <2>1. line.key # NoKey
        BY <1>2, <1>3, <1>6 DEF Identifies, Readers
    <2>2. ASSUME CallId(line) \in DOMAIN b.events PROVE FALSE
        <3>1. PICK i \in 1..k : IsEvent(lines[i]) /\ CallId(line) = CallId(lines[i])
            BY <2>2 DEF Ran, EventOf
        <3>2. lines[i] \in Lines[f]
            BY <1>1, <1>2
        <3>3. line = lines[i]
            BY <1>4, <1>6, <2>1, <3>1, <3>2, OneEvent
        <3>4. IsRecord(line)
            BY <1>6 DEF IsEvent, IsRecord
        <3> QED BY <1>4, <3>3, <3>4
    <2> QED BY <2>1, <2>2
<1> QED BY <1>3, <1>5, <1>6
(* Reading the next line keeps what the parse has and adds to it.          *)
LEMMA RanStep ==
    ASSUME NEW f \in Readers, f \in Formats, NEW lines, Identifies(f, lines),
           NEW k \in Nat, k < Len(lines), NEW b, Ran(f, lines, b, k),
           NEW c, c = ReadLine(f, b, lines[k + 1])
    PROVE  Ran(f, lines, c, k + 1) /\ LineRead(f, b, lines[k + 1], c) /\ Extends(b, c)
<1>1. PICK line : line = lines[k + 1]
    OBVIOUS
<1>2. /\ line.kind = "message" => MessageId(f, line, b.next) \notin DOMAIN b.messages
      /\ f # "pi" /\ IsEvent(line) => line.key # NoKey /\ CallId(line) \notin DOMAIN b.events
    BY <1>1, FreshId
<1>3. IsBatch(f, b) /\ b.seen = DOMAIN b.messages /\ b.next \in Nat
    BY DEF Ran, IsBatch
<1>4. LineRead(f, b, line, c)
    BY <1>1, <1>2, <1>3, LineIsRead
<1>5. 1..k \subseteq 1..(k + 1) /\ k + 1 \in 1..(k + 1)
    OBVIOUS
<1>6. /\ \A x \in DOMAIN c.messages :
           c.messages[x].seq \in Nat /\ c.messages[x].seq < c.next /\ MessageOf(f, lines, c, k + 1, x)
      /\ \A x, y \in DOMAIN c.messages : c.messages[x].seq = c.messages[y].seq => x = y
      /\ \A x \in DOMAIN b.messages : x \in DOMAIN c.messages /\ c.messages[x] = b.messages[x]
    <2>1. CASE TakesMessage(b, line)
        <3>1. PICK id : id = MessageId(f, line, b.next)
            OBVIOUS
        <3>2. id \notin DOMAIN b.messages /\ line.kind = "message"
            BY <1>2, <2>1, <3>1 DEF TakesMessage
        <3>3. c.next = b.next + 1 /\ c.messages = Set(b.messages, id, [text |-> line.text, seq |-> b.next])
            BY <1>4, <2>1, <3>1 DEF LineRead
        <3>4. /\ DOMAIN c.messages = DOMAIN b.messages \cup {id}
              /\ c.messages[id] = [text |-> line.text, seq |-> b.next]
              /\ \A x \in DOMAIN b.messages : c.messages[x] = b.messages[x]
            BY <3>2, <3>3 DEF Set
        <3>5. c.messages[id].seq = b.next
            BY <3>4
        <3>6. ASSUME NEW x \in DOMAIN b.messages
              PROVE  /\ c.messages[x].seq \in Nat /\ c.messages[x].seq < b.next
                     /\ MessageOf(f, lines, c, k + 1, x)
            <4>1. c.messages[x] = b.messages[x] /\ MessageOf(f, lines, b, k, x)
                BY <3>4 DEF Ran
            <4>2. MessageOf(f, lines, c, k + 1, x)
                BY <1>5, <4>1 DEF MessageOf
            <4> QED BY <4>1, <4>2 DEF Ran
        <3>7. MessageOf(f, lines, c, k + 1, id)
            BY <1>1, <1>5, <3>1, <3>2, <3>5 DEF MessageOf
        <3>8. \A x \in DOMAIN c.messages : c.messages[x].seq \in Nat /\ c.messages[x].seq < c.next
            BY <1>3, <3>3, <3>4, <3>5, <3>6
        <3>9. \A x, y \in DOMAIN c.messages : c.messages[x].seq = c.messages[y].seq => x = y
            <4>1. SUFFICES ASSUME NEW x \in DOMAIN c.messages, NEW y \in DOMAIN c.messages,
                                  c.messages[x].seq = c.messages[y].seq
                           PROVE  x = y
                OBVIOUS
            <4>2. CASE x = id \/ y = id
                BY <1>3, <3>4, <3>5, <3>6, <4>1, <4>2
            <4>3. CASE x # id /\ y # id
                BY <3>4, <4>1, <4>3 DEF Ran
            <4> QED BY <4>2, <4>3
        <3> QED BY <3>4, <3>6, <3>7, <3>8, <3>9
    <2>2. CASE ~TakesMessage(b, line)
        <3>1. c.messages = b.messages /\ c.next = b.next
            BY <1>4, <2>2 DEF LineRead
        <3> QED BY <1>5, <3>1 DEF Ran, MessageOf
    <2> QED BY <2>1, <2>2
<1>7. /\ \A x \in DOMAIN c.events : EventOf(lines, k + 1, x)
      /\ \A x \in DOMAIN b.events : x \in DOMAIN c.events /\ c.events[x] = b.events[x]
    <2>1. CASE TakesEvent(f, b, line)
        <3>1. PICK m : c.events = Set(b.events, CallId(line), [text |-> line.text, message |-> m])
            BY <1>4, <2>1 DEF LineRead
        <3>2. CallId(line) \notin DOMAIN b.events /\ IsEvent(line)
            BY <1>2, <2>1 DEF TakesEvent
        <3>3. /\ DOMAIN c.events = DOMAIN b.events \cup {CallId(line)}
              /\ \A x \in DOMAIN b.events : c.events[x] = b.events[x]
            BY <3>1, <3>2 DEF Set
        <3> QED BY <1>1, <1>5, <3>2, <3>3 DEF Ran, EventOf
    <2>2. CASE ~TakesEvent(f, b, line)
        <3>1. c.events = b.events
            BY <1>4, <2>2 DEF LineRead
        <3> QED BY <1>5, <3>1 DEF Ran, EventOf
    <2> QED BY <2>1, <2>2
<1>8. IsBatch(f, c)
    BY <1>4 DEF LineRead
<1> QED BY <1>1, <1>4, <1>6, <1>7, <1>8 DEF Ran, Extends

(* What holds of m and goes from each number to the next holds up to n.    *)
LEMMA UpTo ==
    ASSUME NEW m \in Nat, NEW n \in Nat, NEW T, m \in T, \A k \in m..(n - 1) : k \in T => k + 1 \in T
    PROVE  m..n \subseteq T
<1> DEFINE out == (m..n) \ T
<1>1. SUFFICES ASSUME out # {} PROVE FALSE
    OBVIOUS
<1>2. out \in SUBSET Nat
    OBVIOUS
<1>3. PICK k \in out : \A j \in out : k <= j
    <2> HIDE DEF out
    <2> QED BY <1>1, <1>2, LeastNat
<1>4. k \in m..n /\ k \notin T /\ k # m
    OBVIOUS
<1>5. k - 1 \in m..(n - 1) /\ k - 1 + 1 = k /\ k - 1 \in m..n /\ ~(k <= k - 1)
    BY <1>4
<1>6. k - 1 \in T
    <2> HIDE DEF out
    <2>1. k - 1 \notin out
        BY <1>3, <1>5
    <2> QED BY <1>5, <2>1 DEF out
<1> QED BY <1>4, <1>5, <1>6

(* Reading no line, and one more.                                          *)
LEMMA ReadsNone ==
    ASSUME NEW f, NEW b, NEW lines, NEW k \in Nat
    PROVE  Reads(f, b, lines, k, k) = b
<1>1. SubSeq(lines, k + 1, k) = <<>>
    OBVIOUS
<1> QED BY <1>1, ReadNothing DEF Reads

\* Reading one line more is reading it after the others.
LEMMA ReadsNext ==
    ASSUME NEW f, NEW b, NEW S, NEW lines \in Seq(S), NEW k \in Nat, NEW m \in Nat, k <= m, m < Len(lines)
    PROVE  Reads(f, b, lines, k, m + 1) = ReadLine(f, Reads(f, b, lines, k, m), lines[m + 1])
<1>1. PICK s : s = SubSeq(lines, k + 1, m)
    OBVIOUS
<1>2. PICK t : t = SubSeq(lines, k + 1, m + 1)
    OBVIOUS
<1>3. PICK n : n = m - k
    OBVIOUS
<1>4. n \in Nat /\ n + 1 \in Nat /\ k + (n + 1) = m + 1 /\ n + 1 = (m + 1) - k
    BY <1>3
<1>5. DOMAIN s = 1..n /\ \A i \in 1..n : s[i] = lines[k + i]
    BY <1>1, <1>3
<1>6. DOMAIN t = 1..(n + 1) /\ \A i \in 1..(n + 1) : t[i] = lines[k + i]
    BY <1>2, <1>3
<1>7. \A i \in 1..n : t[i] = s[i]
    BY <1>4, <1>5, <1>6
<1>8. t[n + 1] = lines[m + 1]
    BY <1>4, <1>6
<1>9. ReadAll(f, b, t) = ReadLine(f, ReadAll(f, b, s), t[n + 1])
    BY <1>4, <1>5, <1>6, <1>7, ReadLonger
<1> QED BY <1>1, <1>2, <1>8, <1>9 DEF Reads
-----------------------------------------------------------------------------
(* From one line to all.                                                   *)

\* A parse that has read nothing.
LEMMA BatchRan ==
    ASSUME NEW f, NEW lines, NEW known \in BOOLEAN, NEW seq \in Nat, NEW k
    PROVE  Ran(f, lines, Batch(known, seq), k)
<1>1. PICK b : b = Batch(known, seq)
    OBVIOUS
<1>2. b = [known |-> known, bad |-> FALSE, messages |-> Empty, events |-> Empty,
           next |-> seq, seen |-> {}, ordinals |-> Empty, last |-> NoMessage]
    BY <1>1 DEF Batch
<1>3. DOMAIN Empty = {} /\ IsFcn(Empty) /\ IsFiniteSet({})
    BY FS_EmptySet DEF Empty, IsFcn
<1>4. IsBatch(f, b)
    BY <1>2, <1>3 DEF IsBatch
<1>5. DOMAIN b.messages = {} /\ DOMAIN b.events = {}
    BY <1>2, <1>3
<1> QED BY <1>1, <1>4, <1>5 DEF Ran

(* A parse keeps its account of the lines it has read.                     *)
LEMMA RanAll ==
    ASSUME NEW f \in Readers, f \in Formats, NEW lines, Identifies(f, lines),
           NEW k \in Nat, NEW b, Ran(f, lines, b, k),
           NEW m \in k..Len(lines)
    PROVE  Ran(f, lines, Reads(f, b, lines, k, m), m)
<1> DEFINE done == {i \in Nat : Ran(f, lines, Reads(f, b, lines, k, i), i)}
<1>1. lines \in Seq(Lines[f]) /\ Len(lines) \in Nat /\ m \in Nat
    BY DEF Identifies
<1>2. k \in done
    BY ReadsNone
<1>3. ASSUME NEW i \in k..(Len(lines) - 1), i \in done PROVE i + 1 \in done
    <2>1. i \in Nat /\ k <= i /\ i < Len(lines) /\ i + 1 \in Nat
        BY <1>1, <1>3
    <2>2. Ran(f, lines, Reads(f, b, lines, k, i), i)
        BY <1>3
    <2> HIDE DEF done
    <2>3. Reads(f, b, lines, k, i + 1) = ReadLine(f, Reads(f, b, lines, k, i), lines[i + 1])
        BY <1>1, <2>1, ReadsNext
    <2>4. Ran(f, lines, Reads(f, b, lines, k, i + 1), i + 1)
        BY <2>1, <2>2, <2>3, RanStep
    <2> QED BY <2>1, <2>4 DEF done
<1>4. k..Len(lines) \subseteq done
    <2> HIDE DEF done
    <2> QED BY <1>1, <1>2, <1>3, UpTo
<1> QED BY <1>4

(* The account of the parse that began with the log.                       *)
LEMMA WholeRan ==
    ASSUME NEW f \in Readers, f \in Formats, NEW lines, Identifies(f, lines), NEW m \in 0..Len(lines)
    PROVE  Ran(f, lines, Whole(f, lines, m), m)
BY BatchRan, RanAll DEF Whole

(* One more line of it.                                                    *)
LEMMA WholeNext ==
    ASSUME NEW f \in Readers, f \in Formats, NEW lines, Identifies(f, lines),
           NEW m \in Nat, m < Len(lines)
    PROVE  /\ Whole(f, lines, m + 1) = ReadLine(f, Whole(f, lines, m), lines[m + 1])
           /\ Ran(f, lines, Whole(f, lines, m), m)
           /\ LineRead(f, Whole(f, lines, m), lines[m + 1], Whole(f, lines, m + 1))
           /\ Extends(Whole(f, lines, m), Whole(f, lines, m + 1))
<1>1. lines \in Seq(Lines[f]) /\ Len(lines) \in Nat /\ m \in 0..Len(lines)
    BY DEF Identifies
<1>2. Whole(f, lines, m + 1) = ReadLine(f, Whole(f, lines, m), lines[m + 1])
    <2>1. PICK b : b = Batch(FALSE, 0)
        OBVIOUS
    <2>2. 0 \in Nat /\ 0 <= m
        OBVIOUS
    <2>3. Reads(f, b, lines, 0, m + 1) = ReadLine(f, Reads(f, b, lines, 0, m), lines[m + 1])
        BY <1>1, <2>2, ReadsNext
    <2> QED BY <2>1, <2>3 DEF Whole
<1>3. Ran(f, lines, Whole(f, lines, m), m)
    BY <1>1, WholeRan
<1> QED BY <1>2, <1>3, RanStep

(* What it has it keeps, and lines that are no records change nothing.     *)
LEMMA WholeExtends ==
    ASSUME NEW f \in Readers, f \in Formats, NEW lines, Identifies(f, lines),
           NEW k \in Nat, NEW m \in k..Len(lines)
    PROVE  /\ Extends(Whole(f, lines, k), Whole(f, lines, m))
           /\ (\A i \in DOMAIN lines : i > k => ~IsRecord(lines[i]))
              => Whole(f, lines, m) = Whole(f, lines, k)
<1> DEFINE quiet == \A i \in DOMAIN lines : i > k => ~IsRecord(lines[i])
           Good(i) == /\ Extends(Whole(f, lines, k), Whole(f, lines, i))
                      /\ quiet => Whole(f, lines, i) = Whole(f, lines, k)
           done == {i \in Nat : Good(i)}
<1>1. Len(lines) \in Nat /\ m \in Nat /\ DOMAIN lines = 1..Len(lines)
    BY DEF Identifies
<1>2. k \in done
    BY DEF Extends
<1>3. ASSUME NEW i \in k..(Len(lines) - 1), i \in done PROVE i + 1 \in done
    <2>1. i \in Nat /\ i < Len(lines) /\ i + 1 \in DOMAIN lines /\ i + 1 > k
        BY <1>1, <1>3
    <2>2. Good(i)
        BY <1>3
    <2>3. /\ LineRead(f, Whole(f, lines, i), lines[i + 1], Whole(f, lines, i + 1))
          /\ Extends(Whole(f, lines, i), Whole(f, lines, i + 1))
        BY <2>1, WholeNext
    <2>4. Extends(Whole(f, lines, k), Whole(f, lines, i + 1))
        BY <2>2, <2>3 DEF Extends
    <2>5. quiet => Whole(f, lines, i + 1) = Whole(f, lines, k)
        BY <2>1, <2>2, <2>3 DEF LineRead
    <2> HIDE DEF quiet
    <2> QED BY <2>1, <2>4, <2>5
<1>4. k..Len(lines) \subseteq done
    <2> HIDE DEF done
    <2> QED BY <1>1, <1>2, <1>3, UpTo
<1> QED BY <1>4

\* A parse that resumed after pre knows as much as one that read all, and has the rest of it.
Continues(pre, whole, rest) ==
    /\ whole.next = rest.next /\ whole.known /\ rest.known /\ ~whole.bad /\ ~rest.bad
    /\ \A x \in DOMAIN rest.messages :
         x \in DOMAIN whole.messages /\ whole.messages[x] = rest.messages[x]
    /\ \A x \in DOMAIN rest.events :
         x \in DOMAIN whole.events /\ whole.events[x].text = rest.events[x].text
    /\ DOMAIN whole.messages \subseteq DOMAIN pre.messages \cup DOMAIN rest.messages
    /\ DOMAIN whole.events \subseteq DOMAIN pre.events \cup DOMAIN rest.events

(* It stays so with the next line: an event may get another message, but   *)
(* no other id.                                                            *)
LEMMA ContinuesStep ==
    ASSUME NEW f \in Readers, NEW line, NEW pre, NEW w, NEW r, Continues(pre, w, r),
           IsBatch(f, w), IsBatch(f, r),
           NEW v, LineRead(f, w, line, v), NEW s, LineRead(f, r, line, s)
    PROVE  Continues(pre, v, s)
<1>1. TakesMessage(w, line) <=> TakesMessage(r, line)
    BY DEF TakesMessage, Continues
<1>2. TakesEvent(f, w, line) <=> TakesEvent(f, r, line)
    BY DEF TakesEvent, Continues
<1>3. w.known = TRUE /\ w.bad = FALSE /\ r.known = TRUE /\ r.bad = FALSE
    BY DEF Continues, IsBatch
<1>4. v.known /\ s.known /\ ~v.bad /\ ~s.bad
    BY <1>3 DEF LineRead
<1>5. v.next = s.next
    BY <1>1 DEF Continues, LineRead
<1>6. /\ \A x \in DOMAIN s.messages : x \in DOMAIN v.messages /\ v.messages[x] = s.messages[x]
      /\ DOMAIN v.messages \subseteq DOMAIN pre.messages \cup DOMAIN s.messages
    <2>1. CASE TakesMessage(w, line)
        <3>1. PICK id, row : id = MessageId(f, line, w.next) /\ row = [text |-> line.text, seq |-> w.next]
            OBVIOUS
        <3>2. v.messages = Set(w.messages, id, row) /\ s.messages = Set(r.messages, id, row)
            BY <1>1, <2>1, <3>1 DEF LineRead, Continues
        <3> QED BY <3>2 DEF Set, Continues
    <2>2. CASE ~TakesMessage(w, line)
        BY <1>1, <2>2 DEF LineRead, Continues
    <2> QED BY <2>1, <2>2
<1>7. /\ \A x \in DOMAIN s.events : x \in DOMAIN v.events /\ v.events[x].text = s.events[x].text
      /\ DOMAIN v.events \subseteq DOMAIN pre.events \cup DOMAIN s.events
    <2>1. CASE TakesEvent(f, w, line)
        <3>1. PICK m, n : /\ v.events = Set(w.events, CallId(line), [text |-> line.text, message |-> m])
                          /\ s.events = Set(r.events, CallId(line), [text |-> line.text, message |-> n])
            BY <1>2, <2>1 DEF LineRead
        <3>2. PICK row, also : /\ row = [text |-> line.text, message |-> m]
                               /\ also = [text |-> line.text, message |-> n]
            OBVIOUS
        <3>3. row.text = also.text
            BY <3>2
        <3>4. v.events = Set(w.events, CallId(line), row) /\ s.events = Set(r.events, CallId(line), also)
            BY <3>1, <3>2
        <3> QED BY <3>3, <3>4 DEF Set, Continues
    <2>2. CASE ~TakesEvent(f, w, line)
        BY <1>2, <2>2 DEF LineRead, Continues
    <2> QED BY <2>1, <2>2
<1> QED BY <1>4, <1>5, <1>6, <1>7 DEF Continues

(* Where a parse resumes does not matter.                                  *)
LEMMA ContinuesAll ==
    ASSUME NEW f \in Readers, f \in Formats, NEW lines, Identifies(f, lines),
           NEW k \in Nat, NEW m \in k..Len(lines), Whole(f, lines, k).known, ~Whole(f, lines, k).bad
    PROVE  Continues(Whole(f, lines, k), Whole(f, lines, m),
                     Reads(f, Batch(TRUE, Whole(f, lines, k).next), lines, k, m))
<1> DEFINE pre == Whole(f, lines, k)
           Rest(i) == Reads(f, Batch(TRUE, pre.next), lines, k, i)
           done == {i \in Nat : Continues(pre, Whole(f, lines, i), Rest(i))}
<1>1. lines \in Seq(Lines[f]) /\ Len(lines) \in Nat /\ m \in Nat /\ k \in 0..Len(lines)
    BY DEF Identifies
<1>2. pre.next \in Nat
    BY <1>1, WholeRan DEF Ran, IsBatch
<1>3. k \in done
    <2>1. Rest(k) = Batch(TRUE, pre.next)
        BY ReadsNone
    <2>2. DOMAIN Empty = {}
        BY DEF Empty
    <2>3. PICK b : b = Batch(TRUE, pre.next)
        OBVIOUS
    <2>4. b.known /\ ~b.bad /\ b.next = pre.next /\ DOMAIN b.messages = {} /\ DOMAIN b.events = {}
        BY <2>2, <2>3 DEF Batch
    <2>5. Continues(pre, pre, b)
        BY <2>4 DEF Continues
    <2> QED BY <2>1, <2>3, <2>5
<1>4. ASSUME NEW i \in k..(Len(lines) - 1), i \in done PROVE i + 1 \in done
    <2>1. i \in Nat /\ k <= i /\ i < Len(lines) /\ i + 1 \in Nat /\ i \in k..Len(lines)
        BY <1>1, <1>4
    <2>2. Continues(pre, Whole(f, lines, i), Rest(i))
        BY <1>4
    <2>3. /\ Ran(f, lines, Whole(f, lines, i), i)
          /\ LineRead(f, Whole(f, lines, i), lines[i + 1], Whole(f, lines, i + 1))
        BY <2>1, WholeNext
    <2>4. Ran(f, lines, Rest(i), i)
        BY <1>2, <2>1, BatchRan, RanAll
    <2>5. Rest(i + 1) = ReadLine(f, Rest(i), lines[i + 1])
        <3>1. PICK b : b = Batch(TRUE, pre.next)
            OBVIOUS
        <3>2. Reads(f, b, lines, k, i + 1) = ReadLine(f, Reads(f, b, lines, k, i), lines[i + 1])
            BY <1>1, <2>1, ReadsNext
        <3> QED BY <3>1, <3>2
    <2> HIDE DEF Rest, pre, done
    <2>6. LineRead(f, Rest(i), lines[i + 1], Rest(i + 1))
        BY <2>1, <2>4, <2>5, RanStep
    <2>7. Continues(pre, Whole(f, lines, i + 1), Rest(i + 1))
        BY <2>2, <2>3, <2>4, <2>6, ContinuesStep DEF Ran
    <2> QED BY <2>1, <2>7 DEF done
<1>5. k..Len(lines) \subseteq done
    <2> HIDE DEF done
    <2> QED BY <1>1, <1>3, <1>4, UpTo
<1> QED BY <1>5

(* A line that is added leaves the parses of the others alone.             *)
LEMMA WholeAppend ==
    ASSUME NEW f, NEW lines, NEW S, lines \in Seq(S), NEW line \in S, NEW k \in 0..Len(lines)
    PROVE  Whole(f, Append(lines, line), k) = Whole(f, lines, k)
<1>1. SubSeq(Append(lines, line), 0 + 1, k) = SubSeq(lines, 0 + 1, k)
    OBVIOUS
<1> QED BY <1>1 DEF Whole, Reads
-----------------------------------------------------------------------------
(* The invariant.                                                          *)

Sequential == Formats \subseteq Readers
Keyed == "unkeyed" \notin Env

\* The log as it is.
Source == [fmt |-> fmt, log |-> log, gen |-> gen, size |-> Size]
SourceOK(F) ==
    /\ F.fmt \in Formats /\ F.fmt \in Readers
    /\ Identifies(F.fmt, F.log)
    /\ F.gen \in Nat /\ F.size \in Nat /\ 2 * Len(F.log) <= F.size /\ F.size <= 2 * Len(F.log) + 1

Prefix(F, k) == Whole(F.fmt, F.log, k)
Before(F, offset) == Prefix(F, offset \div 2)
Final(F) == Prefix(F, Len(F.log))
\* No record follows the first k lines.
NoneAfter(F, k) == \A i \in DOMAIN F.log : i > k => ~IsRecord(F.log[i])

\* An offset at which a parse of the log ended a line and numbered the next message.
Reached(F, offset, next) ==
    \E k \in 0..Len(F.log) : /\ offset = 2 * k
                             /\ Prefix(F, k).known /\ ~Prefix(F, k).bad /\ Prefix(F, k).next = next

\* All rows are stored, or will be with new ones.
Covered(rows, kept, new) ==
    \A x \in DOMAIN rows : x \in DOMAIN new \/ (x \in DOMAIN kept /\ kept[x].text = rows[x].text)

Same(new, rows) == \A x \in DOMAIN new : x \in DOMAIN rows /\ new[x] = rows[x]
SameText(new, rows) == \A x \in DOMAIN new : x \in DOMAIN rows /\ new[x].text = rows[x].text

\* A stat was taken of the log as it is, or as it was.
StatOK(F, stat) == /\ stat = [mtime |-> stat.mtime, size |-> stat.size]
                   /\ stat.mtime \in 0..F.gen /\ stat.size \in Nat
                   /\ stat.mtime = F.gen => stat.size <= F.size

\* Who took the stat of the log as it is has read all of it.
MeasuredAll(F, stat, offset) ==
    stat.mtime = F.gen /\ stat.size = F.size => NoneAfter(F, offset \div 2)

\* An import may resume here: all before it is in the tables.
Resumes(F, offset, next, ms, es) ==
    /\ Reached(F, offset, next)
    /\ Covered(Before(F, offset).messages, ms, Empty)
    /\ Covered(Before(F, offset).events, es, Empty)

StateOK(F, st, ms, es) ==
    st # None =>
        /\ st = [kind |-> "state", stat |-> st.stat, offset |-> st.offset,
                 next |-> st.next, gen |-> st.gen]
        /\ StatOK(F, st.stat) /\ st.gen \in 0..F.gen /\ st.stat.mtime <= st.gen
        /\ st.offset \in Nat /\ st.next \in Nat
        /\ st.gen = F.gen => Resumes(F, st.offset, st.next, ms, es) /\ MeasuredAll(F, st.stat, st.offset)

\* An importer that will parse starts anew, or where the state said.
ResumeOK(F, j, ms, es) ==
    \/ j.offset = 0 /\ j.known = FALSE /\ j.seq = 0
    \/ /\ j.offset \in Nat /\ j.offset > 0 /\ j.known = TRUE /\ j.gen \in 0..F.gen
       /\ j.gen = F.gen => Resumes(F, j.offset, j.seq, ms, es)

IsJob(j) == j = [stat |-> j.stat, offset |-> j.offset, known |-> j.known, seq |-> j.seq,
                 gen |-> j.gen, batch |-> j.batch]
IsParsed(b) == b = [bad |-> b.bad, messages |-> b.messages, events |-> b.events, next |-> b.next]

\* What was parsed are rows of the log as it is, and with the tables all before its offset.
BatchOK(F, at, j, ms, es) ==
    /\ j.gen = F.gen /\ IsParsed(j.batch)
    /\ Reached(F, j.offset, j.batch.next)
    /\ MeasuredAll(F, j.stat, j.offset)
    /\ Same(j.batch.messages, Final(F).messages)
    /\ SameText(j.batch.events, Final(F).events)
    /\ Covered(Before(F, j.offset).messages, ms,
               IF at \in {"session", "messages"} THEN j.batch.messages ELSE Empty)
    /\ Covered(Before(F, j.offset).events, es, IF at # "state" THEN j.batch.events ELSE Empty)

\* An importer at a place of import_history, with what it has read.
StageOK(F, at, j, ms, es) ==
    /\ at \in {"idle", "decide", "parse", "session", "messages", "events", "state"}
    /\ at # "idle" => StatOK(F, j.stat)
    /\ at # "idle" => IsJob(j)
    /\ at = "decide" => j.offset = 0 /\ j.known = FALSE /\ j.seq = 0
    /\ at = "parse" => ResumeOK(F, j, ms, es)
    /\ at \in Parsed => BatchOK(F, at, j, ms, es)

\* Of a log never replaced, the tables hold nothing but its rows.
OnlyItsRows(F, ms, es) ==
    F.gen = 0 => Same(ms, Final(F).messages) /\ SameText(es, Final(F).events)

Shapes == /\ half \in BOOLEAN /\ mixed \in BOOLEAN /\ IsFcn(messages) /\ IsFcn(events)
          /\ DOMAIN pc = Procs /\ IsFcn(job) /\ DOMAIN job = Procs

ImportInv ==
    /\ SourceOK(Source) /\ Shapes
    /\ OnlyItsRows(Source, messages, events)
    /\ gen = 0 => ~mixed
    /\ ~mixed => /\ StateOK(Source, state, messages, events)
                 /\ \A p \in Procs : StageOK(Source, pc[p], job[p], messages, events)
-----------------------------------------------------------------------------
(* What the parts of the invariant withstand.                              *)

\* An offset of k lines stands for k lines.
LEMMA Halved == \A k \in Nat : (2 * k) \div 2 = k
OBVIOUS

(* What was read before an offset is what was read of some lines, and all  *)
(* lines have it.                                                          *)
LEMMA BeforeReached ==
    ASSUME NEW F, SourceOK(F), NEW o, NEW n, Reached(F, o, n)
    PROVE  \E k \in 0..Len(F.log) :
              /\ o = 2 * k /\ o \div 2 = k /\ Before(F, o) = Prefix(F, k) /\ Prefix(F, k).next = n
              /\ Prefix(F, k).known /\ ~Prefix(F, k).bad
              /\ Extends(Before(F, o), Final(F))
              /\ NoneAfter(F, k) => Before(F, o) = Final(F)
<1>1. PICK k \in 0..Len(F.log) : /\ o = 2 * k /\ Prefix(F, k).known /\ ~Prefix(F, k).bad
                                 /\ Prefix(F, k).next = n
    BY DEF Reached
<1>2. Len(F.log) \in Nat /\ k \in Nat /\ Len(F.log) \in k..Len(F.log)
    BY DEF SourceOK, Identifies
<1>3. o \div 2 = k
    BY <1>1, <1>2, Halved
<1>4. Extends(Prefix(F, k), Final(F)) /\ (NoneAfter(F, k) => Final(F) = Prefix(F, k))
    BY <1>2, WholeExtends DEF SourceOK, Prefix, Final, NoneAfter
<1> QED BY <1>1, <1>3, <1>4 DEF Before

\* Rows are kept, with their texts or those that the log has for them.
Improves(old, new, rows) ==
    \A x \in DOMAIN old :
       x \in DOMAIN new /\ (new[x].text = old[x].text \/ (x \in DOMAIN rows /\ new[x].text = rows[x].text))

\* What was covered stays covered.
LEMMA CoveredImproves ==
    ASSUME NEW rows, NEW kept, NEW more, NEW new, NEW final,
           Covered(rows, kept, new), Improves(kept, more, final),
           \A x \in DOMAIN rows : x \in DOMAIN final /\ final[x] = rows[x]
    PROVE  Covered(rows, more, new)
BY DEF Covered, Improves

\* Where an import may resume, it still may.
LEMMA ResumesImproves ==
    ASSUME NEW F, SourceOK(F), NEW o, NEW n, NEW ms, NEW es, NEW ns, NEW fs,
           Improves(ms, ns, Final(F).messages), Improves(es, fs, Final(F).events),
           Resumes(F, o, n, ms, es)
    PROVE  Resumes(F, o, n, ns, fs)
<1>1. Extends(Before(F, o), Final(F))
    BY BeforeReached DEF Resumes
<1> QED BY <1>1, CoveredImproves DEF Resumes, Extends

\* So with the import state.
LEMMA StateImproves ==
    ASSUME NEW F, SourceOK(F), NEW st, NEW ms, NEW es, NEW ns, NEW fs,
           Improves(ms, ns, Final(F).messages), Improves(es, fs, Final(F).events),
           StateOK(F, st, ms, es)
    PROVE  StateOK(F, st, ns, fs)
BY ResumesImproves DEF StateOK

\* So with what an importer has read.
LEMMA StageImproves ==
    ASSUME NEW F, SourceOK(F), NEW at, NEW j, NEW ms, NEW es, NEW ns, NEW fs,
           Improves(ms, ns, Final(F).messages), Improves(es, fs, Final(F).events),
           StageOK(F, at, j, ms, es)
    PROVE  StageOK(F, at, j, ns, fs)
<1>1. ResumeOK(F, j, ms, es) => ResumeOK(F, j, ns, fs)
    BY ResumesImproves DEF ResumeOK
<1>2. BatchOK(F, at, j, ms, es) => BatchOK(F, at, j, ns, fs)
    <2>1. SUFFICES ASSUME BatchOK(F, at, j, ms, es) PROVE BatchOK(F, at, j, ns, fs)
        OBVIOUS
    <2>2. Extends(Before(F, j.offset), Final(F))
        BY <2>1, BeforeReached DEF BatchOK
    <2>3. PICK new : new = IF at \in {"session", "messages"} THEN j.batch.messages ELSE Empty
        OBVIOUS
    <2>4. PICK also : also = IF at # "state" THEN j.batch.events ELSE Empty
        OBVIOUS
    <2>5. Covered(Before(F, j.offset).messages, ms, new) /\ Covered(Before(F, j.offset).events, es, also)
        BY <2>1, <2>3, <2>4 DEF BatchOK
    <2>6. Covered(Before(F, j.offset).messages, ns, new) /\ Covered(Before(F, j.offset).events, fs, also)
        BY <2>2, <2>5, CoveredImproves DEF Extends
    <2> QED BY <2>1, <2>3, <2>4, <2>6 DEF BatchOK
<1> QED BY <1>1, <1>2 DEF StageOK

\* G is F with a line more, or half a line.
Grew(F, G) ==
    /\ G.fmt = F.fmt /\ G.gen = F.gen /\ F.size < G.size /\ Len(F.log) <= Len(G.log)
    /\ \A k \in 0..Len(F.log) : Prefix(G, k) = Prefix(F, k)

\* An offset reached stays reached, with the same lines before it.
LEMMA ReachedGrows ==
    ASSUME NEW F, SourceOK(F), NEW G, SourceOK(G), Grew(F, G), NEW o, NEW n, Reached(F, o, n)
    PROVE  Reached(G, o, n) /\ Before(G, o) = Before(F, o)
<1>1. PICK k \in 0..Len(F.log) : o = 2 * k /\ o \div 2 = k /\ Before(F, o) = Prefix(F, k)
                              /\ Prefix(F, k).next = n /\ Prefix(F, k).known /\ ~Prefix(F, k).bad
    BY BeforeReached
<1>2. k \in 0..Len(G.log) /\ Prefix(G, k) = Prefix(F, k)
    BY <1>1 DEF Grew, SourceOK, Identifies
<1> QED BY <1>1, <1>2 DEF Reached, Before

(* All rows of the log stay rows of it.                                    *)
LEMMA FinalGrows ==
    ASSUME NEW F, SourceOK(F), NEW G, SourceOK(G), Grew(F, G)
    PROVE  Extends(Final(F), Final(G))
<1>1. Len(F.log) \in Nat /\ Len(G.log) \in Len(F.log)..Len(G.log)
    BY DEF SourceOK, Identifies, Grew
<1>2. Extends(Prefix(G, Len(F.log)), Final(G))
    BY <1>1, WholeExtends DEF SourceOK, Prefix, Final
<1>3. Prefix(G, Len(F.log)) = Final(F)
    BY <1>1 DEF Grew, Final
<1> QED BY <1>2, <1>3

\* The new line shows in the size: nobody has measured it.
LEMMA StatGrows ==
    ASSUME NEW F, SourceOK(F), NEW G, SourceOK(G), Grew(F, G), NEW stat, StatOK(F, stat), NEW o
    PROVE  StatOK(G, stat) /\ MeasuredAll(G, stat, o)
BY DEF Grew, StatOK, MeasuredAll, SourceOK

\* The import state of a log that grows.
LEMMA StateGrows ==
    ASSUME NEW F, SourceOK(F), NEW G, SourceOK(G), Grew(F, G), NEW st, NEW ms, NEW es,
           StateOK(F, st, ms, es)
    PROVE  StateOK(G, st, ms, es)
<1>1. SUFFICES ASSUME st # None PROVE StateOK(G, st, ms, es)
    BY DEF StateOK
<1>2. StatOK(F, st.stat) /\ G.gen = F.gen
    BY <1>1 DEF StateOK, Grew
<1>3. StatOK(G, st.stat) /\ MeasuredAll(G, st.stat, st.offset)
    BY <1>2, StatGrows
<1>4. Resumes(F, st.offset, st.next, ms, es) => Resumes(G, st.offset, st.next, ms, es)
    BY ReachedGrows DEF Resumes
<1> QED BY <1>1, <1>2, <1>3, <1>4 DEF StateOK

\* An importer of a log that grows.
LEMMA StageGrows ==
    ASSUME NEW F, SourceOK(F), NEW G, SourceOK(G), Grew(F, G), NEW at, NEW j, NEW ms, NEW es,
           StageOK(F, at, j, ms, es)
    PROVE  StageOK(G, at, j, ms, es)
<1>1. G.gen = F.gen
    BY DEF Grew
<1>2. at # "idle" => StatOK(G, j.stat) /\ MeasuredAll(G, j.stat, j.offset)
    BY StatGrows DEF StageOK
<1>3. ResumeOK(F, j, ms, es) => ResumeOK(G, j, ms, es)
    BY <1>1, ReachedGrows DEF ResumeOK, Resumes
<1>4. BatchOK(F, at, j, ms, es) /\ MeasuredAll(G, j.stat, j.offset) => BatchOK(G, at, j, ms, es)
    <2>1. SUFFICES ASSUME BatchOK(F, at, j, ms, es), MeasuredAll(G, j.stat, j.offset)
                   PROVE  BatchOK(G, at, j, ms, es)
        OBVIOUS
    <2>2. Reached(G, j.offset, j.batch.next) /\ Before(G, j.offset) = Before(F, j.offset)
        BY <2>1, ReachedGrows DEF BatchOK
    <2>3. Extends(Final(F), Final(G))
        BY FinalGrows
    <2>4. Same(j.batch.messages, Final(G).messages)
        BY <2>1, <2>3 DEF BatchOK, Same, Extends
    <2>5. SameText(j.batch.events, Final(G).events)
        BY <2>1, <2>3 DEF BatchOK, SameText, Extends
    <2> QED BY <1>1, <2>1, <2>2, <2>4, <2>5 DEF BatchOK
<1>5. "idle" \notin Parsed
    BY DEF Parsed
<1> QED BY <1>1, <1>2, <1>3, <1>4, <1>5 DEF StageOK

(* When the log is replaced, what was measured of it no longer counts.     *)
LEMMA StateReplaced ==
    ASSUME NEW F, SourceOK(F), NEW G, G.gen = F.gen + 1, NEW st, NEW ms, NEW es,
           StateOK(F, st, ms, es)
    PROVE  StateOK(G, st, ms, es)
<1>1. F.gen \in Nat /\ \A g \in 0..F.gen : g \in 0..G.gen /\ g # G.gen
    BY DEF SourceOK
<1> QED BY <1>1 DEF StateOK, StatOK

\* An importer that has not parsed yet starts where the old log was read to.
LEMMA StageReplaced ==
    ASSUME NEW F, SourceOK(F), NEW G, G.gen = F.gen + 1, NEW at, NEW j, NEW ms, NEW es,
           StageOK(F, at, j, ms, es), at \notin Parsed
    PROVE  StageOK(G, at, j, ms, es)
<1>1. F.gen \in Nat /\ \A g \in 0..F.gen : g \in 0..G.gen /\ g # G.gen
    BY DEF SourceOK
<1>2. at # "idle" => StatOK(G, j.stat)
    BY <1>1 DEF StageOK, StatOK
<1>3. at = "parse" => ResumeOK(G, j, ms, es)
    BY <1>1 DEF StageOK, ResumeOK
<1> QED BY <1>2, <1>3 DEF StageOK
-----------------------------------------------------------------------------
(* Parsing the log from an offset.                                         *)

\* b is what a parse reports that has read r.
Reports(r, b) == /\ b.bad = (r.bad \/ ~r.known)
                 /\ b.messages = r.messages /\ b.events = r.events /\ b.next = r.next

\* Parse reports what ReadAll has read: Readers take the lines as they are.
LEMMA ParseIs ==
    ASSUME fmt \in Readers, NEW lines, NEW known, NEW seq
    PROVE  Reports(ReadAll(fmt, Batch(known, seq), lines), Parse(lines, known, seq))
<1> DEFINE r == ReadAll(fmt, Batch(known, seq), lines)
           b == Parse(lines, known, seq)
<1>1. InReadingOrder(lines) = lines
    BY DEF InReadingOrder, Readers
<1>2. PICK flag : flag = (r.bad \/ ~r.known)
    OBVIOUS
<1>3. Parse(lines, known, seq) = [bad |-> r.bad \/ ~r.known, messages |-> r.messages,
                                  events |-> r.events, next |-> r.next]
    BY <1>1 DEF Parse, ReadAll
<1>4. b = [bad |-> flag, messages |-> r.messages, events |-> r.events, next |-> r.next]
    BY <1>2, <1>3
<1> HIDE DEF r, b
<1>5. Reports(r, b)
    BY <1>2, <1>4 DEF Reports
<1> QED BY <1>5 DEF r, b

\* Batch b, parsed after k lines, has the rest of what the log has.
IsRest(F, k, b) ==
    /\ Final(F).known /\ ~Final(F).bad /\ Final(F).next = b.next
    /\ Same(b.messages, Final(F).messages) /\ SameText(b.events, Final(F).events)
    /\ DOMAIN Final(F).messages \subseteq DOMAIN Prefix(F, k).messages \cup DOMAIN b.messages
    /\ DOMAIN Final(F).events \subseteq DOMAIN Prefix(F, k).events \cup DOMAIN b.events

(* A parse that starts anew has what the log has, and one that resumes the *)
(* rest of it.                                                             *)
LEMMA ParsedAnew ==
    ASSUME SourceOK(Source), NEW b, b = Parse(After(0), FALSE, 0)
    PROVE  /\ b = Fresh
           /\ b.messages = Final(Source).messages /\ b.events = Final(Source).events
           /\ ~b.bad => IsRest(Source, 0, b)
<1>1. log \in Seq(Lines[fmt]) /\ fmt \in Readers
    BY DEF SourceOK, Source, Identifies
<1>2. After(0) = SubSeq(log, 0 + 1, Len(log)) /\ SubSeq(log, 0 + 1, Len(log)) = log
    <2>1. 0 \div 2 = 0
        OBVIOUS
    <2>2. SubSeq(log, 0 + 1, Len(log)) = log
        BY <1>1
    <2> QED BY <2>1, <2>2 DEF After
<1>3. PICK w : w = Final(Source)
    OBVIOUS
<1>4. w = ReadAll(fmt, Batch(FALSE, 0), After(0))
    BY <1>2, <1>3 DEF Final, Prefix, Whole, Reads, Source
<1>5. Reports(w, b)
    <2>1. PICK lines, known, seq : lines = After(0) /\ known = FALSE /\ seq = 0
        OBVIOUS
    <2>2. w = ReadAll(fmt, Batch(known, seq), lines) /\ b = Parse(lines, known, seq)
        BY <1>4, <2>1
    <2> QED BY <1>1, <2>2, ParseIs
<1>6. b = Fresh
    BY <1>2 DEF Fresh
<1>7. ~b.bad => IsRest(Source, 0, b)
    BY <1>3, <1>5 DEF Reports, IsRest, Same, SameText
<1> QED BY <1>3, <1>5, <1>6, <1>7 DEF Reports

\* The resumed parse: with the rows of the first k lines it has all of them.
LEMMA ParsedRest ==
    ASSUME SourceOK(Source), NEW k \in 0..Len(log), NEW seq,
           Prefix(Source, k).known, ~Prefix(Source, k).bad, Prefix(Source, k).next = seq,
           NEW b, b = Parse(After(2 * k), TRUE, seq)
    PROVE  IsRest(Source, k, b)
<1>1. log \in Seq(Lines[fmt]) /\ Len(log) \in Nat /\ fmt \in Readers /\ fmt \in Formats
    BY DEF SourceOK, Source, Identifies
<1>2. k \in Nat /\ Len(log) \in k..Len(log) /\ Identifies(fmt, log)
    BY <1>1 DEF SourceOK, Source
<1>3. After(2 * k) = SubSeq(log, k + 1, Len(log))
    BY <1>2, Halved DEF After
<1>4. PICK pre : pre = Whole(fmt, log, k)
    OBVIOUS
<1>5. PICK w : w = Whole(fmt, log, Len(log))
    OBVIOUS
<1>6. PICK r : r = Reads(fmt, Batch(TRUE, seq), log, k, Len(log))
    OBVIOUS
<1>7. pre = Prefix(Source, k) /\ w = Final(Source)
    BY <1>4, <1>5 DEF Prefix, Final, Source
<1>8. Continues(pre, w, r)
    <2>1. Whole(fmt, log, k).known /\ ~Whole(fmt, log, k).bad /\ Whole(fmt, log, k).next = seq
        BY <1>4, <1>7
    <2>2. Continues(Whole(fmt, log, k), Whole(fmt, log, Len(log)),
                    Reads(fmt, Batch(TRUE, Whole(fmt, log, k).next), log, k, Len(log)))
        BY <1>1, <1>2, <2>1, ContinuesAll
    <2> QED BY <1>4, <1>5, <1>6, <2>1, <2>2
<1>9. r = ReadAll(fmt, Batch(TRUE, seq), After(2 * k))
    BY <1>3, <1>6 DEF Reads
<1>10. Reports(r, b)
    <2>1. PICK lines, known : lines = After(2 * k) /\ known = TRUE
        OBVIOUS
    <2>2. r = ReadAll(fmt, Batch(known, seq), lines) /\ b = Parse(lines, known, seq)
        BY <1>9, <2>1
    <2> QED BY <1>1, <2>2, ParseIs
<1> QED BY <1>7, <1>8, <1>10 DEF Reports, IsRest, Continues, Same, SameText

(* Where the log was read to: no record follows.                           *)
LEMMA EndReached ==
    ASSUME NEW S, log \in Seq(S), NEW k \in 0..Len(log)
    PROVE  \E e \in k..Len(log) : EndOffset(2 * k) = 2 * e /\ NoneAfter(Source, e)
<1> DEFINE ends == {2 * k} \cup {2 * i : i \in {j \in DOMAIN log : 2 * j > 2 * k /\ IsRecord(log[j])}}
           L == Len(log)
<1>1. L \in Nat /\ DOMAIN log = 1..L /\ k \in Nat
    OBVIOUS
<1>2. ends \in SUBSET (0..(2 * L)) /\ ends # {}
    BY <1>1
<1>3. \A x \in ends : \E i \in k..L : x = 2 * i
    BY <1>1
<1>4. PICK m \in ends : \A x \in ends : x <= m
    <2> DEFINE rest == {2 * L - x : x \in ends}
    <2>1. rest \in SUBSET Nat /\ rest # {}
        <3>1. \A x \in ends : 2 * L - x \in Nat
            <4> HIDE DEF ends
            <4> QED BY <1>1, <1>2
        <3> HIDE DEF ends, L
        <3> QED BY <1>2, <3>1
    <2>2. PICK y \in rest : \A z \in rest : y <= z
        <3> HIDE DEF rest
        <3> QED BY <2>1, LeastNat
    <2> HIDE DEF ends, L
    <2>3. PICK m \in ends : y = 2 * L - m
        OBVIOUS
    <2>4. \A x \in ends : x <= m
        <3>1. SUFFICES ASSUME NEW x \in ends PROVE x <= m
            OBVIOUS
        <3>2. 2 * L - m <= 2 * L - x
            BY <2>2, <2>3
        <3>3. x \in Nat /\ m \in Nat /\ L \in Nat
            BY <1>1, <1>2
        <3> QED BY <3>2, <3>3
    <2> QED BY <2>4
<1>5. PICK e \in k..L : m = 2 * e
    BY <1>3
<1>6. Max(ends) = m
    <2> HIDE DEF ends
    <2>1. ends \in SUBSET Nat
        BY <1>1, <1>2
    <2> QED BY <1>4, <2>1, MaxIs
<1>7. EndOffset(2 * k) = 2 * e
    BY <1>5, <1>6 DEF EndOffset
<1>8. ASSUME NEW i \in DOMAIN log, i > e, IsRecord(log[i]) PROVE FALSE
    <2>1. i \in Nat /\ e \in Nat /\ k <= e
        BY <1>1, <1>5
    <2>2. 2 * i > 2 * k
        BY <1>8, <2>1, <1>1
    <2>3. 2 * i \in ends
        BY <1>8, <2>2
    <2>4. 2 * i <= m
        <3> HIDE DEF ends
        <3> QED BY <1>4, <2>3
    <2> QED BY <1>5, <1>8, <2>1, <2>4
<1> QED BY <1>5, <1>7, <1>8 DEF NoneAfter, Source
-----------------------------------------------------------------------------
(* Every step keeps the invariant.                                         *)

\* The parts of Source.
LEMMA SourceIs == Source.fmt = fmt /\ Source.log = log /\ Source.gen = gen /\ Source.size = Size
BY DEF Source

\* The empty log has the invariant.
LEMMA InitImportInv == Sequential /\ Init => ImportInv
<1> SUFFICES ASSUME Sequential, Init PROVE ImportInv
    OBVIOUS
<1>1. log = <<>> /\ Len(log) = 0 /\ DOMAIN log = {} /\ Size = 0 /\ fmt \in Formats /\ fmt \in Readers
    BY DEF Init, Size, Sequential
<1>2. Identifies(fmt, log)
    BY <1>1 DEF Identifies, Unrepeated
<1>3. SourceOK(Source)
    BY <1>1, <1>2, SourceIs DEF SourceOK, Init
<1>4. DOMAIN Empty = {} /\ IsFcn(Empty)
    BY DEF Empty, IsFcn
<1>5. Shapes
    BY <1>4 DEF Init, Shapes, IsFcn
<1>6. OnlyItsRows(Source, messages, events)
    BY <1>4 DEF Init, OnlyItsRows, Same, SameText
<1>7. StateOK(Source, state, messages, events)
    BY DEF Init, StateOK
<1>8. \A p \in Procs : StageOK(Source, pc[p], job[p], messages, events)
    BY DEF Init, StageOK, Parsed
<1> QED BY <1>3, <1>5, <1>6, <1>7, <1>8 DEF ImportInv, Init

(* A line, or half a line, is written.                                     *)
LEMMA LogGrows ==
    ASSUME ImportInv, ~mixed, SourceOK(Source'), Grew(Source, Source'), half' \in BOOLEAN,
           UNCHANGED <<tables, pc, job, imports, mixed>>
    PROVE  ImportInv'
<1>1. messages' = messages /\ events' = events /\ state' = state /\ pc' = pc /\ job' = job /\ mixed' = mixed
    BY DEF tables
<1>2. SourceOK(Source) /\ gen' = gen
    BY SourceIs DEF ImportInv, Grew, Source
<1>3. Shapes'
    BY <1>1 DEF ImportInv, Shapes
<1>4. OnlyItsRows(Source', messages, events)
    <2>1. SUFFICES ASSUME Source'.gen = 0
                   PROVE  Same(messages, Final(Source').messages) /\ SameText(events, Final(Source').events)
        BY DEF OnlyItsRows
    <2>2. Source.gen = 0
        BY <2>1 DEF Grew
    <2>3. Same(messages, Final(Source).messages) /\ SameText(events, Final(Source).events)
        BY <2>2 DEF ImportInv, OnlyItsRows
    <2>4. Extends(Final(Source), Final(Source'))
        BY <1>2, FinalGrows
    <2> QED BY <2>3, <2>4 DEF Same, SameText, Extends
<1>5. StateOK(Source', state, messages, events)
    BY <1>2, StateGrows DEF ImportInv
<1>6. \A p \in Procs : StageOK(Source', pc[p], job[p], messages, events)
    BY <1>2, StageGrows DEF ImportInv
<1> QED BY <1>1, <1>2, <1>3, <1>4, <1>5, <1>6 DEF ImportInv

\* The agent writes half a line, a line, or another file.
LEMMA StepAgent ==
    ASSUME Keyed, ImportInv, Agent
    PROVE  ImportInv'
<1>0. /\ SourceOK(Source) /\ fmt \in Formats /\ fmt \in Readers /\ Identifies(fmt, log) /\ gen \in Nat
      /\ log \in Seq(Lines[fmt]) /\ Len(log) \in Nat /\ half \in BOOLEAN /\ DOMAIN log = 1..Len(log)
    BY SourceIs DEF ImportInv, SourceOK, Identifies, Shapes
<1>1. CASE WriteHalf
    <2>1. ~mixed /\ Size = 2 * Len(log) /\ Size' = 2 * Len(log) + 1
        BY <1>1 DEF WriteHalf, Undisturbed, Size
    <2>2. /\ Source'.fmt = fmt /\ Source'.log = log /\ Source'.gen = gen /\ Source'.size = 2 * Len(log) + 1
        BY <1>1, <2>1 DEF WriteHalf, Source
    <2>3. SourceOK(Source')
        BY <1>0, <2>2 DEF SourceOK
    <2>4. Grew(Source, Source')
        BY <1>0, <2>1, <2>2, SourceIs DEF Grew, Prefix
    <2> QED BY <1>1, <2>1, <2>3, <2>4, LogGrows DEF WriteHalf
<1>2. CASE WriteLine
    <2>1. PICK line \in Lines[fmt] : Writable(line, log) /\ log' = Append(log, line)
        BY <1>2 DEF WriteLine
    <2>2. ~mixed /\ fmt' = fmt /\ gen' = gen /\ half' = FALSE
        BY <1>2 DEF WriteLine, Undisturbed
    <2>3. Size' = 2 * (Len(log) + 1) /\ Size < 2 * (Len(log) + 1)
        BY <1>0, <2>1, <2>2 DEF Size
    <2>4. Source'.fmt = fmt /\ Source'.log = log' /\ Source'.gen = gen /\ Source'.size = 2 * (Len(log) + 1)
        BY <2>2, <2>3 DEF Source
    <2>5. Identifies(fmt, log')
        <3>1. /\ log' \in Seq(Lines[fmt]) /\ DOMAIN log' = 1..(Len(log) + 1) /\ Len(log') = Len(log) + 1
              /\ log'[Len(log) + 1] = line /\ \A i \in DOMAIN log : log'[i] = log[i]
            BY <1>0, <2>1
        <3>2. /\ fmt \in {"membox", "codex"} => line.key # NoKey \/ ~IsEvent(line)
              /\ \A i \in DOMAIN log : log[i] # line \/ ~IsRecord(line)
            BY <2>1 DEF Writable, Identified, Keyed
        <3>3. \A i \in DOMAIN log' : i \in DOMAIN log \/ i = Len(log) + 1
            BY <1>0, <3>1
        <3>4. Unrepeated(log')
            <4>1. SUFFICES ASSUME NEW i \in DOMAIN log', NEW j \in DOMAIN log', i < j
                           PROVE  log'[i] # log'[j] \/ ~IsRecord(log'[j])
                BY DEF Unrepeated
            <4>2. i \in DOMAIN log
                BY <1>0, <3>1, <4>1
            <4>3. CASE j \in DOMAIN log
                BY <1>0, <3>1, <4>1, <4>2, <4>3 DEF Identifies, Unrepeated
            <4>4. CASE j = Len(log) + 1
                BY <3>1, <3>2, <4>2, <4>4
            <4> QED BY <3>3, <4>3, <4>4
        <3>5. fmt \in {"membox", "codex"} => \A i \in DOMAIN log' : log'[i].key # NoKey \/ ~IsEvent(log'[i])
            BY <1>0, <3>1, <3>2, <3>3 DEF Identifies
        <3> QED BY <3>1, <3>4, <3>5 DEF Identifies
    <2>6. Len(log') = Len(log) + 1
        BY <1>0, <2>1
    <2>7. SourceOK(Source')
        BY <1>0, <2>4, <2>5, <2>6 DEF SourceOK
    <2>8. \A k \in 0..Len(log) : Prefix(Source', k) = Prefix(Source, k)
        <3>1. SUFFICES ASSUME NEW k \in 0..Len(log) PROVE Prefix(Source', k) = Prefix(Source, k)
            OBVIOUS
        <3>2. Whole(fmt, Append(log, line), k) = Whole(fmt, log, k)
            BY <1>0, WholeAppend
        <3> QED BY <2>1, <2>4, <3>2, SourceIs DEF Prefix
    <2>9. Grew(Source, Source')
        BY <1>0, <2>3, <2>4, <2>6, <2>8, SourceIs DEF Grew
    <2> QED BY <1>2, <2>2, <2>7, <2>9, LogGrows DEF WriteLine
<1>3. CASE Rewrite
    <2>0. PICK n \in 0..(Len(log) - 1) : \E kept \in [1..n -> DOMAIN log] :
              /\ \A i, j \in 1..n : i < j => kept[i] < kept[j]
              /\ log' = [i \in 1..n |-> log[kept[i]]]
        BY <1>3 DEF Rewrite
    <2>1. PICK kept \in [1..n -> DOMAIN log] :
              /\ \A i, j \in 1..n : i < j => kept[i] < kept[j]
              /\ log' = [i \in 1..n |-> log[kept[i]]]
        BY <2>0
    <2>2. /\ ~mixed /\ fmt' = fmt /\ gen' = gen + 1 /\ half' = FALSE
          /\ messages' = messages /\ events' = events /\ state' = state /\ pc' = pc /\ job' = job
          /\ mixed' = (mixed \/ \E p \in Procs : pc[p] \in Parsed)
        BY <1>3 DEF Rewrite, Undisturbed, tables
    <2>3. /\ n \in Nat /\ \A i \in 1..n : kept[i] \in DOMAIN log /\ log'[i] = log[kept[i]]
          /\ DOMAIN log' = 1..n
        BY <1>0, <2>1
    <2>4. log' \in Seq(Lines[fmt]) /\ Len(log') = n
        <3>1. \A i \in 1..n : log[kept[i]] \in Lines[fmt]
            BY <1>0, <2>3
        <3> QED BY <2>1, <2>3, <3>1
    <2>5. Identifies(fmt, log')
        <3>1. Unrepeated(log')
            <4>1. SUFFICES ASSUME NEW i \in 1..n, NEW j \in 1..n, i < j
                           PROVE  log'[i] # log'[j] \/ ~IsRecord(log'[j])
                BY <2>3 DEF Unrepeated
            <4>2. kept[i] < kept[j]
                BY <2>1, <4>1
            <4> QED BY <1>0, <2>3, <4>2 DEF Identifies, Unrepeated
        <3> QED BY <1>0, <2>3, <2>4, <3>1 DEF Identifies
    <2>6. /\ Source'.fmt = fmt /\ Source'.log = log' /\ Source'.gen = gen + 1 /\ Source'.size = 2 * n
        BY <2>2, <2>3, <2>4 DEF Source, Size
    <2>7. SourceOK(Source')
        BY <1>0, <2>3, <2>4, <2>5, <2>6 DEF SourceOK
    <2>8. Shapes'
        BY <2>2 DEF ImportInv, Shapes, IsFcn
    <2>9. OnlyItsRows(Source', messages, events) /\ gen' # 0
        BY <1>0, <2>2, <2>6 DEF OnlyItsRows
    <2>10. ~mixed' => /\ StateOK(Source', state, messages, events)
                      /\ \A p \in Procs : StageOK(Source', pc[p], job[p], messages, events)
        <3>1. SUFFICES ASSUME ~mixed'
                       PROVE  /\ StateOK(Source', state, messages, events)
                              /\ \A p \in Procs : StageOK(Source', pc[p], job[p], messages, events)
            OBVIOUS
        <3>2. \A p \in Procs : pc[p] \notin Parsed
            BY <2>2, <3>1
        <3>3. Source'.gen = Source.gen + 1
            BY <2>6, SourceIs
        <3>4. StateOK(Source', state, messages, events)
            BY <1>0, <2>2, <3>3, StateReplaced DEF ImportInv
        <3>5. \A p \in Procs : StageOK(Source', pc[p], job[p], messages, events)
            BY <1>0, <2>2, <3>2, <3>3, StageReplaced DEF ImportInv
        <3> QED BY <3>4, <3>5
    <2> QED BY <2>2, <2>7, <2>8, <2>9, <2>10 DEF ImportInv
<1> QED BY <1>1, <1>2, <1>3 DEF Agent
(* One importer moves, and the tables get rows of the log.                 *)
LEMMA Moves ==
    ASSUME ImportInv, ~mixed, UNCHANGED <<file, mixed>>, NEW p \in Procs, NEW at, NEW j,
           pc' = [pc EXCEPT ![p] = at], job' = [job EXCEPT ![p] = j],
           IsFcn(messages'), IsFcn(events'),
           Improves(messages, messages', Final(Source).messages),
           Improves(events, events', Final(Source).events),
           OnlyItsRows(Source, messages', events'),
           StateOK(Source, state', messages', events'),
           StageOK(Source, at, j, messages', events')
    PROVE  ImportInv'
<1>1. Source' = Source /\ mixed' = mixed /\ gen' = gen
    BY DEF file, Source, Size
<1>2. SourceOK(Source) /\ DOMAIN pc = Procs /\ DOMAIN job = Procs /\ (gen = 0 => ~mixed)
    BY DEF ImportInv, Shapes
<1>3. Shapes'
    <2>1. DOMAIN pc' = Procs /\ DOMAIN job' = Procs /\ job' = [q \in Procs |-> job'[q]]
        BY <1>2
    <2> QED BY <2>1 DEF ImportInv, Shapes, IsFcn, file
<1>4. \A q \in Procs : StageOK(Source, pc'[q], job'[q], messages', events')
    <2>1. SUFFICES ASSUME NEW q \in Procs PROVE StageOK(Source, pc'[q], job'[q], messages', events')
        OBVIOUS
    <2>2. CASE q = p
        <3>1. pc'[q] = at /\ job'[q] = j
            BY <1>2, <2>2
        <3> QED BY <3>1
    <2>3. CASE q # p
        <3>1. pc'[q] = pc[q] /\ job'[q] = job[q]
            BY <1>2, <2>3
        <3>2. StageOK(Source, pc[q], job[q], messages, events)
            BY DEF ImportInv
        <3>3. StageOK(Source, pc[q], job[q], messages', events')
            BY <1>2, <3>2, StageImproves
        <3> QED BY <3>1, <3>3
    <2> QED BY <2>2, <2>3
<1> QED BY <1>1, <1>2, <1>3, <1>4 DEF ImportInv

(* One importer moves.                                                     *)
LEMMA MovesAside ==
    ASSUME ImportInv, ~mixed, UNCHANGED <<file, messages, events, state, mixed>>,
           NEW p \in Procs, NEW at, NEW j,
           pc' = [pc EXCEPT ![p] = at], job' = [job EXCEPT ![p] = j],
           StageOK(Source, at, j, messages, events)
    PROVE  ImportInv'
<1>1. messages' = messages /\ events' = events /\ state' = state
    OBVIOUS
<1>2. IsFcn(messages) /\ IsFcn(events)
    BY DEF ImportInv, Shapes
<1>3. /\ Improves(messages, messages, Final(Source).messages)
      /\ Improves(events, events, Final(Source).events)
    BY DEF Improves
<1>4. OnlyItsRows(Source, messages, events) /\ StateOK(Source, state, messages, events)
    BY DEF ImportInv
<1> QED BY <1>1, <1>2, <1>3, <1>4, Moves

\* What an importer knows at its place.
LEMMA Stage ==
    ASSUME ImportInv, ~mixed, NEW p \in Procs
    PROVE  StageOK(Source, pc[p], job[p], messages, events)
BY DEF ImportInv

\* An importer goes back to be idle, whether it is done or has died.
LEMMA BackToIdle ==
    ASSUME ImportInv, ~mixed, NEW p \in Procs, UNCHANGED <<file, tables, mixed>>,
           pc' = [pc EXCEPT ![p] = "idle"], job' = [job EXCEPT ![p] = NoJob]
    PROVE  ImportInv'
<1>1. StageOK(Source, "idle", NoJob, messages, events)
    BY DEF StageOK, Parsed
<1>2. UNCHANGED <<file, messages, events, state, mixed>>
    BY DEF tables
<1> QED BY <1>1, <1>2, MovesAside

\* A stat of the log as it is.
LEMMA StepStatFile ==
    ASSUME ImportInv, NEW p \in Procs, StatFile(p)
    PROVE  ImportInv'
<1>1. PICK j : j = [stat |-> Stat, offset |-> 0, known |-> FALSE, seq |-> 0, gen |-> 0, batch |-> NoBatch]
    OBVIOUS
<1>2. ~mixed /\ pc' = [pc EXCEPT ![p] = "decide"] /\ job' = [job EXCEPT ![p] = j]
    <2>1. PICK none : none = NoJob
        OBVIOUS
    <2>2. none = [stat |-> None, offset |-> 0, known |-> FALSE, seq |-> 0, gen |-> 0, batch |-> NoBatch]
        BY <2>1 DEF NoJob
    <2>3. PICK begun : begun = [none EXCEPT !.stat = Stat]
        OBVIOUS
    <2>4. begun = [stat |-> Stat, offset |-> 0, known |-> FALSE, seq |-> 0, gen |-> 0, batch |-> NoBatch]
        BY <2>2, <2>3
    <2> QED BY <1>1, <2>1, <2>3, <2>4 DEF StatFile, Goto
<1>3. UNCHANGED <<file, messages, events, state, mixed>>
    BY DEF StatFile, tables
<1>4. StatOK(Source, j.stat)
    <2>1. j.stat = [mtime |-> gen, size |-> Size] /\ gen \in Nat /\ Size \in Nat
        BY <1>1, SourceIs DEF Stat, ImportInv, SourceOK
    <2>2. j.stat.mtime = gen /\ j.stat.size = Size
        BY <2>1
    <2> QED BY <2>1, <2>2, SourceIs DEF StatOK
<1>5. StageOK(Source, "decide", j, messages, events)
    BY <1>1, <1>4 DEF StageOK, IsJob, Parsed
<1> QED BY <1>2, <1>3, <1>5, MovesAside

\* An import resumes where the state says or starts anew.
LEMMA StepDecide ==
    ASSUME ImportInv, NEW p \in Procs, Decide(p)
    PROVE  ImportInv'
<1>1. PICK old : old = job[p]
    OBVIOUS
<1>2. PICK j : j = IF Resumable(old.stat)
                   THEN [old EXCEPT !.offset = state.offset, !.seq = state.next,
                                    !.known = TRUE, !.gen = state.gen]
                   ELSE old
    OBVIOUS
<1>3. ~mixed /\ pc[p] = "decide" /\ pc' = [pc EXCEPT ![p] = "parse"]
    BY DEF Decide, Goto
<1>4. job' = [job EXCEPT ![p] = j]
    BY <1>1, <1>2 DEF Decide
<1>5. UNCHANGED <<file, messages, events, state, mixed>>
    BY DEF Decide, tables
<1>6. StatOK(Source, old.stat) /\ IsJob(old) /\ old.offset = 0 /\ old.known = FALSE /\ old.seq = 0
    BY <1>1, <1>3, Stage DEF StageOK
<1>7. CASE Resumable(old.stat)
    <2>1. j = [stat |-> old.stat, offset |-> state.offset, known |-> TRUE, seq |-> state.next,
               gen |-> state.gen, batch |-> old.batch]
        BY <1>2, <1>6, <1>7 DEF IsJob
    <2>2. state # None /\ state.offset > 0
        BY <1>6, <1>7 DEF Resumable, StatOK
    <2>3. /\ state.offset \in Nat /\ state.next \in Nat /\ state.gen \in 0..Source.gen
          /\ state.gen = Source.gen => Resumes(Source, state.offset, state.next, messages, events)
        BY <1>3, <2>2 DEF ImportInv, StateOK
    <2>4. ResumeOK(Source, j, messages, events)
        BY <2>1, <2>2, <2>3 DEF ResumeOK
    <2>5. StageOK(Source, "parse", j, messages, events)
        BY <1>6, <2>1, <2>4 DEF StageOK, IsJob, Parsed
    <2> QED BY <1>3, <1>4, <1>5, <2>5, MovesAside
<1>8. CASE ~Resumable(old.stat)
    <2>1. j = old
        BY <1>2, <1>8
    <2>2. ResumeOK(Source, j, messages, events)
        BY <1>6, <2>1 DEF ResumeOK
    <2>3. StageOK(Source, "parse", j, messages, events)
        BY <1>6, <2>1, <2>2 DEF StageOK, Parsed
    <2> QED BY <1>3, <1>4, <1>5, <2>3, MovesAside
<1> QED BY <1>7, <1>8

(* The rows of a parse and those stored before are all rows of the log.    *)
LEMMA RestCovers ==
    ASSUME NEW F, NEW k, NEW b, IsRest(F, k, b), Extends(Prefix(F, k), Final(F)), NEW ms, NEW es,
           Covered(Prefix(F, k).messages, ms, Empty), Covered(Prefix(F, k).events, es, Empty)
    PROVE  /\ Covered(Final(F).messages, ms, b.messages)
           /\ Covered(Final(F).events, es, b.events)
<1>1. DOMAIN Empty = {}
    BY DEF Empty
<1> QED BY <1>1 DEF IsRest, Covered, Extends
\* What is parsed are the rows that are missing; of an offset of a replaced log
\* nothing is claimed.
LEMMA StepParseFile ==
    ASSUME ImportInv, NEW p \in Procs, ParseFile(p)
    PROVE  ImportInv'
<1>1. PICK old : old = job[p]
    OBVIOUS
<1>2. PICK b : b = Parse(After(old.offset), old.known, old.seq)
    OBVIOUS
<1>3. SourceOK(Source) /\ fmt \in Readers /\ fmt # "claude" /\ gen \in Nat /\ log \in Seq(Lines[fmt])
      /\ Len(log) \in Nat
    BY SourceIs DEF ImportInv, SourceOK, Readers, Identifies
<1>4. PICK j : j = [stat |-> old.stat, offset |-> EndOffset(old.offset), known |-> FALSE, seq |-> 0,
                    gen |-> gen, batch |-> b]
    OBVIOUS
<1>5. /\ ~mixed /\ pc[p] = "parse" /\ pc' = [pc EXCEPT ![p] = "session"] /\ ~b.bad
      /\ job' = [job EXCEPT ![p] = j]
      /\ mixed' = (mixed \/ (old.offset > 0 /\ old.gen # gen))
    <2>0. PICK none : none = NoJob
        OBVIOUS
    <2>1. j = [none EXCEPT !.stat = old.stat, !.batch = b, !.gen = gen,
                           !.offset = EndOffset(old.offset)]
        <3>1. none = [stat |-> None, offset |-> 0, known |-> FALSE, seq |-> 0, gen |-> 0, batch |-> NoBatch]
            BY <2>0 DEF NoJob
        <3>2. PICK parsed : parsed = [none EXCEPT !.stat = old.stat, !.batch = b, !.gen = gen,
                                                  !.offset = EndOffset(old.offset)]
            OBVIOUS
        <3>3. parsed = [stat |-> old.stat, offset |-> EndOffset(old.offset), known |-> FALSE, seq |-> 0,
                        gen |-> gen, batch |-> b]
            BY <3>1, <3>2
        <3> QED BY <1>4, <3>2, <3>3
    <2>2. (IF fmt = "claude" THEN old.offset ELSE EndOffset(old.offset)) = EndOffset(old.offset)
        BY <1>3
    <2>3. ~mixed /\ pc[p] = "parse" /\ pc' = [pc EXCEPT ![p] = "session"]
        BY <1>3 DEF ParseFile, Goto
    <2>4. job' = [job EXCEPT ![p] = j]
        BY <1>1, <1>2, <2>0, <2>1, <2>2 DEF ParseFile
    <2>5. ~b.bad /\ mixed' = (mixed \/ (old.offset > 0 /\ old.gen # gen))
        BY <1>1, <1>2 DEF ParseFile
    <2> QED BY <2>3, <2>4, <2>5
<1>6. UNCHANGED <<file, messages, events, state>>
    BY DEF ParseFile, tables
<1>7. StatOK(Source, old.stat) /\ ResumeOK(Source, old, messages, events)
    BY <1>1, <1>5, Stage DEF StageOK
<1>8. CASE old.offset > 0 /\ old.gen # gen
    <2>1. mixed'
        BY <1>5, <1>8
    <2>2. gen # 0
        BY <1>3, <1>7, <1>8, SourceIs DEF ResumeOK
    <2>3. Source' = Source /\ gen' = gen
        BY <1>6 DEF file, Source, Size
    <2>4. Shapes'
        <3>1. DOMAIN pc' = Procs /\ DOMAIN job' = Procs /\ job' = [q \in Procs |-> job'[q]] /\ mixed' = TRUE
            BY <1>5, <1>8 DEF ImportInv, Shapes
        <3> QED BY <1>6, <3>1 DEF ImportInv, Shapes, IsFcn, file
    <2> QED BY <1>6, <2>1, <2>2, <2>3, <2>4 DEF ImportInv
<1>9. CASE ~(old.offset > 0 /\ old.gen # gen)
    <2>1. mixed' = mixed
        BY <1>5, <1>9 DEF ImportInv, Shapes
    <2>2. \E k \in 0..Len(log) :
             /\ old.offset = 2 * k /\ IsRest(Source, k, b)
             /\ Covered(Prefix(Source, k).messages, messages, Empty)
             /\ Covered(Prefix(Source, k).events, events, Empty)
        <3>1. CASE old.offset = 0 /\ old.known = FALSE /\ old.seq = 0
            <4>1. b = Parse(After(0), FALSE, 0)
                BY <1>2, <3>1
            <4>2. IsRest(Source, 0, b)
                BY <1>3, <1>5, <4>1, ParsedAnew
            <4>3. Prefix(Source, 0) = Batch(FALSE, 0)
                BY ZenonT(30), ReadsNone DEF Prefix, Whole
            <4>4. PICK none : none = Prefix(Source, 0)
                OBVIOUS
            <4>5. DOMAIN none.messages = {} /\ DOMAIN none.events = {}
                BY <4>3, <4>4 DEF Batch, Empty
            <4>6. Covered(none.messages, messages, Empty) /\ Covered(none.events, events, Empty)
                BY <4>5 DEF Covered
            <4>7. 0 \in 0..Len(log) /\ old.offset = 2 * 0
                BY <1>3, <3>1
            <4> QED BY <4>2, <4>4, <4>6, <4>7
        <3>2. CASE old.offset > 0 /\ old.known = TRUE /\ old.gen = gen
                   /\ Resumes(Source, old.offset, old.seq, messages, events)
            <4>1. PICK k \in 0..Len(Source.log) :
                      /\ old.offset = 2 * k /\ Before(Source, old.offset) = Prefix(Source, k)
                      /\ Prefix(Source, k).next = old.seq
                      /\ Prefix(Source, k).known /\ ~Prefix(Source, k).bad
                BY <1>3, <3>2, BeforeReached DEF Resumes
            <4>2. k \in 0..Len(log) /\ b = Parse(After(2 * k), TRUE, old.seq)
                BY <1>2, <3>2, <4>1, SourceIs
            <4>3. IsRest(Source, k, b)
                BY <1>3, <4>1, <4>2, ParsedRest
            <4> QED BY <3>2, <4>1, <4>2, <4>3 DEF Resumes
        <3> QED BY <1>7, <1>9, <3>1, <3>2, SourceIs DEF ResumeOK
    <2>3. PICK k \in 0..Len(log) :
             /\ old.offset = 2 * k /\ IsRest(Source, k, b)
             /\ Covered(Prefix(Source, k).messages, messages, Empty)
             /\ Covered(Prefix(Source, k).events, events, Empty)
        BY <2>2
    <2>4. PICK e \in k..Len(log) : EndOffset(2 * k) = 2 * e /\ NoneAfter(Source, e)
        BY <1>3, EndReached
    <2>5. k \in Nat /\ e \in Nat /\ e \in 0..Len(log) /\ Len(log) \in k..Len(log) /\ Len(log) \in e..Len(log)
        BY <1>3, <2>4
    <2>6. Extends(Prefix(Source, k), Final(Source))
        BY <1>3, <2>5, WholeExtends, SourceIs DEF SourceOK, Prefix, Final
    <2>7. Prefix(Source, e) = Final(Source)
        BY <1>3, <2>4, <2>5, WholeExtends, SourceIs DEF SourceOK, Prefix, Final, NoneAfter
    <2>8. /\ Covered(Final(Source).messages, messages, b.messages)
          /\ Covered(Final(Source).events, events, b.events)
        BY <2>3, <2>6, RestCovers
    <2>9. /\ j.offset = 2 * e /\ j.gen = Source.gen /\ j.stat = old.stat /\ j.batch = b /\ IsJob(j)
          /\ j.offset \div 2 = e
        <3>1. j.offset = 2 * e /\ j.gen = gen /\ j.stat = old.stat /\ j.batch = b
            BY <1>4, <2>3, <2>4
        <3>2. IsJob(j)
            BY <1>4 DEF IsJob
        <3> QED BY <2>5, <3>1, <3>2, Halved, SourceIs
    <2>10. IsParsed(b)
        BY <1>2 DEF IsParsed, Parse
    <2>11. Reached(Source, j.offset, b.next)
        <3>1. Final(Source).known /\ ~Final(Source).bad /\ Final(Source).next = b.next
            BY <2>3 DEF IsRest
        <3> QED BY <2>5, <2>7, <2>9, <3>1, SourceIs DEF Reached
    <2>12. MeasuredAll(Source, j.stat, j.offset) /\ Before(Source, j.offset) = Final(Source)
        BY <2>4, <2>7, <2>9 DEF MeasuredAll, Before
    <2>13. BatchOK(Source, "session", j, messages, events)
        BY <2>3, <2>8, <2>9, <2>10, <2>11, <2>12 DEF BatchOK, IsRest
    <2>14. StageOK(Source, "session", j, messages, events)
        BY <1>7, <2>9, <2>13 DEF StageOK, Parsed
    <2> QED BY <1>5, <1>6, <2>1, <2>14, MovesAside
<1> QED BY <1>8, <1>9

\* The session is stored; the rows are not yet.
LEMMA StepUpsertSession ==
    ASSUME ImportInv, NEW p \in Procs, UpsertSession(p)
    PROVE  ImportInv'
<1>1. ~mixed /\ pc[p] = "session" /\ pc' = [pc EXCEPT ![p] = "messages"]
    BY DEF UpsertSession, Goto
<1>2. UNCHANGED <<file, messages, events, state, mixed>> /\ job' = job
    BY DEF UpsertSession
<1>3. job' = [job EXCEPT ![p] = job[p]]
    BY <1>2 DEF ImportInv, Shapes, IsFcn
<1>4. PICK j : j = job[p]
    OBVIOUS
<1>5. StageOK(Source, "session", j, messages, events)
    BY <1>1, <1>4, Stage
<1>6. BatchOK(Source, "messages", j, messages, events)
    BY <1>5 DEF StageOK, BatchOK, Parsed
<1>7. StageOK(Source, "messages", j, messages, events)
    BY <1>5, <1>6 DEF StageOK, Parsed
<1> QED BY <1>1, <1>2, <1>3, <1>4, <1>7, MovesAside

(* What is stored of a batch is as good as the log has it.                 *)
LEMMA UpsertImproves ==
    ASSUME NEW kept, NEW new, NEW rows, SameText(new, rows)
    PROVE  Improves(kept, Upsert(kept, new), rows) /\ IsFcn(Upsert(kept, new))
BY DEF Improves, Upsert, SameText, IsFcn

\* Once new rows are stored, they need not be stored any more.
LEMMA UpsertCovers ==
    ASSUME NEW rows, NEW kept, NEW new, NEW final, Covered(rows, kept, new), SameText(new, final),
           \A x \in DOMAIN rows : x \in DOMAIN final /\ final[x] = rows[x]
    PROVE  Covered(rows, Upsert(kept, new), Empty)
BY DEF Covered, Upsert, SameText

\* Rows of the log with rows of the log are rows of the log.
LEMMA UpsertRows ==
    ASSUME NEW kept, NEW new, NEW rows
    PROVE  /\ Same(kept, rows) /\ Same(new, rows) => Same(Upsert(kept, new), rows)
           /\ SameText(kept, rows) /\ SameText(new, rows) => SameText(Upsert(kept, new), rows)
BY DEF Same, SameText, Upsert

\* Equal rows have equal texts.
LEMMA SameIsSameText == \A new, rows : Same(new, rows) => SameText(new, rows)
BY DEF Same, SameText

\* The messages of the batch go into the table.
LEMMA StepUpsertMessages ==
    ASSUME ImportInv, NEW p \in Procs, UpsertMessages(p)
    PROVE  ImportInv'
<1>1. ~mixed /\ pc[p] = "messages" /\ pc' = [pc EXCEPT ![p] = "events"]
    BY DEF UpsertMessages, Goto
<1>2. UNCHANGED <<file, events, state, mixed>>
    BY DEF UpsertMessages
<1>3. PICK old : old = job[p]
    OBVIOUS
<1>4. StageOK(Source, "messages", old, messages, events)
    BY <1>1, <1>3, Stage
<1>5. IsJob(old) /\ IsParsed(old.batch) /\ StatOK(Source, old.stat)
      /\ BatchOK(Source, "messages", old, messages, events) /\ SourceOK(Source)
    BY <1>4 DEF StageOK, BatchOK, Parsed, ImportInv
<1>6. PICK b : b = [bad |-> old.batch.bad, messages |-> Empty, events |-> old.batch.events,
                    next |-> old.batch.next]
    OBVIOUS
<1>7. PICK j : j = [stat |-> old.stat, offset |-> old.offset, known |-> old.known,
                    seq |-> old.seq, gen |-> old.gen, batch |-> b]
    OBVIOUS
<1>8. job' = [job EXCEPT ![p] = j]
    <2>1. PICK was : was = old.batch
        OBVIOUS
    <2>2. PICK v : v = [was EXCEPT !.messages = Empty]
        OBVIOUS
    <2>3. v = b
        BY <1>5, <1>6, <2>1, <2>2 DEF IsParsed
    <2>4. PICK w : w = [old EXCEPT !.batch = b]
        OBVIOUS
    <2>5. w = j
        BY <1>5, <1>7, <2>4 DEF IsJob
    <2>6. job' = [job EXCEPT ![p] = [job[p] EXCEPT !.batch = [job[p].batch EXCEPT !.messages = Empty]]]
        BY DEF UpsertMessages
    <2> QED BY <1>3, <2>1, <2>2, <2>3, <2>4, <2>5, <2>6
<1>9. PICK new : new = old.batch.messages
    OBVIOUS
<1>10. messages' = Upsert(messages, new) /\ events' = events
    BY <1>2, <1>3, <1>9 DEF UpsertMessages
<1>11. Same(new, Final(Source).messages) /\ SameText(new, Final(Source).messages)
    BY <1>5, <1>9, SameIsSameText DEF BatchOK
<1>12. /\ Improves(messages, messages', Final(Source).messages) /\ IsFcn(messages')
       /\ Improves(events, events', Final(Source).events) /\ IsFcn(events')
    BY <1>10, <1>11, UpsertImproves DEF Improves, ImportInv, Shapes
<1>13. OnlyItsRows(Source, messages', events')
    BY <1>10, <1>11, UpsertRows DEF OnlyItsRows, ImportInv
<1>14. StateOK(Source, state', messages', events')
    <2>1. StateOK(Source, state, messages, events)
        BY <1>1 DEF ImportInv
    <2> QED BY <1>2, <1>5, <1>12, <2>1, StateImproves
<1>15. BatchOK(Source, "events", j, messages', events')
    <2>1. /\ j.stat = old.stat /\ j.offset = old.offset /\ j.gen = old.gen /\ j.batch = b
          /\ b.messages = Empty /\ b.events = old.batch.events /\ b.next = old.batch.next /\ IsParsed(b)
        BY <1>6, <1>7 DEF IsParsed
    <2>2. Covered(Before(Source, old.offset).messages, messages, new)
          /\ Covered(Before(Source, old.offset).events, events, old.batch.events)
        BY <1>5, <1>9 DEF BatchOK
    <2>3. Extends(Before(Source, old.offset), Final(Source))
        BY <1>5, BeforeReached DEF BatchOK
    <2>4. Covered(Before(Source, old.offset).messages, messages', Empty)
        BY <1>10, <1>11, <2>2, <2>3, UpsertCovers DEF Extends
    <2>5. Same(b.messages, Final(Source).messages)
        BY <2>1 DEF Same, Empty
    <2> QED BY <1>5, <1>10, <2>1, <2>2, <2>4, <2>5 DEF BatchOK
<1>16. StageOK(Source, "events", j, messages', events')
    BY <1>5, <1>7, <1>15 DEF StageOK, IsJob, Parsed
<1> QED BY <1>1, <1>2, <1>8, <1>12, <1>13, <1>14, <1>16, Moves

(* An event that is there keeps its message.                               *)
LEMMA StepUpsertEvents ==
    ASSUME ImportInv, NEW p \in Procs, UpsertEvents(p)
    PROVE  ImportInv'
<1>1. ~mixed /\ pc[p] = "events" /\ pc' = [pc EXCEPT ![p] = "state"]
    BY DEF UpsertEvents, Goto
<1>2. UNCHANGED <<file, messages, state, mixed>>
    BY DEF UpsertEvents
<1>3. PICK old : old = job[p]
    OBVIOUS
<1>4. StageOK(Source, "events", old, messages, events)
    BY <1>1, <1>3, Stage
<1>5. IsJob(old) /\ IsParsed(old.batch) /\ StatOK(Source, old.stat)
      /\ BatchOK(Source, "events", old, messages, events) /\ SourceOK(Source)
    BY <1>4 DEF StageOK, BatchOK, Parsed, ImportInv
<1>6. PICK b : b = [bad |-> old.batch.bad, messages |-> old.batch.messages, events |-> Empty,
                    next |-> old.batch.next]
    OBVIOUS
<1>7. PICK j : j = [stat |-> old.stat, offset |-> old.offset, known |-> old.known,
                    seq |-> old.seq, gen |-> old.gen, batch |-> b]
    OBVIOUS
<1>8. job' = [job EXCEPT ![p] = j]
    <2>1. PICK was : was = old.batch
        OBVIOUS
    <2>2. PICK v : v = [was EXCEPT !.events = Empty]
        OBVIOUS
    <2>3. v = b
        BY <1>5, <1>6, <2>1, <2>2 DEF IsParsed
    <2>4. PICK w : w = [old EXCEPT !.batch = b]
        OBVIOUS
    <2>5. w = j
        BY <1>5, <1>7, <2>4 DEF IsJob
    <2>6. job' = [job EXCEPT ![p] = [job[p] EXCEPT !.batch = [job[p].batch EXCEPT !.events = Empty]]]
        BY DEF UpsertEvents
    <2> QED BY <1>3, <2>1, <2>2, <2>3, <2>4, <2>5, <2>6
<1>9. PICK new : new = old.batch.events
    OBVIOUS
<1>10. PICK rows : rows = [e \in DOMAIN new |->
                             IF e \in DOMAIN events THEN [new[e] EXCEPT !.message = events[e].message]
                             ELSE new[e]]
    OBVIOUS
<1>11. messages' = messages /\ events' = Upsert(events, rows)
    BY <1>2, <1>3, <1>9, <1>10 DEF UpsertEvents
<1>12. DOMAIN rows = DOMAIN new /\ SameText(new, Final(Source).events)
    BY <1>5, <1>9, <1>10 DEF BatchOK
<1>13. \A e \in DOMAIN new : rows[e].text = new[e].text
    <2>1. SUFFICES ASSUME NEW e \in DOMAIN new PROVE rows[e].text = new[e].text
        OBVIOUS
    <2>2. PICK row, message : row = new[e] /\ message = events[e].message
        OBVIOUS
    <2>3. PICK v : v = [row EXCEPT !.message = message]
        OBVIOUS
    <2>4. v.text = row.text
        BY <2>3
    <2> QED BY <1>10, <2>2, <2>3, <2>4
<1>14. SameText(rows, Final(Source).events)
    BY <1>12, <1>13 DEF SameText
<1>15. /\ Improves(messages, messages', Final(Source).messages) /\ IsFcn(messages')
       /\ Improves(events, events', Final(Source).events) /\ IsFcn(events')
    BY <1>11, <1>14, UpsertImproves DEF Improves, ImportInv, Shapes
<1>16. OnlyItsRows(Source, messages', events')
    BY <1>11, <1>14, UpsertRows DEF OnlyItsRows, ImportInv
<1>17. StateOK(Source, state', messages', events')
    <2>1. StateOK(Source, state, messages, events)
        BY <1>1 DEF ImportInv
    <2> QED BY <1>2, <1>5, <1>15, <2>1, StateImproves
<1>18. BatchOK(Source, "state", j, messages', events')
    <2>1. /\ j.stat = old.stat /\ j.offset = old.offset /\ j.gen = old.gen /\ j.batch = b
          /\ b.messages = old.batch.messages /\ b.events = Empty /\ b.next = old.batch.next /\ IsParsed(b)
        BY <1>6, <1>7 DEF IsParsed
    <2>2. Covered(Before(Source, old.offset).messages, messages, Empty)
          /\ Covered(Before(Source, old.offset).events, events, new)
        BY <1>5, <1>9 DEF BatchOK
    <2>3. Covered(Before(Source, old.offset).events, events, rows)
        BY <1>12, <2>2 DEF Covered
    <2>4. Extends(Before(Source, old.offset), Final(Source))
        BY <1>5, BeforeReached DEF BatchOK
    <2>5. Covered(Before(Source, old.offset).events, events', Empty)
        BY <1>11, <1>14, <2>3, <2>4, UpsertCovers DEF Extends
    <2>6. SameText(b.events, Final(Source).events)
        BY <2>1 DEF SameText, Empty
    <2> QED BY <1>5, <1>11, <2>1, <2>2, <2>5, <2>6 DEF BatchOK
<1>19. StageOK(Source, "state", j, messages', events')
    BY <1>5, <1>7, <1>18 DEF StageOK, IsJob, Parsed
<1> QED BY <1>1, <1>2, <1>8, <1>15, <1>16, <1>17, <1>19, Moves

(* The state is that of a batch that is in the tables.                     *)
LEMMA StepSetImportState ==
    ASSUME ImportInv, NEW p \in Procs, SetImportState(p)
    PROVE  ImportInv'
<1>1. ~mixed /\ pc[p] = "state" /\ pc' = [pc EXCEPT ![p] = "idle"]
      /\ job' = [job EXCEPT ![p] = NoJob]
    BY DEF SetImportState, Goto
<1>2. UNCHANGED <<file, messages, events, mixed>> /\ messages' = messages /\ events' = events
    BY DEF SetImportState
<1>3. PICK j : j = job[p]
    OBVIOUS
<1>4. StageOK(Source, "state", j, messages, events) /\ SourceOK(Source)
    BY <1>1, <1>3, Stage DEF ImportInv
<1>5. PICK st : st = [kind |-> "state", stat |-> j.stat, offset |-> j.offset,
                      next |-> j.batch.next, gen |-> j.gen]
    OBVIOUS
<1>6. state' = st
    BY <1>3, <1>5 DEF SetImportState
<1>7. StatOK(Source, j.stat) /\ BatchOK(Source, "state", j, messages, events)
    BY <1>4 DEF StageOK, Parsed
<1>8. Reached(Source, j.offset, j.batch.next) /\ MeasuredAll(Source, j.stat, j.offset) /\ j.gen = Source.gen
    BY <1>7 DEF BatchOK
<1>9. Resumes(Source, j.offset, j.batch.next, messages, events)
    BY <1>7, <1>8 DEF BatchOK, Resumes
<1>10. j.offset \in Nat /\ j.batch.next \in Nat
    <2>1. PICK k \in 0..Len(Source.log) :
              /\ j.offset = 2 * k /\ Prefix(Source, k).next = j.batch.next
        BY <1>8 DEF Reached
    <2>2. k \in Nat /\ Len(Source.log) \in Nat
        BY <1>4 DEF SourceOK, Identifies
    <2>3. Prefix(Source, k).next \in Nat
        BY <1>4, <2>2, WholeRan DEF SourceOK, Prefix, Ran, IsBatch
    <2> QED BY <2>1, <2>2, <2>3
<1>11. StateOK(Source, st, messages, events)
    <2>1. /\ st.stat = j.stat /\ st.offset = j.offset /\ st.next = j.batch.next /\ st.gen = Source.gen
          /\ st = [kind |-> "state", stat |-> st.stat, offset |-> st.offset,
                   next |-> st.next, gen |-> st.gen]
        BY <1>5, <1>8
    <2>2. Source.gen \in 0..Source.gen /\ j.stat.mtime <= Source.gen
        BY <1>4, <1>7 DEF SourceOK, StatOK
    <2> QED BY <1>7, <1>8, <1>9, <1>10, <2>1, <2>2 DEF StateOK
<1>12. StageOK(Source, "idle", NoJob, messages, events)
    BY DEF StageOK, Parsed
<1>13. /\ Improves(messages, messages', Final(Source).messages) /\ IsFcn(messages')
       /\ Improves(events, events', Final(Source).events) /\ IsFcn(events')
       /\ OnlyItsRows(Source, messages', events')
    BY <1>2 DEF Improves, ImportInv, Shapes
<1> QED BY <1>1, <1>2, <1>6, <1>11, <1>12, <1>13, Moves

(* Those that give up, or die, leave what they stored.                     *)
LEMMA StepGivesUp ==
    ASSUME ImportInv, NEW p \in Procs,
           SkipUnchanged(p) \/ ParseFails(p) \/ EventsRefused(p) \/ Crash(p)
    PROVE  ImportInv'
<1>1. /\ ~mixed /\ UNCHANGED <<file, tables, mixed>>
      /\ pc' = [pc EXCEPT ![p] = "idle"] /\ job' = [job EXCEPT ![p] = NoJob]
    BY DEF SkipUnchanged, ParseFails, EventsRefused, Crash, Goto
<1> QED BY <1>1, BackToIdle

(* Only the Claude importer measures the end on its own.                   *)
LEMMA StepMeasureEnd ==
    ASSUME ImportInv, NEW p \in Procs
    PROVE  ~MeasureEnd(p)
BY Stage DEF MeasureEnd, Goto, StageOK

\* Every action keeps the invariant.
LEMMA StepImportInv == Keyed /\ ImportInv /\ [Next]_vars => ImportInv'
<1> SUFFICES ASSUME Keyed, ImportInv, [Next]_vars PROVE ImportInv'
    OBVIOUS
<1>1. CASE Agent
    BY <1>1, StepAgent
<1>2. ASSUME NEW p \in Procs, Import(p) PROVE ImportInv'
    <2>1. CASE StatFile(p)
        BY <2>1, StepStatFile
    <2>2. CASE Decide(p)
        BY <2>2, StepDecide
    <2>3. CASE ParseFile(p)
        BY <2>3, StepParseFile
    <2>4. CASE UpsertSession(p)
        BY <2>4, StepUpsertSession
    <2>5. CASE UpsertMessages(p)
        BY <2>5, StepUpsertMessages
    <2>6. CASE UpsertEvents(p)
        BY <2>6, StepUpsertEvents
    <2>7. CASE SetImportState(p)
        BY <2>7, StepSetImportState
    <2>8. CASE SkipUnchanged(p) \/ ParseFails(p) \/ EventsRefused(p) \/ Crash(p)
        BY <2>8, StepGivesUp
    <2> QED BY <1>2, <2>1, <2>2, <2>3, <2>4, <2>5, <2>6, <2>7, <2>8, StepMeasureEnd DEF Import
<1>3. CASE UNCHANGED vars
    <2>1. /\ file' = file /\ messages' = messages /\ events' = events /\ state' = state
          /\ pc' = pc /\ job' = job /\ mixed' = mixed
        BY <1>3 DEF vars, tables
    <2>2. Source' = Source /\ gen' = gen /\ half' = half
        BY <2>1 DEF file, Source, Size
    <2>3. Shapes'
        BY <2>1, <2>2 DEF ImportInv, Shapes, IsFcn
    <2> QED BY <2>1, <2>2, <2>3 DEF ImportInv
<1> QED BY <1>1, <1>2, <1>3 DEF Next

(* A stored offset stands for lines that are in the tables, an importer    *)
(* holds rows of the log, and of a log never replaced there are no others. *)
THEOREM ImportInvAlways == ASSUME Sequential, Keyed PROVE Spec => []ImportInv
<1>1. Init => ImportInv
    BY InitImportInv
<1>2. ImportInv /\ [Next]_vars => ImportInv'
    BY StepImportInv
<1> QED BY <1>1, <1>2, PTL DEF Spec
-----------------------------------------------------------------------------
(* What follows from it.                                                   *)

\* What is covered is stored.
LEMMA CoveredStored ==
    ASSUME NEW rows, NEW kept, Covered(rows, kept, Empty)
    PROVE  Stored(rows, kept)
BY DEF Covered, Stored, Empty

\* A parse of the first k lines reports the prefix.
LEMMA PrefixParsed ==
    ASSUME SourceOK(Source), NEW k \in 0..Len(log)
    PROVE  Reports(Prefix(Source, k), Parse(SubSeq(log, 1, k), FALSE, 0))
<1>1. PICK lines, known, seq : lines = SubSeq(log, 1, k) /\ known = FALSE /\ seq = 0
    OBVIOUS
<1>2. Prefix(Source, k) = ReadAll(fmt, Batch(known, seq), lines)
    <2>1. SubSeq(log, 0 + 1, k) = lines
        BY <1>1
    <2> QED BY <1>1, <2>1 DEF Prefix, Whole, Reads, Source
<1>3. Reports(ReadAll(fmt, Batch(known, seq), lines), Parse(lines, known, seq))
    BY ParseIs DEF SourceOK, Source
<1> QED BY <1>1, <1>2, <1>3

\* What history fetch parses is all that the log has.
LEMMA FreshIs ==
    ASSUME SourceOK(Source)
    PROVE  Fresh.messages = Final(Source).messages /\ Fresh.events = Final(Source).events
<1>1. PICK b : b = Parse(After(0), FALSE, 0)
    OBVIOUS
<1> QED BY <1>1, ParsedAnew

(* The invariant states it of the lines the offset stands for.             *)
LEMMA OffsetCovers ==
    ASSUME ImportInv
    PROVE  NothingPassedOver
<1> SUFFICES ASSUME state # None, state.gen = gen, ~mixed
             PROVE  LET before == Parse(SubSeq(log, 1, Min({state.offset \div 2, Len(log)})), FALSE, 0)
                    IN  Stored(before.messages, messages) /\ Stored(before.events, events)
    BY DEF NothingPassedOver
<1>1. SourceOK(Source) /\ Resumes(Source, state.offset, state.next, messages, events)
    BY SourceIs DEF ImportInv, StateOK
<1>2. PICK k \in 0..Len(log) : /\ state.offset \div 2 = k
                               /\ Before(Source, state.offset) = Prefix(Source, k)
    BY <1>1, BeforeReached, SourceIs DEF Resumes
<1>3. Len(log) \in Nat
    BY <1>1, SourceIs DEF SourceOK, Identifies
<1>4. Min({state.offset \div 2, Len(log)}) = k
    <2>1. PICK two : two = {k, Len(log)}
        OBVIOUS
    <2>2. k \in two /\ two \subseteq Nat /\ \A x \in two : k <= x
        BY <1>3, <2>1
    <2>3. \A x \in two : (\A y \in two : x <= y) => x = k
        BY <2>2
    <2>4. Min(two) = k
        BY <2>2, <2>3 DEF Min
    <2> QED BY <1>2, <2>1, <2>4
<1>5. PICK b : b = Parse(SubSeq(log, 1, k), FALSE, 0)
    OBVIOUS
<1>6. Reports(Prefix(Source, k), b)
    BY <1>1, <1>5, PrefixParsed
<1>7. Covered(b.messages, messages, Empty) /\ Covered(b.events, events, Empty)
    BY <1>1, <1>2, <1>6 DEF Reports, Resumes
<1> QED BY <1>4, <1>5, <1>7, CoveredStored

(* With the file as it was last measured nothing follows the offset.       *)
LEMMA LastImportHasAll ==
    ASSUME ImportInv
    PROVE  Converges
<1> SUFFICES ASSUME state # None, state.stat = Stat, ~mixed
             PROVE  LET whole == Fresh
                    IN  /\ Stored(whole.messages, messages) /\ Stored(whole.events, events)
                        /\ gen = 0 => /\ DOMAIN messages = DOMAIN whole.messages
                                      /\ DOMAIN events = DOMAIN whole.events
                                      /\ fmt # "claude" => messages = whole.messages
    BY DEF Converges
<1>1. SourceOK(Source) /\ gen \in Nat /\ StateOK(Source, state, messages, events)
    BY SourceIs DEF ImportInv, SourceOK
<1>2. state.stat.mtime = gen /\ state.stat.size = Size
    <2>1. PICK stat : stat = [mtime |-> gen, size |-> Size]
        OBVIOUS
    <2>2. stat.mtime = gen /\ stat.size = Size
        BY <2>1
    <2> QED BY <2>1, <2>2 DEF Stat
<1>3. state.gen = gen
    BY <1>1, <1>2, SourceIs DEF StateOK
<1>4. /\ Resumes(Source, state.offset, state.next, messages, events)
      /\ NoneAfter(Source, state.offset \div 2)
    BY <1>1, <1>2, <1>3, SourceIs DEF StateOK, MeasuredAll
<1>5. Before(Source, state.offset) = Final(Source)
    BY <1>1, <1>4, BeforeReached DEF Resumes
<1>6. PICK whole : whole = Fresh
    OBVIOUS
<1>7. whole.messages = Final(Source).messages /\ whole.events = Final(Source).events
    BY <1>1, <1>6, FreshIs
<1>8. Covered(whole.messages, messages, Empty) /\ Covered(whole.events, events, Empty)
    BY <1>4, <1>5, <1>7 DEF Resumes
<1>9. Stored(whole.messages, messages) /\ Stored(whole.events, events)
    BY <1>8, CoveredStored
<1>10. ASSUME gen = 0
       PROVE  /\ DOMAIN messages = DOMAIN whole.messages /\ DOMAIN events = DOMAIN whole.events
              /\ messages = whole.messages
    <2>1. Same(messages, whole.messages) /\ SameText(events, whole.events)
        BY <1>7, <1>10, SourceIs DEF ImportInv, OnlyItsRows
    <2>2. DOMAIN messages = DOMAIN whole.messages /\ DOMAIN events = DOMAIN whole.events
        BY <1>9, <2>1 DEF Same, SameText, Stored
    <2>3. IsFcn(messages) /\ IsFcn(whole.messages)
        <3>1. Len(log) \in 0..Len(log)
            BY <1>1, SourceIs DEF SourceOK, Identifies
        <3>2. IsBatch(fmt, Final(Source))
            BY <1>1, <3>1, WholeRan, SourceIs DEF SourceOK, Final, Prefix, Ran
        <3> QED BY <1>7, <3>2 DEF IsBatch, ImportInv, Shapes
    <2>4. messages = whole.messages
        BY <2>1, <2>2, <2>3 DEF Same, IsFcn
    <2> QED BY <2>2, <2>4
<1> QED BY <1>6, <1>9, <1>10

(* The rows of a log never replaced are those that a parse of it gives.    *)
LEMMA FetchedAsStored ==
    ASSUME ImportInv
    PROVE  FetchGivesTheRow
<1> SUFFICES ASSUME gen = 0
             PROVE  LET whole == Fresh
                    IN  /\ \A m \in DOMAIN messages : Fetch(m, whole.messages) = messages[m].text
                        /\ \A e \in DOMAIN events : Fetch(e, whole.events) = events[e].text
    BY DEF FetchGivesTheRow
<1>1. PICK whole : whole = Fresh
    OBVIOUS
<1>2. whole.messages = Final(Source).messages /\ whole.events = Final(Source).events
    BY <1>1, FreshIs DEF ImportInv
<1>3. Same(messages, whole.messages) /\ SameText(events, whole.events)
    BY <1>2, SourceIs DEF ImportInv, OnlyItsRows
<1>4. \A m \in DOMAIN messages : Fetch(m, whole.messages) = messages[m].text
    BY <1>3 DEF Same, Fetch
<1>5. \A e \in DOMAIN events : Fetch(e, whole.events) = events[e].text
    BY <1>3 DEF SameText, Fetch
<1> QED BY <1>1, <1>4, <1>5


(* Each place of the session is taken by one message.                      *)
LEMMA WindowIsSmall ==
    ASSUME ImportInv
    PROVE  AroundIsAWindow
<1> SUFFICES ASSUME gen = 0, NEW m \in DOMAIN messages, NEW r \in 0..1
             PROVE  Cardinality(Around(m, r)) <= 2 * r + 1
    BY DEF AroundIsAWindow
<1>1. SourceOK(Source) /\ Same(messages, Final(Source).messages)
    BY SourceIs DEF ImportInv, OnlyItsRows
<1>2. Ran(fmt, log, Final(Source), Len(log))
    <2>1. Len(log) \in 0..Len(log)
        BY <1>1, SourceIs DEF SourceOK, Identifies
    <2> QED BY <1>1, <2>1, WholeRan, SourceIs DEF SourceOK, Final, Prefix
<1>3. /\ \A x \in DOMAIN messages : messages[x].seq \in Nat
      /\ \A x, y \in DOMAIN messages : messages[x].seq = messages[y].seq => x = y
    BY <1>1, <1>2 DEF Same, Ran
<1>4. PICK s : s = messages[m].seq
    OBVIOUS
<1>5. PICK near : near = Around(m, r)
    OBVIOUS
<1>6. PICK f : f = [x \in near |-> messages[x].seq]
    OBVIOUS
<1>7. \A x \in near : x \in DOMAIN messages /\ messages[x].seq <= s + r /\ s <= messages[x].seq + r
    BY <1>4, <1>5 DEF Around
<1>8. s \in Nat /\ r \in Nat /\ s - r \in Int /\ s + r \in Int
    BY <1>3, <1>4
<1>9. f \in Injection(near, (s - r)..(s + r))
    <2>1. \A x \in near : f[x] \in (s - r)..(s + r)
        BY <1>3, <1>6, <1>7, <1>8
    <2>2. \A x, y \in near : f[x] = f[y] => x = y
        BY <1>3, <1>6, <1>7
    <2> QED BY <1>6, <2>1, <2>2 DEF Injection, IsInjective
<1>10. IsFiniteSet((s - r)..(s + r)) /\ Cardinality((s - r)..(s + r)) = 2 * r + 1
    <2>1. /\ IsFiniteSet((s - r)..(s + r))
          /\ Cardinality((s - r)..(s + r)) = IF s - r > s + r THEN 0 ELSE (s + r) - (s - r) + 1
        BY <1>8, FS_Interval
    <2> QED BY <1>8, <2>1
<1>11. Cardinality(near) <= Cardinality((s - r)..(s + r))
    BY <1>9, <1>10, FS_Injection
<1> QED BY <1>5, <1>10, <1>11

(* Every record before the stored offset is in the tables, whatever        *)
(* importers overlapped and whatever was killed: import_history resumes at *)
(* last_offset_bytes and never comes back.  Assumed are a format read in   *)
(* file order, so not Claude's, no record written twice, and an id in every*)
(* membox or Codex event.                                                  *)
THEOREM NothingPassedOverAlways == ASSUME Sequential, Keyed PROVE Spec => []NothingPassedOver
<1>1. ImportInv => NothingPassedOver
    BY OffsetCovers
<1> QED BY <1>1, ImportInvAlways, PTL

(* Once the file is the one last imported, the tables hold what one parse  *)
(* of all of it gives (importers/base.py).  Assumed are a format read in   *)
(* file order, so not Claude's, no record written twice, and an id in every*)
(* membox or Codex event; without the last two it is false.                *)
THEOREM ConvergesAlways == ASSUME Sequential, Keyed PROVE Spec => []Converges
<1>1. ImportInv => Converges
    BY LastImportHasAll
<1> QED BY <1>1, ImportInvAlways, PTL

(* fetch_payload finds under a stored id the text that was stored.  Assumed*)
(* are a format read in file order, so not Claude's, no record written     *)
(* twice, and an id in every membox or Codex event.                        *)
THEOREM FetchGivesTheRowAlways == ASSUME Sequential, Keyed PROVE Spec => []FetchGivesTheRow
<1>1. ImportInv => FetchGivesTheRow
    BY FetchedAsStored
<1> QED BY <1>1, ImportInvAlways, PTL

(* history_around shows no more messages than it was asked for, under the  *)
(* same assumptions.                                                       *)
THEOREM AroundIsAWindowAlways == ASSUME Sequential, Keyed PROVE Spec => []AroundIsAWindow
<1>1. ImportInv => AroundIsAWindow
    BY WindowIsSmall
<1> QED BY <1>1, ImportInvAlways, PTL
=============================================================================
