------------------------------- MODULE Sorting -------------------------------
(***************************************************************************)
(* Python's sorted() and comprehensions, as the modules that read the      *)
(* store use them.                                                         *)
(***************************************************************************)
EXTENDS Integers, FiniteSets, SequencesExt, FiniteSetsExt

\* Tuples of one length compare by the first place in which they differ.
Less(k, l) == \E i \in DOMAIN k : k[i] < l[i] /\ \A h \in 1..(i - 1) : k[h] = l[h]

\* The members of a finite set, those with the lowest keys first.
Sorted(S, key) ==
    CHOOSE s \in SetToSeqs(S) : \A i, j \in DOMAIN s : i < j => Less(key[s[i]], key[s[j]])

\* A sequence by the numbers of its elements; equals keep their order.
SortedSeq(seq, number) ==
    LET order == Sorted(DOMAIN seq, [i \in DOMAIN seq |-> <<number[i], i>>])
    IN  [i \in DOMAIN seq |-> seq[order[i]]]

AppendIf(seq, x, holds) == IF holds THEN Append(seq, x) ELSE seq

\* The elements of a sequence that are in a set.
Only(seq, S) == FoldLeft(LAMBDA kept, x : AppendIf(kept, x, x \in S), <<>>, seq)
=============================================================================
