------------------------------- MODULE Lists -------------------------------
(***************************************************************************)
(* Python's lists: set(s), the comprehension [x for x in s if x in S] as a *)
(* loop with a definition the provers can expand (that of SelectSeq is out *)
(* of their reach), and sorted(), by the places it gives to the members.   *)
(***************************************************************************)
EXTENDS Integers, Sequences, FiniteSets

Entries(s) == {s[i] : i \in DOMAIN s}

Select(s, S) ==
  LET kept[i \in 0..Len(s)] ==
        IF i = 0 THEN <<>>
        ELSE IF s[i] \in S THEN Append(kept[i - 1], s[i]) ELSE kept[i - 1]
  IN kept[Len(s)]

\* The numbers that come before i in the order of their keys, equal keys in the
\* order of the numbers.
Ahead(S, key, i) == {j \in S : key[j] < key[i] \/ (key[j] = key[i] /\ j < i)}

StableOrder(S, key) ==
  [n \in 1..Cardinality(S) |-> CHOOSE i \in S : Cardinality(Ahead(S, key, i)) = n - 1]
=============================================================================
