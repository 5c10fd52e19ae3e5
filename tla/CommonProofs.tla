---------------------------- MODULE CommonProofs ----------------------------
(***************************************************************************)
(* What the other proofs share: induction over the natural numbers up to a *)
(* bound, from the well-foundedness of inclusion on finite sets; lists, a  *)
(* filtered list, the number of entries of a kind, a sorted list; and the  *)
(* severity order of the exit codes: most_severe is a well-defined choice  *)
(* on every set of codes, and folding it per target first changes nothing. *)
(***************************************************************************)
EXTENDS ExitCodes, Lists, FiniteSetTheorems, SequenceTheorems, WellFoundedInduction, TLAPS

-----------------------------------------------------------------------------
(* Natural numbers and loops                                                *)

\* A set of natural numbers has a least member.
LEMMA LeastNatural ==
  ASSUME NEW T, T \subseteq Nat, T # {}
  PROVE  \E m \in T : \A n \in T : m <= n
  <1>. DEFINE Below == {1..n : n \in T}
  <1>1. \A n \in T : IsFiniteSet(1..n) /\ 1..n \subseteq Nat
    BY FS_Interval
  <1>2. Below \subseteq FiniteSubsetsOf(Nat) /\ Below # {}
    BY <1>1 DEF FiniteSubsetsOf
  <1>3. IsWellFoundedOn(StrictSubsetOrdering(Nat), FiniteSubsetsOf(Nat))
    BY FS_StrictSubsetOrderingWellFounded
  <1>4. PICK x \in Below : \A y \in Below : <<y, x>> \notin StrictSubsetOrdering(Nat)
    <2>. HIDE DEF Below
    <2>. QED BY <1>2, <1>3, WFMin
  <1>5. PICK m \in T : x = 1..m
    BY <1>4
  <1>6. ASSUME NEW n \in T, n < m PROVE FALSE
    <2>1. 1..n \subseteq 1..m /\ m \in 1..m /\ m \notin 1..n
      BY <1>6
    <2>2. <<1..n, 1..m>> \in StrictSubsetOrdering(Nat)
      BY <1>1, <2>1 DEF StrictSubsetOrdering
    <2>. QED BY <1>4, <1>5, <2>2
  <1>. QED BY <1>6

\* Induction up to n, on the set of the numbers that have a property.
LEMMA InductionUpTo ==
  ASSUME NEW n \in Nat, NEW T, 0 \in T,
         \A i \in 0..(n - 1) : i \in T => i + 1 \in T
  PROVE  0..n \subseteq T
  <1>. DEFINE Bad == (0..n) \ T
  <1>. SUFFICES ASSUME Bad # {} PROVE FALSE
    OBVIOUS
  <1>1. PICK m \in Bad : \A k \in Bad : m <= k
    <2>1. Bad \subseteq Nat OBVIOUS
    <2>. HIDE DEF Bad
    <2>. QED BY <2>1, LeastNatural
  <1>2. m \in 1..n /\ m - 1 \in 0..(n - 1) /\ m - 1 \notin Bad
    BY <1>1
  <1>. QED
    BY <1>1, <1>2

\* A bounded set of natural numbers has a greatest member.
LEMMA GreatestNatural ==
  ASSUME NEW n \in Nat, NEW T, T \subseteq 0..n, T # {}
  PROVE  \E m \in T : \A k \in T : k <= m
  <1>. DEFINE U == {d \in Nat : n - d \in T}
  <1>1. \A k \in T : n - k \in U
    OBVIOUS
  <1>2. PICK u \in U : \A v \in U : u <= v
    <2>1. U \subseteq Nat /\ U # {} BY <1>1
    <2>. HIDE DEF U
    <2>. QED BY <2>1, LeastNatural
  <1>3. n - u \in T /\ \A k \in T : u <= n - k
    BY <1>1, <1>2
  <1>. QED
    BY <1>3

\* The bodies of a loop of n rounds over states in S, and the states after each of its rounds.
Bodies(S, n) == [1..n -> [S -> S]]

IsLoop(f, S, base, n, body) ==
  f \in [0..n -> S] /\ f[0] = base /\ \A i \in 1..n : f[i] = body[i][f[i - 1]]

\* Every loop of n rounds has such states.
LEMMA Recursion ==
  \A S : \A base \in S, n \in Nat : \A body \in Bodies(S, n) : \E f : IsLoop(f, S, base, n, body)
  <1>. SUFFICES ASSUME NEW S, NEW base \in S, NEW n \in Nat, NEW body \in Bodies(S, n)
                PROVE  \E f : IsLoop(f, S, base, n, body)
    OBVIOUS
  <1>. DEFINE T == {k \in 0..n : \E f : IsLoop(f, S, base, k, body)}
  <1>0. \A k \in 1..n : body[k] \in [S -> S]
    BY DEF Bodies
  <1>1. 0 \in T
    <2>. DEFINE g == [i \in 0..0 |-> base]
    <2>1. g \in [0..0 -> S] /\ g[0] = base OBVIOUS
    <2>. HIDE DEF g
    <2>2. IsLoop(g, S, base, 0, body) BY <2>1 DEF IsLoop
    <2>. QED BY <2>2
  <1>2. ASSUME NEW k \in 0..(n - 1), k \in T PROVE k + 1 \in T
    <2>1. PICK f : IsLoop(f, S, base, k, body)
      BY <1>2
    <2>2. /\ f \in [0..k -> S] /\ f[0] = base
          /\ \A i \in 1..k : f[i] = body[i][f[i - 1]]
      BY <2>1 DEF IsLoop
    <2>. DEFINE g == [i \in 0..(k + 1) |-> IF i <= k THEN f[i] ELSE body[k + 1][f[k]]]
    <2>3. g \in [0..(k + 1) -> S]
      BY <1>0, <2>2
    <2>4. g[0] = base BY <2>2
    <2>5. ASSUME NEW i \in 1..(k + 1) PROVE g[i] = body[i][g[i - 1]]
      <3>1. CASE i <= k BY <2>2, <3>1
      <3>2. CASE i = k + 1 BY <3>2
      <3>. QED BY <3>1, <3>2
    <2>. HIDE DEF g
    <2>6. IsLoop(g, S, base, k + 1, body) BY <2>3, <2>4, <2>5 DEF IsLoop
    <2>. QED BY <2>6
  <1>3. 0..n \subseteq T
    <2>. HIDE DEF T
    <2>. QED BY <1>1, <1>2, InductionUpTo
  <1>. QED
    BY <1>3

-----------------------------------------------------------------------------
(* Lists                                                                    *)

\* Appending adds one element, behind the others.
LEMMA EntriesOfAppend ==
  ASSUME NEW S, NEW s \in Seq(S), NEW x \in S
  PROVE  /\ Append(s, x) \in Seq(S) /\ Len(Append(s, x)) = Len(s) + 1
         /\ Len(s) \in Nat /\ Append(s, x) # <<>>
         /\ DOMAIN s = 1..Len(s) /\ DOMAIN Append(s, x) = 1..(Len(s) + 1)
         /\ \A i \in 1..Len(s) : Append(s, x)[i] = s[i]
         /\ Append(s, x)[Len(s) + 1] = x
         /\ Entries(Append(s, x)) = Entries(s) \cup {x}
  <1>1. /\ Append(s, x) \in Seq(S) /\ Len(Append(s, x)) = Len(s) + 1 /\ Len(s) \in Nat
        /\ \A i \in 1..Len(s) : Append(s, x)[i] = s[i]
        /\ Append(s, x)[Len(s) + 1] = x
    BY AppendProperties, LenProperties
  <1>2. Append(s, x) # <<>>
    BY <1>1, EmptySeq
  <1>3. DOMAIN s = 1..Len(s) /\ DOMAIN Append(s, x) = 1..(Len(s) + 1)
    BY <1>1, LenProperties
  <1>4. Entries(Append(s, x)) = Entries(s) \cup {x}
    BY <1>1, <1>3 DEF Entries
  <1>. QED
    BY <1>1, <1>2, <1>3, <1>4

\* The rounds of Select, from the empty list on.
LEMMA SelectRounds ==
  ASSUME NEW A, NEW s \in Seq(A), NEW S
  PROVE  \E f \in [0..Len(s) -> Seq(A)] :
           /\ f[0] = <<>> /\ f[Len(s)] = Select(s, S)
           /\ \A i \in 1..Len(s) :
                f[i] = IF s[i] \in S THEN Append(f[i - 1], s[i]) ELSE f[i - 1]
  <1>. DEFINE n == Len(s)
              R == Seq(A)
              Round(i, l) == IF s[i] \in S THEN Append(l, s[i]) ELSE l
              step == [i \in 1..n |-> [l \in R |-> Round(i, l)]]
              Rounds(f) == [i \in 0..n |->
                              IF i = 0 THEN <<>>
                              ELSE IF s[i] \in S THEN Append(f[i - 1], s[i]) ELSE f[i - 1]]
              g == CHOOSE h : h = Rounds(h)
  <1>1. n \in Nat /\ \A i \in 1..n : s[i] \in A
    BY LenProperties, ElementOfSeq
  <1>2. step \in [1..n -> [R -> R]]
    BY <1>1, AppendProperties
  <1>3. \A i \in 1..n : \A l \in R : step[i][l] = Round(i, l)
    OBVIOUS
  <1>4. <<>> \in R
    BY EmptySeq
  <1>5. Select(s, S) = g[n]
    BY DEF Select
  <1>6. \A f : /\ DOMAIN Rounds(f) = 0..n
               /\ Rounds(f) = [i \in 0..n |-> Rounds(f)[i]]
               /\ n \in Nat => Rounds(f)[0] = <<>>
               /\ \A i \in 1..n : Rounds(f)[i] = Round(i, f[i - 1])
    OBVIOUS
  <1>. HIDE DEF n, R, step, Round
  <1>7. PICK f \in [0..n -> R] : f[0] = <<>> /\ \A i \in 1..n : f[i] = step[i][f[i - 1]]
    <2>. HIDE DEF Rounds, g
    <2>1. n \in Nat /\ step \in Bodies(R, n)
      BY <1>1, <1>2 DEF Bodies
    <2>2. PICK f : IsLoop(f, R, <<>>, n, step)
      BY <1>4, <2>1, Recursion
    <2>. QED BY <2>2 DEF IsLoop
  <1>8. \A i \in 1..n : f[i] = Round(i, f[i - 1])
    <2>1. \A i \in 1..n : f[i - 1] \in R
      BY <1>1
    <2>. QED BY <1>3, <1>7, <2>1
  <1>. HIDE DEF Rounds
  <1>9. f = Rounds(f)
    <2>1. \A i \in 0..n : f[i] = Rounds(f)[i]
      <3>1. \A i \in 0..n : i = 0 \/ i \in 1..n
        BY <1>1
      <3>. QED BY <1>1, <1>6, <1>7, <1>8, <3>1
    <2>2. f = [i \in 0..n |-> f[i]]
      OBVIOUS
    <2>. QED BY <2>1, <2>2, <1>6
  <1>10. g = Rounds(g)
    BY <1>9
  <1>. HIDE DEF g
  <1>11. /\ g[0] = <<>> /\ \A i \in 1..n : g[i] = Round(i, g[i - 1])
         /\ g = [i \in 0..n |-> g[i]]
    BY <1>1, <1>6, <1>10
  <1>12. g = f
    <2>. DEFINE T == {i \in 0..n : g[i] = f[i]}
    <2>1. 0 \in T BY <1>1, <1>7, <1>11
    <2>2. ASSUME NEW i \in 0..(n - 1), i \in T PROVE i + 1 \in T
      <3>1. i + 1 \in 1..n /\ (i + 1) - 1 = i /\ i + 1 \in 0..n
        BY <1>1
      <3>2. g[i + 1] = Round(i + 1, g[i]) /\ f[i + 1] = Round(i + 1, f[i])
        BY <1>8, <1>11, <3>1
      <3>. QED BY <2>2, <3>1, <3>2
    <2>3. 0..n \subseteq T
      <3>. HIDE DEF T
      <3>. QED BY <1>1, <2>1, <2>2, InductionUpTo
    <2>4. \A i \in 0..n : g[i] = f[i] BY <2>3
    <2>5. f = [i \in 0..n |-> f[i]] OBVIOUS
    <2>. QED BY <2>4, <2>5, <1>11
  <1>. QED
    BY <1>5, <1>7, <1>8, <1>12 DEF n, R, Round

\* Select keeps the elements of the list that are in the set, and only those; a
\* list of such elements is left as it is.
LEMMA SelectProperties ==
  ASSUME NEW A, NEW s \in Seq(A), NEW S
  PROVE  /\ Select(s, S) \in Seq(A)
         /\ Entries(Select(s, S)) = Entries(s) \cap S
         /\ Entries(s) \subseteq S => Select(s, S) = s
  <1>. DEFINE n == Len(s)
  <1>1. n \in Nat /\ DOMAIN s = 1..n /\ \A i \in 1..n : s[i] \in A
    BY LenProperties, ElementOfSeq
  <1>2. PICK f \in [0..n -> Seq(A)] :
           /\ f[0] = <<>> /\ f[n] = Select(s, S)
           /\ \A i \in 1..n : f[i] = IF s[i] \in S THEN Append(f[i - 1], s[i]) ELSE f[i - 1]
    BY SelectRounds
  <1>3. Entries(f[n]) = Entries(s) \cap S
    <2>. DEFINE T == {k \in 0..n : Entries(f[k]) = {s[i] : i \in 1..k} \cap S}
    <2>1. 0 \in T
      BY <1>1, <1>2 DEF Entries
    <2>2. ASSUME NEW k \in 0..(n - 1), k \in T PROVE k + 1 \in T
      <3>0. k \in 0..n /\ k + 1 \in 1..n /\ (k + 1) - 1 = k
        BY <1>1
      <3>1. f[k] \in Seq(A) /\ s[k + 1] \in A
        BY <1>1, <1>2, <3>0
      <3>2. {s[i] : i \in 1..(k + 1)} = {s[i] : i \in 1..k} \cup {s[k + 1]}
        BY <1>1
      <3>3. f[k + 1] = IF s[k + 1] \in S THEN Append(f[k], s[k + 1]) ELSE f[k]
        BY <1>2, <3>0
      <3>4. Entries(Append(f[k], s[k + 1])) = Entries(f[k]) \cup {s[k + 1]}
        BY <3>1, EntriesOfAppend
      <3>. QED
        BY <1>1, <2>2, <3>2, <3>3, <3>4
    <2>3. 0..n \subseteq T
      <3>. HIDE DEF T, n
      <3>. QED BY <1>1, <2>1, <2>2, InductionUpTo
    <2>4. n \in T BY <1>1, <2>3
    <2>. QED
      BY <1>1, <2>4 DEF Entries
  <1>4. ASSUME Entries(s) \subseteq S PROVE f[n] = s
    <2>. DEFINE T == {k \in 0..n : Len(f[k]) = k /\ \A i \in 1..k : f[k][i] = s[i]}
    <2>1. 0 \in T
      BY <1>1, <1>2
    <2>2. ASSUME NEW k \in 0..(n - 1), k \in T PROVE k + 1 \in T
      <3>0. k \in 0..n /\ k + 1 \in 1..n /\ (k + 1) - 1 = k
        BY <1>1
      <3>1. f[k] \in Seq(A) /\ s[k + 1] \in A /\ s[k + 1] \in S
        BY <1>1, <1>2, <1>4, <3>0 DEF Entries
      <3>2. f[k + 1] = Append(f[k], s[k + 1])
        BY <1>2, <3>0, <3>1
      <3>3. /\ Len(f[k + 1]) = k + 1 /\ f[k + 1][k + 1] = s[k + 1]
            /\ \A i \in 1..k : f[k + 1][i] = s[i]
        BY <2>2, <3>1, <3>2, AppendProperties
      <3>. QED
        BY <1>1, <3>3
    <2>3. 0..n \subseteq T
      <3>. HIDE DEF T, n
      <3>. QED BY <1>1, <2>1, <2>2, InductionUpTo
    <2>4. n \in T BY <1>1, <2>3
    <2>5. f[n] \in Seq(A) /\ Len(f[n]) = n /\ \A i \in 1..n : f[n][i] = s[i]
      BY <1>1, <1>2, <2>4
    <2>. QED
      BY <2>5, SeqEqual
  <1>. QED
    BY <1>1, <1>2, <1>3, <1>4

-----------------------------------------------------------------------------
(* The number of entries of a kind                                          *)

Places(s, V) == {i \in DOMAIN s : s[i] \in V}

Count(s, V) == Cardinality(Places(s, V))

LEMMA CountIsNatural ==
  ASSUME NEW A, NEW s \in Seq(A), NEW V
  PROVE  /\ Places(s, V) \subseteq 1..Len(s) /\ IsFiniteSet(Places(s, V))
         /\ Count(s, V) \in Nat /\ Count(<<>>, V) = 0
         /\ Count(s, V) > 0 <=> Entries(s) \cap V # {}
  <1>1. Len(s) \in Nat /\ DOMAIN s = 1..Len(s)
    BY LenProperties
  <1>2. Places(s, V) \subseteq 1..Len(s) /\ IsFiniteSet(1..Len(s))
    BY <1>1, FS_Interval DEF Places
  <1>3. IsFiniteSet(Places(s, V)) /\ Count(s, V) \in Nat
    BY <1>2, FS_Subset, FS_CardinalityType DEF Count
  <1>4. Count(s, V) = 0 <=> Places(s, V) = {}
    BY <1>3, FS_EmptySet DEF Count
  <1>5. Places(<<>>, V) = {} /\ Count(<<>>, V) = 0
    BY FS_EmptySet DEF Places, Count
  <1>6. Places(s, V) = {} <=> Entries(s) \cap V = {}
    BY DEF Places, Entries
  <1>. QED
    BY <1>2, <1>3, <1>4, <1>5, <1>6

\* One more entry.
LEMMA CountOfAppend ==
  ASSUME NEW A, NEW s \in Seq(A), NEW x \in A, NEW V
  PROVE  Count(Append(s, x), V) = IF x \in V THEN Count(s, V) + 1 ELSE Count(s, V)
  <1>1. /\ Len(s) \in Nat /\ DOMAIN s = 1..Len(s) /\ DOMAIN Append(s, x) = 1..(Len(s) + 1)
        /\ \A i \in 1..Len(s) : Append(s, x)[i] = s[i]
        /\ Append(s, x)[Len(s) + 1] = x
    BY EntriesOfAppend
  <1>2. Places(Append(s, x), V) = IF x \in V THEN Places(s, V) \cup {Len(s) + 1} ELSE Places(s, V)
    BY <1>1 DEF Places
  <1>3. Len(s) + 1 \notin Places(s, V) /\ IsFiniteSet(Places(s, V))
    BY <1>1, CountIsNatural
  <1>. QED
    BY <1>2, <1>3, FS_AddElement DEF Count

\* The entries of one list behind those of another.
LEMMA CountOfConcat ==
  ASSUME NEW A, NEW s \in Seq(A), NEW u \in Seq(A), NEW V
  PROVE  Count(s \o u, V) = Count(s, V) + Count(u, V)
  <1>. DEFINE n == Len(s)
              Moved == {n + j : j \in Places(u, V)}
              shift == [j \in Places(u, V) |-> n + j]
  <1>1. /\ n \in Nat /\ Len(u) \in Nat /\ DOMAIN s = 1..n /\ DOMAIN u = 1..Len(u)
        /\ s \o u \in Seq(A) /\ DOMAIN (s \o u) = 1..(n + Len(u))
        /\ \A i \in 1..(n + Len(u)) : (s \o u)[i] = IF i <= n THEN s[i] ELSE u[i - n]
    BY LenProperties, ConcatProperties
  <1>2. Places(s, V) \subseteq 1..n /\ Places(u, V) \subseteq 1..Len(u)
    BY CountIsNatural
  <1>3. Places(s \o u, V) = Places(s, V) \cup Moved
    <2>1. ASSUME NEW i \in Places(s \o u, V) PROVE i \in Places(s, V) \cup Moved
      <3>1. i \in 1..(n + Len(u)) /\ (s \o u)[i] \in V
        BY <1>1 DEF Places
      <3>2. CASE i <= n
        BY <1>1, <3>1, <3>2 DEF Places
      <3>3. CASE ~(i <= n)
        <4>1. i - n \in 1..Len(u) /\ i = n + (i - n) /\ u[i - n] \in V
          BY <1>1, <3>1, <3>3
        <4>. QED BY <1>1, <4>1 DEF Places
      <3>. QED BY <3>2, <3>3
    <2>2. Places(s, V) \subseteq Places(s \o u, V)
      BY <1>1 DEF Places
    <2>3. ASSUME NEW j \in Places(u, V) PROVE n + j \in Places(s \o u, V)
      <3>1. j \in 1..Len(u) /\ u[j] \in V
        BY <1>1 DEF Places
      <3>2. n + j \in 1..(n + Len(u)) /\ ~(n + j <= n) /\ (n + j) - n = j
        BY <1>1, <3>1
      <3>. QED BY <1>1, <3>1, <3>2 DEF Places
    <2>. QED BY <2>1, <2>2, <2>3
  <1>4. shift \in Bijection(Places(u, V), Moved)
    <2>1. shift \in [Places(u, V) -> Moved]
      OBVIOUS
    <2>2. \A i, j \in Places(u, V) : shift[i] = shift[j] => i = j
      BY <1>1, <1>2
    <2>3. \A m \in Moved : \E j \in Places(u, V) : shift[j] = m
      OBVIOUS
    <2>. HIDE DEF shift, Moved
    <2>. QED BY <2>1, <2>2, <2>3 DEF Bijection, Injection, Surjection, IsInjective
  <1>5. IsFiniteSet(Moved) /\ Cardinality(Moved) = Cardinality(Places(u, V))
    BY <1>4, CountIsNatural, FS_Bijection DEF ExistsBijection
  <1>6. Places(s, V) \cap Moved = {}
    BY <1>1, <1>2
  <1>. HIDE DEF Moved
  <1>7. Cardinality(Places(s, V) \cup Moved) = Cardinality(Places(s, V)) + Cardinality(Moved) - 0
    BY <1>5, <1>6, CountIsNatural, FS_Union, FS_EmptySet
  <1>. QED
    BY <1>3, <1>5, <1>7, CountIsNatural DEF Count

-----------------------------------------------------------------------------
(* Sorting                                                                  *)

\* Ahead of i is what comes before it in a total order.
LEMMA AheadIsOrdered ==
  ASSUME NEW S, IsFiniteSet(S), S \subseteq Nat, NEW key \in [S -> Nat], NEW i \in S
  PROVE  /\ Ahead(S, key, i) \subseteq S /\ i \notin Ahead(S, key, i)
         /\ IsFiniteSet(Ahead(S, key, i))
         /\ Cardinality(Ahead(S, key, i)) \in Nat
         /\ Cardinality(Ahead(S, key, i)) < Cardinality(S)
         /\ \A j \in Ahead(S, key, i) :
              /\ key[j] <= key[i]
              /\ Cardinality(Ahead(S, key, j)) < Cardinality(Ahead(S, key, i))
         /\ \A j \in S : j = i \/ j \in Ahead(S, key, i) \/ i \in Ahead(S, key, j)
  <1>1. \A k \in S : Ahead(S, key, k) \subseteq S /\ k \notin Ahead(S, key, k)
    BY DEF Ahead
  <1>2. \A k \in S : IsFiniteSet(Ahead(S, key, k)) /\ Cardinality(Ahead(S, key, k)) \in Nat
    BY <1>1, FS_Subset, FS_CardinalityType
  <1>3. ASSUME NEW k \in S, NEW V, IsFiniteSet(V), V \subseteq S,
               Ahead(S, key, k) \cup {k} \subseteq V
        PROVE  Cardinality(Ahead(S, key, k)) < Cardinality(V)
    <2>1. Cardinality(Ahead(S, key, k) \cup {k}) = Cardinality(Ahead(S, key, k)) + 1
      BY <1>1, <1>2, FS_AddElement
    <2>2. Cardinality(Ahead(S, key, k) \cup {k}) <= Cardinality(V) /\ Cardinality(V) \in Nat
      BY <1>3, FS_Subset, FS_CardinalityType
    <2>. QED BY <1>2, <2>1, <2>2
  <1>4. ASSUME NEW j \in Ahead(S, key, i)
        PROVE  /\ j \in S /\ key[j] <= key[i]
               /\ Ahead(S, key, j) \cup {j} \subseteq Ahead(S, key, i)
    <2>1. j \in S /\ (key[j] < key[i] \/ (key[j] = key[i] /\ j < i))
      BY DEF Ahead
    <2>2. key[i] \in Nat /\ key[j] \in Nat /\ i \in Nat /\ j \in Nat
      BY <2>1
    <2>3. ASSUME NEW k \in Ahead(S, key, j) PROVE k \in Ahead(S, key, i)
      <3>1. k \in S /\ (key[k] < key[j] \/ (key[k] = key[j] /\ k < j))
        BY DEF Ahead
      <3>2. key[k] \in Nat /\ k \in Nat
        BY <3>1
      <3>3. key[k] < key[i] \/ (key[k] = key[i] /\ k < i)
        BY <2>1, <2>2, <3>1, <3>2
      <3>. QED BY <3>1, <3>3 DEF Ahead
    <2>4. key[j] <= key[i]
      BY <2>1, <2>2
    <2>5. Ahead(S, key, j) \cup {j} \subseteq Ahead(S, key, i)
      BY <2>3, Zenon
    <2>. QED BY <2>1, <2>4, <2>5
  <1>5. ASSUME NEW j \in Ahead(S, key, i)
        PROVE  Cardinality(Ahead(S, key, j)) < Cardinality(Ahead(S, key, i))
    BY <1>1, <1>2, <1>3, <1>4
  <1>6. Cardinality(Ahead(S, key, i)) < Cardinality(S)
    BY <1>1, <1>3
  <1>7. \A j \in S : j = i \/ j \in Ahead(S, key, i) \/ i \in Ahead(S, key, j)
    <2>. SUFFICES ASSUME NEW j \in S, j # i, j \notin Ahead(S, key, i)
                  PROVE  i \in Ahead(S, key, j)
      OBVIOUS
    <2>1. i \in Nat /\ j \in Nat /\ key[i] \in Nat /\ key[j] \in Nat
      OBVIOUS
    <2>2. key[i] < key[j] \/ (key[i] = key[j] /\ i < j)
      BY <2>1 DEF Ahead
    <2>. QED BY <2>2 DEF Ahead
  <1>. QED
    BY <1>1, <1>2, <1>4, <1>5, <1>6, <1>7

\* The first c places of o list every member of S once, smaller keys first.
ListsByKey(o, c, S, key) ==
  /\ c \in Nat /\ o \in [1..c -> S]
  /\ \A i \in S : \E n \in 1..c : o[n] = i
  /\ \A m, n \in 1..c : m < n => key[o[m]] <= key[o[n]] /\ o[m] # o[n]

LEMMA StableOrderSorts ==
  ASSUME NEW S, IsFiniteSet(S), S \subseteq Nat, NEW key \in [S -> Nat]
  PROVE  ListsByKey(StableOrder(S, key), Cardinality(S), S, key)
  <1>. DEFINE c == Cardinality(S)
              ahead(i) == Ahead(S, key, i)
              rank(i) == Cardinality(ahead(i))
              r == [i \in S |-> rank(i)]
              o == StableOrder(S, key)
  <1>1. c \in Nat
    BY FS_CardinalityType
  <1>2. \A i \in S : /\ rank(i) \in Nat /\ rank(i) < c
                     /\ \A j \in ahead(i) : key[j] <= key[i] /\ rank(j) < rank(i)
                     /\ \A j \in S : j = i \/ j \in ahead(i) \/ i \in ahead(j)
    BY AheadIsOrdered
  <1>3. o = [n \in 1..c |-> CHOOSE i \in S : rank(i) = n - 1]
    BY DEF StableOrder
  <1>. HIDE DEF c, ahead, rank, o
  <1>4. \A i, j \in S : rank(i) = rank(j) => i = j
    BY <1>2
  <1>5. r \in Injection(S, 0..(c - 1))
    <2>1. \A i \in S : rank(i) \in 0..(c - 1)
      BY <1>1, <1>2
    <2>. QED BY <1>4, <2>1 DEF Injection, IsInjective
  <1>6. r \in Surjection(S, 0..(c - 1))
    <2>1. IsFiniteSet(0..(c - 1)) /\ Cardinality(0..(c - 1)) = c
      BY <1>1, FS_Interval
    <2>. HIDE DEF r
    <2>. QED BY <1>5, <2>1, FS_Injection DEF c
  <1>7. \A n \in 1..c : o[n] \in S /\ rank(o[n]) = n - 1
    <2>. SUFFICES ASSUME NEW n \in 1..c PROVE o[n] \in S /\ rank(o[n]) = n - 1
      OBVIOUS
    <2>1. n - 1 \in 0..(c - 1)
      BY <1>1
    <2>2. \E i \in S : r[i] = n - 1
      BY <1>6, <2>1 DEF Surjection
    <2>3. \E i \in S : rank(i) = n - 1
      BY <2>2
    <2>4. o[n] = CHOOSE i \in S : rank(i) = n - 1
      BY <1>3
    <2>. QED BY <2>3, <2>4
  <1>8. o \in [1..c -> S]
    BY <1>3, <1>7
  <1>9. ASSUME NEW i \in S PROVE \E n \in 1..c : o[n] = i
    <2>1. rank(i) + 1 \in 1..c /\ (rank(i) + 1) - 1 = rank(i)
      BY <1>1, <1>2
    <2>. QED BY <1>4, <1>7, <2>1
  <1>10. ASSUME NEW m \in 1..c, NEW n \in 1..c, m < n
         PROVE  key[o[m]] <= key[o[n]] /\ o[m] # o[n]
    <2>1. o[m] \in S /\ o[n] \in S /\ rank(o[m]) < rank(o[n])
      BY <1>1, <1>7, <1>10
    <2>2. rank(o[m]) \in Nat /\ rank(o[n]) \in Nat
      BY <1>2, <2>1
    <2>3. o[m] # o[n]
      BY <2>1, <2>2
    <2>4. o[n] \notin ahead(o[m])
      <3>. SUFFICES ASSUME o[n] \in ahead(o[m]) PROVE FALSE
        OBVIOUS
      <3>1. rank(o[n]) < rank(o[m])
        BY <1>2, <2>1
      <3>. QED BY <2>1, <2>2, <3>1
    <2>5. o[m] \in ahead(o[n])
      BY <1>2, <2>1, <2>3, <2>4
    <2>. QED BY <1>2, <2>1, <2>3, <2>5
  <1>. QED
    BY <1>1, <1>8, <1>9, <1>10 DEF c, o, ListsByKey

-----------------------------------------------------------------------------
(* Exit codes                                                               *)

\* Every code has a rank of its own, its position in _SEVERITY_ORDER.
LEMMA RankOfCode ==
  /\ \A c \in Codes : SeverityRank[c] \in 1..9 /\ SeverityOrder[SeverityRank[c]] = c
  /\ SeverityRank[0] = 9
PROOF
  <1>1. ASSUME NEW c \in Codes
        PROVE  \E i \in 1..9 : SeverityOrder[i] = c
    <2>1. /\ SeverityOrder[1] = 6 /\ SeverityOrder[2] = 7 /\ SeverityOrder[3] = 4
          /\ SeverityOrder[4] = 5 /\ SeverityOrder[5] = 1 /\ SeverityOrder[6] = 8
          /\ SeverityOrder[7] = 9 /\ SeverityOrder[8] = 3 /\ SeverityOrder[9] = 0
      BY DEF SeverityOrder, ExitCode, RUNTIME_ERROR
    <2> QED BY <2>1 DEF Codes
  <1>2. ASSUME NEW i \in 1..9, SeverityOrder[i] = 0
        PROVE  i = 9
    BY <1>2 DEF SeverityOrder, ExitCode, RUNTIME_ERROR
  <1> QED BY <1>1, <1>2 DEF SeverityRank, Codes

\* The ranks tell the codes apart.
LEMMA RankInjective ==
  ASSUME NEW c \in Codes, NEW d \in Codes, SeverityRank[c] = SeverityRank[d]
  PROVE  c = d
PROOF BY RankOfCode

\* A non-empty set of codes has a most severe member.
LEMMA MostSevereExists ==
  ASSUME NEW S, S \subseteq Codes, S # {}
  PROVE  \E c \in S : \A d \in S : AtLeastAsSevere(c, d)
PROOF
  <1> DEFINE R == {SeverityRank[c] : c \in S}
  <1>1. R \subseteq 1..9 /\ R # {} BY RankOfCode
  <1>2. \E m \in R : \A n \in R : m <= n
    <2>1. CASE 1 \in R BY <2>1, <1>1
    <2>2. CASE 1 \notin R /\ 2 \in R BY <2>2, <1>1
    <2>3. CASE 1 \notin R /\ 2 \notin R /\ 3 \in R BY <2>3, <1>1
    <2>4. CASE 1 \notin R /\ 2 \notin R /\ 3 \notin R /\ 4 \in R BY <2>4, <1>1
    <2>5. CASE R \cap (1..4) = {} /\ 5 \in R BY <2>5, <1>1
    <2>6. CASE R \cap (1..5) = {} /\ 6 \in R BY <2>6, <1>1
    <2>7. CASE R \cap (1..6) = {} /\ 7 \in R BY <2>7, <1>1
    <2>8. CASE R \cap (1..7) = {} /\ 8 \in R BY <2>8, <1>1
    <2>9. CASE R \cap (1..8) = {} BY <2>9, <1>1
    <2> QED BY <2>1, <2>2, <2>3, <2>4, <2>5, <2>6, <2>7, <2>8, <2>9, <1>1
  <1> QED BY <1>2 DEF AtLeastAsSevere

\* What most_severe returns: the member no other member outranks.
LEMMA MostSevereWins ==
  ASSUME NEW S, S \subseteq Codes, S # {}
  PROVE  /\ MostSevere(S) \in S
         /\ \A d \in S : AtLeastAsSevere(MostSevere(S), d)
PROOF BY MostSevereExists DEF MostSevere

\* most_severe returns an exit code, for an empty collection too.
LEMMA MostSevereType ==
  ASSUME NEW S, S \subseteq Codes
  PROVE  MostSevere(S) \in Codes
PROOF BY MostSevereWins DEF MostSevere, Codes, ExitCode

\* No member outranked: that member is the result.
LEMMA MostSevereUnique ==
  ASSUME NEW S, S \subseteq Codes, NEW c \in S, \A d \in S : AtLeastAsSevere(c, d)
  PROVE  MostSevere(S) = c
PROOF
  <1>1. MostSevere(S) \in S /\ AtLeastAsSevere(MostSevere(S), c)
    BY MostSevereWins
  <1>2. AtLeastAsSevere(c, MostSevere(S)) BY <1>1
  <1> QED BY <1>1, <1>2, RankOfCode, RankInjective DEF AtLeastAsSevere

\* Exit code 0 means that no code but 0 was collected: every problem outranks it.
LEMMA OkIsAlone ==
  ASSUME NEW S, S \subseteq Codes, MostSevere(S) = ExitCode.OK
  PROVE  S \subseteq {ExitCode.OK}
PROOF
  <1> SUFFICES ASSUME NEW d \in S PROVE d = 0
    BY DEF ExitCode
  <1>1. MostSevere(S) = 0 /\ AtLeastAsSevere(0, d)
    BY MostSevereWins DEF ExitCode
  <1> QED BY <1>1, RankOfCode, RankInjective DEF AtLeastAsSevere, Codes

\* The batch exit code (main: most_severe over one code per target) is the most
\* severe over all the codes of all the checks of all the targets (each target's
\* code being _inspect's most_severe): folding in two stages loses nothing.
THEOREM TwoStageFold ==
  ASSUME NEW Targets, NEW CodesOf \in [Targets -> SUBSET Codes],
         \A t \in Targets : CodesOf[t] # {}
  PROVE  MostSevere({MostSevere(CodesOf[t]) : t \in Targets})
           = MostSevere(UNION {CodesOf[t] : t \in Targets})
PROOF
  <1> DEFINE All   == UNION {CodesOf[t] : t \in Targets}
             Worst == {MostSevere(CodesOf[t]) : t \in Targets}
  <1>1. \A t \in Targets : /\ MostSevere(CodesOf[t]) \in CodesOf[t]
                           /\ \A d \in CodesOf[t] : AtLeastAsSevere(MostSevere(CodesOf[t]), d)
    BY MostSevereWins
  <1>2. All \subseteq Codes /\ Worst \subseteq All
    BY <1>1
  <1>3. CASE Targets = {}
    <2>1. All = {} /\ Worst = {} BY <1>3
    <2> QED BY <2>1 DEF MostSevere
  <1>4. CASE Targets # {}
    <2>1. Worst # {} /\ Worst \subseteq Codes BY <1>4, <1>2
    <2> DEFINE w == MostSevere(Worst)
    <2>2. w \in Worst /\ \A d \in Worst : AtLeastAsSevere(w, d)
      BY <2>1, MostSevereWins
    <2> HIDE DEF w
    <2>3. ASSUME NEW d \in All PROVE AtLeastAsSevere(w, d)
      <3>1. PICK t \in Targets : d \in CodesOf[t] BY <2>3
      <3>2. AtLeastAsSevere(w, MostSevere(CodesOf[t])) BY <2>2
      <3>3. AtLeastAsSevere(MostSevere(CodesOf[t]), d) BY <1>1, <3>1
      <3>4. /\ SeverityRank[w] \in Int /\ SeverityRank[d] \in Int
            /\ SeverityRank[MostSevere(CodesOf[t])] \in Int
        BY RankOfCode, <2>2, <1>2, <1>1, <3>1
      <3> QED BY <3>2, <3>3, <3>4 DEF AtLeastAsSevere
    <2>4. w \in All BY <2>2, <1>2
    <2>5. MostSevere(All) = w BY <2>3, <2>4, <1>2, MostSevereUnique
    <2> QED BY <2>5 DEF w
  <1> QED BY <1>3, <1>4
=============================================================================
