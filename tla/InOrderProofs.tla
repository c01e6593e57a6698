---------------------------- MODULE InOrderProofs ----------------------------
(***************************************************************************)
(* That the members of a finite set are in the order of their numbers,     *)
(* each of them once, follows from how many of them come before each.      *)
(***************************************************************************)
EXTENDS InOrder, Integers, Sequences, FiniteSetTheorems, TLAPS

-----------------------------------------------------------------------------
(* Sets in order                                                           *)

\* A member with a smaller key has fewer members before it.
LEMMA RankMonotone ==
  ASSUME NEW S, IsFiniteSet(S), NEW key \in [S -> Int],
         \A s, t \in S : key[s] = key[t] => s = t,
         NEW i \in S, NEW j \in S
  PROVE  /\ Rank(S, key, i) \in 0..(Cardinality(S) - 1)
         /\ key[i] < key[j] => Rank(S, key, i) < Rank(S, key, j)
         /\ Rank(S, key, i) = Rank(S, key, j) => i = j
<1> DEFINE B(n) == {m \in S : key[m] < key[n]}
<1>1. \A n \in S : IsFiniteSet(B(n)) /\ Cardinality(B(n)) \in Nat
  BY FS_Subset, FS_CardinalityType
<1>2. ASSUME NEW m \in S, NEW n \in S, key[m] < key[n]
      PROVE  Cardinality(B(m)) < Cardinality(B(n))
  <2>0. \A s \in S : key[s] \in Int
    OBVIOUS
  <2>1. \A s \in S : key[s] < key[m] => key[s] < key[n]
    BY <1>2, <2>0
  <2>2. B(m) \subseteq B(n) /\ m \in B(n) /\ m \notin B(m)
    <3>1. B(m) \subseteq B(n)
      BY <2>1
    <3>2. m \in B(n)
      BY <1>2
    <3>3. ~(key[m] < key[m])
      BY <2>0
    <3> QED
      BY <3>1, <3>2, <3>3
  <2>3. B(m) # B(n)
    BY <2>2
  <2> HIDE DEF B
  <2> QED
    BY <1>1, <2>2, <2>3, FS_Subset
<1>3. Cardinality(B(i)) < Cardinality(S)
  <2>1. B(i) \in SUBSET S /\ i \in S /\ i \notin B(i)
    OBVIOUS
  <2>2. B(i) # S
    BY <2>1
  <2>3. Cardinality(S) \in Nat
    BY FS_CardinalityType
  <2> HIDE DEF B
  <2> QED
    BY <1>1, <2>1, <2>2, <2>3, FS_Subset
<1>4. Cardinality(S) \in Nat
  BY FS_CardinalityType
<1>5. Rank(S, key, i) = Cardinality(B(i)) /\ Rank(S, key, j) = Cardinality(B(j))
  BY DEF Rank
<1>6. key[i] < key[j] \/ key[j] < key[i] \/ i = j
  <2>1. key[i] \in Int /\ key[j] \in Int
    OBVIOUS
  <2> QED
    BY <2>1
<1> HIDE DEF B
<1> QED
  BY <1>1, <1>2, <1>3, <1>4, <1>5, <1>6

\* Each place has its member.
LEMMA RankOnto ==
  ASSUME NEW S, IsFiniteSet(S), NEW key \in [S -> Int],
         \A s, t \in S : key[s] = key[t] => s = t,
         NEW k \in 1..Cardinality(S)
  PROVE  \E i \in S : Rank(S, key, i) = k - 1
<1> DEFINE n == Cardinality(S)
           f == [i \in S |-> Rank(S, key, i)]
<1>1. n \in Nat
  BY FS_CardinalityType
<1>2. IsFiniteSet(0..(n - 1)) /\ Cardinality(0..(n - 1)) = n
  <2> HIDE DEF n
  <2>1. 0 \in Int /\ n - 1 \in Int
    BY <1>1
  <2>2. /\ IsFiniteSet(0..(n - 1))
        /\ Cardinality(0..(n - 1)) = IF 0 > n - 1 THEN 0 ELSE (n - 1) - 0 + 1
    BY <2>1, FS_Interval
  <2> QED
    BY <1>1, <2>2
<1>3. f \in Injection(S, 0..(n - 1))
  BY RankMonotone DEF Injection, IsInjective
<1>4. f \in Surjection(S, 0..(n - 1))
  BY <1>2, <1>3, FS_Injection
<1>5. k - 1 \in 0..(n - 1)
  BY <1>1
<1> QED
  BY <1>4, <1>5 DEF Surjection

\* seq lists the members of S, those with smaller keys first.
Lists(seq, n, S, key) ==
  /\ n \in Nat /\ seq \in [1..n -> S]
  /\ \A s \in S : \E k \in 1..n : seq[k] = s
  /\ \A k, l \in 1..n : k < l => key[seq[k]] < key[seq[l]]

\* ByKey does.
LEMMA ByKeyLists ==
  ASSUME NEW S, IsFiniteSet(S), NEW key \in [S -> Int],
         \A s, t \in S : key[s] = key[t] => s = t
  PROVE  Lists(ByKey(S, key), Cardinality(S), S, key)
<1>0. Cardinality(S) \in Nat
  BY FS_CardinalityType
<1>1. \A k \in 1..Cardinality(S) :
        ByKey(S, key)[k] \in S /\ Rank(S, key, ByKey(S, key)[k]) = k - 1
  BY RankOnto DEF ByKey
<1>2. ByKey(S, key) \in [1..Cardinality(S) -> S]
  BY <1>1 DEF ByKey
<1>3. ASSUME NEW i \in S
      PROVE  \E k \in 1..Cardinality(S) : ByKey(S, key)[k] = i
  <2>1. Rank(S, key, i) \in 0..(Cardinality(S) - 1)
    BY RankMonotone
  <2>2. Rank(S, key, i) + 1 \in 1..Cardinality(S) /\ (Rank(S, key, i) + 1) - 1 = Rank(S, key, i)
    BY <1>0, <2>1
  <2> QED
    BY <1>1, <2>2, RankMonotone
<1>4. ASSUME NEW k \in 1..Cardinality(S), NEW l \in 1..Cardinality(S), k < l
      PROVE  key[ByKey(S, key)[k]] < key[ByKey(S, key)[l]]
  <2> DEFINE a == ByKey(S, key)[k]
             c == ByKey(S, key)[l]
  <2>1. a \in S /\ c \in S /\ Rank(S, key, a) = k - 1 /\ Rank(S, key, c) = l - 1
    BY <1>1
  <2>2. key[c] < key[a] => Rank(S, key, c) < Rank(S, key, a)
    BY <2>1, RankMonotone
  <2>3. key[a] = key[c] => a = c
    BY <2>1
  <2>4. key[a] \in Int /\ key[c] \in Int
    BY <2>1
  <2> HIDE DEF a, c
  <2>5. key[a] < key[c]
    BY <1>0, <1>4, <2>1, <2>2, <2>3, <2>4
  <2> QED
    BY <2>5 DEF a, c
<1> QED
  BY <1>0, <1>2, <1>3, <1>4 DEF Lists

\* A list does not name a member twice.
LEMMA ListsOnce ==
  ASSUME NEW S, NEW key \in [S -> Int], NEW n, NEW seq, Lists(seq, n, S, key),
         NEW k \in 1..n, NEW l \in 1..n
  PROVE  /\ seq[k] = seq[l] => k = l
         /\ key[seq[k]] < key[seq[l]] <=> k < l
<1>1. n \in Nat /\ seq[k] \in S /\ seq[l] \in S
  BY DEF Lists
<1>2. key[seq[k]] \in Int /\ key[seq[l]] \in Int
  BY <1>1
<1>3. (k < l => key[seq[k]] < key[seq[l]]) /\ (l < k => key[seq[l]] < key[seq[k]])
  BY DEF Lists
<1> QED
  BY <1>1, <1>2, <1>3

\* Members of a list have different keys.
LEMMA ListsKeys ==
  ASSUME NEW S, NEW key \in [S -> Int], NEW n, NEW seq, Lists(seq, n, S, key)
  PROVE  \A s, t \in S : key[s] = key[t] => s = t
<1> SUFFICES ASSUME NEW s \in S, NEW t \in S, key[s] = key[t]
             PROVE  s = t
  OBVIOUS
<1>1. PICK k \in 1..n : seq[k] = s
  BY DEF Lists
<1>2. PICK l \in 1..n : seq[l] = t
  BY DEF Lists
<1>3. ~(k < l) /\ ~(l < k)
  <2>1. key[s] \in Int /\ ~(key[s] < key[t]) /\ ~(key[t] < key[s])
    OBVIOUS
  <2> QED
    BY <1>1, <1>2, <2>1, ListsOnce
<1>4. n \in Nat
  BY DEF Lists
<1> QED
  BY <1>1, <1>2, <1>3, <1>4

\* There is one list only.
LEMMA ListsUnique ==
  ASSUME NEW S, NEW key \in [S -> Int], NEW n, NEW seq, Lists(seq, n, S, key)
  PROVE  IsFiniteSet(S) /\ Cardinality(S) = n /\ ByKey(S, key) = seq
<1>0. n \in Nat /\ seq \in [1..n -> S]
  BY DEF Lists
<1>1. seq \in Bijection(1..n, S)
  BY ListsOnce DEF Lists, Bijection, Injection, Surjection, IsInjective
<1>2. IsFiniteSet(S) /\ Cardinality(S) = n
  <2>1. IsFiniteSet(1..n) /\ Cardinality(1..n) = n
    <3>1. 1 \in Int /\ n \in Int
      BY <1>0
    <3>2. /\ IsFiniteSet(1..n)
          /\ Cardinality(1..n) = IF 1 > n THEN 0 ELSE n - 1 + 1
      BY <3>1, FS_Interval
    <3> QED
      BY <1>0, <3>2
  <2>2. ExistsBijection(1..n, S)
    BY <1>1 DEF ExistsBijection
  <2> QED
    BY <2>1, <2>2, FS_Bijection
<1>3. \A s, t \in S : key[s] = key[t] => s = t
  BY ListsKeys
<1>4. ASSUME NEW k \in 1..n
      PROVE  Rank(S, key, seq[k]) = k - 1
  <2> DEFINE m == k - 1
             first == [i \in 1..m |-> seq[i]]
             before == {t \in S : key[t] < key[seq[k]]}
  <2>1. m \in Nat /\ \A i : i \in 1..m <=> i \in 1..n /\ i < k
    BY <1>0
  <2> HIDE DEF m
  <2>2. \A i \in 1..m : first[i] \in before
    BY <1>0, <2>1 DEF Lists
  <2>3. \A t \in before : \E i \in 1..m : first[i] = t
    <3> SUFFICES ASSUME NEW t \in before
                 PROVE  \E i \in 1..m : first[i] = t
      OBVIOUS
    <3>1. PICK i \in 1..n : seq[i] = t
      BY DEF Lists
    <3>2. i < k
      BY <3>1, ListsOnce
    <3> QED
      BY <2>1, <3>1, <3>2
  <2>4. \A i, j \in 1..m : first[i] = first[j] => i = j
    BY <2>1, ListsOnce
  <2>5. first \in Bijection(1..m, before)
    <3>1. first \in [1..m -> before]
      BY <2>2
    <3> HIDE DEF first, before
    <3> QED
      BY <2>3, <2>4, <3>1 DEF Bijection, Injection, Surjection, IsInjective
  <2> HIDE DEF first, before
  <2>6. IsFiniteSet(1..m) /\ Cardinality(1..m) = m
    <3>1. 1 \in Int /\ m \in Int
      BY <2>1
    <3>2. /\ IsFiniteSet(1..m)
          /\ Cardinality(1..m) = IF 1 > m THEN 0 ELSE m - 1 + 1
      BY <3>1, FS_Interval
    <3> QED
      BY <2>1, <3>2
  <2>7. ExistsBijection(1..m, before)
    BY <2>5 DEF ExistsBijection
  <2>8. Cardinality(before) = m
    BY <2>6, <2>7, FS_Bijection
  <2> QED
    BY <2>8 DEF Rank, before, m
<1>5. ASSUME NEW k \in 1..n
      PROVE  ByKey(S, key)[k] = seq[k]
  <2>1. ByKey(S, key)[k] = CHOOSE s \in S : Rank(S, key, s) = k - 1
    BY <1>2 DEF ByKey
  <2>2. \A s \in S : Rank(S, key, s) = k - 1 => s = seq[k]
    <3>1. seq[k] \in S /\ Rank(S, key, seq[k]) = k - 1
      BY <1>0, <1>4
    <3>2. \A i, j \in S : Rank(S, key, i) = Rank(S, key, j) => i = j
      BY <1>2, <1>3, RankMonotone
    <3> QED
      BY <3>1, <3>2
  <2> QED
    BY <1>0, <1>4, <2>1, <2>2
<1>6. ByKey(S, key) = [k \in 1..n |-> ByKey(S, key)[k]]
  BY <1>2 DEF ByKey
<1> QED
  BY <1>0, <1>2, <1>5, <1>6

\* Selected has what the sequence has at the positions, each once.
LEMMA SelectedFacts ==
  ASSUME NEW T, NEW seq \in Seq(T), NEW S \in SUBSET (DOMAIN seq)
  PROVE  /\ Selected(seq, S) \in Seq(T)
         /\ \A i \in S : \E k \in DOMAIN Selected(seq, S) : Selected(seq, S)[k] = seq[i]
         /\ \A k \in DOMAIN Selected(seq, S) :
              Ascending(S)[k] \in S /\ Selected(seq, S)[k] = seq[Ascending(S)[k]]
         /\ \A k, l \in DOMAIN Selected(seq, S) :
              Ascending(S)[k] = Ascending(S)[l] => k = l
<1> DEFINE key == [i \in S |-> i]
<1>1. S \in SUBSET Int /\ IsFiniteSet(S)
  BY FS_Interval, FS_Subset
<1>2. key \in [S -> Int] /\ \A i, j \in S : key[i] = key[j] => i = j
  BY <1>1
<1> HIDE DEF key
<1>3. Lists(Ascending(S), Cardinality(S), S, key)
  BY <1>1, <1>2, ByKeyLists DEF Ascending, key
<1>4. /\ Cardinality(S) \in Nat
      /\ \A k \in 1..Cardinality(S) : Ascending(S)[k] \in S
      /\ \A i \in S : \E k \in 1..Cardinality(S) : Ascending(S)[k] = i
      /\ \A k, l \in 1..Cardinality(S) : Ascending(S)[k] = Ascending(S)[l] => k = l
  <2>1. \A k, l \in 1..Cardinality(S) : Ascending(S)[k] = Ascending(S)[l] => k = l
    BY <1>2, <1>3, ListsOnce
  <2> QED
    BY <1>3, <2>1 DEF Lists
<1>5. DOMAIN Selected(seq, S) = 1..Cardinality(S)
  BY DEF Selected
<1>6. \A k \in 1..Cardinality(S) : Selected(seq, S)[k] = seq[Ascending(S)[k]]
  BY DEF Selected
<1>7. Selected(seq, S) \in Seq(T)
  BY <1>4 DEF Selected
<1> QED
  BY <1>4, <1>5, <1>6, <1>7

\* Of finitely many, one has the least number.
LEMMA Least ==
  ASSUME NEW S, IsFiniteSet(S), S # {}, NEW key \in [S -> Int]
  PROVE  \E s \in S : \A t \in S : key[s] <= key[t]
<1> DEFINE T == {key[s] : s \in S}
           id == [i \in T |-> i]
<1>1. key \in Surjection(S, T)
  BY DEF Surjection
<1>2. T \subseteq Int /\ T # {}
  OBVIOUS
<1>3. \A t \in T : \E s \in S : t = key[s]
  OBVIOUS
<1>4. \A s \in S : key[s] \in T
  OBVIOUS
<1> HIDE DEF T
<1>5. IsFiniteSet(T) /\ Cardinality(T) \in Nat /\ Cardinality(T) # 0
  BY <1>1, <1>2, FS_Surjection, FS_CardinalityType, FS_EmptySet
<1>6. 1 \in 1..Cardinality(T)
  BY <1>5
<1>7. id \in [T -> Int] /\ \A s, t \in T : id[s] = id[t] => s = t
  BY <1>2
<1>8. PICK i \in T : Rank(T, id, i) = 1 - 1
  BY <1>5, <1>6, <1>7, RankOnto
<1>9. {t \in T : id[t] < id[i]} = {}
  <2>1. Cardinality({t \in T : id[t] < id[i]}) = 0
    BY <1>8 DEF Rank
  <2>2. IsFiniteSet({t \in T : id[t] < id[i]})
    BY <1>5, FS_Subset
  <2> QED
    BY <2>1, <2>2, FS_EmptySet
<1>10. \A t \in T : i <= t
  <2>1. \A t \in T : ~(t < i)
    BY <1>9
  <2> QED
    BY <1>2, <2>1
<1> QED
  BY <1>3, <1>4, <1>8, <1>10

-----------------------------------------------------------------------------
(* What is in a sequence                                                   *)

\* The elements of a sequence.
Within(s) == {s[i] : i \in DOMAIN s}

\* The elements of two sequences, one behind the other.
LEMMA WithinJoined ==
  ASSUME NEW T, NEW s \in Seq(T), NEW t \in Seq(T)
  PROVE  s \o t \in Seq(T) /\ Within(s \o t) = Within(s) \cup Within(t)
<1> DEFINE r == s \o t
<1>1. /\ r \in Seq(T) /\ Len(r) = Len(s) + Len(t) /\ Len(s) \in Nat /\ Len(t) \in Nat
      /\ DOMAIN s = 1..Len(s) /\ DOMAIN t = 1..Len(t) /\ DOMAIN r = 1..Len(r)
  OBVIOUS
<1>2. \A i \in 1..Len(s) : r[i] = s[i]
  OBVIOUS
<1>3. \A i \in 1..Len(t) : r[Len(s) + i] = t[i]
  OBVIOUS
<1> HIDE DEF r
<1>4. \A i \in 1..Len(r) : i \in 1..Len(s) \/ (i - Len(s) \in 1..Len(t) /\ Len(s) + (i - Len(s)) = i)
  BY <1>1
<1>5. ASSUME NEW i \in 1..Len(r)
      PROVE  r[i] \in Within(s) \cup Within(t)
  <2>1. CASE i \in 1..Len(s)
    BY <1>1, <1>2, <2>1 DEF Within
  <2>2. CASE i \notin 1..Len(s)
    <3>1. i - Len(s) \in 1..Len(t) /\ Len(s) + (i - Len(s)) = i
      BY <1>4, <2>2
    <3> QED
      BY <1>1, <1>3, <3>1 DEF Within
  <2> QED
    BY <2>1, <2>2
<1>6. \A i \in 1..Len(s) : i \in 1..Len(r)
  BY <1>1
<1>7. \A i \in 1..Len(t) : Len(s) + i \in 1..Len(r)
  BY <1>1
<1>8. \A i \in 1..Len(s) : s[i] \in Within(r)
  BY <1>1, <1>2, <1>6 DEF Within
<1>9. \A i \in 1..Len(t) : t[i] \in Within(r)
  BY <1>1, <1>3, <1>7 DEF Within
<1> QED
  BY <1>1, <1>5, <1>8, <1>9 DEF Within, r

\* The elements at some positions.
LEMMA WithinSelected ==
  ASSUME NEW T, NEW s \in Seq(T), NEW S \in SUBSET (DOMAIN s)
  PROVE  /\ Selected(s, S) \in Seq(T) /\ Within(Selected(s, S)) = {s[i] : i \in S}
BY SelectedFacts DEF Within

\* A sequence of one.
LEMMA WithinOne ==
  ASSUME NEW T, NEW v \in T
  PROVE  <<v>> \in Seq(T) /\ Within(<<v>>) = {v} /\ \A s \in Seq(T) : Append(s, v) = s \o <<v>>
<1>1. <<v>> \in Seq(T) /\ DOMAIN <<v>> = {1} /\ <<v>>[1] = v
  OBVIOUS
<1>2. \A s \in Seq(T) : Append(s, v) = s \o <<v>>
  <2> SUFFICES ASSUME NEW s \in Seq(T)
               PROVE  Append(s, v) = s \o <<v>>
    OBVIOUS
  <2>1. /\ Append(s, v) \in Seq(T) /\ s \o <<v>> \in Seq(T)
        /\ Len(Append(s, v)) = Len(s) + 1 /\ Len(s \o <<v>>) = Len(s) + 1 /\ Len(s) \in Nat
    OBVIOUS
  <2>2. \A i \in 1..Len(s) + 1 : Append(s, v)[i] = (s \o <<v>>)[i]
    OBVIOUS
  <2> QED
    BY <2>1, <2>2
<1> QED
  BY <1>1, <1>2 DEF Within

\* A sequence without its i-th element.
LEMMA WithoutOne ==
  ASSUME NEW S, NEW s \in Seq(S), NEW i \in DOMAIN s
  PROVE  LET t == SubSeq(s, 1, i - 1) \o SubSeq(s, i + 1, Len(s))
         IN /\ t \in Seq(S) /\ Len(t) = Len(s) - 1
            /\ \A j \in DOMAIN t : t[j] = s[IF j < i THEN j ELSE j + 1]
            /\ \A j \in DOMAIN s \ {i} : \E k \in DOMAIN t : t[k] = s[j]
<1> DEFINE a == SubSeq(s, 1, i - 1)
           b == SubSeq(s, i + 1, Len(s))
           t == a \o b
<1>1. i \in 1..Len(s) /\ Len(s) \in Nat
  OBVIOUS
<1>2. a \in Seq(S) /\ Len(a) = i - 1 /\ \A j \in 1..i - 1 : a[j] = s[j]
  BY <1>1
<1>3. b \in Seq(S) /\ Len(b) = Len(s) - i /\ \A j \in 1..Len(s) - i : b[j] = s[i + j]
  BY <1>1
<1> HIDE DEF a, b
<1>4. t \in Seq(S) /\ Len(t) = Len(s) - 1
  BY <1>1, <1>2, <1>3
<1>5. DOMAIN t = 1..Len(s) - 1
  BY <1>4
<1>6. \A j \in DOMAIN t : t[j] = IF j <= Len(a) THEN a[j] ELSE b[j - Len(a)]
  BY <1>2, <1>3
<1> HIDE DEF t
<1>7. \A j \in DOMAIN t : t[j] = s[IF j < i THEN j ELSE j + 1]
  <2> SUFFICES ASSUME NEW j \in 1..Len(s) - 1
               PROVE  t[j] = s[IF j < i THEN j ELSE j + 1]
    BY <1>5
  <2>1. CASE j < i
    BY <1>1, <1>2, <1>5, <1>6, <2>1
  <2>2. CASE j >= i
    <3>1. t[j] = b[j - (i - 1)]
      <4>1. j \in DOMAIN t /\ ~(j <= Len(a)) /\ Len(a) = i - 1
        BY <1>1, <1>2, <1>5, <2>2
      <4> QED
        BY <1>6, <4>1
    <3>2. j - (i - 1) \in 1..Len(s) - i /\ i + (j - (i - 1)) = j + 1
      BY <1>1, <2>2
    <3> QED
      BY <1>1, <1>3, <3>1, <3>2, <2>2
  <2> QED
    BY <1>1, <2>1, <2>2
<1>8. \A j \in DOMAIN s \ {i} : \E k \in DOMAIN t : t[k] = s[j]
  <2> SUFFICES ASSUME NEW j \in 1..Len(s), j # i
               PROVE  \E k \in DOMAIN t : t[k] = s[j]
    OBVIOUS
  <2>1. CASE j < i
    BY <1>1, <1>5, <1>7, <2>1
  <2>2. CASE j > i
    <3>1. j - 1 \in 1..Len(s) - 1 /\ ~(j - 1 < i) /\ (j - 1) + 1 = j
      BY <1>1, <2>2
    <3> QED
      BY <1>5, <1>7, <3>1
  <2> QED
    BY <1>1, <2>1, <2>2
<1> QED
  BY <1>4, <1>7, <1>8 DEF t, a, b

-----------------------------------------------------------------------------
(* Step by step                                                            *)

\* What holds of 0 and is handed on holds of all numbers up to n.
LEMMA UpTo ==
  ASSUME NEW n \in Nat, NEW S, 0 \in S, \A i \in 1..n : i - 1 \in S => i \in S
  PROVE  \A i \in 0..n : i \in S
<1> SUFFICES ASSUME NEW j \in 0..n, j \notin S
             PROVE  FALSE
  OBVIOUS
<1> DEFINE D == {i \in 0..n : i \notin S}
           key == [i \in D |-> i]
<1>1. IsFiniteSet(0..n)
  <2>1. 0 \in Int /\ n \in Int
    OBVIOUS
  <2> QED
    BY <2>1, FS_Interval
<1>2. IsFiniteSet(D)
  BY <1>1, FS_Subset
<1>3. D # {} /\ key \in [D -> Int] /\ D \subseteq 0..n
  OBVIOUS
<1>4. \A i \in D : key[i] = i /\ i \notin S
  OBVIOUS
<1>5. \A i \in 0..n : i \notin S => i \in D
  OBVIOUS
<1> HIDE DEF D, key
<1>6. PICK i \in D : \A k \in D : key[i] <= key[k]
  BY <1>2, <1>3, Least
<1>7. i \in 0..n /\ i \notin S /\ i # 0
  BY <1>3, <1>4
<1>8. i - 1 \in 0..n /\ i \in 1..n
  BY <1>7
<1>9. i - 1 \in S
  <2>1. i - 1 \in D => i <= i - 1
    BY <1>4, <1>6
  <2> QED
    BY <1>5, <1>7, <1>8, <2>1
<1> QED
  BY <1>7, <1>8, <1>9

\* n steps, each from a member of T to another.
Stepping(n, T, f) == n \in Nat /\ \A i \in 1..n : f[i] \in [T -> T]

\* What they come to from a.
Steps(n, T, f, a) == {g \in [0..n -> T] : g[0] = a /\ \A i \in 1..n : g[i] = f[i][g[i - 1]]}

\* One step after the other can be taken.
LEMMA StepsTaken ==
  ASSUME NEW n, NEW T, NEW f, NEW a \in T, Stepping(n, T, f)
  PROVE  Steps(n, T, f, a) # {}
<1> DEFINE S == {m \in 0..n : \E g \in [0..m -> T] : g[0] = a /\ \A i \in 1..m : g[i] = f[i][g[i - 1]]}
<1>0. n \in Nat /\ \A i \in 1..n : f[i] \in [T -> T]
  BY DEF Stepping
<1>1. 0 \in S
  <2> DEFINE g == [i \in 0..0 |-> a]
  <2>1. g \in [0..0 -> T] /\ g[0] = a
    OBVIOUS
  <2>2. \A i \in 1..0 : g[i] = f[i][g[i - 1]]
    OBVIOUS
  <2> HIDE DEF g
  <2>3. 0 \in 0..n
    BY <1>0
  <2> QED
    BY ONLY <2>1, <2>2, <2>3 DEF S
<1>2. ASSUME NEW m \in 1..n, m - 1 \in S
      PROVE  m \in S
  <2>1. PICK g \in [0..(m - 1) -> T] : g[0] = a /\ \A i \in 1..(m - 1) : g[i] = f[i][g[i - 1]]
    BY <1>2
  <2> DEFINE x == f[m][g[m - 1]]
             h == [i \in 0..m |-> IF i = m THEN x ELSE g[i]]
  <2>2. m - 1 \in 0..(m - 1) /\ 0 \in 0..(m - 1) /\ m - 1 \in 0..m /\ 0 # m
    BY <1>0
  <2>3. x \in T
    <3>1. g[m - 1] \in T /\ f[m] \in [T -> T]
      BY <1>0, <2>2
    <3> QED
      BY ONLY <3>1
  <2> HIDE DEF x
  <2>4. h \in [0..m -> T]
    <3>1. \A i \in 0..m : i # m => i \in 0..(m - 1)
      BY <1>0
    <3> QED
      BY <2>3, <3>1
  <2>5. h[0] = a /\ h[m] = x /\ \A i \in 0..(m - 1) : h[i] = g[i]
    BY <2>1, <2>2
  <2> HIDE DEF h
  <2>6. \A i \in 1..m : h[i] = f[i][h[i - 1]]
    <3> SUFFICES ASSUME NEW i \in 1..m
                 PROVE  h[i] = f[i][h[i - 1]]
      OBVIOUS
    <3>1. i - 1 \in 0..(m - 1) /\ (i # m => i \in 1..(m - 1) /\ i \in 0..(m - 1))
      BY <1>0
    <3>2. h[i - 1] = g[i - 1]
      BY <2>5, <3>1
    <3>3. CASE i = m
      BY <2>5, <3>2, <3>3 DEF x
    <3>4. CASE i # m
      BY <2>1, <2>5, <3>1, <3>2, <3>4
    <3> QED
      BY <3>3, <3>4
  <2>7. m \in 0..n
    BY <1>0
  <2> QED
    BY <2>4, <2>5, <2>6, <2>7
<1>3. n \in 0..n
  BY <1>0
<1> HIDE DEF S
<1>4. n \in S
  BY <1>0, <1>1, <1>2, <1>3, UpTo
<1> QED
  BY <1>4 DEF S, Steps

=============================================================================
