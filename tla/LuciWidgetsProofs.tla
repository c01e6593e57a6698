------------------------- MODULE LuciWidgetsProofs --------------------------
(***************************************************************************)
(* What the parts of a page keep, whatever the user does and whatever the  *)
(* device answers: dropdowns, lists, tabs, the table of packages, the      *)
(* browser of files, the loader of classes, and the rows of a table of     *)
(* sections.  What is known of the types of a dropdown comes last.         *)
(*                                                                         *)
(* Each has an inductive invariant in its module, under "Why".  It is      *)
(* shown to hold at first (...Start) and to be kept (...Step) action by    *)
(* action; what is known of the variables is collected in a lemma first.   *)
(***************************************************************************)
EXTENDS LuciPages, InOrderProofs

-----------------------------------------------------------------------------
(* Dropdowns                                                               *)

Shown == Drop!DropValue \cup {Drop!Placeholder}

Picked == Shown \cup {Drop!TextField}

Boxes ==
  [items : Seq(Shown), selected : SUBSET Picked, created : Shown \cup {Drop!None},
   hidden : SUBSET (Drop!DropValue \cup {Drop!TextField})]

\* What is selected is among the items, or the text field of a dropdown that
\* holds one value.
Stands(b) ==
  /\ b \in Boxes /\ b.selected \subseteq Within(b.items) \cup {Drop!TextField}
  /\ Drop!TextField \in b.selected => ~v1.multiple /\ b.selected = {Drop!TextField}
  /\ Drop!Placeholder \in Within(b.items) => ~v1.multiple /\ v1.optional

\* The inputs are what is selected.
Holding(b) == Stands(b) /\ (b.selected # {} => b.hidden = b.selected \ {Drop!Placeholder})

\* The instance has the operators of the theorems.
LEMMA DropOperators ==
  /\ \A s, S : Drop!Order!Selected(s, S) = Selected(s, S)
  /\ \A S : Drop!Cardinality(S) = Cardinality(S) /\ Drop!Seqs!Cardinality(S) = Cardinality(S)
  /\ \A b : Drop!InBox(b) = Within(b.items)
<1>1. \A S : Drop!Order!Cardinality(S) = Cardinality(S)
  BY DEF Drop!Order!Cardinality, Cardinality
<1>2. \A S, key, s : Drop!Order!Rank(S, key, s) = Rank(S, key, s)
  BY <1>1 DEF Drop!Order!Rank, Rank
<1>3. \A S, key : Drop!Order!ByKey(S, key) = ByKey(S, key)
  BY <1>1, <1>2 DEF Drop!Order!ByKey, ByKey
<1>4. \A S : Drop!Order!Ascending(S) = Ascending(S)
  BY <1>3 DEF Drop!Order!Ascending, Ascending
<1>5. \A s, S : Drop!Order!Selected(s, S) = Selected(s, S)
  BY <1>1, <1>4 DEF Drop!Order!Selected, Selected
<1>6. \A S : Drop!Cardinality(S) = Cardinality(S) /\ Drop!Seqs!Cardinality(S) = Cardinality(S)
  BY DEF Drop!Cardinality, Drop!Seqs!Cardinality, Cardinality
<1>7. \A b : Drop!InBox(b) = Within(b.items)
  BY DEF Drop!InBox, Within
<1> QED
  BY <1>5, <1>6, <1>7

\* A sequence of a set has all its members.
LEMMA SetInSequence ==
  ASSUME NEW S, IsFiniteSet(S)
  PROVE  Drop!Seqs!SetToSeq(S) \in Seq(S) /\ Within(Drop!Seqs!SetToSeq(S)) = S
<1> DEFINE n == Cardinality(S)
           Once(f) == \A i, j \in DOMAIN f : f[i] = f[j] => i = j
           q == Drop!Seqs!SetToSeq(S)
<1>1. q = CHOOSE f \in [1..n -> S] : Once(f)
  BY DropOperators DEF Drop!Seqs!SetToSeq, Drop!Seqs!IsInjective
<1>2. PICK m \in Nat : ExistsBijection(1..m, S)
  BY FS_NatBijection
<1>3. m = n
  BY <1>2, FS_CountingElements
<1>4. PICK f : f \in Bijection(1..n, S)
  BY <1>2, <1>3 DEF ExistsBijection
<1>5. f \in [1..n -> S] /\ Once(f)
  BY <1>4 DEF Bijection, Injection, IsInjective
<1>6. q \in [1..n -> S] /\ Once(q)
  BY <1>1, <1>5
<1>7. IsFiniteSet(1..n) /\ Cardinality(1..n) = n /\ n \in Nat
  BY <1>2, <1>3, <1>4, FS_Interval
<1> HIDE DEF q
<1>8. q \in Injection(1..n, S)
  BY <1>6 DEF Injection, IsInjective
<1>9. q \in Surjection(1..n, S)
  BY <1>7, <1>8, FS_Injection
<1>10. q \in Seq(S)
  BY <1>6, <1>7
<1>11. Within(q) = S
  BY <1>6, <1>9 DEF Within, Surjection
<1> QED
  BY <1>10, <1>11 DEF q

\* There are finitely many values.
LEMMA ValuesAreFinite ==
  /\ IsFiniteSet(Drop!DropValue) /\ Choice \in Seq(Drop!DropValue)
  /\ Drop!Placeholder \notin Drop!DropValue /\ Drop!TextField \notin Shown
<1> DEFINE C == {Choice[i] : i \in DOMAIN Choice}
<1>1. Choice \in Seq(C) /\ IsFiniteSet(Typed)
  BY DropAssumption
<1>2. IsFiniteSet(DOMAIN Choice)
  BY <1>1, FS_Interval
<1>3. Choice \in Surjection(DOMAIN Choice, C)
  BY <1>1 DEF Surjection
<1>4. IsFiniteSet(C)
  BY <1>2, <1>3, FS_Surjection
<1>5. IsFiniteSet(C \cup Typed)
  BY <1>1, <1>4, FS_Union
<1>6. Drop!DropValue = C \cup Typed
  BY DEF Drop!DropValue
<1>7. Choice \in Seq(C \cup Typed)
  BY <1>1
<1> QED
  BY <1>5, <1>6, <1>7, DropAssumption DEF Drop!Placeholder, Drop!TextField, Shown

\* The inputs are made anew.
LEMMA SavedHolds ==
  ASSUME NEW b, Stands(b)
  PROVE  /\ Holding(Drop!Saved(b)) /\ Drop!Saved(b).items = b.items
         /\ Drop!Saved(b).selected = b.selected /\ Drop!Saved(b).created = b.created
         /\ Drop!Saved(b).hidden = b.selected \ {Drop!Placeholder}
<1> DEFINE c == Drop!Saved(b)
<1>1. b \in Boxes
  BY DEF Stands
<1>2. c = [b EXCEPT !.hidden = b.selected \ {Drop!Placeholder}]
  BY DEF Drop!Saved
<1>3. /\ c.items = b.items /\ c.selected = b.selected /\ c.created = b.created
      /\ c.hidden = b.selected \ {Drop!Placeholder}
  BY <1>1, <1>2 DEF Boxes
<1>4. c \in Boxes
  BY <1>1, <1>2 DEF Boxes, Picked, Shown
<1> HIDE DEF c
<1>5. Holding(c)
  BY <1>3, <1>4 DEF Holding, Stands
<1> QED
  BY <1>3, <1>5 DEF c

\* Others of the items are selected.
LEMMA SelectedAnew ==
  ASSUME NEW b, Stands(b), NEW s \in SUBSET Within(b.items)
  PROVE  /\ Holding(Drop!Saved([b EXCEPT !.selected = s]))
         /\ Drop!Saved([b EXCEPT !.selected = s]).items = b.items
         /\ Drop!Saved([b EXCEPT !.selected = s]).selected = s
         /\ Drop!Saved([b EXCEPT !.selected = s]).hidden = s \ {Drop!Placeholder}
<1> DEFINE c == [b EXCEPT !.selected = s]
<1>1. b \in Boxes
  BY DEF Stands
<1>2. Within(b.items) \subseteq Shown
  BY <1>1 DEF Within, Boxes
<1>3. c \in Boxes /\ c.items = b.items /\ c.selected = s
  BY <1>1, <1>2 DEF Boxes, Picked
<1> HIDE DEF c
<1>4. Stands(c)
  BY <1>2, <1>3, ValuesAreFinite DEF Stands
<1>5. Holding(Drop!Saved(c)) /\ Drop!Saved(c).items = b.items /\ Drop!Saved(c).selected = s
      /\ Drop!Saved(c).hidden = s \ {Drop!Placeholder}
  BY <1>3, <1>4, SavedHolds
<1> QED
  BY <1>5 DEF c

\* An item is selected, or not any more; a dropdown that is not optional keeps one.
LEMMA ToggleHolds ==
  ASSUME NEW b, Stands(b), NEW it \in Within(b.items), NEW force
  PROVE  /\ Holding(Drop!ToggleItem(b, it, force))
         /\ Drop!ToggleItem(b, it, force).items = b.items
         /\ (b.selected # {} \/ force = "on") /\ ~v1.optional => Drop!ToggleItem(b, it, force).selected # {}
<1> DEFINE With(s) == Drop!Saved([b EXCEPT !.selected = s])
           less == b.selected \ {it}
           more == b.selected \cup {it}
<1>1. b \in Boxes /\ (v1.multiple => b.selected \subseteq Within(b.items))
  BY DEF Stands
<1>2. \A s \in SUBSET Within(b.items) : Holding(With(s)) /\ With(s).items = b.items /\ With(s).selected = s
  BY SelectedAnew
<1>3. ~v1.optional /\ Drop!MayDrop(b) => less # {}
  <2> SUFFICES ASSUME ~v1.optional, Drop!MayDrop(b), less = {}
               PROVE  FALSE
    OBVIOUS
  <2>1. Cardinality(b.selected) > 1
    BY DropOperators DEF Drop!MayDrop
  <2>2. b.selected = {} \/ b.selected = {it}
    OBVIOUS
  <2>3. Cardinality({it}) = 1 /\ Cardinality({}) = 0
    BY FS_Singleton, FS_EmptySet
  <2> QED
    BY <2>1, <2>2, <2>3
<1>4. {it} \subseteq Within(b.items) /\ (v1.multiple => {less, more, b.selected} \subseteq SUBSET Within(b.items))
  BY <1>1
<1>5. Drop!ToggleItem(b, it, force) =
        IF ~v1.multiple THEN With({it})
        ELSE IF it \in b.selected
          THEN With(IF force # "on" /\ Drop!MayDrop(b) THEN less ELSE b.selected)
          ELSE With(IF force # "off" THEN more ELSE b.selected)
  BY DEF Drop!ToggleItem
<1> HIDE DEF With
<1>6. CASE ~v1.multiple
  BY <1>2, <1>4, <1>5, <1>6
<1>7. CASE v1.multiple /\ it \in b.selected
  BY <1>2, <1>3, <1>4, <1>5, <1>7
<1>8. CASE v1.multiple /\ it \notin b.selected
  BY <1>2, <1>4, <1>5, <1>8
<1> QED
  BY <1>6, <1>7, <1>8

\* Items are removed.
LEMMA WithoutStands ==
  ASSUME NEW b, Stands(b), NEW gone
  PROVE  /\ Stands(Drop!Without(b, gone))
         /\ Within(Drop!Without(b, gone).items) = Within(b.items) \ gone
         /\ Drop!Without(b, gone).selected = b.selected \ gone
         /\ Drop!Without(b, gone).hidden = b.hidden
<1> DEFINE c == Drop!Without(b, gone)
           S == {i \in DOMAIN b.items : b.items[i] \notin gone}
           left == Selected(b.items, S)
<1>1. b \in Boxes /\ b.selected \subseteq Within(b.items) \cup {Drop!TextField} /\ b.items \in Seq(Shown)
  BY DEF Stands, Boxes
<1>2. left \in Seq(Shown) /\ Within(left) = {b.items[i] : i \in S}
  BY <1>1, WithinSelected
<1>3. {b.items[i] : i \in S} = Within(b.items) \ gone
  BY DEF Within
<1>4. Drop!Order!Selected(b.items, S) = left
  BY DropOperators
<1>5. c = [b EXCEPT !.items = Drop!Order!Selected(@, {i \in DOMAIN @ : @[i] \notin gone}), !.selected = @ \ gone,
                    !.created = IF @ \in gone THEN Drop!None ELSE @]
  BY DEF Drop!Without
<1>6. /\ c.items = Drop!Order!Selected(b.items, S) /\ c.selected = b.selected \ gone
      /\ c.created = (IF b.created \in gone THEN Drop!None ELSE b.created) /\ c.hidden = b.hidden
      /\ c = [items |-> c.items, selected |-> c.selected, created |-> c.created, hidden |-> c.hidden]
  BY <1>1, <1>5 DEF Boxes
<1> HIDE DEF c, left, S
<1>7. c \in Boxes
  BY <1>1, <1>2, <1>4, <1>6 DEF Boxes
<1>8. Within(c.items) = Within(b.items) \ gone
  BY <1>2, <1>3, <1>4, <1>6
<1>9. Stands(c)
  BY <1>1, <1>6, <1>7, <1>8 DEF Stands
<1> QED
  BY <1>6, <1>8, <1>9 DEF c

\* Items behind the others, others that are selected, another one that was created.
Wider(b, q, s, d) == [b EXCEPT !.items = @ \o q, !.selected = s, !.created = d]

\* Other items and others that are selected, another one that was created.
Other(b, r, s, d) == [b EXCEPT !.items = r, !.selected = s, !.created = d]

LEMMA ItemsWith ==
  ASSUME NEW b, Stands(b), NEW r \in Seq(Shown), NEW d \in Shown \cup {Drop!None},
         Drop!Placeholder \in Within(r) => Drop!Placeholder \in Within(b.items),
         NEW s \in SUBSET (Within(r) \cup {Drop!TextField}), Drop!TextField \in s => ~v1.multiple /\ s = {Drop!TextField}
  PROVE  /\ Stands(Other(b, r, s, d)) /\ Other(b, r, s, d).items = r
         /\ Other(b, r, s, d).selected = s /\ Other(b, r, s, d).hidden = b.hidden
<1> DEFINE c == Other(b, r, s, d)
<1>1. b \in Boxes /\ Within(r) \subseteq Shown
  BY DEF Stands, Within
<1>2. s \subseteq Picked
  BY <1>1 DEF Picked
<1>3. c \in Boxes /\ c.items = r /\ c.selected = s /\ c.hidden = b.hidden
  BY <1>1, <1>2 DEF Boxes, Other
<1> HIDE DEF c
<1>4. Drop!Placeholder \in Within(r) => ~v1.multiple /\ v1.optional
  BY DEF Stands
<1>5. Stands(c)
  BY <1>3, <1>4 DEF Stands
<1> QED
  BY <1>3, <1>5 DEF c

\* Items are added behind the others.
LEMMA ItemsAdded ==
  ASSUME NEW b, Stands(b), NEW q \in Seq(Drop!DropValue), NEW d \in Shown \cup {Drop!None},
         NEW s \in SUBSET (Within(b.items) \cup Within(q) \cup {Drop!TextField}),
         Drop!TextField \in s => ~v1.multiple /\ s = {Drop!TextField}
  PROVE  /\ Stands(Wider(b, q, s, d))
         /\ Within(Wider(b, q, s, d).items) = Within(b.items) \cup Within(q)
         /\ Wider(b, q, s, d).selected = s /\ Wider(b, q, s, d).hidden = b.hidden
<1> DEFINE r == b.items \o q
<1>1. b.items \in Seq(Shown) /\ q \in Seq(Shown) /\ Within(q) \subseteq Drop!DropValue
  BY DEF Stands, Boxes, Shown, Within
<1>2. r \in Seq(Shown) /\ Within(r) = Within(b.items) \cup Within(q)
  BY <1>1, WithinJoined
<1>3. Wider(b, q, s, d) = Other(b, r, s, d)
  BY DEF Wider, Other
<1> HIDE DEF r
<1>4. s \in SUBSET (Within(r) \cup {Drop!TextField})
  BY <1>2
<1>5. Drop!Placeholder \in Within(r) => Drop!Placeholder \in Within(b.items)
  BY <1>1, <1>2, ValuesAreFinite
<1>6. /\ Stands(Other(b, r, s, d)) /\ Other(b, r, s, d).items = r
      /\ Other(b, r, s, d).selected = s /\ Other(b, r, s, d).hidden = b.hidden
  BY <1>2, <1>4, <1>5, ItemsWith
<1> QED
  BY <1>2, <1>3, <1>6

\* A dropdown that is not optional has no placeholder: what is selected is a value.
LEMMA HoldsAValue ==
  ASSUME NEW b, Holding(b), ~v1.optional, b.selected # {}
  PROVE  b.hidden # {}
BY DEF Holding, Stands, Drop!Placeholder, Drop!TextField

\* An item is created, and selected.
LEMMA CreateHolds ==
  ASSUME NEW b, Stands(b), NEW v \in Drop!DropValue
  PROVE  /\ Holding(Drop!CreateItem(b, v))
         /\ ~v1.optional => Drop!CreateItem(b, v).selected # {}
<1>1. CASE v \in Within(b.items)
  <2>1. Drop!CreateItem(b, v) = Drop!ToggleItem(b, v, "on")
    BY <1>1, DropOperators DEF Drop!CreateItem
  <2> QED
    BY <1>1, <2>1, ToggleHolds
<1>2. CASE v \notin Within(b.items)
  <2> DEFINE old == IF v1.multiple THEN {} ELSE {b.created}
             w == Drop!Without(b, old)
             d == IF v1.multiple THEN w.created ELSE v
             new == [w EXCEPT !.items = Append(@, v), !.created = IF v1.multiple THEN @ ELSE v]
             more == Wider(w, <<v>>, w.selected, d)
  <2>1. Drop!CreateItem(b, v) = Drop!ToggleItem(new, v, "on")
    BY <1>2, DropOperators DEF Drop!CreateItem
  <2>2. Stands(w)
    BY WithoutStands
  <2>3. w \in Boxes /\ w.items \in Seq(Shown) /\ w.selected \subseteq Within(w.items) \cup {Drop!TextField}
        /\ (Drop!TextField \in w.selected => ~v1.multiple /\ w.selected = {Drop!TextField})
    BY <2>2 DEF Stands, Boxes
  <2>4. <<v>> \in Seq(Drop!DropValue) /\ Within(<<v>>) = {v} /\ v \in Shown
    BY WithinOne DEF Shown
  <2> HIDE DEF w
  <2>5. Append(w.items, v) = w.items \o <<v>>
    BY <2>3, <2>4, WithinOne
  <2>6. new = more
    <3> DEFINE r == w.items \o <<v>>
    <3>1. new = [w EXCEPT !.items = r, !.created = d]
      BY <2>5
    <3>2. more = [w EXCEPT !.items = r, !.selected = w.selected, !.created = d]
      BY DEF Wider
    <3> HIDE DEF new, more, r, d
    <3>3. [w EXCEPT !.items = r, !.created = d] = [w EXCEPT !.items = r, !.selected = w.selected, !.created = d]
      BY <2>3 DEF Boxes
    <3> QED
      BY <3>1, <3>2, <3>3
  <2>7. d \in Shown \cup {Drop!None}
    BY <2>3, <2>4 DEF Boxes
  <2> HIDE DEF d
  <2>8. Stands(more) /\ Within(more.items) = Within(w.items) \cup Within(<<v>>)
    <3> DEFINE q == <<v>>
               s == w.selected
    <3>1. q \in Seq(Drop!DropValue) /\ s \in SUBSET (Within(w.items) \cup Within(q) \cup {Drop!TextField})
          /\ (Drop!TextField \in s => ~v1.multiple /\ s = {Drop!TextField})
      BY <2>3, <2>4
    <3> HIDE DEF q, s
    <3>2. Stands(Wider(w, q, s, d)) /\ Within(Wider(w, q, s, d).items) = Within(w.items) \cup Within(q)
      BY <2>2, <2>7, <3>1, ItemsAdded
    <3> QED
      BY <3>2 DEF q, s
  <2> HIDE DEF new, more
  <2>9. v \in Within(new.items) /\ Stands(new)
    BY <2>4, <2>6, <2>8
  <2> QED
    BY <2>1, <2>9, ToggleHolds
<1> QED
  BY <1>1, <1>2

\* Items are created for values.
LEMMA CreatedHolds ==
  ASSUME NEW b, Holding(b), NEW vs \in SUBSET Drop!DropValue
  PROVE  /\ Holding(Drop!Created(b, vs))
         /\ ~v1.optional /\ b.selected # {} => Drop!Created(b, vs).selected # {}
<1>0. Stands(b)
  BY DEF Holding
<1>1. CASE ~v1.create \/ vs = {}
  <2>1. Drop!Created(b, vs) = b
    BY <1>1 DEF Drop!Created
  <2> QED
    BY <2>1
<1>2. CASE v1.create /\ vs # {} /\ v1.multiple
  <2> DEFINE q == Drop!Seqs!SetToSeq(vs \ Within(b.items))
             s == b.selected \cup vs
             c == Wider(b, q, s, b.created)
             e == [b EXCEPT !.items = @ \o q, !.selected = @ \cup vs]
  <2>1. Drop!Created(b, vs) = Drop!Saved(e)
    BY <1>2, DropOperators DEF Drop!Created
  <2>2. b \in Boxes /\ b.selected \subseteq Within(b.items) \cup {Drop!TextField} /\ Drop!TextField \notin b.selected
    BY <1>0, <1>2 DEF Stands
  <2>3. IsFiniteSet(vs \ Within(b.items))
    BY ValuesAreFinite, FS_Subset
  <2>4. q \in Seq(vs \ Within(b.items)) /\ Within(q) = vs \ Within(b.items)
    BY <2>3, SetInSequence
  <2> HIDE DEF q
  <2>5. q \in Seq(Drop!DropValue)
    BY <2>4
  <2>6. s \in SUBSET (Within(b.items) \cup Within(q) \cup {Drop!TextField}) /\ Drop!TextField \notin s
    BY <2>2, <2>4, ValuesAreFinite DEF Shown
  <2>7. b.created \in Shown \cup {Drop!None}
    BY <2>2 DEF Boxes
  <2>8. e = c
    <3> DEFINE r == b.items \o q
    <3>1. e = [b EXCEPT !.items = r, !.selected = s]
      OBVIOUS
    <3>2. c = [b EXCEPT !.items = r, !.selected = s, !.created = b.created]
      BY DEF Wider
    <3> HIDE DEF e, c, r, s
    <3>3. [b EXCEPT !.items = r, !.selected = s] = [b EXCEPT !.items = r, !.selected = s, !.created = b.created]
      BY <2>2 DEF Boxes
    <3> QED
      BY <3>1, <3>2, <3>3
  <2> HIDE DEF s
  <2>9. Stands(c) /\ c.selected = s
    BY <1>0, <2>5, <2>6, <2>7, ItemsAdded
  <2> HIDE DEF c, e
  <2>10. Holding(Drop!Saved(e)) /\ Drop!Saved(e).selected = s
    BY <2>8, <2>9, SavedHolds
  <2>11. s # {}
    BY <1>2 DEF s
  <2> QED
    BY <2>1, <2>10, <2>11
<1>3. CASE v1.create /\ vs # {} /\ ~v1.multiple
  <2>1. Drop!Created(b, vs) = Drop!CreateItem(b, CHOOSE v \in vs : TRUE)
    BY <1>3 DEF Drop!Created
  <2>2. (CHOOSE v \in vs : TRUE) \in Drop!DropValue
    BY <1>3
  <2> QED
    BY <1>0, <2>1, <2>2, CreateHolds
<1> QED
  BY <1>1, <1>2, <1>3

\* Where no value is wanted, the last one that is selected stays.
LEMMA LastOne ==
  ASSUME NEW b, Stands(b), v1.multiple, ~v1.optional, b.selected # {}, NEW vs, vs \cap Within(b.items) = {}
  PROVE  Drop!LastStays(b, vs) # {}
<1> DEFINE S == {i \in DOMAIN b.items : b.items[i] \in b.selected}
           key == [i \in S |-> 0 - i]
<1>1. b.items \in Seq(Shown) /\ b.selected \subseteq Within(b.items)
  BY DEF Stands, Boxes
<1>2. DOMAIN b.items \subseteq Int /\ IsFiniteSet(DOMAIN b.items)
  BY <1>1, FS_Interval
<1>3. S # {}
  BY <1>1 DEF Within
<1>4. IsFiniteSet(S) /\ S \subseteq Int
  BY <1>2, FS_Subset
<1>5. key \in [S -> Int]
  BY <1>4
<1>6. PICK j \in S : \A i \in S : key[j] <= key[i]
  <2> HIDE DEF S, key
  <2> QED
    BY <1>3, <1>4, <1>5, Least
<1>7. \A i \in S : i <= j
  <2> SUFFICES ASSUME NEW i \in S
               PROVE  i <= j
    OBVIOUS
  <2>1. key[j] = 0 - j /\ key[i] = 0 - i
    OBVIOUS
  <2> HIDE DEF S, key
  <2> QED
    BY <1>4, <1>6, <2>1
<1>8. \A k \in DOMAIN b.items : b.items[k] \notin vs
  BY DEF Within
<1>9. b.items[j] \in Drop!LastStays(b, vs)
  BY <1>7, <1>8 DEF Drop!LastStays
<1> QED
  BY <1>9

\* Values are set.
LEMMA SetValuesHolds ==
  ASSUME NEW b, Holding(b), NEW vs \in SUBSET Drop!DropValue
  PROVE  /\ Holding(Drop!SetValues(b, vs))
         /\ ~v1.optional /\ b.selected # {} => Drop!SetValues(b, vs).selected # {}
<1> DEFINE c == Drop!Created(b, vs)
           wanted == vs \cap Within(c.items)
           chosen == IF v1.multiple THEN wanted \cup Drop!LastStays(c, vs)
                     ELSE IF wanted = {} THEN {Drop!Placeholder} \cap Within(c.items) ELSE wanted
           e == Drop!Saved([c EXCEPT !.selected = chosen])
<1>1. Holding(c) /\ (~v1.optional /\ b.selected # {} => c.selected # {})
  BY CreatedHolds
<1>2. Drop!SetValues(b, vs) = IF Within(c.items) = {} \/ (~v1.multiple /\ chosen = {}) THEN c ELSE e
  BY DropOperators DEF Drop!SetValues
<1> HIDE DEF c
<1>3. Stands(c)
  BY <1>1 DEF Holding
<1>4. chosen \subseteq Within(c.items)
  BY DEF Drop!LastStays, Within
<1>5. ~v1.optional /\ c.selected # {} /\ v1.multiple => chosen # {}
  BY <1>3, LastOne
<1> HIDE DEF chosen
<1>6. Holding(e) /\ e.selected = chosen
  BY <1>3, <1>4, SelectedAnew
<1> HIDE DEF e
<1> QED
  BY <1>1, <1>2, <1>5, <1>6

\* What is known of the dropdown.
LEMMA DropState ==
  Drop!BoxFits <=> v1 \in [multiple : BOOLEAN, optional : BOOLEAN, create : BOOLEAN] /\ Holding(v2)
BY DropOperators DEF Drop!BoxFits, Drop!BoxTypes, Drop!HiddenIsSelected, Holding, Stands, Boxes, Picked, Shown

\* What has to be shown of a step.
Goes(b) == Holding(b) /\ (~v1.optional /\ v2.selected # {} => b.hidden # {})

\* An item is toggled, or the inputs are made anew.
LEMMA DropToggled ==
  ASSUME Holding(v2)
  PROVE  /\ \A it \in Within(v2.items) : \A force : Goes(Drop!ToggleItem(v2, it, force))
         /\ Goes(Drop!Saved(v2)) /\ Goes(v2)
<1>1. Stands(v2)
  BY DEF Holding
<1>2. ASSUME NEW it \in Within(v2.items), NEW force
      PROVE  Goes(Drop!ToggleItem(v2, it, force))
  <2> DEFINE b == Drop!ToggleItem(v2, it, force)
  <2>1. Holding(b) /\ (~v1.optional /\ v2.selected # {} => b.selected # {})
    BY <1>1, ToggleHolds
  <2> HIDE DEF b
  <2>2. Goes(b)
    BY <2>1, HoldsAValue DEF Goes
  <2> QED
    BY <2>2 DEF b
<1>3. Goes(Drop!Saved(v2))
  <2>1. Holding(Drop!Saved(v2)) /\ Drop!Saved(v2).selected = v2.selected
    BY <1>1, SavedHolds
  <2> QED
    BY <2>1, HoldsAValue DEF Goes
<1>4. Goes(v2)
  BY HoldsAValue DEF Goes
<1> QED
  BY <1>2, <1>3, <1>4

\* A value is typed.
LEMMA DropTyped ==
  ASSUME Holding(v2), NEW v \in Typed
  PROVE  Goes(Drop!CreateItem(v2, v))
<1> DEFINE b == Drop!CreateItem(v2, v)
<1>1. Stands(v2) /\ v \in Drop!DropValue
  BY DEF Holding, Drop!DropValue
<1>2. Holding(b) /\ (~v1.optional => b.selected # {})
  BY <1>1, CreateHolds
<1> HIDE DEF b
<1>3. Goes(b)
  BY <1>2, HoldsAValue DEF Goes
<1> QED
  BY <1>3 DEF b

\* Values are set.
LEMMA DropSet ==
  ASSUME Holding(v2), NEW vs \in SUBSET Drop!DropValue
  PROVE  Goes(Drop!SetValues(v2, vs))
<1> DEFINE b == Drop!SetValues(v2, vs)
<1>1. Holding(b) /\ (~v1.optional /\ v2.selected # {} => b.selected # {})
  BY SetValuesHolds
<1> HIDE DEF b
<1>2. Goes(b)
  BY <1>1, HoldsAValue DEF Goes
<1> QED
  BY <1>2 DEF b

\* Where choices are added, and what is in a sequence with others between two
\* parts of it.
Cut(b) == IF v1.create \/ b.items = <<>> THEN Len(b.items) ELSE Len(b.items) - 1

Between(s, n, q) == SubSeq(s, 1, n) \o q \o SubSeq(s, n + 1, Len(s))

LEMMA WithinBetween ==
  ASSUME NEW S, NEW s \in Seq(S), NEW n \in 0..Len(s), NEW q \in Seq(S)
  PROVE  Between(s, n, q) \in Seq(S) /\ Within(Between(s, n, q)) = Within(s) \cup Within(q)
<1> DEFINE a == SubSeq(s, 1, n)
           z == SubSeq(s, n + 1, Len(s))
<1>1. a \in Seq(S) /\ z \in Seq(S)
  OBVIOUS
<1>2. Within(a) \cup Within(z) = Within(s)
  <2>1. Len(a) = n /\ \A i \in 1..n : a[i] = s[i]
    OBVIOUS
  <2>2. Len(z) = Len(s) - n /\ \A i \in 1..Len(s) - n : z[i] = s[n + i]
    OBVIOUS
  <2>0. n \in Nat /\ Len(s) \in Nat /\ DOMAIN s = 1..Len(s) /\ DOMAIN a = 1..Len(a) /\ DOMAIN z = 1..Len(z)
    BY <1>1
  <2> HIDE DEF a, z
  <2>3. Within(a) \subseteq Within(s)
    BY <2>0, <2>1 DEF Within
  <2>4. Within(z) \subseteq Within(s)
    <3>1. \A i \in DOMAIN z : n + i \in DOMAIN s /\ z[i] = s[n + i]
      BY <2>0, <2>2
    <3> QED
      BY <3>1 DEF Within
  <2>5. ASSUME NEW i \in DOMAIN s
        PROVE  s[i] \in Within(a) \cup Within(z)
    <3>1. CASE i <= n
      BY <1>1, <2>1, <3>1 DEF Within
    <3>2. CASE i > n
      <4>1. i - n \in 1..Len(s) - n /\ n + (i - n) = i
        BY <2>0, <3>2
      <4>2. i - n \in DOMAIN z /\ z[i - n] = s[i]
        BY <2>0, <2>2, <4>1
      <4> QED
        BY <4>2 DEF Within
    <3> QED
      BY <3>1, <3>2
  <2>6. Within(s) \subseteq Within(a) \cup Within(z)
    BY <2>5 DEF Within
  <2> QED
    BY <2>3, <2>4, <2>6
<1>3. Between(s, n, q) = a \o q \o z
  BY DEF Between
<1> HIDE DEF a, z
<1> DEFINE x == a \o q
<1>4. x \in Seq(S) /\ Within(x) = Within(a) \cup Within(q)
  BY <1>1, WithinJoined
<1> HIDE DEF x
<1>5. x \o z \in Seq(S) /\ Within(x \o z) = Within(x) \cup Within(z)
  BY <1>1, <1>4, WithinJoined
<1> QED
  BY <1>2, <1>3, <1>4, <1>5 DEF x

\* Choices are added.
LEMMA ChoicesAdded ==
  ASSUME NEW vs \in SUBSET Drop!DropValue, v2.items \in Seq(Shown), v1' = v1, Drop!AddChoices(vs)
  PROVE  \E q \in Seq(Drop!DropValue) :
           LET r == Between(v2.items, Cut(v2), q)
           IN  v2' = [v2 EXCEPT !.items = r] /\ r \in Seq(Shown) /\ Within(r) = Within(v2.items) \cup Within(q)
<1> DEFINE q == Drop!Seqs!SetToSeq(vs \ Within(v2.items))
           r == Between(v2.items, Cut(v2), q)
<1>1. v2' = [v2 EXCEPT !.items = r]
  BY DropOperators DEF Drop!AddChoices, Cut, Between
<1>2. IsFiniteSet(vs \ Within(v2.items))
  BY ValuesAreFinite, FS_Subset
<1>3. q \in Seq(vs \ Within(v2.items))
  BY <1>2, SetInSequence
<1> HIDE DEF q
<1>4. q \in Seq(Drop!DropValue) /\ q \in Seq(Shown)
  BY <1>3 DEF Shown
<1>5. Cut(v2) \in 0..Len(v2.items)
  BY DEF Cut
<1>6. r \in Seq(Shown) /\ Within(r) = Within(v2.items) \cup Within(q)
  BY <1>4, <1>5, WithinBetween
<1> QED
  BY <1>1, <1>4, <1>6

LEMMA DropAdded ==
  ASSUME Holding(v2), NEW vs \in SUBSET Drop!DropValue, v1' = v1, Drop!AddChoices(vs)
  PROVE  Goes(v2')
<1>1. Stands(v2) /\ v2 \in Boxes /\ v2.items \in Seq(Shown)
  BY DEF Holding, Stands, Boxes
<1>2. PICK q \in Seq(Drop!DropValue) :
        LET r == Between(v2.items, Cut(v2), q)
        IN  v2' = [v2 EXCEPT !.items = r] /\ r \in Seq(Shown) /\ Within(r) = Within(v2.items) \cup Within(q)
  BY <1>1, ChoicesAdded
<1> DEFINE r == Between(v2.items, Cut(v2), q)
           s == v2.selected
           d == v2.created
           c == Other(v2, r, s, d)
<1>3. v2' = [v2 EXCEPT !.items = r] /\ r \in Seq(Shown) /\ Within(r) = Within(v2.items) \cup Within(q)
      /\ Within(q) \in SUBSET Drop!DropValue
  BY <1>2 DEF Within
<1> HIDE DEF r
<1>4. v2' = c
  BY <1>1, <1>3 DEF Boxes, Other
<1>5. s \in SUBSET (Within(r) \cup {Drop!TextField}) /\ (Drop!TextField \in s => ~v1.multiple /\ s = {Drop!TextField})
      /\ d \in Shown \cup {Drop!None} /\ (Drop!Placeholder \in Within(r) => Drop!Placeholder \in Within(v2.items))
  BY <1>1, <1>3, ValuesAreFinite DEF Stands, Boxes
<1>6. s = v2.selected
  OBVIOUS
<1> HIDE DEF s, d
<1>7. Stands(c) /\ c.selected = s /\ c.hidden = v2.hidden
  <2>1. Stands(v2) /\ r \in Seq(Shown) /\ d \in Shown \cup {Drop!None}
        /\ (Drop!Placeholder \in Within(r) => Drop!Placeholder \in Within(v2.items))
        /\ s \in SUBSET (Within(r) \cup {Drop!TextField})
        /\ (Drop!TextField \in s => ~v1.multiple /\ s = {Drop!TextField})
    BY <1>1, <1>3, <1>5
  <2>2. /\ Stands(Other(v2, r, s, d)) /\ Other(v2, r, s, d).items = r
        /\ Other(v2, r, s, d).selected = s /\ Other(v2, r, s, d).hidden = v2.hidden
    BY ONLY <2>1, ItemsWith
  <2> QED
    BY <2>2
<1> HIDE DEF c
<1> QED
  BY <1>4, <1>6, <1>7, DropToggled DEF Goes, Holding

\* Choices are cleared.
LEMMA DropCleared ==
  ASSUME Holding(v2), NEW reset \in BOOLEAN, v1' = v1, Drop!ClearChoices(reset)
  PROVE  Goes(v2')
<1> DEFINE kept == IF reset THEN {} ELSE v2.hidden
           gone == Within(v2.items) \ (kept \cup {Drop!Placeholder})
           left == Drop!Without(v2, gone)
<1>1. Stands(v2) /\ v2 \in Boxes
  BY DEF Holding, Stands
<1>2. v2' = IF reset /\ Drop!Placeholder \in Within(left.items) THEN Drop!ToggleItem(left, Drop!Placeholder, "") ELSE left
  BY DropOperators DEF Drop!ClearChoices
<1>3. /\ Stands(left) /\ Within(left.items) = Within(v2.items) \ gone
      /\ left.selected = v2.selected \ gone /\ left.hidden = v2.hidden
  BY <1>1, WithoutStands
<1> HIDE DEF left
<1>4. CASE reset /\ Drop!Placeholder \in Within(left.items)
  <2>1. v1.optional
    BY <1>3, <1>4 DEF Stands
  <2>2. Holding(Drop!ToggleItem(left, Drop!Placeholder, ""))
    BY <1>3, <1>4, ToggleHolds
  <2> QED
    BY <1>2, <1>4, <2>1, <2>2 DEF Goes
<1>5. CASE ~(reset /\ Drop!Placeholder \in Within(left.items))
  <2>1. left.selected # {} => left.hidden = left.selected \ {Drop!Placeholder}
    <3>1. left.selected # {} => v2.selected # {}
      BY <1>3
    <3>2. CASE reset
      <4>1. Drop!Placeholder \notin Within(left.items) /\ Within(left.items) = Within(v2.items) \cap {Drop!Placeholder}
        BY <1>3, <1>5, <3>2
      <4> QED
        BY <1>1, <1>3, <3>1, <3>2, <4>1 DEF Holding, Stands
    <3>3. CASE ~reset
      BY <1>1, <1>3, <1>5, <3>1, <3>3 DEF Holding, Stands
    <3> QED
      BY <3>2, <3>3
  <2>2. ~v1.optional /\ v2.selected # {} => left.hidden # {}
    BY <1>3, HoldsAValue
  <2> QED
    BY <1>2, <1>3, <1>5, <2>1, <2>2 DEF Goes, Holding
<1> QED
  BY <1>4, <1>5

\* Whatever the user does, and whatever choices come and go.
LEMMA DropStep ==
  ASSUME Drop!BoxFits, Drop!DropNext
  PROVE  Drop!BoxFits' /\ Drop!KeepsAValue
<1>1. v1 \in [multiple : BOOLEAN, optional : BOOLEAN, create : BOOLEAN] /\ Holding(v2)
  BY DropState
<1>2. ASSUME v1' = v1, Goes(v2')
      PROVE  Drop!BoxFits' /\ Drop!KeepsAValue
  <2>1. Drop!KeepsAValue
    BY <1>2 DEF Goes, Drop!KeepsAValue
  <2>2. Holding(v2)'
    BY <1>2 DEF Goes, Holding, Stands
  <2>3. (v1 \in [multiple : BOOLEAN, optional : BOOLEAN, create : BOOLEAN])'
    BY <1>1, <1>2
  <2>4. Drop!BoxFits'
    <3>1. (v1 \in [multiple : BOOLEAN, optional : BOOLEAN, create : BOOLEAN] /\ Holding(v2) => Drop!BoxFits)'
      BY DropState, PTL
    <3> QED
      BY <2>2, <2>3, <3>1
  <2> QED
    BY <2>1, <2>4
<1>3. v1' = v1
  BY DEF Drop!DropNext, Drop!OpenDropdown, Drop!CloseDropdown, Drop!Pick, Drop!PickByEnter, Drop!TypeItem,
         Drop!SetValue, Drop!AddChoices, Drop!ClearChoices
<1>4. Drop!OpenDropdown \/ Drop!CloseDropdown => Goes(v2')
  BY <1>1, DropToggled DEF Drop!OpenDropdown, Drop!CloseDropdown
<1>5. ASSUME NEW it \in Drop!InBox(v2), Drop!Pick(it) \/ Drop!PickByEnter(it)
      PROVE  Goes(v2')
  <2>1. it \in Within(v2.items)
    BY DropOperators
  <2> QED
    BY <1>1, <1>5, <2>1, DropToggled DEF Drop!Pick, Drop!PickByEnter
<1>6. ASSUME NEW v \in Typed, Drop!TypeItem(v)
      PROVE  Goes(v2')
  BY <1>1, <1>6, DropTyped DEF Drop!TypeItem
<1>7. ASSUME NEW vs \in SUBSET Drop!DropValue, Drop!SetValue(vs) \/ Drop!AddChoices(vs)
      PROVE  Goes(v2')
  BY <1>1, <1>3, <1>7, DropSet, DropAdded DEF Drop!SetValue
<1>8. ASSUME NEW reset \in BOOLEAN, Drop!ClearChoices(reset)
      PROVE  Goes(v2')
  BY <1>1, <1>3, <1>8, DropCleared
<1>9. Goes(v2')
  BY <1>4, <1>5, <1>6, <1>7, <1>8 DEF Drop!DropNext
<1> QED
  BY <1>2, <1>3, <1>9

\* What a dropdown is drawn with is values.
LEMMA ChoicesDrawn ==
  ASSUME NEW choices \in {<<>>, Choice}, NEW values \in SUBSET Drop!DropValue
  PROVE  LET o == IF v1.create THEN Drop!Seqs!SetToSeq(values \ {choices[i] : i \in DOMAIN choices}) ELSE <<>>
         IN  choices \in Seq(Drop!DropValue) /\ o \in Seq(Drop!DropValue)
<1> DEFINE S == values \ {choices[i] : i \in DOMAIN choices}
           q == Drop!Seqs!SetToSeq(S)
<1>1. choices \in Seq(Drop!DropValue) /\ << >> \in Seq(Drop!DropValue)
  <2>1. << >> \in Seq(Drop!DropValue)
    OBVIOUS
  <2> QED
    BY <2>1, ValuesAreFinite
<1>2. IsFiniteSet(S) /\ S \subseteq Drop!DropValue
  BY ValuesAreFinite, FS_Subset
<1> HIDE DEF S
<1>3. q \in Seq(S)
  BY <1>2, SetInSequence
<1> HIDE DEF q
<1>4. q \in Seq(Drop!DropValue)
  BY <1>2, <1>3
<1> QED
  BY <1>1, <1>4 DEF q, S

\* The dropdown when it is drawn.
LEMMA DropStart ==
  ASSUME Drop!DropInit
  PROVE  Drop!BoxFits
<1>1. v1 \in [multiple : BOOLEAN, optional : BOOLEAN, create : BOOLEAN]
  BY DEF Drop!DropInit
<1>2. PICK choices \in {<<>>, Choice}, values \in SUBSET Drop!DropValue : v2 = Drop!Bound(choices, values)
  BY DEF Drop!DropInit
<1> DEFINE p == IF ~v1.multiple /\ v1.optional THEN <<Drop!Placeholder>> ELSE <<>>
           o == IF v1.create THEN Drop!Seqs!SetToSeq(values \ {choices[i] : i \in DOMAIN choices}) ELSE <<>>
           items == p \o choices \o o
           wanted == {i \in DOMAIN items : items[i] \in values}
           first == {i \in wanted : \A j \in wanted : i <= j}
           chosen == IF v1.multiple THEN wanted ELSE IF first = {} THEN {1} \cap DOMAIN items ELSE first
           field == IF v1.create /\ ~v1.multiple /\ items = <<>> THEN {Drop!TextField} ELSE {}
           s == {items[i] : i \in chosen} \cup field
           b == [items |-> items, selected |-> s, created |-> Drop!None, hidden |-> {}]
<1>3. v2 = Drop!Saved(b)
  BY <1>2 DEF Drop!Bound
<1>4. chosen \subseteq DOMAIN items /\ field \subseteq {Drop!TextField} /\ (v1.multiple => field = {})
  OBVIOUS
<1> HIDE DEF chosen, field
<1>5. choices \in Seq(Drop!DropValue) /\ o \in Seq(Drop!DropValue)
  BY ChoicesDrawn
<1>6. p \in Seq(Shown) /\ Within(p) = IF ~v1.multiple /\ v1.optional THEN {Drop!Placeholder} ELSE {}
  <2>1. Drop!Placeholder \in Shown /\ Within(<<Drop!Placeholder>>) = {Drop!Placeholder}
    BY WithinOne DEF Shown
  <2>2. Within(<< >>) = {}
    BY DEF Within
  <2>3. <<Drop!Placeholder>> \in Seq(Shown) /\ << >> \in Seq(Shown)
    BY <2>1
  <2> QED
    BY <2>1, <2>2, <2>3
<1> HIDE DEF p, o
<1>7. choices \in Seq(Shown) /\ o \in Seq(Shown) /\ Within(choices) \cup Within(o) \subseteq Drop!DropValue
  BY <1>5 DEF Within, Shown
<1>8. items \in Seq(Shown) /\ Within(items) = Within(p) \cup Within(choices) \cup Within(o)
  <2> DEFINE x == p \o choices
  <2>1. x \in Seq(Shown) /\ Within(x) = Within(p) \cup Within(choices)
    BY <1>6, <1>7, WithinJoined
  <2> HIDE DEF x
  <2>2. x \o o \in Seq(Shown) /\ Within(x \o o) = Within(x) \cup Within(o)
    BY <1>7, <2>1, WithinJoined
  <2> QED
    BY <2>1, <2>2 DEF x
<1> HIDE DEF items
<1>9. s \subseteq Within(items) \cup field /\ Within(items) \subseteq Shown
  BY <1>4, <1>8 DEF Within
<1>10. Drop!TextField \in s => ~v1.multiple /\ s = {Drop!TextField}
  <2>1. field # {} => ~v1.multiple /\ items = << >>
    BY DEF field
  <2>2. items = << >> => chosen = {}
    BY <1>4
  <2>3. Drop!TextField \in s => field # {}
    BY <1>9, ValuesAreFinite
  <2> QED
    BY <1>4, <2>1, <2>2, <2>3
<1> HIDE DEF s
<1>11. b \in Boxes /\ b.items = items /\ b.selected = s
  BY <1>4, <1>8, <1>9 DEF Boxes, Picked
<1> HIDE DEF b
<1>12. Stands(b)
  BY <1>4, <1>6, <1>7, <1>8, <1>9, <1>10, <1>11, ValuesAreFinite DEF Stands
<1> QED
  BY <1>1, <1>3, <1>12, SavedHolds, DropState

\* Nothing changes while nothing happens.
LEMMA DropRests ==
  ASSUME UNCHANGED pageVars
  PROVE  /\ Drop!BoxFits' = Drop!BoxFits
         /\ Drop!BoxFits => Drop!KeepsAValue
<1>1. Drop!BoxFits' = Drop!BoxFits
  BY DEF pageVars, Drop!BoxFits, Drop!BoxTypes, Drop!HiddenIsSelected, Drop!InBox, Drop!DropValue
<1>2. v2' = v2
  BY DEF pageVars
<1>3. Drop!BoxFits => Drop!KeepsAValue
  BY <1>2, DropState, HoldsAValue DEF Drop!KeepsAValue
<1> QED
  BY <1>1, <1>3

-----------------------------------------------------------------------------
(* Lists                                                                   *)

\* The instance has the operators of the theorems.
LEMMA ListOperators ==
  \A s, S : List!Order!Selected(s, S) = Selected(s, S)
<1>1. \A S : List!Order!Cardinality(S) = Cardinality(S)
  BY DEF List!Order!Cardinality, Cardinality
<1>2. \A S, key, s : List!Order!Rank(S, key, s) = Rank(S, key, s)
  BY <1>1 DEF List!Order!Rank, Rank
<1>3. \A S, key : List!Order!ByKey(S, key) = ByKey(S, key)
  BY <1>1, <1>2 DEF List!Order!ByKey, ByKey
<1>4. \A S : List!Order!Ascending(S) = Ascending(S)
  BY <1>3 DEF List!Order!Ascending, Ascending
<1> QED
  BY <1>1, <1>4 DEF List!Order!Selected, Selected

\* What is known of each variable.
LEMMA ListState ==
  ASSUME List!EntriesFit
  PROVE  /\ v1 \in BOOLEAN /\ v2 \in Seq(List!Entry) /\ v3 \in ListValue \cup {List!None}
         /\ v4 \in [ListValue -> {List!None, "free", "taken", "custom"}]
         /\ List!TakenAreListed
BY DEF List!EntriesFit

\* An entry is an item, which can be dragged, or a placeholder.
LEMMA EntryFacts ==
  /\ List!None \notin ListValue
  /\ \A e \in List!Entry : e.value \in ListValue \cup {List!None}
  /\ \A e \in List!Entry : e.as \in {"item", "dragged"} <=> e.value # List!None
  /\ \A v \in ListValue, a \in {"item", "dragged"} :
       [value |-> v, as |-> a] \in List!Entry /\ [value |-> v, as |-> a].value = v
  /\ List!Mark \in List!Entry /\ List!Mark.value = List!None
BY ListAssumption DEF List!Entry, List!None, List!Mark

\* What is held is held by an element.
LEMMA HoldsWithin ==
  \A es, v : List!Holds(es, v) <=> \E e \in Within(es) : e.value = v
BY DEF List!Holds, Within

\* No value is in both of two sequences.
Apart(s, t) == \A v \in ListValue : ~(List!Holds(s, v) /\ List!Holds(t, v))

\* Two sequences, one behind the other.
LEMMA EntriesJoined ==
  ASSUME NEW s \in Seq(List!Entry), NEW t \in Seq(List!Entry)
  PROVE  /\ s \o t \in Seq(List!Entry)
         /\ \A v : List!Holds(s \o t, v) <=> List!Holds(s, v) \/ List!Holds(t, v)
         /\ List!OnceEach(s) /\ List!OnceEach(t) /\ Apart(s, t) => List!OnceEach(s \o t)
<1> DEFINE r == s \o t
<1>1. r \in Seq(List!Entry) /\ Within(r) = Within(s) \cup Within(t)
  BY WithinJoined
<1>2. \A v : List!Holds(r, v) <=> List!Holds(s, v) \/ List!Holds(t, v)
  <2> HIDE DEF r
  <2> QED
    BY <1>1, HoldsWithin
<1>3. /\ Len(r) = Len(s) + Len(t) /\ Len(s) \in Nat /\ Len(t) \in Nat
      /\ DOMAIN s = 1..Len(s) /\ DOMAIN t = 1..Len(t) /\ DOMAIN r = 1..Len(r)
  OBVIOUS
<1>4. \A i \in DOMAIN r : \/ i \in DOMAIN s /\ r[i] = s[i]
                          \/ i - Len(s) \in DOMAIN t /\ r[i] = t[i - Len(s)]
  OBVIOUS
<1> HIDE DEF r
<1>5. ASSUME List!OnceEach(s), List!OnceEach(t), Apart(s, t)
      PROVE  List!OnceEach(r)
  <2> SUFFICES ASSUME NEW i \in DOMAIN r, NEW j \in DOMAIN r,
                      r[i].value = r[j].value, r[i].value # List!None
               PROVE  i = j
    BY DEF List!OnceEach, List!IsItem
  <2>1. r[i].value \in ListValue
    BY <1>1, EntryFacts
  <2>2. i \in Int /\ j \in Int
    BY <1>3
  <2>3. CASE i \in DOMAIN s /\ r[i] = s[i] /\ j \in DOMAIN s /\ r[j] = s[j]
    BY <1>5, <2>3 DEF List!OnceEach, List!IsItem
  <2>4. CASE /\ i - Len(s) \in DOMAIN t /\ r[i] = t[i - Len(s)]
             /\ j - Len(s) \in DOMAIN t /\ r[j] = t[j - Len(s)]
    <3>1. i - Len(s) = j - Len(s)
      BY <1>5, <2>4 DEF List!OnceEach, List!IsItem
    <3> QED
      BY <1>3, <2>2, <3>1
  <2>5. ~(\E k \in DOMAIN s, l \in DOMAIN t : s[k].value = r[i].value /\ t[l].value = r[i].value)
    BY <1>5, <2>1 DEF Apart, List!Holds
  <2> QED
    BY <1>4, <2>3, <2>4, <2>5
<1> QED
  BY <1>1, <1>2, <1>5 DEF r

\* The elements at some positions.
LEMMA EntriesSelected ==
  ASSUME NEW s \in Seq(List!Entry), NEW S \in SUBSET (DOMAIN s)
  PROVE  /\ Selected(s, S) \in Seq(List!Entry)
         /\ \A v : List!Holds(Selected(s, S), v) <=> \E i \in S : s[i].value = v
         /\ List!OnceEach(s) => List!OnceEach(Selected(s, S))
<1>1. Selected(s, S) \in Seq(List!Entry) /\ Within(Selected(s, S)) = {s[i] : i \in S}
  BY WithinSelected
<1>2. \A v : List!Holds(Selected(s, S), v) <=> \E i \in S : s[i].value = v
  BY <1>1, HoldsWithin
<1>3. List!OnceEach(s) => List!OnceEach(Selected(s, S))
  <2>1. \A k \in DOMAIN Selected(s, S) : Ascending(S)[k] \in S /\ Selected(s, S)[k] = s[Ascending(S)[k]]
    BY SelectedFacts
  <2>2. \A k, l \in DOMAIN Selected(s, S) : Ascending(S)[k] = Ascending(S)[l] => k = l
    BY SelectedFacts
  <2> QED
    BY <2>1, <2>2 DEF List!OnceEach, List!IsItem
<1> QED
  BY <1>1, <1>2, <1>3

\* One element.
LEMMA EntryAlone ==
  ASSUME NEW e \in List!Entry
  PROVE  /\ <<e>> \in Seq(List!Entry) /\ List!OnceEach(<<e>>)
         /\ \A v : List!Holds(<<e>>, v) <=> v = e.value
<1>1. <<e>> \in Seq(List!Entry) /\ DOMAIN <<e>> = {1} /\ <<e>>[1] = e
  OBVIOUS
<1> QED
  BY <1>1 DEF List!OnceEach, List!Holds

\* The same values in the same places.
LEMMA SameValues ==
  ASSUME NEW s, NEW t, DOMAIN t = DOMAIN s, \A i \in DOMAIN s : t[i].value = s[i].value
  PROVE  /\ \A v : List!Holds(t, v) <=> List!Holds(s, v)
         /\ List!OnceEach(s) => List!OnceEach(t)
BY DEF List!Holds, List!OnceEach, List!IsItem

\* What has to be shown of the entries in a step that takes no value away.
Grown(es) ==
  /\ es \in Seq(List!Entry)
  /\ \A v \in ListValue : List!Holds(v2, v) => List!Holds(es, v)
  /\ v3 = List!None /\ List!OnceEach(v2) => List!OnceEach(es)

\* A value is added.
LEMMA ItemAdded ==
  ASSUME v2 \in Seq(List!Entry), NEW v \in ListValue
  PROVE  Grown(List!AddItem(v2, v)) /\ List!Holds(List!AddItem(v2, v), v)
<1> DEFINE e == [value |-> v, as |-> "item"]
<1>1. CASE List!Holds(v2, v)
  BY <1>1 DEF List!AddItem, Grown
<1>2. CASE ~List!Holds(v2, v)
  <2>1. e \in List!Entry /\ e.value = v
    BY EntryFacts
  <2> HIDE DEF e
  <2>2. Append(v2, e) = v2 \o <<e>>
    BY <2>1, WithinOne
  <2>3. List!AddItem(v2, v) = v2 \o <<e>>
    BY <1>2, <2>2 DEF List!AddItem, e
  <2>4. <<e>> \in Seq(List!Entry) /\ List!OnceEach(<<e>>) /\ (\A w : List!Holds(<<e>>, w) <=> w = v)
    BY <2>1, EntryAlone
  <2> DEFINE q == <<e>>
  <2> HIDE DEF q
  <2>5. Apart(v2, q)
    BY <1>2, <2>4 DEF Apart, q
  <2>6. /\ v2 \o q \in Seq(List!Entry)
        /\ \A w : List!Holds(v2 \o q, w) <=> List!Holds(v2, w) \/ List!Holds(q, w)
        /\ List!OnceEach(v2) /\ List!OnceEach(q) /\ Apart(v2, q) => List!OnceEach(v2 \o q)
    BY <2>4, EntriesJoined DEF q
  <2> QED
    BY <2>3, <2>4, <2>5, <2>6 DEF Grown, q
<1> QED
  BY <1>1, <1>2

\* Of several values, each one that is not there is added once.
LEMMA ItemsJoined ==
  ASSUME NEW es \in Seq(List!Entry), NEW vs \in List!OrderedOnce
  PROVE  /\ List!AddItems(es, vs) \in Seq(List!Entry)
         /\ List!OnceEach(es) => List!OnceEach(List!AddItems(es, vs))
<1> DEFINE s == [i \in DOMAIN vs |-> [value |-> vs[i], as |-> "item"]]
           S == {i \in DOMAIN vs : ~List!Holds(es, vs[i]) /\ \A j \in DOMAIN vs : vs[j] = vs[i] => i <= j}
           q == Selected(s, S)
<1>1. PICK n \in 0..2 : vs \in [1..n -> ListValue]
  BY DEF List!OrderedOnce
<1>2. DOMAIN vs = 1..n /\ n \in Nat
  BY <1>1
<1>3. s \in Seq(List!Entry) /\ DOMAIN s = 1..n /\ \A i \in 1..n : s[i].value = vs[i]
  <2>1. \A i \in 1..n : [value |-> vs[i], as |-> "item"] \in List!Entry
    BY <1>1, EntryFacts
  <2>2. s \in [1..n -> List!Entry]
    BY <1>2, <2>1
  <2> QED
    BY <1>2, <2>2
<1>4. List!AddItems(es, vs) = es \o q
  BY ListOperators DEF List!AddItems
<1>5. S \in SUBSET (DOMAIN s)
  BY <1>2, <1>3
<1>6. \A i, j \in S : s[i].value = s[j].value => i = j
  BY <1>2, <1>3
<1>7. \A i \in S : ~List!Holds(es, s[i].value)
  BY <1>2, <1>3
<1> HIDE DEF s, S
<1>8. /\ q \in Seq(List!Entry)
      /\ \A v : List!Holds(q, v) <=> \E i \in S : s[i].value = v
  BY <1>3, <1>5, EntriesSelected
<1>9. /\ \A k \in DOMAIN q : Ascending(S)[k] \in S /\ q[k] = s[Ascending(S)[k]]
      /\ \A k, l \in DOMAIN q : Ascending(S)[k] = Ascending(S)[l] => k = l
  BY <1>3, <1>5, SelectedFacts
<1>10. List!OnceEach(q)
  BY <1>6, <1>9 DEF List!OnceEach
<1>11. Apart(es, q)
  BY <1>7, <1>8 DEF Apart
<1> HIDE DEF q
<1> QED
  BY <1>4, <1>8, <1>10, <1>11, EntriesJoined

\* An entry is put before another one, or behind the last; if it is an item, it
\* is taken from where it is.
LEMMA EntryMoved ==
  ASSUME v2 \in Seq(List!Entry), NEW e \in List!Entry, NEW i \in Int
  PROVE  /\ List!Moved(e, i) \in Seq(List!Entry)
         /\ \A v : List!Holds(v2, v) => List!Holds(List!Moved(e, i), v)
         /\ List!OnceEach(v2) /\ (e.value # List!None => \E k \in DOMAIN v2 : v2[k] = e)
              => List!OnceEach(List!Moved(e, i))
<1> DEFINE A == {j \in DOMAIN v2 : j < i /\ v2[j] # e}
           B == {j \in DOMAIN v2 : j >= i /\ v2[j] # e}
           a == Selected(v2, A)
           b == Selected(v2, B)
           m == <<e>>
           r == a \o m
<1>1. List!Moved(e, i) = r \o b
  BY ListOperators DEF List!Moved
<1>2. A \in SUBSET (DOMAIN v2) /\ B \in SUBSET (DOMAIN v2)
  OBVIOUS
<1>3. /\ A \cap B = {} /\ \A j \in A \cup B : v2[j] # e
      /\ \A j \in DOMAIN v2 : v2[j] = e \/ j \in A \cup B
  OBVIOUS
<1> HIDE DEF A, B
<1>4. /\ a \in Seq(List!Entry) /\ (List!OnceEach(v2) => List!OnceEach(a))
      /\ \A v : List!Holds(a, v) <=> \E j \in A : v2[j].value = v
  BY <1>2, EntriesSelected
<1>5. /\ b \in Seq(List!Entry) /\ (List!OnceEach(v2) => List!OnceEach(b))
      /\ \A v : List!Holds(b, v) <=> \E j \in B : v2[j].value = v
  BY <1>2, EntriesSelected
<1>6. m \in Seq(List!Entry) /\ List!OnceEach(m) /\ \A v : List!Holds(m, v) <=> v = e.value
  BY EntryAlone
<1> HIDE DEF a, b, m
<1>7. /\ r \in Seq(List!Entry)
      /\ \A v : List!Holds(r, v) <=> List!Holds(a, v) \/ List!Holds(m, v)
      /\ List!OnceEach(a) /\ List!OnceEach(m) /\ Apart(a, m) => List!OnceEach(r)
  BY <1>4, <1>6, EntriesJoined
<1> HIDE DEF r
<1>8. /\ r \o b \in Seq(List!Entry)
      /\ \A v : List!Holds(r \o b, v) <=> List!Holds(r, v) \/ List!Holds(b, v)
      /\ List!OnceEach(r) /\ List!OnceEach(b) /\ Apart(r, b) => List!OnceEach(r \o b)
  BY <1>5, <1>7, EntriesJoined
<1>9. \A v : List!Holds(v2, v) => List!Holds(r \o b, v)
  <2>1. \A v : List!Holds(v2, v) => v = e.value \/ \E j \in A \cup B : v2[j].value = v
    BY <1>3 DEF List!Holds
  <2> QED
    BY <1>4, <1>5, <1>6, <1>7, <1>8, <2>1
<1>10. ASSUME List!OnceEach(v2), e.value # List!None => \E k \in DOMAIN v2 : v2[k] = e
       PROVE  List!OnceEach(r \o b)
  <2>1. \A j \in A \cup B : v2[j].value \in ListValue => v2[j].value # e.value
    <3> SUFFICES ASSUME NEW j \in A \cup B, v2[j].value \in ListValue, v2[j].value = e.value
                 PROVE  FALSE
      OBVIOUS
    <3>1. e.value # List!None
      BY EntryFacts
    <3>2. PICK k \in DOMAIN v2 : v2[k] = e
      BY <1>10, <3>1
    <3>3. j = k
      BY <1>2, <1>10, <3>1, <3>2 DEF List!OnceEach, List!IsItem
    <3> QED
      BY <1>3, <3>2, <3>3
  <2>2. Apart(a, m)
    BY <1>4, <1>6, <2>1 DEF Apart
  <2>3. \A v \in ListValue : ~(List!Holds(a, v) /\ List!Holds(b, v))
    <3> SUFFICES ASSUME NEW v \in ListValue, NEW j \in A, NEW k \in B, v2[j].value = v, v2[k].value = v
                 PROVE  FALSE
      BY <1>4, <1>5
    <3>1. j = k
      BY <1>2, <1>10, EntryFacts DEF List!OnceEach, List!IsItem
    <3> QED
      BY <1>3, <3>1
  <2>4. \A v \in ListValue : ~(List!Holds(m, v) /\ List!Holds(b, v))
    BY <1>5, <1>6, <2>1
  <2>5. Apart(r, b)
    BY <1>7, <2>3, <2>4 DEF Apart
  <2> QED
    BY <1>4, <1>5, <1>6, <1>7, <1>8, <1>10, <2>2, <2>5
<1> QED
  BY <1>1, <1>8, <1>9, <1>10

\* An entry is dragged, and no other one.
LEMMA EntryDragged ==
  ASSUME NEW es \in Seq(List!Entry), NEW i \in DOMAIN es, es[i].value # List!None
  PROVE  /\ List!Dragged(es, i) \in Seq(List!Entry) /\ DOMAIN List!Dragged(es, i) = DOMAIN es
         /\ \A j \in DOMAIN es : List!Dragged(es, i)[j].value = es[j].value
<1> DEFINE r == List!Dragged(es, i)
           As(j) == IF j = i THEN "dragged" ELSE IF es[j].as = "dragged" THEN "item" ELSE es[j].as
           To(j) == [es[j] EXCEPT !.as = As(j)]
<1>1. \A j \in DOMAIN es : es[j] \in List!Entry
  OBVIOUS
<1>2. r = [j \in DOMAIN es |-> To(j)]
  BY DEF List!Dragged
<1>3. ASSUME NEW j \in DOMAIN es
      PROVE  To(j) \in List!Entry /\ To(j).value = es[j].value
  <2>1. es[j] \in List!Entry
    BY <1>1
  <2>2. es[j] = [value |-> es[j].value, as |-> es[j].as]
    BY <2>1 DEF List!Entry
  <2>3. [es[j] EXCEPT !.as = As(j)] = [value |-> es[j].value, as |-> As(j)]
    <3> DEFINE x == As(j)
    <3> HIDE DEF x
    <3>1. [es[j] EXCEPT !.as = x] = [value |-> es[j].value, as |-> x]
      BY <2>1 DEF List!Entry
    <3> QED
      BY <3>1 DEF x
  <2>4. CASE es[j].value # List!None
    <3>1. es[j].value \in ListValue /\ As(j) \in {"item", "dragged"}
      BY <2>1, <2>4, EntryFacts
    <3> DEFINE x == As(j)
               y == es[j].value
               z == [es[j] EXCEPT !.as = As(j)]
    <3>2. z = [value |-> y, as |-> x] /\ y \in ListValue /\ x \in {"item", "dragged"}
      BY <2>3, <3>1
    <3> HIDE DEF x, y, z
    <3>3. z \in List!Entry /\ z.value = y
      BY <3>2, EntryFacts
    <3> QED
      BY <3>3 DEF y, z
  <2>5. CASE es[j].value = List!None
    <3>1. As(j) = es[j].as
      BY <2>1, <2>5, EntryFacts
    <3> HIDE DEF As
    <3> QED
      BY <2>1, <2>2, <2>3, <3>1
  <2> QED
    BY <2>4, <2>5
<1> HIDE DEF As, To
<1>4. DOMAIN r = DOMAIN es /\ \A j \in DOMAIN es : r[j] = To(j)
  BY <1>2
<1>5. DOMAIN es = 1..Len(es) /\ Len(es) \in Nat
  OBVIOUS
<1>6. r \in [1..Len(es) -> List!Entry]
  <2>1. \A j \in 1..Len(es) : r[j] \in List!Entry
    BY <1>3, <1>4, <1>5
  <2>2. r = [j \in 1..Len(es) |-> r[j]]
    BY <1>2, <1>5
  <2> HIDE DEF r
  <2> QED
    BY <2>1, <2>2
<1> HIDE DEF r
<1>7. r \in Seq(List!Entry)
  BY <1>5, <1>6
<1> QED
  BY <1>3, <1>4, <1>7 DEF r

\* A placeholder is put into the list.
LEMMA MarkInserted ==
  ASSUME NEW es \in Seq(List!Entry), NEW i \in DOMAIN es
  PROVE  LET t == List!Seqs!InsertAt(es, i + 1, List!Mark)
         IN /\ t \in Seq(List!Entry) /\ \A v : List!Holds(es, v) => List!Holds(t, v)
            /\ List!OnceEach(es) => List!OnceEach(t)
<1> DEFINE a == SubSeq(es, 1, i)
           b == SubSeq(es, i + 1, Len(es))
           m == <<List!Mark>>
           r == a \o m
           t == List!Seqs!InsertAt(es, i + 1, List!Mark)
<1>1. i \in 1..Len(es) /\ Len(es) \in Nat /\ DOMAIN es = 1..Len(es)
  OBVIOUS
<1>2. t = r \o b
  <2>1. (i + 1) - 1 = i
    BY <1>1
  <2> QED
    BY <2>1 DEF List!Seqs!InsertAt
<1>3. a \in Seq(List!Entry) /\ DOMAIN a = 1..i /\ \A j \in 1..i : a[j] = es[j]
  BY <1>1
<1>4. b \in Seq(List!Entry) /\ DOMAIN b = 1..Len(es) - i /\ \A j \in 1..Len(es) - i : b[j] = es[i + j]
  BY <1>1
<1> HIDE DEF a, b, t
<1>5. \A j \in 1..i : j \in DOMAIN es
  BY <1>1
<1>6. \A j \in 1..Len(es) - i : i + j \in DOMAIN es
  BY <1>1
<1>7. List!OnceEach(es) => List!OnceEach(a) /\ List!OnceEach(b)
  <2>1. List!OnceEach(es) => List!OnceEach(a)
    BY <1>3, <1>5 DEF List!OnceEach, List!IsItem
  <2>2. \A j, k \in 1..Len(es) - i : i + j = i + k => j = k
    BY <1>1
  <2>3. List!OnceEach(es) => List!OnceEach(b)
    <3> SUFFICES ASSUME List!OnceEach(es), NEW j \in DOMAIN b, NEW k \in DOMAIN b,
                        b[j].value = b[k].value, b[j].value # List!None
                 PROVE  j = k
      BY DEF List!OnceEach, List!IsItem
    <3> DEFINE p == i + j
               q == i + k
    <3>1. p \in DOMAIN es /\ q \in DOMAIN es /\ es[p] = b[j] /\ es[q] = b[k]
      BY <1>4, <1>6
    <3> HIDE DEF p, q
    <3>2. p = q
      BY <3>1 DEF List!OnceEach, List!IsItem
    <3> QED
      BY <1>4, <2>2, <3>2 DEF p, q
  <2> QED
    BY <2>1, <2>3
<1>8. List!OnceEach(es) => \A v \in ListValue : ~(List!Holds(a, v) /\ List!Holds(b, v))
  <2> SUFFICES ASSUME List!OnceEach(es), NEW v \in ListValue, NEW j \in 1..i, NEW k \in 1..Len(es) - i,
                      es[j].value = v, es[i + k].value = v
               PROVE  FALSE
    BY <1>3, <1>4 DEF List!Holds
  <2> DEFINE p == i + k
  <2>1. j \in DOMAIN es /\ p \in DOMAIN es /\ es[p].value = v
    BY <1>5, <1>6
  <2> HIDE DEF p
  <2>2. j = p
    BY <2>1, EntryFacts DEF List!OnceEach, List!IsItem
  <2> QED
    BY <1>1, <2>2 DEF p
<1>9. m \in Seq(List!Entry) /\ List!OnceEach(m) /\ \A v : List!Holds(m, v) <=> v = List!None
  BY EntryFacts, EntryAlone
<1>10. \A v : List!Holds(es, v) => List!Holds(a, v) \/ List!Holds(b, v)
  <2> SUFFICES ASSUME NEW j \in 1..Len(es)
               PROVE  List!Holds(a, es[j].value) \/ List!Holds(b, es[j].value)
    BY <1>1 DEF List!Holds
  <2>1. CASE j <= i
    <3>1. j \in 1..i
      BY <2>1
    <3> QED
      BY <1>3, <3>1 DEF List!Holds
  <2>2. CASE j > i
    <3>1. j - i \in 1..Len(es) - i /\ i + (j - i) = j
      BY <1>1, <2>2
    <3> QED
      BY <1>4, <3>1 DEF List!Holds
  <2> QED
    BY <1>1, <2>1, <2>2
<1> HIDE DEF m
<1>11. Apart(a, m) /\ List!None \notin ListValue
  BY <1>9, EntryFacts DEF Apart
<1>12. /\ r \in Seq(List!Entry)
       /\ \A v : List!Holds(r, v) <=> List!Holds(a, v) \/ List!Holds(m, v)
       /\ List!OnceEach(a) /\ List!OnceEach(m) /\ Apart(a, m) => List!OnceEach(r)
  BY <1>3, <1>9, EntriesJoined
<1> HIDE DEF r
<1>13. List!OnceEach(es) => Apart(r, b)
  BY <1>8, <1>9, <1>11, <1>12 DEF Apart
<1>14. /\ r \o b \in Seq(List!Entry)
       /\ \A v : List!Holds(r \o b, v) <=> List!Holds(r, v) \/ List!Holds(b, v)
       /\ List!OnceEach(r) /\ List!OnceEach(b) /\ Apart(r, b) => List!OnceEach(r \o b)
  BY <1>4, <1>12, EntriesJoined
<1>15. /\ t \in Seq(List!Entry) /\ \A v : List!Holds(es, v) => List!Holds(t, v)
       /\ List!OnceEach(es) => List!OnceEach(t)
  BY <1>2, <1>7, <1>9, <1>10, <1>11, <1>12, <1>13, <1>14
<1> QED
  BY <1>15 DEF t

\* The placeholder goes, and an item is no longer dragged.
LEMMA EntriesSettled ==
  ASSUME NEW es \in Seq(List!Entry), NEW e \in List!Entry, e.value # List!None
  PROVE  /\ List!Settled(es, e) \in Seq(List!Entry)
         /\ \A v \in ListValue : List!Holds(es, v) => List!Holds(List!Settled(es, e), v)
         /\ List!OnceEach(es) => List!OnceEach(List!Settled(es, e))
<1> DEFINE S == {j \in DOMAIN es : es[j] # List!Mark}
           rest == Selected(es, S)
           t == List!Settled(es, e)
<1>1. t = [j \in DOMAIN rest |-> IF rest[j] = e THEN [rest[j] EXCEPT !.as = "item"] ELSE rest[j]]
  BY ListOperators DEF List!Settled
<1>2. \A v \in ListValue : List!Holds(es, v) => \E j \in S : es[j].value = v
  BY EntryFacts DEF List!Holds
<1>3. S \in SUBSET (DOMAIN es)
  OBVIOUS
<1> HIDE DEF S
<1>4. /\ rest \in Seq(List!Entry) /\ (List!OnceEach(es) => List!OnceEach(rest))
      /\ \A v : List!Holds(rest, v) <=> \E j \in S : es[j].value = v
  BY <1>3, EntriesSelected
<1> HIDE DEF rest, t
<1>5. e.value \in ListValue /\ [e EXCEPT !.as = "item"] = [value |-> e.value, as |-> "item"]
  BY EntryFacts DEF List!Entry
<1>6. [e EXCEPT !.as = "item"] \in List!Entry /\ [e EXCEPT !.as = "item"].value = e.value
  BY <1>5, EntryFacts
<1>7. DOMAIN rest = 1..Len(rest) /\ Len(rest) \in Nat /\ \A j \in DOMAIN rest : rest[j] \in List!Entry
  BY <1>4
<1>8. DOMAIN t = DOMAIN rest /\ \A j \in DOMAIN rest : t[j] \in List!Entry /\ t[j].value = rest[j].value
  BY <1>1, <1>6, <1>7
<1>9. t = [j \in 1..Len(rest) |-> t[j]]
  BY <1>1, <1>7
<1>10. t \in Seq(List!Entry)
  BY <1>7, <1>8, <1>9
<1>11. (\A v : List!Holds(t, v) <=> List!Holds(rest, v)) /\ (List!OnceEach(rest) => List!OnceEach(t))
  BY <1>8, SameValues
<1> QED
  BY <1>2, <1>4, <1>10, <1>11 DEF t

\* What has to be shown of a step.
ListGoes ==
  /\ v1 \in BOOLEAN /\ v2 \in Seq(List!Entry) /\ v3 \in ListValue \cup {List!None}
  /\ v4 \in [ListValue -> {List!None, "free", "taken", "custom"}]
  /\ \A v \in ListValue : v4[v] \in {"taken", "custom"} => List!Holds(v2, v)

\* An entry fits, and no value is there twice that was not.
LEMMA ListGone ==
  ASSUME ListGoes', v3 = List!None /\ List!OnceEach(v2) => List!OnceEach(v2')
  PROVE  List!EntriesFit' /\ List!OnceUnlessDropped
BY DEF ListGoes, List!EntriesFit, List!TakenAreListed, List!OnceUnlessDropped

\* No value leaves the list: what is not offered is still in it.
LEMMA ListGrown ==
  ASSUME List!EntriesFit, Grown(v2'), v1' = v1, v3' \in ListValue \cup {List!None}, v4' = v4
  PROVE  List!EntriesFit' /\ List!OnceUnlessDropped
BY ListState, ListGone DEF ListGoes, Grown, List!TakenAreListed

\* A value is picked, made up or typed.
LEMMA ValuePicked ==
  ASSUME List!EntriesFit, NEW v \in ListValue, List!Pick(v) \/ List!CreateIn(v) \/ List!AddText(v)
  PROVE  List!EntriesFit' /\ List!OnceUnlessDropped
<1>1. v2' = List!AddItem(v2, v) /\ v1' = v1 /\ v3' = v3
  BY DEF List!Pick, List!CreateIn, List!AddText, List!HandleDropdownChange
<1>2. v4' = v4 \/ v4' = [v4 EXCEPT ![v] = "taken"] \/ v4' = [v4 EXCEPT ![v] = "custom"]
  BY DEF List!Pick, List!CreateIn, List!AddText, List!HandleDropdownChange
<1>3. Grown(List!AddItem(v2, v)) /\ List!Holds(List!AddItem(v2, v), v)
  BY ListState, ItemAdded
<1>4. Grown(v2') /\ List!Holds(v2', v)
  BY <1>1, <1>3
<1>5. v4' \in [ListValue -> {List!None, "free", "taken", "custom"}]
  BY <1>2, ListState
<1>6. \A w \in ListValue : v4'[w] \in {"taken", "custom"} => List!Holds(v2', w)
  BY <1>2, <1>4, ListState DEF Grown, List!TakenAreListed
<1>7. ListGoes'
  BY <1>1, <1>4, <1>5, <1>6, ListState DEF ListGoes, Grown
<1> QED
  BY <1>4, <1>7, ListGone DEF Grown

\* What is offered again is not taken, and nothing else changes.
LEMMA ReleasedFacts ==
  ASSUME List!EntriesFit, NEW vs
  PROVE  /\ List!Released(vs) \in [ListValue -> {List!None, "free", "taken", "custom"}]
         /\ \A v \in ListValue : List!Released(vs)[v] \in {"taken", "custom"} =>
              v \notin vs /\ v4[v] \in {"taken", "custom"}
<1>1. v4 \in [ListValue -> {List!None, "free", "taken", "custom"}]
  BY ListState
<1> DEFINE r == List!Released(vs)
<1>2. r = [v \in ListValue |-> IF v \notin vs \/ v4[v] = List!None THEN v4[v]
                               ELSE IF v4[v] = "custom" THEN List!None ELSE "free"]
  BY DEF List!Released
<1> HIDE DEF r
<1>3. r \in [ListValue -> {List!None, "free", "taken", "custom"}]
  BY <1>1, <1>2
<1>4. List!None \notin {"taken", "custom"}
  BY DEF List!None
<1>5. \A v \in ListValue : r[v] \in {"taken", "custom"} => v \notin vs /\ v4[v] \in {"taken", "custom"}
  BY <1>2, <1>4
<1> QED
  BY <1>3, <1>5 DEF r

\* An item that is removed may be the dragged one.
LEMMA LoosenedFits ==
  ASSUME List!EntriesFit, NEW removed \in SUBSET List!Entry
  PROVE  List!Loosened(removed) \in ListValue \cup {List!None}
<1>1. CASE \E e \in removed : e.as = "dragged"
  <2>1. (CHOOSE e \in removed : e.as = "dragged") \in List!Entry
    BY <1>1
  <2> QED
    BY <1>1, <2>1, EntryFacts DEF List!Loosened
<1>2. CASE ~\E e \in removed : e.as = "dragged"
  BY <1>2, ListState DEF List!Loosened
<1> QED
  BY <1>1, <1>2

\* An item is removed.
LEMMA ItemRemoved ==
  ASSUME List!EntriesFit, NEW i \in DOMAIN v2, List!RemoveItem(i)
  PROVE  List!EntriesFit' /\ List!OnceUnlessDropped
<1> DEFINE t == SubSeq(v2, 1, i - 1) \o SubSeq(v2, i + 1, Len(v2))
<1>1. v2 \in Seq(List!Entry) /\ v2[i] \in List!Entry
  BY ListState
<1>2. /\ t \in Seq(List!Entry)
      /\ \A j \in DOMAIN t : t[j] = v2[IF j < i THEN j ELSE j + 1]
      /\ \A j \in DOMAIN v2 \ {i} : \E k \in DOMAIN t : t[k] = v2[j]
      /\ Len(t) = Len(v2) - 1
  BY <1>1, WithoutOne
<1>3. /\ v2' = t /\ v1' = v1 /\ v4' = List!Released({v2[i].value})
      /\ v3' = List!Loosened({v2[i]})
  BY DEF List!RemoveItem, List!Seqs!RemoveAt
<1> HIDE DEF t
<1>4. \A v \in ListValue : List!Holds(v2, v) /\ v # v2[i].value => List!Holds(t, v)
  BY <1>2 DEF List!Holds
<1>5. List!OnceEach(v2) => List!OnceEach(t)
  <2> DEFINE p == [j \in DOMAIN t |-> IF j < i THEN j ELSE j + 1]
  <2>1. DOMAIN t = 1..Len(v2) - 1 /\ DOMAIN v2 = 1..Len(v2) /\ Len(v2) \in Nat /\ i \in 1..Len(v2)
    BY <1>1, <1>2
  <2>2. \A j \in DOMAIN t : p[j] \in DOMAIN v2 /\ t[j] = v2[p[j]]
    BY <1>2, <2>1
  <2>3. \A j, k \in DOMAIN t : p[j] = p[k] => j = k
    BY <2>1
  <2> HIDE DEF p
  <2> QED
    BY <2>2, <2>3 DEF List!OnceEach, List!IsItem
<1>6. ListGoes'
  <2>1. v3' \in ListValue \cup {List!None}
    BY <1>1, <1>3, LoosenedFits
  <2>2. v4' \in [ListValue -> {List!None, "free", "taken", "custom"}]
    BY <1>3, ReleasedFacts
  <2>3. \A v \in ListValue : v4'[v] \in {"taken", "custom"} => List!Holds(t, v)
    BY <1>3, <1>4, ReleasedFacts, ListState DEF List!TakenAreListed
  <2> QED
    BY <1>2, <1>3, <2>1, <2>2, <2>3, ListState DEF ListGoes
<1> QED
  BY <1>3, <1>5, <1>6, ListGone

\* Other values are set.
LEMMA ListSet ==
  ASSUME List!EntriesFit, NEW vs \in List!OrderedOnce, List!SetValue(vs)
  PROVE  List!EntriesFit' /\ List!OnceUnlessDropped
<1> DEFINE removed == {v2[i] : i \in {j \in DOMAIN v2 : List!IsItem(v2[j])}}
           kept == Selected(v2, {i \in DOMAIN v2 : ~List!IsItem(v2[i])})
<1>1. v2 \in Seq(List!Entry) /\ removed \in SUBSET List!Entry
  BY ListState
<1>2. /\ v4' = List!Released({e.value : e \in removed}) /\ v3' = List!Loosened(removed)
      /\ v2' = List!AddItems(kept, vs) /\ v1' = v1
  BY ListOperators DEF List!SetValue
<1>3. kept \in Seq(List!Entry) /\ (List!OnceEach(v2) => List!OnceEach(kept))
  BY <1>1, EntriesSelected
<1>4. \A v \in ListValue : List!Holds(v2, v) => v \in {e.value : e \in removed}
  BY EntryFacts DEF List!Holds, List!IsItem
<1> HIDE DEF removed, kept
<1>5. List!AddItems(kept, vs) \in Seq(List!Entry) /\ (List!OnceEach(kept) => List!OnceEach(List!AddItems(kept, vs)))
  BY <1>3, ItemsJoined
<1>6. v3' \in ListValue \cup {List!None}
  BY <1>1, <1>2, LoosenedFits
<1>7. v4' \in [ListValue -> {List!None, "free", "taken", "custom"}]
  BY <1>2, ReleasedFacts
<1>8. \A v \in ListValue : v4'[v] \notin {"taken", "custom"}
  BY <1>2, <1>4, ReleasedFacts, ListState DEF List!TakenAreListed
<1>9. ListGoes'
  BY <1>2, <1>5, <1>6, <1>7, <1>8, ListState DEF ListGoes
<1> QED
  BY <1>2, <1>3, <1>5, <1>9, ListGone

\* The combobox gets other choices.
LEMMA ChoicesChanged ==
  ASSUME List!EntriesFit, List!ClearChoices \/ List!AddChoices
  PROVE  List!EntriesFit' /\ List!OnceUnlessDropped
<1>1. v1' = v1 /\ v2' = v2 /\ v3' = v3
  BY DEF List!ClearChoices, List!AddChoices
<1>2. /\ v4' \in [ListValue -> {List!None, "free", "taken", "custom"}]
      /\ \A v \in ListValue : v4'[v] \in {"taken", "custom"} => v4[v] \in {"taken", "custom"}
  <2>1. CASE List!ClearChoices
    BY <2>1 DEF List!ClearChoices, List!None
  <2>2. CASE List!AddChoices
    BY <2>2, ListState DEF List!AddChoices
  <2> QED
    BY <2>1, <2>2
<1>3. ListGoes'
  BY <1>1, <1>2, ListState DEF ListGoes, List!TakenAreListed
<1> QED
  BY <1>1, <1>3, ListGone

\* What is dragged is an item, and among the entries unless it was removed.
LEMMA DraggedFacts ==
  ASSUME List!EntriesFit, NEW e \in List!DraggedEntry
  PROVE  /\ e \in List!Entry /\ e.value # List!None
         /\ v3 = List!None => \E k \in DOMAIN v2 : v2[k] = e
<1>1. CASE v3 # List!None
  <2>1. e = [value |-> v3, as |-> "dragged"] /\ v3 \in ListValue
    BY <1>1, ListState DEF List!DraggedEntry
  <2> QED
    BY <1>1, <2>1, EntryFacts
<1>2. CASE v3 = List!None
  <2>1. PICK k \in DOMAIN v2 : v2[k] = e /\ v2[k].as = "dragged"
    BY <1>2 DEF List!DraggedEntry
  <2>2. v2[k] \in List!Entry
    BY ListState
  <2> QED
    BY <2>1, <2>2, EntryFacts
<1> QED
  BY <1>1, <1>2

\* An item is dragged or dropped.
LEMMA ItemDragged ==
  ASSUME List!EntriesFit, NEW i \in Int, List!Drop(i) \/ (i \in DOMAIN v2 /\ List!DragStart(i))
  PROVE  List!EntriesFit' /\ List!OnceUnlessDropped
<1>1. v1' = v1 /\ v3' = List!None /\ v4' = v4 /\ v2 \in Seq(List!Entry)
  BY ListState DEF List!Drop, List!DragStart
<1>2. Grown(v2')
  <2>1. CASE List!Drop(i)
    <3>1. PICK e \in List!DraggedEntry : v2' = List!Moved(e, i)
      BY <2>1 DEF List!Drop
    <3> QED
      BY <1>1, <3>1, DraggedFacts, EntryMoved DEF Grown
  <2>2. CASE i \in DOMAIN v2 /\ List!DragStart(i)
    <3>1. v2' = List!Dragged(v2, i) /\ v2[i].value # List!None
      BY <2>2 DEF List!DragStart, List!IsItem
    <3> DEFINE t == List!Dragged(v2, i)
    <3>2. t \in Seq(List!Entry) /\ DOMAIN t = DOMAIN v2 /\ \A j \in DOMAIN v2 : t[j].value = v2[j].value
      BY <1>1, <2>2, <3>1, EntryDragged
    <3> HIDE DEF t
    <3>3. (\A v : List!Holds(t, v) <=> List!Holds(v2, v)) /\ (List!OnceEach(v2) => List!OnceEach(t))
      BY <3>2, SameValues
    <3>4. Grown(t)
      BY <3>2, <3>3 DEF Grown
    <3> QED
      BY <3>1, <3>4 DEF t
  <2> QED
    BY <2>1, <2>2
<1> QED
  BY <1>1, <1>2, ListGrown

\* An item is touched, and moved.
LEMMA ItemTouched ==
  ASSUME List!EntriesFit, NEW i \in DOMAIN v2, List!TouchStart(i) \/ List!TouchMove(i)
  PROVE  List!EntriesFit' /\ List!OnceUnlessDropped
<1>1. v1' = v1 /\ v4' = v4 /\ v2 \in Seq(List!Entry) /\ v3' \in ListValue \cup {List!None} /\ i \in Int
  BY ListState DEF List!TouchStart, List!TouchMove
<1>2. CASE List!TouchStart(i)
  <2> DEFINE es == [j \in DOMAIN v2 |->
                      IF v2[j].as = "mark" THEN [v2[j] EXCEPT !.as = "stray"] ELSE v2[j]]
             t == List!Dragged(es, i)
             r == List!Seqs!InsertAt(t, i + 1, List!Mark)
  <2>1. v2[i].value # List!None /\ v2' = r
    BY <1>2 DEF List!TouchStart, List!IsItem, List!Mark
  <2>2. \A j \in DOMAIN v2 : v2[j] \in List!Entry
    BY <1>1
  <2>3. \A e \in List!Entry : e.as = "mark" =>
          [e EXCEPT !.as = "stray"] \in List!Entry /\ [e EXCEPT !.as = "stray"].value = e.value
    BY DEF List!Entry
  <2>4. \A j \in DOMAIN v2 : es[j] \in List!Entry /\ es[j].value = v2[j].value
    BY <2>2, <2>3
  <2>5. DOMAIN v2 = 1..Len(v2) /\ Len(v2) \in Nat
    BY <1>1
  <2>6. DOMAIN es = 1..Len(v2) /\ es = [j \in 1..Len(v2) |-> es[j]]
    BY <2>5
  <2> HIDE DEF es
  <2>7. es \in Seq(List!Entry)
    BY <2>4, <2>5, <2>6
  <2>8. /\ t \in Seq(List!Entry) /\ DOMAIN t = DOMAIN es
        /\ \A j \in DOMAIN es : t[j].value = es[j].value
    BY <2>1, <2>4, <2>5, <2>6, <2>7, EntryDragged
  <2> HIDE DEF t
  <2>9. (\A v : List!Holds(t, v) <=> List!Holds(v2, v)) /\ (List!OnceEach(v2) => List!OnceEach(t))
    BY <2>4, <2>5, <2>6, <2>8, SameValues
  <2>10. i \in DOMAIN t
    BY <2>5, <2>6, <2>8
  <2>11. /\ r \in Seq(List!Entry) /\ (\A v : List!Holds(t, v) => List!Holds(r, v))
         /\ (List!OnceEach(t) => List!OnceEach(r))
    BY <2>8, <2>10, MarkInserted
  <2> HIDE DEF r
  <2>12. Grown(r)
    BY <2>9, <2>11 DEF Grown
  <2> QED
    BY <1>1, <2>1, <2>12, ListGrown
<1>3. CASE List!TouchMove(i)
  <2>1. PICK after \in {0, 1} : v2' = List!Moved(List!Mark, i + after)
    BY <1>3 DEF List!TouchMove
  <2>2. i + after \in Int
    BY <1>1
  <2>3. Grown(v2')
    BY <1>1, <2>1, <2>2, EntryFacts, EntryMoved DEF Grown
  <2> QED
    BY <1>1, <2>3, ListGrown
<1> QED
  BY <1>2, <1>3

\* The finger is lifted.
LEMMA TouchEnded ==
  ASSUME List!EntriesFit, List!TouchEnd
  PROVE  List!EntriesFit' /\ List!OnceUnlessDropped
<1>1. v1' = v1 /\ v4' = v4 /\ v2 \in Seq(List!Entry) /\ v3' = List!None
  BY ListState DEF List!TouchEnd
<1>2. PICK e \in List!DraggedEntry, i \in DOMAIN v2 : v2' = List!Settled(List!Moved(e, i), e)
  BY DEF List!TouchEnd
<1>3. e \in List!Entry /\ e.value # List!None /\ (v3 = List!None => \E k \in DOMAIN v2 : v2[k] = e) /\ i \in Int
  BY <1>1, DraggedFacts
<1> DEFINE m == List!Moved(e, i)
           t == List!Settled(m, e)
<1>4. /\ m \in Seq(List!Entry) /\ \A v : List!Holds(v2, v) => List!Holds(m, v)
      /\ v3 = List!None /\ List!OnceEach(v2) => List!OnceEach(m)
  BY <1>1, <1>3, EntryMoved
<1> HIDE DEF m
<1>5. /\ t \in Seq(List!Entry) /\ \A v \in ListValue : List!Holds(m, v) => List!Holds(t, v)
      /\ List!OnceEach(m) => List!OnceEach(t)
  BY <1>3, <1>4, EntriesSettled
<1> HIDE DEF t
<1>6. Grown(t)
  BY <1>4, <1>5 DEF Grown
<1> QED
  BY <1>1, <1>2, <1>6, ListGrown DEF t, m

\* Whatever is done to the list.
LEMMA ListStep ==
  ASSUME List!EntriesFit, List!ListNext
  PROVE  List!EntriesFit' /\ List!OnceUnlessDropped
<1>1. \A i \in DOMAIN v2 : i \in Int
  BY ListState
<1>2. \A i \in 1..Len(v2) + 1 : i \in Int
  OBVIOUS
<1>3. ASSUME NEW i \in DOMAIN v2, List!RemoveItem(i) \/ List!DragStart(i) \/ List!TouchStart(i) \/ List!TouchMove(i)
      PROVE  List!EntriesFit' /\ List!OnceUnlessDropped
  BY <1>1, <1>3, ItemRemoved, ItemDragged, ItemTouched
<1>4. ASSUME NEW i \in 1..(Len(v2) + 1), List!Drop(i)
      PROVE  List!EntriesFit' /\ List!OnceUnlessDropped
  BY <1>2, <1>4, ItemDragged
<1> QED
  BY <1>3, <1>4, ValuePicked, ListSet, ChoicesChanged, TouchEnded DEF List!ListNext

\* The list when it is drawn.
LEMMA ListStart ==
  ASSUME List!ListInit
  PROVE  List!EntriesFit
<1>1. PICK vs \in List!OrderedOnce : v2 = List!AddItems(<<>>, vs)
  BY DEF List!ListInit
<1>2. << >> \in Seq(List!Entry)
  OBVIOUS
<1>3. v2 \in Seq(List!Entry)
  BY <1>1, <1>2, ItemsJoined
<1>4. v4 \in [ListValue -> {List!None, "free", "taken", "custom"}] /\ \A v \in ListValue : v4[v] \notin {"taken", "custom"}
  BY DEF List!ListInit, List!None
<1>5. v1 \in BOOLEAN /\ v3 = List!None
  BY DEF List!ListInit
<1> QED
  BY <1>3, <1>4, <1>5 DEF List!EntriesFit, List!TakenAreListed

\* Nothing changes while nothing happens.
LEMMA ListRests ==
  ASSUME UNCHANGED pageVars
  PROVE  /\ List!EntriesFit' = List!EntriesFit
         /\ List!OnceUnlessDropped
BY DEF pageVars, List!EntriesFit, List!TakenAreListed, List!OnceUnlessDropped

-----------------------------------------------------------------------------
(* Tabs                                                                    *)

Stored == [page : TabPage, paths : [{Path[g] : g \in Group} -> Tabs!Pane \cup {Tabs!Unset}]]

\* What is known of each variable.
LEMMA TabsState ==
  ASSUME Tabs!TabsFit
  PROVE  /\ v1 \in TabPage /\ v2 \in [Group -> {"no", "yes", "failed"}]
         /\ v3 \in [Group -> SUBSET Tabs!Pane] /\ v4 \in [Group -> SUBSET Tabs!Pane]
         /\ v5 \in [Group -> SUBSET Tabs!Pane]
         /\ v6 \in Stored /\ v7 \in [Group -> Tabs!Pane \cup {Tabs!Unset}] /\ v8 \subseteq Group
         /\ Tabs!ChoiceIsStored /\ Tabs!EmptyAreHidden /\ Tabs!ChosenTabIsKept
BY DEF Tabs!TabsFit, Tabs!MenusFit, Stored

\* A pane is a number, and none of them is Unset.
LEMMA PanesAreNumbers ==
  Tabs!Pane \subseteq Nat /\ Tabs!Unset \notin Tabs!Pane /\ IsFiniteSet(Tabs!Pane)
<1>1. Panes \in Nat
  BY TabsAssumption
<1>2. IsFiniteSet(0..Panes - 1)
  BY <1>1, FS_Interval
<1> QED
  BY <1>1, <1>2 DEF Tabs!Pane, Tabs!Unset

\* Of the panes that are not empty there is a first one.
LEMMA FirstFull ==
  ASSUME NEW full \in SUBSET Tabs!Pane, full # {}
  PROVE  (CHOOSE i \in full : \A j \in full : i <= j) \in full
<1> DEFINE id == [i \in full |-> i]
<1>1. IsFiniteSet(full) /\ id \in [full -> Int]
  <2>1. IsFiniteSet(full)
    BY PanesAreNumbers, FS_Subset
  <2>2. \A i \in full : i \in Int
    BY PanesAreNumbers
  <2> QED
    BY <2>1, <2>2
<1>2. PICK i \in full : \A j \in full : id[i] <= id[j]
  <2> HIDE DEF id
  <2> QED
    BY <1>1, Least
<1>3. \A j \in full : i <= j
  BY <1>2
<1> QED
  BY <1>3

\* What is selected is a pane, and not an empty one while there is another.
LEMMA SelectedIsFull ==
  ASSUME Tabs!TabsFit, NEW g \in Group
  PROVE  /\ Tabs!Selected(g) \in Tabs!Pane \cup {Tabs!Unset}
         /\ v3[g] # Tabs!Pane => Tabs!Selected(g) \in Tabs!Pane \ v3[g]
         /\ Tabs!GetActiveTabState \in Stored
<1>1. Tabs!GetActiveTabState \in Stored
  BY TabsState DEF Tabs!GetActiveTabState, Tabs!NoPaths, Stored
<1>2. Tabs!GetActiveTabId(g) \in Tabs!Pane \cup {Tabs!Unset}
  BY <1>1 DEF Tabs!GetActiveTabId, Stored
<1> DEFINE full == Tabs!Pane \ v3[g]
           id == Tabs!GetActiveTabId(g)
<1>3. Tabs!Selected(g) = IF id \in full \/ full = {} THEN id ELSE CHOOSE i \in full : \A j \in full : i <= j
  BY DEF Tabs!Selected
<1>4. v3[g] \subseteq Tabs!Pane
  BY TabsState
<1> HIDE DEF full, id
<1>5. CASE id \in full \/ full = {}
  BY <1>1, <1>2, <1>3, <1>4, <1>5 DEF full, id
<1>6. CASE ~(id \in full \/ full = {})
  <2>1. Tabs!Selected(g) \in full
    BY <1>3, <1>6, FirstFull DEF full
  <2> QED
    BY <1>1, <2>1 DEF full
<1> QED
  BY <1>5, <1>6

\* A page is opened.
LEMMA TabsOpened ==
  ASSUME Tabs!TabsFit, NEW p \in TabPage, Tabs!OpenPage(p)
  PROVE  Tabs!TabsFit'
<1>1. /\ v1' = p /\ v2' = [g \in Group |-> "no"] /\ v3' \in [Group -> SUBSET Tabs!Pane]
      /\ v4' = [g \in Group |-> {}] /\ v5' = [g \in Group |-> {}] /\ v8' = {} /\ v6' = v6
      /\ v7' = IF p = v1 THEN v7 ELSE [g \in Group |-> Tabs!Unset]
  BY DEF Tabs!OpenPage
<1>2. Tabs!MenusFit'
  BY <1>1, TabsState DEF Tabs!MenusFit, Stored
<1>3. Tabs!ChoiceIsStored'
  BY <1>1, TabsState DEF Tabs!ChoiceIsStored
<1>4. Tabs!EmptyAreHidden' /\ Tabs!ChosenTabIsKept'
  BY <1>1 DEF Tabs!EmptyAreHidden, Tabs!ChosenTabIsKept
<1> QED
  BY <1>2, <1>3, <1>4 DEF Tabs!TabsFit

\* A group is drawn again.
LEMMA TabsRedrawn ==
  ASSUME Tabs!TabsFit, NEW g \in Group, NEW panes \in SUBSET Tabs!Pane, Tabs!Redraw(g, panes)
  PROVE  Tabs!TabsFit'
<1>1. /\ v2' = [v2 EXCEPT ![g] = "no"] /\ v3' = [v3 EXCEPT ![g] = panes]
      /\ v4' = [v4 EXCEPT ![g] = {}] /\ v5' = [v5 EXCEPT ![g] = {}] /\ v8' = v8 \ {g}
      /\ v1' = v1 /\ v6' = v6 /\ v7' = v7
  BY DEF Tabs!Redraw
<1>2. Tabs!MenusFit'
  BY <1>1, TabsState DEF Tabs!MenusFit, Stored
<1>3. Tabs!ChoiceIsStored'
  BY <1>1, TabsState DEF Tabs!ChoiceIsStored
<1>4. Tabs!EmptyAreHidden'
  BY <1>1, TabsState DEF Tabs!EmptyAreHidden
<1>5. Tabs!ChosenTabIsKept'
  BY <1>1, TabsState DEF Tabs!ChosenTabIsKept
<1> QED
  BY <1>2, <1>3, <1>4, <1>5 DEF Tabs!TabsFit

\* The choice of one group is stored, and those of its path are forgotten.
LEMMA ChoiceStored ==
  ASSUME Tabs!TabsFit, NEW g \in Group, NEW i \in Tabs!Pane \cup {Tabs!Unset}, v1' = v1,
         Tabs!SetActiveTabId(g, i), NEW k \in {i, Tabs!Unset}, v7' = Tabs!Chosen(g, k)
  PROVE  v6' \in Stored /\ v7' \in [Group -> Tabs!Pane \cup {Tabs!Unset}] /\ Tabs!ChoiceIsStored'
<1> DEFINE s == Tabs!GetActiveTabState
<1>1. s \in Stored /\ s.page = v1
  BY SelectedIsFull, TabsState DEF Tabs!GetActiveTabState
<1>2. v6' = [s EXCEPT !.paths[Path[g]] = i]
  BY DEF Tabs!SetActiveTabId
<1>3. s.paths \in [{Path[h] : h \in Group} -> Tabs!Pane \cup {Tabs!Unset}]
  BY <1>1 DEF Stored
<1>4. \A h \in Group : v7[h] # Tabs!Unset => s.paths[Path[h]] = v7[h]
  BY TabsState DEF Tabs!ChoiceIsStored, Tabs!GetActiveTabState
<1> HIDE DEF s
<1>5. v6' \in Stored /\ v6'.page = v1
  BY <1>1, <1>2, <1>3 DEF Stored
<1>6. v6'.paths = [s.paths EXCEPT ![Path[g]] = i]
  BY <1>1, <1>2 DEF Stored
<1>7. \A h \in Group : v6'.paths[Path[h]] = IF Path[h] = Path[g] THEN i ELSE s.paths[Path[h]]
  BY <1>3, <1>6
<1>8. v7' = [h \in Group |-> IF h = g THEN k ELSE IF Path[h] = Path[g] THEN Tabs!Unset ELSE v7[h]]
  BY DEF Tabs!Chosen
<1>9. v7' \in [Group -> Tabs!Pane \cup {Tabs!Unset}]
  BY <1>8, TabsState
<1>10. Tabs!ChoiceIsStored'
  <2>1. \A h \in Group : v7'[h] # Tabs!Unset => v6'.paths[Path[h]] = v7'[h]
    BY <1>4, <1>7, <1>8
  <2> QED
    BY <1>5, <2>1 DEF Tabs!ChoiceIsStored
<1> QED
  BY <1>5, <1>9, <1>10

\* A group is drawn, with a tab that is selected or an error.
LEMMA TabsDrawn ==
  ASSUME Tabs!TabsFit, NEW g \in Group, Tabs!InitTabGroup(g)
  PROVE  Tabs!TabsFit'
<1>1. v2[g] = "no" /\ v4' = [v4 EXCEPT ![g] = v3[g]] /\ v1' = v1 /\ v3' = v3 /\ v8' = v8
  BY DEF Tabs!InitTabGroup
<1>2. CASE Tabs!Selected(g) = Tabs!Unset
  <2>1. v2' = [v2 EXCEPT ![g] = "failed"] /\ v5' = v5 /\ v7' = v7 /\ v6' = Tabs!GetActiveTabState
    BY <1>2 DEF Tabs!InitTabGroup
  <2>2. Tabs!MenusFit'
    BY <1>1, <2>1, TabsState, SelectedIsFull DEF Tabs!MenusFit, Stored
  <2>3. Tabs!ChoiceIsStored'
    BY <1>1, <2>1, TabsState DEF Tabs!ChoiceIsStored, Tabs!GetActiveTabState
  <2>4. Tabs!EmptyAreHidden'
    BY <1>1, <2>1, TabsState DEF Tabs!EmptyAreHidden
  <2>5. Tabs!ChosenTabIsKept'
    BY <1>1, <2>1, TabsState DEF Tabs!ChosenTabIsKept
  <2> QED
    BY <2>2, <2>3, <2>4, <2>5 DEF Tabs!TabsFit
<1>3. CASE Tabs!Selected(g) # Tabs!Unset
  <2> DEFINE i == Tabs!Selected(g)
             k == IF i = v7[g] THEN v7[g] ELSE Tabs!Unset
  <2>1. /\ v2' = [v2 EXCEPT ![g] = "yes"] /\ v5' = [v5 EXCEPT ![g] = {i}]
        /\ Tabs!SetActiveTabId(g, i) /\ v7' = Tabs!Chosen(g, k)
    BY <1>3 DEF Tabs!InitTabGroup
  <2>2. i \in Tabs!Pane /\ (v3[g] # Tabs!Pane => i \notin v3[g])
    BY <1>3, SelectedIsFull
  <2>3. k \in {i, Tabs!Unset}
    OBVIOUS
  <2> HIDE DEF i, k
  <2>4. v6' \in Stored /\ v7' \in [Group -> Tabs!Pane \cup {Tabs!Unset}] /\ Tabs!ChoiceIsStored'
    BY <1>1, <2>1, <2>2, <2>3, ChoiceStored
  <2>5. Tabs!MenusFit'
    BY <1>1, <2>1, <2>2, <2>4, TabsState DEF Tabs!MenusFit, Stored
  <2>6. Tabs!EmptyAreHidden'
    BY <1>1, <2>1, TabsState DEF Tabs!EmptyAreHidden
  <2>7. Tabs!ChosenTabIsKept'
    <3>1. v7' = [h \in Group |-> IF h = g THEN k ELSE IF Path[h] = Path[g] THEN Tabs!Unset ELSE v7[h]]
      BY <2>1 DEF Tabs!Chosen
    <3> QED
      BY <1>1, <2>1, <2>2, <2>3, <3>1, TabsState DEF Tabs!ChosenTabIsKept
  <2> QED
    BY <2>4, <2>5, <2>6, <2>7 DEF Tabs!TabsFit
<1> QED
  BY <1>2, <1>3

\* Fields are shown or hidden.
LEMMA TabsUpdated ==
  ASSUME Tabs!TabsFit, NEW g \in Group, NEW panes \in SUBSET Tabs!Pane, Tabs!UpdateTabs(g, panes)
  PROVE  Tabs!TabsFit'
<1>1. /\ v3' = [v3 EXCEPT ![g] = panes] /\ v4' = [v4 EXCEPT ![g] = panes]
      /\ v8' = IF panes = v3[g] THEN v8 ELSE v8 \cup {g}
      /\ v1' = v1 /\ v2' = v2 /\ v5' = v5 /\ v6' = v6 /\ v7' = v7
  BY DEF Tabs!UpdateTabs
<1>2. Tabs!MenusFit'
  BY <1>1, TabsState DEF Tabs!MenusFit, Stored
<1>3. Tabs!ChoiceIsStored'
  BY <1>1, TabsState DEF Tabs!ChoiceIsStored
<1>4. Tabs!EmptyAreHidden'
  BY <1>1, TabsState DEF Tabs!EmptyAreHidden
<1>5. Tabs!ChosenTabIsKept'
  BY <1>1, TabsState DEF Tabs!ChosenTabIsKept
<1> QED
  BY <1>2, <1>3, <1>4, <1>5 DEF Tabs!TabsFit

\* The user chooses a tab that is not hidden.
LEMMA TabSwitched ==
  ASSUME Tabs!TabsFit, NEW g \in Group, NEW i \in Tabs!Pane, Tabs!SwitchTab(g, i)
  PROVE  Tabs!TabsFit'
<1>1. /\ v2[g] # "no" /\ i \notin v4[g] /\ v5' = [v5 EXCEPT ![g] = {i}]
      /\ Tabs!SetActiveTabId(g, i) /\ v7' = Tabs!Chosen(g, i) /\ v8' = v8 \ {g}
      /\ v1' = v1 /\ v2' = v2 /\ v3' = v3 /\ v4' = v4
  BY DEF Tabs!SwitchTab
<1>2. v6' \in Stored /\ v7' \in [Group -> Tabs!Pane \cup {Tabs!Unset}] /\ Tabs!ChoiceIsStored'
  BY <1>1, ChoiceStored
<1>3. Tabs!MenusFit'
  BY <1>1, <1>2, TabsState DEF Tabs!MenusFit, Stored
<1>4. Tabs!EmptyAreHidden'
  BY <1>1, TabsState DEF Tabs!EmptyAreHidden
<1>5. Tabs!ChosenTabIsKept'
  <2>1. v7' = [h \in Group |-> IF h = g THEN i ELSE IF Path[h] = Path[g] THEN Tabs!Unset ELSE v7[h]]
    BY <1>1 DEF Tabs!Chosen
  <2>2. i \notin v3[g]
    BY <1>1, TabsState DEF Tabs!EmptyAreHidden
  <2> QED
    BY <1>1, <2>1, <2>2, TabsState DEF Tabs!ChosenTabIsKept
<1> QED
  BY <1>2, <1>3, <1>4, <1>5 DEF Tabs!TabsFit

\* Whatever is opened, drawn, shown, hidden or chosen.
LEMMA TabsStep ==
  ASSUME Tabs!TabsFit, Tabs!TabsNext
  PROVE  Tabs!TabsFit'
BY TabsOpened, TabsRedrawn, TabsDrawn, TabsUpdated, TabSwitched DEF Tabs!TabsNext

\* Before anything is drawn.
LEMMA TabsStart ==
  ASSUME Tabs!TabsInit
  PROVE  Tabs!TabsFit
BY DEF Tabs!TabsInit, Tabs!NoPaths, Tabs!TabsFit, Tabs!MenusFit, Tabs!ChoiceIsStored, Tabs!EmptyAreHidden,
       Tabs!ChosenTabIsKept

\* Nothing changes while nothing happens.
LEMMA TabsRest ==
  ASSUME UNCHANGED pageVars
  PROVE  Tabs!TabsFit' = Tabs!TabsFit
BY DEF pageVars, Tabs!TabsFit, Tabs!MenusFit, Tabs!ChoiceIsStored, Tabs!EmptyAreHidden, Tabs!ChosenTabIsKept

-----------------------------------------------------------------------------
(* Packages                                                                *)

Names == Pkg \cup {Packages!Uploaded}

Download == [read : BOOLEAN, available : SUBSET Pkg, installed : SUBSET Packages!Build]

\* The cardinality of the page is the cardinality.
LEMMA PackageCounts ==
  \A S : Packages!Cardinality(S) = Cardinality(S)
BY DEF Packages!Cardinality, Cardinality

\* What is known of each variable.
LEMMA PackageState ==
  ASSUME Packages!ListsFit
  PROVE  /\ v1 \subseteq Packages!Build /\ v2 \subseteq {Packages!Uploaded, Packages!Lists}
         /\ v3 \subseteq Pkg /\ v4 \subseteq Packages!Build
         /\ v5 \subseteq Download /\ v6 \subseteq Names /\ v7 \in Nat
         /\ v8 \in [loading : BOOLEAN, rows : SUBSET v6]
         /\ v9 \in Packages!Mode /\ v10 \in Packages!Filter /\ v11 \in BOOLEAN
         /\ v12 \in {"none", "ask", "upload", "run", "report"}
         /\ v13 \in Packages!Job \cup {Packages!NoJob} /\ v14 \in {"no", "asked", "done", "failed"}
         /\ v15 \in 0..MaxRuns /\ v16 \subseteq {"crossed", "lost"}
         /\ Packages!CommandHasDialog /\ Packages!DownloadsFit
         /\ Packages!OffsetFits /\ Packages!TableHasRows /\ Packages!UploadHasDialog
BY DEF Packages!ListsFit, Packages!PackageTypeOK, Names, Download

\* The names are finitely many, and in some order.
LEMMA NamesOrdered ==
  /\ IsFiniteSet(Names)
  /\ Packages!Order \in [Names -> Int]
  /\ \A p, q \in Names : Packages!Order[p] = Packages!Order[q] => p = q
<1> DEFINE n == Cardinality(Names)
           N == Cardinality(Pkg) + 1
<1>1. IsFiniteSet(Names) /\ n \in Nat /\ N \in Nat /\ n <= N
  <2>1. IsFiniteSet(Pkg) /\ Cardinality(Pkg) \in Nat
    BY PackageAssumption, FS_CardinalityType
  <2>2. IsFiniteSet(Names)
    BY <2>1, FS_AddElement DEF Names
  <2>3. Cardinality(Names) = Cardinality(Pkg) \/ Cardinality(Names) = Cardinality(Pkg) + 1
    BY <2>1, FS_AddElement DEF Names
  <2> QED
    BY <2>1, <2>2, <2>3
<1>2. IsFiniteSet(1..n) /\ Cardinality(1..n) = n
  <2> HIDE DEF n
  <2> QED
    BY <1>1, FS_Interval
<1>3. ExistsBijection(Names, 1..n)
  BY <1>1, <1>2, FS_SameCardinalityBij
<1>4. PICK f : f \in Bijection(Names, 1..n)
  BY <1>3 DEF ExistsBijection
<1>5. f \in [Names -> 1..N] /\ \A p, q \in Names : f[p] = f[q] => p = q
  <2> HIDE DEF n, N
  <2>1. 1..n \subseteq 1..N
    BY <1>1
  <2> QED
    BY <1>4, <2>1 DEF Bijection, Injection, IsInjective
<1>6. Packages!Order = CHOOSE o \in [Names -> 1..N] : \A p, q \in Names : o[p] = o[q] => p = q
  BY PackageCounts DEF Packages!Order, Names
<1> HIDE DEF n, N
<1>7. Packages!Order \in [Names -> 1..N] /\ \A p, q \in Names : Packages!Order[p] = Packages!Order[q] => p = q
  BY <1>5, <1>6
<1> QED
  BY <1>1, <1>7

\* A page that begins among the rows has a row.
LEMMA PageHasRows ==
  ASSUME NEW rs \in SUBSET Names, NEW at \in Nat
  PROVE  /\ Packages!Page(rs, at, Packages!Order) \subseteq rs
         /\ at < Cardinality(rs) => Packages!Page(rs, at, Packages!Order) # {}
<1> DEFINE key == [p \in rs |-> Packages!Order[p]]
<1>1. IsFiniteSet(rs) /\ Cardinality(rs) \in Nat
  BY NamesOrdered, FS_Subset, FS_CardinalityType
<1>2. key \in [rs -> Int] /\ \A p, q \in rs : key[p] = key[q] => p = q
  BY NamesOrdered
<1>3. ASSUME at < Cardinality(rs)
      PROVE  \E p \in rs : Cardinality({q \in rs : Packages!Order[q] < Packages!Order[p]}) = at
  <2>1. at + 1 \in 1..Cardinality(rs)
    BY <1>1, <1>3
  <2>2. \A p \in rs : {q \in rs : key[q] < key[p]} = {q \in rs : Packages!Order[q] < Packages!Order[p]}
    OBVIOUS
  <2> HIDE DEF key
  <2>3. PICK p \in rs : Rank(rs, key, p) = (at + 1) - 1
    BY <1>1, <1>2, <2>1, RankOnto
  <2>4. Cardinality({q \in rs : key[q] < key[p]}) = at
    BY <2>3 DEF Rank
  <2> QED
    BY <2>2, <2>4
<1>4. at < at + PageSize /\ at <= at
  BY PackageAssumption
<1> QED
  BY <1>3, <1>4, PackageCounts DEF Packages!Page

\* display() shows the first page.
LEMMA Displayed ==
  ASSUME NEW a \in SUBSET Pkg, NEW i \in SUBSET Packages!Build, NEW m \in Packages!Mode, NEW f,
         Packages!Display(a, i, m, f)
  PROVE  /\ v6' \subseteq Names /\ v7' = 0 /\ v8' \in [loading : BOOLEAN, rows : SUBSET (v6')]
         /\ Packages!OffsetFits' /\ Packages!TableHasRows'
<1>1. v6' \subseteq Names /\ v7' = 0 /\ v8' = [loading |-> FALSE, rows |-> Packages!Page(v6', 0, Packages!Order)]
  <2>1. Packages!Named(i) \subseteq Names /\ a \subseteq Names
    BY DEF Packages!Named, Packages!Build, Names
  <2>2. Packages!Shown(a, i, m, f) \subseteq a \cup Packages!Named(i)
    BY DEF Packages!Shown, Packages!Mode
  <2> QED
    BY <2>1, <2>2 DEF Packages!Display
<1>2. IsFiniteSet(v6') /\ Cardinality(v6') \in Nat
  BY <1>1, NamesOrdered, FS_Subset, FS_CardinalityType
<1>3. /\ Packages!Page(v6', 0, Packages!Order) \subseteq v6'
      /\ v6' # {} => Packages!Page(v6', 0, Packages!Order) # {}
  <2>1. v6' # {} => 0 < Cardinality(v6')
    BY <1>2, FS_EmptySet
  <2>2. v6' \in SUBSET Names /\ 0 \in Nat
    BY <1>1
  <2> QED
    BY <2>1, <2>2, PageHasRows
<1>4. v8' \in [loading : BOOLEAN, rows : SUBSET (v6')] /\ Packages!TableHasRows'
  BY <1>1, <1>3 DEF Packages!TableHasRows
<1>5. Packages!OffsetFits'
  <2>1. 0 % PageSize = 0
    BY PackageAssumption
  <2> QED
    BY <1>1, <2>1 DEF Packages!OffsetFits
<1> QED
  BY <1>1, <1>4, <1>5

\* Pages begin at multiples of their size.
LEMMA NextPage ==
  ASSUME NEW P \in Nat \ {0}, NEW a \in Nat, a % P = 0
  PROVE  (a + P) % P = 0 /\ (a >= P => (a - P) % P = 0)
<1>1. PICK k \in Nat : a = k * P
  OBVIOUS
<1>2. a + P = (k + 1) * P /\ a - P = (k - 1) * P
  BY <1>1
<1>3. \A j \in Int : (j * P) % P = 0
  OBVIOUS
<1>4. k + 1 \in Int /\ k - 1 \in Int
  OBVIOUS
<1> QED
  BY <1>2, <1>3, <1>4

\* Steps that touch the rows only.
LEMMA RowsStep ==
  ASSUME Packages!ListsFit,
         \/ \E next \in BOOLEAN : Packages!HandlePage(next)
         \/ \E m \in Packages!Mode : Packages!HandleMode(m)
         \/ \E f \in Packages!Filter : Packages!HandleInput(f)
         \/ Packages!InputTimeout \/ Packages!HandleReset
  PROVE  Packages!ListsFit'
<1>1. UNCHANGED <<v1, v2, v3, v4, v5, v12, v13, v14, v15, v16>>
  BY DEF Packages!HandlePage, Packages!HandleMode, Packages!HandleInput, Packages!InputTimeout,
         Packages!HandleReset, Packages!listVars, Packages!jobVars
<1>2. v9' \in Packages!Mode /\ v10' \in Packages!Filter /\ v11' \in BOOLEAN
  BY PackageState DEF Packages!HandlePage, Packages!HandleMode, Packages!HandleInput, Packages!InputTimeout,
         Packages!HandleReset, Packages!Filter
<1>3. /\ v6' \subseteq Names /\ v7' \in Nat /\ v8' \in [loading : BOOLEAN, rows : SUBSET (v6')]
      /\ Packages!OffsetFits' /\ Packages!TableHasRows'
  <2>0. v3 \in SUBSET Pkg /\ v4 \in SUBSET Packages!Build /\ v9 \in Packages!Mode
    BY PackageState
  <2>1. ASSUME NEW next \in BOOLEAN, Packages!HandlePage(next)
        PROVE  <1>3!:
    <3>1. /\ IF next THEN v7 + PageSize < Cardinality(v6) ELSE v7 >= PageSize
          /\ v7' = (IF next THEN v7 + PageSize ELSE v7 - PageSize)
          /\ v8' = [loading |-> FALSE, rows |-> Packages!Page(v6, v7', Packages!Order)]
          /\ v6' = v6
      BY <2>1, PackageCounts DEF Packages!HandlePage
    <3>2. /\ v6 \in SUBSET Names /\ v7 \in Nat /\ PageSize \in Nat \ {0}
          /\ v7 % PageSize = 0 /\ (v7 = 0 \/ v7 < Cardinality(v6))
      BY PackageState, PackageAssumption, PackageCounts DEF Packages!OffsetFits
    <3>3. Cardinality(v6) \in Nat
      BY <3>2, NamesOrdered, FS_Subset, FS_CardinalityType
    <3>4. v7' \in Nat /\ v7' < Cardinality(v6)
      BY <3>1, <3>2, <3>3
    <3>5. v7' % PageSize = 0
      <4>1. (v7 + PageSize) % PageSize = 0 /\ (v7 >= PageSize => (v7 - PageSize) % PageSize = 0)
        BY <3>2, NextPage
      <4> QED
        BY <3>1, <4>1
    <3>6. Packages!Page(v6, v7', Packages!Order) \subseteq v6 /\ Packages!Page(v6, v7', Packages!Order) # {}
      BY <3>2, <3>4, PageHasRows
    <3> QED
      BY <3>1, <3>2, <3>4, <3>5, <3>6, PackageCounts DEF Packages!OffsetFits, Packages!TableHasRows
  <2>2. ASSUME NEW m \in Packages!Mode, Packages!HandleMode(m)
        PROVE  <1>3!:
    <3>1. Packages!Display(v3, v4, m, v10)
      BY <2>2 DEF Packages!HandleMode
    <3> QED
      BY <2>0, <3>1, Displayed
  <2>3. ASSUME NEW f \in Packages!Filter, Packages!HandleInput(f)
        PROVE  <1>3!:
    BY <2>3, PackageState DEF Packages!HandleInput, Packages!OffsetFits, Packages!TableHasRows
  <2>4. ASSUME Packages!InputTimeout
        PROVE  <1>3!:
    BY <2>0, <2>4, Displayed DEF Packages!InputTimeout
  <2>5. ASSUME Packages!HandleReset
        PROVE  <1>3!:
    BY <2>0, <2>5, Displayed DEF Packages!HandleReset
  <2> QED
    BY <2>1, <2>2, <2>3, <2>4, <2>5
<1>4. Packages!PackageTypeOK'
  BY <1>1, <1>2, <1>3, PackageState DEF Packages!PackageTypeOK, Names, Download
<1>5. Packages!CommandHasDialog' /\ Packages!DownloadsFit' /\ Packages!UploadHasDialog'
  BY <1>1, PackageState
     DEF Packages!CommandHasDialog, Packages!DownloadsFit, Packages!UploadHasDialog, Packages!OnOffer
<1> QED
  BY <1>3, <1>4, <1>5 DEF Packages!ListsFit

\* The user is asked.
LEMMA PackageAsked ==
  ASSUME Packages!ListsFit,
         \/ \E p \in Pkg : Packages!HandleInstall(p) \/ Packages!HandleManualInstall(p)
         \/ \E p \in Pkg \cup {Packages!Uploaded} : Packages!HandleRemove(p)
  PROVE  Packages!ListsFit'
<1>1. UNCHANGED <<v6, v7, v8, v9, v10, v11>>
  BY DEF Packages!rowVars, Packages!HandleInstall, Packages!HandleRemove, Packages!HandleManualInstall, Packages!Ask, Packages!Job
<1>2. Packages!PackageTypeOK'
  <2>1. /\ v13' \in Packages!Job /\ v12' = "ask"
        /\ UNCHANGED <<v1, v2, v3, v4, v5, v6, v7, v8, v9, v10, v11, v14, v15, v16>>
    <3>1. \A cmd \in {"install", "remove"}, p \in Pkg \cup {Packages!Uploaded} :
            [cmd |-> cmd, pkg |-> p] \in Packages!Job
      BY DEF Packages!Job
    <3>2. PICK cmd \in {"install", "remove"}, p \in Pkg \cup {Packages!Uploaded} :
            Packages!Ask("ask", [cmd |-> cmd, pkg |-> p]) /\ v2' = v2
      BY DEF Packages!HandleInstall, Packages!HandleRemove, Packages!HandleManualInstall
    <3> QED
      BY <1>1, <3>1, <3>2 DEF Packages!Ask, Packages!listVars
  <2> QED
    BY <2>1, PackageState DEF Packages!PackageTypeOK, Names, Download
<1>3. Packages!CommandHasDialog'
  BY PackageState DEF Packages!CommandHasDialog, Packages!HandleInstall, Packages!HandleRemove, Packages!HandleManualInstall, Packages!Ask, Packages!Job
<1>4. Packages!DownloadsFit'
  BY PackageState DEF Packages!DownloadsFit, Packages!OnOffer, Packages!CommandHasDialog, Packages!listVars, Packages!HandleInstall, Packages!HandleRemove, Packages!HandleManualInstall, Packages!Ask, Packages!Job
<1>5. Packages!OffsetFits' /\ Packages!TableHasRows'
  BY <1>1, PackageState DEF Packages!OffsetFits, Packages!TableHasRows
<1>6. Packages!UploadHasDialog'
  BY PackageState DEF Packages!UploadHasDialog, Packages!UploadJob, Packages!HandleInstall, Packages!HandleRemove, Packages!HandleManualInstall, Packages!Ask, Packages!Job
<1> QED
  BY <1>2, <1>3, <1>4, <1>5, <1>6 DEF Packages!ListsFit

\* A package is uploaded.
LEMMA PackageUploaded ==
  ASSUME Packages!ListsFit, Packages!HandleUpload
  PROVE  Packages!ListsFit'
<1>1. UNCHANGED <<v6, v7, v8, v9, v10, v11>>
  BY DEF Packages!rowVars, Packages!HandleUpload, Packages!Ask, Packages!Job
<1>2. Packages!PackageTypeOK'
  <2>1. /\ v13' \in Packages!Job /\ v12' = "upload" /\ v2' = v2 \cup {Packages!Uploaded}
        /\ UNCHANGED <<v1, v3, v4, v5, v6, v7, v8, v9, v10, v11, v14, v15, v16>>
    BY <1>1 DEF Packages!HandleUpload, Packages!Ask, Packages!Job, Packages!UploadJob, Packages!listVars
  <2> QED
    BY <2>1, PackageState DEF Packages!PackageTypeOK, Names, Download
<1>3. Packages!CommandHasDialog'
  BY PackageState DEF Packages!CommandHasDialog, Packages!HandleUpload, Packages!Ask, Packages!Job
<1>4. Packages!DownloadsFit'
  BY PackageState DEF Packages!DownloadsFit, Packages!OnOffer, Packages!Lists, Packages!Uploaded, Packages!CommandHasDialog, Packages!listVars, Packages!HandleUpload, Packages!Ask, Packages!Job
<1>5. Packages!OffsetFits' /\ Packages!TableHasRows'
  BY <1>1, PackageState DEF Packages!OffsetFits, Packages!TableHasRows
<1>6. Packages!UploadHasDialog'
  BY PackageState DEF Packages!UploadHasDialog, Packages!UploadJob, Packages!HandleUpload, Packages!Ask, Packages!Job
<1> QED
  BY <1>2, <1>3, <1>4, <1>5, <1>6 DEF Packages!ListsFit

\* The user says no.
LEMMA PackageCancelled ==
  ASSUME Packages!ListsFit, NEW fails \in BOOLEAN, Packages!Cancel(fails)
  PROVE  Packages!ListsFit'
<1>1. UNCHANGED <<v6, v7, v8, v9, v10, v11>>
  BY DEF Packages!rowVars, Packages!Cancel, Packages!RemoveUpload, Packages!Unremoved
<1>2. Packages!PackageTypeOK'
  BY <1>1, PackageState DEF Packages!PackageTypeOK, Packages!listVars, Names, Download, Packages!Cancel, Packages!RemoveUpload, Packages!Unremoved
<1>3. Packages!CommandHasDialog'
  BY PackageState DEF Packages!CommandHasDialog, Packages!Cancel, Packages!RemoveUpload, Packages!Unremoved
<1>4. Packages!DownloadsFit'
  BY PackageState DEF Packages!DownloadsFit, Packages!OnOffer, Packages!Lists, Packages!Uploaded, Packages!CommandHasDialog, Packages!listVars, Packages!Cancel, Packages!RemoveUpload, Packages!Unremoved
<1>5. Packages!OffsetFits' /\ Packages!TableHasRows'
  BY <1>1, PackageState DEF Packages!OffsetFits, Packages!TableHasRows
<1>6. Packages!UploadHasDialog'
  BY PackageState DEF Packages!UploadHasDialog, Packages!UploadJob, Packages!Cancel, Packages!RemoveUpload, Packages!Unremoved
<1> QED
  BY <1>2, <1>3, <1>4, <1>5, <1>6 DEF Packages!ListsFit

\* The user says yes.
LEMMA PackageAgreed ==
  ASSUME Packages!ListsFit, Packages!HandlePkg \/ Packages!HandleUpdate
  PROVE  Packages!ListsFit'
<1>1. UNCHANGED <<v6, v7, v8, v9, v10, v11>>
  BY DEF Packages!rowVars, Packages!HandlePkg, Packages!HandleUpdate, Packages!Start, Packages!Job
<1>2. Packages!PackageTypeOK'
  BY <1>1, PackageState, PackageAssumption DEF Packages!PackageTypeOK, Packages!listVars, Names, Download, Packages!HandlePkg, Packages!HandleUpdate, Packages!Start, Packages!Job
<1>3. Packages!CommandHasDialog'
  BY PackageState DEF Packages!CommandHasDialog, Packages!HandlePkg, Packages!HandleUpdate, Packages!Start, Packages!Job
<1>4. Packages!DownloadsFit'
  BY PackageState DEF Packages!DownloadsFit, Packages!OnOffer, Packages!CommandHasDialog, Packages!listVars, Packages!HandlePkg, Packages!HandleUpdate, Packages!Start, Packages!Job
<1>5. Packages!OffsetFits' /\ Packages!TableHasRows'
  BY <1>1, PackageState DEF Packages!OffsetFits, Packages!TableHasRows
<1>6. Packages!UploadHasDialog'
  BY PackageState DEF Packages!UploadHasDialog, Packages!UploadJob, Packages!HandlePkg, Packages!HandleUpdate, Packages!Start, Packages!Job
<1> QED
  BY <1>2, <1>3, <1>4, <1>5, <1>6 DEF Packages!ListsFit

\* What a command does.
LEMMA CommandDoes ==
  ASSUME Packages!ListsFit
  PROVE  /\ Packages!Effect \subseteq Packages!Build
         /\ Packages!Fetched \in {v2, v2 \cup {Packages!Lists}}
         /\ Packages!Lists # Packages!Uploaded
<1>1. CASE v13.cmd = "install"
  <2> DEFINE new == [pkg |-> v13.pkg, old |-> FALSE]
  <2>1. new \in Packages!Build
    BY <1>1, PackageState DEF Packages!Job, Packages!NoJob, Packages!Build
  <2> HIDE DEF new
  <2>2. Packages!Added(v1, {new}) \subseteq v1 \cup {new}
    BY DEF Packages!Added
  <2>3. Packages!Effect = Packages!Added(v1, {new})
    BY <1>1 DEF Packages!Effect, new
  <2> QED
    BY <2>1, <2>2, <2>3, PackageState DEF Packages!Fetched, Packages!Lists, Packages!Uploaded
<1>2. CASE v13.cmd # "install"
  BY <1>2, PackageState DEF Packages!Effect, Packages!Fetched, Packages!Lists, Packages!Uploaded
<1> QED
  BY <1>1, <1>2

\* The command does its work, or fails.
LEMMA CommandRuns ==
  ASSUME Packages!ListsFit, Packages!RunCommand
  PROVE  Packages!ListsFit'
<1>1. UNCHANGED <<v6, v7, v8, v9, v10, v11>>
  BY DEF Packages!rowVars, Packages!RunCommand, Packages!NoJob
<1>2. Packages!PackageTypeOK'
  BY <1>1, PackageState, CommandDoes DEF Packages!PackageTypeOK, Packages!listVars, Names, Download, Packages!RunCommand, Packages!NoJob
<1>3. Packages!CommandHasDialog'
  BY PackageState DEF Packages!CommandHasDialog, Packages!RunCommand, Packages!NoJob
<1>4. Packages!DownloadsFit'
  BY PackageState DEF Packages!DownloadsFit, Packages!OnOffer, Packages!CommandHasDialog, Packages!listVars, Packages!RunCommand, Packages!NoJob
<1>5. Packages!OffsetFits' /\ Packages!TableHasRows'
  BY <1>1, PackageState DEF Packages!OffsetFits, Packages!TableHasRows
<1>6. Packages!UploadHasDialog'
  BY PackageState, CommandDoes DEF Packages!UploadHasDialog, Packages!UploadJob, Packages!RunCommand
<1> QED
  BY <1>2, <1>3, <1>4, <1>5, <1>6 DEF Packages!ListsFit

\* The dialog says what became of it.
LEMMA CommandReported ==
  ASSUME Packages!ListsFit, Packages!Report
  PROVE  Packages!ListsFit'
<1>1. UNCHANGED <<v6, v7, v8, v9, v10, v11>>
  BY DEF Packages!rowVars, Packages!Report
<1>2. Packages!PackageTypeOK'
  BY <1>1, PackageState DEF Packages!PackageTypeOK, Packages!listVars, Names, Download, Packages!Report
<1>3. Packages!CommandHasDialog'
  BY PackageState DEF Packages!CommandHasDialog, Packages!Report
<1>4. Packages!DownloadsFit'
  BY PackageState DEF Packages!DownloadsFit, Packages!OnOffer, Packages!CommandHasDialog, Packages!listVars, Packages!Report
<1>5. Packages!OffsetFits' /\ Packages!TableHasRows'
  BY <1>1, PackageState DEF Packages!OffsetFits, Packages!TableHasRows
<1>6. Packages!UploadHasDialog'
  BY PackageState DEF Packages!UploadHasDialog, Packages!UploadJob, Packages!Report
<1> QED
  BY <1>2, <1>3, <1>4, <1>5, <1>6 DEF Packages!ListsFit

\* The call is lost.
LEMMA CommandLost ==
  ASSUME Packages!ListsFit, Packages!RunLost
  PROVE  Packages!ListsFit'
<1>1. UNCHANGED <<v6, v7, v8, v9, v10, v11>>
  BY DEF Packages!rowVars, Packages!RunLost, Packages!NoJob
<1>2. Packages!PackageTypeOK'
  BY <1>1, PackageState, CommandDoes DEF Packages!PackageTypeOK, Packages!listVars, Names, Download, Packages!RunLost, Packages!NoJob
<1>3. Packages!CommandHasDialog'
  BY PackageState DEF Packages!CommandHasDialog, Packages!RunLost, Packages!NoJob
<1>4. Packages!DownloadsFit'
  BY PackageState DEF Packages!DownloadsFit, Packages!OnOffer, Packages!CommandHasDialog, Packages!listVars, Packages!RunLost, Packages!NoJob
<1>5. Packages!OffsetFits' /\ Packages!TableHasRows'
  BY <1>1, PackageState DEF Packages!OffsetFits, Packages!TableHasRows
<1>6. Packages!UploadHasDialog'
  BY PackageState, CommandDoes DEF Packages!UploadHasDialog, Packages!UploadJob, Packages!RunLost
<1> QED
  BY <1>2, <1>3, <1>4, <1>5, <1>6 DEF Packages!ListsFit

\* The device sends the lists.
LEMMA ListsRead ==
  ASSUME Packages!ListsFit, NEW d \in v5, Packages!ReadLists(d)
  PROVE  Packages!ListsFit'
<1> DEFINE new == [read |-> TRUE, available |-> Packages!OnOffer, installed |-> v1]
<1>1. v5' = (v5 \ {d}) \cup {new} /\ UNCHANGED <<v1, v2, v3, v4, v6, v7, v8, v9, v10, v11, v12, v13, v14, v15, v16>>
  BY DEF Packages!ReadLists, Packages!rowVars, Packages!jobVars
<1>2. new \in Download /\ new.installed = v1 /\ new.available = Packages!OnOffer
  BY PackageState DEF Download, Packages!OnOffer
<1> HIDE DEF new
<1>3. Packages!PackageTypeOK'
  BY <1>1, <1>2, PackageState DEF Packages!PackageTypeOK, Names, Download
<1>4. Packages!CommandHasDialog' /\ Packages!OffsetFits' /\ Packages!TableHasRows' /\ Packages!UploadHasDialog'
  BY <1>1, PackageState DEF Packages!CommandHasDialog, Packages!OffsetFits, Packages!TableHasRows, Packages!UploadHasDialog
<1>5. Packages!DownloadsFit'
  <2>1. v16 = {} => v5' = {new} /\ v4 = {} /\ v3 = {}
    BY <1>1, PackageState DEF Packages!DownloadsFit
  <2> QED
    BY <1>1, <1>2, <2>1 DEF Packages!DownloadsFit, Packages!OnOffer
<1> QED
  BY <1>3, <1>4, <1>5 DEF Packages!ListsFit

\* The lists are there.
LEMMA ListsParsed ==
  ASSUME Packages!ListsFit, NEW d \in v5, Packages!ParseLists(d)
  PROVE  Packages!ListsFit'
<1>1. /\ d.read /\ v5' = v5 \ {d} /\ v3' = v3 \cup d.available /\ v4' = Packages!Added(v4, d.installed)
      /\ Packages!Display(v3', v4', v9, v10)
      /\ UNCHANGED <<v1, v2, v9, v10, v11, v12, v13, v14, v15, v16>>
  BY DEF Packages!ParseLists, Packages!jobVars
<1>2. d.installed \subseteq Packages!Build /\ d.available \subseteq Pkg
  <2>1. d \in Download
    BY PackageState
  <2> QED
    BY <2>1 DEF Download
<1>3. v3' \in SUBSET Pkg /\ v4' \in SUBSET Packages!Build /\ v9 \in Packages!Mode
  BY <1>1, <1>2, PackageState DEF Packages!Added
<1>4. /\ v6' \subseteq Names /\ v7' = 0 /\ v8' \in [loading : BOOLEAN, rows : SUBSET (v6')]
      /\ Packages!OffsetFits' /\ Packages!TableHasRows'
  <2>1. \A a \in SUBSET Pkg, i \in SUBSET Packages!Build : Packages!Display(a, i, v9, v10) => <1>4!:
    BY <1>3, Displayed
  <2> QED
    BY <1>1, <1>3, <2>1
<1>5. Packages!PackageTypeOK'
  BY <1>1, <1>3, <1>4, PackageState DEF Packages!PackageTypeOK, Names, Download
<1>6. Packages!CommandHasDialog' /\ Packages!UploadHasDialog'
  BY <1>1, PackageState DEF Packages!CommandHasDialog, Packages!UploadHasDialog
<1>7. Packages!DownloadsFit'
  <2>1. v16 = {} => v5' = {} /\ v4' = d.installed /\ v3' = d.available
    BY <1>1, PackageState DEF Packages!DownloadsFit, Packages!Added
  <2> QED
    BY <1>1, <2>1, PackageState DEF Packages!DownloadsFit, Packages!OnOffer
<1> QED
  BY <1>4, <1>5, <1>6, <1>7 DEF Packages!ListsFit

\* The reading of the lists is not answered.
LEMMA ListsLost ==
  ASSUME Packages!ListsFit, NEW d \in v5, Packages!LoseLists(d)
  PROVE  Packages!ListsFit'
<1>1. /\ v5' = v5 \ {d} /\ v16' = v16 \cup {"lost"}
      /\ UNCHANGED <<v1, v2, v3, v4, v6, v7, v8, v9, v10, v11, v12, v13, v14, v15>>
  BY DEF Packages!LoseLists, Packages!rowVars, Packages!jobVars
<1>2. Packages!PackageTypeOK'
  BY <1>1, PackageState DEF Packages!PackageTypeOK, Names, Download
<1> QED
  BY <1>1, <1>2, PackageState
     DEF Packages!ListsFit, Packages!CommandHasDialog, Packages!DownloadsFit, Packages!OffsetFits,
         Packages!TableHasRows, Packages!UploadHasDialog, Packages!OnOffer

\* The user has seen the report: the lists are downloaded again.
LEMMA ListsEmptied ==
  ASSUME Packages!ListsFit, NEW fails \in BOOLEAN, Packages!Dismiss(fails)
  PROVE  Packages!ListsFit'
<1>1. /\ v12 = "report" /\ v12' = "none" /\ v13' = Packages!NoJob
      /\ v2' = IF v13 = Packages!UploadJob /\ ~fails THEN v2 \ {Packages!Uploaded} ELSE v2
      /\ v3' = {} /\ v4' = {} /\ v5' = v5 \cup {Packages!Unread} /\ v8' = Packages!Loading
      /\ v16' = v16 \cup Packages!Crossed \cup Packages!Unremoved(v13 = Packages!UploadJob, fails)
      /\ UNCHANGED <<v1, v6, v7, v9, v10, v11, v14, v15>>
  BY DEF Packages!Dismiss, Packages!UpdateLists, Packages!RemoveUpload
<1>2. /\ Packages!Unread \in Download /\ Packages!Unread.read = FALSE
      /\ Packages!Crossed = IF v5 # {} THEN {"crossed"} ELSE {}
      /\ Packages!Unremoved(v13 = Packages!UploadJob, fails) = IF v13 = Packages!UploadJob /\ fails THEN {"lost"} ELSE {}
  BY DEF Download, Packages!Unread, Packages!Crossed, Packages!Unremoved
<1>3. Packages!PackageTypeOK'
  BY <1>1, <1>2, PackageState DEF Packages!PackageTypeOK, Packages!Loading, Names, Download
<1>4. Packages!CommandHasDialog' /\ Packages!OffsetFits' /\ Packages!TableHasRows'
  BY <1>1, PackageState DEF Packages!CommandHasDialog, Packages!OffsetFits, Packages!TableHasRows, Packages!Loading
<1>5. Packages!DownloadsFit'
  <2>1. v16' = {} => v5' = {Packages!Unread}
    BY <1>1, <1>2
  <2> QED
    BY <1>1, <1>2, <2>1 DEF Packages!DownloadsFit
<1>6. Packages!UploadHasDialog'
  BY <1>1, <1>2, PackageState DEF Packages!UploadHasDialog
<1> QED
  BY <1>3, <1>4, <1>5, <1>6 DEF Packages!ListsFit

\* Whatever happens on the page.
LEMMA PackageStep ==
  ASSUME Packages!ListsFit, Packages!PackageNext
  PROVE  Packages!ListsFit'
BY RowsStep, PackageAsked, PackageUploaded, PackageCancelled, PackageAgreed, CommandRuns,
   CommandReported, CommandLost, ListsRead, ListsParsed, ListsLost, ListsEmptied
   DEF Packages!PackageNext

\* The page when it is opened.
LEMMA PackageStart ==
  ASSUME Packages!PackageInit
  PROVE  Packages!ListsFit
<1> DEFINE new == Packages!Unread
<1>1. /\ v1 \subseteq Packages!Build /\ v2 \subseteq {Packages!Lists} /\ v3 = {} /\ v4 = {} /\ v5 = {new}
      /\ v6 = {} /\ v7 = 0 /\ v8 = Packages!Loading /\ v9 = "available" /\ v10 = "all" /\ v11 = FALSE
      /\ v12 = "none" /\ v13 = Packages!NoJob /\ v14 = "no" /\ v15 = 0 /\ v16 = {}
  BY PackageAssumption DEF Packages!PackageInit, Packages!Build
<1>2. new \in Download /\ new.read = FALSE
  BY DEF Download, Packages!Unread
<1>3. 0 % PageSize = 0 /\ 0 \in 0..MaxRuns
  BY PackageAssumption
<1> HIDE DEF new
<1>4. Packages!PackageTypeOK
  BY <1>1, <1>2, <1>3
     DEF Packages!PackageTypeOK, Packages!Loading, Packages!Mode, Packages!Filter, Names, Download
<1>5. Packages!OffsetFits
  BY <1>1, <1>3 DEF Packages!OffsetFits
<1> QED
  BY <1>1, <1>2, <1>4, <1>5
     DEF Packages!ListsFit, Packages!CommandHasDialog, Packages!DownloadsFit,
         Packages!TableHasRows, Packages!UploadHasDialog, Packages!Loading, Packages!Lists, Packages!Uploaded

\* The properties of the page follow.
LEMMA PackageProperties ==
  ASSUME Packages!ListsFit
  PROVE  Packages!KnowsInstalled /\ Packages!PagerFits /\ Packages!UploadIsRemoved
<1>1. Packages!KnowsInstalled
  BY PackageState DEF Packages!KnowsInstalled, Packages!DownloadsFit
<1>2. Packages!PagerFits
  BY PackageState DEF Packages!PagerFits, Packages!OffsetFits, Packages!TableHasRows
<1>3. Packages!UploadIsRemoved
  BY PackageState DEF Packages!UploadIsRemoved, Packages!UploadHasDialog
<1> QED
  BY <1>1, <1>2, <1>3

-----------------------------------------------------------------------------
(* The files of the device                                                 *)

\* What the steps need to know of the state.
LEMMA FilesState ==
  ASSUME Files!FilesFit
  PROVE  /\ v1 \subseteq File \cup Dir /\ v2 \in BOOLEAN
         /\ v3 \in Files!Listing
         /\ v4 \subseteq [dir : Files!Place, read : BOOLEAN, entries : SUBSET (File \cup Dir)]
         /\ v5 \subseteq [op : {"delete", "upload"}, path : File \cup Dir, at : Files!Listing]
         /\ v6 \in File \cup {Files!None} /\ v7 \in File \cup {Files!None}
         /\ v9 \subseteq {"directory", "crossed", "failed"}
         /\ v9 = {} => Files!OneThing /\ Files!TaskIsInFront /\ Files!ListingsAreTrue /\ Files!ValueIsThere
BY DEF Files!FilesFit, Files!FilesTypeOK

\* A place is a directory, its entries are files and directories.
LEMMA FilesData ==
  /\ Files!Blank \in Files!Listing
  /\ \A d \in Files!Place : [dir |-> d, read |-> FALSE, entries |-> {}] \in
                               [dir : Files!Place, read : BOOLEAN, entries : SUBSET (File \cup Dir)]
  /\ \A f \in File \cup Dir : Parent[f] \in Files!Place
  /\ Root \in Files!Place
BY FilesAssumption DEF Files!Blank, Files!Listing, Files!Place, Files!None

\* The browser is opened.
LEMMA FilesOpened ==
  ASSUME Files!FilesFit, Files!HandleFileBrowser
  PROVE  Files!FilesFit'
<1>0. Files!FilesFit /\ Files!FilesTypeOK
  BY DEF Files!FilesFit
<1>1. Files!FilesTypeOK'
  BY <1>0, FilesState, FilesData DEF Files!FilesTypeOK, Files!HandleFileBrowser, Files!Asked, Files!Troubled
<1>2. ASSUME v9' = {}
      PROVE  /\ v9 = {} /\ Files!OneThing /\ Files!TaskIsInFront /\ Files!ListingsAreTrue /\ Files!ValueIsThere
             /\ ~Files!Busy
  BY <1>2, FilesState DEF Files!Busy, Files!HandleFileBrowser, Files!Asked, Files!Troubled
<1>3. ASSUME v9' = {}
      PROVE  Files!OneThing'
  BY <1>2, <1>3 DEF Files!OneThing, Files!Busy, Files!HandleFileBrowser, Files!Asked, Files!Troubled
<1>4. ASSUME v9' = {}
      PROVE  Files!TaskIsInFront'
  BY <1>2, <1>4 DEF Files!TaskIsInFront, Files!Busy, Files!HandleFileBrowser, Files!Asked, Files!Troubled
<1>5. ASSUME v9' = {}
      PROVE  Files!ListingsAreTrue'
  BY <1>2, <1>5 DEF Files!ListingsAreTrue, Files!Entries, Files!Busy, Files!HandleFileBrowser, Files!Asked, Files!Troubled
<1>6. ASSUME v9' = {}
      PROVE  Files!ValueIsThere'
  BY <1>2, <1>6, FilesState DEF Files!ValueIsThere, Files!ListingsAreTrue, Files!Entries, Files!Busy, Files!HandleFileBrowser, Files!Asked, Files!Troubled
<1> QED
  BY <1>1, <1>3, <1>4, <1>5, <1>6 DEF Files!FilesFit

\* A directory is clicked.
LEMMA FilesSelected ==
  ASSUME Files!FilesFit, NEW d \in Files!Place, Files!HandleSelect(d)
  PROVE  Files!FilesFit'
<1>0. Files!FilesFit /\ Files!FilesTypeOK
  BY DEF Files!FilesFit
<1>1. Files!FilesTypeOK'
  BY <1>0, FilesState, FilesData DEF Files!FilesTypeOK, Files!HandleSelect, Files!Asked, Files!Blank, Files!Troubled
<1>2. ASSUME v9' = {}
      PROVE  /\ v9 = {} /\ Files!OneThing /\ Files!TaskIsInFront /\ Files!ListingsAreTrue /\ Files!ValueIsThere
             /\ ~Files!Busy
  BY <1>2, FilesState DEF Files!Busy, Files!HandleSelect, Files!Asked, Files!Blank, Files!Troubled
<1>3. ASSUME v9' = {}
      PROVE  Files!OneThing'
  BY <1>2, <1>3 DEF Files!OneThing, Files!Busy, Files!HandleSelect, Files!Asked, Files!Blank, Files!Troubled
<1>4. ASSUME v9' = {}
      PROVE  Files!TaskIsInFront'
  BY <1>2, <1>4 DEF Files!TaskIsInFront, Files!Busy, Files!HandleSelect, Files!Asked, Files!Blank, Files!Troubled
<1>5. ASSUME v9' = {}
      PROVE  Files!ListingsAreTrue'
  <2> DEFINE new == [dir |-> d, read |-> FALSE, entries |-> {}]
  <2>1. v4' = {new}
    BY <1>2, <1>5 DEF Files!Busy, Files!HandleSelect, Files!Asked
  <2>2. new.read = FALSE
    OBVIOUS
  <2> HIDE DEF new
  <2> QED
    BY <2>1, <2>2 DEF Files!ListingsAreTrue
<1>6. ASSUME v9' = {}
      PROVE  Files!ValueIsThere'
  BY <1>2, <1>6, FilesState DEF Files!ValueIsThere, Files!ListingsAreTrue, Files!Entries, Files!Busy, Files!HandleSelect, Files!Asked, Files!Blank, Files!Troubled
<1> QED
  BY <1>1, <1>3, <1>4, <1>5, <1>6 DEF Files!FilesFit

\* A file is picked.
LEMMA FilesPicked ==
  ASSUME Files!FilesFit, NEW f \in File, Files!PickFile(f)
  PROVE  Files!FilesFit'
<1>0. Files!FilesFit /\ Files!FilesTypeOK
  BY DEF Files!FilesFit
<1>1. Files!FilesTypeOK'
  BY <1>0, FilesState, FilesData DEF Files!FilesTypeOK, Files!PickFile, Files!Troubled
<1>2. ASSUME v9' = {}
      PROVE  /\ v9 = {} /\ Files!OneThing /\ Files!TaskIsInFront /\ Files!ListingsAreTrue /\ Files!ValueIsThere
             /\ ~Files!Busy
  BY <1>2, FilesState DEF Files!Busy, Files!PickFile, Files!Troubled
<1>3. ASSUME v9' = {}
      PROVE  Files!OneThing'
  BY <1>2, <1>3 DEF Files!OneThing, Files!Busy, Files!PickFile, Files!Troubled
<1>4. ASSUME v9' = {}
      PROVE  Files!TaskIsInFront'
  BY <1>2, <1>4 DEF Files!TaskIsInFront, Files!Busy, Files!PickFile, Files!Troubled
<1>5. ASSUME v9' = {}
      PROVE  Files!ListingsAreTrue'
  BY <1>2, <1>5 DEF Files!ListingsAreTrue, Files!Entries, Files!Busy, Files!PickFile, Files!Troubled
<1>6. ASSUME v9' = {}
      PROVE  Files!ValueIsThere'
  BY <1>2, <1>6, FilesState DEF Files!ValueIsThere, Files!ListingsAreTrue, Files!Entries, Files!Busy, Files!PickFile, Files!Troubled
<1> QED
  BY <1>1, <1>3, <1>4, <1>5, <1>6 DEF Files!FilesFit

\* The browser is closed.
LEMMA FilesCancelled ==
  ASSUME Files!FilesFit, Files!HandleCancel
  PROVE  Files!FilesFit'
<1>0. Files!FilesFit /\ Files!FilesTypeOK
  BY DEF Files!FilesFit
<1>1. Files!FilesTypeOK'
  BY <1>0, FilesState, FilesData DEF Files!FilesTypeOK, Files!HandleCancel, Files!Troubled
<1>2. ASSUME v9' = {}
      PROVE  /\ v9 = {} /\ Files!OneThing /\ Files!TaskIsInFront /\ Files!ListingsAreTrue /\ Files!ValueIsThere
             /\ ~Files!Busy
  BY <1>2, FilesState DEF Files!Busy, Files!HandleCancel, Files!Troubled
<1>3. ASSUME v9' = {}
      PROVE  Files!OneThing'
  BY <1>2, <1>3 DEF Files!OneThing, Files!Busy, Files!HandleCancel, Files!Troubled
<1>4. ASSUME v9' = {}
      PROVE  Files!TaskIsInFront'
  BY <1>2, <1>4 DEF Files!TaskIsInFront, Files!Busy, Files!HandleCancel, Files!Troubled
<1>5. ASSUME v9' = {}
      PROVE  Files!ListingsAreTrue'
  BY <1>2, <1>5 DEF Files!ListingsAreTrue, Files!Entries, Files!Busy, Files!HandleCancel, Files!Troubled
<1>6. ASSUME v9' = {}
      PROVE  Files!ValueIsThere'
  BY <1>2, <1>6, FilesState DEF Files!ValueIsThere, Files!ListingsAreTrue, Files!Entries, Files!Busy, Files!HandleCancel, Files!Troubled
<1> QED
  BY <1>1, <1>3, <1>4, <1>5, <1>6 DEF Files!FilesFit

\* The value is given up.
LEMMA FilesReset ==
  ASSUME Files!FilesFit, Files!HandleReset
  PROVE  Files!FilesFit'
<1>0. Files!FilesFit /\ Files!FilesTypeOK
  BY DEF Files!FilesFit
<1>1. Files!FilesTypeOK'
  BY <1>0, FilesState, FilesData DEF Files!FilesTypeOK, Files!HandleReset, Files!Troubled
<1>2. ASSUME v9' = {}
      PROVE  /\ v9 = {} /\ Files!OneThing /\ Files!TaskIsInFront /\ Files!ListingsAreTrue /\ Files!ValueIsThere
             /\ ~Files!Busy
  BY <1>2, FilesState DEF Files!Busy, Files!HandleReset, Files!Troubled
<1>3. ASSUME v9' = {}
      PROVE  Files!OneThing'
  BY <1>2, <1>3 DEF Files!OneThing, Files!Busy, Files!HandleReset, Files!Troubled
<1>4. ASSUME v9' = {}
      PROVE  Files!TaskIsInFront'
  BY <1>2, <1>4 DEF Files!TaskIsInFront, Files!Busy, Files!HandleReset, Files!Troubled
<1>5. ASSUME v9' = {}
      PROVE  Files!ListingsAreTrue'
  BY <1>2, <1>5 DEF Files!ListingsAreTrue, Files!Entries, Files!Busy, Files!HandleReset, Files!Troubled
<1>6. ASSUME v9' = {}
      PROVE  Files!ValueIsThere'
  BY <1>2, <1>6, FilesState DEF Files!ValueIsThere, Files!ListingsAreTrue, Files!Entries, Files!Busy, Files!HandleReset, Files!Troubled
<1> QED
  BY <1>1, <1>3, <1>4, <1>5, <1>6 DEF Files!FilesFit

\* A file is being uploaded.
LEMMA FilesUploaded ==
  ASSUME Files!FilesFit, NEW f \in File, Files!HandleUpload(f)
  PROVE  Files!FilesFit'
<1>0. Files!FilesFit /\ Files!FilesTypeOK
  BY DEF Files!FilesFit
<1>1. Files!FilesTypeOK'
  BY <1>0, FilesState, FilesData DEF Files!FilesTypeOK, Files!HandleUpload, Files!Troubled
<1>2. ASSUME v9' = {}
      PROVE  /\ v9 = {} /\ Files!OneThing /\ Files!TaskIsInFront /\ Files!ListingsAreTrue /\ Files!ValueIsThere
             /\ ~Files!Busy
  BY <1>2, FilesState DEF Files!Busy, Files!HandleUpload, Files!Troubled
<1>3. ASSUME v9' = {}
      PROVE  Files!OneThing'
  BY <1>2, <1>3 DEF Files!OneThing, Files!Busy, Files!HandleUpload, Files!Troubled
<1>4. ASSUME v9' = {}
      PROVE  Files!TaskIsInFront'
  BY <1>2, <1>4 DEF Files!TaskIsInFront, Files!Busy, Files!HandleUpload, Files!Troubled
<1>5. ASSUME v9' = {}
      PROVE  Files!ListingsAreTrue'
  BY <1>2, <1>5 DEF Files!ListingsAreTrue, Files!Entries, Files!Busy, Files!HandleUpload, Files!Troubled
<1>6. ASSUME v9' = {}
      PROVE  Files!ValueIsThere'
  BY <1>2, <1>6, FilesState DEF Files!ValueIsThere, Files!ListingsAreTrue, Files!Entries, Files!Busy, Files!HandleUpload, Files!Troubled
<1> QED
  BY <1>1, <1>3, <1>4, <1>5, <1>6 DEF Files!FilesFit

\* A file is being deleted.
LEMMA FilesDeleted ==
  ASSUME Files!FilesFit, NEW f \in File \cup Dir, Files!HandleDelete(f)
  PROVE  Files!FilesFit'
<1>0. Files!FilesFit /\ Files!FilesTypeOK
  BY DEF Files!FilesFit
<1>1. Files!FilesTypeOK'
  BY <1>0, FilesState, FilesData DEF Files!FilesTypeOK, Files!HandleDelete
<1>2. ASSUME v9' = {}
      PROVE  /\ v9 = {} /\ Files!OneThing /\ Files!TaskIsInFront /\ Files!ListingsAreTrue /\ Files!ValueIsThere
             /\ ~Files!Busy
  BY <1>2, FilesState DEF Files!Busy, Files!HandleDelete
<1>3. ASSUME v9' = {}
      PROVE  Files!OneThing'
  BY <1>2, <1>3 DEF Files!OneThing, Files!Busy, Files!HandleDelete
<1>4. ASSUME v9' = {}
      PROVE  Files!TaskIsInFront'
  BY <1>2, <1>4 DEF Files!TaskIsInFront, Files!Busy, Files!HandleDelete
<1>5. ASSUME v9' = {}
      PROVE  Files!ListingsAreTrue'
  BY <1>2, <1>5 DEF Files!ListingsAreTrue, Files!Entries, Files!Busy, Files!HandleDelete
<1>6. ASSUME v9' = {}
      PROVE  Files!ValueIsThere'
  BY <1>2, <1>6, FilesState DEF Files!ValueIsThere, Files!ListingsAreTrue, Files!Entries, Files!Busy, Files!HandleDelete
<1> QED
  BY <1>1, <1>3, <1>4, <1>5, <1>6 DEF Files!FilesFit


\* What the steps of the device know: there is one thing under way.
LEMMA FilesRead ==
  ASSUME Files!FilesFit, NEW l \in v4, Files!ReadListing(l)
  PROVE  Files!FilesFit'
<1> DEFINE new == [l EXCEPT !.read = TRUE, !.entries = Files!Entries(l.dir)]
<1>1. /\ v4' = (v4 \ {l}) \cup {new} /\ UNCHANGED <<v1, v2, v3, v5, v6, v7, v8, v9>>
  BY DEF Files!ReadListing
<1>2. l \in [dir : Files!Place, read : BOOLEAN, entries : SUBSET (File \cup Dir)]
  BY FilesState
<1>3. Files!Entries(l.dir) \in SUBSET (File \cup Dir)
  BY FilesState DEF Files!Entries
<1>4. /\ new \in [dir : Files!Place, read : BOOLEAN, entries : SUBSET (File \cup Dir)]
      /\ new.dir = l.dir /\ new.entries = Files!Entries(l.dir)
  BY <1>2, <1>3
<1> HIDE DEF new
<1>5. Files!FilesTypeOK'
  BY <1>1, <1>4, FilesState DEF Files!FilesFit, Files!FilesTypeOK
<1>6. ASSUME v9' = {}
      PROVE  Files!OneThing' /\ Files!TaskIsInFront' /\ Files!ListingsAreTrue' /\ Files!ValueIsThere'
  <2>1. Files!OneThing /\ Files!TaskIsInFront /\ Files!ListingsAreTrue /\ Files!ValueIsThere
    BY <1>1, <1>6, FilesState
  <2>2. v4' = {new} /\ v5 = {}
    BY <1>1, <2>1 DEF Files!OneThing
  <2>3. Files!OneThing' /\ Files!TaskIsInFront' /\ Files!ValueIsThere'
    BY <1>1, <2>1, <2>2 DEF Files!OneThing, Files!TaskIsInFront, Files!ValueIsThere
  <2>4. Files!ListingsAreTrue'
    BY <1>1, <1>4, <2>2 DEF Files!ListingsAreTrue, Files!Entries
  <2> QED
    BY <2>3, <2>4
<1> QED
  BY <1>5, <1>6 DEF Files!FilesFit

\* A listing that was read is shown.
LEMMA FilesRendered ==
  ASSUME Files!FilesFit, NEW l \in v4, Files!RenderListing(l)
  PROVE  Files!FilesFit'
<1>1. /\ l.read /\ v4' = v4 \ {l} /\ v3' = [dir |-> l.dir, entries |-> l.entries] /\ v2' = TRUE
      /\ UNCHANGED <<v1, v5, v6, v7, v8, v9>>
  BY DEF Files!RenderListing
<1>2. l \in [dir : Files!Place, read : BOOLEAN, entries : SUBSET (File \cup Dir)]
  BY FilesState
<1>3. v3' \in Files!Listing /\ v3'.dir = l.dir /\ v3'.entries = l.entries
  BY <1>1, <1>2 DEF Files!Listing
<1>4. Files!FilesTypeOK'
  BY <1>1, <1>3, FilesState DEF Files!FilesFit, Files!FilesTypeOK
<1>5. ASSUME v9' = {}
      PROVE  Files!OneThing' /\ Files!TaskIsInFront' /\ Files!ListingsAreTrue' /\ Files!ValueIsThere'
  <2>1. Files!OneThing /\ Files!TaskIsInFront /\ Files!ListingsAreTrue /\ Files!ValueIsThere
    BY <1>1, <1>5, FilesState
  <2>2. v4' = {} /\ v5 = {}
    BY <1>1, <2>1 DEF Files!OneThing
  <2>3. Files!OneThing' /\ Files!TaskIsInFront' /\ Files!ValueIsThere'
    BY <1>1, <2>1, <2>2 DEF Files!OneThing, Files!TaskIsInFront, Files!ValueIsThere
  <2>4. Files!ListingsAreTrue'
    BY <1>1, <1>3, <2>1, <2>2 DEF Files!ListingsAreTrue, Files!Entries
  <2> QED
    BY <2>3, <2>4
<1> QED
  BY <1>4, <1>5 DEF Files!FilesFit

\* A file is gone, or there.
LEMMA FilesTaskDone ==
  ASSUME Files!FilesFit, NEW t \in v5, Files!TaskDone(t)
  PROVE  Files!FilesFit'
<1> DEFINE gone == {t.path} \cup {f \in File : Parent[f] = t.path}
           new == [dir |-> Parent[t.path], read |-> FALSE, entries |-> {}]
<1>1. /\ v5' = v5 \ {t} /\ UNCHANGED <<v2, v6, v7, v8, v9>>
      /\ v1' = IF t.op = "delete" THEN v1 \ gone
               ELSE IF Parent[t.path] \in v1 \cup {Root} THEN v1 \cup {t.path} ELSE v1
      /\ \/ v3 = t.at /\ v3' = Files!Blank /\ v4' = v4 \cup {new}
         \/ v3 # t.at /\ v3' = v3 /\ v4' = v4
  BY DEF Files!TaskDone, Files!ListsAgain, Files!Asked
<1>2. t \in [op : {"delete", "upload"}, path : File \cup Dir, at : Files!Listing]
  BY FilesState
<1>3. new \in [dir : Files!Place, read : BOOLEAN, entries : SUBSET (File \cup Dir)] /\ new.read = FALSE
  BY <1>2, FilesData
<1> HIDE DEF new
<1>4. Files!FilesTypeOK'
  BY <1>1, <1>2, <1>3, FilesState, FilesData DEF Files!FilesFit, Files!FilesTypeOK
<1>5. ASSUME v9' = {}
      PROVE  Files!OneThing' /\ Files!TaskIsInFront' /\ Files!ListingsAreTrue' /\ Files!ValueIsThere'
  <2>1. Files!OneThing /\ Files!TaskIsInFront /\ Files!ListingsAreTrue /\ Files!ValueIsThere
    BY <1>1, <1>5, FilesState
  <2>2. v5' = {} /\ v4' = {new} /\ v3 = t.at
    BY <1>1, <2>1 DEF Files!OneThing, Files!TaskIsInFront
  <2>3. Files!OneThing' /\ Files!TaskIsInFront'
    BY <2>2 DEF Files!OneThing, Files!TaskIsInFront
  <2>4. Files!ListingsAreTrue'
    BY <1>3, <2>2 DEF Files!ListingsAreTrue
  <2>5. Files!ValueIsThere'
    BY <1>1, <2>1 DEF Files!ValueIsThere, Files!TaskIsInFront
  <2> QED
    BY <2>3, <2>4, <2>5
<1> QED
  BY <1>4, <1>5 DEF Files!FilesFit

\* A task is refused, or the device cannot be reached.
LEMMA FilesTaskFails ==
  ASSUME Files!FilesFit, NEW t \in v5, Files!TaskFails(t)
  PROVE  Files!FilesFit'
<1> DEFINE new == [dir |-> Parent[t.path], read |-> FALSE, entries |-> {}]
<1>1. /\ v9' = v9 \cup {"failed"} /\ v5' = v5 \ {t} /\ UNCHANGED <<v1, v2, v6, v7, v8>>
      /\ \/ v3' = Files!Blank /\ v4' = v4 \cup {new}
         \/ UNCHANGED <<v3, v4>>
  BY DEF Files!TaskFails, Files!Troubled, Files!ListsAgain, Files!Asked
<1>2. new \in [dir : Files!Place, read : BOOLEAN, entries : SUBSET (File \cup Dir)]
  <2>1. t \in [op : {"delete", "upload"}, path : File \cup Dir, at : Files!Listing]
    BY FilesState
  <2> QED
    BY <2>1, FilesData
<1> HIDE DEF new
<1>3. Files!FilesTypeOK'
  BY <1>1, <1>2, FilesState, FilesData DEF Files!FilesFit, Files!FilesTypeOK
<1> QED
  BY <1>1, <1>3 DEF Files!FilesFit

\* A listing cannot be read.
LEMMA FilesListingFails ==
  ASSUME Files!FilesFit, NEW l \in v4, Files!ListingFails(l)
  PROVE  Files!FilesFit'
<1> DEFINE new == [l EXCEPT !.read = TRUE, !.entries = {}]
<1>1. v9' = v9 \cup {"failed"} /\ v4' = (v4 \ {l}) \cup {new} /\ UNCHANGED <<v1, v2, v3, v5, v6, v7, v8>>
  BY DEF Files!ListingFails, Files!Troubled
<1>2. new \in [dir : Files!Place, read : BOOLEAN, entries : SUBSET (File \cup Dir)]
  <2>1. l \in [dir : Files!Place, read : BOOLEAN, entries : SUBSET (File \cup Dir)]
    BY FilesState
  <2> QED
    BY <2>1
<1> HIDE DEF new
<1>3. Files!FilesTypeOK'
  BY <1>1, <1>2, FilesState DEF Files!FilesFit, Files!FilesTypeOK
<1> QED
  BY <1>1, <1>3 DEF Files!FilesFit

\* Whatever happens in the browser.
LEMMA FilesStep ==
  ASSUME Files!FilesFit, Files!FilesNext
  PROVE  Files!FilesFit'
BY FilesOpened, FilesSelected, FilesPicked, FilesCancelled, FilesReset, FilesUploaded, FilesDeleted,
   FilesRead, FilesListingFails, FilesRendered, FilesTaskDone, FilesTaskFails
   DEF Files!FilesNext

\* The browser before the first click.
LEMMA FilesStart ==
  ASSUME Files!FilesInit
  PROVE  Files!FilesFit
<1>1. /\ v1 = File \cup Dir /\ v2 = FALSE /\ v3 = Files!Blank /\ v4 = {} /\ v5 = {}
      /\ v6 \in File \cup {Files!None} /\ v7 = v6 /\ v9 = {}
  BY DEF Files!FilesInit
<1>2. Files!FilesTypeOK
  BY <1>1, FilesData DEF Files!FilesTypeOK
<1> QED
  BY <1>1, <1>2 DEF Files!FilesFit, Files!OneThing, Files!TaskIsInFront, Files!ListingsAreTrue, Files!ValueIsThere

\* At rest, what was picked is on the device.
LEMMA FilesPickedIsThere ==
  ASSUME Files!FilesFit
  PROVE  Files!PickedIsThere
BY FilesState DEF Files!PickedIsThere, Files!Busy, Files!ListingsAreTrue, Files!ValueIsThere

-----------------------------------------------------------------------------
(* Classes                                                                 *)

\* The cardinality of the loader is the cardinality.
LEMMA LoaderCounts ==
  \A S : Loader!Cardinality(S) = Cardinality(S)
BY DEF Loader!Cardinality, Cardinality

\* What is on a chain that goes on with another one.
LEMMA ChainGoesOn ==
  ASSUME NEW c \in Class, NEW s \in Seq(Class)
  PROVE  /\ <<c>> \o s \in Seq(Class) /\ Len(<<c>> \o s) = Len(s) + 1 /\ (<<c>> \o s)[1] = c
         /\ s # <<>> => (<<c>> \o s)[2] = s[1]
         /\ \A d : Loader!Among(d, <<c>> \o s) <=> d = c \/ Loader!Among(d, s)
<1>1. /\ <<c>> \o s \in Seq(Class) /\ Len(<<c>> \o s) = Len(s) + 1 /\ (<<c>> \o s)[1] = c
      /\ \A i \in 1..Len(s) : (<<c>> \o s)[i + 1] = s[i]
  OBVIOUS
<1>2. DOMAIN s = 1..Len(s) /\ DOMAIN (<<c>> \o s) = 1..Len(s) + 1 /\ Len(s) \in Nat
  BY <1>1
<1>3. \A i \in 1..Len(s) + 1 : i = 1 \/ (i - 1 \in 1..Len(s) /\ (i - 1) + 1 = i)
  BY <1>2
<1>4. \A i \in 1..Len(s) : i + 1 \in 1..Len(s) + 1
  BY <1>2
<1> DEFINE t == <<c>> \o s
<1>5. /\ t[1] = c /\ 1 \in DOMAIN t
      /\ \A i \in DOMAIN s : i + 1 \in DOMAIN t /\ t[i + 1] = s[i]
      /\ \A i \in DOMAIN t : i = 1 \/ (i - 1 \in DOMAIN s /\ t[i] = s[i - 1])
  BY <1>1, <1>2, <1>3, <1>4
<1>6. s # <<>> => t[2] = s[1]
  BY <1>1, <1>2
<1> HIDE DEF t
<1>7. \A d : Loader!Among(d, t) <=> d = c \/ Loader!Among(d, s)
  BY <1>5 DEF Loader!Among
<1> QED
  BY <1>1, <1>6, <1>7 DEF t

\* What require() does.
LEMMA Required ==
  ASSUME Loader!ChainsKept, NEW cs \in Seq(Class), NEW chain \in Seq(Class),
         \A d \in Class : Loader!Among(d, chain) => v2[d] # "no",
         chain = <<>> \/ (chain[1] \in Class /\ v2[chain[1]] # "no" /\ chain = v3[chain[1]])
  PROVE  LET l == Loader!Require(cs, chain)
         IN /\ l.class \in [Class -> {"no", "fetch", "wait", "made", "refused"}]
            /\ l.from \in [Class -> Seq(Class)]
            /\ \A c \in Class :
                 \/ l.class[c] = v2[c] /\ l.from[c] = v3[c]
                 \/ v2[c] = "no" /\ l.class[c] = "fetch" /\ l.from[c] = <<c>> \o chain
            /\ ~l.raised => \A d \in Class : Loader!Among(d, cs) => ~Loader!Among(d, chain)
<1> DEFINE circles == {i \in DOMAIN cs : Loader!IsCircle(cs[i], chain)}
           fetched == {c \in Class : v2[c] = "no" /\ \E i \in DOMAIN cs : cs[i] = c /\ \A j \in circles : i < j}
           l == Loader!Require(cs, chain)
<1>0. v2 \in [Class -> {"no", "fetch", "wait", "made", "refused"}] /\ v3 \in [Class -> Seq(Class)]
  BY DEF Loader!ChainsKept, Loader!LoaderTypeOK
<1>1. /\ l.class = [c \in Class |-> IF c \in fetched THEN "fetch" ELSE v2[c]]
      /\ l.from = [c \in Class |-> IF c \in fetched THEN <<c>> \o chain ELSE v3[c]]
      /\ l.raised = (circles # {})
  BY DEF Loader!Require
<1>2. \A c \in fetched : v2[c] = "no"
  OBVIOUS
<1>3. circles = {} => \A d \in Class : Loader!Among(d, cs) => ~Loader!Among(d, chain)
  BY DEF Loader!IsCircle, Loader!Among
<1>4. \A c \in Class : <<c>> \o chain \in Seq(Class)
  BY ChainGoesOn
<1> HIDE DEF circles, fetched, l
<1>5. l.class \in [Class -> {"no", "fetch", "wait", "made", "refused"}] /\ l.from \in [Class -> Seq(Class)]
  BY <1>0, <1>1, <1>4
<1> QED
  BY <1>1, <1>2, <1>3, <1>5 DEF l

\* Classes are fetched along a chain of classes that are there.
LEMMA ChainsStillFit ==
  ASSUME Loader!ChainsKept, NEW chain \in Seq(Class),
         \A d \in Class : Loader!Among(d, chain) => v2[d] # "no",
         chain = <<>> \/ (chain[1] \in Class /\ v2[chain[1]] # "no" /\ chain = v3[chain[1]]),
         v3' \in [Class -> Seq(Class)],
         \A c \in Class : \/ (v2'[c] = "no" <=> v2[c] = "no") /\ v3'[c] = v3[c]
                          \/ v2[c] = "no" /\ v2'[c] = "fetch" /\ v3'[c] = <<c>> \o chain
  PROVE  Loader!ChainsFit'
<1>0. v3 \in [Class -> Seq(Class)] /\ Loader!ChainsFit
  BY DEF Loader!ChainsKept, Loader!LoaderTypeOK
<1>1. \A c \in Class : v2[c] # "no" => v2'[c] # "no" /\ v3'[c] = v3[c]
  OBVIOUS
<1> SUFFICES ASSUME NEW c \in Class, v2'[c] # "no"
             PROVE  /\ v3'[c] # <<>> /\ v3'[c][1] = c
                    /\ \A d \in Class : Loader!Among(d, v3'[c]) => v2'[d] # "no"
                    /\ Len(v3'[c]) = 1 \/ v3'[c] = <<c>> \o v3'[v3'[c][2]]
  BY DEF Loader!ChainsFit, Loader!Among
<1>2. CASE v2[c] # "no"
  <2>1. /\ v3'[c] = v3[c] /\ v3[c] # <<>> /\ v3[c][1] = c
        /\ \A d \in Class : Loader!Among(d, v3[c]) => v2[d] # "no"
        /\ Len(v3[c]) = 1 \/ v3[c] = <<c>> \o v3[v3[c][2]]
    BY <1>0, <1>1, <1>2 DEF Loader!ChainsFit
  <2>2. Len(v3[c]) # 1 => v3[c][2] \in Class /\ Loader!Among(v3[c][2], v3[c])
    <3>1. v3[c] \in Seq(Class) /\ (Len(v3[c]) # 1 => 2 \in DOMAIN v3[c])
      BY <1>0, <2>1
    <3> QED
      BY <3>1 DEF Loader!Among
  <2>3. Len(v3[c]) # 1 => v3'[v3[c][2]] = v3[v3[c][2]]
    BY <1>1, <2>1, <2>2
  <2> QED
    BY <1>1, <2>1, <2>3
<1>3. CASE v2[c] = "no"
  <2>1. v3'[c] = <<c>> \o chain
    BY <1>3
  <2>2. /\ v3'[c] # <<>> /\ v3'[c][1] = c /\ Len(v3'[c]) = Len(chain) + 1
        /\ \A d : Loader!Among(d, v3'[c]) <=> d = c \/ Loader!Among(d, chain)
        /\ chain # <<>> => v3'[c][2] = chain[1]
    BY <2>1, ChainGoesOn
  <2>3. chain # <<>> => v3'[chain[1]] = chain
    BY <1>1
  <2>4. Len(v3'[c]) = 1 \/ v3'[c] = <<c>> \o v3'[v3'[c][2]]
    BY <2>1, <2>2, <2>3
  <2> QED
    BY <1>1, <2>2, <2>4
<1> QED
  BY <1>2, <1>3

\* What is known of each variable.
LEMMA LoaderState ==
  ASSUME Loader!ChainsKept
  PROVE  /\ v1 \in [Class -> Seq(Class)] /\ v2 \in [Class -> {"no", "fetch", "wait", "made", "refused"}]
         /\ v3 \in [Class -> Seq(Class)]
         /\ \A c \in Class : v2[c] # "no" => v3[c] # <<>> /\ v3[c][1] = c
         /\ \A c \in Class : v2[c] # "no" => \A d \in Class : Loader!Among(d, v3[c]) => v2[d] # "no"
         /\ Loader!ChainsFit /\ Loader!WaitersFit
BY DEF Loader!ChainsKept, Loader!LoaderTypeOK, Loader!ChainsFit

\* Types come with the chains.
LEMMA LoaderTyped ==
  ASSUME v1' \in [Class -> Seq(Class)], v2' \in [Class -> {"no", "fetch", "wait", "made", "refused"}],
         v3' \in [Class -> Seq(Class)], Loader!ChainsFit'
  PROVE  Loader!LoaderTypeOK'
<1>1. \A c \in Class : v2'[c] # "no" => v3'[c] # <<>> /\ v3'[c][1] = c
  BY DEF Loader!ChainsFit
<1>2. \A c \in Class : v2'[c] # "no" => Head(v3'[c]) = c
  <2> SUFFICES ASSUME NEW c \in Class, v2'[c] # "no" PROVE Head(v3'[c]) = c
    OBVIOUS
  <2>1. v3'[c] \in Seq(Class) /\ v3'[c] # <<>> /\ v3'[c][1] = c
    BY <1>1
  <2> QED
    BY <2>1
<1> QED
  BY <1>2 DEF Loader!LoaderTypeOK

\* Something on the page asks for a class.
LEMMA LoaderAsked ==
  ASSUME Loader!ChainsKept, NEW c \in Class, Loader!Ask(c)
  PROVE  Loader!ChainsKept'
<1> DEFINE l == Loader!Require(<<c>>, <<>>)
<1>1. v2' = l.class /\ v3' = l.from /\ v1' = v1
  BY DEF Loader!Ask
<1>2. <<>> \in Seq(Class) /\ <<c>> \in Seq(Class) /\ \A d \in Class : Loader!Among(d, <<>>) => v2[d] # "no"
  BY DEF Loader!Among
<1>3. /\ l.class \in [Class -> {"no", "fetch", "wait", "made", "refused"}]
      /\ l.from \in [Class -> Seq(Class)]
      /\ \A d \in Class : \/ l.class[d] = v2[d] /\ l.from[d] = v3[d]
                          \/ v2[d] = "no" /\ l.class[d] = "fetch" /\ l.from[d] = <<d>> \o <<>>
  BY <1>2, Required
<1> HIDE DEF l
<1>4. Loader!ChainsFit'
  BY <1>1, <1>2, <1>3, ChainsStillFit
<1>5. Loader!LoaderTypeOK'
  BY <1>1, <1>3, <1>4, LoaderState, LoaderTyped
<1>6. Loader!WaitersFit'
  <2> SUFFICES ASSUME NEW a \in Class, NEW d \in Class, v2'[a] = "wait", Loader!Among(d, v1[a])
               PROVE  ~Loader!Among(d, v3'[a])
    BY <1>1 DEF Loader!WaitersFit, Loader!Needs, Loader!Among
  <2>1. v2[a] = "wait" /\ v3'[a] = v3[a]
    BY <1>1, <1>3
  <2> QED
    BY <2>1, LoaderState DEF Loader!WaitersFit, Loader!Needs
<1> QED
  BY <1>4, <1>5, <1>6 DEF Loader!ChainsKept

\* The source of a class is there.
LEMMA LoaderCompiled ==
  ASSUME Loader!ChainsKept, NEW c \in Class, Loader!Compile(c)
  PROVE  Loader!ChainsKept'
<1> DEFINE l == Loader!Require(v1[c], v3[c])
<1>1. /\ v2[c] = "fetch" /\ v2' = [l.class EXCEPT ![c] = IF l.raised THEN "refused" ELSE "wait"]
      /\ v3' = l.from /\ v1' = v1
  BY DEF Loader!Compile
<1>2. /\ v1[c] \in Seq(Class) /\ v3[c] \in Seq(Class) /\ v3[c][1] = c
      /\ \A d \in Class : Loader!Among(d, v3[c]) => v2[d] # "no"
  BY <1>1, LoaderState
<1>a. v3[c][1] \in Class /\ v2[v3[c][1]] # "no" /\ v3[c] = v3[v3[c][1]]
  BY <1>1, <1>2
<1>3. /\ l.class \in [Class -> {"no", "fetch", "wait", "made", "refused"}]
      /\ l.from \in [Class -> Seq(Class)]
      /\ \A d \in Class : \/ l.class[d] = v2[d] /\ l.from[d] = v3[d]
                          \/ v2[d] = "no" /\ l.class[d] = "fetch" /\ l.from[d] = <<d>> \o v3[c]
      /\ ~l.raised => \A d \in Class : Loader!Among(d, v1[c]) => ~Loader!Among(d, v3[c])
  BY <1>a, <1>2, Required
<1> HIDE DEF l
<1>4. /\ v2' \in [Class -> {"no", "fetch", "wait", "made", "refused"}]
      /\ v2'[c] \in {"refused", "wait"} /\ v3'[c] = v3[c]
      /\ \A d \in Class : d # c => v2'[d] = l.class[d]
  BY <1>1, <1>3
<1>5. \A d \in Class : \/ (v2'[d] = "no" <=> v2[d] = "no") /\ v3'[d] = v3[d]
                       \/ v2[d] = "no" /\ v2'[d] = "fetch" /\ v3'[d] = <<d>> \o v3[c]
  <2> SUFFICES ASSUME NEW d \in Class
               PROVE  \/ (v2'[d] = "no" <=> v2[d] = "no") /\ v3'[d] = v3[d]
                      \/ v2[d] = "no" /\ v2'[d] = "fetch" /\ v3'[d] = <<d>> \o v3[c]
    OBVIOUS
  <2>1. CASE d = c
    BY <1>1, <1>4, <2>1
  <2>2. CASE d # c
    BY <1>1, <1>3, <1>4, <2>2
  <2> QED
    BY <2>1, <2>2
<1>6. Loader!ChainsFit'
  BY <1>a, <1>1, <1>2, <1>3, <1>5, ChainsStillFit
<1>7. Loader!LoaderTypeOK'
  BY <1>1, <1>3, <1>4, <1>6, LoaderState, LoaderTyped
<1>8. Loader!WaitersFit'
  <2> SUFFICES ASSUME NEW a \in Class, NEW d \in Class, v2'[a] = "wait", Loader!Among(d, v1[a])
               PROVE  ~Loader!Among(d, v3'[a])
    BY <1>1 DEF Loader!WaitersFit, Loader!Needs, Loader!Among
  <2>1. CASE a = c
    <3>1. ~l.raised
      BY <1>1, <1>3, <2>1
    <3> QED
      BY <1>3, <1>4, <2>1, <3>1
  <2>2. CASE a # c
    <3>1. v2[a] = "wait" /\ v3'[a] = v3[a]
      BY <1>1, <1>3, <1>4, <2>2
    <3> QED
      BY <3>1, LoaderState DEF Loader!WaitersFit, Loader!Needs
  <2> QED
    BY <2>1, <2>2
<1> QED
  BY <1>6, <1>7, <1>8 DEF Loader!ChainsKept

\* A class is made or refused.
LEMMA LoaderSettled ==
  ASSUME Loader!ChainsKept, NEW c \in Class, Loader!FetchFails(c) \/ Loader!Make(c) \/ Loader!GiveUp(c)
  PROVE  Loader!ChainsKept'
<1>1. v2[c] # "no" /\ UNCHANGED <<v1, v3>> /\ \E r \in {"made", "refused"} : v2' = [v2 EXCEPT ![c] = r]
  BY DEF Loader!FetchFails, Loader!Make, Loader!GiveUp
<1>2. /\ v2' \in [Class -> {"no", "fetch", "wait", "made", "refused"}]
      /\ \A d \in Class : (v2'[d] = "no" <=> v2[d] = "no") /\ (v2'[d] = "wait" => v2[d] = "wait")
  BY <1>1, LoaderState
<1>3. Loader!ChainsFit'
  <2>1. <<>> \in Seq(Class) /\ v3' = v3 /\ \A d \in Class : Loader!Among(d, <<>>) => v2[d] # "no"
    BY <1>1 DEF Loader!Among
  <2>2. v3' \in [Class -> Seq(Class)]
    BY <2>1, LoaderState
  <2> QED
    BY <1>2, <2>1, <2>2, ChainsStillFit
<1>4. Loader!LoaderTypeOK'
  BY <1>1, <1>2, <1>3, LoaderState, LoaderTyped
<1>5. Loader!WaitersFit'
  <2> SUFFICES ASSUME NEW a \in Class, NEW d \in Class, v2'[a] = "wait", Loader!Among(d, v1[a])
               PROVE  ~Loader!Among(d, v3[a])
    BY <1>1 DEF Loader!WaitersFit, Loader!Needs, Loader!Among
  <2>1. v2[a] = "wait"
    BY <1>2
  <2> QED
    BY <2>1, LoaderState DEF Loader!WaitersFit, Loader!Needs
<1> QED
  BY <1>3, <1>4, <1>5 DEF Loader!ChainsKept

\* Whatever is asked for, fetched, compiled or made.
LEMMA LoaderStep ==
  ASSUME Loader!ChainsKept, Loader!LoaderNext
  PROVE  Loader!ChainsKept'
BY LoaderAsked, LoaderCompiled, LoaderSettled DEF Loader!LoaderNext

\* Before anything is asked for.
LEMMA LoaderStart ==
  ASSUME Loader!LoaderInit
  PROVE  Loader!ChainsKept
<1>1. v1 \in [Class -> Seq(Class)] /\ v2 = [c \in Class |-> "no"] /\ v3 = [c \in Class |-> <<>>]
  BY LoaderAssumption DEF Loader!LoaderInit
<1> QED
  BY <1>1 DEF Loader!ChainsKept, Loader!LoaderTypeOK, Loader!ChainsFit, Loader!WaitersFit

\* Who waits in a circle that was entered at one place, waits for somebody on
\* its own chain.
LEMMA LoaderReports ==
  ASSUME Loader!ChainsKept
  PROVE  Loader!CirclesAreReported
<1> SUFFICES ASSUME NEW C \in SUBSET Class, C # {}, Loader!WaitForEachOther(C),
                    ~(Cardinality(Loader!EnteredAt(C)) > 1)
             PROVE  FALSE
  <2>1. ASSUME NEW C \in SUBSET Class, C # {}, Loader!WaitForEachOther(C)
        PROVE  Loader!Cardinality(Loader!EnteredAt(C)) > 1
    <3>1. Cardinality(Loader!EnteredAt(C)) > 1
      BY <2>1
    <3> QED
      BY <3>1, LoaderCounts
  <2> QED
    BY <2>1 DEF Loader!CirclesAreReported
<1> DEFINE E == Loader!EnteredAt(C)
           len == [c \in C |-> Len(v3[c])]
<1>1. IsFiniteSet(C) /\ IsFiniteSet(E) /\ Cardinality(E) \in Nat
  <2>1. IsFiniteSet(C)
    BY LoaderAssumption, FS_Subset
  <2>2. E \subseteq C
    BY DEF Loader!EnteredAt
  <2> QED
    BY <2>1, <2>2, FS_Subset, FS_CardinalityType
<1>2. \A c \in C : v2[c] = "wait" /\ \E d \in C : Loader!Needs(d, c)
  BY DEF Loader!WaitForEachOther
<1>3. /\ \A c \in C : v3[c] \in Seq(Class) /\ v3[c] # <<>> /\ v3[c][1] = c
      /\ \A c \in C : Len(v3[c]) = 1 \/ v3[c] = <<c>> \o v3[v3[c][2]]
  BY <1>2, LoaderState DEF Loader!ChainsFit
<1>4. len \in [C -> Int]
  BY <1>3
\* The class that another one of the circle required.
<1>5. ASSUME NEW c \in C, c \notin E
      PROVE  LET p == v3[c][2]
             IN /\ p \in C /\ len[p] < len[c]
                /\ \A d : Loader!Among(d, v3[p]) => Loader!Among(d, v3[c])
  <2>1. Len(v3[c]) # 1 /\ v3[c][2] \in C
    BY <1>5 DEF Loader!EnteredAt
  <2>2. v3[c] = <<c>> \o v3[v3[c][2]] /\ v3[v3[c][2]] \in Seq(Class)
    BY <1>3, <2>1
  <2>3. /\ Len(v3[c]) = Len(v3[v3[c][2]]) + 1
        /\ \A d : Loader!Among(d, v3[c]) <=> d = c \/ Loader!Among(d, v3[v3[c][2]])
    <3>1. \A s \in Seq(Class) : /\ Len(<<c>> \o s) = Len(s) + 1
                                /\ \A d : Loader!Among(d, <<c>> \o s) <=> d = c \/ Loader!Among(d, s)
      BY ChainGoesOn
    <3> QED
      BY <2>2, <3>1
  <2>4. Len(v3[v3[c][2]]) \in Nat
    BY <2>2
  <2> QED
    BY <2>1, <2>3, <2>4
<1> HIDE DEF E, len
<1>6. PICK e \in C : \A c \in C : len[e] <= len[c]
  BY <1>1, <1>4, Least
<1>7. e \in E
  <2>1. \A c \in C : len[c] \in Int
    BY <1>4
  <2> QED
    BY <1>5, <1>6, <2>1
<1>8. \A c \in E : c = e
  <2> SUFFICES ASSUME NEW c \in E, c # e PROVE FALSE
    OBVIOUS
  <2>1. IsFiniteSet({e}) /\ Cardinality({e}) = 1
    BY FS_Singleton
  <2>2. Cardinality({e} \cup {c}) = 2 /\ IsFiniteSet({e} \cup {c})
    <3>1. c \notin {e}
      OBVIOUS
    <3>2. Cardinality({e} \cup {c}) = Cardinality({e}) + 1 /\ IsFiniteSet({e} \cup {c})
      BY <2>1, <3>1, FS_AddElement
    <3> QED
      BY <2>1, <3>2
  <2>3. {e} \cup {c} \subseteq E
    BY <1>7
  <2>4. Cardinality({e} \cup {c}) <= Cardinality(E)
    BY <1>1, <2>3, FS_Subset
  <2> QED
    BY <1>1, <2>2, <2>4 DEF E
<1>9. \A c \in C : Loader!Among(e, v3[c])
  <2> DEFINE B == {c \in C : ~Loader!Among(e, v3[c])}
             lenB == [c \in B |-> len[c]]
  <2> SUFFICES ASSUME B # {} PROVE FALSE
    OBVIOUS
  <2>1. IsFiniteSet(B) /\ lenB \in [B -> Int]
    BY <1>1, <1>4, FS_Subset
  <2>2. PICK b \in B : \A c \in B : lenB[b] <= lenB[c]
    <3> HIDE DEF B, lenB
    <3> QED
      BY <2>1, Least
  <2>3. b # e
    <3>1. Loader!Among(e, v3[e])
      <4>1. 1 \in DOMAIN v3[e] /\ v3[e][1] = e
        BY <1>3
      <4> QED
        BY <4>1 DEF Loader!Among
    <3> QED
      BY <3>1
  <2>4. b \in C /\ b \notin E
    BY <1>8, <2>3
  <2> DEFINE p == v3[b][2]
  <2>5. p \in C /\ len[p] < len[b] /\ (Loader!Among(e, v3[p]) => Loader!Among(e, v3[b]))
    BY <1>5, <2>4
  <2>6. p \in B
    BY <2>5
  <2>7. len[b] <= len[p] /\ len[b] \in Int /\ len[p] \in Int
    BY <1>4, <2>2, <2>5, <2>6
  <2> QED
    BY <2>5, <2>7
<1>10. PICK d \in C : Loader!Needs(d, e)
  BY <1>2
<1> QED
  BY <1>2, <1>9, <1>10, LoaderState DEF Loader!WaitersFit

\* Nothing changes while nothing happens.
LEMMA LoaderRests ==
  ASSUME UNCHANGED pageVars
  PROVE  Loader!ChainsKept' = Loader!ChainsKept
BY DEF pageVars, Loader!ChainsKept, Loader!LoaderTypeOK, Loader!ChainsFit, Loader!WaitersFit, Loader!Needs,
       Loader!Among

-----------------------------------------------------------------------------
(* Rows of a table                                                         *)

\* The lists of some sections, each of them once.
ListsOf(S, n) ==
  {a \in Seq(Section) : Grid!IsInjective(a) /\ Grid!ToSet(a) = S /\ Len(a) = n}

LEMMA PlaceFacts ==
  ASSUME NEW a, NEW s, s \in Grid!ToSet(a)
  PROVE  Grid!Place(a, s) \in DOMAIN a /\ a[Grid!Place(a, s)] = s
BY DEF Grid!Place, Grid!ToSet

\* A list of sections as a function.
LEMMA ListFacts ==
  ASSUME NEW a \in Seq(Section)
  PROVE  /\ Len(a) \in Nat /\ DOMAIN a = 1..Len(a) /\ a \in [1..Len(a) -> Section]
         /\ \A k \in 1..Len(a) : a[k] \in Section
OBVIOUS

LEMMA SameLists ==
  ASSUME NEW a \in Seq(Section), NEW b \in Seq(Section), Len(a) = Len(b),
         \A k \in 1..Len(a) : a[k] = b[k]
  PROVE  a = b
<1> DEFINE D == 1..Len(a)
<1>1. a \in [D -> Section] /\ b \in [D -> Section] /\ \A k \in D : a[k] = b[k]
  BY ListFacts
<1> HIDE DEF D
<1> QED
  BY ONLY <1>1

\* What is put next to another: the place it had, the one it gets, and the others.
IsPlaced(S, n, a, s, t, below) ==
  LET from == Grid!Place(a, s)
      p == Grid!Place(a, t)
      to == IF below THEN (IF from < p THEN p ELSE p + 1) ELSE (IF from < p THEN p - 1 ELSE p)
      r == Grid!Placed(a, s, t, below)
  IN /\ from \in 1..n /\ a[from] = s /\ p \in 1..n /\ a[p] = t /\ to \in 1..n
     /\ r \in ListsOf(S, n)
     /\ \A k \in 1..n : r[k] = a[IF k = to THEN from
                                  ELSE IF from <= k /\ k < to THEN k + 1
                                  ELSE IF to < k /\ k <= from THEN k - 1
                                  ELSE k]

LEMMA PlacedFacts ==
  ASSUME NEW S, NEW n, NEW a \in ListsOf(S, n), NEW s \in S, NEW t \in S, s # t, NEW below \in BOOLEAN
  PROVE  IsPlaced(S, n, a, s, t, below)
<1> DEFINE from == Grid!Place(a, s)
           p == Grid!Place(a, t)
           to == IF below THEN (IF from < p THEN p ELSE p + 1) ELSE (IF from < p THEN p - 1 ELSE p)
           at(k) == IF k = to THEN from
                    ELSE IF from <= k /\ k < to THEN k + 1
                    ELSE IF to < k /\ k <= from THEN k - 1
                    ELSE k
           back(k) == IF k = from THEN to
                      ELSE IF from < k /\ k <= to THEN k - 1
                      ELSE IF to <= k /\ k < from THEN k + 1
                      ELSE k
           r == Grid!Placed(a, s, t, below)
<1>1. /\ n \in Nat /\ a \in Seq(Section) /\ Len(a) = n /\ DOMAIN a = 1..n /\ \A k \in 1..n : a[k] \in Section
      /\ \A i, j \in 1..n : a[i] = a[j] => i = j
      /\ Grid!ToSet(a) = S
  BY ListFacts DEF ListsOf, Grid!IsInjective
<1>2. from \in 1..n /\ a[from] = s /\ p \in 1..n /\ a[p] = t
  BY <1>1, PlaceFacts
<1>3. from # p
  BY <1>2
<1>4. r = [k \in DOMAIN a |->
             a[IF k = p + (IF below THEN 1 ELSE 0) - (IF from < p THEN 1 ELSE 0) THEN from
               ELSE IF from <= k /\ k < p + (IF below THEN 1 ELSE 0) - (IF from < p THEN 1 ELSE 0) THEN k + 1
               ELSE IF p + (IF below THEN 1 ELSE 0) - (IF from < p THEN 1 ELSE 0) < k /\ k <= from THEN k - 1
               ELSE k]]
  BY DEF Grid!Placed
<1> HIDE DEF from, p, r
<1>5. to \in 1..n
  BY <1>1, <1>2, <1>3
<1>6. to = p + (IF below THEN 1 ELSE 0) - (IF from < p THEN 1 ELSE 0)
  BY <1>2
<1>7. r = [k \in 1..n |-> a[at(k)]]
  <2> HIDE DEF to
  <2> QED
    BY <1>1, <1>4, <1>6
<1> HIDE DEF to
<1>8. \A k \in 1..n : at(k) \in 1..n /\ back(k) \in 1..n /\ at(back(k)) = k
  BY <1>1, <1>2, <1>5
<1>9. \A k, l \in 1..n : at(k) = at(l) => k = l
  BY <1>1, <1>2, <1>5
<1> HIDE DEF at, back
<1>10. r \in [1..n -> Section] /\ \A k \in 1..n : r[k] = a[at(k)]
  BY <1>1, <1>7, <1>8
<1>11. r \in Seq(Section) /\ Len(r) = n /\ DOMAIN r = 1..n
  BY <1>1, <1>10
<1>12. \A k, l \in 1..n : r[k] = r[l] => k = l
  BY <1>1, <1>8, <1>9, <1>10
<1>13. Grid!ToSet(r) = S
  <2>1. \A x \in S : \E k \in 1..n : r[k] = x
    <3> SUFFICES ASSUME NEW x \in S PROVE \E k \in 1..n : r[k] = x
      OBVIOUS
    <3>1. PICK k \in 1..n : a[k] = x
      BY <1>1 DEF Grid!ToSet
    <3> QED
      BY <1>8, <1>10, <3>1
  <2>2. \A k \in 1..n : r[k] \in S
    BY <1>1, <1>8, <1>10 DEF Grid!ToSet
  <2> QED
    BY <1>11, <2>1, <2>2 DEF Grid!ToSet
<1>14. r \in ListsOf(S, n)
  BY <1>11, <1>12, <1>13 DEF ListsOf, Grid!IsInjective
<1> QED
  BY <1>2, <1>5, <1>10, <1>14 DEF from, p, to, at, r, IsPlaced

LEMMA ListsOfFacts ==
  ASSUME NEW S, NEW n, NEW a \in ListsOf(S, n)
  PROVE  /\ n \in Nat /\ a \in Seq(Section) /\ Len(a) = n /\ DOMAIN a = 1..n
         /\ \A k \in 1..n : a[k] \in S /\ a[k] \in Section
         /\ \A i, j \in 1..n : a[i] = a[j] => i = j
         /\ \A x \in S : \E k \in 1..n : a[k] = x
         /\ S \subseteq Section
<1>1. a \in Seq(Section) /\ Len(a) = n /\ Grid!ToSet(a) = S /\ Grid!IsInjective(a)
  BY DEF ListsOf
<1>2. n \in Nat /\ DOMAIN a = 1..n /\ \A k \in 1..n : a[k] \in Section
  BY ONLY <1>1
<1>3. S = {a[k] : k \in 1..n}
  BY <1>1, <1>2 DEF Grid!ToSet
<1>4. \A k \in 1..n : a[k] \in S
  BY <1>3
<1>5. \A x \in S : \E k \in 1..n : a[k] = x
  BY <1>3
<1>6. \A i, j \in 1..n : a[i] = a[j] => i = j
  BY <1>1, <1>2 DEF Grid!IsInjective
<1> QED
  BY <1>1, <1>2, <1>4, <1>5, <1>6

LEMMA ListsOfThese ==
  ASSUME NEW S, NEW n \in Nat, NEW r \in [1..n -> Section],
         \A k \in 1..n : r[k] \in S, \A x \in S : \E k \in 1..n : r[k] = x,
         \A i, j \in 1..n : r[i] = r[j] => i = j
  PROVE  r \in ListsOf(S, n)
<1>1. r \in Seq(Section) /\ Len(r) = n /\ DOMAIN r = 1..n
  OBVIOUS
<1>2. Grid!ToSet(r) = S
  BY <1>1 DEF Grid!ToSet
<1> QED
  BY <1>1, <1>2 DEF ListsOf, Grid!IsInjective

\* Where a section is in a list is where it is.
LEMMA PlaceIs ==
  ASSUME NEW S, NEW n, NEW a \in ListsOf(S, n), NEW k \in 1..n
  PROVE  Grid!Place(a, a[k]) = k
<1>1. DOMAIN a = 1..n /\ \A i, j \in 1..n : a[i] = a[j] => i = j
  BY ListsOfFacts
<1>2. a[k] \in Grid!ToSet(a)
  BY <1>1 DEF Grid!ToSet
<1> QED
  BY <1>1, <1>2, PlaceFacts

LEMMA MovedFacts ==
  ASSUME NEW S, NEW n, NEW a \in ListsOf(S, n), NEW s, NEW t, NEW below \in BOOLEAN
  PROVE  Grid!Moved(a, s, t, below) \in ListsOf(S, n)
<1>1. Grid!ToSet(a) = S
  BY DEF ListsOf
<1>2. CASE s # t /\ {s, t} \subseteq S
  <2>1. Grid!Moved(a, s, t, below) = Grid!Placed(a, s, t, below)
    BY <1>1, <1>2 DEF Grid!Moved
  <2>2. s \in S /\ t \in S
    BY <1>2
  <2> QED
    BY <1>2, <2>1, <2>2, PlacedFacts DEF IsPlaced
<1>3. CASE ~(s # t /\ {s, t} \subseteq S)
  BY <1>1, <1>3 DEF Grid!Moved
<1> QED
  BY <1>2, <1>3

\* A list with one section more, at its end.
WithLast(S, n, a, x, r) ==
  /\ r \in ListsOf(S \cup {x}, n + 1)
  /\ \A k \in 1..n : r[k] = a[k]
  /\ r[n + 1] = x

LEMMA AppendedFacts ==
  ASSUME NEW S, NEW n, NEW a \in ListsOf(S, n), NEW x \in Section, x \notin S
  PROVE  WithLast(S, n, a, x, Append(a, x))
<1> DEFINE r == Append(a, x)
<1>1. /\ n \in Nat /\ a \in Seq(Section) /\ Len(a) = n
      /\ \A k \in 1..n : a[k] \in S /\ a[k] \in Section
      /\ \A i, j \in 1..n : a[i] = a[j] => i = j
      /\ \A y \in S : \E k \in 1..n : a[k] = y
  BY ListsOfFacts
<1>2. /\ r \in Seq(Section) /\ Len(r) = n + 1 /\ r[n + 1] = x
      /\ \A k \in 1..n : r[k] = a[k]
  BY <1>1
<1> HIDE DEF r
<1>3. n + 1 \in Nat /\ n + 1 \in 1..(n + 1) /\ \A k \in 1..(n + 1) : k = n + 1 \/ k \in 1..n
  BY <1>1
<1>4. \A k \in 1..n : k \in 1..(n + 1)
  BY <1>1
<1>5. r \in [1..(n + 1) -> Section]
  BY <1>2, ListFacts
<1>6. \A k \in 1..(n + 1) : r[k] \in S \cup {x}
  BY <1>1, <1>2, <1>3
<1>7. \A y \in S \cup {x} : \E k \in 1..(n + 1) : r[k] = y
  BY <1>1, <1>2, <1>3, <1>4
<1>8. \A i, j \in 1..(n + 1) : r[i] = r[j] => i = j
  BY <1>1, <1>2, <1>3
<1>9. r \in ListsOf(S \cup {x}, n + 1)
  BY <1>3, <1>5, <1>6, <1>7, <1>8, ListsOfThese
<1> QED
  BY <1>2, <1>9 DEF r, WithLast

\* What is last stays last while others are put next to each other.
StaysLast(a, x, s, t, below) ==
  /\ s # t => Grid!Placed(Append(a, x), s, t, below) = Append(Grid!Placed(a, s, t, below), x)
  /\ Grid!Moved(Append(a, x), s, t, below) = Append(Grid!Moved(a, s, t, below), x)

LEMMA PlacedAppended ==
  ASSUME NEW S, NEW n, NEW a \in ListsOf(S, n), NEW x \in Section, x \notin S,
         NEW s \in S, NEW t \in S, NEW below \in BOOLEAN
  PROVE  StaysLast(a, x, s, t, below)
<1> DEFINE c == Append(a, x)
           p == Grid!Placed(a, s, t, below)
           q == Grid!Placed(c, s, t, below)
<1>1. c \in ListsOf(S \cup {x}, n + 1) /\ (\A k \in 1..n : c[k] = a[k]) /\ c[n + 1] = x
  <2>1. WithLast(S, n, a, x, Append(a, x))
    BY AppendedFacts
  <2> QED
    BY ONLY <2>1 DEF WithLast, c
<1>2. n \in Nat /\ Len(a) = n /\ Grid!ToSet(a) = S /\ Grid!ToSet(c) = S \cup {x}
  BY <1>1, ListsOfFacts DEF ListsOf
<1>3. \A y \in S : Grid!Place(c, y) = Grid!Place(a, y) /\ Grid!Place(a, y) \in 1..n
  <2> SUFFICES ASSUME NEW y \in S
               PROVE  Grid!Place(c, y) = Grid!Place(a, y) /\ Grid!Place(a, y) \in 1..n
    OBVIOUS
  <2>1. PICK k \in 1..n : a[k] = y
    BY ListsOfFacts
  <2>2. Grid!Place(a, y) = k
    BY <2>1, PlaceIs
  <2>3. k \in 1..(n + 1) /\ c[k] = y
    BY <1>1, <1>2, <2>1
  <2>4. Grid!Place(c, y) = k
    BY <1>1, <2>3, PlaceIs
  <2> QED
    BY <2>2, <2>4
<1>4. ASSUME s # t
      PROVE  q = Append(p, x)
  <2> DEFINE from == Grid!Place(a, s)
             f == Grid!Place(a, t)
             to == IF below THEN (IF from < f THEN f ELSE f + 1) ELSE (IF from < f THEN f - 1 ELSE f)
             at(k) == IF k = to THEN from
                      ELSE IF from <= k /\ k < to THEN k + 1
                      ELSE IF to < k /\ k <= from THEN k - 1
                      ELSE k
  <2>1. /\ p \in ListsOf(S, n) /\ from \in 1..n /\ to \in 1..n
        /\ \A k \in 1..n : p[k] = a[at(k)]
    <3>1. IsPlaced(S, n, a, s, t, below)
      BY <1>4, PlacedFacts
    <3> QED
      BY ONLY <3>1 DEF IsPlaced, p, from, to, f, at
  <2>2. q \in ListsOf(S \cup {x}, n + 1) /\ \A k \in 1..(n + 1) : q[k] = c[at(k)]
    <3>1. s \in S \cup {x} /\ t \in S \cup {x} /\ Grid!Place(c, s) = from /\ Grid!Place(c, t) = f
      BY <1>3
    <3> HIDE DEF from, f, c
    <3>2. IsPlaced(S \cup {x}, n + 1, c, s, t, below)
      BY <1>1, <1>4, <3>1, PlacedFacts
    <3> QED
      BY ONLY <3>1, <3>2 DEF IsPlaced, q, to, at
  <2> HIDE DEF from, f, to, p, q
  <2> DEFINE e == Append(p, x)
  <2>3. e \in ListsOf(S \cup {x}, n + 1) /\ (\A k \in 1..n : e[k] = p[k]) /\ e[n + 1] = x
    <3>1. WithLast(S, n, p, x, Append(p, x))
      BY <2>1, AppendedFacts
    <3> QED
      BY ONLY <3>1 DEF WithLast, e
  <2>4. \A k \in 1..n : at(k) \in 1..n
    BY <1>2, <2>1
  <2>5. at(n + 1) = n + 1
    BY <1>2, <2>1
  <2>6. \A k \in 1..(n + 1) : k = n + 1 \/ k \in 1..n
    BY <1>2
  <2> HIDE DEF at, c, e
  <2>7. n + 1 \in 1..(n + 1) /\ \A k \in 1..n : k \in 1..(n + 1)
    BY <1>2
  <2>8. \A k \in 1..n : q[k] = e[k]
    BY <1>1, <2>1, <2>2, <2>3, <2>4, <2>7
  <2>9. q[n + 1] = e[n + 1]
    BY <1>1, <2>2, <2>3, <2>5, <2>7
  <2>10. q \in Seq(Section) /\ e \in Seq(Section) /\ Len(q) = n + 1 /\ Len(e) = n + 1
    BY <2>2, <2>3, ListsOfFacts
  <2>11. \A k \in 1..Len(q) : q[k] = e[k]
    BY <2>6, <2>8, <2>9, <2>10
  <2>12. q = e
    BY <2>10, <2>11, SameLists
  <2> QED
    BY <2>12 DEF e
<1>5. Grid!Moved(c, s, t, below) = Append(Grid!Moved(a, s, t, below), x)
  <2>1. {s, t} \subseteq S /\ {s, t} \subseteq S \cup {x}
    OBVIOUS
  <2> QED
    BY <1>2, <1>4, <2>1 DEF Grid!Moved
<1> QED
  BY <1>4, <1>5 DEF StaysLast

\* One section less.
LEMMA WithoutFacts ==
  ASSUME NEW S, NEW n, NEW a \in ListsOf(S, n), NEW s
  PROVE  /\ s \in S => Grid!Without(a, s) \in ListsOf(S \ {s}, n - 1)
         /\ s \notin S => Grid!Without(a, s) = a
<1>1. /\ n \in Nat /\ a \in Seq(Section) /\ Len(a) = n /\ DOMAIN a = 1..n
      /\ \A k \in 1..n : a[k] \in S /\ a[k] \in Section
      /\ \A i, j \in 1..n : a[i] = a[j] => i = j
      /\ \A x \in S : \E k \in 1..n : a[k] = x
      /\ Grid!ToSet(a) = S
  BY ListsOfFacts DEF ListsOf
<1>2. CASE s \notin S
  BY <1>1, <1>2 DEF Grid!Without
<1>3. CASE s \in S
  <2> DEFINE p == Grid!Place(a, s)
             at(k) == IF k < p THEN k ELSE k + 1
             r == Grid!Without(a, s)
  <2>1. p \in 1..n /\ a[p] = s
    BY <1>1, <1>3, PlaceFacts
  <2>2. r = [k \in 1..(n - 1) |-> a[at(k)]]
    BY <1>1, <1>3 DEF Grid!Without
  <2> HIDE DEF p, r
  <2>3. n - 1 \in Nat /\ \A k \in 1..(n - 1) : at(k) \in 1..n /\ at(k) # p
    BY <1>1, <2>1
  <2>4. \A k, l \in 1..(n - 1) : at(k) = at(l) => k = l
    BY <1>1, <2>1
  <2>5. \A k \in 1..n : k # p => \E l \in 1..(n - 1) : at(l) = k
    <3> SUFFICES ASSUME NEW k \in 1..n, k # p PROVE \E l \in 1..(n - 1) : at(l) = k
      OBVIOUS
    <3>1. CASE k < p
      <4>1. k \in 1..(n - 1) /\ at(k) = k
        BY <1>1, <2>1, <3>1
      <4> QED
        BY <4>1
    <3>2. CASE k > p
      <4>1. k - 1 \in 1..(n - 1) /\ at(k - 1) = k
        BY <1>1, <2>1, <3>2
      <4> QED
        BY <4>1
    <3> QED
      BY <1>1, <2>1, <3>1, <3>2
  <2> HIDE DEF at
  <2>6. r \in [1..(n - 1) -> Section] /\ \A k \in 1..(n - 1) : r[k] = a[at(k)]
    BY <1>1, <2>2, <2>3
  <2>7. \A k \in 1..(n - 1) : r[k] \in S \ {s}
    BY <1>1, <2>1, <2>3, <2>6
  <2>8. \A x \in S \ {s} : \E k \in 1..(n - 1) : r[k] = x
    <3> SUFFICES ASSUME NEW x \in S \ {s} PROVE \E k \in 1..(n - 1) : r[k] = x
      OBVIOUS
    <3>1. PICK k \in 1..n : a[k] = x
      BY <1>1
    <3>2. PICK l \in 1..(n - 1) : at(l) = k
      BY <2>1, <2>5, <3>1
    <3> QED
      BY <2>6, <3>1, <3>2
  <2>9. \A k, l \in 1..(n - 1) : r[k] = r[l] => k = l
    BY <1>1, <2>3, <2>4, <2>6
  <2>10. r \in ListsOf(S \ {s}, n - 1)
    BY <2>3, <2>6, <2>7, <2>8, <2>9, ListsOfThese
  <2> QED
    BY <1>3, <2>10 DEF r
<1> QED
  BY <1>2, <1>3

\* What is added and taken away again has left no trace.
LEMMA WithoutAppended ==
  ASSUME NEW S, NEW n, NEW a \in ListsOf(S, n), NEW x \in Section, x \notin S
  PROVE  Grid!Without(Append(a, x), x) = a
<1> DEFINE c == Append(a, x)
           r == Grid!Without(c, x)
<1>1. c \in ListsOf(S \cup {x}, n + 1) /\ (\A k \in 1..n : c[k] = a[k]) /\ c[n + 1] = x
  <2>1. WithLast(S, n, a, x, Append(a, x))
    BY AppendedFacts
  <2> QED
    BY ONLY <2>1 DEF WithLast, c
<1>2. n \in Nat /\ a \in Seq(Section) /\ Len(a) = n /\ Len(c) = n + 1 /\ Grid!ToSet(c) = S \cup {x}
  BY <1>1, ListsOfFacts DEF ListsOf
<1>3. n + 1 \in 1..(n + 1) /\ (n + 1) - 1 = n
  BY <1>2
<1> HIDE DEF c
<1>4. Grid!Place(c, x) = n + 1
  <2>1. Grid!Place(c, c[n + 1]) = n + 1
    BY <1>1, <1>3, PlaceIs
  <2> QED
    BY <1>1, <2>1
<1>5. r = [k \in 1..n |-> c[IF k < n + 1 THEN k ELSE k + 1]]
  BY <1>2, <1>3, <1>4 DEF Grid!Without
<1> HIDE DEF r
<1>6. \A k \in 1..n : k < n + 1
  BY <1>2
<1>7. \A k \in 1..n : r[k] = a[k]
  BY <1>1, <1>5, <1>6
<1>8. r \in [1..n -> Section]
  BY <1>2, <1>5, <1>7, ListFacts
<1>9. r \in Seq(Section) /\ Len(r) = n
  BY <1>2, <1>8
<1> QED
  BY <1>2, <1>7, <1>9, SameLists DEF c, r

-----------------------------------------------------------------------------
(* What the user does with a table                                         *)

LEMMA ListsAre ==
  /\ \A S, n : \A a \in ListsOf(S, n) :
       a \in Seq(Section) /\ Grid!IsInjective(a) /\ Grid!ToSet(a) = S /\ Len(a) = n
  /\ \A a \in Seq(Section) : Grid!IsInjective(a) => a \in ListsOf(Grid!ToSet(a), Len(a))
BY DEF ListsOf

Saves ==
  [of : {Grid!None, "page", "dialog"}, step : {Grid!None, "sent", "served", "drawn"}, sent : Seq(Section)]

Drags == [node : Section \cup {Grid!None}, target : Section \cup {Grid!None}, below : BOOLEAN]

Troubles == {"refused", "cut", "unread", "crossed"}

TableAgrees ==
  /\ v12 \subseteq {"cut"} => Grid!OneThing /\ Grid!CacheAgrees
  /\ v12 = {} => Grid!RowsAgree

\* No save, no drag.
LEMMA Nones ==
  /\ Grid!NoSave \in Saves /\ Grid!NoSave.of = Grid!None /\ Grid!NoSave.step = Grid!None
  /\ Grid!NoSave.sent \in ListsOf({}, 0)
  /\ Grid!NoDrag \in Drags
  /\ Grid!None \notin {"page", "dialog", "sent", "served", "drawn"} /\ Grid!None \notin Section
<1>1. <<>> \in Seq(Section) /\ <<>> \in ListsOf({}, 0)
  BY DEF ListsOf, Grid!IsInjective, Grid!ToSet
<1>2. Grid!None \notin Section
  BY TableAssumption DEF Grid!None
<1> QED
  BY <1>1, <1>2 DEF Grid!NoSave, Grid!NoDrag, Grid!None, Saves, Drags

LEMMA GridStart ==
  ASSUME Grid!GridInit
  PROVE  Grid!TableFits
<1> USE DEF Grid!GridInit
<1>1. AtFirst \in Seq(Section) /\ Grid!IsInjective(AtFirst)
  BY TableAssumption
<1>2. v6 \in Saves /\ v6.sent \in ListsOf({}, 0) /\ v6.of = Grid!None /\ v6.step = Grid!None /\ v7 \in Drags
  BY Nones
<1>3. Grid!IsInjective(v6.sent) /\ Grid!ToSet(v6.sent) = {}
  BY <1>2, ListsAre
<1>4. Grid!GridTypeOK
  BY <1>1, <1>2 DEF Grid!GridTypeOK, Saves, Drags
<1>5. Grid!OneThing /\ Grid!CacheAgrees /\ Grid!RowsAgree
  BY <1>2, Nones DEF Grid!OneThing, Grid!CacheAgrees, Grid!RowsAgree
<1> QED
  BY <1>3, <1>4, <1>5 DEF Grid!TableFits, Grid!SavesFit

\* What is said of a table, part by part.
LEMMA TableIs ==
  ASSUME Grid!TableFits
  PROVE  /\ v1 \in ListsOf(Grid!ToSet(v1), Len(v1)) /\ v2 \in ListsOf(Grid!ToSet(v2), Len(v2))
         /\ v6.sent \in ListsOf(Grid!ToSet(v6.sent), Len(v6.sent))
         /\ v6 \in Saves /\ v7 \in Drags /\ v8 \subseteq Section /\ v13 \in BOOLEAN
         /\ v6 # Grid!NoSave => v6.of # Grid!None /\ v6.step # Grid!None
         /\ Grid!ToSet(v1) \subseteq v9 /\ Grid!ToSet(v6.sent) \subseteq v9
         /\ Grid!ToSet(v1) \subseteq Section /\ Grid!ToSet(v2) \subseteq Section
         /\ v4 \subseteq v9 /\ v5 \in v9 \cup {Grid!None} /\ v4 \subseteq Section
         /\ v5 \in Section \cup {Grid!None} /\ v3 \in Section \cup {Grid!None}
         /\ v10 \subseteq v9 /\ v12 \subseteq Troubles
         /\ v12 \subseteq {"cut"} => Grid!OneThing /\ Grid!CacheAgrees
         /\ v12 = {} => Grid!OneThing /\ Grid!CacheAgrees /\ Grid!RowsAgree
<1>1. /\ v1 \in Seq(Section) /\ Grid!IsInjective(v1) /\ v2 \in Seq(Section) /\ Grid!IsInjective(v2)
      /\ v6 \in Saves /\ v7 \in Drags /\ v8 \subseteq Section /\ v13 \in BOOLEAN
      /\ v3 \in Section \cup {Grid!None} /\ v4 \subseteq Section /\ v5 \in Section \cup {Grid!None}
      /\ v10 \subseteq v9 /\ v12 \subseteq Troubles
  BY DEF Grid!TableFits, Grid!GridTypeOK, Saves, Drags, Troubles
<1>2. v6.sent \in Seq(Section)
  BY <1>1 DEF Saves
<1>3. /\ v1 \in ListsOf(Grid!ToSet(v1), Len(v1)) /\ v2 \in ListsOf(Grid!ToSet(v2), Len(v2))
      /\ v6.sent \in ListsOf(Grid!ToSet(v6.sent), Len(v6.sent))
  BY <1>1, <1>2, ListsAre DEF Grid!TableFits
<1>4. Grid!ToSet(v1) \subseteq Section /\ Grid!ToSet(v2) \subseteq Section /\ Grid!ToSet(v6.sent) \subseteq Section
  BY <1>3, ListsOfFacts
<1>5. Grid!ToSet(v1) \cup Grid!ToSet(v6.sent) \cup v4 \cup {v5} \subseteq v9 \cup {Grid!None}
  BY DEF Grid!TableFits
<1>6. Grid!ToSet(v1) \subseteq v9 /\ Grid!ToSet(v6.sent) \subseteq v9 /\ v4 \subseteq v9 /\ v5 \in v9 \cup {Grid!None}
  BY <1>1, <1>4, <1>5, Nones
<1>7. v6 # Grid!NoSave => v6.of # Grid!None /\ v6.step # Grid!None
  BY DEF Grid!TableFits, Grid!SavesFit
<1>8. /\ v12 \subseteq {"cut"} => Grid!OneThing /\ Grid!CacheAgrees
      /\ v12 = {} => Grid!OneThing /\ Grid!CacheAgrees /\ Grid!RowsAgree
  BY DEF Grid!TableFits
<1> QED
  BY <1>1, <1>3, <1>4, <1>6, <1>7, <1>8

\* What a step must see to.
LEMMA TableWill ==
  ASSUME NEW S, NEW n, v1' \in ListsOf(S, n), S \subseteq v9',
         NEW R, NEW m, v2' \in ListsOf(R, m),
         NEW T, NEW k, v6'.sent \in ListsOf(T, k), T \subseteq v9',
         v6' \in Saves, v6' = Grid!NoSave \/ (v6'.of # Grid!None /\ v6'.step # Grid!None),
         v7' \in Drags, v8' \subseteq Section, v13' \in BOOLEAN,
         v4' \subseteq v9' \cap Section, v5' \in (v9' \cap Section) \cup {Grid!None},
         v3' \in Section \cup {Grid!None}, v10' \subseteq v9', v12' \subseteq Troubles,
         TableAgrees'
  PROVE  Grid!TableFits'
<1>1. /\ v1' \in Seq(Section) /\ Grid!IsInjective(v1)' /\ Grid!ToSet(v1)' = S
      /\ v2' \in Seq(Section) /\ Grid!IsInjective(v2)'
      /\ Grid!IsInjective(v6.sent)' /\ Grid!ToSet(v6.sent)' = T
  BY ListsAre
<1>2. Grid!GridTypeOK'
  BY <1>1 DEF Grid!GridTypeOK, Saves, Drags, Troubles
<1>3. Grid!SavesFit'
  BY DEF Grid!SavesFit
<1> QED
  BY <1>1, <1>2, <1>3 DEF Grid!TableFits, TableAgrees

\* The section that was added, last, is not one of those before it.
LEMMA LastIsNew ==
  ASSUME NEW S, NEW n, NEW a \in ListsOf(S, n), NEW x \in Section,
         NEW T, NEW m, Append(a, x) \in ListsOf(T, m)
  PROVE  x \notin S /\ T = S \cup {x}
<1> DEFINE c == Append(a, x)
<1>0. c \in ListsOf(T, m)
  OBVIOUS
<1>1. /\ n \in Nat /\ a \in Seq(Section) /\ Len(a) = n
      /\ \A k \in 1..n : a[k] \in S
      /\ \A y \in S : \E k \in 1..n : a[k] = y
  BY ListsOfFacts
<1>2. Len(c) = n + 1 /\ c[n + 1] = x /\ \A k \in 1..n : c[k] = a[k]
  BY <1>1
<1> HIDE DEF c
<1>3. /\ m \in Nat /\ Len(c) = m /\ \A k \in 1..m : c[k] \in T
      /\ \A i, j \in 1..m : c[i] = c[j] => i = j
      /\ \A y \in T : \E k \in 1..m : c[k] = y
  BY ONLY <1>0, ListsOfFacts
<1>4. m = n + 1 /\ n + 1 \in 1..m /\ \A k \in 1..n : k \in 1..m /\ k # n + 1
  BY <1>1, <1>2, <1>3
<1>5. \A k \in 1..m : k = n + 1 \/ k \in 1..n
  BY <1>1, <1>4
<1>6. x \notin S
  BY <1>1, <1>2, <1>3, <1>4
<1>7. T \subseteq S \cup {x}
  BY <1>1, <1>2, <1>3, <1>5
<1>8. S \cup {x} \subseteq T
  BY <1>1, <1>2, <1>3, <1>4
<1> QED
  BY <1>6, <1>7, <1>8

\* Only what is dragged changes.
LEMMA TableKept ==
  ASSUME Grid!TableFits, UNCHANGED <<v1, v2, v3, v4, v5, v6, v8, v9, v10, v12, v13>>, v7' \in Drags
  PROVE  Grid!TableFits'
<1>1. TableAgrees'
  BY TableIs DEF TableAgrees, Grid!OneThing, Grid!CacheAgrees, Grid!RowsAgree
<1> QED
  BY <1>1, TableIs, TableWill

LEMMA GridDragged ==
  ASSUME Grid!TableFits,
         NEW s \in Section, NEW t \in Section, NEW below \in BOOLEAN,
         Grid!HandleDragStart(s) \/ Grid!HandleDragOver(t, below) \/ Grid!HandleTouchMove(s, t, below)
  PROVE  Grid!TableFits'
<1>1. v7 \in Drags
  BY TableIs
<1>2. /\ [v7 EXCEPT !.node = s] \in Drags /\ [v7 EXCEPT !.target = t, !.below = below] \in Drags
      /\ [node |-> s, target |-> t, below |-> below] \in Drags
  BY ONLY <1>1, s \in Section, t \in Section, below \in BOOLEAN DEF Drags
<1>3. v7' \in Drags /\ UNCHANGED <<v1, v2, v3, v4, v5, v6, v8, v9, v10, v12, v13>>
  BY <1>2 DEF Grid!HandleDragStart, Grid!HandleDragOver, Grid!HandleTouchMove, Grid!cacheVars
<1> QED
  BY <1>3, TableKept

\* A row goes where it is dropped, and its section too.
LEMMA GridReordered ==
  ASSUME Grid!TableFits, Grid!Reorder
  PROVE  Grid!TableFits'
<1> DEFINE s == v7.node
           t == v7.target
           b == v7.below
<1>1. /\ {s, t} \subseteq Grid!ToSet(v2) /\ v2' = Grid!RowMoved(v2, s, t, b)
      /\ v1' = (IF v13 THEN Grid!Moved(v1, s, t, b) ELSE v1)
      /\ v7' = Grid!NoDrag /\ UNCHANGED <<v3, v4, v5, v6, v8, v9, v10, v13>>
      /\ v12' = IF v6 # Grid!NoSave THEN v12 \cup {"crossed"} ELSE v12
  BY DEF Grid!Reorder, Grid!Troubled
<1>2. b \in BOOLEAN /\ v12 \subseteq Troubles
  BY TableIs DEF Drags
<1> HIDE DEF s, t, b
<1>3. v1' \in ListsOf(Grid!ToSet(v1), Len(v1))
  BY <1>1, <1>2, TableIs, MovedFacts
<1>4. v2' \in ListsOf(Grid!ToSet(v2), Len(v2))
  <2>1. s # t => Grid!Placed(v2, s, t, b) \in ListsOf(Grid!ToSet(v2), Len(v2))
    BY <1>1, <1>2, TableIs, PlacedFacts DEF IsPlaced
  <2> QED
    BY <1>1, <2>1, TableIs DEF Grid!RowMoved
<1>5. Grid!ToSet(v1') = Grid!ToSet(v1) /\ Grid!ToSet(v2') = Grid!ToSet(v2)
  BY <1>3, <1>4, ListsAre
<1>6. v12' \subseteq Troubles /\ (v12' \subseteq {"cut"} => v12' = v12 /\ v6 = Grid!NoSave)
  BY <1>1, <1>2 DEF Troubles
<1>7. ASSUME v12' \subseteq {"cut"}
      PROVE  Grid!OneThing' /\ Grid!CacheAgrees' /\ v13 /\ v6.of = Grid!None /\ v6.step = Grid!None
  <2>1. Grid!OneThing /\ Grid!CacheAgrees /\ v6 = Grid!NoSave /\ v6.of = Grid!None /\ v6.step = Grid!None
    BY <1>6, <1>7, TableIs, Nones
  <2> QED
    BY <1>1, <1>5, <2>1, Nones DEF Grid!OneThing, Grid!CacheAgrees
<1>8. ASSUME v12' = {}
      PROVE  Grid!RowsAgree'
  <2>1. /\ Grid!RowsAgree /\ v13 /\ v6.of = Grid!None /\ v6.step = Grid!None
        /\ v1' = Grid!Moved(v1, s, t, b)
    BY <1>1, <1>6, <1>7, <1>8, TableIs
  <2>2. \/ v2 = v1 /\ v8 = {}
        \/ v3 # Grid!None /\ v1 = Append(v2, v3)
    BY <2>1, Nones DEF Grid!RowsAgree
  <2>3. CASE v2 = v1 /\ v8 = {}
    <3>1. v2' = v1'
      BY <1>1, <2>1, <2>3 DEF Grid!RowMoved, Grid!Moved
    <3> QED
      BY <1>1, <2>1, <2>3, <3>1, Nones DEF Grid!RowsAgree
  <2>4. CASE v3 # Grid!None /\ v1 = Append(v2, v3)
    <3>1. v3 \in Section /\ v3 \notin Grid!ToSet(v2)
      BY <2>4, TableIs, LastIsNew
    <3>2. StaysLast(v2, v3, s, t, b)
      BY <1>1, <1>2, <3>1, TableIs, PlacedAppended
    <3>3. Grid!Moved(v2, s, t, b) = Grid!RowMoved(v2, s, t, b)
      BY <1>1 DEF Grid!RowMoved, Grid!Moved
    <3>4. v1' = Append(v2', v3)
      BY <1>1, <2>1, <2>4, <3>2, <3>3 DEF StaysLast
    <3> QED
      BY <1>1, <2>1, <2>4, <3>4, Nones DEF Grid!RowsAgree
  <2> QED
    BY <2>2, <2>3, <2>4
<1>9. TableAgrees'
  BY <1>7, <1>8 DEF TableAgrees
<1>10. /\ v6'.sent \in ListsOf(Grid!ToSet(v6.sent), Len(v6.sent)) /\ Grid!ToSet(v6.sent) \subseteq v9'
       /\ Grid!ToSet(v1) \subseteq v9' /\ v6' \in Saves /\ v7' \in Drags /\ v8' \subseteq Section /\ v13' \in BOOLEAN
       /\ v6' = Grid!NoSave \/ (v6'.of # Grid!None /\ v6'.step # Grid!None)
       /\ v4' \subseteq v9' \cap Section /\ v5' \in (v9' \cap Section) \cup {Grid!None}
       /\ v3' \in Section \cup {Grid!None} /\ v10' \subseteq v9'
  BY <1>1, TableIs, Nones
<1> QED
  BY ONLY <1>3, <1>4, <1>6, <1>9, <1>10, TableWill

\* The page is saved: what it then has is what is wanted of it.
LEMMA GridSaved ==
  ASSUME Grid!TableFits, NEW S, NEW n, NEW new \in ListsOf(S, n), Grid!SavePage(new),
         S \subseteq v9', v9 \subseteq v9', v10' \subseteq v9',
         v13 /\ Grid!ToSet(v1) = v10 => S = v10'
  PROVE  Grid!TableFits'
<1>1. /\ v5 = Grid!None /\ v6 = Grid!NoSave /\ v1' = new
      /\ v6' = [of |-> "page", step |-> "sent", sent |-> new]
      /\ UNCHANGED <<v2, v3, v4, v5, v7, v8, v13>>
      /\ v12' = IF v4 # {} THEN v12 \cup {"crossed"} ELSE v12
  BY DEF Grid!SavePage, Grid!Troubled
<1>2. new \in Seq(Section) /\ Grid!ToSet(new) = S /\ v12 \subseteq Troubles
  BY TableIs, ListsAre
<1>3. v6' \in Saves /\ v6'.of = "page" /\ v6'.step = "sent" /\ v6'.sent = new
  BY ONLY <1>1, <1>2 DEF Saves
<1>4. v12' \subseteq Troubles /\ (v12' \subseteq {"cut"} => v12 = v12' /\ v4 = {})
  BY <1>1, <1>2 DEF Troubles
<1>5. ASSUME v12' \subseteq {"cut"}
      PROVE  Grid!OneThing' /\ Grid!CacheAgrees' /\ v3 = Grid!None
  <2>1. Grid!OneThing /\ Grid!CacheAgrees /\ v4 = {}
    BY <1>4, <1>5, TableIs
  <2>2. v3 = Grid!None
    BY <1>1, <2>1 DEF Grid!OneThing
  <2>3. v8 = {} /\ v13
    BY <2>1, <2>2, TableIs, Nones DEF Grid!CacheAgrees
  <2>4. S = v10'
    BY <2>1, <2>3 DEF Grid!CacheAgrees
  <2>5. Grid!OneThing'
    BY <1>1, <1>3, <2>1, <2>2, Nones DEF Grid!OneThing
  <2>6. Grid!CacheAgrees'
    BY <1>1, <1>2, <1>3, <2>2, <2>3, <2>4 DEF Grid!CacheAgrees
  <2> QED
    BY <2>2, <2>5, <2>6
<1>6. ASSUME v12' = {}
      PROVE  Grid!RowsAgree'
  BY <1>1, <1>3, <1>5, <1>6 DEF Grid!RowsAgree
<1>7. TableAgrees'
  BY <1>5, <1>6 DEF TableAgrees
<1>8. /\ v1' \in ListsOf(S, n) /\ v2' \in ListsOf(Grid!ToSet(v2), Len(v2)) /\ v6'.sent \in ListsOf(S, n)
      /\ v7' \in Drags /\ v8' \subseteq Section /\ v13' \in BOOLEAN
      /\ v6' = Grid!NoSave \/ (v6'.of # Grid!None /\ v6'.step # Grid!None)
      /\ v4' \subseteq v9' \cap Section /\ v5' \in (v9' \cap Section) \cup {Grid!None}
      /\ v3' \in Section \cup {Grid!None}
  BY <1>1, <1>3, TableIs, Nones
<1> QED
  BY ONLY S \subseteq v9', v10' \subseteq v9', <1>3, <1>4, <1>7, <1>8, TableWill

LEMMA GridRemoved ==
  ASSUME Grid!TableFits, NEW s \in Section, Grid!HandleRemove(s)
  PROVE  Grid!TableFits'
<1> DEFINE S == Grid!ToSet(v1)
           new == IF v13 THEN Grid!Without(v1, s) ELSE v1
<1>1. s \in Grid!ToSet(v2) /\ Grid!SavePage(new) /\ v10' = v10 \ {s} /\ v9' = v9
  BY DEF Grid!HandleRemove
<1>2. v1 \in ListsOf(S, Len(v1)) /\ S \subseteq v9 /\ v10 \subseteq v9
  BY TableIs
<1>3. CASE v13 /\ s \in S
  <2>1. new \in ListsOf(S \ {s}, Len(v1) - 1)
    BY <1>2, <1>3, WithoutFacts
  <2>2. v13 /\ Grid!ToSet(v1) = v10 => S \ {s} = v10'
    BY <1>1
  <2> QED
    BY <1>1, <1>2, <2>1, <2>2, GridSaved
<1>4. CASE ~(v13 /\ s \in S)
  <2>1. new \in ListsOf(S, Len(v1))
    BY <1>2, <1>4, WithoutFacts
  <2>2. v13 /\ Grid!ToSet(v1) = v10 => S = v10'
    BY <1>1, <1>4
  <2> QED
    BY <1>1, <1>2, <2>1, <2>2, GridSaved
<1> QED
  BY <1>3, <1>4

LEMMA GridCloned ==
  ASSUME Grid!TableFits, NEW s \in Section, NEW new \in Section, NEW next \in BOOLEAN,
         Grid!HandleClone(s, new, next)
  PROVE  Grid!TableFits'
<1> DEFINE S == Grid!ToSet(v1)
           T == S \cup {new}
           n == Len(v1)
           c == Append(v1, new)
           d == IF next THEN Grid!Placed(c, new, s, TRUE) ELSE c
<1>1. s \in S /\ new \notin v9 /\ Grid!SavePage(d) /\ v10' = v10 \cup {new} /\ v9' = v9 \cup {new}
  BY DEF Grid!HandleClone
<1>2. v1 \in ListsOf(S, n) /\ S \subseteq v9 /\ v10 \subseteq v9
  BY TableIs
<1>3. c \in ListsOf(T, n + 1)
  <2>1. WithLast(S, n, v1, new, Append(v1, new))
    BY <1>1, <1>2, AppendedFacts
  <2> QED
    BY ONLY <2>1 DEF WithLast, c, T
<1>4. Grid!Placed(c, new, s, TRUE) \in ListsOf(T, n + 1)
  <2>1. new # s /\ new \in T /\ s \in T
    BY <1>1, <1>2
  <2> HIDE DEF T, c
  <2>2. IsPlaced(T, n + 1, c, new, s, TRUE)
    BY <1>3, <2>1, PlacedFacts
  <2> QED
    BY <2>2 DEF IsPlaced
<1>5. d \in ListsOf(T, n + 1)
  BY <1>3, <1>4
<1>6. v13 /\ Grid!ToSet(v1) = v10 => T = v10'
  BY <1>1
<1>7. T \subseteq v9' /\ v9 \subseteq v9' /\ v10' \subseteq v9'
  BY <1>1, <1>2
<1> HIDE DEF d, T
<1> QED
  BY <1>1, <1>5, <1>6, <1>7, GridSaved

\* What was sent is on the device, and what was added has got its name.
LEMMA GridWritten ==
  ASSUME Grid!TableFits, Grid!SaveServed \/ Grid!SaveUnread
  PROVE  Grid!TableFits'
<1> DEFINE S == Grid!ToSet(v6.sent)
           n == Len(v6.sent)
<1>1. /\ v6.step = "sent" /\ v1' = v6.sent /\ v8' = {} /\ UNCHANGED <<v2, v3, v4, v5, v7, v9>>
      /\ v10' = IF v6.of = "dialog" THEN v10 \cup ({v5} \ {Grid!None}) ELSE v10
      /\ \/ v13' = TRUE /\ v6' = [v6 EXCEPT !.step = "served"] /\ v12' = v12
         \/ v13' = FALSE /\ v6' = Grid!NoSave /\ v12' = v12 \cup {"unread"}
  BY DEF Grid!SaveServed, Grid!SaveUnread, Grid!Written, Grid!Troubled
<1>2. v6.sent \in ListsOf(S, n) /\ S \subseteq v9
  BY TableIs
<1>3. /\ v6 # Grid!NoSave /\ v6 \in Saves /\ v6.of # Grid!None
      /\ LET w == [v6 EXCEPT !.step = "served"]
         IN  w \in Saves /\ w.of = v6.of /\ w.sent = v6.sent /\ w.step = "served"
  <2>1. v6 # Grid!NoSave /\ v6 \in Saves /\ v6.of # Grid!None
    BY <1>1, TableIs, Nones
  <2> QED
    BY <2>1 DEF Saves
<1>4. v12' \subseteq Troubles /\ (v12' \subseteq {"cut"} => v12 = v12' /\ v13' /\ v6' = [v6 EXCEPT !.step = "served"])
  BY <1>1, TableIs DEF Troubles
<1>5. ASSUME v12' \subseteq {"cut"}
      PROVE  Grid!OneThing' /\ Grid!CacheAgrees'
  <2>1. /\ Grid!OneThing /\ Grid!CacheAgrees /\ v13'
        /\ v6'.of = v6.of /\ v6'.sent = v6.sent /\ v6'.step = "served"
    BY <1>3, <1>4, <1>5, TableIs
  <2>2. v4 = {} /\ v6.sent = v1 /\ (v3 # Grid!None => v5 = v3) /\ v5 \in v10 \cup {v3, Grid!None}
    BY <1>3, <2>1 DEF Grid!OneThing
  <2>3. Grid!ToSet(v1) = v10 \cup v8 /\ v8 \subseteq {v3} /\ v3 \in v10 \cup v8 \cup {Grid!None}
    BY <2>1 DEF Grid!CacheAgrees
  <2>4. v6.of = "dialog" => v5 # Grid!None
    BY <2>1 DEF Grid!OneThing
  <2>5. v6.of # "dialog" => v5 = Grid!None /\ v6.of = "page"
    BY <1>3, <2>1 DEF Grid!OneThing, Saves
  <2>6. v10' = v10 \cup ({v5} \ {Grid!None})
    BY <1>1, <2>5
  <2>7. Grid!None \notin v8
    BY TableIs, Nones
  <2>8. Grid!ToSet(v1) = v10' /\ v3 \in v10' \cup {Grid!None} /\ v5 \in v10' \cup {Grid!None}
    BY <2>2, <2>3, <2>6, <2>7
  <2>9. Grid!OneThing'
    BY <1>1, <2>1, <2>2, <2>4, <2>5, <2>8 DEF Grid!OneThing
  <2>10. Grid!CacheAgrees'
    BY <1>1, <2>1, <2>2, <2>8 DEF Grid!CacheAgrees
  <2> QED
    BY <2>9, <2>10
<1>6. ASSUME v12' = {}
      PROVE  Grid!RowsAgree'
  <2>1. /\ Grid!RowsAgree /\ Grid!OneThing
        /\ v6'.of = v6.of /\ v6'.step = "served"
    BY <1>3, <1>4, <1>6, TableIs
  <2>2. v1' = v1
    BY <1>1, <1>3, <2>1 DEF Grid!OneThing
  <2> QED
    BY <1>1, <2>1, <2>2 DEF Grid!RowsAgree
<1>7. TableAgrees'
  BY <1>5, <1>6 DEF TableAgrees
<1>8. PICK T, k : v6'.sent \in ListsOf(T, k) /\ T \subseteq v9'
  <2>1. v6'.sent = v6.sent \/ v6'.sent = Grid!NoSave.sent
    BY <1>1, <1>3
  <2>2. Grid!NoSave.sent \in ListsOf({}, 0) /\ {} \subseteq v9'
    BY Nones
  <2>3. S \subseteq v9'
    BY <1>1, <1>2
  <2> QED
    BY ONLY <1>2, <2>1, <2>2, <2>3
<1>9. /\ v1' \in ListsOf(S, n) /\ S \subseteq v9' /\ v2' \in ListsOf(Grid!ToSet(v2), Len(v2))
      /\ v6' \in Saves /\ (v6' = Grid!NoSave \/ (v6'.of # Grid!None /\ v6'.step # Grid!None))
      /\ v7' \in Drags /\ v8' \subseteq Section /\ v13' \in BOOLEAN
      /\ v4' \subseteq v9' \cap Section /\ v5' \in (v9' \cap Section) \cup {Grid!None}
      /\ v3' \in Section \cup {Grid!None}
  BY <1>1, <1>2, <1>3, TableIs, Nones
<1>10. v10' \subseteq v9'
  BY <1>1, TableIs
<1> QED
  BY ONLY <1>4, <1>7, <1>8, <1>9, <1>10, TableWill

\* A save that failed, or was cut off after it was written.
LEMMA GridRefused ==
  ASSUME Grid!TableFits, Grid!SaveRefused \/ Grid!SaveCut
  PROVE  Grid!TableFits'
<1>1. /\ v6' = Grid!NoSave /\ UNCHANGED <<v1, v2, v3, v4, v5, v7, v8, v9, v10, v13>>
      /\ \/ v6.step = "sent" /\ v12' = IF v6.of = "page" THEN v12 \cup {"refused"} ELSE v12
         \/ v12' = v12 \cup {"cut"}
  BY DEF Grid!SaveRefused, Grid!SaveCut, Grid!Troubled, Grid!cacheVars
<1>2. /\ v12' \subseteq Troubles /\ (v12' \subseteq {"cut"} => v12 \subseteq {"cut"})
      /\ v12' = {} => v12 = {} /\ v6.step = "sent" /\ v6.of # "page"
  BY <1>1, TableIs DEF Troubles
<1>3. ASSUME v12' \subseteq {"cut"}
      PROVE  Grid!OneThing' /\ Grid!CacheAgrees'
  BY <1>1, <1>2, <1>3, TableIs, Nones DEF Grid!OneThing, Grid!CacheAgrees
<1>4. ASSUME v12' = {}
      PROVE  Grid!RowsAgree'
  BY <1>1, <1>2, <1>4, TableIs, Nones DEF Grid!RowsAgree
<1>5. TableAgrees'
  BY <1>3, <1>4 DEF TableAgrees
<1>6. /\ v1' \in ListsOf(Grid!ToSet(v1), Len(v1)) /\ v2' \in ListsOf(Grid!ToSet(v2), Len(v2))
      /\ v6'.sent \in ListsOf({}, 0) /\ {} \subseteq v9' /\ Grid!ToSet(v1) \subseteq v9'
      /\ v6' \in Saves /\ v6' = Grid!NoSave /\ v7' \in Drags /\ v8' \subseteq Section /\ v13' \in BOOLEAN
      /\ v4' \subseteq v9' \cap Section /\ v5' \in (v9' \cap Section) \cup {Grid!None}
      /\ v3' \in Section \cup {Grid!None} /\ v10' \subseteq v9'
  BY <1>1, TableIs, Nones
<1> QED
  BY ONLY <1>2, <1>5, <1>6, TableWill

\* The rows are drawn again.
LEMMA GridRedrawn ==
  ASSUME Grid!TableFits, Grid!Redraw
  PROVE  Grid!TableFits'
<1> DEFINE S == Grid!ToSet(v1)
           n == Len(v1)
<1>1. /\ v6.step = "served" /\ v2' = v1 /\ v7' = Grid!NoDrag
      /\ v6' = (IF v6.of = "page" THEN Grid!NoSave ELSE [v6 EXCEPT !.step = "drawn"])
      /\ UNCHANGED <<v1, v3, v4, v5, v8, v9, v10, v12, v13>>
  BY DEF Grid!Redraw, Grid!cacheVars
<1>2. /\ v6 # Grid!NoSave /\ v6 \in Saves /\ v6.of # Grid!None
      /\ LET w == [v6 EXCEPT !.step = "drawn"]
         IN  w \in Saves /\ w.of = v6.of /\ w.sent = v6.sent /\ w.step = "drawn"
  <2>1. v6 # Grid!NoSave /\ v6 \in Saves /\ v6.of # Grid!None
    BY <1>1, TableIs, Nones
  <2> QED
    BY <2>1 DEF Saves
<1>3. ASSUME v12' \subseteq {"cut"}
      PROVE  Grid!OneThing' /\ Grid!CacheAgrees' /\ v8 = {} /\ (v6.of = "page" => v3 = Grid!None)
  <2>1. Grid!OneThing /\ Grid!CacheAgrees
    BY <1>1, <1>3, TableIs
  <2>2. v4 = {} /\ v8 = {} /\ (v6.of = "page" => v3 = Grid!None)
    BY <1>1, <1>2, <2>1 DEF Grid!OneThing, Grid!CacheAgrees
  <2>3. Grid!OneThing'
    BY <1>1, <1>2, <2>1, Nones DEF Grid!OneThing
  <2>4. Grid!CacheAgrees'
    BY <1>1, <2>1, <2>2 DEF Grid!CacheAgrees
  <2> QED
    BY <2>2, <2>3, <2>4
<1>4. ASSUME v12' = {}
      PROVE  Grid!RowsAgree'
  <2>1. v8 = {} /\ (v6.of = "page" => v3 = Grid!None)
    BY <1>3, <1>4
  <2> QED
    BY <1>1, <1>2, <2>1, Nones DEF Grid!RowsAgree
<1>5. TableAgrees'
  BY <1>3, <1>4 DEF TableAgrees
<1>6. PICK T, k : v6'.sent \in ListsOf(T, k) /\ T \subseteq v9'
  BY <1>1, <1>2, TableIs, Nones
<1>7. /\ v1' \in ListsOf(S, n) /\ S \subseteq v9' /\ v2' \in ListsOf(S, n)
      /\ v6' \in Saves /\ (v6' = Grid!NoSave \/ (v6'.of # Grid!None /\ v6'.step # Grid!None))
      /\ v7' \in Drags /\ v8' \subseteq Section /\ v13' \in BOOLEAN
      /\ v4' \subseteq v9' \cap Section /\ v5' \in (v9' \cap Section) \cup {Grid!None}
      /\ v3' \in Section \cup {Grid!None} /\ v10' \subseteq v9' /\ v12' \subseteq Troubles
  BY <1>1, <1>2, TableIs, Nones
<1> QED
  BY ONLY <1>5, <1>6, <1>7, TableWill

-----------------------------------------------------------------------------
(* Dialogs                                                                 *)

\* What no dialog changes.
LEMMA TableRest ==
  ASSUME Grid!TableFits
  PROVE  /\ v2 \in ListsOf(Grid!ToSet(v2), Len(v2)) /\ v6 \in Saves /\ v7 \in Drags
         /\ v6.sent \in ListsOf(Grid!ToSet(v6.sent), Len(v6.sent)) /\ Grid!ToSet(v6.sent) \subseteq v9
         /\ v6 = Grid!NoSave \/ (v6.of # Grid!None /\ v6.step # Grid!None)
         /\ v13 \in BOOLEAN
BY TableIs

\* A section is added, and its dialog is built.
LEMMA GridAdded ==
  ASSUME Grid!TableFits, NEW s \in Section, Grid!HandleAdd(s)
  PROVE  Grid!TableFits'
<1> DEFINE S == Grid!ToSet(v1)
           n == Len(v1)
<1>1. /\ s \notin v9 /\ v1' = Append(v1, s) /\ v8' = v8 \cup {s} /\ v3' = s /\ v9' = v9 \cup {s}
      /\ v4' = v4 \cup {s} /\ v5 = Grid!None /\ UNCHANGED <<v2, v5, v6, v7, v10, v13>>
      /\ v12' = IF Grid!Busy THEN v12 \cup {"crossed"} ELSE v12
  BY DEF Grid!HandleAdd, Grid!RenderMoreOptionsModal, Grid!Troubled
<1>2. v1' \in ListsOf(S \cup {s}, n + 1) /\ S \subseteq v9 /\ v10 \subseteq v9 /\ s \notin S
  <2>1. v1 \in ListsOf(S, n) /\ S \subseteq v9 /\ v10 \subseteq v9 /\ s \notin S
    BY <1>1, TableIs
  <2>2. WithLast(S, n, v1, s, Append(v1, s))
    BY <2>1, AppendedFacts
  <2> QED
    BY <1>1, <2>1, <2>2 DEF WithLast
<1>3. v12' \subseteq Troubles /\ (v12' \subseteq {"cut"} => v12 = v12' /\ ~Grid!Busy)
  BY <1>1, TableIs DEF Troubles
<1>4. ASSUME v12' \subseteq {"cut"}
      PROVE  /\ Grid!OneThing' /\ Grid!CacheAgrees'
             /\ v3 = Grid!None /\ v8 = {} /\ s # Grid!None /\ v6.of = Grid!None /\ v6.step = Grid!None
  <2>1. /\ Grid!OneThing /\ Grid!CacheAgrees
        /\ v4 = {} /\ v6 = Grid!NoSave /\ v6.of = Grid!None /\ v6.step = Grid!None
    BY <1>3, <1>4, TableIs, Nones DEF Grid!Busy
  <2>2. v3 = Grid!None
    BY <1>1, <2>1 DEF Grid!OneThing
  <2>3. s # Grid!None /\ v8 = {}
    BY <2>1, <2>2, TableIs, Nones DEF Grid!CacheAgrees
  <2>4. Grid!OneThing'
    BY <1>1, <2>1, <2>3, Nones DEF Grid!OneThing
  <2>5. Grid!ToSet(v1') = S \cup {s}
    BY <1>2, ListsAre
  <2>6. v8' = {s} /\ v13' /\ S = v10 /\ s \notin v10
    BY <1>1, <1>2, <2>1, <2>3 DEF Grid!CacheAgrees
  <2>7. Grid!CacheAgrees'
    BY <1>1, <2>1, <2>5, <2>6, Nones DEF Grid!CacheAgrees
  <2> QED
    BY <2>1, <2>2, <2>3, <2>4, <2>7
<1>5. ASSUME v12' = {}
      PROVE  Grid!RowsAgree'
  <2>1. /\ Grid!RowsAgree /\ v3 = Grid!None /\ v8 = {} /\ s # Grid!None
        /\ v6.of = Grid!None /\ v6.step = Grid!None
    BY <1>3, <1>4, <1>5, TableIs
  <2>2. v2 = v1
    BY <2>1, Nones DEF Grid!RowsAgree
  <2> QED
    BY <1>1, <2>1, <2>2, Nones DEF Grid!RowsAgree
<1>6. TableAgrees'
  BY <1>4, <1>5 DEF TableAgrees
<1>7. /\ S \cup {s} \subseteq v9' /\ v2' \in ListsOf(Grid!ToSet(v2), Len(v2))
      /\ v6'.sent \in ListsOf(Grid!ToSet(v6.sent), Len(v6.sent)) /\ Grid!ToSet(v6.sent) \subseteq v9'
      /\ v6' \in Saves /\ (v6' = Grid!NoSave \/ (v6'.of # Grid!None /\ v6'.step # Grid!None))
      /\ v7' \in Drags /\ v13' \in BOOLEAN
  BY <1>1, <1>2, TableRest
<1>8. /\ v8' \subseteq Section
      /\ v4' \subseteq v9' \cap Section /\ v5' \in (v9' \cap Section) \cup {Grid!None}
      /\ v3' \in Section \cup {Grid!None} /\ v10' \subseteq v9'
  BY <1>1, <1>2, TableIs
<1> QED
  BY ONLY <1>2, <1>3, <1>6, <1>7, <1>8, TableWill

\* The dialog of a section is built.
LEMMA GridEdited ==
  ASSUME Grid!TableFits, NEW s \in Section, Grid!HandleEdit(s)
  PROVE  Grid!TableFits'
<1>1. /\ s \in Grid!ToSet(v2) /\ s \in Grid!ToSet(v1) /\ v4' = v4 \cup {s}
      /\ v5 = Grid!None /\ UNCHANGED <<v1, v2, v3, v5, v6, v7, v8, v9, v10, v13>>
      /\ v12' = IF Grid!Busy THEN v12 \cup {"crossed"} ELSE v12
  BY DEF Grid!HandleEdit, Grid!RenderMoreOptionsModal, Grid!Troubled
<1>2. v12' \subseteq Troubles /\ (v12' \subseteq {"cut"} => v12 = v12' /\ ~Grid!Busy)
  BY <1>1, TableIs DEF Troubles
<1>3. ASSUME v12' \subseteq {"cut"}
      PROVE  Grid!OneThing' /\ Grid!CacheAgrees'
  <2>1. Grid!OneThing /\ Grid!CacheAgrees /\ v4 = {} /\ v6 = Grid!NoSave /\ v6.of = Grid!None
    BY <1>2, <1>3, TableIs, Nones DEF Grid!Busy
  <2>2. v3 = Grid!None
    BY <1>1, <2>1 DEF Grid!OneThing
  <2>3. s \in v10
    BY <1>1, <2>1, <2>2, TableIs, Nones DEF Grid!CacheAgrees
  <2>4. Grid!OneThing'
    BY <1>1, <2>1, <2>2, <2>3, Nones DEF Grid!OneThing
  <2>5. Grid!CacheAgrees'
    BY <1>1, <2>1 DEF Grid!CacheAgrees
  <2> QED
    BY <2>4, <2>5
<1>4. ASSUME v12' = {}
      PROVE  Grid!RowsAgree'
  BY <1>1, <1>2, <1>4, TableIs DEF Grid!RowsAgree
<1>5. TableAgrees'
  BY <1>3, <1>4 DEF TableAgrees
<1>6. /\ v1' \in ListsOf(Grid!ToSet(v1), Len(v1)) /\ Grid!ToSet(v1) \subseteq v9'
      /\ v4' \subseteq v9' \cap Section /\ v5' \in (v9' \cap Section) \cup {Grid!None}
      /\ v3' \in Section \cup {Grid!None} /\ v10' \subseteq v9' /\ v8' \subseteq Section
  BY <1>1, TableIs
<1>7. /\ v2' \in ListsOf(Grid!ToSet(v2), Len(v2))
      /\ v6'.sent \in ListsOf(Grid!ToSet(v6.sent), Len(v6.sent)) /\ Grid!ToSet(v6.sent) \subseteq v9'
      /\ v6' \in Saves /\ (v6' = Grid!NoSave \/ (v6'.of # Grid!None /\ v6'.step # Grid!None))
      /\ v7' \in Drags /\ v13' \in BOOLEAN
  BY <1>1, TableRest
<1> QED
  BY ONLY <1>2, <1>5, <1>6, <1>7, TableWill

\* A dialog is shown, or cannot be built.
LEMMA GridShown ==
  ASSUME Grid!TableFits, NEW s \in Section, Grid!ShowModal(s) \/ Grid!ModalFails(s)
  PROVE  Grid!TableFits'
<1>1. /\ s \in v4 /\ v4' = v4 \ {s} /\ UNCHANGED <<v1, v2, v3, v6, v7, v8, v9, v10, v13>>
      /\ \/ v5' = s /\ v12' = v12
         \/ v5' = v5 /\ v12' = v12 \cup {"refused"}
  BY DEF Grid!ShowModal, Grid!ModalFails, Grid!Troubled, Grid!cacheVars
<1>2. v12' \subseteq Troubles /\ (v12' \subseteq {"cut"} => v12 = v12' /\ v5' = s)
  BY <1>1, TableIs DEF Troubles
<1>3. ASSUME v12' \subseteq {"cut"}
      PROVE  Grid!OneThing' /\ Grid!CacheAgrees'
  <2>1. Grid!OneThing /\ Grid!CacheAgrees /\ v5' = s
    BY <1>2, <1>3, TableIs
  <2>2. /\ v4' = {} /\ v6 = Grid!NoSave /\ v6.of = Grid!None /\ v5 = Grid!None
        /\ s \in v10 \cup {v3} /\ s # Grid!None /\ (v3 # Grid!None => v3 = s)
    BY <1>1, <2>1, TableIs, Nones DEF Grid!OneThing
  <2>3. Grid!OneThing'
    BY <1>1, <2>1, <2>2, Nones DEF Grid!OneThing
  <2>4. Grid!CacheAgrees'
    BY <1>1, <2>1 DEF Grid!CacheAgrees
  <2> QED
    BY <2>3, <2>4
<1>4. ASSUME v12' = {}
      PROVE  Grid!RowsAgree'
  BY <1>1, <1>2, <1>4, TableIs DEF Grid!RowsAgree
<1>5. TableAgrees'
  BY <1>3, <1>4 DEF TableAgrees
<1>6. /\ v1' \in ListsOf(Grid!ToSet(v1), Len(v1)) /\ Grid!ToSet(v1) \subseteq v9'
      /\ v4' \subseteq v9' \cap Section /\ v5' \in (v9' \cap Section) \cup {Grid!None}
      /\ v3' \in Section \cup {Grid!None} /\ v10' \subseteq v9' /\ v8' \subseteq Section
  BY <1>1, TableIs
<1>7. /\ v2' \in ListsOf(Grid!ToSet(v2), Len(v2))
      /\ v6'.sent \in ListsOf(Grid!ToSet(v6.sent), Len(v6.sent)) /\ Grid!ToSet(v6.sent) \subseteq v9'
      /\ v6' \in Saves /\ (v6' = Grid!NoSave \/ (v6'.of # Grid!None /\ v6'.step # Grid!None))
      /\ v7' \in Drags /\ v13' \in BOOLEAN
  BY <1>1, TableRest
<1> QED
  BY ONLY <1>2, <1>5, <1>6, <1>7, TableWill

\* A dialog is dismissed, and the section that was added for it goes, if it has
\* not been saved.
LEMMA GridDismissed ==
  ASSUME Grid!TableFits, Grid!HandleModalCancel
  PROVE  Grid!TableFits'
<1>1. /\ v5 # Grid!None /\ v1' = (IF v3 \in v8 THEN Grid!Without(v1, v3) ELSE v1) /\ v8' = v8 \ {v3}
      /\ v3' = Grid!None /\ v5' = Grid!None /\ UNCHANGED <<v2, v4, v6, v7, v9, v10, v13>>
      /\ v12' = IF v6 # Grid!NoSave THEN v12 \cup {"crossed"} ELSE v12
  BY DEF Grid!HandleModalCancel, Grid!Troubled
<1>2. PICK S, n : /\ v1' \in ListsOf(S, n) /\ S \subseteq Grid!ToSet(v1)
                  /\ S = IF v3 \in v8 THEN Grid!ToSet(v1) \ {v3} ELSE Grid!ToSet(v1)
  <2>1. v1 \in ListsOf(Grid!ToSet(v1), Len(v1))
    BY TableIs
  <2>2. CASE v3 \in v8 /\ v3 \in Grid!ToSet(v1)
    <3>1. v1' \in ListsOf(Grid!ToSet(v1) \ {v3}, Len(v1) - 1)
      BY <1>1, <2>1, <2>2, WithoutFacts
    <3> QED
      BY <2>2, <3>1
  <2>3. CASE ~(v3 \in v8 /\ v3 \in Grid!ToSet(v1))
    <3>1. v1' = v1
      BY <1>1, <2>1, <2>3, WithoutFacts
    <3>2. v3 \in v8 => Grid!ToSet(v1) \ {v3} = Grid!ToSet(v1)
      BY <2>3
    <3> QED
      BY <2>1, <3>1, <3>2
  <2> QED
    BY <2>2, <2>3
<1>3. v12' \subseteq Troubles /\ (v12' \subseteq {"cut"} => v12 = v12' /\ v6 = Grid!NoSave)
  BY <1>1, TableIs DEF Troubles
<1>4. ASSUME v12' \subseteq {"cut"}
      PROVE  /\ Grid!OneThing' /\ Grid!CacheAgrees'
             /\ v8 \subseteq {v3} /\ v6.of = Grid!None /\ v6.step = Grid!None
  <2>1. /\ Grid!OneThing /\ Grid!CacheAgrees
        /\ v6 = Grid!NoSave /\ v6.of = Grid!None /\ v6.step = Grid!None
    BY <1>3, <1>4, TableIs, Nones
  <2>2. v4 = {}
    BY <1>1, <2>1 DEF Grid!OneThing
  <2>3. Grid!OneThing'
    BY <1>1, <2>1, <2>2, Nones DEF Grid!OneThing
  <2>4. Grid!ToSet(v1') = S
    BY <1>2, ListsAre
  <2>5. S = v10 /\ v8' = {} /\ v8 \subseteq {v3}
    BY <1>1, <1>2, <2>1 DEF Grid!CacheAgrees
  <2>6. Grid!CacheAgrees'
    BY <1>1, <2>1, <2>4, <2>5 DEF Grid!CacheAgrees
  <2> QED
    BY <2>1, <2>3, <2>5, <2>6
<1>5. ASSUME v12' = {}
      PROVE  Grid!RowsAgree'
  <2>1. Grid!RowsAgree /\ v8 \subseteq {v3} /\ v6.of = Grid!None /\ v6.step = Grid!None
    BY <1>3, <1>4, <1>5, TableIs
  <2>2. /\ v3 # Grid!None => v8 = {v3}
        /\ \/ v2 = v1 /\ v8 = {}
           \/ v3 # Grid!None /\ v1 = Append(v2, v3)
    BY <2>1, Nones DEF Grid!RowsAgree
  <2>3. v1' = v2
    <3>1. CASE v3 \notin v8
      BY <1>1, <2>2, <3>1
    <3>2. CASE v3 \in v8
      <4>1. v3 \in Section /\ v1 = Append(v2, v3)
        BY <2>2, <3>2, TableIs
      <4>2. v3 \notin Grid!ToSet(v2)
        BY <4>1, TableIs, LastIsNew
      <4>3. Grid!Without(Append(v2, v3), v3) = v2
        BY <4>1, <4>2, TableIs, WithoutAppended
      <4> QED
        BY <1>1, <3>2, <4>1, <4>3
    <3> QED
      BY <3>1, <3>2
  <2>4. v8' = {}
    BY <1>1, <2>1
  <2> QED
    BY <1>1, <2>1, <2>3, <2>4, Nones DEF Grid!RowsAgree
<1>6. TableAgrees'
  BY <1>4, <1>5 DEF TableAgrees
<1>7. /\ S \subseteq v9' /\ v8' \subseteq Section
      /\ v4' \subseteq v9' \cap Section /\ v5' \in (v9' \cap Section) \cup {Grid!None}
      /\ v3' \in Section \cup {Grid!None} /\ v10' \subseteq v9'
  BY <1>1, <1>2, TableIs
<1>8. /\ v2' \in ListsOf(Grid!ToSet(v2), Len(v2))
      /\ v6'.sent \in ListsOf(Grid!ToSet(v6.sent), Len(v6.sent)) /\ Grid!ToSet(v6.sent) \subseteq v9'
      /\ v6' \in Saves /\ (v6' = Grid!NoSave \/ (v6'.of # Grid!None /\ v6'.step # Grid!None))
      /\ v7' \in Drags /\ v13' \in BOOLEAN
  BY <1>1, TableRest
<1> QED
  BY ONLY <1>2, <1>3, <1>6, <1>7, <1>8, TableWill

\* What is in a dialog is saved.
LEMMA GridDialogSaved ==
  ASSUME Grid!TableFits, Grid!HandleModalSave
  PROVE  Grid!TableFits'
<1>1. /\ v5 # Grid!None /\ v6 = Grid!NoSave /\ v6' = [of |-> "dialog", step |-> "sent", sent |-> v1]
      /\ UNCHANGED <<v1, v2, v3, v4, v5, v7, v8, v9, v10, v12, v13>>
  BY DEF Grid!HandleModalSave, Grid!cacheVars
<1>2. v1 \in Seq(Section)
  BY TableIs, ListsAre
<1>3. v6' \in Saves /\ v6'.of = "dialog" /\ v6'.step = "sent" /\ v6'.sent = v1
  BY ONLY <1>1, <1>2 DEF Saves
<1>4. v12' \subseteq {"cut"} => Grid!OneThing' /\ Grid!CacheAgrees'
  BY <1>1, <1>3, TableIs, Nones DEF Grid!OneThing, Grid!CacheAgrees
<1>5. v12' = {} => Grid!RowsAgree'
  BY <1>1, <1>3, TableIs, Nones DEF Grid!RowsAgree
<1>6. TableAgrees'
  BY <1>4, <1>5 DEF TableAgrees
<1>7. /\ v1' \in ListsOf(Grid!ToSet(v1), Len(v1)) /\ Grid!ToSet(v1) \subseteq v9'
      /\ v2' \in ListsOf(Grid!ToSet(v2), Len(v2))
      /\ v6'.sent \in ListsOf(Grid!ToSet(v1), Len(v1))
      /\ v6' = Grid!NoSave \/ (v6'.of # Grid!None /\ v6'.step # Grid!None)
      /\ v7' \in Drags /\ v8' \subseteq Section /\ v13' \in BOOLEAN
      /\ v4' \subseteq v9' \cap Section /\ v5' \in (v9' \cap Section) \cup {Grid!None}
      /\ v3' \in Section \cup {Grid!None} /\ v10' \subseteq v9' /\ v12' \subseteq Troubles
  BY <1>1, <1>3, TableIs, Nones
<1> QED
  BY ONLY <1>3, <1>6, <1>7, TableWill

\* It was saved and drawn: the dialog is closed, and its section stays.
LEMMA GridDialogServed ==
  ASSUME Grid!TableFits, Grid!ModalSaved
  PROVE  Grid!TableFits'
<1>1. /\ v6.step = "drawn" /\ v6' = Grid!NoSave /\ v3' = Grid!None /\ v5' = Grid!None
      /\ UNCHANGED <<v1, v2, v4, v7, v8, v9, v10, v12, v13>>
  BY DEF Grid!ModalSaved, Grid!cacheVars
<1>2. v6 # Grid!NoSave
  BY <1>1, Nones
<1>3. ASSUME v12' \subseteq {"cut"}
      PROVE  Grid!OneThing' /\ Grid!CacheAgrees' /\ v8 = {}
  <2>1. Grid!OneThing /\ Grid!CacheAgrees /\ v8 = {}
    BY <1>1, <1>3, TableIs DEF Grid!CacheAgrees
  <2>2. v4 = {}
    BY <1>2, <2>1 DEF Grid!OneThing
  <2> QED
    BY <1>1, <2>1, <2>2, Nones DEF Grid!OneThing, Grid!CacheAgrees
<1>4. ASSUME v12' = {}
      PROVE  Grid!RowsAgree'
  BY <1>1, <1>3, <1>4, TableIs, Nones DEF Grid!RowsAgree
<1>5. TableAgrees'
  BY <1>3, <1>4 DEF TableAgrees
<1>6. /\ v1' \in ListsOf(Grid!ToSet(v1), Len(v1)) /\ v2' \in ListsOf(Grid!ToSet(v2), Len(v2))
      /\ v6'.sent \in ListsOf({}, 0) /\ {} \subseteq v9' /\ Grid!ToSet(v1) \subseteq v9'
      /\ v6' \in Saves /\ v6' = Grid!NoSave /\ v7' \in Drags /\ v8' \subseteq Section /\ v13' \in BOOLEAN
      /\ v4' \subseteq v9' \cap Section /\ v5' \in (v9' \cap Section) \cup {Grid!None}
      /\ v3' \in Section \cup {Grid!None} /\ v10' \subseteq v9' /\ v12' \subseteq Troubles
  BY <1>1, TableIs, Nones
<1> QED
  BY ONLY <1>5, <1>6, TableWill

\* Any step of a table.
LEMMA GridStep ==
  ASSUME Grid!TableFits, Grid!GridNext
  PROVE  Grid!TableFits'
<1>1. ASSUME NEW s \in Section,
             \/ Grid!HandleDragStart(s) \/ Grid!HandleRemove(s) \/ Grid!HandleAdd(s)
             \/ Grid!HandleEdit(s) \/ Grid!ShowModal(s) \/ Grid!ModalFails(s)
      PROVE  Grid!TableFits'
  <2>1. CASE Grid!HandleDragStart(s)
    BY <2>1, TRUE \in BOOLEAN, GridDragged
  <2> QED
    BY <1>1, <2>1, GridRemoved, GridAdded, GridEdited, GridShown
<1>2. ASSUME NEW t \in Section, NEW below \in BOOLEAN,
             Grid!HandleDragOver(t, below) \/ \E s \in Section : Grid!HandleTouchMove(s, t, below)
      PROVE  Grid!TableFits'
  BY <1>2, GridDragged
<1>3. ASSUME NEW s \in Section, NEW new \in Section, NEW next \in BOOLEAN, Grid!HandleClone(s, new, next)
      PROVE  Grid!TableFits'
  BY <1>3, GridCloned
<1>4. CASE Grid!HandleDrop \/ Grid!HandleTouchEnd
  BY <1>4, GridReordered DEF Grid!HandleDrop, Grid!HandleTouchEnd
<1> QED
  BY <1>1, <1>2, <1>3, <1>4, GridWritten, GridRefused, GridRedrawn,
     GridDismissed, GridDialogSaved, GridDialogServed DEF Grid!GridNext

\* A table at rest.
LEMMA GridRests ==
  ASSUME Grid!TableFits, UNCHANGED pageVars
  PROVE  Grid!TableFits'
<1>1. UNCHANGED <<v1, v2, v3, v4, v5, v6, v7, v8, v9, v10, v12, v13>>
  BY DEF pageVars
<1> QED
  BY <1>1, TableIs, TableKept

\* At rest the table shows the sections, and these are the wanted ones.
LEMMA GridIsSections ==
  ASSUME Grid!TableFits
  PROVE  Grid!TableIsSections
<1> SUFFICES ASSUME ~Grid!Busy
             PROVE  /\ v12 = {} => v2 = v1
                    /\ v12 \subseteq {"cut"} => Grid!ToSet(v1) = v10
  BY DEF Grid!TableIsSections
<1>1. v4 = {} /\ v5 = Grid!None /\ v6.of = Grid!None /\ v6.step = Grid!None
  BY Nones DEF Grid!Busy
<1>2. ASSUME v12 \subseteq {"cut"}
      PROVE  Grid!ToSet(v1) = v10 /\ v3 = Grid!None
  <2>1. Grid!OneThing /\ Grid!CacheAgrees
    BY <1>2, TableIs
  <2>2. v3 = Grid!None
    BY <1>1, <2>1 DEF Grid!OneThing
  <2>3. v8 = {}
    BY <2>1, <2>2, TableIs, Nones DEF Grid!CacheAgrees
  <2> QED
    BY <2>1, <2>2, <2>3 DEF Grid!CacheAgrees
<1>3. ASSUME v12 = {}
      PROVE  v2 = v1
  BY <1>1, <1>2, <1>3, TableIs, Nones DEF Grid!RowsAgree
<1> QED
  BY <1>2, <1>3

-----------------------------------------------------------------------------
(* Types of a dropdown                                                     *)

\* At most one.
Lone(S) == \A x, y \in S : x = y

LEMMA AtMostOne ==
  ASSUME NEW S, Lone(S)
  PROVE  IsFiniteSet(S) /\ Cardinality(S) <= 1
<1>1. CASE S = {}
  BY <1>1, FS_EmptySet
<1>2. ASSUME NEW x \in S
      PROVE  IsFiniteSet(S) /\ Cardinality(S) <= 1
  <2>1. S = {x}
    BY DEF Lone
  <2>2. IsFiniteSet({x}) /\ Cardinality({x}) = 1
    BY FS_Singleton
  <2> QED
    BY <2>1, <2>2
<1> QED
  BY <1>1, <1>2

LEMMA NoMoreThanOne ==
  ASSUME NEW S, IsFiniteSet(S), Cardinality(S) <= 1
  PROVE  Lone(S)
<1> SUFFICES ASSUME NEW x \in S, NEW y \in S, x # y
             PROVE  FALSE
  BY DEF Lone
<1>1. {x, y} \subseteq S /\ IsFiniteSet({x, y}) /\ Cardinality({x, y}) = 2
  <2>1. IsFiniteSet({x}) /\ Cardinality({x}) = 1 /\ y \notin {x} /\ {x} \cup {y} = {x, y}
    BY FS_Singleton
  <2>2. IsFiniteSet({x} \cup {y}) /\ Cardinality({x} \cup {y}) = Cardinality({x}) + 1
    BY <2>1, FS_AddElement
  <2> QED
    BY <2>1, <2>2
<1>2. Cardinality({x, y}) <= Cardinality(S) /\ Cardinality(S) \in Nat
  BY <1>1, FS_Subset, FS_CardinalityType
<1> QED
  BY <1>1, <1>2

\* The item that was created is there, and one value is held where there is one.
Known(b) == b.created \in Within(b.items) \cup {Drop!None}

Single(b) == Known(b) /\ (~v1.multiple => Lone(b.selected) /\ Lone(b.hidden))

\* The inputs are made anew.
LEMMA SavedSingle ==
  ASSUME NEW b \in Boxes, Known(b), ~v1.multiple => Lone(b.selected)
  PROVE  Single(Drop!Saved(b))
<1> DEFINE c == Drop!Saved(b)
<1>1. /\ c.items = b.items /\ c.selected = b.selected /\ c.created = b.created
      /\ c.hidden = b.selected \ {Drop!Placeholder}
  BY DEF Drop!Saved, Boxes
<1> HIDE DEF c
<1>2. Single(c)
  BY <1>1 DEF Single, Known, Lone
<1> QED
  BY <1>2 DEF c

LEMMA ToggleSingle ==
  ASSUME NEW b \in Boxes, Known(b), NEW it \in Within(b.items), NEW force
  PROVE  Single(Drop!ToggleItem(b, it, force))
<1> DEFINE With(s) == Drop!Saved([b EXCEPT !.selected = s])
           less == b.selected \ {it}
           more == b.selected \cup {it}
<1>1. ASSUME NEW s \in SUBSET Picked, ~v1.multiple => Lone(s)
      PROVE  Single(With(s))
  <2> DEFINE c == [b EXCEPT !.selected = s]
  <2>1. c \in Boxes /\ c.items = b.items /\ c.created = b.created /\ c.selected = s
    BY DEF Boxes
  <2> HIDE DEF c
  <2>2. Single(Drop!Saved(c))
    BY <1>1, <2>1, SavedSingle DEF Known
  <2> QED
    BY <2>2 DEF c
<1>2. {it} \subseteq Picked /\ less \subseteq Picked /\ more \subseteq Picked /\ b.selected \subseteq Picked
  BY DEF Boxes, Within, Picked
<1>3. Drop!ToggleItem(b, it, force) =
        IF ~v1.multiple THEN With({it})
        ELSE IF it \in b.selected
          THEN With(IF force # "on" /\ Drop!MayDrop(b) THEN less ELSE b.selected)
          ELSE With(IF force # "off" THEN more ELSE b.selected)
  BY DEF Drop!ToggleItem
<1> HIDE DEF With
<1>4. CASE ~v1.multiple
  <2>1. Lone({it})
    BY DEF Lone
  <2> QED
    BY <1>1, <1>2, <1>3, <1>4, <2>1
<1>5. CASE v1.multiple
  BY <1>1, <1>2, <1>3, <1>5
<1> QED
  BY <1>4, <1>5

\* Items are removed, and with them the one that was created.
LEMMA WithoutSingle ==
  ASSUME NEW b, Stands(b), Single(b), NEW gone
  PROVE  Drop!Without(b, gone) \in Boxes /\ Single(Drop!Without(b, gone))
<1> DEFINE c == Drop!Without(b, gone)
<1>1. /\ Stands(c) /\ Within(c.items) = Within(b.items) \ gone
      /\ c.selected = b.selected \ gone /\ c.hidden = b.hidden
  BY WithoutStands
<1>2. c.created = IF b.created \in gone THEN Drop!None ELSE b.created
  <2> DEFINE r == Drop!Order!Selected(b.items, {i \in DOMAIN b.items : b.items[i] \notin gone})
             s == b.selected \ gone
             d == IF b.created \in gone THEN Drop!None ELSE b.created
  <2>1. c = [b EXCEPT !.items = r, !.selected = s, !.created = d]
    BY DEF Drop!Without
  <2>2. b \in Boxes
    BY DEF Stands
  <2> HIDE DEF c, r, s, d
  <2>3. c.created = d
    BY <2>1, <2>2 DEF Boxes
  <2> QED
    BY <2>3 DEF d
<1> HIDE DEF c
<1>3. c \in Boxes /\ Single(c)
  BY <1>1, <1>2 DEF Single, Known, Lone, Stands
<1> QED
  BY <1>3 DEF c

LEMMA CreateSingle ==
  ASSUME NEW b, Stands(b), Single(b), NEW v \in Drop!DropValue
  PROVE  Single(Drop!CreateItem(b, v))
<1>0. b \in Boxes /\ v \in Shown
  BY DEF Stands, Shown
<1>1. CASE v \in Within(b.items)
  <2>1. Drop!CreateItem(b, v) = Drop!ToggleItem(b, v, "on")
    BY <1>1, DropOperators DEF Drop!CreateItem
  <2> QED
    BY <1>0, <1>1, <2>1, ToggleSingle DEF Single
<1>2. CASE v \notin Within(b.items)
  <2> DEFINE old == IF v1.multiple THEN {} ELSE {b.created}
             w == Drop!Without(b, old)
             d == IF v1.multiple THEN w.created ELSE v
             r == Append(w.items, v)
             new == [w EXCEPT !.items = r, !.created = d]
  <2>1. Drop!CreateItem(b, v) = Drop!ToggleItem(new, v, "on")
    BY <1>2, DropOperators DEF Drop!CreateItem
  <2>2. w \in Boxes /\ Single(w)
    BY WithoutSingle
  <2> HIDE DEF w
  <2>3. w.items \in Seq(Shown) /\ w.created \in Shown \cup {Drop!None}
    BY <2>2 DEF Boxes
  <2>4. r \in Seq(Shown) /\ Within(r) = Within(w.items) \cup {v}
    <3> DEFINE q == <<v>>
    <3>1. r = w.items \o q /\ Within(q) = {v} /\ q \in Seq(Shown)
      BY <1>0, <2>3, WithinOne
    <3> HIDE DEF q, r
    <3>2. w.items \o q \in Seq(Shown) /\ Within(w.items \o q) = Within(w.items) \cup Within(q)
      BY <2>3, <3>1, WithinJoined
    <3> QED
      BY <3>1, <3>2
  <2>5. d \in Shown \cup {Drop!None} /\ d \in Within(r) \cup {Drop!None}
    BY <1>0, <2>2, <2>3, <2>4 DEF Single, Known
  <2> HIDE DEF r, d
  <2>6. new \in Boxes /\ new.items = r /\ new.created = d
    BY <2>2, <2>4, <2>5 DEF Boxes
  <2> HIDE DEF new
  <2>7. Known(new) /\ v \in Within(new.items)
    BY <2>4, <2>5, <2>6 DEF Known
  <2> QED
    BY <2>1, <2>6, <2>7, ToggleSingle
<1> QED
  BY <1>1, <1>2

\* Items of a box are added.
LEMMA MoreSingle ==
  ASSUME NEW b, Stands(b), Single(b), NEW vs \in SUBSET Drop!DropValue,
         NEW s \in SUBSET Picked, ~v1.multiple => Lone(s)
  PROVE  LET c == [b EXCEPT !.items = @ \o Drop!Seqs!SetToSeq(vs \ Within(b.items)), !.selected = s]
         IN  c \in Boxes /\ Single(c)
<1> DEFINE q == Drop!Seqs!SetToSeq(vs \ Within(b.items))
           r == b.items \o q
           c == [b EXCEPT !.items = r, !.selected = s]
<1>1. b \in Boxes /\ b.items \in Seq(Shown)
  BY DEF Stands, Boxes
<1>2. q \in Seq(Shown)
  <2>1. IsFiniteSet(vs \ Within(b.items))
    BY ValuesAreFinite, FS_Subset
  <2>2. q \in Seq(vs \ Within(b.items))
    BY <2>1, SetInSequence
  <2> HIDE DEF q
  <2> QED
    BY <2>2 DEF Shown
<1> HIDE DEF q
<1>3. r \in Seq(Shown) /\ Within(r) = Within(b.items) \cup Within(q)
  BY <1>1, <1>2, WithinJoined
<1> HIDE DEF r
<1>4. c \in Boxes /\ c.items = r /\ c.selected = s /\ c.created = b.created /\ c.hidden = b.hidden
  BY <1>1, <1>3 DEF Boxes
<1> HIDE DEF c
<1>5. c \in Boxes /\ Single(c)
  BY <1>3, <1>4 DEF Single, Known
<1> QED
  BY <1>5 DEF c, r, q

LEMMA SetSingle ==
  ASSUME NEW b, Holding(b), Single(b), NEW vs \in SUBSET Drop!DropValue, ~v1.multiple => Lone(vs)
  PROVE  Single(Drop!SetValues(b, vs))
<1> DEFINE c == Drop!Created(b, vs)
<1>0. Stands(b) /\ b.selected \subseteq Picked /\ vs \subseteq Picked
  BY DEF Holding, Stands, Boxes, Shown, Picked
<1>1. Single(c)
  <2>1. CASE ~v1.create \/ vs = {}
    BY <2>1 DEF Drop!Created
  <2>2. CASE v1.create /\ vs # {} /\ v1.multiple
    <3> DEFINE s == b.selected \cup vs
               e == [b EXCEPT !.items = @ \o Drop!Seqs!SetToSeq(vs \ Within(b.items)), !.selected = s]
    <3>1. c = Drop!Saved(e)
      BY <2>2, DropOperators DEF Drop!Created
    <3>2. s \in SUBSET Picked
      BY <1>0
    <3> HIDE DEF s, c
    <3>3. e \in Boxes /\ Single(e)
      BY <1>0, <2>2, <3>2, MoreSingle
    <3> HIDE DEF e
    <3> QED
      BY <2>2, <3>1, <3>3, SavedSingle DEF Single
  <2>3. CASE v1.create /\ vs # {} /\ ~v1.multiple
    <3>1. c = Drop!CreateItem(b, CHOOSE v \in vs : TRUE)
      BY <2>3 DEF Drop!Created
    <3>2. (CHOOSE v \in vs : TRUE) \in Drop!DropValue
      BY <2>3
    <3> QED
      BY <1>0, <3>1, <3>2, CreateSingle
  <2> QED
    BY <2>1, <2>2, <2>3
<1>2. Holding(c)
  BY CreatedHolds
<1> DEFINE wanted == vs \cap Within(c.items)
           chosen == IF v1.multiple THEN wanted \cup Drop!LastStays(c, vs)
                     ELSE IF wanted = {} THEN {Drop!Placeholder} \cap Within(c.items) ELSE wanted
           e == Drop!Saved([c EXCEPT !.selected = chosen])
<1>3. Drop!SetValues(b, vs) = IF Within(c.items) = {} \/ (~v1.multiple /\ chosen = {}) THEN c ELSE e
  BY DropOperators DEF Drop!SetValues
<1> HIDE DEF c
<1>4. c \in Boxes /\ Within(c.items) \subseteq Shown
  BY <1>2 DEF Holding, Stands, Boxes, Within
<1>5. chosen \subseteq Picked
  BY <1>4 DEF Drop!LastStays, Within, Picked
<1>6. ~v1.multiple => Lone(chosen)
  BY DEF Lone
<1> HIDE DEF chosen
<1>7. Single(e)
  <2> DEFINE d == [c EXCEPT !.selected = chosen]
  <2>1. d \in Boxes /\ d.items = c.items /\ d.created = c.created /\ d.selected = chosen
    BY <1>4, <1>5 DEF Boxes
  <2> HIDE DEF d
  <2>2. Single(Drop!Saved(d))
    BY <1>1, <1>6, <2>1, SavedSingle DEF Single, Known
  <2> QED
    BY <2>2 DEF d
<1> HIDE DEF e
<1> QED
  BY <1>1, <1>3, <1>7

\* What else is known of the types of a dropdown.
BoxTyped == Single(v2) /\ v3 \in BOOLEAN

LEMMA BoxTypedStep ==
  ASSUME Drop!BoxFits, BoxTyped, Drop!DropNext
  PROVE  BoxTyped'
<1>1. v1 \in [multiple : BOOLEAN, optional : BOOLEAN, create : BOOLEAN] /\ Holding(v2) /\ v2 \in Boxes /\ Single(v2)
      /\ Stands(v2) /\ v3 \in BOOLEAN /\ v1.multiple \in BOOLEAN
  BY DropState DEF BoxTyped, Holding, Stands
<1>2. v1' = v1
  BY DEF Drop!DropNext, Drop!OpenDropdown, Drop!CloseDropdown, Drop!Pick, Drop!PickByEnter, Drop!TypeItem,
         Drop!SetValue, Drop!AddChoices, Drop!ClearChoices
<1>3. v3' \in BOOLEAN
  BY <1>1 DEF Drop!DropNext, Drop!OpenDropdown, Drop!CloseDropdown, Drop!Pick, Drop!PickByEnter, Drop!TypeItem,
              Drop!SetValue, Drop!AddChoices, Drop!ClearChoices
<1>4. Single(Drop!Saved(v2))
  BY <1>1, SavedSingle DEF Single
<1>5. Drop!OpenDropdown \/ Drop!CloseDropdown => Single(v2')
  BY <1>1, <1>4 DEF Drop!OpenDropdown, Drop!CloseDropdown
<1>6. ASSUME NEW it \in Drop!InBox(v2), Drop!Pick(it) \/ Drop!PickByEnter(it)
      PROVE  Single(v2')
  <2>1. it \in Within(v2.items) /\ Single(Drop!ToggleItem(v2, it, ""))
    BY <1>1, DropOperators, ToggleSingle DEF Single
  <2> QED
    BY <1>4, <1>6, <2>1 DEF Drop!Pick, Drop!PickByEnter
<1>7. ASSUME NEW v \in Typed, Drop!TypeItem(v)
      PROVE  Single(v2')
  BY <1>1, <1>7, CreateSingle DEF Drop!TypeItem, Drop!DropValue
<1>8. ASSUME NEW vs \in SUBSET Drop!DropValue, Drop!SetValue(vs)
      PROVE  Single(v2')
  <2>1. v2' = Drop!SetValues(v2, vs) /\ (v1.multiple \/ Cardinality(vs) <= 1) /\ IsFiniteSet(vs)
    BY <1>8, DropOperators, ValuesAreFinite, FS_Subset DEF Drop!SetValue
  <2>2. ~v1.multiple => Lone(vs)
    BY <2>1, NoMoreThanOne
  <2> QED
    BY <1>1, <2>1, <2>2, SetSingle
<1>9. ASSUME NEW vs \in SUBSET Drop!DropValue, Drop!AddChoices(vs)
      PROVE  Single(v2')
  <2>1. v2.items \in Seq(Shown)
    BY <1>1 DEF Boxes
  <2>2. PICK q \in Seq(Drop!DropValue) :
          LET r == Between(v2.items, Cut(v2), q)
          IN  v2' = [v2 EXCEPT !.items = r] /\ r \in Seq(Shown) /\ Within(r) = Within(v2.items) \cup Within(q)
    BY <1>2, <1>9, <2>1, ChoicesAdded
  <2> DEFINE r == Between(v2.items, Cut(v2), q)
  <2>3. v2' = [v2 EXCEPT !.items = r] /\ r \in Seq(Shown) /\ Within(r) = Within(v2.items) \cup Within(q)
    BY <2>2
  <2> HIDE DEF r
  <2>4. /\ v2'.items = r /\ v2'.selected = v2.selected
        /\ v2'.created = v2.created /\ v2'.hidden = v2.hidden
    BY <1>1, <2>3 DEF Boxes
  <2> QED
    BY <1>1, <2>3, <2>4 DEF Single, Known
<1>10. ASSUME NEW reset \in BOOLEAN, Drop!ClearChoices(reset)
       PROVE  Single(v2')
  <2> DEFINE kept == IF reset THEN {} ELSE v2.hidden
             gone == Within(v2.items) \ (kept \cup {Drop!Placeholder})
             left == Drop!Without(v2, gone)
  <2>1. v2' = IF reset /\ Drop!Placeholder \in Within(left.items) THEN Drop!ToggleItem(left, Drop!Placeholder, "") ELSE left
    BY <1>10, DropOperators DEF Drop!ClearChoices
  <2>2. left \in Boxes /\ Single(left)
    BY <1>1, WithoutSingle
  <2> HIDE DEF left
  <2>3. Drop!Placeholder \in Within(left.items) => Single(Drop!ToggleItem(left, Drop!Placeholder, ""))
    BY <2>2, ToggleSingle DEF Single
  <2> QED
    BY <2>1, <2>2, <2>3
<1>11. Single(v2')
  BY <1>5, <1>6, <1>7, <1>8, <1>9, <1>10 DEF Drop!DropNext
<1> QED
  BY <1>2, <1>3, <1>11 DEF BoxTyped, Single, Known

LEMMA BoxTypedStart ==
  ASSUME Drop!DropInit
  PROVE  BoxTyped
<1>1. PICK choices \in {<<>>, Choice}, values \in SUBSET Drop!DropValue : v2 = Drop!Bound(choices, values)
  BY DEF Drop!DropInit
<1> DEFINE o == IF v1.create THEN Drop!Seqs!SetToSeq(values \ {choices[i] : i \in DOMAIN choices}) ELSE <<>>
           items == (IF ~v1.multiple /\ v1.optional THEN <<Drop!Placeholder>> ELSE <<>>) \o choices \o o
           wanted == {i \in DOMAIN items : items[i] \in values}
           first == {i \in wanted : \A j \in wanted : i <= j}
           chosen == IF v1.multiple THEN wanted ELSE IF first = {} THEN {1} \cap DOMAIN items ELSE first
           field == IF v1.create /\ ~v1.multiple /\ items = <<>> THEN {Drop!TextField} ELSE {}
           s == {items[i] : i \in chosen} \cup field
           b == [items |-> items, selected |-> s, created |-> Drop!None, hidden |-> {}]
<1>2. v2 = Drop!Saved(b)
  BY <1>1 DEF Drop!Bound
<1>3. items \in Seq(Shown)
  <2>1. Drop!Placeholder \in Shown
    BY DEF Shown
  <2>2. choices \in Seq(Drop!DropValue) /\ o \in Seq(Drop!DropValue)
    BY ChoicesDrawn
  <2> HIDE DEF o
  <2>3. choices \in Seq(Shown) /\ o \in Seq(Shown)
    BY <2>2 DEF Shown
  <2> QED
    BY <2>1, <2>3
<1> HIDE DEF items
<1>4. DOMAIN items \subseteq Nat
  BY <1>3
<1>5. ~v1.multiple => Lone(s)
  <2>1. CASE items = << >>
    <3>1. chosen = {}
      BY <2>1
    <3> QED
      BY <3>1 DEF Lone
  <2>2. CASE items # << >>
    <3>1. field = {}
      BY <2>2
    <3> HIDE DEF field
    <3>2. ~v1.multiple => Lone({items[i] : i \in chosen})
      BY <1>4 DEF Lone
    <3> QED
      BY <3>1, <3>2
  <2> QED
    BY <2>1, <2>2
<1>6. s \subseteq Picked
  BY <1>3 DEF Picked
<1> HIDE DEF s
<1>7. b \in Boxes /\ b.selected = s /\ b.created = Drop!None
  BY <1>3, <1>6 DEF Boxes
<1> HIDE DEF b
<1>8. Single(v2)
  BY <1>2, <1>5, <1>7, SavedSingle DEF Known
<1> QED
  BY <1>8 DEF BoxTyped, Drop!DropInit

LEMMA BoxIsTyped ==
  ASSUME Drop!BoxFits, BoxTyped
  PROVE  Drop!DropTypeOK
<1>1. /\ v1 \in [multiple : BOOLEAN, optional : BOOLEAN, create : BOOLEAN]
      /\ v2 \in Boxes /\ v2.selected \subseteq Within(v2.items) \cup {Drop!TextField} /\ Single(v2) /\ v3 \in BOOLEAN
  BY DropState DEF BoxTyped, Holding, Stands
<1>2. Drop!InBox(v2) = Within(v2.items)
  BY DropOperators
<1>3. Drop!InBox(v2) \subseteq Drop!DropValue \cup {Drop!Placeholder} /\ v2.hidden \subseteq Drop!DropValue \cup {Drop!TextField}
  BY <1>1, <1>2 DEF Boxes, Shown, Within
<1>4. ~v1.multiple => Drop!Cardinality(v2.selected) <= 1 /\ Drop!Cardinality(v2.hidden) <= 1
  BY <1>1, AtMostOne, DropOperators DEF Single
<1> QED
  BY <1>1, <1>2, <1>3, <1>4 DEF Drop!DropTypeOK, Single, Known

=============================================================================
