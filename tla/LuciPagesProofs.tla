-------------------------- MODULE LuciPagesProofs ---------------------------
(***************************************************************************)
(* Theorems about the pages, for all values of the constants: what a page  *)
(* shows is what there is, the parts of a widget agree, nothing is left    *)
(* behind, names resolve, forms are obeyed, and no step loses a value or   *)
(* goes back behind what was there.                                        *)
(*                                                                         *)
(* First the pages of the network, as the widgets before them: its state,  *)
(* wireless networks, zones, interfaces; then the fields of a form, and    *)
(* the sections of a document.  Then the pages together: that of PagesFit  *)
(* is what the page that is open keeps.  The page of the repository keys,  *)
(* which has variables of its own, follows, and the types of all pages     *)
(* come last.                                                              *)
(***************************************************************************)
EXTENDS LuciWidgetsProofs

-----------------------------------------------------------------------------
(* The state of the network                                                *)

Gathering == [at : {"asked", "answered", "listing", "over"}, seen : Nat]

\* The state that is shown stays, and nobody who waits goes on.
LEMMA StateStays ==
  ASSUME v4 \in Seq(Gathering), v2 \in 0..Len(v4), v2' = v2, v2 \in 0..Len(v4)',
         v2 # 0 => v4'[v2].seen = v4[v2].seen,
         \A c \in Caller : v5[c].for # 0 => v5'[c].for # 0
  PROVE  State!FlushedIsFresh
<1>1. State!Seen[v2] = IF v2 = 0 THEN 0 ELSE v4[v2].seen
  BY DEF State!Seen
<1>2. State!Seen'[v2'] = State!Seen[v2]
  BY <1>1 DEF State!Seen
<1>3. State!Seen[v2] \in Nat
  <2>1. v2 # 0 => v4[v2] \in Gathering
    OBVIOUS
  <2> QED
    BY <1>1, <2>1 DEF Gathering
<1> QED
  BY <1>2, <1>3 DEF State!FlushedIsFresh

\* A getter, or flushCache().
LEMMA StateAsked ==
  ASSUME State!GatheringsFit, NEW c \in Caller, State!Get(c) \/ State!FlushCache(c)
  PROVE  State!GatheringsFit' /\ State!FlushedIsFresh
<1> DEFINE version == v1  state == v2  init == v3  gather == v4  caller == v5
           new == [at |-> "asked", seen |-> 0]
<1>0. /\ version \in Nat /\ gather \in Seq(Gathering) /\ state \in 0..Len(gather) /\ init \in 0..Len(gather)
      /\ caller \in [Caller -> [for : 0..Len(gather), since : Nat]]
      /\ State!OneUnderWay /\ State!SeenInOrder /\ State!CallersWait
  BY DEF State!GatheringsFit, State!GatherTypes, Gathering
<1>a. init # 0 => init = Len(gather) /\ gather[init].at \in {"asked", "answered"}
  BY <1>0 DEF State!OneUnderWay
<1>1. /\ version' = version /\ state' = state
      /\ \/ gather' = gather /\ init' = init /\ init # 0
         \/ init = 0 /\ gather' = Append(gather, new) /\ init' = Len(gather')
  <2>1. CASE State!Get(c)
    BY <1>0, <2>1 DEF State!Get, State!InitNetworkState, State!OneUnderWay
  <2>2. CASE State!FlushCache(c)
    BY <1>0, <2>2 DEF State!FlushCache, State!InitNetworkState, State!OneUnderWay
  <2> QED
    BY <2>1, <2>2
<1>2. new \in Gathering
  BY DEF Gathering
<1> HIDE DEF new
<1>3. /\ gather' \in Seq(Gathering) /\ Len(gather') >= Len(gather)
      /\ init' = Len(gather') /\ init' \in DOMAIN gather' /\ init' # 0
      /\ \A g \in DOMAIN gather : g \in DOMAIN gather' /\ gather'[g] = gather[g]
      /\ \A g \in DOMAIN gather' : g \in DOMAIN gather \/ g = init'
      /\ gather'[init'] = IF init = 0 THEN new ELSE gather[init]
  <2>1. CASE init = 0
    <3>1. gather' = Append(gather, new) /\ init' = Len(gather')
      BY <1>1, <2>1
    <3>2. /\ gather' \in Seq(Gathering) /\ Len(gather') = Len(gather) + 1 /\ gather'[Len(gather')] = new
          /\ \A g \in DOMAIN gather : g \in DOMAIN gather' /\ gather'[g] = gather[g]
          /\ \A g \in DOMAIN gather' : g \in DOMAIN gather \/ g = Len(gather')
      BY <1>0, <1>2, <3>1
    <3> QED
      BY <1>0, <2>1, <3>1, <3>2
  <2>2. CASE init # 0
    BY <1>0, <1>a, <1>1, <2>2
  <2> QED
    BY <2>1, <2>2
<1>b. gather'[init'].at \in {"asked", "answered"} /\ gather'[init'].seen \in Nat
  <2>1. CASE init = 0
    BY <1>3, <2>1 DEF new
  <2>2. CASE init # 0
    <3>1. gather[init] \in Gathering
      BY <1>0, <2>2
    <3> QED
      BY <1>a, <1>3, <2>2, <3>1 DEF Gathering
  <2> QED
    BY <2>1, <2>2
<1>4. /\ caller'[c].for = init' /\ caller'[c].since \in {0, version}
      /\ gather'[init'].at = "answered" => caller'[c].since = 0
      /\ \A d \in Caller : d # c => caller'[d] = caller[d]
      /\ caller' \in [Caller -> [for : 0..Len(gather'), since : Nat]]
  <2>1. CASE State!Get(c)
    <3>1. caller' = [caller EXCEPT ![c].for = init'] /\ caller[c].for = 0
      BY <2>1 DEF State!Get
    <3>2. caller[c].since = 0
      BY <1>0, <3>1 DEF State!CallersWait
    <3> QED
      BY <1>0, <1>3, <3>1, <3>2
  <2>2. CASE State!FlushCache(c)
    BY <1>0, <1>3, <2>2 DEF State!FlushCache
  <2> QED
    BY <2>1, <2>2
<1>5. State!GatherTypes'
  BY <1>0, <1>1, <1>3, <1>4 DEF State!GatherTypes, Gathering
<1>6. State!OneUnderWay'
  BY <1>0, <1>1, <1>3, <1>b DEF State!OneUnderWay
<1>7. State!SeenInOrder'
  <2>1. new.seen = 0 /\ new.at = "asked"
    BY DEF new
  <2> QED
    BY <1>0, <1>1, <1>3, <2>1 DEF State!SeenInOrder
<1>8. State!CallersWait'
  <2> SUFFICES ASSUME NEW d \in Caller
               PROVE  /\ caller'[d].since <= version
                      /\ caller'[d].for = 0 => caller'[d].since = 0
                      /\ caller'[d].for # 0 =>
                           /\ gather'[caller'[d].for].at # "over"
                           /\ gather'[caller'[d].for].at # "asked" => gather'[caller'[d].for].seen >= caller'[d].since
    BY <1>1 DEF State!CallersWait
  <2>1. CASE d = c
    BY <1>0, <1>3, <1>b, <1>4, <2>1
  <2>2. CASE d # c
    <3>1. caller'[d] = caller[d] /\ (caller[d].for # 0 => gather'[caller[d].for] = gather[caller[d].for])
      BY <1>0, <1>3, <1>4, <2>2
    <3> QED
      BY <1>0, <3>1 DEF State!CallersWait
  <2> QED
    BY <2>1, <2>2
<1>9. State!FlushedIsFresh
  <2>1. state # 0 => state \in DOMAIN gather /\ gather'[state] = gather[state]
    BY <1>0, <1>3
  <2>2. \A d \in Caller : caller[d].for # 0 => caller'[d].for # 0
    BY <1>3, <1>4
  <2>3. state \in 0..Len(gather')
    BY <1>0, <1>3
  <2> QED
    BY <1>0, <1>1, <2>1, <2>2, <2>3, StateStays
<1> QED
  BY <1>5, <1>6, <1>7, <1>8, <1>9 DEF State!GatheringsFit

\* The device changes, or answers.
LEMMA StateAnswered ==
  ASSUME State!GatheringsFit, State!Change \/ \E g \in DOMAIN v4 : State!Answer(g)
  PROVE  State!GatheringsFit' /\ State!FlushedIsFresh
<1> DEFINE version == v1  state == v2  init == v3  gather == v4  caller == v5
<1>0. /\ version \in Nat /\ gather \in Seq(Gathering) /\ state \in 0..Len(gather) /\ init \in 0..Len(gather)
      /\ caller \in [Caller -> [for : 0..Len(gather), since : Nat]]
      /\ State!OneUnderWay /\ State!SeenInOrder /\ State!CallersWait
  BY DEF State!GatheringsFit, State!GatherTypes, Gathering
<1>1. CASE State!Change
  <2>1. version' = version + 1 /\ UNCHANGED <<state, init, gather, caller>>
    BY <1>1 DEF State!Change
  <2>2. \A g \in DOMAIN gather : gather[g].seen \in Nat
    <3> SUFFICES ASSUME NEW g \in DOMAIN gather
                 PROVE  gather[g].seen \in Nat
      OBVIOUS
    <3>1. gather[g] \in Gathering
      BY <1>0
    <3> QED
      BY <3>1 DEF Gathering
  <2>3. State!GatherTypes'
    BY <1>0, <2>1 DEF State!GatherTypes, Gathering
  <2>4. State!OneUnderWay'
    BY <1>0, <2>1 DEF State!OneUnderWay
  <2>5. State!SeenInOrder'
    BY <1>0, <2>1, <2>2 DEF State!SeenInOrder
  <2>6. State!CallersWait'
    BY <1>0, <2>1 DEF State!CallersWait
  <2> QED
    BY <1>0, <2>1, <2>3, <2>4, <2>5, <2>6, StateStays DEF State!GatheringsFit
<1>2. CASE \E g \in DOMAIN gather : State!Answer(g)
  <2> DEFINE answer == [at |-> "answered", seen |-> version]
  <2>1. PICK g \in DOMAIN gather : State!Answer(g)
    BY <1>2
  <2>2. gather[g].at = "asked" /\ gather' = [gather EXCEPT ![g] = answer] /\ UNCHANGED <<version, state, init, caller>>
    BY <2>1 DEF State!Answer
  <2>3. answer \in Gathering /\ answer.at = "answered" /\ answer.seen = version
    BY <1>0 DEF Gathering
  <2> HIDE DEF answer
  <2>4. /\ gather' \in Seq(Gathering) /\ Len(gather') = Len(gather)
        /\ DOMAIN gather' = DOMAIN gather /\ gather'[g] = answer
        /\ \A h \in DOMAIN gather : h # g => gather'[h] = gather[h]
    BY <1>0, <2>2, <2>3
  <2>5. g = init /\ g = Len(gather) /\ g # state
    BY <1>0, <2>1, <2>2 DEF State!OneUnderWay
  <2>6. State!GatherTypes'
    BY <1>0, <2>2, <2>4 DEF State!GatherTypes, Gathering
  <2>7. State!OneUnderWay'
    BY <1>0, <2>2, <2>3, <2>4, <2>5 DEF State!OneUnderWay
  <2>8. State!SeenInOrder'
    BY <1>0, <2>2, <2>3, <2>4, <2>5 DEF State!SeenInOrder
  <2>9. State!CallersWait'
    <3> SUFFICES ASSUME NEW d \in Caller
                 PROVE  /\ caller[d].since <= version
                        /\ caller[d].for = 0 => caller[d].since = 0
                        /\ caller[d].for # 0 =>
                             /\ gather'[caller[d].for].at # "over"
                             /\ gather'[caller[d].for].at # "asked" => gather'[caller[d].for].seen >= caller[d].since
      BY <2>2 DEF State!CallersWait
    <3>1. CASE caller[d].for = g
      BY <1>0, <2>3, <2>4, <3>1 DEF State!CallersWait
    <3>2. CASE caller[d].for # g
      <4>1. caller[d].for \in 0..Len(gather)
        BY <1>0
      <4>2. caller[d].for # 0 => gather'[caller[d].for] = gather[caller[d].for]
        BY <1>0, <2>4, <3>2, <4>1
      <4> QED
        BY <1>0, <4>2 DEF State!CallersWait
    <3> QED
      BY <3>1, <3>2
  <2>10. State!FlushedIsFresh
    BY <1>0, <2>2, <2>4, <2>5, StateStays
  <2> QED
    BY <2>6, <2>7, <2>8, <2>9, <2>10 DEF State!GatheringsFit
<1> QED
  BY <1>1, <1>2

\* The answers are collected.
LEMMA StateCollected ==
  ASSUME State!GatheringsFit, NEW g \in DOMAIN v4, State!Collect(g)
  PROVE  State!GatheringsFit' /\ State!FlushedIsFresh
<1> DEFINE version == v1  state == v2  init == v3  gather == v4  caller == v5
<1>0. /\ version \in Nat /\ gather \in Seq(Gathering) /\ state \in 0..Len(gather) /\ init \in 0..Len(gather)
      /\ caller \in [Caller -> [for : 0..Len(gather), since : Nat]]
      /\ State!OneUnderWay /\ State!SeenInOrder /\ State!CallersWait
  BY DEF State!GatheringsFit, State!GatherTypes, Gathering
<1>1. /\ gather[g].at = "answered" /\ gather' = [gather EXCEPT ![g].at = "listing"] /\ init' = 0
      /\ UNCHANGED <<version, state, caller>>
  BY DEF State!Collect
<1>2. gather[g] \in Gathering
  BY <1>0
<1>3. /\ gather' \in Seq(Gathering) /\ Len(gather') = Len(gather) /\ DOMAIN gather' = DOMAIN gather
      /\ gather'[g].at = "listing" /\ gather'[g].seen = gather[g].seen
      /\ \A h \in DOMAIN gather : h # g => gather'[h] = gather[h]
  BY <1>0, <1>1, <1>2 DEF Gathering
<1>4. State!GatherTypes'
  BY <1>0, <1>1, <1>3 DEF State!GatherTypes, Gathering
<1>5. State!OneUnderWay'
  BY <1>0, <1>1, <1>3 DEF State!OneUnderWay
<1>6. State!SeenInOrder'
  BY <1>0, <1>1, <1>3 DEF State!SeenInOrder
<1>7. State!CallersWait'
  BY <1>0, <1>1, <1>3 DEF State!CallersWait
<1>8. State!FlushedIsFresh
  BY <1>0, <1>1, <1>3, StateStays
<1> QED
  BY <1>4, <1>5, <1>6, <1>7, <1>8 DEF State!GatheringsFit

\* The state is there.  It is older than the one before only when it was overtaken.
LEMMA StateComplete ==
  ASSUME State!GatheringsFit, NEW g \in DOMAIN v4, State!Complete(g)
  PROVE  State!GatheringsFit' /\ State!FlushedIsFresh
<1> DEFINE version == v1  state == v2  init == v3  gather == v4  caller == v5
<1>0. /\ version \in Nat /\ gather \in Seq(Gathering) /\ state \in 0..Len(gather) /\ init \in 0..Len(gather)
      /\ caller \in [Caller -> [for : 0..Len(gather), since : Nat]]
      /\ State!OneUnderWay /\ State!SeenInOrder /\ State!CallersWait
  BY DEF State!GatheringsFit, State!GatherTypes, Gathering
<1>1. /\ gather[g].at = "listing" /\ gather' = [gather EXCEPT ![g].at = "over"] /\ state' = g
      /\ caller' = [c \in Caller |-> IF caller[c].for = g THEN State!Idle ELSE caller[c]]
      /\ UNCHANGED <<version, init>>
  BY DEF State!Complete
<1>2. gather[g] \in Gathering /\ g # 0 /\ gather[g].seen \in Nat
  <2>1. gather[g] \in Gathering
    BY <1>0
  <2> QED
    BY <1>0, <2>1 DEF Gathering
<1>3. /\ gather' \in Seq(Gathering) /\ Len(gather') = Len(gather) /\ DOMAIN gather' = DOMAIN gather
      /\ gather'[g].at = "over" /\ gather'[g].seen = gather[g].seen
      /\ \A h \in DOMAIN gather : h # g => gather'[h] = gather[h]
  BY <1>0, <1>1, <1>2 DEF Gathering
<1>4. caller' \in [Caller -> [for : 0..Len(gather'), since : Nat]]
  BY <1>0, <1>1, <1>3 DEF State!Idle
<1>5. State!GatherTypes'
  BY <1>0, <1>1, <1>3, <1>4 DEF State!GatherTypes, Gathering
<1>6. State!OneUnderWay'
  <2>1. ASSUME init # 0
        PROVE  init = Len(gather) /\ gather'[init] = gather[init] /\ gather[init].at \in {"asked", "answered"}
    <3>1. init = Len(gather) /\ gather[init].at \in {"asked", "answered"}
      BY <1>0, <2>1 DEF State!OneUnderWay
    <3>2. init # g /\ init \in DOMAIN gather
      BY <1>0, <1>1, <2>1, <3>1
    <3> QED
      BY <1>3, <3>1, <3>2
  <2>2. \A h \in DOMAIN gather : gather'[h].at \in {"asked", "answered"} => h = init
    BY <1>0, <1>1, <1>3 DEF State!OneUnderWay
  <2> QED
    BY <1>1, <1>3, <2>1, <2>2 DEF State!OneUnderWay
<1>7. State!SeenInOrder'
  BY <1>0, <1>1, <1>3 DEF State!SeenInOrder
<1>8. State!CallersWait'
  BY <1>0, <1>1, <1>3 DEF State!CallersWait, State!Idle
<1>9. State!FlushedIsFresh
  <2>1. State!Seen'[state'] = gather[g].seen
    BY <1>0, <1>1, <1>2, <1>3 DEF State!Seen
  <2>2. State!Seen[state] = IF state = 0 THEN 0 ELSE gather[state].seen
    BY <1>0 DEF State!Seen
  <2>3. ASSUME NEW c \in Caller, caller[c].for # 0, caller'[c].for = 0
        PROVE  gather[g].seen >= caller[c].since
    BY <1>0, <1>1, <2>3 DEF State!CallersWait
  <2>4. state < g => State!Seen[state] <= gather[g].seen
    BY <1>0, <1>1, <1>2, <2>2 DEF State!SeenInOrder
  <2>5. state # g
    BY <1>0, <1>1, <1>2 DEF State!OneUnderWay
  <2>6. State!Seen[state] \in Nat
    <3>1. state # 0 => gather[state] \in Gathering
      BY <1>0
    <3> QED
      BY <2>2, <3>1 DEF Gathering
  <2> QED
    BY <1>0, <1>1, <1>2, <2>1, <2>3, <2>4, <2>5, <2>6 DEF State!FlushedIsFresh
<1> QED
  BY <1>5, <1>6, <1>7, <1>8, <1>9 DEF State!GatheringsFit

\* Whatever is asked, answered or collected; no state is replaced by an older one.
LEMMA StateStep ==
  ASSUME State!GatheringsFit, State!StateNext
  PROVE  State!GatheringsFit' /\ State!FlushedIsFresh
BY StateAsked, StateAnswered, StateCollected, StateComplete DEF State!StateNext

\* Before anything is asked.
LEMMA StateStart ==
  ASSUME State!StateInit
  PROVE  State!GatheringsFit
BY DEF State!StateInit, State!Idle, State!GatheringsFit, State!GatherTypes, State!OneUnderWay,
       State!SeenInOrder, State!CallersWait

-----------------------------------------------------------------------------
(* Names of wireless networks                                              *)

\* A number that is not in D, and no smaller one from o on.
LEMMA FreeFrom ==
  ASSUME NEW D \in SUBSET Int, IsFiniteSet(D), NEW o \in Int
  PROVE  \E n \in o..o + Cardinality(D) : n \notin D /\ \A k \in o..n - 1 : k \in D
<1> DEFINE C == Cardinality(D)
           F == (o..o + C) \ D
           id == [i \in F |-> i]
<1>1. C \in Nat
  BY FS_CardinalityType
<1>2. IsFiniteSet(o..o + C) /\ Cardinality(o..o + C) = C + 1
  BY <1>1, FS_Interval
<1>3. IsFiniteSet(F) /\ Cardinality(F) \in Nat
  BY <1>2, FS_Subset, FS_CardinalityType
<1>4. F # {}
  <2>1. SUFFICES ASSUME F = {} PROVE FALSE
    OBVIOUS
  <2>2. o..o + C \subseteq D
    BY <2>1
  <2>3. Cardinality(o..o + C) <= C
    BY <2>2, FS_Subset
  <2> QED
    BY <1>1, <1>2, <2>3
<1>5. 1 \in 1..Cardinality(F)
  <2>1. Cardinality(F) # 0
    BY <1>3, <1>4, FS_EmptySet
  <2> QED
    BY <1>3, <2>1
<1>6. id \in [F -> Int] /\ \A s, t \in F : id[s] = id[t] => s = t
  <2>1. F \subseteq Int
    BY <1>1
  <2> QED
    BY <2>1
<1> HIDE DEF F
<1>7. PICK i \in F : Rank(F, id, i) = 1 - 1
  BY <1>3, <1>5, <1>6, RankOnto
<1>8. Cardinality({t \in F : id[t] < id[i]}) = 0
  BY <1>7 DEF Rank
<1>9. {t \in F : id[t] < id[i]} = {}
  <2>1. IsFiniteSet({t \in F : id[t] < id[i]})
    BY <1>3, FS_Subset
  <2> QED
    BY <1>8, <2>1, FS_EmptySet
<1>10. \A k \in F : ~(k < i)
  BY <1>9
<1>11. i \in o..o + C /\ i \notin D
  BY DEF F
<1>12. ASSUME NEW k \in o..i - 1
       PROVE  k \in D
  <2>1. k \in o..o + C /\ k < i
    BY <1>1, <1>11
  <2> QED
    BY <1>10, <2>1 DEF F
<1> QED
  BY <1>11, <1>12

\* A number that is not in D, with k such numbers below it.
LEMMA FreeAt ==
  ASSUME NEW D \in SUBSET Int, IsFiniteSet(D), NEW k \in Nat,
         k < Cardinality({t \in D : t < 0})
  PROVE  \E n \in 0..Cardinality(D) :
           /\ n >= 0 /\ n \notin D
           /\ Cardinality({j \in 0..n - 1 : j >= 0 /\ j \notin D}) = k
<1> DEFINE C == Cardinality(D)
           N == {t \in D : t < 0}
           P == D \ N
           F == (0..C) \ D
           id == [i \in F |-> i]
<1>1. /\ C \in Nat
      /\ IsFiniteSet(N) /\ Cardinality(N) \in Nat
      /\ IsFiniteSet(P) /\ Cardinality(P) \in Nat
      /\ C = Cardinality(N) + Cardinality(P)
  <2>1. C \in Nat
    BY FS_CardinalityType
  <2>2. IsFiniteSet(N) /\ IsFiniteSet(P)
    BY FS_Subset
  <2>3. Cardinality(N) \in Nat /\ Cardinality(P) \in Nat
    BY <2>2, FS_CardinalityType
  <2>4. D \cap N = N
    OBVIOUS
  <2>5. Cardinality(P) = C - Cardinality(D \cap N)
    BY FS_Difference
  <2>6. Cardinality(P) = C - Cardinality(N)
    BY <2>4, <2>5
  <2> HIDE DEF C, N, P
  <2> QED
    BY <2>1, <2>2, <2>3, <2>6
<1>2. IsFiniteSet(0..C) /\ Cardinality(0..C) = C + 1
  BY <1>1, FS_Interval
<1>3. IsFiniteSet(F) /\ Cardinality(F) \in Nat
  BY <1>2, FS_Subset, FS_CardinalityType
<1>4. C + 1 <= Cardinality(F) + Cardinality(P)
  <2>1. 0..C \subseteq F \cup P
    <3> SUFFICES ASSUME NEW t \in 0..C, t \notin F PROVE t \in P
      OBVIOUS
    <3>1. t \in D /\ ~(t < 0)
      BY <1>1
    <3> QED
      BY <3>1
  <2> HIDE DEF C, F, P
  <2>2. IsFiniteSet(F \cup P) /\ Cardinality(F \cup P) = Cardinality(F) + Cardinality(P) - Cardinality(F \cap P)
    BY <1>1, <1>3, FS_Union
  <2>3. IsFiniteSet(F \cap P)
    BY <1>3, FS_Subset
  <2>4. Cardinality(F \cap P) \in Nat
    BY <2>3, FS_CardinalityType
  <2>5. Cardinality(0..C) <= Cardinality(F \cup P)
    BY <2>1, <2>2, FS_Subset
  <2> QED
    BY <1>1, <1>2, <1>3, <2>2, <2>4, <2>5
<1>5. k + 1 \in 1..Cardinality(F)
  <2>1. k < Cardinality(N)
    OBVIOUS
  <2> HIDE DEF C, F, P, N
  <2> QED
    BY <1>1, <1>3, <1>4, <2>1
<1>6. id \in [F -> Int] /\ \A s, t \in F : id[s] = id[t] => s = t
  <2>1. F \subseteq Int
    BY <1>1
  <2> QED
    BY <2>1
<1>f. \A j : j \in F <=> j \in 0..C /\ j \notin D
  OBVIOUS
<1> HIDE DEF F
<1>7. PICK i \in F : Rank(F, id, i) = (k + 1) - 1
  BY <1>3, <1>5, <1>6, RankOnto
<1>8. Cardinality({t \in F : id[t] < id[i]}) = k
  BY <1>7 DEF Rank
<1>9. {t \in F : id[t] < id[i]} = {j \in 0..i - 1 : j >= 0 /\ j \notin D}
  <2>1. \A t \in F : id[t] < id[i] <=> t < i
    OBVIOUS
  <2>2. i \in 0..C
    BY <1>f
  <2>3. ASSUME NEW t \in F, t < i
        PROVE  t \in 0..i - 1 /\ t >= 0 /\ t \notin D
    <3>1. t \in 0..C /\ t \notin D
      BY <1>f
    <3> QED
      BY <1>1, <2>2, <2>3, <3>1
  <2>4. ASSUME NEW t \in 0..i - 1, t \notin D
        PROVE  t \in F /\ t < i
    <3>1. t \in 0..C /\ t < i
      BY <1>1, <2>2
    <3> QED
      BY <1>f, <2>4, <3>1
  <2> QED
    BY <2>1, <2>3, <2>4
<1>10. i \in 0..C /\ i \notin D /\ i >= 0
  <2>1. i \in 0..C /\ i \notin D
    BY <1>f
  <2> QED
    BY <1>1, <2>1
<1> QED
  BY <1>8, <1>9, <1>10
\* A page counts as anything does.
LEMMA WirelessCounts ==
  \A S : Wireless!Cardinality(S) = Cardinality(S)
BY DEF Wireless!Cardinality, Cardinality

\* The number that is found for a new section is free and not too large.
LEMMA SidIsNew ==
  ASSUME Wireless!RowsFit
  PROVE  LET s == Wireless!NextFreeSid(Wireless!Cardinality(DOMAIN v2))
         IN s \in Nat /\ s <= 2 * Cardinality(DOMAIN v2) /\ s \notin DOMAIN v2
<1> DEFINE C == Cardinality(DOMAIN v2)
<1>1. DOMAIN v2 \subseteq Int /\ IsFiniteSet(DOMAIN v2)
  <2>1. DOMAIN v2 \subseteq Wireless!Sid
    BY DEF Wireless!RowsFit, Wireless!WirelessTypeOK
  <2>2. Wireless!Sid \subseteq Int /\ IsFiniteSet(Wireless!Sid)
    <3>1. -MaxNets \in Int /\ 2 * MaxNets \in Int
      BY WirelessAssumption
    <3> QED
      BY <3>1, FS_Interval DEF Wireless!Sid
  <2> QED
    BY <2>1, <2>2, FS_Subset
<1>2. C \in Nat
  BY <1>1, FS_CardinalityType
<1>3. \E n \in C..C + C : n \notin DOMAIN v2 /\ \A k \in C..n - 1 : k \in DOMAIN v2
  <2>1. DOMAIN v2 \in SUBSET Int /\ C \in Int
    BY <1>1, <1>2
  <2> HIDE DEF C
  <2>2. \E n \in C..C + Cardinality(DOMAIN v2) : n \notin DOMAIN v2 /\ \A k \in C..n - 1 : k \in DOMAIN v2
    BY <1>1, <2>1, FreeFrom
  <2> QED
    BY <2>2 DEF C
<1>4. /\ Wireless!NextFreeSid(C) \in C..C + C /\ Wireless!NextFreeSid(C) \notin DOMAIN v2
  BY <1>3, WirelessCounts DEF Wireless!NextFreeSid
<1> QED
  BY <1>2, <1>4, WirelessCounts

\* There are finitely many sections, and not more than the bound.
LEMMA SectionsAreFew ==
  ASSUME Wireless!RowsFit
  PROVE  /\ DOMAIN v2 \in SUBSET Int /\ IsFiniteSet(DOMAIN v2)
         /\ Cardinality(DOMAIN v2) \in Nat /\ Cardinality(DOMAIN v2) <= MaxNets
<1>1. DOMAIN v2 \subseteq Wireless!Sid
  BY DEF Wireless!RowsFit, Wireless!WirelessTypeOK
<1>2. Wireless!Sid \subseteq Int /\ IsFiniteSet(Wireless!Sid)
  <2>1. -MaxNets \in Int /\ 2 * MaxNets \in Int
    BY WirelessAssumption
  <2> QED
    BY <2>1, FS_Interval DEF Wireless!Sid
<1>3. IsFiniteSet(DOMAIN v2)
  BY <1>1, <1>2, FS_Subset
<1>4. Cardinality(DOMAIN v2) <= MaxNets
  BY WirelessCounts DEF Wireless!RowsFit, Wireless!FewSections
<1> QED
  BY <1>1, <1>2, <1>3, <1>4, FS_CardinalityType

\* A section without a name gets one that is free, and no other gets it.
LEMMA NameIsNew ==
  ASSUME Wireless!RowsFit
  PROVE  \A s \in DOMAIN v2 : s < 0 =>
           /\ Wireless!NameFor(s) \in 0..Cardinality(DOMAIN v2)
           /\ Wireless!NameFor(s) \notin DOMAIN v2
           /\ \A t \in DOMAIN v2 : t < s => Wireless!NameFor(t) # Wireless!NameFor(s)
<1> DEFINE D == DOMAIN v2
           N == {t \in D : t < 0}
           B(s) == {t \in D : t < 0 /\ t > s}
           F(n) == {k \in 0..n - 1 : k >= 0 /\ k \notin D}
<1>1. D \in SUBSET Int /\ IsFiniteSet(D)
  BY SectionsAreFew
<1>2. IsFiniteSet(N)
  BY <1>1, FS_Subset
<1>3. ASSUME NEW s \in D, s < 0
      PROVE  Cardinality(B(s)) \in Nat /\ Cardinality(B(s)) < Cardinality(N)
  <2>1. B(s) \subseteq N /\ s \in N /\ s \notin B(s)
    BY <1>1, <1>3
  <2>2. B(s) # N
    BY <2>1
  <2> HIDE DEF B, N
  <2> QED
    BY <1>2, <2>1, <2>2, FS_Subset, FS_CardinalityType
<1>4. ASSUME NEW s \in D, s < 0
      PROVE  /\ Wireless!NameFor(s) \in 0..Cardinality(D)
             /\ Wireless!NameFor(s) \notin D
             /\ Cardinality(F(Wireless!NameFor(s))) = Cardinality(B(s))
  <2> DEFINE b == Cardinality(B(s))
  <2>1. b \in Nat /\ b < Cardinality({t \in D : t < 0})
    BY <1>3, <1>4
  <2>2. \E n \in 0..Cardinality(D) : n >= 0 /\ n \notin D /\ Cardinality(F(n)) = b
    <3> HIDE DEF b
    <3> QED
      BY <1>1, <2>1, FreeAt
  <2>3. Wireless!NameFor(s) = CHOOSE n \in 0..Cardinality(D) : (n >= 0 /\ n \notin D) /\ Cardinality(F(n)) = b
    BY WirelessCounts DEF Wireless!NameFor
  <2> HIDE DEF b, F
  <2>4. /\ Wireless!NameFor(s) \in 0..Cardinality(D) /\ Wireless!NameFor(s) \notin D
        /\ Cardinality(F(Wireless!NameFor(s))) = b
    BY <2>2, <2>3
  <2> QED
    BY <2>4 DEF b
<1>5. ASSUME NEW s \in D, s < 0, NEW t \in D, t < s
      PROVE  Cardinality(B(s)) < Cardinality(B(t))
  <2>1. t < 0 /\ s \in Int /\ t \in Int
    BY <1>1, <1>5
  <2>2. B(s) \subseteq B(t) /\ s \in B(t) /\ s \notin B(s)
    BY <1>1, <1>5, <2>1
  <2>3. IsFiniteSet(B(t)) /\ B(s) # B(t)
    BY <1>1, <2>2, FS_Subset
  <2> HIDE DEF B
  <2> QED
    BY <2>2, <2>3, FS_Subset, FS_CardinalityType
<1> HIDE DEF B, F, N
<1>6. \A s, t \in D : s < 0 /\ t < s => t < 0
  BY <1>1
<1>7. ASSUME NEW s \in D, s < 0, NEW t \in D, t < s
      PROVE  Wireless!NameFor(t) # Wireless!NameFor(s)
  <2>1. t < 0
    BY <1>6, <1>7
  <2>2. Cardinality(B(s)) \in Nat /\ Cardinality(B(t)) \in Nat /\ Cardinality(B(s)) # Cardinality(B(t))
    BY <1>3, <1>5, <1>7, <2>1
  <2> QED
    BY <1>4, <1>7, <2>1, <2>2
<1> QED
  BY <1>4, <1>7

\* The migration keeps the sections, and those that have a name keep it.
LEMMA MigrationKeeps ==
  ASSUME Wireless!RowsFit, NEW done \in SUBSET DOMAIN v2, Wireless!HandleMigration(done)
  PROVE  /\ DOMAIN v2' \subseteq Wireless!Sid /\ Cardinality(DOMAIN v2') = Cardinality(DOMAIN v2)
         /\ v2' \in [DOMAIN v2' -> [radio : Radio, off : BOOLEAN]]
         /\ \A s \in DOMAIN v2 \cap DOMAIN v2' : v2'[s] = v2[s]
<1> DEFINE D == DOMAIN v2
           New(s) == IF s \in done THEN Wireless!NameFor(s) ELSE s
           E == {New(s) : s \in D}
<1>1. /\ \A s \in done : s < 0
      /\ v2' = [n \in E |-> v2[CHOOSE s \in D : New(s) = n]]
  BY DEF Wireless!HandleMigration
<1>2. /\ D \in SUBSET Int /\ IsFiniteSet(D) /\ D \subseteq Wireless!Sid
      /\ Cardinality(D) \in Nat /\ Cardinality(D) <= MaxNets
      /\ v2 \in [D -> [radio : Radio, off : BOOLEAN]]
  BY SectionsAreFew DEF Wireless!RowsFit, Wireless!WirelessTypeOK
<1>3. /\ \A s \in D : s \in done => New(s) \in 0..Cardinality(D) /\ New(s) \notin D
      /\ \A s \in D : s \notin done => New(s) = s
      /\ \A s, t \in D : s \in done /\ t \in done /\ t < s => New(t) # New(s)
  BY <1>1, NameIsNew
<1>4. \A s, t \in D : New(s) = New(t) => s = t
  <2> HIDE DEF New
  <2> SUFFICES ASSUME NEW s \in D, NEW t \in D, New(s) = New(t) PROVE s = t
    OBVIOUS
  <2>1. s < t \/ t < s \/ s = t
    BY <1>2
  <2> QED
    BY <1>3, <2>1
<1>5. DOMAIN v2' = E
  BY <1>1
<1>6. E \subseteq Wireless!Sid
  <2>1. 0..Cardinality(D) \subseteq Wireless!Sid
    BY <1>2, WirelessAssumption DEF Wireless!Sid
  <2> HIDE DEF D
  <2>2. \A s \in D : New(s) \in Wireless!Sid
    BY <1>2, <1>3, <2>1
  <2> QED
    BY <2>2
<1>7. Cardinality(E) = Cardinality(D)
  <2> DEFINE new == [s \in D |-> New(s)]
  <2>1. new \in Bijection(D, E)
    <3>1. \A s \in D : New(s) \in E
      OBVIOUS
    <3>2. \A n \in E : \E s \in D : New(s) = n
      OBVIOUS
    <3> HIDE DEF New, E
    <3> QED
      BY <1>4, <3>1, <3>2 DEF Bijection, Injection, Surjection, IsInjective
  <2> HIDE DEF New, E, new
  <2> QED
    BY <1>2, <2>1, FS_Bijection DEF ExistsBijection
<1>8. \A s \in D : (CHOOSE t \in D : New(t) = New(s)) = s
  <2> HIDE DEF New
  <2> QED
    BY <1>4
<1>9. \A s \in D : v2'[New(s)] = v2[s]
  <2> SUFFICES ASSUME NEW s \in D PROVE v2'[New(s)] = v2[s]
    OBVIOUS
  <2>1. New(s) \in E
    OBVIOUS
  <2> HIDE DEF New, E
  <2> QED
    BY <1>1, <1>8, <2>1
<1>10. v2' \in [E -> [radio : Radio, off : BOOLEAN]]
  <2>1. \A n \in E : \E s \in D : n = New(s)
    OBVIOUS
  <2>2. DOMAIN v2' = E /\ v2' = [n \in E |-> v2'[n]]
    BY <1>1
  <2> HIDE DEF New, E
  <2>3. \A n \in E : v2'[n] \in [radio : Radio, off : BOOLEAN]
    BY <1>2, <1>9, <2>1
  <2> QED
    BY <2>2, <2>3
<1>11. \A s \in D \cap E : v2'[s] = v2[s]
  <2>1. \A n \in E : \E s \in D : n = New(s)
    OBVIOUS
  <2> HIDE DEF New, E
  <2> SUFFICES ASSUME NEW n \in D, n \in E PROVE v2'[n] = v2[n]
    OBVIOUS
  <2>2. PICK s \in D : n = New(s)
    BY <2>1
  <2>3. s \notin done /\ n = s
    BY <1>3, <2>2
  <2> QED
    BY <1>9, <2>2, <2>3
<1> QED
  BY <1>5, <1>6, <1>7, <1>10, <1>11

\* What a step of the page keeps.
WirelessGoesOn ==
  Wireless!RowsFit' /\ Wireless!JoinWakesNoOther /\ Wireless!NamesAreKept

\* While the networks stay the same, so does what is said of a step.
LEMMA SameNetworks ==
  ASSUME v1' = v1, v2' = v2
  PROVE  /\ Wireless!JoinWakesNoOther /\ Wireless!NamesAreKept
         /\ Wireless!FewSections' = Wireless!FewSections
         /\ Wireless!Drawn' = Wireless!Drawn
         /\ \A s : Wireless!Off(s)' = Wireless!Off(s)
<1>1. \A s : Wireless!Off(s)' = Wireless!Off(s)
  BY DEF Wireless!Off
<1>2. Wireless!JoinWakesNoOther
  BY <1>1 DEF Wireless!JoinWakesNoOther
<1> QED
  BY <1>1, <1>2 DEF Wireless!NamesAreKept, Wireless!FewSections, Wireless!Drawn

\* Steps that leave the networks as they are: saves, dialogs and scans.
LEMMA WirelessRests ==
  ASSUME Wireless!RowsFit,
         \/ Wireless!Saved \/ Wireless!Refused \/ Wireless!Reload \/ Wireless!Dismiss
         \/ \E r \in Radio : Wireless!HandleScan(r)
         \/ \E results \in SUBSET Bss : Wireless!HandleScanRefresh(results)
         \/ Wireless!HandleScanStartStop \/ Wireless!HandleScanAbort
         \/ \E bss \in Bss : Wireless!HandleJoin(bss)
         \/ Wireless!Cancel \/ Wireless!SaveDialog
  PROVE  WirelessGoesOn
<1>d. Wireless!Drawn \in [DOMAIN v2 -> BOOLEAN] /\ DOMAIN Wireless!Drawn = DOMAIN v2
      /\ \A s \in DOMAIN v2 : Wireless!Drawn[s] = Wireless!Off(s)
  <2>1. \A s \in DOMAIN v2 : Wireless!Off(s) \in BOOLEAN
    <3> SUFFICES ASSUME NEW s \in DOMAIN v2 PROVE Wireless!Off(s) \in BOOLEAN
      OBVIOUS
    <3>1. v2[s] \in [radio : Radio, off : BOOLEAN]
      BY DEF Wireless!RowsFit, Wireless!WirelessTypeOK
    <3>2. v2[s].off \in BOOLEAN
      BY <3>1
    <3> QED
      BY <3>2 DEF Wireless!Off
  <2> QED
    BY <2>1 DEF Wireless!Drawn
<1>0. /\ Wireless!WirelessTypeOK /\ Wireless!FewSections /\ Wireless!RowsAreSections
      /\ Wireless!ButtonsSayWhatTheyDo /\ Wireless!ScansEnd /\ Wireless!ScanHasPoll
      /\ Wireless!Drawn \in [DOMAIN v2 -> BOOLEAN] /\ DOMAIN Wireless!Drawn = DOMAIN v2
      /\ \A s \in DOMAIN v2 : Wireless!Drawn[s] = Wireless!Off(s)
  BY <1>d DEF Wireless!RowsFit
<1>1. ASSUME Wireless!Saved
     PROVE  WirelessGoesOn
  <2>1. v1' = v1 /\ v2' = v2
    BY <1>1 DEF Wireless!Saved
  <2>2. Wireless!Drawn' = Wireless!Drawn /\ \A s : Wireless!Off(s)' = Wireless!Off(s)
    BY <2>1, SameNetworks
  <2>3. Wireless!WirelessTypeOK'
    BY <1>0, <1>1, <2>1, <2>2 DEF Wireless!WirelessTypeOK, Wireless!Saved, Wireless!InFront, Wireless!SamePolls, Wireless!NoScan, Wireless!NothingOdd
  <2>4. Wireless!RowsAreSections'
    BY <1>0, <1>1, <2>1, <2>2 DEF Wireless!WirelessTypeOK, Wireless!RowsAreSections, Wireless!Saved, Wireless!InFront, Wireless!SamePolls, Wireless!NothingOdd
  <2>5. Wireless!ButtonsSayWhatTheyDo'
    BY <1>0, <1>1, <2>1, <2>2 DEF Wireless!WirelessTypeOK, Wireless!ButtonsSayWhatTheyDo, Wireless!Saved, Wireless!InFront, Wireless!SamePolls, Wireless!NothingOdd
  <2>6. Wireless!ScansEnd' /\ Wireless!ScanHasPoll'
    BY <1>0, <1>1 DEF Wireless!WirelessTypeOK, Wireless!ScansEnd, Wireless!ScanHasPoll, Wireless!Saved, Wireless!InFront, Wireless!SamePolls, Wireless!NothingOdd
  <2> QED
    BY <1>0, <2>1, <2>3, <2>4, <2>5, <2>6, SameNetworks DEF Wireless!RowsFit, WirelessGoesOn
<1>2. ASSUME Wireless!Refused
     PROVE  WirelessGoesOn
  <2>1. v1' = v1 /\ v2' = v2
    BY <1>2 DEF Wireless!Refused
  <2>2. Wireless!Drawn' = Wireless!Drawn /\ \A s : Wireless!Off(s)' = Wireless!Off(s)
    BY <2>1, SameNetworks
  <2>3. Wireless!WirelessTypeOK'
    BY <1>0, <1>2, <2>1, <2>2 DEF Wireless!WirelessTypeOK, Wireless!Refused, Wireless!InFront, Wireless!SamePolls, Wireless!NoScan, Wireless!NothingOdd
  <2>4. Wireless!RowsAreSections'
    BY <1>0, <1>2, <2>1, <2>2 DEF Wireless!WirelessTypeOK, Wireless!RowsAreSections, Wireless!Refused, Wireless!InFront, Wireless!SamePolls, Wireless!NothingOdd
  <2>5. Wireless!ButtonsSayWhatTheyDo'
    BY <1>0, <1>2, <2>1, <2>2 DEF Wireless!WirelessTypeOK, Wireless!ButtonsSayWhatTheyDo, Wireless!Refused, Wireless!InFront, Wireless!SamePolls, Wireless!NothingOdd
  <2>6. Wireless!ScansEnd' /\ Wireless!ScanHasPoll'
    BY <1>0, <1>2 DEF Wireless!WirelessTypeOK, Wireless!ScansEnd, Wireless!ScanHasPoll, Wireless!Refused, Wireless!InFront, Wireless!SamePolls, Wireless!NothingOdd
  <2> QED
    BY <1>0, <2>1, <2>3, <2>4, <2>5, <2>6, SameNetworks DEF Wireless!RowsFit, WirelessGoesOn
<1>3. ASSUME Wireless!Reload
     PROVE  WirelessGoesOn
  <2>1. v1' = v1 /\ v2' = v2
    BY <1>3 DEF Wireless!Reload
  <2>2. Wireless!Drawn' = Wireless!Drawn /\ \A s : Wireless!Off(s)' = Wireless!Off(s)
    BY <2>1, SameNetworks
  <2>3. Wireless!WirelessTypeOK'
    BY <1>0, <1>3, <2>1, <2>2 DEF Wireless!WirelessTypeOK, Wireless!Reload, Wireless!SamePolls, Wireless!NoScan, Wireless!NothingOdd
  <2>4. Wireless!RowsAreSections'
    BY <1>0, <1>3, <2>1, <2>2 DEF Wireless!WirelessTypeOK, Wireless!RowsAreSections, Wireless!Reload, Wireless!SamePolls, Wireless!NothingOdd
  <2>5. Wireless!ButtonsSayWhatTheyDo'
    BY <1>0, <1>3, <2>1, <2>2 DEF Wireless!WirelessTypeOK, Wireless!ButtonsSayWhatTheyDo, Wireless!Reload, Wireless!SamePolls, Wireless!NothingOdd
  <2>6. Wireless!ScansEnd' /\ Wireless!ScanHasPoll'
    BY <1>0, <1>3 DEF Wireless!WirelessTypeOK, Wireless!ScansEnd, Wireless!ScanHasPoll, Wireless!Reload, Wireless!SamePolls, Wireless!NothingOdd
  <2> QED
    BY <1>0, <2>1, <2>3, <2>4, <2>5, <2>6, SameNetworks DEF Wireless!RowsFit, WirelessGoesOn
<1>4. ASSUME Wireless!Dismiss
     PROVE  WirelessGoesOn
  <2>1. v1' = v1 /\ v2' = v2
    BY <1>4 DEF Wireless!Dismiss
  <2>2. Wireless!Drawn' = Wireless!Drawn /\ \A s : Wireless!Off(s)' = Wireless!Off(s)
    BY <2>1, SameNetworks
  <2>3. Wireless!WirelessTypeOK'
    BY <1>0, <1>4, <2>1, <2>2 DEF Wireless!WirelessTypeOK, Wireless!Dismiss, Wireless!SamePolls, Wireless!NoScan, Wireless!NothingOdd
  <2>4. Wireless!RowsAreSections'
    BY <1>0, <1>4, <2>1, <2>2 DEF Wireless!WirelessTypeOK, Wireless!RowsAreSections, Wireless!Dismiss, Wireless!SamePolls, Wireless!NothingOdd
  <2>5. Wireless!ButtonsSayWhatTheyDo'
    BY <1>0, <1>4, <2>1, <2>2 DEF Wireless!WirelessTypeOK, Wireless!ButtonsSayWhatTheyDo, Wireless!Dismiss, Wireless!SamePolls, Wireless!NothingOdd
  <2>6. Wireless!ScansEnd' /\ Wireless!ScanHasPoll'
    BY <1>0, <1>4 DEF Wireless!WirelessTypeOK, Wireless!ScansEnd, Wireless!ScanHasPoll, Wireless!Dismiss, Wireless!SamePolls, Wireless!NothingOdd
  <2> QED
    BY <1>0, <2>1, <2>3, <2>4, <2>5, <2>6, SameNetworks DEF Wireless!RowsFit, WirelessGoesOn
<1>5. ASSUME NEW r \in Radio, Wireless!HandleScan(r)
     PROVE  WirelessGoesOn
  <2>1. v1' = v1 /\ v2' = v2
    BY <1>5 DEF Wireless!HandleScan
  <2>2. Wireless!Drawn' = Wireless!Drawn /\ \A s : Wireless!Off(s)' = Wireless!Off(s)
    BY <2>1, SameNetworks
  <2>3. Wireless!WirelessTypeOK'
    BY <1>0, <1>5, <2>1, <2>2 DEF Wireless!WirelessTypeOK, Wireless!HandleScan, Wireless!SamePolls, Wireless!NoScan, Wireless!NothingOdd
  <2>4. Wireless!RowsAreSections'
    BY <1>0, <1>5, <2>1, <2>2 DEF Wireless!WirelessTypeOK, Wireless!RowsAreSections, Wireless!HandleScan, Wireless!SamePolls, Wireless!NothingOdd
  <2>5. Wireless!ButtonsSayWhatTheyDo'
    BY <1>0, <1>5, <2>1, <2>2 DEF Wireless!WirelessTypeOK, Wireless!ButtonsSayWhatTheyDo, Wireless!HandleScan, Wireless!SamePolls, Wireless!NothingOdd
  <2>6. Wireless!ScansEnd' /\ Wireless!ScanHasPoll'
    BY <1>0, <1>5 DEF Wireless!WirelessTypeOK, Wireless!ScansEnd, Wireless!ScanHasPoll, Wireless!HandleScan, Wireless!SamePolls, Wireless!NothingOdd
  <2> QED
    BY <1>0, <2>1, <2>3, <2>4, <2>5, <2>6, SameNetworks DEF Wireless!RowsFit, WirelessGoesOn
<1>6. ASSUME NEW results \in SUBSET Bss, Wireless!HandleScanRefresh(results)
     PROVE  WirelessGoesOn
  <2>1. v1' = v1 /\ v2' = v2
    BY <1>6 DEF Wireless!HandleScanRefresh
  <2>2. Wireless!Drawn' = Wireless!Drawn /\ \A s : Wireless!Off(s)' = Wireless!Off(s)
    BY <2>1, SameNetworks
  <2>3. Wireless!WirelessTypeOK'
    BY <1>0, <1>6, <2>1, <2>2 DEF Wireless!WirelessTypeOK, Wireless!HandleScanRefresh, Wireless!SamePolls, Wireless!NoScan, Wireless!NothingOdd
  <2>4. Wireless!RowsAreSections'
    BY <1>0, <1>6, <2>1, <2>2 DEF Wireless!WirelessTypeOK, Wireless!RowsAreSections, Wireless!HandleScanRefresh, Wireless!SamePolls, Wireless!NothingOdd
  <2>5. Wireless!ButtonsSayWhatTheyDo'
    BY <1>0, <1>6, <2>1, <2>2 DEF Wireless!WirelessTypeOK, Wireless!ButtonsSayWhatTheyDo, Wireless!HandleScanRefresh, Wireless!SamePolls, Wireless!NothingOdd
  <2>6. Wireless!ScansEnd' /\ Wireless!ScanHasPoll'
    BY <1>0, <1>6 DEF Wireless!WirelessTypeOK, Wireless!ScansEnd, Wireless!ScanHasPoll, Wireless!HandleScanRefresh, Wireless!SamePolls, Wireless!NothingOdd
  <2> QED
    BY <1>0, <2>1, <2>3, <2>4, <2>5, <2>6, SameNetworks DEF Wireless!RowsFit, WirelessGoesOn
<1>7. ASSUME Wireless!HandleScanStartStop
     PROVE  WirelessGoesOn
  <2>1. v1' = v1 /\ v2' = v2
    BY <1>7 DEF Wireless!HandleScanStartStop
  <2>2. Wireless!Drawn' = Wireless!Drawn /\ \A s : Wireless!Off(s)' = Wireless!Off(s)
    BY <2>1, SameNetworks
  <2>3. Wireless!WirelessTypeOK'
    BY <1>0, <1>7, <2>1, <2>2 DEF Wireless!WirelessTypeOK, Wireless!ScanHasPoll, Wireless!HandleScanStartStop, Wireless!SamePolls, Wireless!NoScan, Wireless!NothingOdd
  <2>4. Wireless!RowsAreSections'
    BY <1>0, <1>7, <2>1, <2>2 DEF Wireless!WirelessTypeOK, Wireless!RowsAreSections, Wireless!HandleScanStartStop, Wireless!SamePolls, Wireless!NothingOdd
  <2>5. Wireless!ButtonsSayWhatTheyDo'
    BY <1>0, <1>7, <2>1, <2>2 DEF Wireless!WirelessTypeOK, Wireless!ButtonsSayWhatTheyDo, Wireless!HandleScanStartStop, Wireless!SamePolls, Wireless!NothingOdd
  <2>6. Wireless!ScansEnd' /\ Wireless!ScanHasPoll'
    BY <1>0, <1>7 DEF Wireless!WirelessTypeOK, Wireless!ScansEnd, Wireless!ScanHasPoll, Wireless!HandleScanStartStop, Wireless!SamePolls, Wireless!NothingOdd
  <2> QED
    BY <1>0, <2>1, <2>3, <2>4, <2>5, <2>6, SameNetworks DEF Wireless!RowsFit, WirelessGoesOn
<1>8. ASSUME Wireless!HandleScanAbort
     PROVE  WirelessGoesOn
  <2>1. v1' = v1 /\ v2' = v2
    BY <1>8 DEF Wireless!HandleScanAbort
  <2>2. Wireless!Drawn' = Wireless!Drawn /\ \A s : Wireless!Off(s)' = Wireless!Off(s)
    BY <2>1, SameNetworks
  <2>3. Wireless!WirelessTypeOK'
    BY <1>0, <1>8, <2>1, <2>2 DEF Wireless!WirelessTypeOK, Wireless!HandleScanAbort, Wireless!SamePolls, Wireless!NoScan, Wireless!NothingOdd
  <2>4. Wireless!RowsAreSections'
    BY <1>0, <1>8, <2>1, <2>2 DEF Wireless!WirelessTypeOK, Wireless!RowsAreSections, Wireless!HandleScanAbort, Wireless!SamePolls, Wireless!NothingOdd
  <2>5. Wireless!ButtonsSayWhatTheyDo'
    BY <1>0, <1>8, <2>1, <2>2 DEF Wireless!WirelessTypeOK, Wireless!ButtonsSayWhatTheyDo, Wireless!HandleScanAbort, Wireless!SamePolls, Wireless!NothingOdd
  <2>6. Wireless!ScansEnd' /\ Wireless!ScanHasPoll'
    BY <1>0, <1>8 DEF Wireless!WirelessTypeOK, Wireless!ScansEnd, Wireless!ScanHasPoll, Wireless!HandleScanAbort, Wireless!SamePolls, Wireless!NothingOdd
  <2> QED
    BY <1>0, <2>1, <2>3, <2>4, <2>5, <2>6, SameNetworks DEF Wireless!RowsFit, WirelessGoesOn
<1>9. ASSUME NEW bss \in Bss, Wireless!HandleJoin(bss)
     PROVE  WirelessGoesOn
  <2>1. v1' = v1 /\ v2' = v2
    BY <1>9 DEF Wireless!HandleJoin
  <2>2. Wireless!Drawn' = Wireless!Drawn /\ \A s : Wireless!Off(s)' = Wireless!Off(s)
    BY <2>1, SameNetworks
  <2>3. Wireless!WirelessTypeOK'
    BY <1>0, <1>9, <2>1, <2>2 DEF Wireless!WirelessTypeOK, Wireless!HandleJoin, Wireless!SamePolls, Wireless!NoScan, Wireless!NothingOdd
  <2>4. Wireless!RowsAreSections'
    BY <1>0, <1>9, <2>1, <2>2 DEF Wireless!WirelessTypeOK, Wireless!RowsAreSections, Wireless!HandleJoin, Wireless!SamePolls, Wireless!NothingOdd
  <2>5. Wireless!ButtonsSayWhatTheyDo'
    BY <1>0, <1>9, <2>1, <2>2 DEF Wireless!WirelessTypeOK, Wireless!ButtonsSayWhatTheyDo, Wireless!HandleJoin, Wireless!SamePolls, Wireless!NothingOdd
  <2>6. Wireless!ScansEnd' /\ Wireless!ScanHasPoll'
    BY <1>0, <1>9 DEF Wireless!WirelessTypeOK, Wireless!ScansEnd, Wireless!ScanHasPoll, Wireless!HandleJoin, Wireless!SamePolls, Wireless!NothingOdd
  <2> QED
    BY <1>0, <2>1, <2>3, <2>4, <2>5, <2>6, SameNetworks DEF Wireless!RowsFit, WirelessGoesOn
<1>10. ASSUME Wireless!Cancel
     PROVE  WirelessGoesOn
  <2>1. v1' = v1 /\ v2' = v2
    BY <1>10 DEF Wireless!Cancel
  <2>2. Wireless!Drawn' = Wireless!Drawn /\ \A s : Wireless!Off(s)' = Wireless!Off(s)
    BY <2>1, SameNetworks
  <2>3. Wireless!WirelessTypeOK'
    BY <1>0, <1>10, <2>1, <2>2 DEF Wireless!WirelessTypeOK, Wireless!Cancel, Wireless!SamePolls, Wireless!NoScan, Wireless!NothingOdd
  <2>4. Wireless!RowsAreSections'
    BY <1>0, <1>10, <2>1, <2>2 DEF Wireless!WirelessTypeOK, Wireless!RowsAreSections, Wireless!Cancel, Wireless!SamePolls, Wireless!NothingOdd
  <2>5. Wireless!ButtonsSayWhatTheyDo'
    BY <1>0, <1>10, <2>1, <2>2 DEF Wireless!WirelessTypeOK, Wireless!ButtonsSayWhatTheyDo, Wireless!Cancel, Wireless!SamePolls, Wireless!NothingOdd
  <2>6. Wireless!ScansEnd' /\ Wireless!ScanHasPoll'
    BY <1>0, <1>10 DEF Wireless!WirelessTypeOK, Wireless!ScansEnd, Wireless!ScanHasPoll, Wireless!Cancel, Wireless!SamePolls, Wireless!NothingOdd
  <2> QED
    BY <1>0, <2>1, <2>3, <2>4, <2>5, <2>6, SameNetworks DEF Wireless!RowsFit, WirelessGoesOn
<1>11. ASSUME Wireless!SaveDialog
     PROVE  WirelessGoesOn
  <2>1. v1' = v1 /\ v2' = v2
    BY <1>11 DEF Wireless!SaveDialog
  <2>2. Wireless!Drawn' = Wireless!Drawn /\ \A s : Wireless!Off(s)' = Wireless!Off(s)
    BY <2>1, SameNetworks
  <2>3. Wireless!WirelessTypeOK'
    BY <1>0, <1>11, <2>1, <2>2 DEF Wireless!WirelessTypeOK, Wireless!SaveDialog, Wireless!Redraw, Wireless!SamePolls, Wireless!NoScan, Wireless!NothingOdd
  <2>4. Wireless!RowsAreSections'
    BY <1>0, <1>11, <2>1, <2>2 DEF Wireless!WirelessTypeOK, Wireless!RowsAreSections, Wireless!SaveDialog, Wireless!Redraw, Wireless!SamePolls, Wireless!NothingOdd
  <2>5. Wireless!ButtonsSayWhatTheyDo'
    BY <1>0, <1>11, <2>1, <2>2 DEF Wireless!WirelessTypeOK, Wireless!ButtonsSayWhatTheyDo, Wireless!SaveDialog, Wireless!Redraw, Wireless!SamePolls, Wireless!NothingOdd
  <2>6. Wireless!ScansEnd' /\ Wireless!ScanHasPoll'
    BY <1>0, <1>11 DEF Wireless!WirelessTypeOK, Wireless!ScansEnd, Wireless!ScanHasPoll, Wireless!SaveDialog, Wireless!Redraw, Wireless!SamePolls, Wireless!NothingOdd
  <2> QED
    BY <1>0, <2>1, <2>3, <2>4, <2>5, <2>6, SameNetworks DEF Wireless!RowsFit, WirelessGoesOn
<1> QED
  BY <1>1, <1>2, <1>3, <1>4, <1>5, <1>6, <1>7, <1>8, <1>9, <1>10, <1>11

\* What SMT needs to know of the state, piece by piece.
LEMMA WirelessState ==
  ASSUME Wireless!RowsFit
  PROVE  /\ v1 \in SUBSET Radio /\ DOMAIN v2 \subseteq Wireless!Sid /\ v2 \in [DOMAIN v2 -> [radio : Radio, off : BOOLEAN]]
         /\ \A s \in DOMAIN v2 : /\ v2[s] = [radio |-> v2[s].radio, off |-> v2[s].off]
                                 /\ v2[s].radio \in Radio /\ v2[s].off \in BOOLEAN
                                 /\ s # Wireless!None
         /\ Wireless!WirelessTypeOK /\ Wireless!RowsAreSections /\ Wireless!ScanHasPoll
         /\ Wireless!ButtonsSayWhatTheyDo /\ Wireless!ScansEnd
<1>1. Wireless!WirelessTypeOK
  BY DEF Wireless!RowsFit
<1>2. ASSUME NEW s \in DOMAIN v2
      PROVE  /\ v2[s] = [radio |-> v2[s].radio, off |-> v2[s].off]
             /\ v2[s].radio \in Radio /\ v2[s].off \in BOOLEAN
             /\ s # Wireless!None
  <2>1. v2[s] \in [radio : Radio, off : BOOLEAN]
    BY <1>1 DEF Wireless!WirelessTypeOK
  <2>2. s \in Wireless!Sid
    BY <1>1 DEF Wireless!WirelessTypeOK
  <2>3. s # Wireless!None
    BY <2>2, WirelessAssumption DEF Wireless!Sid, Wireless!None
  <2> QED
    BY <2>1, <2>3
<1> QED
  BY <1>1, <1>2 DEF Wireless!RowsFit, Wireless!WirelessTypeOK

\* The rows are drawn anew.
LEMMA RedrawnFits ==
  ASSUME Wireless!Redraw, v1' \in SUBSET Radio, DOMAIN v2' \subseteq Wireless!Sid,
         v2' \in [DOMAIN v2' -> [radio : Radio, off : BOOLEAN]], Wireless!WirelessTypeOK
  PROVE  /\ v3' \in [DOMAIN v3' -> BOOLEAN] /\ DOMAIN v3' = DOMAIN v2'
         /\ Wireless!ButtonsSayWhatTheyDo'
         /\ v11' = [v11 EXCEPT !.radios = {}]
         /\ v11' \in [radios : SUBSET Radio, scans : SUBSET (1..v8), refused : BOOLEAN]
         /\ v11'.scans = v11.scans /\ v11'.refused = v11.refused
<1>1. \A s \in DOMAIN v2' : Wireless!Off(s)' \in BOOLEAN
  <2> SUFFICES ASSUME NEW s \in DOMAIN v2' PROVE Wireless!Off(s)' \in BOOLEAN
    OBVIOUS
  <2>1. v2'[s] \in [radio : Radio, off : BOOLEAN]
    OBVIOUS
  <2>2. v2'[s].off \in BOOLEAN
    BY <2>1
  <2> QED
    BY <2>2 DEF Wireless!Off
<1>2. v3' = [s \in DOMAIN v2' |-> Wireless!Off(s)']
  BY DEF Wireless!Redraw, Wireless!Drawn
<1>3. v11' = [v11 EXCEPT !.radios = {}]
  BY DEF Wireless!Redraw
<1>4. Wireless!ButtonsSayWhatTheyDo'
  BY <1>2 DEF Wireless!ButtonsSayWhatTheyDo
<1> QED
  BY <1>1, <1>2, <1>3, <1>4 DEF Wireless!WirelessTypeOK

\* Networks that are not changed are not woken.
LEMMA NobodyWoken ==
  ASSUME \A s \in DOMAIN v2 \cap DOMAIN v2' : Wireless!Off(s) => Wireless!Off(s)'
  PROVE  Wireless!JoinWakesNoOther
BY DEF Wireless!JoinWakesNoOther

\* Sections without a name get one.
LEMMA MigrationStep ==
  ASSUME Wireless!RowsFit, NEW done \in SUBSET DOMAIN v2, Wireless!HandleMigration(done)
  PROVE  WirelessGoesOn
<1>0. /\ v1 \in SUBSET Radio /\ Wireless!WirelessTypeOK /\ Wireless!RowsAreSections
      /\ Wireless!ScanHasPoll /\ Wireless!ScansEnd
  BY WirelessState
<1>1. /\ v4 = "migration" /\ v4' \in {"migration", "none"}
      /\ UNCHANGED <<v1, v5, v6, v7, v8, v9, v10>> /\ Wireless!Redraw
  BY DEF Wireless!HandleMigration, Wireless!SamePolls
<1>2. /\ DOMAIN v2' \subseteq Wireless!Sid /\ Cardinality(DOMAIN v2') = Cardinality(DOMAIN v2)
      /\ v2' \in [DOMAIN v2' -> [radio : Radio, off : BOOLEAN]]
      /\ \A s \in DOMAIN v2 \cap DOMAIN v2' : v2'[s] = v2[s]
  BY MigrationKeeps
<1>3. /\ v3' \in [DOMAIN v3' -> BOOLEAN] /\ DOMAIN v3' = DOMAIN v2'
      /\ Wireless!ButtonsSayWhatTheyDo'
      /\ v11' \in [radios : SUBSET Radio, scans : SUBSET (1..v8), refused : BOOLEAN]
      /\ v11'.scans = v11.scans /\ v11'.refused = v11.refused
  BY <1>0, <1>1, <1>2, RedrawnFits
<1>4. Wireless!WirelessTypeOK'
  BY <1>0, <1>1, <1>2, <1>3 DEF Wireless!WirelessTypeOK
<1>5. Wireless!FewSections'
  BY <1>2, WirelessCounts DEF Wireless!RowsFit, Wireless!FewSections
<1>6. Wireless!RowsAreSections'
  BY <1>0, <1>1, <1>3 DEF Wireless!RowsAreSections
<1>7. Wireless!ScanHasPoll' /\ Wireless!ScansEnd'
  BY <1>0, <1>1, <1>3 DEF Wireless!ScanHasPoll, Wireless!ScansEnd
<1>8. Wireless!JoinWakesNoOther
  <2>1. \A s \in DOMAIN v2 \cap DOMAIN v2' : Wireless!Off(s)' = Wireless!Off(s)
    BY <1>1, <1>2 DEF Wireless!Off
  <2> QED
    BY <2>1, NobodyWoken
<1>9. Wireless!NamesAreKept
  BY <1>1, <1>2, WirelessCounts DEF Wireless!NamesAreKept
<1> QED
  BY <1>3, <1>4, <1>5, <1>6, <1>7, <1>8, <1>9 DEF WirelessGoesOn, Wireless!RowsFit

\* The switch of a network.
LEMMA SwitchStep ==
  ASSUME Wireless!RowsFit, NEW s \in Wireless!Sid, Wireless!NetworkUpDown(s)
  PROVE  WirelessGoesOn
<1>0. /\ v1 \in SUBSET Radio /\ Wireless!WirelessTypeOK /\ Wireless!RowsAreSections
      /\ Wireless!ScanHasPoll /\ Wireless!ScansEnd
      /\ \A t \in DOMAIN v2 : v2[t].radio \in Radio /\ v2[t].off \in BOOLEAN
      /\ v2 \in [DOMAIN v2 -> [radio : Radio, off : BOOLEAN]]
  BY WirelessState
<1>1. /\ v4 = "none" /\ ~v10 /\ v10' = TRUE /\ s \in DOMAIN v2 /\ s \in DOMAIN v3
      /\ v2' = [v2 EXCEPT ![s].off = ~Wireless!Off(s)]
      /\ v1' \in SUBSET Radio
      /\ UNCHANGED <<v3, v4, v5, v6, v7, v8, v9, v11>>
  BY <1>0 DEF Wireless!NetworkUpDown
<1>2. Wireless!Off(s) \in BOOLEAN
  BY <1>0, <1>1 DEF Wireless!Off
<1>3. /\ DOMAIN v2' = DOMAIN v2 /\ v2' \in [DOMAIN v2 -> [radio : Radio, off : BOOLEAN]]
      /\ \A t \in DOMAIN v2 : t # s => v2'[t] = v2[t]
      /\ \A t \in DOMAIN v2 : v2'[t].radio = v2[t].radio
  BY <1>0, <1>1, <1>2
<1>4. Wireless!WirelessTypeOK'
  BY <1>0, <1>1, <1>3 DEF Wireless!WirelessTypeOK
<1>5. Wireless!FewSections'
  BY <1>3 DEF Wireless!RowsFit, Wireless!FewSections
<1>6. Wireless!RowsAreSections'
  BY <1>0, <1>1, <1>3 DEF Wireless!RowsAreSections
<1>7. Wireless!ScanHasPoll' /\ Wireless!ScansEnd' /\ Wireless!ButtonsSayWhatTheyDo'
  BY <1>0, <1>1 DEF Wireless!ScanHasPoll, Wireless!ScansEnd, Wireless!ButtonsSayWhatTheyDo
<1>8. Wireless!JoinWakesNoOther
  <2> DEFINE woken == {t \in DOMAIN v2 \cap DOMAIN v2' : Wireless!Off(t) /\ ~Wireless!Off(t)'}
             own == {t \in woken : v2[t].off}
  <2>1. own \subseteq {s}
    BY <1>3 DEF Wireless!Off
  <2>2. Cardinality(own) <= 1
    <3>1. IsFiniteSet({s}) /\ Cardinality({s}) = 1
      BY FS_Singleton
    <3> HIDE DEF own
    <3> QED
      BY <2>1, <3>1, FS_Subset
  <2>3. Wireless!Cardinality(own) <= 1
    BY <2>2, WirelessCounts
  <2> QED
    BY <1>1, <2>3 DEF Wireless!JoinWakesNoOther
<1>9. Wireless!NamesAreKept
  BY <1>1, <1>3 DEF Wireless!NamesAreKept
<1> QED
  BY <1>4, <1>5, <1>6, <1>7, <1>8, <1>9 DEF WirelessGoesOn, Wireless!RowsFit

\* Sections that are left out.
LEMMA LessIsFew ==
  ASSUME Wireless!RowsFit, DOMAIN v2' \subseteq DOMAIN v2
  PROVE  Wireless!FewSections'
<1>1. IsFiniteSet(DOMAIN v2) /\ Cardinality(DOMAIN v2) \in Nat /\ Cardinality(DOMAIN v2) <= MaxNets
  BY SectionsAreFew
<1>2. Cardinality(DOMAIN v2') <= Cardinality(DOMAIN v2) /\ Cardinality(DOMAIN v2') \in Nat
  BY <1>1, FS_Subset, FS_CardinalityType
<1>3. Cardinality(DOMAIN v2') <= MaxNets
  BY <1>1, <1>2, WirelessAssumption
<1> QED
  BY <1>3, WirelessCounts DEF Wireless!FewSections

\* A network is removed, or the dialog of a new one is left.
LEMMA RemoveStep ==
  ASSUME Wireless!RowsFit, Wireless!CloseDialog \/ \E s \in Wireless!Sid : Wireless!HandleRemove(s)
  PROVE  WirelessGoesOn
<1>0. /\ v1 \in SUBSET Radio /\ Wireless!WirelessTypeOK /\ Wireless!RowsAreSections
      /\ Wireless!ScanHasPoll /\ Wireless!ScansEnd /\ Wireless!ButtonsSayWhatTheyDo
      /\ \A t \in DOMAIN v2 : t # Wireless!None
      /\ DOMAIN v2 \subseteq Wireless!Sid /\ v2 \in [DOMAIN v2 -> [radio : Radio, off : BOOLEAN]]
  BY WirelessState
<1>1. ASSUME NEW s, v2' = [t \in DOMAIN v2 \ {s} |-> v2[t]], v1' = v1
      PROVE  /\ DOMAIN v2' = DOMAIN v2 \ {s} /\ v2' \in [DOMAIN v2' -> [radio : Radio, off : BOOLEAN]]
             /\ \A t \in DOMAIN v2' : v2'[t] = v2[t] /\ Wireless!Off(t)' = Wireless!Off(t)
             /\ Wireless!FewSections'
             /\ Wireless!JoinWakesNoOther
             /\ v4 # "migration" => Wireless!NamesAreKept
  <2>1. DOMAIN v2' = DOMAIN v2 \ {s} /\ v2' \in [DOMAIN v2' -> [radio : Radio, off : BOOLEAN]]
    BY <1>0, <1>1
  <2>2. \A t \in DOMAIN v2' : v2'[t] = v2[t] /\ Wireless!Off(t)' = Wireless!Off(t)
    BY <1>1 DEF Wireless!Off
  <2>3. Wireless!FewSections'
    BY <2>1, LessIsFew
  <2>4. Wireless!JoinWakesNoOther
    BY <2>2, NobodyWoken
  <2> QED
    BY <2>1, <2>2, <2>3, <2>4 DEF Wireless!NamesAreKept
<1>2. ASSUME NEW s \in Wireless!Sid, Wireless!HandleRemove(s)
      PROVE  WirelessGoesOn
  <2>1. /\ v4 = "none" /\ ~v10 /\ v2' = [t \in DOMAIN v2 \ {s} |-> v2[t]]
        /\ UNCHANGED <<v1, v4, v5, v6, v7, v8, v9, v10>> /\ Wireless!Redraw
    BY <1>2 DEF Wireless!HandleRemove, Wireless!SamePolls
  <2>2. /\ DOMAIN v2' = DOMAIN v2 \ {s} /\ v2' \in [DOMAIN v2' -> [radio : Radio, off : BOOLEAN]]
        /\ Wireless!FewSections' /\ Wireless!JoinWakesNoOther /\ Wireless!NamesAreKept
    BY <1>1, <2>1
  <2>3. /\ v3' \in [DOMAIN v3' -> BOOLEAN] /\ DOMAIN v3' = DOMAIN v2'
        /\ Wireless!ButtonsSayWhatTheyDo'
        /\ v11' \in [radios : SUBSET Radio, scans : SUBSET (1..v8), refused : BOOLEAN]
        /\ v11'.scans = v11.scans /\ v11'.refused = v11.refused
    BY <1>0, <2>1, <2>2, RedrawnFits
  <2>4. Wireless!WirelessTypeOK'
    BY <1>0, <2>1, <2>2, <2>3 DEF Wireless!WirelessTypeOK
  <2>5. Wireless!RowsAreSections'
    BY <1>0, <2>1, <2>2, <2>3 DEF Wireless!RowsAreSections
  <2>6. Wireless!ScanHasPoll' /\ Wireless!ScansEnd'
    BY <1>0, <2>1, <2>3 DEF Wireless!ScanHasPoll, Wireless!ScansEnd
  <2> QED
    BY <2>2, <2>3, <2>4, <2>5, <2>6 DEF WirelessGoesOn, Wireless!RowsFit
<1>3. ASSUME Wireless!CloseDialog
      PROVE  WirelessGoesOn
  <2>1. /\ v4 = "edit" /\ v4' = "none" /\ v2' = [t \in DOMAIN v2 \ {v9} |-> v2[t]] /\ v9' = Wireless!None
        /\ UNCHANGED <<v1, v3, v5, v6, v7, v8, v10, v11>>
    BY <1>3 DEF Wireless!CloseDialog, Wireless!SamePolls
  <2>2. /\ DOMAIN v2' = DOMAIN v2 \ {v9} /\ v2' \in [DOMAIN v2' -> [radio : Radio, off : BOOLEAN]]
        /\ \A t \in DOMAIN v2' : v2'[t] = v2[t] /\ Wireless!Off(t)' = Wireless!Off(t)
        /\ Wireless!FewSections' /\ Wireless!JoinWakesNoOther /\ Wireless!NamesAreKept
    BY <1>1, <2>1
  <2>3. Wireless!WirelessTypeOK'
    BY <1>0, <2>1, <2>2 DEF Wireless!WirelessTypeOK
  <2>4. Wireless!RowsAreSections'
    BY <1>0, <2>1, <2>2 DEF Wireless!RowsAreSections
  <2>5. Wireless!ButtonsSayWhatTheyDo'
    BY <1>0, <2>1, <2>2 DEF Wireless!ButtonsSayWhatTheyDo
  <2>6. Wireless!ScanHasPoll' /\ Wireless!ScansEnd'
    BY <1>0, <2>1 DEF Wireless!ScanHasPoll, Wireless!ScansEnd
  <2> QED
    BY <2>2, <2>3, <2>4, <2>5, <2>6 DEF WirelessGoesOn, Wireless!RowsFit
<1> QED
  BY <1>2, <1>3

\* A section is added to f, which some of the sections are left in.
LEMMA AddedFits ==
  ASSUME Wireless!RowsFit, Wireless!Cardinality(DOMAIN v2) < MaxNets,
         NEW f, f \in [DOMAIN f -> [radio : Radio, off : BOOLEAN]], DOMAIN f \subseteq DOMAIN v2,
         NEW s, s = Wireless!NextFreeSid(Wireless!Cardinality(DOMAIN v2)),
         NEW r \in Radio, v2' = Wireless!With(f, s, r)
  PROVE  /\ s \notin DOMAIN v2 /\ s \in Wireless!Sid /\ DOMAIN v2' = DOMAIN f \cup {s}
         /\ DOMAIN v2' \subseteq Wireless!Sid /\ v2' \in [DOMAIN v2' -> [radio : Radio, off : BOOLEAN]]
         /\ \A t \in DOMAIN f : v2'[t] = f[t]
         /\ v2'[s].radio = r
         /\ Wireless!FewSections'
<1> DEFINE C == Cardinality(DOMAIN v2)
<1>1. /\ DOMAIN v2 \in SUBSET Int /\ IsFiniteSet(DOMAIN v2) /\ C \in Nat /\ C < MaxNets
      /\ DOMAIN v2 \subseteq Wireless!Sid
  BY SectionsAreFew, WirelessCounts, WirelessState
<1>2. s \in Nat /\ s <= 2 * C /\ s \notin DOMAIN v2
  BY SidIsNew, WirelessCounts
<1>3. s \in Wireless!Sid
  <2> HIDE DEF C
  <2> QED
    BY <1>1, <1>2, WirelessAssumption DEF Wireless!Sid
<1>4. /\ DOMAIN v2' = DOMAIN f \cup {s} /\ v2' \in [DOMAIN v2' -> [radio : Radio, off : BOOLEAN]]
      /\ \A t \in DOMAIN f : v2'[t] = f[t]
      /\ v2'[s].radio = r
  <2>1. s \notin DOMAIN f
    BY <1>2
  <2> QED
    <3>1. v2' = [t \in DOMAIN f \cup {s} |-> IF t = s THEN [radio |-> r, off |-> FALSE] ELSE f[t]]
      BY DEF Wireless!With
    <3>2. [radio |-> r, off |-> FALSE] \in [radio : Radio, off : BOOLEAN]
      OBVIOUS
    <3>3. DOMAIN v2' = DOMAIN f \cup {s} /\ v2'[s] = [radio |-> r, off |-> FALSE]
      BY <3>1
    <3>4. \A t \in DOMAIN f : v2'[t] = f[t]
      BY <2>1, <3>1
    <3>5. v2' \in [DOMAIN f \cup {s} -> [radio : Radio, off : BOOLEAN]]
      BY <3>1, <3>2
    <3> QED
      BY <3>3, <3>4, <3>5
<1>5. Wireless!FewSections'
  <2>1. IsFiniteSet(DOMAIN f) /\ Cardinality(DOMAIN f) <= C /\ Cardinality(DOMAIN f) \in Nat
    BY <1>1, FS_Subset, FS_CardinalityType
  <2>2. Cardinality(DOMAIN f \cup {s}) = Cardinality(DOMAIN f) + 1
    BY <1>2, <2>1, FS_AddElement
  <2> HIDE DEF C
  <2>3. Cardinality(DOMAIN v2') <= MaxNets
    BY <1>1, <1>4, <2>1, <2>2, WirelessAssumption
  <2> QED
    BY <2>3, WirelessCounts DEF Wireless!FewSections
<1> QED
  BY <1>1, <1>2, <1>3, <1>4, <1>5

\* A network is added to a radio.
LEMMA AddStep ==
  ASSUME Wireless!RowsFit, NEW r \in Radio, Wireless!HandleAdd(r)
  PROVE  WirelessGoesOn
<1> DEFINE s == Wireless!NextFreeSid(Wireless!Cardinality(DOMAIN v2))
<1>0. /\ v1 \in SUBSET Radio /\ Wireless!WirelessTypeOK /\ Wireless!RowsAreSections
      /\ Wireless!ScanHasPoll /\ Wireless!ScansEnd /\ Wireless!ButtonsSayWhatTheyDo
      /\ DOMAIN v2 \subseteq Wireless!Sid /\ v2 \in [DOMAIN v2 -> [radio : Radio, off : BOOLEAN]]
      /\ \A t \in DOMAIN v2 : v2[t].off \in BOOLEAN /\ t # Wireless!None
  BY WirelessState
<1>1. /\ v4 = "none" /\ ~v10 /\ Wireless!Cardinality(DOMAIN v2) < MaxNets
      /\ v1' = v1 \ {r} /\ v2' = Wireless!With(v2, s, r) /\ v9' = s /\ v4' = "edit"
      /\ v11' = [v11 EXCEPT !.radios = IF r \in v1 THEN @ \cup {r} ELSE @]
      /\ UNCHANGED <<v3, v5, v6, v7, v8, v10>>
  BY DEF Wireless!HandleAdd, Wireless!SamePolls
<1> HIDE DEF s
<1>2. /\ s \notin DOMAIN v2 /\ s \in Wireless!Sid /\ DOMAIN v2' = DOMAIN v2 \cup {s}
      /\ DOMAIN v2' \subseteq Wireless!Sid /\ v2' \in [DOMAIN v2' -> [radio : Radio, off : BOOLEAN]]
      /\ \A t \in DOMAIN v2 : v2'[t] = v2[t]
      /\ Wireless!FewSections'
  BY <1>0, <1>1, AddedFits DEF s
<1>3. /\ v11' \in [radios : SUBSET Radio, scans : SUBSET (1..v8), refused : BOOLEAN]
      /\ v11'.scans = v11.scans /\ v11'.refused = v11.refused /\ v11.radios \subseteq v11'.radios
      /\ r \in v1 => r \in v11'.radios
  BY <1>0, <1>1 DEF Wireless!WirelessTypeOK
<1>4. Wireless!WirelessTypeOK'
  BY <1>0, <1>1, <1>2, <1>3 DEF Wireless!WirelessTypeOK
<1>5. Wireless!RowsAreSections'
  BY <1>0, <1>1, <1>2, <1>3 DEF Wireless!RowsAreSections
<1>6. Wireless!ScanHasPoll' /\ Wireless!ScansEnd'
  BY <1>0, <1>1, <1>3 DEF Wireless!ScanHasPoll, Wireless!ScansEnd
<1>7. Wireless!ButtonsSayWhatTheyDo'
  <2> SUFFICES ASSUME NEW t \in DOMAIN v3, t \in DOMAIN v2', ~v11'.refused, v2'[t].radio \notin v11'.radios
               PROVE  v3[t] = Wireless!Off(t)'
    BY <1>1 DEF Wireless!ButtonsSayWhatTheyDo
  <2>1. t \in DOMAIN v2 /\ v2'[t] = v2[t]
    BY <1>0, <1>2, <1>3 DEF Wireless!RowsAreSections
  <2>2. v3[t] = Wireless!Off(t)
    BY <1>0, <1>1, <1>3, <2>1 DEF Wireless!ButtonsSayWhatTheyDo
  <2>3. Wireless!Off(t)' = Wireless!Off(t)
    BY <1>1, <1>3, <2>1 DEF Wireless!Off
  <2> QED
    BY <2>2, <2>3
<1>8. Wireless!JoinWakesNoOther
  <2> DEFINE woken == {t \in DOMAIN v2 \cap DOMAIN v2' : Wireless!Off(t) /\ ~Wireless!Off(t)'}
             own == {t \in woken : v2[t].off}
  <2>1. own = {}
    BY <1>2 DEF Wireless!Off
  <2>2. Wireless!Cardinality(own) = 0
    BY <2>1, FS_EmptySet, WirelessCounts
  <2> QED
    BY <1>1, <2>2 DEF Wireless!JoinWakesNoOther
<1>9. Wireless!NamesAreKept
  BY <1>1, <1>2 DEF Wireless!NamesAreKept
<1> QED
  BY <1>2, <1>4, <1>5, <1>6, <1>7, <1>8, <1>9 DEF WirelessGoesOn, Wireless!RowsFit

\* A network in reach is joined, with the others of the radio or in their place.
LEMMA JoinStep ==
  ASSUME Wireless!RowsFit, NEW r \in Radio, NEW replace \in BOOLEAN, NEW saved \in BOOLEAN,
         Wireless!HandleJoinConfirm(r, replace, saved)
  PROVE  WirelessGoesOn
<1> DEFINE s == Wireless!NextFreeSid(Wireless!Cardinality(DOMAIN v2))
           f == Wireless!Others(r, replace)
<1>0. /\ v1 \in SUBSET Radio /\ Wireless!WirelessTypeOK /\ Wireless!RowsAreSections
      /\ Wireless!ScanHasPoll /\ Wireless!ScansEnd
      /\ v2 \in [DOMAIN v2 -> [radio : Radio, off : BOOLEAN]]
      /\ \A t \in DOMAIN v2 : v2[t].radio \in Radio /\ v2[t].off \in BOOLEAN
  BY WirelessState
<1>1. /\ v4 = "join" /\ Wireless!Cardinality(DOMAIN v2) < MaxNets
      /\ v2' = Wireless!With(f, s, r) /\ v1' = v1 \ {r} /\ v5' = Wireless!NoScan
      /\ \/ v4' = "edit" /\ Wireless!Redraw
         \/ v4' = "error" /\ v11' = [v11 EXCEPT !.refused = TRUE] /\ v3' = v3
      /\ UNCHANGED <<v6, v7, v8, v9, v10>>
  BY DEF Wireless!HandleJoinConfirm, Wireless!SamePolls
<1>2. /\ DOMAIN f \subseteq DOMAIN v2 /\ f \in [DOMAIN f -> [radio : Radio, off : BOOLEAN]]
      /\ \A t \in DOMAIN f : /\ f[t].radio = v2[t].radio
                             /\ v2[t].off \/ (v2[t].radio = r /\ r \in v1) => f[t].off
  <2>1. DOMAIN f \subseteq DOMAIN v2 /\ f = [t \in DOMAIN f |-> f[t]]
    BY DEF Wireless!Others
  <2>2. ASSUME NEW t \in DOMAIN f
        PROVE  /\ f[t] \in [radio : Radio, off : BOOLEAN] /\ f[t].radio = v2[t].radio
               /\ v2[t].off \/ (v2[t].radio = r /\ r \in v1) => f[t].off
    <3>1. f[t] = IF v2[t].radio = r /\ r \in v1 THEN [v2[t] EXCEPT !.off = TRUE] ELSE v2[t]
      BY <2>1, <2>2 DEF Wireless!Others
    <3>2. v2[t] \in [radio : Radio, off : BOOLEAN]
      BY <1>0, <2>1
    <3> HIDE DEF f
    <3> QED
      BY <3>1, <3>2
  <2> HIDE DEF f
  <2> QED
    BY <2>1, <2>2
<1> HIDE DEF f, s
<1>3. /\ s \notin DOMAIN v2 /\ s \in Wireless!Sid /\ DOMAIN v2' = DOMAIN f \cup {s}
      /\ DOMAIN v2' \subseteq Wireless!Sid /\ v2' \in [DOMAIN v2' -> [radio : Radio, off : BOOLEAN]]
      /\ \A t \in DOMAIN f : v2'[t] = f[t]
      /\ Wireless!FewSections'
  BY <1>1, <1>2, AddedFits DEF s
<1>4. /\ v3' \in [DOMAIN v3' -> BOOLEAN] /\ DOMAIN v3' \subseteq Wireless!Sid
      /\ v11' \in [radios : SUBSET Radio, scans : SUBSET (1..v8), refused : BOOLEAN]
      /\ v11'.scans = v11.scans
      /\ Wireless!ButtonsSayWhatTheyDo'
      /\ v11'.refused \/ (~v11.refused /\ v4' = "edit" /\ DOMAIN v3' = DOMAIN v2')
  <2>1. CASE v4' = "edit" /\ Wireless!Redraw
    <3>1. /\ v3' \in [DOMAIN v3' -> BOOLEAN] /\ DOMAIN v3' = DOMAIN v2'
          /\ Wireless!ButtonsSayWhatTheyDo'
          /\ v11' \in [radios : SUBSET Radio, scans : SUBSET (1..v8), refused : BOOLEAN]
          /\ v11'.scans = v11.scans /\ v11'.refused = v11.refused
      BY <1>0, <1>1, <1>3, <2>1, RedrawnFits
    <3> QED
      BY <1>3, <2>1, <3>1
  <2>2. CASE v4' = "error" /\ v11' = [v11 EXCEPT !.refused = TRUE] /\ v3' = v3
    BY <1>0, <2>2 DEF Wireless!WirelessTypeOK, Wireless!ButtonsSayWhatTheyDo
  <2> QED
    BY <1>1, <2>1, <2>2
<1>5. Wireless!WirelessTypeOK'
  BY <1>0, <1>1, <1>3, <1>4 DEF Wireless!WirelessTypeOK, Wireless!NoScan
<1>6. Wireless!RowsAreSections'
  BY <1>0, <1>1, <1>3, <1>4 DEF Wireless!RowsAreSections
<1>7. Wireless!ScanHasPoll' /\ Wireless!ScansEnd'
  BY <1>0, <1>1, <1>4 DEF Wireless!ScanHasPoll, Wireless!ScansEnd
<1>8. Wireless!JoinWakesNoOther
  <2>1. ASSUME NEW t \in DOMAIN v2 \cap DOMAIN v2', Wireless!Off(t)
        PROVE  Wireless!Off(t)'
    <3>1. t \in DOMAIN f /\ v2'[t] = f[t]
      BY <1>3, <2>1
    <3> QED
      BY <1>1, <1>2, <2>1, <3>1 DEF Wireless!Off
  <2> QED
    BY <2>1, NobodyWoken
<1>9. Wireless!NamesAreKept
  BY <1>1, <1>2, <1>3 DEF Wireless!NamesAreKept
<1> QED
  BY <1>3, <1>4, <1>5, <1>6, <1>7, <1>8, <1>9 DEF WirelessGoesOn, Wireless!RowsFit

\* Whatever is clicked or scanned.
LEMMA WirelessStep ==
  ASSUME Wireless!RowsFit, Wireless!WirelessNext
  PROVE  WirelessGoesOn
BY WirelessRests, MigrationStep, SwitchStep, RemoveStep, AddStep, JoinStep DEF Wireless!WirelessNext

\* The page when it is opened.
LEMMA WirelessStart ==
  ASSUME Wireless!WirelessInit
  PROVE  Wireless!RowsFit
<1>1. PICK ids \in SUBSET (-MaxNets..MaxNets) :
        Wireless!Cardinality(ids) <= MaxNets /\ v2 \in [ids -> [radio : Radio, off : BOOLEAN]]
  BY DEF Wireless!WirelessInit
<1>2. DOMAIN v2 = ids /\ DOMAIN v2 \subseteq Wireless!Sid
  BY <1>1, WirelessAssumption DEF Wireless!Sid
<1>3. /\ v1 \in SUBSET Radio /\ v3 = Wireless!Drawn /\ v4 \in {"migration", "none"}
      /\ v5 = Wireless!NoScan /\ v6 = {} /\ v7 = 0 /\ v8 = 0 /\ v9 = Wireless!None /\ v10 = FALSE
      /\ v11 = Wireless!NothingOdd
  BY DEF Wireless!WirelessInit
<1>4. \A s \in DOMAIN v2 : Wireless!Off(s) \in BOOLEAN
  <2> SUFFICES ASSUME NEW s \in DOMAIN v2 PROVE Wireless!Off(s) \in BOOLEAN
    OBVIOUS
  <2>1. v2[s] \in [radio : Radio, off : BOOLEAN]
    BY <1>1, <1>2
  <2>2. v2[s].off \in BOOLEAN
    BY <2>1
  <2> QED
    BY <2>2 DEF Wireless!Off
<1>5. DOMAIN v3 = DOMAIN v2 /\ v3 \in [DOMAIN v3 -> BOOLEAN] /\ \A s \in DOMAIN v2 : v3[s] = Wireless!Off(s)
  BY <1>3, <1>4 DEF Wireless!Drawn
<1>6. Wireless!WirelessTypeOK
  <2>1. v2 \in [DOMAIN v2 -> [radio : Radio, off : BOOLEAN]]
    BY <1>1, <1>2
  <2>2. v5 \in [radio : SUBSET Radio, seen : SUBSET Bss]
    BY <1>3 DEF Wireless!NoScan
  <2>3. v11 \in [radios : SUBSET Radio, scans : SUBSET (1..v8), refused : BOOLEAN]
    BY <1>3 DEF Wireless!NothingOdd
  <2> QED
    <3>1. v8 \in 0..2 /\ v6 \subseteq 1..v8 /\ v7 \in 0..v8
      BY <1>3
    <3>2. DOMAIN v3 \subseteq Wireless!Sid /\ v3 \in [DOMAIN v3 -> BOOLEAN]
      BY <1>2, <1>5
    <3> QED
      BY <1>2, <1>3, <2>1, <2>2, <2>3, <3>1, <3>2 DEF Wireless!WirelessTypeOK
<1>7. Wireless!FewSections /\ Wireless!RowsAreSections /\ Wireless!ScanHasPoll
  BY <1>1, <1>2, <1>3, <1>5 DEF Wireless!FewSections, Wireless!RowsAreSections, Wireless!ScanHasPoll
<1>8. Wireless!ButtonsSayWhatTheyDo /\ Wireless!ScansEnd
  BY <1>3, <1>5 DEF Wireless!ButtonsSayWhatTheyDo, Wireless!ScansEnd
<1> QED
  BY <1>6, <1>7, <1>8 DEF Wireless!RowsFit

-----------------------------------------------------------------------------
(* Zones of the firewall                                                   *)

\* The names of the zones of a sequence of zones.
NamesOf(zs) == {zs[i].name : i \in DOMAIN zs} \cup {Zones!None}

\* Rules that are about zones of zs.
About(zs, rs) == rs \subseteq Zones!Rule /\ \A r \in rs : r.src \in NamesOf(zs) /\ r.dest \in NamesOf(zs)

WithNetworks(z, nets) == [z EXCEPT !.networks = nets]

WithName(z, name) == [z EXCEPT !.name = name]

\* What is known of each variable.
LEMMA ZonesState ==
  ASSUME Zones!ZonesFit
  PROVE  /\ v1 \in Seq(Zones!Zone) /\ v2 \subseteq Zones!Rule /\ v3 \subseteq ZoneNetwork
         /\ v4 \in BOOLEAN /\ About(v1, v2)
BY DEF Zones!ZonesFit, Zones!ZoneTypeOK, Zones!RulesHaveZones, About, NamesOf

\* What has to be shown of a step.
LEMMA ZonesKept ==
  ASSUME v1' \in Seq(Zones!Zone), v3' \subseteq ZoneNetwork, v4' \in BOOLEAN, About(v1', v2')
  PROVE  Zones!ZonesFit'
BY DEF Zones!ZonesFit, Zones!ZoneTypeOK, Zones!RulesHaveZones, About, NamesOf

\* Zones with the names they had, or more names: the rules are still about them.
LEMMA StillAbout ==
  ASSUME NEW zs, NEW ys, NEW rs, NEW qs, About(zs, rs), NamesOf(zs) \subseteq NamesOf(ys), qs \subseteq rs
  PROVE  About(ys, qs)
BY DEF About

\* The element of a sequence of zones is a zone.
LEMMA ZoneAt ==
  ASSUME NEW zs \in Seq(Zones!Zone), NEW i \in DOMAIN zs
  PROVE  zs[i] \in Zones!Zone
OBVIOUS

\* Other networks do not change the name of a zone.
LEMMA NetworksSet ==
  ASSUME NEW zs \in Seq(Zones!Zone), NEW i \in DOMAIN zs, NEW nets \in SUBSET ZoneNetwork
  PROVE  /\ WithNetworks(zs[i], nets) \in Zones!Zone
         /\ WithNetworks(zs[i], nets).name = zs[i].name
         /\ zs[i] \in Zones!Zone
<1> DEFINE z == zs[i]
<1>1. z \in Zones!Zone
  BY ZoneAt
<1> HIDE DEF z
<1>2. WithNetworks(z, nets) \in Zones!Zone /\ WithNetworks(z, nets).name = z.name
  BY <1>1 DEF WithNetworks, Zones!Zone
<1> QED
  BY <1>1, <1>2 DEF z

\* A zone with another name is a zone of that name.
LEMMA NameSet ==
  ASSUME NEW zs \in Seq(Zones!Zone), NEW i \in DOMAIN zs, NEW name \in ZoneName
  PROVE  /\ WithName(zs[i], name) \in Zones!Zone
         /\ WithName(zs[i], name).name = name
         /\ zs[i] \in Zones!Zone
<1> DEFINE z == zs[i]
<1>1. z \in Zones!Zone
  BY ZoneAt
<1> HIDE DEF z
<1>2. WithName(z, name) \in Zones!Zone /\ WithName(z, name).name = name
  BY <1>1 DEF WithName, Zones!Zone
<1> QED
  BY <1>1, <1>2 DEF z

\* Writing the networks of a zone changes no names.
LEMMA NetworksWritten ==
  ASSUME NEW zs \in Seq(Zones!Zone), NEW name, NEW nets \in SUBSET ZoneNetwork
  PROVE  LET ys == Zones!WriteNetworks(zs, name, nets)
         IN ys \in Seq(Zones!Zone) /\ NamesOf(ys) = NamesOf(zs)
<1> DEFINE ys == Zones!WriteNetworks(zs, name, nets)
<1>1. DOMAIN ys = DOMAIN zs /\ \A i \in DOMAIN zs : ys[i] \in Zones!Zone /\ ys[i].name = zs[i].name
  <2>1. \A i \in DOMAIN zs : ys[i] \in {zs[i], WithNetworks(zs[i], nets)}
    BY DEF Zones!WriteNetworks, WithNetworks
  <2>2. DOMAIN ys = DOMAIN zs
    BY DEF Zones!WriteNetworks
  <2> HIDE DEF ys
  <2> QED
    BY <2>1, <2>2, NetworksSet
<1>2. ys = [i \in 1..Len(zs) |-> ys[i]] /\ DOMAIN zs = 1..Len(zs)
  BY DEF Zones!WriteNetworks
<1> HIDE DEF ys
<1>3. ys \in Seq(Zones!Zone)
  BY <1>1, <1>2
<1> QED
  BY <1>1, <1>3 DEF NamesOf, ys

\* Neither does taking a network out of all zones.
LEMMA NetworkTaken ==
  ASSUME NEW zs \in Seq(Zones!Zone), NEW net
  PROVE  LET ys == Zones!Without(zs, net)
         IN ys \in Seq(Zones!Zone) /\ NamesOf(ys) = NamesOf(zs)
<1> DEFINE ys == Zones!Without(zs, net)
<1>1. DOMAIN ys = DOMAIN zs /\ \A i \in DOMAIN zs : ys[i] \in Zones!Zone /\ ys[i].name = zs[i].name
  <2>1. \A i \in DOMAIN zs : ys[i] = WithNetworks(zs[i], zs[i].networks \ {net})
    BY DEF Zones!Without, WithNetworks
  <2>2. \A i \in DOMAIN zs : zs[i].networks \ {net} \in SUBSET ZoneNetwork
    BY ZoneAt DEF Zones!Zone
  <2>3. DOMAIN ys = DOMAIN zs
    BY DEF Zones!Without
  <2> HIDE DEF ys
  <2> QED
    BY <2>1, <2>2, <2>3, NetworksSet
<1>2. ys = [i \in 1..Len(zs) |-> ys[i]] /\ DOMAIN zs = 1..Len(zs)
  BY DEF Zones!Without
<1> HIDE DEF ys
<1>3. ys \in Seq(Zones!Zone)
  BY <1>1, <1>2
<1> QED
  BY <1>1, <1>3 DEF NamesOf, ys

\* The zones that are renamed are those of the rules.
LEMMA ZonesRenamed ==
  ASSUME NEW zs \in Seq(Zones!Zone), NEW rs, About(zs, rs),
         NEW old \in ZoneName, NEW new \in ZoneName, Zones!IsUsed(zs, old)
  PROVE  LET ys == Zones!RenameZones(zs, old, new)
         IN ys \in Seq(Zones!Zone) /\ About(ys, Zones!RenameInRules(zs, rs, old, new))
<1> DEFINE ys == Zones!RenameZones(zs, old, new)
           qs == Zones!RenameInRules(zs, rs, old, new)
<1>1. CASE Zones!IsUsed(zs, new)
  BY <1>1 DEF Zones!RenameZones, Zones!RenameInRules
<1>2. CASE ~Zones!IsUsed(zs, new)
  <2>1. /\ DOMAIN ys = DOMAIN zs
        /\ \A i \in DOMAIN zs : ys[i] \in Zones!Zone /\ ys[i].name = IF zs[i].name = old THEN new ELSE zs[i].name
    <3>1. \A i \in DOMAIN zs : ys[i] = IF zs[i].name = old THEN WithName(zs[i], new) ELSE zs[i]
      BY <1>2 DEF Zones!RenameZones, WithName
    <3>2. DOMAIN ys = DOMAIN zs
      BY <1>2 DEF Zones!RenameZones
    <3> HIDE DEF ys
    <3> QED
      BY <3>1, <3>2, NameSet
  <2>2. ys = [i \in 1..Len(zs) |-> ys[i]] /\ DOMAIN zs = 1..Len(zs)
    BY <1>2 DEF Zones!RenameZones
  <2>3. ys \in Seq(Zones!Zone)
    <3> HIDE DEF ys
    <3> QED
      BY <2>1, <2>2
  <2> DEFINE Renamed(name) == IF name = old THEN new ELSE name
  <2>4. qs = {[r EXCEPT !.src = Renamed(@), !.dest = Renamed(@)] : r \in rs}
    BY <1>2 DEF Zones!RenameInRules
  <2>5. \A name \in NamesOf(zs) : Renamed(name) \in NamesOf(ys)
    <3>1. PICK k \in DOMAIN zs : zs[k].name = old
      BY DEF Zones!IsUsed
    <3>2. ys[k].name = new /\ k \in DOMAIN ys
      BY <2>1, <3>1
    <3>3. new \in NamesOf(ys)
      <4> HIDE DEF ys
      <4> QED
        BY <3>2 DEF NamesOf
    <3>4. ASSUME NEW name \in NamesOf(zs), name # old, name # Zones!None
          PROVE  name \in NamesOf(ys)
      <4>1. PICK i \in DOMAIN zs : zs[i].name = name
        BY <3>4 DEF NamesOf
      <4>2. ys[i].name = name /\ i \in DOMAIN ys
        BY <2>1, <3>4, <4>1
      <4> HIDE DEF ys
      <4> QED
        BY <4>2 DEF NamesOf
    <3>5. Zones!None \in NamesOf(ys)
      BY DEF NamesOf
    <3> HIDE DEF ys
    <3> QED
      BY <3>3, <3>4, <3>5
  <2>6. ASSUME NEW r \in rs
        PROVE  LET q == [r EXCEPT !.src = Renamed(@), !.dest = Renamed(@)]
               IN q \in Zones!Rule /\ q.src \in NamesOf(ys) /\ q.dest \in NamesOf(ys)
    <3>1. r \in Zones!Rule /\ r.src \in NamesOf(zs) /\ r.dest \in NamesOf(zs)
      BY DEF About
    <3> HIDE DEF ys
    <3> QED
      BY <2>5, <3>1 DEF Zones!Rule
  <2>7. About(ys, qs)
    <3> HIDE DEF ys, qs, Renamed
    <3> QED
      BY <2>4, <2>6 DEF About
  <2> QED
    BY <2>3, <2>7
<1> QED
  BY <1>1, <1>2

\* What the dialog writes of forwardings is about its zone and those chosen.
LEMMA ForwardsWritten ==
  ASSUME NEW zs, NEW rs, About(zs, rs), NEW name \in ZoneName, name \in NamesOf(zs),
         NEW out, NEW in, out \cup in \subseteq NamesOf(zs) \cap ZoneName
  PROVE  About(zs, Zones!WriteForwards(rs, name, out, in))
<1>1. \A s, d \in NamesOf(zs) \cap ZoneName :
        Zones!Forwarding(s, d) \in Zones!Rule /\ Zones!Forwarding(s, d).src = s /\ Zones!Forwarding(s, d).dest = d
  BY DEF Zones!Forwarding, Zones!Rule
<1>2. \A r \in Zones!WriteForwards(rs, name, out, in) :
        \/ r \in rs
        \/ \E d \in out : r = Zones!Forwarding(name, d)
        \/ \E s \in in : r = Zones!Forwarding(s, name)
  BY DEF Zones!WriteForwards
<1> QED
  BY <1>1, <1>2 DEF About

\* The dialog of a zone is saved.
LEMMA DialogSaved ==
  ASSUME NEW zs \in Seq(Zones!Zone), About(zs, v2), NEW z \in DOMAIN zs, NEW name \in ZoneName,
         NEW nets \in SUBSET ZoneNetwork, NEW out, NEW in, out \cup in \subseteq NamesOf(zs) \cap ZoneName
  PROVE  LET saved == Zones!Saved(zs, z, name, nets, out, in)
         IN saved.zones \in Seq(Zones!Zone) /\ About(saved.zones, saved.rules)
<1> DEFINE read == IF zs[z].name = Zones!None THEN name ELSE zs[z].name
           named == [zs EXCEPT ![z].name = read]
           renamed == Zones!RenameZones(named, read, name)
           written == Zones!WriteForwards(v2, read, out, in)
           saved == Zones!Saved(zs, z, name, nets, out, in)
<1>1. zs[z] \in Zones!Zone /\ read \in ZoneName
  <2>1. zs[z] \in Zones!Zone
    BY ZoneAt
  <2> QED
    BY <2>1 DEF Zones!Zone
<1>2. /\ DOMAIN named = DOMAIN zs
      /\ \A i \in DOMAIN zs : named[i] \in Zones!Zone /\ named[i].name = IF i = z THEN read ELSE zs[i].name
  <2>1. \A i \in DOMAIN zs : named[i] = IF i = z THEN WithName(zs[i], read) ELSE zs[i]
    BY DEF WithName
  <2>2. DOMAIN named = DOMAIN zs
    OBVIOUS
  <2> HIDE DEF named, read
  <2> QED
    BY <1>1, <2>1, <2>2, NameSet
<1>3. named \in Seq(Zones!Zone)
  <2>1. named = [i \in 1..Len(zs) |-> named[i]] /\ DOMAIN zs = 1..Len(zs)
    OBVIOUS
  <2> HIDE DEF named
  <2> QED
    BY <1>2, <2>1
<1>4. Zones!IsUsed(named, read) /\ read \in NamesOf(named)
  <2> HIDE DEF named, read
  <2> QED
    BY <1>2 DEF Zones!IsUsed, NamesOf
<1>5. NamesOf(zs) \subseteq NamesOf(named)
  <2>1. zs[z].name \in {read, Zones!None}
    OBVIOUS
  <2> HIDE DEF named, read
  <2> QED
    BY <1>2, <1>4, <2>1 DEF NamesOf
<1>6. About(named, v2)
  <2> HIDE DEF named
  <2> QED
    BY <1>5, StillAbout
<1>7. About(named, written)
  <2> HIDE DEF named, read
  <2> QED
    BY <1>1, <1>4, <1>5, <1>6, ForwardsWritten
<1>8. renamed \in Seq(Zones!Zone) /\ About(renamed, Zones!RenameInRules(named, written, read, name))
  <2> HIDE DEF named, read, written
  <2> QED
    BY <1>1, <1>3, <1>4, <1>7, ZonesRenamed
<1>9. /\ saved.rules = Zones!RenameInRules(named, written, read, name)
      /\ saved.zones \in {renamed, Zones!WriteNetworks(renamed, read, nets)}
  BY DEF Zones!Saved
<1> HIDE DEF read, named, renamed, written, saved
<1>10. CASE saved.zones = renamed
  BY <1>8, <1>9, <1>10 DEF saved
<1>11. CASE saved.zones = Zones!WriteNetworks(renamed, read, nets)
  BY <1>8, <1>9, <1>11, NetworksWritten, StillAbout DEF saved
<1> QED
  BY <1>9, <1>10, <1>11
\* The dialog of a zone is saved.
LEMMA ZoneSaved ==
  ASSUME Zones!ZonesFit, NEW z \in DOMAIN v1, NEW name \in ZoneName, NEW nets \in SUBSET ZoneNetwork,
         NEW out, NEW in, Zones!SaveZone(z, name, nets, out, in)
  PROVE  Zones!ZonesFit'
<1>1. out \cup in \subseteq NamesOf(v1) \cap ZoneName
  <2>1. \A i \in DOMAIN v1 : v1[i].name \in ZoneName \cup {Zones!None}
    BY ZonesState, ZoneAt DEF Zones!Zone
  <2>2. out \cup in \subseteq {v1[i].name : i \in DOMAIN v1} \ {Zones!None}
    BY DEF Zones!SaveZone, Zones!Zoned
  <2> QED
    BY <2>1, <2>2 DEF NamesOf
<1>2. LET saved == Zones!Saved(v1, z, name, nets, out, in)
      IN saved.zones \in Seq(Zones!Zone) /\ About(saved.zones, saved.rules)
  BY <1>1, ZonesState, DialogSaved
<1>3. v1' \in Seq(Zones!Zone) /\ About(v1', v2')
  BY <1>2 DEF Zones!SaveZone
<1>4. v3' \subseteq ZoneNetwork /\ v4' \in BOOLEAN
  BY ZonesState DEF Zones!SaveZone
<1> QED
  BY <1>3, <1>4, ZonesKept

\* A zone is added, and its dialog saved.
LEMMA ZoneAdded ==
  ASSUME Zones!ZonesFit, NEW name \in ZoneName, NEW nets \in SUBSET ZoneNetwork, Zones!AddZone(name, nets)
  PROVE  Zones!ZonesFit'
<1> DEFINE zs == Append(v1, Zones!NewZone)
           z == Len(v1) + 1
<1>1. Zones!NewZone \in Zones!Zone
  BY DEF Zones!NewZone, Zones!Zone
<1>2. zs \in Seq(Zones!Zone) /\ z \in DOMAIN zs
  BY <1>1, ZonesState
<1>3. \A i \in DOMAIN v1 : i \in DOMAIN zs /\ zs[i] = v1[i]
  BY <1>1, ZonesState
<1>4. NamesOf(v1) \subseteq NamesOf(zs)
  <2> HIDE DEF zs
  <2> QED
    BY <1>3 DEF NamesOf
<1>5. About(zs, v2)
  BY <1>4, ZonesState, StillAbout
<1>6. LET saved == Zones!Saved(zs, z, name, nets, {}, {})
      IN saved.zones \in Seq(Zones!Zone) /\ About(saved.zones, saved.rules)
  <2> HIDE DEF zs, z
  <2> QED
    BY <1>2, <1>5, DialogSaved
<1>7. v1' \in Seq(Zones!Zone) /\ About(v1', v2')
  BY <1>6 DEF Zones!AddZone
<1>8. v3' \subseteq ZoneNetwork /\ v4' \in BOOLEAN
  BY ZonesState DEF Zones!AddZone
<1> QED
  BY <1>7, <1>8, ZonesKept

\* A zone is deleted, with the rules about it.
LEMMA ZoneDeleted ==
  ASSUME Zones!ZonesFit, NEW z \in DOMAIN v1, Zones!DeleteZone(z)
  PROVE  Zones!ZonesFit'
<1>1. v1' = Zones!Seqs!RemoveAt(v1, z) /\ v1 \in Seq(Zones!Zone)
  BY ZonesState DEF Zones!DeleteZone
<1>2. v1' \in Seq(Zones!Zone) /\ \A i \in DOMAIN v1 \ {z} : \E j \in DOMAIN v1' : v1'[j] = v1[i]
  BY <1>1, WithoutOne DEF Zones!Seqs!RemoveAt
<1>4. NamesOf(v1) \ {v1[z].name} \subseteq NamesOf(v1')
  BY <1>2 DEF NamesOf
<1>5. v2' = {r \in v2 : v1[z].name \notin {r.src, r.dest}}
  BY DEF Zones!DeleteZone, Zones!RulesWithout
<1>6. About(v1', v2')
  BY <1>4, <1>5, ZonesState DEF About
<1>7. v3' \subseteq ZoneNetwork /\ v4' \in BOOLEAN
  BY ZonesState DEF Zones!DeleteZone
<1> QED
  BY <1>2, <1>6, <1>7, ZonesKept

\* A network is deleted.
LEMMA ZoneLosesNetwork ==
  ASSUME Zones!ZonesFit, NEW net \in ZoneNetwork, Zones!DeleteNetwork(net)
  PROVE  Zones!ZonesFit'
<1>1. v1' \in {v1, Zones!Without(v1, net)} /\ v2' = v2
  BY DEF Zones!DeleteNetwork
<1>2. v1' \in Seq(Zones!Zone) /\ NamesOf(v1') = NamesOf(v1)
  BY <1>1, ZonesState, NetworkTaken
<1>3. About(v1', v2')
  BY <1>1, <1>2, ZonesState, StillAbout
<1>4. v3' \subseteq ZoneNetwork /\ v4' \in BOOLEAN
  BY ZonesState DEF Zones!DeleteNetwork
<1> QED
  BY <1>2, <1>3, <1>4, ZonesKept

\* A wireless network joins a zone, which may be new.
LEMMA ZoneJoined ==
  ASSUME Zones!ZonesFit, NEW net \in ZoneNetwork, NEW name \in ZoneName, Zones!JoinNetwork(net, name)
  PROVE  Zones!ZonesFit'
<1> DEFINE cleared == IF v4 THEN Zones!Without(v1, net) ELSE v1
           found == IF v4 THEN Zones!LookupZone(cleared, name) ELSE {}
<1>1. cleared \in Seq(Zones!Zone) /\ NamesOf(cleared) = NamesOf(v1)
  BY ZonesState, NetworkTaken
<1>2. v1' \in Seq(Zones!Zone) /\ NamesOf(cleared) \subseteq NamesOf(v1')
  <2>1. CASE found # {}
    <3>1. v1' = [i \in DOMAIN cleared |->
                   IF i \in found THEN [cleared[i] EXCEPT !.networks = @ \cup {net}] ELSE cleared[i]]
      BY <2>1 DEF Zones!JoinNetwork
    <3> HIDE DEF cleared, found
    <3>2. \A i \in DOMAIN cleared :
            v1'[i] \in {cleared[i], WithNetworks(cleared[i], cleared[i].networks \cup {net})}
      BY <3>1 DEF WithNetworks
    <3>3. \A i \in DOMAIN cleared : cleared[i].networks \cup {net} \in SUBSET ZoneNetwork
      BY <1>1, ZoneAt DEF Zones!Zone
    <3>4. DOMAIN v1' = DOMAIN cleared /\ DOMAIN cleared = 1..Len(cleared) /\ Len(cleared) \in Nat
      BY <1>1, <3>1
    <3>5. \A i \in DOMAIN cleared : v1'[i] \in Zones!Zone /\ v1'[i].name = cleared[i].name
      BY <1>1, <3>2, <3>3, NetworksSet
    <3>6. v1' = [i \in 1..Len(cleared) |-> v1'[i]]
      BY <3>1, <3>4
    <3>7. v1' \in Seq(Zones!Zone)
      BY <3>4, <3>5, <3>6
    <3> QED
      BY <3>4, <3>5, <3>7 DEF NamesOf
  <2>2. CASE found = {}
    <3> DEFINE new == [name |-> name, networks |-> {net}]
    <3>1. v1' = Append(cleared, new)
      BY <2>2 DEF Zones!JoinNetwork
    <3>2. new \in Zones!Zone
      BY DEF Zones!Zone
    <3> HIDE DEF cleared, found, new
    <3>3. v1' \in Seq(Zones!Zone) /\ \A i \in DOMAIN cleared : i \in DOMAIN v1' /\ v1'[i] = cleared[i]
      BY <1>1, <3>1, <3>2
    <3> QED
      BY <3>3 DEF NamesOf
  <2> QED
    BY <2>1, <2>2
<1>3. v2' = v2
  BY DEF Zones!JoinNetwork
<1>4. About(v1', v2')
  BY <1>1, <1>2, <1>3, ZonesState, StillAbout
<1>5. v3' \subseteq ZoneNetwork /\ v4' \in BOOLEAN
  BY ZonesState DEF Zones!JoinNetwork
<1> QED
  BY <1>2, <1>4, <1>5, ZonesKept

\* Whatever happens to zones and networks.
LEMMA ZoneStep ==
  ASSUME Zones!ZonesFit, Zones!ZoneNext
  PROVE  Zones!ZonesFit'
BY ZoneSaved, ZoneAdded, ZoneDeleted, ZoneLosesNetwork, ZoneJoined DEF Zones!ZoneNext

\* The zones and rules there are at first.
LEMMA ZoneStart ==
  ASSUME Zones!ZoneInit
  PROVE  Zones!ZonesFit
<1>1. v1 \in Seq(Zones!Zone) /\ v2 \subseteq Zones!Rule /\ v4 \in BOOLEAN
  BY ZonesAssumption DEF Zones!ZoneInit, Zones!Zone, Zones!Rule, Zones!None
<1>2. \A i \in DOMAIN v1 : v1[i].networks \subseteq ZoneNetwork
  BY <1>1, ZoneAt DEF Zones!Zone
<1>3. v3 \subseteq ZoneNetwork
  BY <1>2 DEF Zones!ZoneInit
<1>4. Zones!RulesHaveZones
  BY ZonesAssumption DEF Zones!ZoneInit, Zones!RulesHaveZones, Zones!None
<1> QED
  BY <1>1, <1>3, <1>4 DEF Zones!ZonesFit, Zones!ZoneTypeOK

\* Nothing changes while nothing happens.
LEMMA ZonesRest ==
  ASSUME UNCHANGED pageVars
  PROVE  Zones!ZonesFit' = Zones!ZonesFit
BY DEF pageVars, Zones!ZonesFit, Zones!ZoneTypeOK, Zones!RulesHaveZones

-----------------------------------------------------------------------------
(* Interfaces and wireless networks                                        *)

WifiSection == [sid : Wifi, radio : Phy, networks : SUBSET Iface]

\* What is said of the wireless networks ws, with the interfaces ns.
WifiFits(ws, ns) ==
  /\ ws \in Seq(WifiSection)
  /\ \A i, j \in DOMAIN ws : ws[i].sid = ws[j].sid => i = j
  /\ \A i \in DOMAIN ws : ws[i].networks \subseteq ns

\* What is said of the references rs.
RefsFit(rs, ns, gone) ==
  /\ rs \subseteq Network!RefType \X Iface
  /\ \A r \in rs : \/ r[2] \in ns
                   \/ r[1] \in {"rule", "dhcp", "zone"} /\ r[2] \in gone
                   \/ r[1] \in {"dhcp", "zone"} \ v5

\* What is known of each variable.
LEMMA NetworkState ==
  ASSUME Network!ReferencesFit
  PROVE  /\ DOMAIN v1 \subseteq Iface /\ v4 \subseteq Iface
         /\ WifiFits(v3, DOMAIN v1) /\ RefsFit(v2, DOMAIN v1, v6)
BY DEF Network!ReferencesFit, Network!NamesFit, Network!SidsDiffer, Network!NothingDangles, Network!Dangling,
       WifiFits, WifiSection, RefsFit

\* What has to be shown of a step.
LEMMA NetworkKept ==
  ASSUME DOMAIN v1' \subseteq Iface, v4' \subseteq Iface, WifiFits(v3', DOMAIN v1'),
         RefsFit(v2', DOMAIN v1', v6'), v5' = v5
  PROVE  Network!ReferencesFit'
BY DEF Network!ReferencesFit, Network!NamesFit, Network!SidsDiffer, Network!NothingDangles, Network!Dangling,
       WifiFits, WifiSection, RefsFit

\* With more interfaces, all the same.
LEMMA MoreInterfaces ==
  ASSUME NEW ns, NEW ms, ns \subseteq ms
  PROVE  /\ WifiFits(v3, ns) => WifiFits(v3, ms)
         /\ RefsFit(v2, ns, v6) => RefsFit(v2, ms, v6)
BY DEF WifiFits, RefsFit

\* The element of a sequence of sections is a section.
LEMMA WifiAt ==
  ASSUME NEW ws \in Seq(WifiSection), NEW i \in DOMAIN ws
  PROVE  ws[i] \in WifiSection
OBVIOUS

With(w, ns) == [w EXCEPT !.networks = ns]

\* A section with other interfaces is a section.
LEMMA WithFits ==
  ASSUME NEW w \in WifiSection, NEW ns \in SUBSET Iface
  PROVE  /\ With(w, ns) \in WifiSection /\ With(w, ns).sid = w.sid
         /\ With(w, ns).networks = ns
BY DEF With, WifiSection

\* Of wireless networks only the interfaces change, for ones that are there.
LEMMA NetworksSetTo ==
  ASSUME NEW ns, WifiFits(v3, ns), NEW ms, ms \subseteq Iface, DOMAIN v3' = DOMAIN v3,
         v3' = [i \in DOMAIN v3 |-> v3'[i]],
         \A i \in DOMAIN v3 : \E qs \in SUBSET ms : v3'[i] = With(v3[i], qs)
  PROVE  WifiFits(v3', ms)
<1>1. \A i \in DOMAIN v3 : v3[i] \in WifiSection
  BY WifiAt DEF WifiFits
<1>2. \A i \in DOMAIN v3 : v3'[i] \in WifiSection /\ v3'[i].sid = v3[i].sid /\ v3'[i].networks \subseteq ms
  <2> SUFFICES ASSUME NEW i \in DOMAIN v3
               PROVE  v3'[i] \in WifiSection /\ v3'[i].sid = v3[i].sid /\ v3'[i].networks \subseteq ms
    OBVIOUS
  <2>1. PICK qs \in SUBSET ms : v3'[i] = With(v3[i], qs)
    OBVIOUS
  <2> QED
    BY <1>1, <2>1, WithFits
<1>3. v3 \in Seq(WifiSection) /\ \A i, j \in DOMAIN v3 : v3[i].sid = v3[j].sid => i = j
  BY DEF WifiFits
<1>4. DOMAIN v3 = 1..Len(v3) /\ Len(v3) \in Nat
  BY <1>3
<1>5. v3' = [i \in 1..Len(v3) |-> v3'[i]]
  BY <1>4
<1>6. v3' \in Seq(WifiSection)
  BY <1>2, <1>4, <1>5
<1> QED
  BY <1>2, <1>3, <1>6 DEF WifiFits

\* An interface is added.
LEMMA InterfaceAdded ==
  ASSUME Network!ReferencesFit, NEW n \in Iface, Network!AddNetwork(n)
  PROVE  Network!ReferencesFit'
<1>1. DOMAIN v1' = DOMAIN v1 \cup {n} /\ v2' = v2 /\ v3' = v3 /\ v4' = v4 /\ v5' = v5 /\ v6' = v6
  BY DEF Network!AddNetwork
<1> QED
  BY <1>1, NetworkState, NetworkKept, MoreInterfaces

\* Something refers to an interface that is there.
LEMMA ReferenceAdded ==
  ASSUME Network!ReferencesFit, NEW n \in Iface, NEW type \in Network!RefType, Network!AddReference(type, n)
  PROVE  Network!ReferencesFit'
<1>1. n \in DOMAIN v1 /\ v2' = v2 \cup {<<type, n>>} /\ v1' = v1 /\ v3' = v3 /\ v4' = v4 /\ v5' = v5 /\ v6' = v6
  BY DEF Network!AddReference
<1>2. RefsFit(v2', DOMAIN v1', v6')
  BY <1>1, NetworkState DEF RefsFit
<1> QED
  BY <1>1, <1>2, NetworkState, NetworkKept

\* A deletion waits for its promise.
LEMMA DeletionStarted ==
  ASSUME Network!ReferencesFit, NEW n \in Iface, Network!StartDelete(n)
  PROVE  Network!ReferencesFit'
<1>1. v4' = v4 \cup {n} /\ v1' = v1 /\ v2' = v2 /\ v3' = v3 /\ v5' = v5 /\ v6' = v6
  BY DEF Network!StartDelete
<1> QED
  BY <1>1, NetworkState, NetworkKept

\* An interface is deleted, or was deleted meanwhile.
LEMMA InterfaceDeleted ==
  ASSUME Network!ReferencesFit, NEW n \in Iface, Network!DeleteNetwork(n)
  PROVE  Network!ReferencesFit'
<1>1. v4' \subseteq Iface /\ v5' = v5 /\ v6' = v6
  BY NetworkState DEF Network!DeleteNetwork
<1>2. CASE n \notin DOMAIN v1
  <2>1. v1' = v1 /\ v2' = v2 /\ v3' = v3
    BY <1>2 DEF Network!DeleteNetwork
  <2> QED
    BY <1>1, <2>1, NetworkState, NetworkKept
<1>3. CASE n \in DOMAIN v1
  <2>1. DOMAIN v1' = DOMAIN v1 \ {n} /\ v2' = v2 \ Network!Found(n) /\ v3' = Network!WifiWithout(n)
    BY <1>3 DEF Network!DeleteNetwork
  <2>2. RefsFit(v2', DOMAIN v1', v6')
    BY <1>1, <2>1, NetworkState DEF RefsFit, Network!Found
  <2>3. WifiFits(v3', DOMAIN v1')
    <3> DEFINE N(i) == v3[i].networks \ {n}
    <3>1. DOMAIN v3' = DOMAIN v3 /\ v3' = [i \in DOMAIN v3 |-> v3'[i]]
      BY <2>1 DEF Network!WifiWithout
    <3>2. \A i \in DOMAIN v3 : v3'[i] = With(v3[i], N(i))
      BY <2>1 DEF Network!WifiWithout, With
    <3>3. \A i \in DOMAIN v3 : N(i) \subseteq DOMAIN v1'
      BY <2>1, NetworkState DEF WifiFits
    <3>4. DOMAIN v1' \subseteq Iface
      BY <2>1, NetworkState
    <3> HIDE DEF N
    <3>5. \A i \in DOMAIN v3 : \E qs \in SUBSET DOMAIN v1' : v3'[i] = With(v3[i], qs)
      BY <3>2, <3>3
    <3> QED
      BY <3>1, <3>4, <3>5, NetworkState, NetworksSetTo
  <2> QED
    BY <1>1, <2>1, <2>2, <2>3, NetworkState, NetworkKept
<1> QED
  BY <1>2, <1>3

\* An interface gets a name that no other one has.
LEMMA InterfaceRenamed ==
  ASSUME Network!ReferencesFit, NEW old \in Iface, NEW new \in Iface, Network!RenameNetwork(old, new)
  PROVE  Network!ReferencesFit'
<1>1. /\ DOMAIN v1' = (DOMAIN v1 \cup {new}) \ {old} /\ old \in DOMAIN v1 /\ new \notin DOMAIN v1
      /\ v2' = Network!Renamed(old, new) /\ v6' = v6 \cup {old} /\ v4' = v4 /\ v5' = v5
  BY DEF Network!RenameNetwork
<1>2. RefsFit(v2', DOMAIN v1', v6')
  <2>1. \A q \in v2' : \E r \in v2 :
          q = IF r[2] = old /\ r[1] \in {"ifstate", "route"} THEN <<r[1], new>> ELSE r
    BY <1>1 DEF Network!Renamed
  <2>2. ASSUME NEW r \in v2
        PROVE  LET q == IF r[2] = old /\ r[1] \in {"ifstate", "route"} THEN <<r[1], new>> ELSE r
               IN /\ q \in Network!RefType \X Iface
                  /\ \/ q[2] \in DOMAIN v1'
                     \/ q[1] \in {"rule", "dhcp", "zone"} /\ q[2] \in v6'
                     \/ q[1] \in {"dhcp", "zone"} \ v5
    <3>1. /\ r \in Network!RefType \X Iface
          /\ \/ r[2] \in DOMAIN v1
             \/ r[1] \in {"rule", "dhcp", "zone"} /\ r[2] \in v6
             \/ r[1] \in {"dhcp", "zone"} \ v5
      BY NetworkState DEF RefsFit
    <3>2. r[1] \in Network!RefType /\ r[2] \in Iface /\ r = <<r[1], r[2]>>
      BY <3>1
    <3>3. old # new
      BY <1>1
    <3>4. CASE r[2] = old /\ r[1] \in {"ifstate", "route"}
      BY <1>1, <3>2, <3>3, <3>4
    <3>5. CASE r[2] = old /\ r[1] \notin {"ifstate", "route"}
      BY <1>1, <3>1, <3>2, <3>5 DEF Network!RefType
    <3>6. CASE r[2] # old
      BY <1>1, <3>1, <3>6
    <3> QED
      BY <3>4, <3>5, <3>6
  <2> QED
    BY <2>1, <2>2 DEF RefsFit
<1>3. WifiFits(v3', DOMAIN v1')
  <2> DEFINE N(i) == IF old \in v3[i].networks THEN (v3[i].networks \ {old}) \cup {new} ELSE v3[i].networks
  <2>1. v3' = [i \in DOMAIN v3 |-> IF old \in v3[i].networks
                THEN [v3[i] EXCEPT !.networks = (@ \ {old}) \cup {new}] ELSE v3[i]]
    BY DEF Network!RenameNetwork
  <2>2. DOMAIN v3' = DOMAIN v3 /\ v3' = [i \in DOMAIN v3 |-> v3'[i]]
    BY <2>1
  <2>3. \A i \in DOMAIN v3 : v3'[i] = With(v3[i], N(i))
    <3>1. \A i \in DOMAIN v3 : v3[i] \in WifiSection
      BY NetworkState, WifiAt DEF WifiFits
    <3> SUFFICES ASSUME NEW i \in DOMAIN v3 PROVE v3'[i] = With(v3[i], N(i))
      OBVIOUS
    <3>2. CASE old \in v3[i].networks
      BY <2>1, <3>2 DEF With
    <3>3. CASE old \notin v3[i].networks
      BY <2>1, <3>1, <3>3 DEF With, WifiSection
    <3> QED
      BY <3>2, <3>3
  <2>4. \A i \in DOMAIN v3 : N(i) \subseteq DOMAIN v1'
    BY <1>1, NetworkState DEF WifiFits
  <2>5. DOMAIN v1' \subseteq Iface
    BY <1>1, NetworkState
  <2> HIDE DEF N
  <2>6. \A i \in DOMAIN v3 : \E qs \in SUBSET DOMAIN v1' : v3'[i] = With(v3[i], qs)
    BY <2>3, <2>4
  <2> QED
    BY <2>2, <2>5, <2>6, NetworkState, NetworksSetTo
<1>4. DOMAIN v1' \subseteq Iface
  BY <1>1, NetworkState
<1> QED
  BY <1>1, <1>2, <1>3, <1>4, NetworkState, NetworkKept

\* The networks of one section are set to ns.
LEMMA OneSetTo ==
  ASSUME NEW ns, WifiFits(v3, ns), NEW ms, ns \subseteq ms, ms \subseteq Iface, NEW p, NEW qs \in SUBSET ms,
         v3' = [v3 EXCEPT ![p].networks = qs]
  PROVE  WifiFits(v3', ms)
<1> DEFINE N(i) == IF i = p THEN qs ELSE v3[i].networks
<1>1. DOMAIN v3' = DOMAIN v3 /\ v3' = [i \in DOMAIN v3 |-> v3'[i]]
  OBVIOUS
<1>2. \A i \in DOMAIN v3 : v3'[i] = With(v3[i], N(i))
  <2>1. \A i \in DOMAIN v3 : v3[i] \in WifiSection
    BY WifiAt DEF WifiFits
  <2> SUFFICES ASSUME NEW i \in DOMAIN v3 PROVE v3'[i] = With(v3[i], N(i))
    OBVIOUS
  <2>2. CASE i = p
    BY <2>2 DEF With
  <2>3. CASE i # p
    BY <2>1, <2>3 DEF With, WifiSection
  <2> QED
    BY <2>2, <2>3
<1>3. \A i \in DOMAIN v3 : N(i) \subseteq ms
  BY DEF WifiFits
<1> HIDE DEF N
<1>4. \A i \in DOMAIN v3 : \E rs \in SUBSET ms : v3'[i] = With(v3[i], rs)
  BY <1>2, <1>3
<1> QED
  BY <1>1, <1>4, NetworksSetTo

\* A device, or a wireless network, becomes part of an interface.
LEMMA DeviceAdded ==
  ASSUME Network!ReferencesFit, NEW n \in Iface, NEW d, Network!AddDevice(n, d)
  PROVE  Network!ReferencesFit'
<1>1. n \in DOMAIN v1 /\ v2' = v2 /\ v4' = v4 /\ v5' = v5 /\ v6' = v6
  BY DEF Network!AddDevice
<1>2. DOMAIN v1' = DOMAIN v1
  BY DEF Network!AddDevice
<1>3. WifiFits(v3', DOMAIN v1')
  <2>1. CASE v3' = v3
    BY <1>2, <2>1, NetworkState
  <2>2. CASE \E p \in DOMAIN v3 : v3' = [v3 EXCEPT ![p].networks = @ \cup {n}]
    <3>1. PICK p \in DOMAIN v3 : v3' = [v3 EXCEPT ![p].networks = @ \cup {n}]
      BY <2>2
    <3> DEFINE qs == v3[p].networks \cup {n}
    <3>2. v3' = [v3 EXCEPT ![p].networks = qs] /\ qs \in SUBSET DOMAIN v1
      BY <1>1, <3>1, NetworkState DEF WifiFits
    <3> HIDE DEF qs
    <3> QED
      BY <1>2, <3>2, NetworkState, OneSetTo
  <2>3. v3' = v3 \/ \E p \in DOMAIN v3 : v3' = [v3 EXCEPT ![p].networks = @ \cup {n}]
    <3>1. CASE d \in Network!Netid /\ Network!WifiSidByNetid(d) # {}
      <4>1. PICK sid \in Network!WifiSidByNetid(d) : v3' = [v3 EXCEPT ![Network!Place(sid)].networks = @ \cup {n}]
        BY <3>1 DEF Network!AddDevice
      <4>2. \E i \in DOMAIN v3 : v3[i].sid = sid
        BY <4>1 DEF Network!WifiSidByNetid
      <4>3. Network!Place(sid) \in DOMAIN v3
        BY <4>2 DEF Network!Place
      <4> QED
        BY <4>1, <4>3
    <3>2. CASE ~(d \in Network!Netid /\ Network!WifiSidByNetid(d) # {})
      BY <3>2 DEF Network!AddDevice
    <3> QED
      BY <3>1, <3>2
  <2> QED
    BY <2>1, <2>2, <2>3
<1> QED
  BY <1>1, <1>2, <1>3, NetworkState, NetworkKept

\* A device, or a wireless network, leaves an interface.
LEMMA DeviceDeleted ==
  ASSUME Network!ReferencesFit, NEW n \in Iface, NEW d, Network!DeleteDevice(n, d)
  PROVE  Network!ReferencesFit'
<1>1. DOMAIN v1' = DOMAIN v1 /\ v2' = v2 /\ v4' = v4 /\ v5' = v5 /\ v6' = v6
  BY DEF Network!DeleteDevice
<1>2. WifiFits(v3', DOMAIN v1')
  <2> DEFINE B(i) == d \in Network!Netid /\ v3[i].sid \in Network!WifiSidByNetid(d)
             N(i) == IF B(i) THEN v3[i].networks \ {n} ELSE v3[i].networks
  <2>1. v3' = [i \in DOMAIN v3 |-> IF B(i) THEN [v3[i] EXCEPT !.networks = @ \ {n}] ELSE v3[i]]
    BY DEF Network!DeleteDevice
  <2> HIDE DEF B
  <2>2. DOMAIN v3' = DOMAIN v3 /\ v3' = [i \in DOMAIN v3 |-> v3'[i]]
    BY <2>1
  <2>3. \A i \in DOMAIN v3 : v3'[i] = With(v3[i], N(i))
    <3>1. \A i \in DOMAIN v3 : v3[i] \in WifiSection
      BY NetworkState, WifiAt DEF WifiFits
    <3> SUFFICES ASSUME NEW i \in DOMAIN v3 PROVE v3'[i] = With(v3[i], N(i))
      OBVIOUS
    <3>2. CASE B(i)
      BY <2>1, <3>2 DEF With
    <3>3. CASE ~B(i)
      BY <2>1, <3>1, <3>3 DEF With, WifiSection
    <3> QED
      BY <3>2, <3>3
  <2>4. \A i \in DOMAIN v3 : N(i) \subseteq DOMAIN v1'
    BY <1>1, NetworkState DEF WifiFits
  <2>5. DOMAIN v1' \subseteq Iface
    BY <1>1, NetworkState
  <2> HIDE DEF N
  <2>6. \A i \in DOMAIN v3 : \E qs \in SUBSET DOMAIN v1' : v3'[i] = With(v3[i], qs)
    BY <2>3, <2>4
  <2> QED
    BY <2>2, <2>5, <2>6, NetworkState, NetworksSetTo
<1> QED
  BY <1>1, <1>2, NetworkState, NetworkKept

\* A wireless network is added behind the others.
LEMMA WifiAdded ==
  ASSUME Network!ReferencesFit, NEW sid \in Wifi, NEW r \in Phy, Network!AddWifiNetwork(sid, r)
  PROVE  Network!ReferencesFit'
<1> DEFINE w == [sid |-> sid, radio |-> r, networks |-> {}]
<1>1. /\ v3' = Append(v3, w) /\ \A i \in DOMAIN v3 : v3[i].sid # sid
      /\ v1' = v1 /\ v2' = v2 /\ v4' = v4 /\ v5' = v5 /\ v6' = v6
  BY DEF Network!AddWifiNetwork
<1>2. w \in WifiSection /\ w.sid = sid /\ w.networks = {}
  BY DEF WifiSection
<1> HIDE DEF w
<1>3. WifiFits(v3', DOMAIN v1')
  <2>1. v3 \in Seq(WifiSection)
    BY NetworkState DEF WifiFits
  <2> DEFINE n == Len(v3) + 1
  <2>2. v3' \in Seq(WifiSection) /\ DOMAIN v3' = 1..n /\ DOMAIN v3 = 1..n - 1 /\ n \in Nat \ {0}
    BY <1>1, <1>2, <2>1
  <2>3. \A i \in DOMAIN v3 : v3'[i] = v3[i]
    BY <1>1, <1>2, <2>1
  <2>4. v3'[n] = w
    BY <1>1, <1>2, <2>1
  <2> HIDE DEF n
  <2>5. \A i \in DOMAIN v3' : i = n \/ i \in DOMAIN v3
    BY <2>2
  <2>6. \A i \in DOMAIN v3 : v3'[i].sid # sid
    BY <1>1, <2>3
  <2>7. \A i, j \in DOMAIN v3' : v3'[i].sid = v3'[j].sid => i = j
    BY <1>2, <2>3, <2>4, <2>5, <2>6, NetworkState DEF WifiFits
  <2>8. \A i \in DOMAIN v3' : v3'[i].networks \subseteq DOMAIN v1'
    BY <1>1, <1>2, <2>3, <2>4, <2>5, NetworkState DEF WifiFits
  <2> QED
    BY <2>2, <2>7, <2>8 DEF WifiFits
<1> QED
  BY <1>1, <1>3, NetworkState, NetworkKept

\* A wireless network is deleted; those behind it move up.
LEMMA WifiDeleted ==
  ASSUME Network!ReferencesFit, NEW netid, Network!DeleteWifiNetwork(netid)
  PROVE  Network!ReferencesFit'
<1>1. v1' = v1 /\ v2' = v2 /\ v4' = v4 /\ v5' = v5 /\ v6' = v6
  BY DEF Network!DeleteWifiNetwork
<1>2. PICK sid \in Network!WifiSidByNetid(netid) : v3' = Network!Seqs!RemoveAt(v3, Network!Place(sid))
  BY DEF Network!DeleteWifiNetwork
<1> DEFINE p == Network!Place(sid)
<1>3. p \in DOMAIN v3
  <2>1. \E i \in DOMAIN v3 : v3[i].sid = sid
    BY <1>2 DEF Network!WifiSidByNetid
  <2> QED
    BY <2>1 DEF Network!Place
<1>4. v3 \in Seq(WifiSection)
  BY NetworkState DEF WifiFits
<1> HIDE DEF p
<1>5. /\ v3' \in Seq(WifiSection) /\ Len(v3') = Len(v3) - 1
      /\ \A j \in DOMAIN v3' : v3'[j] = v3[IF j < p THEN j ELSE j + 1]
  BY <1>2, <1>3, <1>4, WithoutOne DEF Network!Seqs!RemoveAt, p
<1>6. \A j \in DOMAIN v3' : (IF j < p THEN j ELSE j + 1) \in DOMAIN v3
  <2>1. DOMAIN v3' = 1..Len(v3) - 1 /\ DOMAIN v3 = 1..Len(v3) /\ Len(v3) \in Nat
    BY <1>4, <1>5
  <2> QED
    BY <1>3, <2>1
<1>7. \A i, j \in DOMAIN v3' : (IF i < p THEN i ELSE i + 1) = (IF j < p THEN j ELSE j + 1) => i = j
  <2>1. DOMAIN v3' = 1..Len(v3) - 1 /\ DOMAIN v3 = 1..Len(v3) /\ Len(v3) \in Nat
    BY <1>4, <1>5
  <2> QED
    BY <1>3, <2>1
<1>8. WifiFits(v3', DOMAIN v1')
  BY <1>1, <1>5, <1>6, <1>7, NetworkState DEF WifiFits
<1> QED
  BY <1>1, <1>8, NetworkState, NetworkKept

\* The interfaces of a wireless network are chosen.
LEMMA WifiNetworksSet ==
  ASSUME Network!ReferencesFit, NEW sid \in Wifi, NEW ns \in SUBSET Iface, Network!SetNetworks(sid, ns)
  PROVE  Network!ReferencesFit'
<1> DEFINE netid == CHOOSE id \in Network!WifiNetidBySid(sid) : TRUE
           old == {n \in DOMAIN v1 : Network!ContainsDevice(n, netid)}
           p == Network!Place(sid)
           qs == (v3[p].networks \ (old \ ns)) \cup (ns \ old)
<1>1. v2' = v2 /\ v4' = v4 /\ v5' = v5 /\ v6' = v6 /\ DOMAIN v1' = DOMAIN v1 \cup ns
  BY DEF Network!SetNetworks
<1>2. v3' = [v3 EXCEPT ![p].networks = (@ \ (old \ ns)) \cup (ns \ old)] /\ p \in DOMAIN v3
  <2>1. \E i \in DOMAIN v3 : v3[i].sid = sid
    BY DEF Network!SetNetworks
  <2>2. p \in DOMAIN v3
    BY <2>1 DEF Network!Place
  <2> QED
    BY <2>2 DEF Network!SetNetworks
<1> HIDE DEF netid, old, p
<1>3. v3' = [v3 EXCEPT ![p].networks = qs]
  BY <1>2
<1>4. qs \subseteq DOMAIN v1'
  BY <1>1, <1>2, NetworkState DEF WifiFits
<1> HIDE DEF qs
<1>5. DOMAIN v1' \subseteq Iface
  BY <1>1, NetworkState
<1>6. WifiFits(v3', DOMAIN v1')
  BY <1>1, <1>3, <1>4, <1>5, NetworkState, OneSetTo
<1> QED
  BY <1>1, <1>5, <1>6, NetworkState, NetworkKept, MoreInterfaces

\* Whatever happens to interfaces and networks.
LEMMA NetworkStep ==
  ASSUME Network!ReferencesFit, Network!NetworkNext
  PROVE  Network!ReferencesFit'
BY InterfaceAdded, ReferenceAdded, DeletionStarted, InterfaceDeleted, InterfaceRenamed, DeviceAdded,
   DeviceDeleted, WifiAdded, WifiDeleted, WifiNetworksSet DEF Network!NetworkNext

\* The interfaces there are at first.
LEMMA NetworkStart ==
  ASSUME Network!NetworkInit
  PROVE  Network!ReferencesFit
<1>1. DOMAIN v1 = Iface /\ v2 = {} /\ v3 = <<>> /\ v4 = {}
  BY DEF Network!NetworkInit
<1> QED
  BY <1>1 DEF Network!ReferencesFit, Network!NamesFit, Network!SidsDiffer, Network!NothingDangles, Network!Dangling

\* Nothing changes while nothing happens.
LEMMA NetworkRests ==
  ASSUME UNCHANGED pageVars
  PROVE  Network!ReferencesFit' = Network!ReferencesFit
BY DEF pageVars, Network!ReferencesFit, Network!NamesFit, Network!SidsDiffer, Network!NothingDangles, Network!Dangling

\* The cardinality of the module is the cardinality.
LEMMA NetworkCounts ==
  \A S : Network!Cardinality(S) = Cardinality(S)
BY DEF Network!Cardinality, Cardinality

\* Two networks of a radio have different numbers.
LEMMA NumbersDiffer ==
  ASSUME NEW i \in Nat, NEW j \in Nat, i < j, i # 0, v3[i].radio = v3[j].radio
  PROVE  Network!Number(i) < Network!Number(j)
<1> DEFINE A == {k \in 1..i : v3[k].radio = v3[i].radio}
           B == {k \in 1..j : v3[k].radio = v3[j].radio}
<1>1. IsFiniteSet(1..i) /\ IsFiniteSet(1..j)
  BY FS_Interval
<1>2. IsFiniteSet(A) /\ IsFiniteSet(B)
  BY <1>1, FS_Subset
<1>3. A \subseteq B /\ j \in B /\ j \notin A
  OBVIOUS
<1>4. Network!Number(i) = Cardinality(A) /\ Network!Number(j) = Cardinality(B)
  BY NetworkCounts DEF Network!Number
<1> HIDE DEF A, B
<1>5. Cardinality(A) \in Nat /\ Cardinality(B) \in Nat /\ Cardinality(A) <= Cardinality(B) /\ (Cardinality(A) = Cardinality(B) => A = B)
  BY <1>2, <1>3, FS_Subset, FS_CardinalityType
<1> QED
  BY <1>3, <1>4, <1>5

\* Names by place and names of sections are inverse.
LEMMA NamesArePlaces ==
  ASSUME Network!ReferencesFit
  PROVE  Network!NetidsFit
<1> SUFFICES ASSUME NEW i \in DOMAIN v3
             PROVE  /\ Network!Cardinality(Network!WifiNetidBySid(v3[i].sid)) = 1
                    /\ \A netid \in Network!WifiNetidBySid(v3[i].sid) : Network!WifiSidByNetid(netid) = {v3[i].sid}
  BY DEF Network!NetidsFit
<1>1. v3 \in Seq(WifiSection) /\ \A j \in DOMAIN v3 : v3[j].sid = v3[i].sid => j = i
  BY NetworkState DEF WifiFits
<1> DEFINE id == <<v3[i].radio, Network!Number(i)>>
<1>2. Network!WifiNetidBySid(v3[i].sid) = {id}
  BY <1>1 DEF Network!WifiNetidBySid
<1>3. Cardinality({id}) = 1
  BY FS_Singleton
<1>4. \A j \in DOMAIN v3 : v3[j].radio = v3[i].radio /\ Network!Number(j) = Network!Number(i) => j = i
  <2> SUFFICES ASSUME NEW j \in DOMAIN v3, v3[j].radio = v3[i].radio, Network!Number(j) = Network!Number(i), j # i
               PROVE  FALSE
    OBVIOUS
  <2>1. i \in Nat /\ j \in Nat /\ i # 0 /\ j # 0
    BY <1>1
  <2>2. i < j \/ j < i
    BY <2>1
  <2>3. \A S : IsFiniteSet(S) => Cardinality(S) \in Nat
    BY FS_CardinalityType
  <2>4. Network!Number(i) < Network!Number(i)
    BY <2>1, <2>2, NumbersDiffer
  <2>5. Network!Number(i) \in Nat
    <3>1. IsFiniteSet(1..i)
      BY <2>1, FS_Interval
    <3>2. IsFiniteSet({k \in 1..i : v3[k].radio = v3[i].radio})
      BY <3>1, FS_Subset
    <3> QED
      BY <2>3, <3>2, NetworkCounts DEF Network!Number
  <2> QED
    BY <2>4, <2>5
<1>5. Network!WifiSidByNetid(id) = {v3[i].sid}
  BY <1>4 DEF Network!WifiSidByNetid
<1> QED
  BY <1>2, <1>3, <1>5, NetworkCounts

-----------------------------------------------------------------------------
(* Forms                                                                   *)

LEMMA SameSatisfied ==
  ASSUME NEW fm, NEW x, NEW A, NEW B, NEW c, fm.on[x] # Form!None => (fm.on[x] \in A <=> fm.on[x] \in B)
  PROVE  Form!Satisfied(fm, x, A, c) <=> Form!Satisfied(fm, x, B, c)
<1>1. CASE fm.on[x] = Form!None
  BY <1>1 DEF Form!Satisfied
<1>2. CASE fm.on[x] # Form!None
  <2>1. (fm.on[x] \in A) = (fm.on[x] \in B)
    BY <1>2
  <2> QED
    BY <2>1 DEF Form!Satisfied
<1> QED
  BY <1>1, <1>2

LEMMA ShownOrNot ==
  ASSUME NEW fm, NEW x, NEW A, NEW c, x \in A <=> Form!Satisfied(fm, x, A, c)
  PROVE  (x \in A) = Form!Satisfied(fm, x, A, c)
BY DEF Form!Satisfied

\* What a pass shows, before each field and at last.
Going(fm, act, c) ==
  {g \in [0..Len(fm.order) -> SUBSET Field] :
     /\ g[0] = act /\ g[Len(fm.order)] = Form!Pass(fm, act, c)
     /\ \A i \in 1..Len(fm.order) :
          g[i] = IF Form!Satisfied(fm, fm.order[i], g[i - 1], c) THEN g[i - 1] \cup {fm.order[i]}
                 ELSE g[i - 1] \ {fm.order[i]}}

\* A pass comes to each field once, with what it has made of the fields before.
LEMMA PassRuns ==
  ASSUME NEW fm, Form!IsForm(fm), NEW act \in SUBSET Field,
         NEW c \in [Field -> Content \cup {Form!None}]
  PROVE  Going(fm, act, c) # {}
<1> DEFINE n == Len(fm.order)
           T == SUBSET Field
           F(i, a) == IF Form!Satisfied(fm, fm.order[i], a, c) THEN a \cup {fm.order[i]} ELSE a \ {fm.order[i]}
           f == [i \in 1..n |-> [a \in T |-> F(i, a)]]
           is(g) == g = [i \in 0..n |-> IF i = 0 THEN act ELSE F(i, g[i - 1])]
           after == CHOOSE h : is(h)
<1>1. n \in Nat /\ (\A i \in 1..n : fm.order[i] \in Field) /\ act \in T
  BY DEF Form!IsForm
<1>2. \A i \in 1..n, a \in T : F(i, a) \in T
  BY <1>1
<1>3. Form!Pass(fm, act, c) = after[n]
  BY DEF Form!Pass
<1>4. ASSUME NEW i \in 1..n
      PROVE  i \in 0..n /\ i - 1 \in 0..n /\ i # 0
  BY <1>1
<1>5. 0 \in 0..n /\ n \in 0..n /\ \A i \in 0..n : i # 0 => i \in 1..n
  BY <1>1
<1> HIDE DEF n, T, F
<1>6. Stepping(n, T, f)
  BY <1>1, <1>2 DEF Stepping
<1>7. \A i \in 1..n, a \in T : f[i][a] = F(i, a)
  OBVIOUS
<1> HIDE DEF f
<1>8. PICK g \in [0..n -> T] : g[0] = act /\ \A i \in 1..n : g[i] = f[i][g[i - 1]]
  <2>1. Steps(n, T, f, act) # {}
    BY ONLY <1>1, <1>6, StepsTaken
  <2> QED
    BY <2>1 DEF Steps
<1>9. \A i \in 1..n : g[i] = F(i, g[i - 1])
  <2>1. \A i \in 1..n : g[i - 1] \in T
    BY <1>4, <1>8
  <2> QED
    BY <1>7, <1>8, <2>1
<1>10. is(g)
  BY <1>5, <1>8, <1>9
<1>11. is(after)
  BY <1>10
<1> HIDE DEF after
<1>12. after[0] = act /\ \A i \in 1..n : after[i] = F(i, after[i - 1])
  BY <1>4, <1>5, <1>11
<1>13. \A i \in 0..n : after[i] \in T
  <2> DEFINE S == {i \in 0..n : after[i] \in T}
  <2>1. 0 \in S
    BY <1>1, <1>5, <1>12
  <2>2. ASSUME NEW i \in 1..n, i - 1 \in S
        PROVE  i \in S
    BY <1>2, <1>4, <1>12, <2>2
  <2> HIDE DEF S
  <2>3. \A i \in 0..n : i \in S
    BY ONLY <1>1, <2>1, <2>2, UpTo
  <2> QED
    BY <2>3 DEF S
<1>14. after \in [0..n -> T]
  BY <1>11, <1>13
<1> QED
  BY <1>3, <1>12, <1>14 DEF F, T, n, Going

\* What a pass makes of a field.
LEMMA PassFacts ==
  ASSUME NEW fm, Form!IsForm(fm), NEW act \in SUBSET Field,
         NEW c \in [Field -> Content \cup {Form!None}],
         NEW i \in DOMAIN fm.order, NEW x, x = fm.order[i]
  PROVE  /\ Form!Pass(fm, act, c) \in SUBSET Field
         /\ (fm.on[x] = Form!None \/ \E j \in DOMAIN fm.order : j < i /\ fm.order[j] = fm.on[x])
              => (x \in Form!Pass(fm, act, c) <=> Form!Satisfied(fm, x, Form!Pass(fm, act, c), c))
         /\ (\E j \in DOMAIN fm.order : i < j /\ fm.order[j] = fm.on[x])
              => (x \in Form!Pass(fm, act, c) <=> Form!Satisfied(fm, x, act, c))
<1> DEFINE n == Len(fm.order)
<1>1. /\ n \in Nat /\ DOMAIN fm.order = 1..n
      /\ \A k, j \in 1..n : fm.order[k] = fm.order[j] => k = j
  BY DEF Form!IsForm
<1>2. PICK g \in [0..n -> SUBSET Field] :
        /\ g[0] = act /\ g[n] = Form!Pass(fm, act, c)
        /\ \A k \in 1..n :
             g[k] = IF Form!Satisfied(fm, fm.order[k], g[k - 1], c) THEN g[k - 1] \cup {fm.order[k]}
                    ELSE g[k - 1] \ {fm.order[k]}
  <2>1. Going(fm, act, c) # {}
    BY PassRuns
  <2> QED
    BY <2>1 DEF Going
<1>3. ASSUME NEW j \in 1..n
      PROVE  \A k \in 0..n :
               /\ k < j => (fm.order[j] \in g[k] <=> fm.order[j] \in act)
               /\ j <= k => (fm.order[j] \in g[k] <=> Form!Satisfied(fm, fm.order[j], g[j - 1], c))
  <2> DEFINE y == fm.order[j]
             S == {k \in 0..n : /\ k < j => (y \in g[k] <=> y \in act)
                                /\ j <= k => (y \in g[k] <=> Form!Satisfied(fm, y, g[j - 1], c))}
  <2>1. 0 \in S
    BY <1>1, <1>2
  <2>2. ASSUME NEW k \in 1..n, k - 1 \in S
        PROVE  k \in S
    <3>1. k \in 0..n
      BY <1>1
    <3>2. CASE k < j
      <4>1. y # fm.order[k] /\ k - 1 < j /\ ~(j <= k)
        BY <1>1, <3>2
      <4>2. y \in g[k] <=> y \in g[k - 1]
        BY <1>2, <4>1
      <4> QED
        BY <2>2, <3>1, <4>1, <4>2
    <3>3. CASE k = j
      <4>1. y \in g[k] <=> Form!Satisfied(fm, y, g[j - 1], c)
        BY <1>2, <3>3
      <4>2. ~(k < j)
        BY <3>3
      <4> QED
        BY <3>1, <4>1, <4>2
    <3>4. CASE j < k
      <4>1. y # fm.order[k] /\ j <= k - 1 /\ ~(k < j)
        BY <1>1, <3>4
      <4>2. y \in g[k] <=> y \in g[k - 1]
        BY <1>2, <4>1
      <4> QED
        BY <2>2, <3>1, <4>1, <4>2
    <3> QED
      BY <1>1, <3>2, <3>3, <3>4
  <2> HIDE DEF S
  <2>3. \A k \in 0..n : k \in S
    BY <1>1, <2>1, <2>2, UpTo
  <2> QED
    BY <2>3 DEF S
<1> HIDE DEF n
<1>4. i \in 1..n /\ i - 1 \in 0..n /\ n \in 0..n /\ i <= n /\ i - 1 < i
  BY <1>1
<1>5. x \in g[n] <=> Form!Satisfied(fm, x, g[i - 1], c)
  BY <1>3, <1>4
<1>6. g[n] \in SUBSET Field
  BY <1>2, <1>4
<1>7. ASSUME fm.on[x] = Form!None \/ \E j \in DOMAIN fm.order : j < i /\ fm.order[j] = fm.on[x]
      PROVE  x \in g[n] <=> Form!Satisfied(fm, x, g[n], c)
  <2>1. ASSUME fm.on[x] # Form!None
        PROVE  fm.on[x] \in g[i - 1] <=> fm.on[x] \in g[n]
    <3>1. PICK j \in 1..n : j < i /\ fm.order[j] = fm.on[x]
      BY <1>1, <1>7, <2>1
    <3>2. j <= i - 1 /\ j <= n
      BY <1>1, <1>4, <3>1
    <3> QED
      BY <1>3, <1>4, <3>1, <3>2
  <2> QED
    BY <1>5, <2>1, SameSatisfied
<1>8. ASSUME \E j \in DOMAIN fm.order : i < j /\ fm.order[j] = fm.on[x]
      PROVE  x \in g[n] <=> Form!Satisfied(fm, x, act, c)
  <2>1. PICK j \in 1..n : i < j /\ fm.order[j] = fm.on[x]
    BY <1>1, <1>8
  <2>2. i - 1 < j
    BY <1>4, <2>1
  <2>3. fm.on[x] \in g[i - 1] <=> fm.on[x] \in act
    BY <1>3, <1>4, <2>1, <2>2
  <2> QED
    BY <1>5, <2>3, SameSatisfied
<1> QED
  BY <1>2, <1>6, <1>7, <1>8

\* A field that comes before the one it depends on.
Back(fm, x) ==
  fm.on[x] # Form!None /\ \E i, j \in DOMAIN fm.order : i < j /\ fm.order[i] = x /\ fm.order[j] = fm.on[x]

\* Which of two passes counts for a field.
LEMMA TwoPasses ==
  ASSUME NEW fm, Form!IsForm(fm), NEW act \in SUBSET Field,
         NEW c \in [Field -> Content \cup {Form!None}], NEW x \in Field, "none" \notin Field
  PROVE  LET P == Form!Pass(fm, act, c)
             Q == Form!Pass(fm, P, c)
         IN /\ P \in SUBSET Field /\ Q \in SUBSET Field
            /\ Back(fm, x) => (x \in Q <=> Form!Satisfied(fm, x, P, c))
            /\ ~Back(fm, x) => /\ x \in P <=> Form!Satisfied(fm, x, P, c)
                               /\ x \in Q <=> Form!Satisfied(fm, x, Q, c)
<1> DEFINE P == Form!Pass(fm, act, c)
           Q == Form!Pass(fm, P, c)
<1>1. PICK i \in DOMAIN fm.order : fm.order[i] = x
  BY DEF Form!IsForm
<1>2. P \in SUBSET Field
  BY <1>1, PassFacts
<1>3. Q \in SUBSET Field
  BY <1>1, <1>2, PassFacts
<1>4. CASE fm.on[x] = Form!None
  <2>1. ~Back(fm, x)
    BY <1>4 DEF Back
  <2>2. x \in P <=> Form!Satisfied(fm, x, P, c)
    BY <1>1, <1>4, PassFacts
  <2>3. x \in Q <=> Form!Satisfied(fm, x, Q, c)
    BY <1>1, <1>2, <1>4, PassFacts
  <2> QED
    BY <1>2, <1>3, <2>1, <2>2, <2>3
<1>5. CASE fm.on[x] # Form!None
  <2>1. fm.on[x] \in Field
    BY <1>5 DEF Form!IsForm
  <2>2. PICK j \in DOMAIN fm.order : fm.order[j] = fm.on[x]
    BY <2>1 DEF Form!IsForm
  <2>3. fm.on[x] # x
    <3>1. {x} \in (SUBSET Field) \ {{}}
      <4>1. {x} \subseteq Field /\ x \in {x}
        OBVIOUS
      <4>2. {x} # {}
        BY ONLY <4>1
      <4> QED
        BY ONLY <4>1, <4>2
    <3>2. \E y \in {x} : fm.on[y] \notin {x}
      BY <3>1 DEF Form!IsForm
    <3> QED
      BY <3>2
  <2>4. /\ i \in Nat /\ j \in Nat /\ i # j
        /\ \A k, l \in DOMAIN fm.order : fm.order[k] = fm.order[l] => k = l
    <3>1. /\ fm.order \in Seq(Field)
          /\ \A k, l \in DOMAIN fm.order : fm.order[k] = fm.order[l] => k = l
      BY DEF Form!IsForm
    <3>2. DOMAIN fm.order \subseteq Nat
      BY <3>1
    <3> QED
      BY <1>1, <2>2, <2>3, <3>1, <3>2
  <2>5. CASE j < i
    <3>1. ~Back(fm, x)
      <4> SUFFICES ASSUME NEW k \in DOMAIN fm.order, NEW l \in DOMAIN fm.order,
                          k < l, fm.order[k] = x, fm.order[l] = fm.on[x]
                   PROVE  FALSE
        BY DEF Back
      <4>1. k = i /\ l = j
        BY <1>1, <2>2, <2>4
      <4> QED
        BY <2>4, <2>5, <4>1
    <3>2. x \in P <=> Form!Satisfied(fm, x, P, c)
      BY <1>1, <2>2, <2>5, PassFacts
    <3>3. x \in Q <=> Form!Satisfied(fm, x, Q, c)
      BY <1>1, <1>2, <2>2, <2>5, PassFacts
    <3> QED
      BY <1>2, <1>3, <3>1, <3>2, <3>3
  <2>6. CASE i < j
    <3>1. Back(fm, x)
      BY <1>1, <1>5, <2>2, <2>6 DEF Back
    <3>2. x \in Q <=> Form!Satisfied(fm, x, P, c)
      BY <1>1, <1>2, <2>2, <2>6, PassFacts
    <3> QED
      BY <1>2, <1>3, <3>1, <3>2
  <2> QED
    BY <2>4, <2>5, <2>6
<1> QED
  BY <1>4, <1>5

\* Two passes are enough for one field that comes before the one it depends on.
LEMMA PassesSettle ==
  ASSUME NEW fm, Form!IsForm(fm), NEW act \in SUBSET Field,
         NEW c \in [Field -> Content \cup {Form!None}], "none" \notin Field,
         \A x, y \in Field : Back(fm, x) /\ Back(fm, y) => x = y
  PROVE  \A x \in Field : x \in Form!CheckDepends(fm, act, c)
                            <=> Form!Satisfied(fm, x, Form!CheckDepends(fm, act, c), c)
<1> DEFINE P == Form!Pass(fm, act, c)
           Q == Form!Pass(fm, P, c)
           D == {x \in Field : ~(x \in P <=> x \in Q)}
<1>1. Form!CheckDepends(fm, act, c) = Q
  BY DEF Form!CheckDepends
<1>2. \A x \in Field : /\ Back(fm, x) => (x \in Q <=> Form!Satisfied(fm, x, P, c))
                       /\ ~Back(fm, x) => /\ x \in P <=> Form!Satisfied(fm, x, P, c)
                                          /\ x \in Q <=> Form!Satisfied(fm, x, Q, c)
  BY TwoPasses
<1>3. \A x \in Field : fm.on[x] # Form!None => fm.on[x] \in Field
  BY DEF Form!IsForm
<1>4. \A S \in (SUBSET Field) \ {{}} : \E x \in S : fm.on[x] \notin S
  BY DEF Form!IsForm
<1> HIDE DEF P, Q
<1>5. \A x \in Field : (fm.on[x] = Form!None \/ fm.on[x] \notin D)
                          => (Form!Satisfied(fm, x, P, c) <=> Form!Satisfied(fm, x, Q, c))
  <2> SUFFICES ASSUME NEW x \in Field, fm.on[x] = Form!None \/ fm.on[x] \notin D
               PROVE  Form!Satisfied(fm, x, P, c) <=> Form!Satisfied(fm, x, Q, c)
    OBVIOUS
  <2>1. fm.on[x] # Form!None => (fm.on[x] \in P <=> fm.on[x] \in Q)
    BY <1>3
  <2> QED
    BY <2>1, SameSatisfied
<1>6. \A x \in D : ~Back(fm, x) => fm.on[x] \in D
  BY <1>2, <1>5
<1>7. ASSUME NEW x \in Field, Back(fm, x)
      PROVE  fm.on[x] \notin D
  <2> SUFFICES ASSUME fm.on[x] \in D
               PROVE  FALSE
    OBVIOUS
  <2> DEFINE S == D \cup {x}
  <2>1. S \in (SUBSET Field) \ {{}}
    <3>1. S \subseteq Field /\ x \in S
      OBVIOUS
    <3>2. S # {}
      BY ONLY <3>1
    <3> QED
      BY ONLY <3>1, <3>2
  <2>2. \A y \in S : fm.on[y] \in S
    BY <1>6, <1>7
  <2> HIDE DEF S
  <2> QED
    BY <1>4, <2>1, <2>2
<1>8. \A x \in Field : x \in Q <=> Form!Satisfied(fm, x, Q, c)
  BY <1>2, <1>5, <1>7
<1> QED
  BY <1>1, <1>8

\* What a form needs is that of the passes above: one field at most comes before
\* the one it depends on.
LEMMA OneBack ==
  ASSUME Form!IsForm(v1), ~Form!NeedsMorePasses
  PROVE  \A x, y \in Field : Back(v1, x) /\ Back(v1, y) => x = y
<1> DEFINE n == Len(v1.order)
           B == {x \in Field : Form!IsBackward(x)}
<1>1. /\ n \in Nat /\ v1.order \in Seq(Field) /\ DOMAIN v1.order = 1..n
      /\ \A i, j \in 1..n : v1.order[i] = v1.order[j] => i = j
      /\ \A x \in Field : \E i \in 1..n : v1.order[i] = x
      /\ \A x \in Field : v1.on[x] \in Field \cup {Form!None}
  BY DEF Form!IsForm
<1> DEFINE f == [x \in Field |-> Form!PlaceOf(x)]
<1>2. \A x \in Field : f[x] \in 1..n /\ v1.order[f[x]] = x
  BY <1>1 DEF Form!PlaceOf
<1>3. \A x \in Field, i \in 1..n : v1.order[i] = x => f[x] = i
  BY <1>1, <1>2
<1> HIDE DEF f
<1>4. IsFiniteSet(Field)
  <2>1. IsFiniteSet(1..n)
    <3>1. 1 \in Int /\ n \in Int
      BY <1>1
    <3> QED
      BY ONLY <3>1, FS_Interval
  <2> DEFINE g == [i \in 1..n |-> v1.order[i]]
  <2>2. \A i \in 1..n : v1.order[i] \in Field
    BY <1>1
  <2>3. g \in [1..n -> Field] /\ \A x \in Field : \E i \in 1..n : g[i] = x
    BY <1>1, <2>2
  <2> HIDE DEF g
  <2>4. g \in Surjection(1..n, Field)
    BY ONLY <2>3 DEF Surjection
  <2> QED
    BY ONLY <2>1, <2>4, FS_Surjection
<1>5. ASSUME NEW x \in Field, Back(v1, x)
      PROVE  x \in B
  <2>1. PICK i \in 1..n, j \in 1..n :
          v1.on[x] # Form!None /\ i < j /\ v1.order[i] = x /\ v1.order[j] = v1.on[x]
    BY <1>1, <1>5 DEF Back
  <2>2. v1.on[x] \in Field
    BY <1>1, <2>1
  <2>3. f[x] = i /\ f[v1.on[x]] = j
    BY <1>3, <2>1, <2>2
  <2>4. Form!PlaceOf(x) = i /\ Form!PlaceOf(v1.on[x]) = j
    BY <2>2, <2>3 DEF f
  <2> QED
    BY <2>1, <2>4 DEF Form!IsBackward
<1>6. Cardinality(B) <= 1
  <2>1. Form!Cardinality(B) = Cardinality(B)
    BY DEF Form!Cardinality, Cardinality
  <2>2. Cardinality(B) \in Nat
    <3>1. IsFiniteSet(B)
      BY <1>4, FS_Subset
    <3> QED
      BY ONLY <3>1, FS_CardinalityType
  <2> QED
    BY <2>1, <2>2 DEF Form!NeedsMorePasses
<1> SUFFICES ASSUME NEW x \in Field, NEW y \in Field, Back(v1, x), Back(v1, y), x # y
             PROVE  FALSE
  OBVIOUS
<1>7. {x, y} \subseteq B
  BY <1>5
<1>8. IsFiniteSet(B)
  BY <1>4, FS_Subset
<1> HIDE DEF B
<1>9. Cardinality({x, y}) <= Cardinality(B)
  BY ONLY <1>7, <1>8, FS_Subset
<1>10. Cardinality({x, y}) = 2
  <2>1. IsFiniteSet({x}) /\ Cardinality({x}) = 1
    BY FS_Singleton
  <2>2. {x} \cup {y} = {x, y} /\ y \notin {x}
    OBVIOUS
  <2>3. Cardinality({x} \cup {y}) = Cardinality({x}) + 1
    BY ONLY <2>1, <2>2, FS_AddElement
  <2> QED
    BY <2>1, <2>2, <2>3
<1>11. Cardinality(B) \in Nat
  BY ONLY <1>8, FS_CardinalityType
<1> QED
  BY <1>6, <1>9, <1>10, <1>11

\* So after a change, and when it is drawn, the form shows what it should.
LEMMA ChecksSettle ==
  ASSUME Form!IsForm(v1), NEW act \in SUBSET Field, NEW c \in [Field -> Content \cup {Form!None}]
  PROVE  /\ Form!CheckDepends(v1, act, c) \subseteq Field
         /\ \/ Form!NeedsMorePasses
            \/ \A x \in Field : (x \in Form!CheckDepends(v1, act, c))
                                  = Form!Satisfied(v1, x, Form!CheckDepends(v1, act, c), c)
<1>0. "none" \notin Field
  BY FormsAssumption
<1>1. Form!CheckDepends(v1, act, c) \subseteq Field
  <2>1. Going(v1, act, c) # {}
    BY PassRuns
  <2>2. Form!Pass(v1, act, c) \in SUBSET Field
    BY <2>1 DEF Going
  <2>3. Going(v1, Form!Pass(v1, act, c), c) # {}
    BY <2>2, PassRuns
  <2> QED
    BY <2>3 DEF Going, Form!CheckDepends
<1>2. CASE ~Form!NeedsMorePasses
  <2>1. \A x, y \in Field : Back(v1, x) /\ Back(v1, y) => x = y
    BY <1>2, OneBack
  <2>2. \A x \in Field : x \in Form!CheckDepends(v1, act, c)
                            <=> Form!Satisfied(v1, x, Form!CheckDepends(v1, act, c), c)
    BY <1>0, <2>1, PassesSettle
  <2> QED
    BY <1>1, <2>2, ShownOrNot
<1> QED
  BY <1>1, <1>2

\* What the options are while they are written, one field after the other.
Writing(opts, act) ==
  {g \in [0..Len(v1.order) -> [Option -> Content \cup {Form!None}]] :
     /\ g[0] = opts /\ g[Len(v1.order)] = Form!ParseAll(opts, act)
     /\ \A i \in 1..Len(v1.order) : g[i] = Form!Parse(g[i - 1], v1.order[i], act)}

\* A field writes its own option, or nothing.
LEMMA ParseWrites ==
  ASSUME Form!IsForm(v1), v2 \in [Field -> Content \cup {Form!None}],
         NEW opts \in [Option -> Content \cup {Form!None}], NEW x \in Field, NEW act
  PROVE  /\ Form!Parse(opts, x, act) \in [Option -> Content \cup {Form!None}]
         /\ \A o \in Option : o # v1.option[x] => Form!Parse(opts, x, act)[o] = opts[o]
<1>1. v1.option[x] \in Option /\ v2[x] \in Content \cup {Form!None}
  BY DEF Form!IsForm
<1>2. PICK v \in Content \cup {Form!None} :
        Form!Parse(opts, x, act) \in {opts, [opts EXCEPT ![v1.option[x]] = v]}
  <2>1. Form!Parse(opts, x, act) \in {opts, [opts EXCEPT ![v1.option[x]] = Form!None],
                                      [opts EXCEPT ![v1.option[x]] = v2[x]]}
    BY DEF Form!Parse, Form!Remove
  <2> QED
    BY <1>1, <2>1
<1> QED
  BY <1>1, <1>2

\* Saving comes to each field once, with what the fields before have written.
LEMMA ParseRuns ==
  ASSUME Form!IsForm(v1), v2 \in [Field -> Content \cup {Form!None}],
         NEW opts \in [Option -> Content \cup {Form!None}], NEW act
  PROVE  Writing(opts, act) # {}
<1> DEFINE n == Len(v1.order)
           T == [Option -> Content \cup {Form!None}]
           F(i, a) == Form!Parse(a, v1.order[i], act)
           f == [i \in 1..n |-> [a \in T |-> F(i, a)]]
           is(g) == g = [i \in 0..n |-> IF i = 0 THEN opts ELSE F(i, g[i - 1])]
           after == CHOOSE h : is(h)
<1>1. n \in Nat /\ (\A i \in 1..n : v1.order[i] \in Field) /\ opts \in T
  BY DEF Form!IsForm
<1>2. \A i \in 1..n, a \in T : F(i, a) \in T
  BY <1>1, ParseWrites
<1>3. Form!ParseAll(opts, act) = after[n]
  BY DEF Form!ParseAll
<1>4. ASSUME NEW i \in 1..n
      PROVE  i \in 0..n /\ i - 1 \in 0..n /\ i # 0
  BY <1>1
<1>5. 0 \in 0..n /\ n \in 0..n /\ \A i \in 0..n : i # 0 => i \in 1..n
  BY <1>1
<1> HIDE DEF n, T, F
<1>6. Stepping(n, T, f)
  BY <1>1, <1>2 DEF Stepping
<1>7. \A i \in 1..n, a \in T : f[i][a] = F(i, a)
  OBVIOUS
<1> HIDE DEF f
<1>8. PICK g \in [0..n -> T] : g[0] = opts /\ \A i \in 1..n : g[i] = f[i][g[i - 1]]
  <2>1. Steps(n, T, f, opts) # {}
    BY ONLY <1>1, <1>6, StepsTaken
  <2> QED
    BY <2>1 DEF Steps
<1>9. \A i \in 1..n : g[i] = F(i, g[i - 1])
  <2>1. \A i \in 1..n : g[i - 1] \in T
    BY <1>4, <1>8
  <2> QED
    BY <1>7, <1>8, <2>1
<1>10. is(g)
  BY <1>5, <1>8, <1>9
<1>11. is(after)
  BY <1>10
<1> HIDE DEF after
<1>12. after[0] = opts /\ \A i \in 1..n : after[i] = F(i, after[i - 1])
  BY <1>4, <1>5, <1>11
<1>13. \A i \in 0..n : after[i] \in T
  <2> DEFINE S == {i \in 0..n : after[i] \in T}
  <2>1. 0 \in S
    BY <1>1, <1>5, <1>12
  <2>2. ASSUME NEW i \in 1..n, i - 1 \in S
        PROVE  i \in S
    BY <1>2, <1>4, <1>12, <2>2
  <2> HIDE DEF S
  <2>3. \A i \in 0..n : i \in S
    BY ONLY <1>1, <2>1, <2>2, UpTo
  <2> QED
    BY <2>3 DEF S
<1>14. after \in [0..n -> T]
  BY <1>11, <1>13
<1> QED
  BY <1>3, <1>12, <1>14 DEF F, T, n, Writing

\* What a field that is shown has written for an option that is its own stays.
LEMMA ParseKeeps ==
  ASSUME Form!FieldsTypeOK, NEW act, NEW x \in Field, x \in act,
         ~Form!Refused(x, act), v4[x] = v5[v1.option[x]],
         \A y \in Field \ {x} : v1.option[y] = v1.option[x] =>
           y \notin act /\ (y \in v1.retain \/ x \in v1.named)
  PROVE  /\ Form!ParseAll(v5, act)[v1.option[x]] = v2[x]
         /\ Form!ParseAll(v5, act) \in [Option -> Content \cup {Form!None}]
<1> DEFINE n == Len(v1.order)
           o == v1.option[x]
<1>1. /\ Form!IsForm(v1) /\ v2 \in [Field -> Content \cup {Form!None}]
      /\ v5 \in [Option -> Content \cup {Form!None}]
  BY DEF Form!FieldsTypeOK
<1>2. /\ n \in Nat /\ DOMAIN v1.order = 1..n /\ o \in Option
      /\ \A i, j \in 1..n : v1.order[i] = v1.order[j] => i = j
      /\ \A i \in 1..n : v1.order[i] \in Field
  BY <1>1 DEF Form!IsForm
<1>3. PICK p \in 1..n : v1.order[p] = x
  BY <1>1 DEF Form!IsForm
<1>4. PICK g \in [0..n -> [Option -> Content \cup {Form!None}]] :
        /\ g[0] = v5 /\ g[n] = Form!ParseAll(v5, act)
        /\ \A i \in 1..n : g[i] = Form!Parse(g[i - 1], v1.order[i], act)
  <2>1. Writing(v5, act) # {}
    BY <1>1, ParseRuns
  <2> QED
    BY <2>1 DEF Writing
<1>5. ASSUME NEW opts \in [Option -> Content \cup {Form!None}], opts[o] = v4[x]
      PROVE  Form!Parse(opts, x, act)[o] = v2[x]
  <2>1. \A y \in act \ {x} : ~(y \in v1.named /\ v1.option[y] = o)
    <3>1. v1.named \subseteq Field
      BY <1>1 DEF Form!IsForm
    <3> QED
      BY <3>1
  <2>2. Form!Remove(opts, x, act) = [opts EXCEPT ![o] = Form!None]
    BY <2>1 DEF Form!Remove
  <2>3. CASE v2[x] = Form!None
    <3>1. Form!Parse(opts, x, act) = [opts EXCEPT ![o] = Form!None]
      BY <2>2, <2>3 DEF Form!Parse
    <3> QED
      BY <1>2, <2>3, <3>1
  <2>4. CASE v2[x] # Form!None /\ (x \in v1.flag \/ v2[x] # v4[x])
    <3>1. Form!Parse(opts, x, act) = [opts EXCEPT ![o] = v2[x]]
      BY <2>4 DEF Form!Parse
    <3> QED
      BY <1>2, <3>1
  <2>5. CASE v2[x] # Form!None /\ ~(x \in v1.flag \/ v2[x] # v4[x])
    <3>1. Form!Parse(opts, x, act) = opts
      BY <2>5 DEF Form!Parse
    <3> QED
      BY <1>5, <2>5, <3>1
  <2> QED
    BY <2>3, <2>4, <2>5
<1>6. ASSUME NEW opts \in [Option -> Content \cup {Form!None}], NEW y \in Field, y # x
      PROVE  Form!Parse(opts, y, act)[o] = opts[o]
  <2>1. CASE v1.option[y] # o
    BY <1>1, <1>2, <2>1, ParseWrites
  <2>2. CASE v1.option[y] = o
    <3>1. y \notin act /\ (y \in v1.retain \/ x \in v1.named)
      BY <1>6, <2>2
    <3>2. Form!Parse(opts, y, act) = opts
      BY <2>2, <3>1 DEF Form!Parse, Form!Remove
    <3> QED
      BY <3>2
  <2> QED
    BY <2>1, <2>2
<1> DEFINE S == {k \in 0..n : g[k][o] = IF k < p THEN v4[x] ELSE v2[x]}
<1> HIDE DEF n, o
<1>7. 0 \in S
  <2>1. v5[o] = v4[x]
    BY DEF o
  <2>2. 0 \in 0..n /\ 0 < p
    BY <1>2
  <2> QED
    BY <1>4, <2>1, <2>2
<1>8. ASSUME NEW k \in 1..n, k - 1 \in S
      PROVE  k \in S
  <2>1. k \in 0..n /\ k - 1 \in 0..n
    BY <1>2
  <2>2. g[k - 1] \in [Option -> Content \cup {Form!None}] /\ g[k] = Form!Parse(g[k - 1], v1.order[k], act)
    BY <1>4, <2>1
  <2>3. CASE k = p
    <3>1. k - 1 < p /\ ~(k < p)
      BY <2>3
    <3>2. g[k][o] = v2[x]
      BY <1>3, <1>5, <1>8, <2>2, <2>3, <3>1
    <3> QED
      BY <2>1, <3>1, <3>2
  <2>4. CASE k # p
    <3>1. v1.order[k] # x /\ v1.order[k] \in Field
      BY <1>2, <1>3, <2>4
    <3>2. g[k][o] = g[k - 1][o]
      BY <1>6, <2>2, <3>1
    <3>3. k - 1 < p <=> k < p
      BY <2>4
    <3> QED
      BY <1>8, <2>1, <3>2, <3>3
  <2> QED
    BY <2>3, <2>4
<1>9. n \in 0..n /\ ~(n < p)
  BY <1>2
<1>10. \A k \in 0..n : k \in S
  <2> HIDE DEF S
  <2> QED
    BY ONLY <1>2, <1>7, <1>8, UpTo
<1> QED
  BY <1>4, <1>9, <1>10 DEF o

\* A form as it is drawn at first.
LEMMA FormStart ==
  ASSUME Form!FormInit
  PROVE  Form!FieldsFit
<1>1. Form!IsForm(v1) /\ v1.option \in [Field -> Option]
  BY FormsAssumption DEF Form!FormInit, Form!IsForm
<1>2. v6 \in [Option -> Content \cup {Form!None}] /\ v5 = v6
  BY DEF Form!FormInit
<1>3. v4 = [x \in Field |-> v6[v1.option[x]]] /\ v2 = v4
  BY DEF Form!FormInit
<1>4. v4 \in [Field -> Content \cup {Form!None}]
  <2>1. \A x \in Field : v6[v1.option[x]] \in Content \cup {Form!None}
    BY <1>1, <1>2
  <2> QED
    BY <1>3, <2>1
<1>5. v3 = Form!CheckDepends(v1, {x \in Field : v1.on[x] = Form!None}, v2)
  BY DEF Form!FormInit
<1>6. v3 \subseteq Field /\ Form!ShownAsItShould
  BY <1>1, <1>3, <1>4, <1>5, ChecksSettle DEF Form!ShownAsItShould
<1>7. v7 = FALSE /\ v8 = Form!Nothing /\ v9 = FALSE /\ v10 \in 0..MaxSaves
  BY FormsAssumption DEF Form!FormInit
<1>8. Form!FieldsTypeOK
  BY <1>1, <1>2, <1>3, <1>4, <1>6, <1>7 DEF Form!FieldsTypeOK
<1>9. Form!SavedAsShown
  BY <1>7 DEF Form!SavedAsShown
<1>10. \A x \in Field : v4[x] = v5[v1.option[x]]
  BY <1>2, <1>3
<1> QED
  BY <1>6, <1>7, <1>8, <1>9, <1>10 DEF Form!FieldsFit

\* The fields depend on each other as they did.
LEMMA SameForm ==
  ASSUME v1' = v1
  PROVE  /\ Form!NeedsMorePasses' <=> Form!NeedsMorePasses
         /\ v8' = v8 => \A x \in Field : Form!HasItsOption(x)' <=> Form!HasItsOption(x)
<1>1. Form!NeedsMorePasses' <=> Form!NeedsMorePasses
  BY DEF Form!NeedsMorePasses, Form!IsBackward, Form!PlaceOf
<1>2. ASSUME v8' = v8, NEW x \in Field
      PROVE  Form!HasItsOption(x)' <=> Form!HasItsOption(x)
  BY <1>2 DEF Form!HasItsOption
<1> QED
  BY <1>1, <1>2

\* Drawn anew, the form shows what it should.
LEMMA FormRendered ==
  ASSUME Form!FieldsFit, v1' = v1, NEW c \in [Field -> Content \cup {Form!None}], Form!Render(v1, c)
  PROVE  v2' = c /\ v3' \subseteq Field /\ Form!ShownAsItShould'
<1>1. Form!IsForm(v1)
  BY DEF Form!FieldsFit, Form!FieldsTypeOK
<1>2. v2' = c /\ v3' = Form!CheckDepends(v1, {x \in Field : v1.on[x] = Form!None}, c)
  BY DEF Form!Render
<1> QED
  BY <1>1, <1>2, ChecksSettle, SameForm DEF Form!ShownAsItShould

\* Something is edited.
LEMMA FormEdited ==
  ASSUME Form!FieldsFit, NEW x \in Field, NEW v \in Content \cup {Form!None}, Form!Edit(x, v)
  PROVE  Form!FieldsFit'
<1>1. Form!IsForm(v1) /\ v2 \in [Field -> Content \cup {Form!None}] /\ v3 \subseteq Field
  BY DEF Form!FieldsFit, Form!FieldsTypeOK
<1>2. /\ v2' = [v2 EXCEPT ![x] = v] /\ v3' = Form!CheckDepends(v1, v3, v2')
      /\ UNCHANGED <<v1, v4, v5, v6, v7, v8, v9, v10>>
  BY DEF Form!Edit
<1>3. v2' \in [Field -> Content \cup {Form!None}]
  BY <1>1, <1>2
<1>4. v3' \subseteq Field /\ Form!ShownAsItShould'
  BY <1>1, <1>2, <1>3, ChecksSettle, SameForm DEF Form!ShownAsItShould
<1>5. Form!FieldsTypeOK'
  BY <1>2, <1>3, <1>4 DEF Form!FieldsFit, Form!FieldsTypeOK
<1>6. Form!SavedAsShown'
  BY <1>2, SameForm DEF Form!FieldsFit, Form!SavedAsShown
<1>7. v7' /\ v8' # Form!Nothing => \A y \in Field :
        v8'[y] # Form!Hidden /\ Form!HasItsOption(y)' => v5'[v1'.option[y]] = v8'[y]
  BY <1>2, SameForm DEF Form!FieldsFit
<1>8. ~v7' /\ ~v9' => \A y \in Field : v4'[y] = v5'[v1'.option[y]]
  BY <1>2 DEF Form!FieldsFit
<1> QED
  BY <1>4, <1>5, <1>6, <1>7, <1>8 DEF Form!FieldsFit

\* The fields write what they hold; unless one is refused, what is shown is in
\* the cache.
LEMMA FormSaved ==
  ASSUME Form!FieldsFit, Form!Save
  PROVE  Form!FieldsFit'
<1>1. /\ Form!IsForm(v1) /\ v1.option \in [Field -> Option] /\ v2 \in [Field -> Content \cup {Form!None}]
      /\ v3 \subseteq Field /\ v5 \in [Option -> Content \cup {Form!None}] /\ v10 \in 0..MaxSaves
      /\ Form!FieldsTypeOK
  BY DEF Form!FieldsFit, Form!FieldsTypeOK, Form!IsForm
<1>2. /\ ~v7 /\ v10 < MaxSaves /\ v10' = v10 + 1
      /\ v3' = Form!CheckDepends(v1, v3, v2) /\ v5' = Form!ParseAll(v5, v3')
      /\ UNCHANGED <<v1, v2, v4, v6>>
  BY DEF Form!Save
<1>3. v3' \subseteq Field /\ Form!ShownAsItShould'
  BY <1>1, <1>2, ChecksSettle, SameForm DEF Form!ShownAsItShould
<1>4. v5' \in [Option -> Content \cup {Form!None}]
  <2>1. Writing(v5, v3') # {}
    BY <1>1, ParseRuns
  <2>2. Len(v1.order) \in 0..Len(v1.order)
    BY <1>1 DEF Form!IsForm
  <2> QED
    BY <1>2, <2>1, <2>2 DEF Writing
<1>5. v10' \in 0..MaxSaves
  BY <1>1, <1>2, FormsAssumption
<1>6. CASE \E x \in Field : Form!Refused(x, v3')
  <2>1. v9' = TRUE /\ UNCHANGED <<v7, v8>>
    BY <1>6 DEF Form!Save
  <2>2. Form!FieldsTypeOK'
    BY <1>2, <1>3, <1>4, <1>5, <2>1 DEF Form!FieldsFit, Form!FieldsTypeOK
  <2>3. Form!SavedAsShown'
    BY <1>2, <2>1, SameForm DEF Form!FieldsFit, Form!SavedAsShown
  <2> QED
    BY <1>2, <1>3, <2>1, <2>2, <2>3 DEF Form!FieldsFit
<1>7. CASE ~\E x \in Field : Form!Refused(x, v3')
  <2>1. v7' = TRUE /\ v9' = v9
    BY <1>7 DEF Form!Save
  <2>2. v8' = IF v9 THEN Form!Nothing ELSE [x \in Field |-> IF x \in v3' THEN v2[x] ELSE Form!Hidden]
    BY <1>7 DEF Form!Save
  <2>3. v8' = Form!Nothing \/ v8' \in [Field -> Content \cup {Form!None, Form!Hidden}]
    BY <1>1, <2>2
  <2>4. Form!FieldsTypeOK'
    BY <1>2, <1>3, <1>4, <1>5, <2>1, <2>3 DEF Form!FieldsFit, Form!FieldsTypeOK
  <2>5. Form!SavedAsShown'
    BY <2>1 DEF Form!SavedAsShown
  <2>6. ASSUME v8' # Form!Nothing, NEW x \in Field, v8'[x] # Form!Hidden, Form!HasItsOption(x)'
        PROVE  v5'[v1.option[x]] = v8'[x]
    <3>1. ~v9 /\ v8' = [y \in Field |-> IF y \in v3' THEN v2[y] ELSE Form!Hidden]
      BY <2>2, <2>6
    <3>2. x \in v3' /\ v8'[x] = v2[x]
      BY <2>6, <3>1
    <3>3. v4[x] = v5[v1.option[x]]
      BY <1>2, <3>1 DEF Form!FieldsFit
    <3>4. \A y \in Field \ {x} : v1.option[y] = v1.option[x] =>
            y \notin v3' /\ (y \in v1.retain \/ x \in v1.named)
      <4>1. \A y \in Field : v8'[y] = Form!Hidden => y \notin v3'
        <5>1. Form!Hidden \notin Content \cup {Form!None}
          BY FormsAssumption DEF Form!Hidden, Form!None
        <5> QED
          BY <1>1, <3>1, <5>1
      <4> QED
        BY <1>2, <2>6, <4>1 DEF Form!HasItsOption
    <3>5. ~Form!Refused(x, v3')
      BY <1>7
    <3>6. Form!ParseAll(v5, v3')[v1.option[x]] = v2[x]
      BY <1>1, <3>2, <3>3, <3>4, <3>5, ParseKeeps
    <3> QED
      BY <1>2, <3>2, <3>6
  <2> QED
    BY <1>2, <1>3, <2>1, <2>4, <2>5, <2>6 DEF Form!FieldsFit
<1> QED
  BY <1>6, <1>7

\* Any step of a form.
LEMMA FormStep ==
  ASSUME Form!FieldsFit, Form!FormNext
  PROVE  Form!FieldsFit'
<1>1. /\ Form!FieldsTypeOK /\ Form!IsForm(v1) /\ v1.option \in [Field -> Option]
      /\ v4 \in [Field -> Content \cup {Form!None}] /\ v5 \in [Option -> Content \cup {Form!None}]
  BY DEF Form!FieldsFit, Form!FieldsTypeOK, Form!IsForm
<1>2. CASE Form!SaveServed
  <2>1. /\ v7 /\ v7' = FALSE /\ v6' = v5 /\ v4' = [x \in Field |-> v5[v1.option[x]]]
        /\ Form!Render(v1, v4') /\ v9' = FALSE /\ UNCHANGED <<v1, v5, v8, v10>>
    BY <1>2 DEF Form!SaveServed
  <2>2. v4' \in [Field -> Content \cup {Form!None}]
    <3>1. \A x \in Field : v5[v1.option[x]] \in Content \cup {Form!None}
      BY <1>1
    <3> QED
      BY <2>1, <3>1
  <2>3. v2' = v4' /\ v3' \subseteq Field /\ Form!ShownAsItShould'
    BY <2>1, <2>2, FormRendered
  <2>4. Form!FieldsTypeOK'
    BY <1>1, <2>1, <2>2, <2>3 DEF Form!FieldsTypeOK
  <2>5. Form!SavedAsShown'
    BY <2>1, SameForm DEF Form!FieldsFit, Form!SavedAsShown
  <2> QED
    BY <2>1, <2>3, <2>4, <2>5 DEF Form!FieldsFit
<1>3. CASE Form!SaveFails
  <2>1. /\ v7' = FALSE /\ v9' = TRUE /\ v8' = Form!Nothing
        /\ UNCHANGED <<v1, v2, v3, v4, v5, v6, v10>>
    BY <1>3 DEF Form!SaveFails
  <2>2. Form!FieldsTypeOK'
    BY <1>1, <2>1 DEF Form!FieldsTypeOK
  <2>3. Form!ShownAsItShould'
    BY <2>1, SameForm DEF Form!FieldsFit, Form!ShownAsItShould
  <2>4. Form!SavedAsShown'
    BY <2>1 DEF Form!SavedAsShown
  <2> QED
    BY <2>1, <2>2, <2>3, <2>4 DEF Form!FieldsFit
<1>4. CASE Form!Reset
  <2>1. Form!Render(v1, v4) /\ UNCHANGED <<v1, v4, v5, v6, v7, v8, v9, v10>>
    BY <1>4 DEF Form!Reset
  <2>2. v2' = v4 /\ v3' \subseteq Field /\ Form!ShownAsItShould'
    BY <1>1, <2>1, FormRendered
  <2>3. Form!FieldsTypeOK'
    BY <1>1, <2>1, <2>2 DEF Form!FieldsTypeOK
  <2>4. Form!SavedAsShown'
    BY <2>1, SameForm DEF Form!FieldsFit, Form!SavedAsShown
  <2>5. v7' /\ v8' # Form!Nothing => \A y \in Field :
          v8'[y] # Form!Hidden /\ Form!HasItsOption(y)' => v5'[v1'.option[y]] = v8'[y]
    BY <2>1, SameForm DEF Form!FieldsFit
  <2>6. ~v7' /\ ~v9' => \A y \in Field : v4'[y] = v5'[v1'.option[y]]
    BY <2>1 DEF Form!FieldsFit
  <2> QED
    BY <2>2, <2>3, <2>4, <2>5, <2>6 DEF Form!FieldsFit
<1> QED
  BY <1>2, <1>3, <1>4, FormEdited, FormSaved DEF Form!FormNext

\* A form at rest.
LEMMA FormRests ==
  ASSUME Form!FieldsFit, UNCHANGED pageVars
  PROVE  Form!FieldsFit'
<1>1. UNCHANGED <<v1, v2, v3, v4, v5, v6, v7, v8, v9, v10>>
  BY DEF pageVars
<1>2. Form!FieldsTypeOK'
  BY <1>1 DEF Form!FieldsFit, Form!FieldsTypeOK
<1>3. Form!ShownAsItShould' /\ Form!SavedAsShown'
  BY <1>1, SameForm DEF Form!FieldsFit, Form!ShownAsItShould, Form!SavedAsShown
<1> QED
  BY <1>1, <1>2, <1>3, SameForm DEF Form!FieldsFit

\* The dialog of a zone that keeps its name, and has no namesake.
LEMMA ZonesObeyed ==
  ASSUME Zones!ZonesFit
  PROVE  Zones!DialogIsObeyed
<1> SUFFICES ASSUME NEW z \in DOMAIN v1, NEW nets \in SUBSET ZoneNetwork, ~Zones!Twins(z)
             PROVE  LET saved == Zones!Saved(v1, z, v1[z].name, nets, {}, {}).zones
                    IN /\ saved[z].networks = nets
                       /\ \A y \in DOMAIN v1 \ {z} : saved[y] = v1[y]
  BY DEF Zones!DialogIsObeyed
<1> DEFINE name == v1[z].name
           saved == Zones!Saved(v1, z, name, nets, {}, {}).zones
<1>1. /\ v1 \in Seq(Zones!Zone) /\ DOMAIN v1 \subseteq Nat
      /\ \A y \in DOMAIN v1 : v1[y] \in [name : ZoneName \cup {Zones!None}, networks : SUBSET ZoneNetwork]
  <2>1. v1 \in Seq(Zones!Zone)
    BY DEF Zones!ZonesFit, Zones!ZoneTypeOK
  <2>2. DOMAIN v1 \subseteq Nat /\ \A y \in DOMAIN v1 : v1[y] \in Zones!Zone
    BY <2>1
  <2> QED
    BY <2>1, <2>2 DEF Zones!Zone
<1>2. \A y \in DOMAIN v1 : v1[y].name = name => y = z
  BY DEF Zones!Twins
<1>3. [v1 EXCEPT ![z].name = name] = v1
  <2>1. [v1[z] EXCEPT !.name = name] = v1[z]
    BY <1>1
  <2>2. [v1 EXCEPT ![z].name = name] = [v1 EXCEPT ![z] = [v1[z] EXCEPT !.name = name]]
    OBVIOUS
  <2> QED
    BY <1>1, <2>1, <2>2
<1>4. Zones!RenameZones(v1, name, name) = v1
  BY DEF Zones!RenameZones, Zones!IsUsed
<1>5. saved = IF nets = v1[z].networks THEN v1 ELSE Zones!WriteNetworks(v1, name, nets)
  BY <1>3, <1>4 DEF Zones!Saved
<1>6. Zones!LookupZone(v1, name) = {z}
  BY <1>1, <1>2 DEF Zones!LookupZone
<1>7. Zones!WriteNetworks(v1, name, nets) =
        [i \in DOMAIN v1 |-> IF i = z THEN [v1[i] EXCEPT !.networks = nets] ELSE v1[i]]
  BY <1>6 DEF Zones!WriteNetworks
<1>8. [v1[z] EXCEPT !.networks = nets].networks = nets
  BY <1>1
<1> QED
  BY <1>5, <1>7, <1>8

-----------------------------------------------------------------------------
(* Sections of a document                                                  *)

LEMMA JsonSets ==
  \A S : Json!Cardinality(S) = Cardinality(S) /\ (Json!IsFiniteSet(S) <=> IsFiniteSet(S))
BY DEF Json!Cardinality, Cardinality, Json!IsFiniteSet, IsFiniteSet

\* Sections, finitely many, each with an index.
Indexed(d) ==
  /\ IsFiniteSet(DOMAIN d) /\ DOMAIN d \subseteq Kind \X (Nat \cup {-1})
  /\ \A n \in DOMAIN d : d[n] \in [type : Kind, index : Nat]

\* The next index is behind all.
LEMMA NextIsBehind ==
  ASSUME NEW d, Indexed(d)
  PROVE  Json!NextIndex(d) \in Nat /\ \A n \in DOMAIN d : d[n].index < Json!NextIndex(d)
<1> DEFINE indices == {0} \cup {d[n].index : n \in DOMAIN d}
           last == CHOOSE i \in indices : \A j \in indices : j <= i
<1>1. \A n \in DOMAIN d : d[n].index \in Nat
  BY DEF Indexed
<1>2. \E i \in indices : \A j \in indices : j <= i
  <2>1. CASE DOMAIN d = {}
    <3>1. \A j \in indices : j = 0
      BY <2>1
    <3>2. 0 \in indices /\ 0 <= 0
      OBVIOUS
    <3> HIDE DEF indices
    <3> QED
      BY <3>1, <3>2
  <2>2. CASE DOMAIN d # {}
    <3> DEFINE D == DOMAIN d
               key == [n \in D |-> -d[n].index]
    <3>1. key \in [D -> Int] /\ IsFiniteSet(D) /\ D # {}
      BY <1>1, <2>2 DEF Indexed
    <3>2. \A n \in D : key[n] = -d[n].index
      OBVIOUS
    <3> HIDE DEF D, key
    <3>3. PICK n \in D : \A m \in D : key[n] <= key[m]
      BY ONLY <3>1, Least
    <3> USE DEF D
    <3>4. \A m \in D : d[m].index <= d[n].index
      BY <1>1, <3>2, <3>3
    <3>5. d[n].index \in indices /\ \A j \in indices : j <= d[n].index
      BY <1>1, <3>4
    <3> QED
      BY <3>5
  <2> QED
    BY <2>1, <2>2
<1>3. last \in indices /\ \A j \in indices : j <= last
  BY <1>2
<1>4. last \in Nat
  <2>1. \A i \in indices : i \in Nat
    BY <1>1
  <2> HIDE DEF indices, last
  <2> QED
    BY <1>3, <2>1
<1>5. Json!NextIndex(d) = 1 + last
  BY DEF Json!NextIndex
<1> HIDE DEF last
<1> QED
  BY <1>1, <1>3, <1>4, <1>5

\* Counted by their order, no two have the same index.
LEMMA CountedOnce ==
  ASSUME NEW d, Indexed(d)
  PROVE  LET c == Json!Reindexed(d)
         IN /\ DOMAIN c = DOMAIN d /\ Indexed(c)
            /\ \A n \in DOMAIN d : c[n].type = d[n].type
            /\ \A m, n \in DOMAIN d : c[m].index = c[n].index => m = n
<1> DEFINE D == DOMAIN d
           P(n) == {m \in D : Json!Before(d, m, n)}
           c == Json!Reindexed(d)
<1>1. \A n \in D : /\ n[1] \in Int /\ n[2] \in Int /\ n = <<n[1], n[2]>>
                   /\ d[n] \in [type : Kind, index : Nat] /\ d[n].index \in Int
  <2>1. Kind \subseteq Int /\ D \subseteq Kind \X (Nat \cup {-1})
    BY DocumentAssumption DEF Indexed
  <2>2. \A k \in Kind, x \in Nat \cup {-1} : k \in Int /\ x \in Int
    BY <2>1
  <2>3. ASSUME NEW n \in D
        PROVE  n[1] \in Int /\ n[2] \in Int /\ n = <<n[1], n[2]>>
    <3>1. n \in Kind \X (Nat \cup {-1})
      BY <2>1
    <3>2. PICK k \in Kind, x \in Nat \cup {-1} : n = <<k, x>>
      BY ONLY <3>1
    <3> QED
      BY <2>2, <3>2
  <2>4. \A n \in D : d[n] \in [type : Kind, index : Nat]
    BY DEF Indexed
  <2>5. \A n \in D : d[n].index \in Int
    BY <2>4
  <2> QED
    BY <2>3, <2>4, <2>5
<1>2. \A n \in D : IsFiniteSet(P(n)) /\ Cardinality(P(n)) \in Nat
  <2>1. IsFiniteSet(D)
    BY DEF Indexed
  <2>2. \A n \in D : P(n) \subseteq D
    OBVIOUS
  <2>3. \A n \in D : IsFiniteSet(P(n))
    <3> HIDE DEF D, P
    <3> QED
      BY ONLY <2>1, <2>2, FS_Subset
  <2> QED
    BY <2>3, FS_CardinalityType
<1>3. ASSUME NEW m \in D, NEW n \in D, Json!Before(d, m, n)
      PROVE  Cardinality(P(m)) < Cardinality(P(n))
  <2>1. \A k \in D : Json!Before(d, k, m) => Json!Before(d, k, n)
    BY <1>1, <1>3 DEF Json!Before
  <2>2. ~Json!Before(d, m, m)
    BY <1>1 DEF Json!Before
  <2>3. P(m) \subseteq P(n) /\ m \in P(n) /\ m \notin P(m)
    BY <1>3, <2>1, <2>2
  <2>4. P(m) # P(n)
    BY <2>3
  <2> HIDE DEF P
  <2> QED
    BY <1>2, <2>3, <2>4, FS_Subset
<1>4. ASSUME NEW m \in D, NEW n \in D, m # n
      PROVE  Json!Before(d, m, n) \/ Json!Before(d, n, m)
  <2>1. m[1] # n[1] \/ m[2] # n[2]
    BY <1>1, <1>4
  <2> QED
    BY <1>1, <2>1 DEF Json!Before
<1>5. DOMAIN c = D /\ \A n \in D : c[n] = [d[n] EXCEPT !.index = Cardinality(P(n))]
  BY JsonSets DEF Json!Reindexed
<1> HIDE DEF P, c
<1>6. \A n \in D : c[n].type = d[n].type /\ c[n].index = Cardinality(P(n)) /\ c[n] \in [type : Kind, index : Nat]
  BY <1>1, <1>2, <1>5
<1>7. Indexed(c)
  BY <1>5, <1>6 DEF Indexed
<1>8. \A m, n \in D : c[m].index = c[n].index => m = n
  BY <1>2, <1>3, <1>4, <1>6
<1> QED
  BY <1>5, <1>6, <1>7, <1>8 DEF c

\* How many sections of a type there are.
Counted(d, t) == Cardinality({n \in DOMAIN d : d[n].type = t})

\* A document without names, and without types that are numbered together.
OneNumbering(doc) ==
  /\ \A i \in DOMAIN doc : doc[i].name \in {Json!Unnamed, Json!Single}
  /\ \A i, j \in DOMAIN doc : doc[i].name = Json!Unnamed => doc[i].type = doc[j].type

\* The sections of a document, with their names and types.
ReadAs(doc, d) ==
  /\ Indexed(d) /\ DOMAIN d = {Json!NameOf(doc, i) : i \in DOMAIN doc}
  /\ \A n \in DOMAIN d : \E i \in DOMAIN doc : Json!NameOf(doc, i) = n /\ d[n].type = doc[i].type

\* A document that was read: its names, and the sections of its types.
LEMMA ReadFacts ==
  ASSUME NEW doc, Json!IsDocument(doc)
  PROVE  ReadAs(doc, Json!Read(doc))
<1> DEFINE L == DOMAIN doc
           last(n) == CHOOSE i \in L : /\ Json!NameOf(doc, i) = n
                                       /\ \A j \in L : Json!NameOf(doc, j) = n => j <= i
           names == {Json!NameOf(doc, i) : i \in L}
           r == Json!Read(doc)
<1>1. /\ Len(doc) \in Nat /\ L = 1..Len(doc)
      /\ \A i \in L : /\ doc[i].type \in Kind
                      /\ doc[i].name \in (Kind \X Nat) \cup {Json!Unnamed, Json!Single}
  <2> DEFINE R == [type : Kind, name : (Kind \X Nat) \cup {Json!Unnamed, Json!Single}]
  <2>1. doc \in Seq(R)
    BY DEF Json!IsDocument
  <2>2. /\ Len(doc) \in Nat /\ DOMAIN doc = 1..Len(doc)
        /\ \A i \in DOMAIN doc : doc[i] \in R
    <3> HIDE DEF R
    <3> QED
      BY ONLY <2>1
  <2>3. \A i \in DOMAIN doc : /\ doc[i].type \in Kind
                              /\ doc[i].name \in (Kind \X Nat) \cup {Json!Unnamed, Json!Single}
    BY ONLY <2>2
  <2> QED
    BY <2>2, <2>3
<1>2. IsFiniteSet(L)
  <2>1. 1 \in Int /\ Len(doc) \in Int
    BY <1>1
  <2>2. IsFiniteSet(1..Len(doc))
    BY ONLY <2>1, FS_Interval
  <2> QED
    BY <1>1, <2>2
<1>3. ASSUME NEW n \in names
      PROVE  last(n) \in L /\ Json!NameOf(doc, last(n)) = n
  <2> DEFINE D == {i \in L : Json!NameOf(doc, i) = n}
             key == [i \in D |-> -i]
  <2>1. IsFiniteSet(D) /\ D # {} /\ key \in [D -> Int] /\ D \subseteq L
    <3>1. D # {} /\ D \subseteq L
      OBVIOUS
    <3>2. \A i \in L : -i \in Int
      BY <1>1
    <3> QED
      BY <1>2, <3>1, <3>2, FS_Subset
  <2>2. \A i \in D : key[i] = -i
    OBVIOUS
  <2> HIDE DEF key
  <2>3. PICK i \in D : \A j \in D : key[i] <= key[j]
    <3> HIDE DEF D
    <3> QED
      BY ONLY <2>1, Least
  <2>4. \A j \in D : j <= i
    <3>1. \A j \in D : j \in Int
      BY <1>1
    <3> HIDE DEF D
    <3> QED
      BY <2>2, <2>3, <3>1
  <2>5. i \in L /\ Json!NameOf(doc, i) = n /\ \A j \in L : Json!NameOf(doc, j) = n => j <= i
    BY <2>4
  <2> QED
    BY <2>5
<1>4. r = [n \in names |-> [type |-> doc[last(n)].type, index |-> Json!IndexOf(doc, last(n))]]
  BY DEF Json!Read
<1> HIDE DEF last
<1>5. \A i \in L : Json!IndexOf(doc, i) \in Nat /\ Json!NameOf(doc, i) \in Kind \X (Nat \cup {-1})
  <2> SUFFICES ASSUME NEW i \in L
               PROVE  Json!IndexOf(doc, i) \in Nat /\ Json!NameOf(doc, i) \in Kind \X (Nat \cup {-1})
    OBVIOUS
  <2>1. i - 1 \in Nat
    BY <1>1
  <2> HIDE DEF L
  <2> QED
    BY <1>1, <2>1 DEF Json!IndexOf, Json!NameOf
<1>6. IsFiniteSet(names)
  <2> DEFINE f == [i \in L |-> Json!NameOf(doc, i)]
  <2>1. f \in [L -> names] /\ \A n \in names : \E i \in L : f[i] = n
    OBVIOUS
  <2> HIDE DEF f, names, L
  <2>2. f \in Surjection(L, names)
    BY ONLY <2>1 DEF Surjection
  <2> QED
    BY ONLY <1>2, <2>2, FS_Surjection
<1>7. DOMAIN r = names /\ \A n \in names :
        r[n] = [type |-> doc[last(n)].type, index |-> Json!IndexOf(doc, last(n))]
  BY <1>4
<1>8. names \subseteq Kind \X (Nat \cup {-1})
  BY <1>5
<1> HIDE DEF names, r
<1>9. \A n \in names : r[n] \in [type : Kind, index : Nat] /\ r[n].type = doc[last(n)].type
  BY <1>1, <1>3, <1>5, <1>7
<1>10. Indexed(r)
  BY <1>6, <1>7, <1>8, <1>9 DEF Indexed
<1>11. \A n \in names : \E i \in L : Json!NameOf(doc, i) = n /\ r[n].type = doc[i].type
  BY <1>3, <1>9
<1> QED
  BY <1>7, <1>10, <1>11 DEF names, r, ReadAs

\* Where no names are given, and no types numbered together, the numbers are
\* smaller than the sections of the type are many.
LEMMA FirstNames ==
  ASSUME NEW doc, Json!IsDocument(doc), OneNumbering(doc), NEW d, ReadAs(doc, d), NEW n \in DOMAIN d
  PROVE  n[1] = d[n].type /\ n[2] < Counted(d, n[1])
<1> USE DEF OneNumbering, ReadAs, Counted
<1> DEFINE T == {m \in DOMAIN d : d[m].type = n[1]}
<1>1. /\ Len(doc) \in Nat /\ DOMAIN doc = 1..Len(doc)
      /\ \A i \in DOMAIN doc : doc[i].type \in Kind
      /\ \A i, j \in DOMAIN doc : doc[i].name = Json!Single /\ doc[i].type = doc[j].type => i = j
  <2> DEFINE R == [type : Kind, name : (Kind \X Nat) \cup {Json!Unnamed, Json!Single}]
  <2>1. doc \in Seq(R)
    BY DEF Json!IsDocument
  <2>2. /\ Len(doc) \in Nat /\ DOMAIN doc = 1..Len(doc)
        /\ \A i \in DOMAIN doc : doc[i] \in R
    <3> HIDE DEF R
    <3> QED
      BY ONLY <2>1
  <2>3. \A i \in DOMAIN doc : doc[i].type \in Kind
    BY ONLY <2>2
  <2>4. \A i, j \in DOMAIN doc : doc[i].name = Json!Single /\ doc[i].type = doc[j].type => i = j
    BY DEF Json!IsDocument
  <2> QED
    BY ONLY <2>2, <2>3, <2>4
<1>2. Json!Single # Json!Unnamed
  BY DEF Json!Single, Json!Unnamed
<1>3. \A i \in DOMAIN doc :
        Json!NameOf(doc, i) = IF doc[i].name = Json!Unnamed THEN <<doc[i].type, i - 1>> ELSE <<doc[i].type, -1>>
  BY DEF Json!NameOf
<1>4. \A m \in DOMAIN d : m[1] = d[m].type
  BY <1>3
<1>5. IsFiniteSet(T) /\ Cardinality(T) \in Nat
  <2>1. IsFiniteSet(DOMAIN d) /\ T \subseteq DOMAIN d
    BY DEF Indexed
  <2> HIDE DEF T
  <2> QED
    BY <2>1, FS_Subset, FS_CardinalityType
<1>6. PICK i \in DOMAIN doc : Json!NameOf(doc, i) = n
  OBVIOUS
<1>7. CASE doc[i].name # Json!Unnamed
  <2>1. n[2] = -1
    BY <1>3, <1>6, <1>7
  <2> HIDE DEF T
  <2>2. n[2] < Cardinality(T)
    BY <1>5, <2>1
  <2> QED
    BY <1>4, <2>2 DEF T
<1>8. CASE doc[i].name = Json!Unnamed
  <2>1. n = <<doc[i].type, i - 1>>
    BY <1>3, <1>6, <1>8
  <2>2. \A j \in DOMAIN doc : doc[j].type = doc[i].type /\ doc[j].name = Json!Unnamed
    <3>1. \A j \in DOMAIN doc : doc[j].type = doc[i].type
      BY <1>8
    <3> QED
      BY <1>1, <1>2, <1>8, <3>1
  <2> DEFINE f == [j \in 1..i |-> <<doc[i].type, j - 1>>]
  <2>3. \A j \in 1..i : <<doc[i].type, j - 1>> \in T
    <3> SUFFICES ASSUME NEW j \in 1..i
                 PROVE  <<doc[i].type, j - 1>> \in T
      OBVIOUS
    <3>1. j \in DOMAIN doc
      BY <1>1
    <3>2. Json!NameOf(doc, j) = <<doc[i].type, j - 1>>
      BY <1>3, <2>2, <3>1
    <3>3. <<doc[i].type, j - 1>> \in DOMAIN d
      BY <3>1, <3>2
    <3> QED
      BY <1>4, <2>1, <3>3
  <2>4. \A j, k \in 1..i : <<doc[i].type, j - 1>> = <<doc[i].type, k - 1>> => j = k
    <3>1. \A j, k \in 1..i : j - 1 = k - 1 => j = k
      BY <1>1
    <3> QED
      BY <3>1
  <2> HIDE DEF T
  <2>5. f \in [1..i -> T] /\ \A j, k \in 1..i : f[j] = f[k] => j = k
    BY <2>3, <2>4
  <2> HIDE DEF f
  <2>6. f \in Injection(1..i, T)
    BY ONLY <2>5 DEF Injection, IsInjective
  <2>7. i \in Nat /\ i >= 1
    BY <1>1
  <2>8. Cardinality(1..i) <= Cardinality(T)
    BY ONLY <1>5, <2>6, FS_Injection
  <2>9. Cardinality(1..i) = i
    <3>1. 1 \in Int /\ i \in Int
      BY <2>7
    <3>2. Cardinality(1..i) = IF 1 > i THEN 0 ELSE i - 1 + 1
      BY ONLY <3>1, FS_Interval
    <3> QED
      BY <2>7, <3>2
  <2>10. n[2] = i - 1
    BY <2>1
  <2>11. n[2] < Cardinality(T)
    BY <1>5, <2>7, <2>8, <2>9, <2>10
  <2> QED
    BY <1>4, <2>11 DEF T
<1> QED
  BY <1>7, <1>8

\* What the sections of a document are to be: each with an index of its own, and
\* a number below that of the sections of its type.
SectionsOf(d, o) ==
  /\ Indexed(d) /\ o \in BOOLEAN
  /\ \A m, n \in DOMAIN d : d[m].index = d[n].index => m = n
  /\ ~o => \A n \in DOMAIN d : n[1] = d[n].type /\ n[2] < Counted(d, n[1])

LEMMA CountedNat ==
  ASSUME NEW d, Indexed(d), NEW t
  PROVE  Counted(d, t) \in Nat
<1> DEFINE T == {n \in DOMAIN d : d[n].type = t}
<1>1. IsFiniteSet(DOMAIN d) /\ T \subseteq DOMAIN d
  BY DEF Indexed
<1>2. Counted(d, t) = Cardinality(T)
  BY DEF Counted
<1> HIDE DEF T
<1> QED
  BY <1>1, <1>2, FS_Subset, FS_CardinalityType

LEMMA SectionsAre == Json!SectionsFit <=> SectionsOf(v1, v2)
<1>1. \A t : Json!NumberOf(t) = Counted(v1, t)
  BY JsonSets DEF Json!NumberOf, Counted
<1>2. Json!SectionsFit => SectionsOf(v1, v2)
  BY <1>1, JsonSets DEF Json!SectionsFit, Json!JsonTypeOK, Json!AddedIsNewAndLast, Indexed, SectionsOf
<1>3. ASSUME SectionsOf(v1, v2)
      PROVE  Json!SectionsFit
  <2>1. Json!JsonTypeOK /\ Json!IsFiniteSet(DOMAIN v1)
    BY <1>3, JsonSets DEF Indexed, SectionsOf, Json!JsonTypeOK
  <2>2. \A n \in DOMAIN v1 : v1[n].index < Json!NextIndex(v1)
    BY <1>3, NextIsBehind DEF SectionsOf
  <2>3. ASSUME ~v2, NEW t \in Kind
        PROVE  <<t, Json!NumberOf(t)>> \notin DOMAIN v1
    <3>1. ~(Counted(v1, t) < Counted(v1, t))
      BY <1>3, CountedNat DEF SectionsOf
    <3> QED
      BY <1>1, <1>3, <2>3, <3>1 DEF SectionsOf
  <2> QED
    BY <1>1, <1>3, <2>1, <2>2, <2>3 DEF Json!SectionsFit, Json!AddedIsNewAndLast, SectionsOf
<1> QED
  BY <1>2, <1>3

\* Whatever the document is.
LEMMA JsonStart ==
  ASSUME Json!JsonInit
  PROVE  Json!SectionsFit
<1>1. PICK doc \in Document :
        /\ v1 = Json!Reindexed(Json!Read(doc))
        /\ v2 = (\/ \E i \in DOMAIN doc : doc[i].name \notin {Json!Unnamed, Json!Single}
                 \/ \E i, j \in DOMAIN doc : doc[i].name = Json!Unnamed /\ doc[i].type # doc[j].type)
  BY DEF Json!JsonInit
<1> DEFINE d == Json!Read(doc)
<1>2. Json!IsDocument(doc)
  BY DocumentAssumption
<1>3. ReadAs(doc, d)
  BY <1>2, ReadFacts
<1> HIDE DEF d
<1>4. /\ DOMAIN v1 = DOMAIN d /\ Indexed(v1)
      /\ \A n \in DOMAIN d : v1[n].type = d[n].type
      /\ \A m, n \in DOMAIN v1 : v1[m].index = v1[n].index => m = n
  BY <1>1, <1>3, CountedOnce DEF d, ReadAs
<1>5. ASSUME ~v2, NEW n \in DOMAIN v1
      PROVE  n[1] = v1[n].type /\ n[2] < Counted(v1, n[1])
  <2>1. OneNumbering(doc)
    BY <1>1, <1>5 DEF OneNumbering
  <2>2. ReadAs(doc, v1)
    BY <1>3, <1>4 DEF ReadAs
  <2> QED
    BY <1>2, <2>1, <2>2, FirstNames
<1>6. v2 \in BOOLEAN
  BY ONLY <1>1
<1> QED
  BY <1>4, <1>5, <1>6, SectionsAre DEF SectionsOf

\* A section is added, or is there already.
LEMMA SectionAdded ==
  ASSUME Json!SectionsFit, NEW t \in Kind, NEW name \in Kind \X Nat, Json!AddSection(t, name),
         v2' \in BOOLEAN, ~v2' => ~v2 /\ name = <<t, Json!NumberOf(t)>>
  PROVE  SectionsOf(v1', v2')
<1>1. SectionsOf(v1, v2) /\ Json!NumberOf(t) = Counted(v1, t)
  BY SectionsAre, JsonSets DEF Json!NumberOf, Counted
<1>2. CASE name \in DOMAIN v1
  <2>1. v1' = v1 /\ (~v2' => ~v2)
    BY <1>2 DEF Json!AddSection
  <2> QED
    BY <1>1, <2>1 DEF SectionsOf
<1>3. CASE name \notin DOMAIN v1
  <2> DEFINE new == [type |-> t, index |-> Json!NextIndex(v1)]
  <2>1. Indexed(v1)
    BY <1>1 DEF SectionsOf
  <2>2. Json!NextIndex(v1) \in Nat /\ \A n \in DOMAIN v1 : v1[n].index < Json!NextIndex(v1)
    BY <2>1, NextIsBehind
  <2>3. /\ DOMAIN v1' = DOMAIN v1 \cup {name} /\ v1'[name] = new
        /\ \A n \in DOMAIN v1 : v1'[n] = v1[n]
    BY <1>3 DEF Json!AddSection
  <2>4. new \in [type : Kind, index : Nat] /\ new.type = t /\ new.index = Json!NextIndex(v1)
    BY <2>2
  <2> HIDE DEF new
  <2>5. Indexed(v1')
    <3>1. IsFiniteSet(DOMAIN v1 \cup {name})
      BY <2>1, FS_AddElement DEF Indexed
    <3>2. DOMAIN v1' \subseteq Kind \X (Nat \cup {-1})
      BY <2>1, <2>3 DEF Indexed
    <3> QED
      BY <2>1, <2>3, <2>4, <3>1, <3>2 DEF Indexed
  <2>6. \A m, n \in DOMAIN v1' : v1'[m].index = v1'[n].index => m = n
    <3>1. \A n \in DOMAIN v1 : v1[n].index # Json!NextIndex(v1)
      <4>1. \A n \in DOMAIN v1 : v1[n].index \in Nat
        BY <2>1 DEF Indexed
      <4> QED
        BY <2>2, <4>1
    <3> QED
      BY <1>1, <2>3, <2>4, <3>1 DEF SectionsOf
  <2>7. ASSUME ~v2', NEW n \in DOMAIN v1'
        PROVE  n[1] = v1'[n].type /\ n[2] < Counted(v1', n[1])
    <3>1. ~v2 /\ name = <<t, Counted(v1, t)>>
      BY <1>1, <2>7
    <3> DEFINE T(k) == {m \in DOMAIN v1 : v1[m].type = k}
               U(k) == {m \in DOMAIN v1' : v1'[m].type = k}
    <3>2. \A k : Counted(v1, k) = Cardinality(T(k)) /\ Counted(v1', k) = Cardinality(U(k))
      BY DEF Counted
    <3>3. \A k : U(k) = IF k = t THEN T(k) \cup {name} ELSE T(k)
      BY <2>3, <2>4
    <3>4. \A k : IsFiniteSet(T(k)) /\ name \notin T(k)
      <4>1. IsFiniteSet(DOMAIN v1) /\ \A k : T(k) \subseteq DOMAIN v1
        BY <2>1 DEF Indexed
      <4>2. \A k : name \notin T(k)
        BY <1>3
      <4> HIDE DEF T
      <4> QED
        BY <4>1, <4>2, FS_Subset
    <3> HIDE DEF T, U
    <3>5. \A k : Counted(v1, k) \in Nat /\ Counted(v1', k) = IF k = t THEN Counted(v1, k) + 1 ELSE Counted(v1, k)
      BY <2>1, <3>2, <3>3, <3>4, FS_AddElement, CountedNat
    <3>6. CASE n = name
      <4>1. n[1] = t /\ n[2] = Counted(v1, t) /\ v1'[n].type = t
        BY <2>3, <2>4, <3>1, <3>6
      <4> QED
        BY <3>5, <4>1
    <3>7. CASE n # name
      <4>1. n \in DOMAIN v1 /\ v1'[n] = v1[n]
        BY <2>3, <2>7, <3>7
      <4>2. n[1] = v1[n].type /\ n[2] < Counted(v1, n[1])
        BY <1>1, <3>1, <4>1 DEF SectionsOf
      <4>3. n[2] \in Int
        <5>1. n \in Kind \X (Nat \cup {-1})
          BY <2>1, <4>1 DEF Indexed
        <5>2. n[2] \in Nat \cup {-1}
          BY ONLY <5>1
        <5> QED
          BY <5>2
      <4> QED
        BY <3>5, <4>1, <4>2, <4>3
    <3> QED
      BY <3>6, <3>7
  <2> QED
    BY <2>5, <2>6, <2>7 DEF SectionsOf
<1> QED
  BY <1>2, <1>3

\* A section is removed.
LEMMA SectionRemoved ==
  ASSUME Json!SectionsFit, NEW name \in DOMAIN v1, Json!Remove(name)
  PROVE  SectionsOf(v1', v2')
<1>1. SectionsOf(v1, v2)
  BY SectionsAre
<1>2. /\ DOMAIN v1' = DOMAIN v1 \ {name} /\ v2' = TRUE
      /\ \A n \in DOMAIN v1 \ {name} : v1'[n] = v1[n]
  BY DEF Json!Remove
<1>3. IsFiniteSet(DOMAIN v1 \ {name})
  BY <1>1, FS_Subset DEF SectionsOf, Indexed
<1>4. Indexed(v1')
  BY <1>1, <1>2, <1>3 DEF SectionsOf, Indexed
<1> QED
  BY <1>1, <1>2, <1>4 DEF SectionsOf

\* A section is put next to another, and all are counted anew.
LEMMA SectionMoved ==
  ASSUME Json!SectionsFit, NEW name \in DOMAIN v1, NEW to \in DOMAIN v1, NEW after \in BOOLEAN,
         Json!Move(name, to, after)
  PROVE  SectionsOf(v1', v2')
<1> DEFINE D == DOMAIN v1
           at(n) == IF n = name THEN 2 * v1[to].index + (IF after THEN 1 ELSE -1) ELSE 2 * v1[n].index
           key == [n \in D |-> at(n)]
<1>1. SectionsOf(v1, v2) /\ IsFiniteSet(D) /\ \A n \in D : v1[n] \in [type : Kind, index : Nat]
  <2>1. SectionsOf(v1, v2)
    BY SectionsAre
  <2> QED
    BY <2>1 DEF SectionsOf, Indexed
<1>2. /\ DOMAIN v1' = D /\ v2' = v2
      /\ \A n \in D : v1'[n] = [v1[n] EXCEPT !.index = Cardinality({m \in D : at(m) < at(n)})]
  BY JsonSets DEF Json!Move
<1>3. \A n \in D : v1[n].index \in Nat
  BY <1>1
<1>4. \A n \in D : at(n) \in Int
  BY <1>3
<1>5. \A m, n \in D : at(m) = at(n) => m = n
  <2> SUFFICES ASSUME NEW m \in D, NEW n \in D, at(m) = at(n)
               PROVE  m = n
    OBVIOUS
  <2>1. CASE m = name /\ n # name
    <3>1. v1[to].index \in Nat /\ v1[n].index \in Nat
      BY <1>3
    <3> QED
      BY <2>1, <3>1
  <2>2. CASE m # name /\ n = name
    <3>1. v1[to].index \in Nat /\ v1[m].index \in Nat
      BY <1>3
    <3> QED
      BY <2>2, <3>1
  <2>3. CASE m # name /\ n # name
    <3>1. v1[m].index \in Nat /\ v1[n].index \in Nat /\ 2 * v1[m].index = 2 * v1[n].index
      BY <1>3, <2>3
    <3>2. v1[m].index = v1[n].index
      BY <3>1
    <3> QED
      BY <1>1, <3>2 DEF SectionsOf
  <2> QED
    BY <2>1, <2>2, <2>3
<1>6. key \in [D -> Int] /\ \A n \in D : key[n] = at(n)
  BY <1>4
<1>7. \A n \in D : Rank(D, key, n) = Cardinality({m \in D : at(m) < at(n)})
  BY <1>6 DEF Rank
<1> HIDE DEF at, key, D
<1>8. \A m, n \in D : /\ Rank(D, key, n) \in Nat
                      /\ Rank(D, key, m) = Rank(D, key, n) => m = n
  <2>1. \A m, n \in D : key[m] = key[n] => m = n
    BY <1>5, <1>6
  <2>2. \A n \in D : Rank(D, key, n) \in Nat
    BY <1>1, <1>6, <2>1, RankMonotone
  <2> QED
    BY <1>1, <1>6, <2>1, <2>2, RankMonotone
<1>9. ASSUME NEW n \in D
      PROVE  /\ v1'[n] \in [type : Kind, index : Nat]
             /\ v1'[n].type = v1[n].type /\ v1'[n].index = Rank(D, key, n)
  <2>1. v1'[n] = [v1[n] EXCEPT !.index = Rank(D, key, n)]
    BY <1>2, <1>7
  <2>2. v1[n] \in [type : Kind, index : Nat] /\ Rank(D, key, n) \in Nat
    BY <1>1, <1>8
  <2> QED
    BY ONLY <2>1, <2>2
<1>10. Indexed(v1')
  BY <1>1, <1>2, <1>9 DEF SectionsOf, Indexed, D
<1>11. \A m, n \in D : v1'[m].index = v1'[n].index => m = n
  BY <1>8, <1>9
<1>12. \A k : Counted(v1', k) = Counted(v1, k)
  <2>1. \A k : {n \in D : v1'[n].type = k} = {n \in D : v1[n].type = k}
    BY <1>9
  <2> QED
    BY <1>2, <2>1 DEF Counted, D
<1> QED
  BY <1>1, <1>2, <1>9, <1>10, <1>11, <1>12 DEF SectionsOf, D

\* Any step of a document.
LEMMA JsonStep ==
  ASSUME Json!SectionsFit, Json!JsonNext
  PROVE  Json!SectionsFit'
<1>1. SectionsOf(v1, v2)
  BY SectionsAre
<1>2. SectionsOf(v1', v2')
  <2>1. ASSUME NEW t \in Kind, Json!Add(t)
        PROVE  SectionsOf(v1', v2')
    <3>1. /\ Json!AddSection(t, <<t, Json!NumberOf(t)>>) /\ v2' = v2 /\ v2 \in BOOLEAN
          /\ <<t, Json!NumberOf(t)>> \in Kind \X Nat
      <4>1. Json!NumberOf(t) = Counted(v1, t) /\ Counted(v1, t) \in Nat
        BY <1>1, JsonSets, CountedNat DEF Json!NumberOf, Counted, SectionsOf
      <4> QED
        BY <1>1, <2>1, <4>1 DEF Json!Add, SectionsOf
    <3> QED
      BY <3>1, SectionAdded
  <2>2. ASSUME NEW t \in Kind, NEW name \in Json!Named, Json!AddNamed(t, name)
        PROVE  SectionsOf(v1', v2')
    <3>1. Json!AddSection(t, name) /\ v2' = TRUE /\ name \in Kind \X Nat
      BY <2>2 DEF Json!AddNamed, Json!Named
    <3> QED
      BY <3>1, SectionAdded
  <2> QED
    BY <2>1, <2>2, SectionRemoved, SectionMoved DEF Json!JsonNext
<1>3. (Json!SectionsFit <=> SectionsOf(v1, v2))'
  BY SectionsAre, PTL
<1> QED
  BY <1>2, <1>3

\* A document at rest.
LEMMA JsonRests ==
  ASSUME Json!SectionsFit, UNCHANGED pageVars
  PROVE  Json!SectionsFit'
<1>1. v1' = v1 /\ v2' = v2
  BY DEF pageVars
<1>2. (Json!SectionsFit <=> SectionsOf(v1, v2))'
  BY SectionsAre, PTL
<1> QED
  BY <1>1, <1>2, SectionsAre

-----------------------------------------------------------------------------
(* The pages                                                               *)

\* Nothing changes on a page while nothing happens.
LEMMA PackagesRest ==
  ASSUME UNCHANGED pageVars
  PROVE  Packages!ListsFit' = Packages!ListsFit
BY DEF pageVars, Packages!ListsFit, Packages!PackageTypeOK, Packages!CommandHasDialog, Packages!DownloadsFit,
       Packages!OffsetFits, Packages!TableHasRows, Packages!UploadHasDialog, Packages!OnOffer

\* The same of the files.
LEMMA FilesRest ==
  ASSUME UNCHANGED pageVars
  PROVE  Files!FilesFit' = Files!FilesFit
BY DEF pageVars, Files!FilesFit, Files!FilesTypeOK, Files!OneThing, Files!TaskIsInFront,
       Files!ListingsAreTrue, Files!Entries, Files!ValueIsThere

\* The same of the state of the network.
LEMMA StateRests ==
  ASSUME UNCHANGED pageVars
  PROVE  State!GatheringsFit' = State!GatheringsFit
BY DEF pageVars, State!GatheringsFit, State!GatherTypes, State!OneUnderWay, State!SeenInOrder,
       State!CallersWait

\* The same of the wireless networks.
LEMMA WirelessAtRest ==
  ASSUME UNCHANGED pageVars
  PROVE  Wireless!RowsFit' = Wireless!RowsFit
BY DEF pageVars, Wireless!RowsFit, Wireless!WirelessTypeOK, Wireless!FewSections, Wireless!RowsAreSections,
       Wireless!ScanHasPoll, Wireless!ButtonsSayWhatTheyDo, Wireless!ScansEnd, Wireless!Off

\* The page that is opened starts as it should be.
LEMMA PagesStart ==
  ASSUME PagesInit
  PROVE  PagesFit
<1>1. \/ page = "packages" /\ Packages!PackageInit
      \/ page = "dropdown" /\ Drop!DropInit
      \/ page = "list" /\ List!ListInit
      \/ page = "files" /\ Files!FilesInit
      \/ page = "tabs" /\ Tabs!TabsInit
      \/ page = "zones" /\ Zones!ZoneInit
      \/ page = "network" /\ Network!NetworkInit
      \/ page = "state" /\ State!StateInit
      \/ page = "wireless" /\ Wireless!WirelessInit
      \/ page = "form" /\ Form!FormInit
      \/ page = "grid" /\ Grid!GridInit
      \/ page = "json" /\ Json!JsonInit
      \/ page = "loader" /\ Loader!LoaderInit
      \/ page = "keys"
  BY DEF PagesInit, OtherPage
<1> QED
  BY <1>1, PackageStart, DropStart, ListStart, FilesStart, TabsStart, ZoneStart, NetworkStart, StateStart,
     WirelessStart, FormStart, GridStart, JsonStart, LoaderStart DEF PagesFit

\* No step of a page makes it otherwise.
LEMMA PagesStep ==
  ASSUME PagesFit, [PagesNext]_pageVars
  PROVE  PagesFit'
<1>1. CASE PagesNext
  <2>1. \/ page = "packages" /\ page' = page /\ Packages!PackageNext
        \/ page = "dropdown" /\ page' = page /\ Drop!DropNext
        \/ page = "list" /\ page' = page /\ List!ListNext
        \/ page = "files" /\ page' = page /\ Files!FilesNext
        \/ page = "tabs" /\ page' = page /\ Tabs!TabsNext
        \/ page = "zones" /\ page' = page /\ Zones!ZoneNext
        \/ page = "network" /\ page' = page /\ Network!NetworkNext
        \/ page = "state" /\ page' = page /\ State!StateNext
        \/ page = "wireless" /\ page' = page /\ Wireless!WirelessNext
        \/ page = "form" /\ page' = page /\ Form!FormNext
        \/ page = "grid" /\ page' = page /\ Grid!GridNext
        \/ page = "json" /\ page' = page /\ Json!JsonNext
        \/ page = "loader" /\ page' = page /\ Loader!LoaderNext
        \/ page = "keys" /\ page' = page
    BY <1>1 DEF PagesNext, On
  <2> QED
    BY <2>1, PackageStep, DropStep, ListStep, FilesStep, TabsStep, ZoneStep, NetworkStep, StateStep,
       WirelessStep, FormStep, GridStep, JsonStep, LoaderStep DEF PagesFit, WirelessGoesOn
<1>2. CASE UNCHANGED pageVars
  <2>1. page' = page
    BY <1>2 DEF pageVars
  <2> QED
    BY <1>2, <2>1, PackagesRest, DropRests, ListRests, FilesRest, TabsRest, ZonesRest, NetworkRests, StateRests,
       WirelessAtRest, FormRests, GridRests, JsonRests, LoaderRests DEF PagesFit
<1> QED
  BY <1>1, <1>2

\* What is said of each page, of its variables together, always holds: it is
\* what the properties of the pages follow from.
THEOREM PagesAlwaysFit ==
  PagesSpec => []PagesFit
<1>1. PagesInit => PagesFit
  BY PagesStart
<1>2. PagesFit /\ [PagesNext]_pageVars => PagesFit'
  BY PagesStep
<1> QED
  BY <1>1, <1>2, PTL DEF PagesSpec

\* What a page shows is what there is, once nothing is on its way: the packages
\* and their pager, the file that was picked, and the buttons of the networks.
\* Not said of the packages after downloads that crossed or calls that were lost,
\* of a browser in which something failed or the user did not wait, and of the
\* networks of a radio that Add has enabled or after a save that was refused.
THEOREM PagesShowWhatIs ==
  PagesSpec => []ShownIsCurrent
<1>1. PagesFit => ShownIsCurrent
  BY PackageProperties, FilesPickedIsThere DEF PagesFit, ShownIsCurrent, Wireless!RowsFit
<1> QED
  BY <1>1, PagesAlwaysFit, PTL

\* Nothing stays behind on the device or in the page: no uploaded package, no
\* scan, no classes that wait for each other in silence.  Excepted are a package
\* whose call was lost, a scan whose dialog the outcome of a save took away, and
\* a circle of classes that was entered at two places.
THEOREM PagesLeaveNothingBehind ==
  PagesSpec => []NothingIsLeftBehind
<1>1. PagesFit => NothingIsLeftBehind
  BY PackageProperties, LoaderReports DEF PagesFit, NothingIsLeftBehind, Wireless!RowsFit
<1> QED
  BY <1>1, PagesAlwaysFit, PTL

\* However zones and interfaces are renamed, moved, deleted and joined, rules
\* have their zones, references their interfaces, and networks their places.
\* Excepted are rules, DHCP and zones that refer to a name that was renamed away,
\* and references in a configuration that could not be loaded.
THEOREM PagesResolveNames ==
  PagesSpec => []NamesResolve
<1>1. PagesFit => NamesResolve
  BY NamesArePlaces DEF PagesFit, NamesResolve, Zones!ZonesFit, Network!ReferencesFit
<1> QED
  BY <1>1, PagesAlwaysFit, PTL

\* The parts of a widget agree: the inputs of a dropdown are what is selected, if
\* anything is; what a list does not offer any more is in it (but it may offer what
\* it holds); and the tab that was chosen is in front, of a group that is drawn.
THEOREM WidgetsAlwaysAgree ==
  PagesSpec => []WidgetsAgree
<1>1. PagesFit => WidgetsAgree
  BY DEF PagesFit, WidgetsAgree, Drop!BoxFits, List!EntriesFit, Tabs!TabsFit
<1> QED
  BY <1>1, PagesAlwaysFit, PTL

\* What was edited is what is saved (checkDepends and parse of form.js, the dialog
\* of a zone, handleDrop and the dialogs of GridSection, add of JSONConfig).  The
\* fields that are shown are the ones that should be, in a form where at most one
\* comes before the one it depends on, and are stored as they were by a save that
\* is served; a dialog that renames no zone does to it what it says.  A table at
\* rest has the sections that were wanted, also when a save was cut off after it
\* was written, and its rows are these in their order if none was; nothing is said
\* of it after saves and dialogs that crossed, were refused on a page or left the
\* cache unread.  And a section that is added to a document comes last, and is new
\* unless names were given or sections removed.
THEOREM FormsAlwaysObeyed ==
  PagesSpec => []FormsAreObeyed
<1>1. PagesFit => FormsAreObeyed
  BY ZonesObeyed, GridIsSections DEF PagesFit, FormsAreObeyed, Form!FieldsFit, Json!SectionsFit
<1> QED
  BY <1>1, PagesAlwaysFit, PTL

\* No step of a page replaces the state of the network by an older one, and none
\* switches a network on again that the user switched off, to join another.
THEOREM PagesDoNotGoBack ==
  PagesSpec => NothingGoesBack
<1> DEFINE Body == /\ page = "state" => State!FlushedIsFresh
                   /\ page = "wireless" => Wireless!JoinWakesNoOther
<1>1. PagesFit /\ [PagesNext]_pageVars => [Body]_pageVars
  <2>1. ASSUME PagesFit, PagesNext
        PROVE  Body
    <3>1. /\ page = "state" => State!StateNext
          /\ page = "wireless" => Wireless!WirelessNext
      BY <2>1 DEF PagesNext, On
    <3> QED
      BY <2>1, <3>1, StateStep, WirelessStep DEF PagesFit, WirelessGoesOn
  <2> QED
    BY <2>1
<1>2. PagesFit /\ [PagesNext]_pageVars => PagesFit'
  BY PagesStep
<1>3. PagesInit => PagesFit
  BY PagesStart
<1> QED
  BY <1>1, <1>2, <1>3, PTL DEF PagesSpec, NothingGoesBack

\* No step loses what the user has chosen or named: a dropdown that is not optional
\* keeps a value, a value gets into a list once, and a network that has a name keeps it.
THEOREM ValuesAlwaysSurvive ==
  PagesSpec => ValuesSurvive
<1> DEFINE Body == /\ page = "dropdown" => Drop!KeepsAValue
                   /\ page = "list" => List!OnceUnlessDropped
                   /\ page = "wireless" => Wireless!NamesAreKept
<1>1. PagesFit /\ [PagesNext]_pageVars => [Body]_pageVars
  <2>1. ASSUME PagesFit, PagesNext
        PROVE  Body
    <3>1. /\ page = "dropdown" => Drop!DropNext
          /\ page = "list" => List!ListNext
          /\ page = "wireless" => Wireless!WirelessNext
      BY <2>1 DEF PagesNext, On
    <3> QED
      BY <2>1, <3>1, DropStep, ListStep, WirelessStep DEF PagesFit, WirelessGoesOn
  <2> QED
    BY <2>1
<1>2. PagesFit /\ [PagesNext]_pageVars => PagesFit'
  BY PagesStep
<1>3. PagesInit => PagesFit
  BY PagesStart
<1> QED
  BY <1>1, <1>2, <1>3, PTL DEF PagesSpec, ValuesSurvive

-----------------------------------------------------------------------------
(* The page of the repository keys                                         *)

\* A page that is open lists the directory of the device, and only such a page
\* has keys on their way; what it has sent may outlive it.
KeyPageFits ==
  /\ keyPage = "open" => Directory(keydir)
  /\ \A t \in Task : tasks[t].at \in {"fetch", "list", "write", "written"} => keyPage = "open"

\* A key that was submitted is in the format of the directory.
TasksFit == \A t \in Task : tasks[t].at \in Stage => apk = (tasks[t].key \in Pem)

\* While no two keys have been on their way at once, there is one, and it is not
\* in the directory when it is about to be written.
Alone ==
  /\ \A t, u \in Busy : t = u
  /\ \A t \in Task : tasks[t].at \in {"write", "orphan"} => tasks[t].key \notin Range(files)
  /\ NoDuplicates

KeysInv ==
  /\ RepoTypeOK
  /\ KeyPageFits /\ TasksFit /\ FormatFits
  /\ overlapped \/ Alone

-----------------------------------------------------------------------------
(* Types                                                                   *)

\* The states of a task.
LEMMA TaskStates ==
  ASSUME NEW s \in TaskState
  PROVE  /\ s.at \in {"no", "fetch"} \cup Stage
         /\ s.at \in Stage => s.key \in Key /\ s.name \in FileName
         /\ s.at = "no" <=> s = Idle
BY DEF TaskState, Stage, Idle, Fetching

\* The page of the keys before anything is done.
LEMMA KeysInitInv == RepoInit => KeysInv
<1> SUFFICES ASSUME RepoInit PROVE KeysInv
  OBVIOUS
<1> USE RepoKeysAssumption DEF RepoInit, RepoClosed
<1>1. RepoTypeOK
  BY DEF RepoTypeOK, NoFiles, TaskState, Range
<1>2. KeyPageFits /\ TasksFit
  BY DEF KeyPageFits, TasksFit, Idle, Stage
<1>3. FormatFits
  BY DEF FormatFits
<1>4. Alone
  BY DEF Alone, NoDuplicates, Busy, Idle
<1> QED
  BY <1>1, <1>2, <1>3, <1>4 DEF KeysInv

-----------------------------------------------------------------------------
(* Loading the page                                                        *)

\* After a reload only what was sent is left, and nobody is busy who was not.
LEMMA ReloadTasks ==
  ASSUME RepoTypeOK, Reload
  PROVE  /\ tasks' \in [Task -> TaskState]
         /\ \A t \in Task : tasks'[t].at \in {"no", "orphan"}
         /\ \A t \in Task : tasks'[t] # Idle =>
              /\ tasks[t].at \in {"write", "orphan"}
              /\ tasks'[t].key = tasks[t].key
<1> USE DEF Reload, RepoTypeOK
<1> SUFFICES ASSUME NEW t \in Task
             PROVE  /\ tasks'[t] \in TaskState /\ tasks'[t].at \in {"no", "orphan"}
                    /\ tasks'[t] # Idle => /\ tasks[t].at \in {"write", "orphan"}
                                          /\ tasks'[t].key = tasks[t].key
  OBVIOUS
<1>1. tasks[t] \in TaskState
  OBVIOUS
<1>2. CASE tasks[t].at \in {"write", "orphan"}
  <2>1. tasks'[t] = [tasks[t] EXCEPT !.at = "orphan"]
    BY <1>2
  <2>2. tasks[t] \in [at : Stage, key : Key, name : FileName]
    BY <1>1, <1>2 DEF TaskState, Idle, Fetching
  <2> QED
    BY <1>2, <2>1, <2>2 DEF TaskState, Stage
<1>3. CASE tasks[t].at \notin {"write", "orphan"}
  BY <1>3 DEF TaskState, Idle
<1> QED
  BY <1>2, <1>3

\* A reload keeps the invariant, whether a file has gone or not.
LEMMA ReloadInv ==
  ASSUME KeysInv, Reload, UNCHANGED <<apk, overlapped>>,
         DOMAIN files' \subseteq DOMAIN files,
         \A f \in DOMAIN files' : files'[f] = files[f]
  PROVE  KeysInv'
<1> USE DEF KeysInv
<1>1. RepoTypeOK'
  BY ReloadTasks DEF RepoTypeOK, Reload, NoFiles, Range
<1>2. KeyPageFits'
  BY ReloadTasks DEF KeyPageFits, Reload
<1>3. TasksFit' /\ FormatFits'
  <2>1. ASSUME NEW t \in Task, tasks'[t].at \in Stage PROVE apk = (tasks'[t].key \in Pem)
    BY <2>1, ReloadTasks DEF TasksFit, Stage, Idle
  <2> QED
    BY <2>1 DEF TasksFit, FormatFits
<1>4. ASSUME Alone PROVE Alone'
  <2>1. \A t \in Task : tasks'[t] # Idle => t \in Busy
    BY ReloadTasks DEF Busy, Idle
  <2>2. \A t \in Task : tasks'[t].at \in {"write", "orphan"} => tasks'[t].key \notin Range(files')
    BY <1>4, ReloadTasks DEF Alone, Range, Idle
  <2> QED
    BY <1>4, <2>1, <2>2 DEF Alone, Busy, NoDuplicates
<1> QED
  BY <1>1, <1>2, <1>3, <1>4

\* The page is loaded.
LEMMA LoadingInv ==
  ASSUME KeysInv, DetermineKeyEnv \/ ListKeyFiles \/ OpenAgain
  PROVE  KeysInv'
<1> USE DEF KeysInv
<1>1. CASE DetermineKeyEnv
  BY <1>1 DEF DetermineKeyEnv, RepoTypeOK, KeyPageFits, TasksFit, FormatFits, Alone, Busy, NoDuplicates
<1>2. CASE ListKeyFiles
  BY <1>2 DEF ListKeyFiles, RepoTypeOK, KeyPageFits, Directory, TasksFit, FormatFits, Alone, Busy, NoDuplicates
<1>3. CASE OpenAgain
  BY <1>3, ReloadInv DEF OpenAgain
<1> QED
  BY <1>1, <1>2, <1>3

-----------------------------------------------------------------------------
(* Adding a key                                                            *)

\* What a step that changes one task must see to, when it leaves the files and
\* the page alone.
LEMMA OneTask ==
  ASSUME KeysInv, NEW t \in Task, NEW s \in TaskState,
         tasks' = [tasks EXCEPT ![t] = s],
         UNCHANGED <<apk, files, keydir, keyPage, listed, doomed>>,
         input' \in {"empty", "address"} \cup Key, overlapped' \in BOOLEAN,
         s.at \in {"fetch", "list", "write", "written"} => keyPage = "open",
         s.at \in Stage => apk = (s.key \in Pem),
         ~overlapped' => /\ ~overlapped
                         /\ s = Idle \/ \A u \in Busy : u = t
                         /\ s.at \in {"write", "orphan"} => s.key \notin Range(files)
  PROVE  KeysInv'
<1> USE DEF KeysInv
<1>1. RepoTypeOK'
  BY DEF RepoTypeOK
<1>2. \A u \in Task : tasks'[u] = IF u = t THEN s ELSE tasks[u]
  BY DEF RepoTypeOK
<1>3. KeyPageFits' /\ TasksFit' /\ FormatFits'
  BY <1>2 DEF KeyPageFits, Directory, TasksFit, FormatFits
<1>4. ASSUME ~overlapped' PROVE Alone'
  BY <1>2, <1>4 DEF Alone, Busy, NoDuplicates
<1> QED
  BY <1>1, <1>3, <1>4

\* The page is open: its directory is that of the device, so what fits the one
\* fits the other.
LEMMA OpenFits ==
  ASSUME KeysInv, keyPage = "open", NEW k, FitsEnvironment(k)
  PROVE  apk = (k \in Pem)
BY DEF KeysInv, RepoTypeOK, KeyPageFits, Directory, FitsEnvironment

\* A key is pasted, or dropped on the page.
LEMMA StartInv ==
  ASSUME KeysInv, NEW t \in Task, AddPasted(t) \/ DropKey(t)
  PROVE  KeysInv'
<1> USE DEF KeysInv
<1>1. /\ keyPage = "open" /\ UNCHANGED <<apk, files, keydir, keyPage, listed, doomed>>
      /\ overlapped' \in BOOLEAN
      /\ ~overlapped' => ~overlapped /\ Busy = {}
      /\ input' \in {"empty", "address"} \cup Key
  BY DEF AddPasted, DropKey, Start, RepoTypeOK
<1>2. ASSUME NEW k \in Key, NEW n \in FileName, Submit(t, k, n)
      PROVE  KeysInv'
  <2>1. CASE FitsEnvironment(k)
    <3> DEFINE s == [at |-> "list", key |-> k, name |-> n]
    <3>1. s \in TaskState /\ tasks' = [tasks EXCEPT ![t] = s]
      BY <1>2, <2>1 DEF Submit, TaskState, Stage
    <3>2. apk = (s.key \in Pem)
      BY <1>1, <2>1, OpenFits
    <3> QED
      BY <1>1, <3>1, <3>2, OneTask
  <2>2. CASE ~FitsEnvironment(k)
    <3>1. Idle \in TaskState /\ tasks' = [tasks EXCEPT ![t] = Idle]
      BY <1>2, <2>2 DEF Submit, TaskState
    <3> QED
      BY <1>1, <3>1, OneTask DEF Idle, Stage
  <2> QED
    BY <2>1, <2>2
<1>3. CASE input = "address" /\ tasks' = [tasks EXCEPT ![t] = Fetching]
  <2>1. Fetching \in TaskState
    BY DEF TaskState
  <2> QED
    BY <1>1, <1>3, <2>1, OneTask DEF Fetching, Stage
<1> QED
  BY <1>2, <1>3 DEF AddPasted, DropKey, FileName

\* A key goes on its way.
LEMMA TaskInv ==
  ASSUME KeysInv, NEW t \in Task,
         Fetched(t) \/ Compare(t) \/ CompareFails(t) \/ WriteLost(t)
  PROVE  KeysInv'
<1> USE DEF KeysInv
<1>1. /\ UNCHANGED <<apk, files, keydir, keyPage, listed, doomed, overlapped>>
      /\ input' \in {"empty", "address"} \cup Key
      /\ tasks[t] # Idle /\ tasks[t] \in TaskState
  BY DEF Fetched, Compare, CompareFails, WriteLost, RepoTypeOK, Idle
<1>2. ~overlapped' => ~overlapped /\ \A u \in Busy : u = t
  BY <1>1 DEF Alone, Busy
<1>3. ASSUME tasks' = [tasks EXCEPT ![t] = Idle] PROVE KeysInv'
  <2>1. Idle \in TaskState
    BY DEF TaskState
  <2> QED
    BY <1>1, <1>2, <1>3, <2>1, OneTask DEF Idle, Stage, RepoTypeOK
<1>4. ASSUME NEW k \in Key, NEW b \in Base, Fetched(t), Submit(t, k, b), FitsEnvironment(k)
      PROVE  KeysInv'
  <2> DEFINE s == [at |-> "list", key |-> k, name |-> b]
  <2>1. s \in TaskState /\ tasks' = [tasks EXCEPT ![t] = s]
    BY <1>4 DEF Submit, TaskState, Stage, FileName
  <2>2. keyPage = "open"
    BY <1>4 DEF Fetched, KeyPageFits
  <2>3. apk = (s.key \in Pem)
    BY <1>4, <2>2, OpenFits
  <2> QED
    BY <1>1, <1>2, <2>1, <2>2, <2>3, OneTask DEF RepoTypeOK
<1>5. ASSUME Compare(t), tasks[t].key \notin Range(files),
             tasks' = [tasks EXCEPT ![t].at = "write"]
      PROVE  KeysInv'
  <2> DEFINE s == [tasks[t] EXCEPT !.at = "write"]
  <2>1. tasks[t] \in [at : Stage, key : Key, name : FileName] /\ tasks[t].at = "list"
    BY <1>1, <1>5 DEF Compare, TaskState, Idle, Fetching
  <2>2. s \in TaskState /\ s.at = "write" /\ s.key = tasks[t].key
    BY <2>1 DEF TaskState, Stage
  <2>3. tasks' = [tasks EXCEPT ![t] = s]
    BY <1>5
  <2>4. keyPage = "open" /\ apk = (s.key \in Pem)
    BY <2>1, <2>2 DEF KeyPageFits, TasksFit, Stage
  <2> HIDE DEF s
  <2> QED
    BY <1>1, <1>2, <1>5, <2>2, <2>3, <2>4, OneTask DEF RepoTypeOK
<1> QED
  BY <1>3, <1>4, <1>5 DEF Fetched, Compare, CompareFails, WriteLost, Submit

\* The key that is written fits, and is in no other file unless two keys have
\* been on their way.
LEMMA WriteInv ==
  ASSUME KeysInv, NEW t \in Task, WriteKey(t)
  PROVE  KeysInv'
<1> USE DEF KeysInv
<1> DEFINE s == IF tasks[t].at = "orphan" THEN Idle ELSE [tasks[t] EXCEPT !.at = "written"]
           k == tasks[t].key
           n == tasks[t].name
<1>1. tasks[t] \in [at : Stage, key : Key, name : FileName] /\ tasks[t].at \in {"write", "orphan"}
  BY DEF WriteKey, RepoTypeOK, TaskState, Idle, Fetching
<1>2. /\ DOMAIN files' = DOMAIN files \cup {n}
      /\ \A f \in DOMAIN files' : files'[f] = IF f = n THEN k ELSE files[f]
  BY DEF WriteKey, Written
<1>3. s \in TaskState /\ \A u \in Task : tasks'[u] = IF u = t THEN s ELSE tasks[u]
  BY <1>1 DEF WriteKey, RepoTypeOK, TaskState, Stage
<1>4. k \in Key /\ n \in FileName /\ apk = (k \in Pem)
  BY <1>1 DEF TasksFit, Stage
<1>5. s = Idle \/ (s.at = "written" /\ s.key = k /\ tasks[t].at = "write")
  <2>1. CASE tasks[t].at = "orphan"
    BY <2>1
  <2>2. CASE tasks[t].at = "write"
    <3>1. s = [tasks[t] EXCEPT !.at = "written"]
      BY <2>2
    <3> HIDE DEF s
    <3> QED
      BY <1>1, <2>2, <3>1
  <2> QED
    BY <1>1, <2>1, <2>2
<1> HIDE DEF s
<1>6. RepoTypeOK'
  <2>1. tasks' \in [Task -> TaskState]
    BY <1>3 DEF RepoTypeOK, WriteKey
  <2>2. DOMAIN files' \subseteq FileName /\ Range(files') \subseteq Key
    BY <1>2, <1>4 DEF RepoTypeOK, Range
  <2> QED
    BY <2>1, <2>2 DEF RepoTypeOK, WriteKey
<1>7. KeyPageFits' /\ TasksFit'
  BY <1>3, <1>4, <1>5 DEF KeyPageFits, TasksFit, WriteKey, Directory, Idle, Stage
<1>8. FormatFits'
  BY <1>2, <1>4 DEF FormatFits, WriteKey
<1>9. ASSUME Alone PROVE Alone'
  <2>1. t \in Busy
    BY <1>1 DEF Busy, Idle, Stage
  <2>2. \A u, w \in Busy' : u = w
    BY <1>3, <1>9, <2>1 DEF Alone, Busy
  <2>3. \A u \in Task : tasks'[u].at \notin {"write", "orphan"}
    <3>1. s.at \notin {"write", "orphan"}
      BY <1>5 DEF Idle
    <3>2. \A u \in Task : u # t => tasks[u] = Idle
      BY <1>9, <2>1 DEF Alone, Busy
    <3> QED
      BY <1>3, <3>1, <3>2 DEF Idle
  <2>4. k \notin Range(files)
    BY <1>1, <1>9 DEF Alone
  <2>5. NoDuplicates'
    BY <1>2, <1>9, <2>4 DEF Alone, NoDuplicates, Range
  <2> QED
    BY <2>2, <2>3, <2>5 DEF Alone
<1> QED
  BY <1>6, <1>7, <1>8, <1>9 DEF WriteKey

-----------------------------------------------------------------------------
(* All steps                                                               *)

\* Whatever is done on the page of the keys.
LEMMA KeysNextInv == KeysInv /\ [RepoNext]_repoVars => KeysInv'
<1> SUFFICES ASSUME KeysInv, [RepoNext]_repoVars PROVE KeysInv'
  OBVIOUS
<1>1. CASE DetermineKeyEnv \/ ListKeyFiles \/ OpenAgain
  BY <1>1, LoadingInv
<1>2. ASSUME NEW t \in Task, AddPasted(t) \/ DropKey(t) PROVE KeysInv'
  BY <1>2, StartInv
<1>3. ASSUME NEW t \in Task, Fetched(t) \/ Compare(t) \/ CompareFails(t) \/ WriteLost(t)
      PROVE  KeysInv'
  BY <1>3, TaskInv
<1>4. ASSUME NEW t \in Task, WriteKey(t) PROVE KeysInv'
  BY <1>4, WriteInv
<1>5. ASSUME NEW t \in Task, Saved(t) PROVE KeysInv'
  BY <1>5, ReloadInv DEF Saved
<1>6. CASE RemoveKey
  <2>1. CASE files' = [g \in DOMAIN files \ {doomed} |-> files[g]] /\ Reload
    BY <1>6, <2>1, ReloadInv DEF RemoveKey
  <2>2. CASE doomed' = "none" /\ UNCHANGED <<files, keydir, keyPage, listed, input, tasks>>
    BY <1>6, <2>2 DEF RemoveKey, KeysInv, RepoTypeOK, KeyPageFits, Directory, TasksFit, FormatFits,
                      Alone, Busy, NoDuplicates
  <2> QED
    BY <1>6, <2>1, <2>2 DEF RemoveKey
<1>7. CASE Type \/ CancelRemove \/ \E f \in DOMAIN listed : AskRemove(f)
  BY <1>7 DEF Type, CancelRemove, AskRemove, KeysInv, RepoTypeOK, KeyPageFits, Directory, TasksFit,
              FormatFits, Alone, Busy, NoDuplicates
<1>8. CASE UNCHANGED repoVars
  BY <1>8 DEF repoVars, KeysInv, RepoTypeOK, KeyPageFits, Directory, TasksFit, FormatFits, Alone, Busy,
              NoDuplicates
<1> QED
  BY <1>1, <1>2, <1>3, <1>4, <1>5, <1>6, <1>7, <1>8 DEF RepoNext

\* The inductive invariant of the page: whatever is pasted, dropped, fetched and
\* written at the same time, and however often the page is loaded anew.
THEOREM KeysInvariance == RepoSpec => []KeysInv
BY KeysInitInv, KeysNextInv, PTL DEF RepoSpec

\* For any set of keys and tasks, the directory only ever holds keys its package
\* manager can read (keyEnvironmentCheck).
THEOREM KeysFit == RepoSpec => []FormatFits
<1>1. KeysInv => FormatFits
  BY DEF KeysInv
<1> QED
  BY <1>1, KeysInvariance, PTL

\* However many keys are added, a key that is there twice was added while another
\* one was on its way (the comparison in addKey).
THEOREM TwiceTakesTwo == RepoSpec => []DuplicatesNeedOverlap
<1>1. KeysInv => DuplicatesNeedOverlap
  BY DEF KeysInv, Alone, DuplicatesNeedOverlap
<1> QED
  BY <1>1, KeysInvariance, PTL

-----------------------------------------------------------------------------
(* Types of a list                                                         *)

\* Some entry, or at most one, is of a kind.
Has(es, a) == \E i \in DOMAIN es : es[i].as = a

AtMost(es, a) == \A i, j \in DOMAIN es : es[i].as = a /\ es[j].as = a => i = j

LEMMA KindsJoined ==
  ASSUME NEW s \in Seq(List!Entry), NEW t \in Seq(List!Entry), NEW a
  PROVE  /\ Has(s \o t, a) <=> Has(s, a) \/ Has(t, a)
         /\ AtMost(s, a) /\ AtMost(t, a) /\ ~(Has(s, a) /\ Has(t, a)) => AtMost(s \o t, a)
<1> DEFINE r == s \o t
<1>1. /\ Len(r) = Len(s) + Len(t) /\ Len(s) \in Nat /\ Len(t) \in Nat
      /\ DOMAIN s = 1..Len(s) /\ DOMAIN t = 1..Len(t) /\ DOMAIN r = 1..Len(r)
  OBVIOUS
<1>2. \A i \in DOMAIN r : \/ i \in DOMAIN s /\ r[i] = s[i]
                          \/ i - Len(s) \in DOMAIN t /\ r[i] = t[i - Len(s)]
  OBVIOUS
<1>3. \A i \in DOMAIN s : i \in DOMAIN r /\ r[i] = s[i]
  OBVIOUS
<1>4. \A i \in DOMAIN t : Len(s) + i \in DOMAIN r /\ r[Len(s) + i] = t[i]
  OBVIOUS
<1> HIDE DEF r
<1>5. Has(r, a) <=> Has(s, a) \/ Has(t, a)
  BY <1>2, <1>3, <1>4 DEF Has
<1>6. ASSUME AtMost(s, a), AtMost(t, a), ~(Has(s, a) /\ Has(t, a))
      PROVE  AtMost(r, a)
  <2> SUFFICES ASSUME NEW i \in DOMAIN r, NEW j \in DOMAIN r, r[i].as = a, r[j].as = a
               PROVE  i = j
    BY DEF AtMost
  <2>1. i \in Int /\ j \in Int
    BY <1>1
  <2>2. CASE i \in DOMAIN s /\ r[i] = s[i] /\ j \in DOMAIN s /\ r[j] = s[j]
    BY <1>6, <2>2 DEF AtMost
  <2>3. CASE /\ i - Len(s) \in DOMAIN t /\ r[i] = t[i - Len(s)]
             /\ j - Len(s) \in DOMAIN t /\ r[j] = t[j - Len(s)]
    <3>1. i - Len(s) = j - Len(s)
      BY <1>6, <2>3 DEF AtMost
    <3> QED
      BY <1>1, <2>1, <3>1
  <2>4. ~(\E k \in DOMAIN s, l \in DOMAIN t : s[k].as = a /\ t[l].as = a)
    BY <1>6 DEF Has
  <2> QED
    BY <1>2, <2>2, <2>3, <2>4
<1> QED
  BY <1>5, <1>6 DEF r

LEMMA KindsSelected ==
  ASSUME NEW s \in Seq(List!Entry), NEW S \in SUBSET (DOMAIN s), NEW a
  PROVE  /\ Has(Selected(s, S), a) <=> \E i \in S : s[i].as = a
         /\ AtMost(s, a) => AtMost(Selected(s, S), a)
<1>1. Within(Selected(s, S)) = {s[i] : i \in S}
  BY WithinSelected
<1>2. Has(Selected(s, S), a) <=> \E e \in Within(Selected(s, S)) : e.as = a
  BY DEF Has, Within
<1>3. \A k \in DOMAIN Selected(s, S) : Ascending(S)[k] \in S /\ Selected(s, S)[k] = s[Ascending(S)[k]]
  BY SelectedFacts
<1>4. \A k, l \in DOMAIN Selected(s, S) : Ascending(S)[k] = Ascending(S)[l] => k = l
  BY SelectedFacts
<1> QED
  BY <1>1, <1>2, <1>3, <1>4 DEF AtMost

\* One entry.
LEMMA KindAlone ==
  ASSUME NEW e \in List!Entry, NEW a
  PROVE  <<e>> \in Seq(List!Entry) /\ (Has(<<e>>, a) <=> e.as = a) /\ AtMost(<<e>>, a)
<1>1. <<e>> \in Seq(List!Entry) /\ DOMAIN <<e>> = {1} /\ <<e>>[1] = e
  OBVIOUS
<1> QED
  BY <1>1 DEF Has, AtMost

\* No entry of a kind is added.
SameKind(s, t, a) == (Has(t, a) <=> Has(s, a)) /\ (AtMost(s, a) => AtMost(t, a))

\* A value is added.
LEMMA ItemAddedKind ==
  ASSUME v2 \in Seq(List!Entry), NEW v \in ListValue, NEW a, a # "item"
  PROVE  SameKind(v2, List!AddItem(v2, v), a)
<1> DEFINE e == [value |-> v, as |-> "item"]
           q == <<e>>
<1>1. e \in List!Entry /\ e.as = "item"
  BY EntryFacts
<1>2. List!AddItem(v2, v) = v2 \/ List!AddItem(v2, v) = Append(v2, e)
  BY DEF List!AddItem
<1> HIDE DEF e
<1>3. Append(v2, e) = v2 \o q
  BY <1>1, WithinOne
<1>4. q \in Seq(List!Entry) /\ ~Has(q, a) /\ AtMost(q, a)
  BY <1>1, KindAlone
<1> HIDE DEF q
<1>5. SameKind(v2, v2 \o q, a)
  BY <1>4, KindsJoined DEF SameKind
<1> QED
  BY <1>2, <1>3, <1>5 DEF SameKind

\* Several values are.
LEMMA ItemsJoinedKind ==
  ASSUME NEW es \in Seq(List!Entry), NEW vs \in List!OrderedOnce, NEW a, a # "item"
  PROVE  SameKind(es, List!AddItems(es, vs), a)
<1> DEFINE s == [i \in DOMAIN vs |-> [value |-> vs[i], as |-> "item"]]
           S == {i \in DOMAIN vs : ~List!Holds(es, vs[i]) /\ \A j \in DOMAIN vs : vs[j] = vs[i] => i <= j}
           q == Selected(s, S)
<1>1. PICK n \in 0..2 : vs \in [1..n -> ListValue]
  BY DEF List!OrderedOnce
<1>2. DOMAIN vs = 1..n /\ n \in Nat
  BY <1>1
<1>3. s \in Seq(List!Entry) /\ DOMAIN s = 1..n /\ \A i \in 1..n : s[i].as = "item"
  <2>1. \A i \in 1..n : [value |-> vs[i], as |-> "item"] \in List!Entry
    BY <1>1, EntryFacts
  <2>2. s \in [1..n -> List!Entry]
    BY <1>2, <2>1
  <2> QED
    BY <1>2, <2>2
<1>4. List!AddItems(es, vs) = es \o q
  BY ListOperators DEF List!AddItems
<1>5. S \in SUBSET (DOMAIN s)
  BY <1>2, <1>3
<1> HIDE DEF s, S
<1>6. q \in Seq(List!Entry) /\ ~Has(q, a)
  BY <1>3, <1>5, EntriesSelected, KindsSelected
<1>7. AtMost(q, a)
  BY <1>6 DEF Has, AtMost
<1> HIDE DEF q
<1>8. SameKind(es, es \o q, a)
  BY <1>6, <1>7, KindsJoined DEF SameKind
<1> QED
  BY <1>4, <1>8

\* An entry is put before another one.
LEMMA KindMoved ==
  ASSUME v2 \in Seq(List!Entry), NEW e \in List!Entry, NEW i \in Int, NEW a
  PROVE  /\ e.as # a => SameKind(v2, List!Moved(e, i), a)
         /\ e.as = a => Has(List!Moved(e, i), a)
         /\ e.as = a /\ (\A j \in DOMAIN v2 : v2[j].as = a => v2[j] = e) => AtMost(List!Moved(e, i), a)
<1> DEFINE A == {j \in DOMAIN v2 : j < i /\ v2[j] # e}
           B == {j \in DOMAIN v2 : j >= i /\ v2[j] # e}
           x == Selected(v2, A)
           y == Selected(v2, B)
           m == <<e>>
           r == x \o m
<1>1. List!Moved(e, i) = r \o y
  BY ListOperators DEF List!Moved
<1>2. A \in SUBSET (DOMAIN v2) /\ B \in SUBSET (DOMAIN v2)
  OBVIOUS
<1>3. /\ A \cap B = {} /\ \A j \in A \cup B : v2[j] # e
      /\ \A j \in DOMAIN v2 : v2[j] = e \/ j \in A \cup B
  OBVIOUS
<1> HIDE DEF A, B
<1>4. x \in Seq(List!Entry) /\ (AtMost(v2, a) => AtMost(x, a)) /\ (Has(x, a) <=> \E j \in A : v2[j].as = a)
  BY <1>2, EntriesSelected, KindsSelected
<1>5. y \in Seq(List!Entry) /\ (AtMost(v2, a) => AtMost(y, a)) /\ (Has(y, a) <=> \E j \in B : v2[j].as = a)
  BY <1>2, EntriesSelected, KindsSelected
<1>6. m \in Seq(List!Entry) /\ (Has(m, a) <=> e.as = a) /\ AtMost(m, a)
  BY KindAlone
<1> HIDE DEF x, y, m
<1>7. /\ r \in Seq(List!Entry) /\ (Has(r, a) <=> Has(x, a) \/ Has(m, a))
      /\ AtMost(x, a) /\ AtMost(m, a) /\ ~(Has(x, a) /\ Has(m, a)) => AtMost(r, a)
  BY <1>4, <1>6, EntriesJoined, KindsJoined
<1> HIDE DEF r
<1>8. /\ Has(r \o y, a) <=> Has(r, a) \/ Has(y, a)
      /\ AtMost(r, a) /\ AtMost(y, a) /\ ~(Has(r, a) /\ Has(y, a)) => AtMost(r \o y, a)
  BY <1>5, <1>7, KindsJoined
<1>9. ASSUME e.as # a
      PROVE  SameKind(v2, r \o y, a)
  <2>1. Has(v2, a) <=> Has(x, a) \/ Has(y, a)
    BY <1>2, <1>3, <1>4, <1>5, <1>9 DEF Has
  <2>2. AtMost(v2, a) => ~(Has(x, a) /\ Has(y, a))
    BY <1>2, <1>3, <1>4, <1>5 DEF AtMost
  <2> QED
    BY <1>4, <1>5, <1>6, <1>7, <1>8, <1>9, <2>1, <2>2 DEF SameKind
<1>10. ASSUME e.as = a, \A j \in DOMAIN v2 : v2[j].as = a => v2[j] = e
       PROVE  AtMost(r \o y, a)
  <2>1. ~Has(x, a) /\ ~Has(y, a)
    BY <1>2, <1>3, <1>4, <1>5, <1>10
  <2>2. AtMost(x, a) /\ AtMost(y, a)
    BY <2>1 DEF Has, AtMost
  <2> QED
    BY <1>6, <1>7, <1>8, <2>1, <2>2
<1> QED
  BY <1>1, <1>6, <1>7, <1>8, <1>9, <1>10

\* An entry is dragged: no other one is, and the placeholders stay.
LEMMA KindDragged ==
  ASSUME NEW es \in Seq(List!Entry), NEW i \in DOMAIN es, es[i].value # List!None
  PROVE  /\ AtMost(List!Dragged(es, i), "dragged")
         /\ Has(List!Dragged(es, i), "mark") <=> Has(es, "mark")
<1> DEFINE r == List!Dragged(es, i)
           As(j) == IF j = i THEN "dragged" ELSE IF es[j].as = "dragged" THEN "item" ELSE es[j].as
<1>1. DOMAIN r = DOMAIN es /\ \A j \in DOMAIN es : r[j] = [es[j] EXCEPT !.as = As(j)]
  BY DEF List!Dragged
<1>2. \A j \in DOMAIN es : es[j] \in List!Entry
  OBVIOUS
<1> HIDE DEF r
<1>4. \A j \in DOMAIN es : r[j].as = As(j)
  <2> SUFFICES ASSUME NEW j \in DOMAIN es
               PROVE  r[j].as = As(j)
    OBVIOUS
  <2> DEFINE x == As(j)
             e == es[j]
  <2>1. r[j] = [e EXCEPT !.as = x] /\ e \in List!Entry
    BY <1>1, <1>2
  <2> HIDE DEF x, e
  <2>2. r[j].as = x
    BY <2>1 DEF List!Entry
  <2> QED
    BY <2>2 DEF x
<1>5. AtMost(r, "dragged")
  BY <1>1, <1>4 DEF AtMost
<1>6. es[i].as # "mark"
  BY <1>2, EntryFacts
<1>7. Has(r, "mark") <=> Has(es, "mark")
  BY <1>1, <1>4, <1>6 DEF Has
<1> QED
  BY <1>5, <1>7 DEF r

\* A placeholder is put into the list.
LEMMA KindInserted ==
  ASSUME NEW es \in Seq(List!Entry), NEW i \in DOMAIN es, AtMost(es, "dragged")
  PROVE  LET t == List!Seqs!InsertAt(es, i + 1, List!Mark)
         IN  AtMost(t, "dragged") /\ Has(t, "mark")
<1> DEFINE x == SubSeq(es, 1, i)
           y == SubSeq(es, i + 1, Len(es))
           m == <<List!Mark>>
           r == x \o m
           t == List!Seqs!InsertAt(es, i + 1, List!Mark)
<1>1. i \in 1..Len(es) /\ Len(es) \in Nat /\ DOMAIN es = 1..Len(es)
  OBVIOUS
<1>2. t = r \o y
  <2>1. (i + 1) - 1 = i
    BY <1>1
  <2> QED
    BY <2>1 DEF List!Seqs!InsertAt
<1>3. x \in Seq(List!Entry) /\ DOMAIN x = 1..i /\ \A j \in 1..i : x[j] = es[j]
  BY <1>1
<1>4. y \in Seq(List!Entry) /\ DOMAIN y = 1..Len(es) - i /\ \A j \in 1..Len(es) - i : y[j] = es[i + j]
  BY <1>1
<1>5. \A j \in 1..i : j \in DOMAIN es
  BY <1>1
<1>6. \A j \in 1..Len(es) - i : i + j \in DOMAIN es
  BY <1>1
<1>7. \A j, k \in 1..Len(es) - i : i + j = i + k => j = k
  BY <1>1
<1>8. \A j \in 1..i, k \in 1..Len(es) - i : j # i + k
  BY <1>1
<1> HIDE DEF x, y, t
<1>9. AtMost(x, "dragged") /\ ~(Has(x, "dragged") /\ Has(y, "dragged"))
  BY <1>3, <1>4, <1>5, <1>6, <1>8 DEF AtMost, Has
<1>10. AtMost(y, "dragged")
  <2> SUFFICES ASSUME NEW j \in DOMAIN y, NEW k \in DOMAIN y, y[j].as = "dragged", y[k].as = "dragged"
               PROVE  j = k
    BY DEF AtMost
  <2> DEFINE p == i + j
             q == i + k
  <2>1. p \in DOMAIN es /\ q \in DOMAIN es /\ es[p] = y[j] /\ es[q] = y[k]
    BY <1>4, <1>6
  <2> HIDE DEF p, q
  <2>2. p = q
    BY <2>1 DEF AtMost
  <2> QED
    BY <1>4, <1>7, <2>2 DEF p, q
<1>11. List!Mark.as = "mark"
  BY DEF List!Mark
<1>12. /\ m \in Seq(List!Entry) /\ Has(m, "mark") /\ ~Has(m, "dragged") /\ AtMost(m, "dragged")
  BY <1>11, EntryFacts, KindAlone
<1> HIDE DEF m
<1>13. /\ r \in Seq(List!Entry) /\ Has(r, "mark") /\ (Has(r, "dragged") <=> Has(x, "dragged")) /\ AtMost(r, "dragged")
  BY <1>3, <1>9, <1>12, EntriesJoined, KindsJoined
<1> HIDE DEF r
<1>14. Has(r \o y, "mark") /\ AtMost(r \o y, "dragged")
  BY <1>4, <1>9, <1>10, <1>13, KindsJoined
<1> QED
  BY <1>2, <1>14 DEF t

\* The placeholder goes, and the item is not dragged any more.
LEMMA KindSettled ==
  ASSUME NEW es \in Seq(List!Entry), NEW e \in List!Entry, AtMost(es, "dragged")
  PROVE  /\ AtMost(List!Settled(es, e), "dragged") /\ ~Has(List!Settled(es, e), "mark")
<1> DEFINE S == {j \in DOMAIN es : es[j] # List!Mark}
           rest == Selected(es, S)
           t == List!Settled(es, e)
<1>1. DOMAIN t = DOMAIN rest /\ \A j \in DOMAIN rest : t[j] = IF rest[j] = e THEN [rest[j] EXCEPT !.as = "item"] ELSE rest[j]
  BY ListOperators DEF List!Settled
<1>2. S \in SUBSET (DOMAIN es) /\ \A j \in S : es[j] \in List!Entry /\ es[j] # List!Mark
  OBVIOUS
<1>3. \A f \in List!Entry : f.as = "mark" => f = List!Mark
  BY DEF List!Entry, List!Mark
<1>4. \A j \in S : es[j].as # "mark"
  BY <1>2, <1>3
<1> HIDE DEF S
<1>5. rest \in Seq(List!Entry) /\ AtMost(rest, "dragged") /\ ~Has(rest, "mark")
  BY <1>2, <1>4, EntriesSelected, KindsSelected
<1> HIDE DEF rest, t
<1>6. \A j \in DOMAIN rest : rest[j] \in List!Entry
  BY <1>5
<1>7. \A f \in List!Entry : [f EXCEPT !.as = "item"].as = "item"
  BY DEF List!Entry
<1>8. \A j \in DOMAIN rest : t[j].as = "item" \/ t[j].as = rest[j].as
  BY <1>1, <1>6, <1>7
<1>9. AtMost(t, "dragged") /\ ~Has(t, "mark")
  BY <1>1, <1>5, <1>8 DEF AtMost, Has
<1> QED
  BY <1>9 DEF t

\* What else is known of the types of a list: an item is dragged, or has been
\* removed while it was.
ListTyped ==
  /\ v5 \in BOOLEAN /\ (v5 <=> Has(v2, "mark"))
  /\ AtMost(v2, "dragged") /\ (v3 # List!None => ~Has(v2, "dragged"))

\* Items are added.
LEMMA AddedTyped ==
  ASSUME List!EntriesFit, ListTyped, NEW v \in ListValue, List!Pick(v) \/ List!CreateIn(v) \/ List!AddText(v)
  PROVE  ListTyped'
<1>1. v2' = List!AddItem(v2, v) /\ v3' = v3 /\ v5' = v5
  BY DEF List!Pick, List!CreateIn, List!AddText, List!HandleDropdownChange
<1>2. SameKind(v2, v2', "mark") /\ SameKind(v2, v2', "dragged")
  BY <1>1, ListState, ItemAddedKind
<1> QED
  BY <1>1, <1>2 DEF ListTyped, SameKind

\* The dragged item may be among those that are removed.
LEMMA LoosenedTyped ==
  ASSUME List!EntriesFit, NEW removed \in SUBSET List!Entry, List!Loosened(removed) # List!None
  PROVE  v3 # List!None \/ \E e \in removed : e.as = "dragged"
BY DEF List!Loosened

LEMMA RemovedTyped ==
  ASSUME List!EntriesFit, ListTyped, NEW i \in DOMAIN v2, List!RemoveItem(i)
  PROVE  ListTyped'
<1> DEFINE t == SubSeq(v2, 1, i - 1) \o SubSeq(v2, i + 1, Len(v2))
           p == [j \in DOMAIN t |-> IF j < i THEN j ELSE j + 1]
<1>1. v2 \in Seq(List!Entry) /\ v2[i] \in List!Entry /\ v2[i].value # List!None
  BY ListState DEF List!RemoveItem, List!IsItem
<1>2. /\ t \in Seq(List!Entry)
      /\ \A j \in DOMAIN t : t[j] = v2[IF j < i THEN j ELSE j + 1]
      /\ \A j \in DOMAIN v2 \ {i} : \E k \in DOMAIN t : t[k] = v2[j]
      /\ Len(t) = Len(v2) - 1
  BY <1>1, WithoutOne
<1>3. v2' = t /\ v3' = List!Loosened({v2[i]}) /\ v5' = v5
  BY DEF List!RemoveItem, List!Seqs!RemoveAt
<1> HIDE DEF t
<1>4. DOMAIN t = 1..Len(v2) - 1 /\ DOMAIN v2 = 1..Len(v2) /\ Len(v2) \in Nat /\ i \in 1..Len(v2)
  BY <1>1, <1>2
<1>5. \A j \in DOMAIN t : p[j] \in DOMAIN v2 \ {i} /\ t[j] = v2[p[j]]
  BY <1>2, <1>4
<1>6. \A j, k \in DOMAIN t : p[j] = p[k] => j = k
  BY <1>4
<1> HIDE DEF p
<1>7. AtMost(t, "dragged")
  BY <1>5, <1>6 DEF AtMost, ListTyped
<1>8. Has(t, "mark") <=> Has(v2, "mark")
  <2>1. v2[i].as # "mark"
    BY <1>1, EntryFacts
  <2> QED
    BY <1>2, <1>5, <2>1 DEF Has
<1>9. v3' # List!None => ~Has(t, "dragged")
  <2>1. v3' # List!None => v3 # List!None \/ v2[i].as = "dragged"
    BY <1>1, <1>3, LoosenedTyped
  <2>2. v2[i].as = "dragged" => ~Has(t, "dragged")
    BY <1>5 DEF Has, AtMost, ListTyped
  <2>3. Has(t, "dragged") => Has(v2, "dragged")
    BY <1>5 DEF Has
  <2> QED
    BY <2>1, <2>2, <2>3 DEF ListTyped
<1> QED
  BY <1>3, <1>7, <1>8, <1>9 DEF ListTyped

LEMMA SetTyped ==
  ASSUME List!EntriesFit, ListTyped, NEW vs \in List!OrderedOnce, List!SetValue(vs)
  PROVE  ListTyped'
<1> DEFINE S == {i \in DOMAIN v2 : ~List!IsItem(v2[i])}
           kept == Selected(v2, S)
<1>1. v2 \in Seq(List!Entry) /\ \A i \in DOMAIN v2 : v2[i] \in List!Entry
  BY ListState
<1>2. v2' = List!AddItems(kept, vs) /\ v5' = v5
  BY ListOperators DEF List!SetValue
<1>3. S \in SUBSET (DOMAIN v2)
  OBVIOUS
<1>4. (\A i \in S : v2[i].as # "dragged") /\ \A i \in DOMAIN v2 : v2[i].as = "mark" => i \in S
  BY <1>1, EntryFacts DEF List!IsItem
<1> HIDE DEF S
<1>5. /\ kept \in Seq(List!Entry) /\ ~Has(kept, "dragged") /\ AtMost(kept, "dragged")
      /\ (Has(kept, "mark") <=> Has(v2, "mark"))
  <2>1. kept \in Seq(List!Entry)
    BY <1>1, <1>3, EntriesSelected
  <2>2. Has(kept, "dragged") <=> \E i \in S : v2[i].as = "dragged"
    BY <1>1, <1>3, KindsSelected
  <2>3. AtMost(kept, "dragged")
    BY <1>1, <1>3, KindsSelected DEF ListTyped
  <2>4. Has(kept, "mark") <=> \E i \in S : v2[i].as = "mark"
    BY <1>1, <1>3, KindsSelected
  <2> HIDE DEF kept
  <2> QED
    BY <1>3, <1>4, <2>1, <2>2, <2>3, <2>4 DEF Has
<1> HIDE DEF kept
<1>6. SameKind(kept, v2', "mark") /\ SameKind(kept, v2', "dragged")
  BY <1>2, <1>5, ItemsJoinedKind
<1> QED
  BY <1>2, <1>5, <1>6 DEF ListTyped, SameKind

\* An item that is dragged is the only one.
LEMMA OneDragged ==
  ASSUME List!EntriesFit, ListTyped, NEW e \in List!DraggedEntry
  PROVE  /\ e \in List!Entry /\ e.as = "dragged" /\ e.value # List!None
         /\ \A j \in DOMAIN v2 : v2[j].as = "dragged" => v2[j] = e
<1>1. CASE v3 # List!None
  <2>1. e = [value |-> v3, as |-> "dragged"]
    BY <1>1 DEF List!DraggedEntry
  <2> QED
    BY <1>1, <2>1, DraggedFacts DEF ListTyped, Has
<1>2. CASE v3 = List!None
  <2>1. PICK k \in DOMAIN v2 : v2[k] = e /\ v2[k].as = "dragged"
    BY <1>2 DEF List!DraggedEntry
  <2> QED
    BY <2>1, DraggedFacts DEF ListTyped, AtMost
<1> QED
  BY <1>1, <1>2

LEMMA DraggedTyped ==
  ASSUME List!EntriesFit, ListTyped, NEW i \in Int, List!Drop(i) \/ (i \in DOMAIN v2 /\ List!DragStart(i))
  PROVE  ListTyped'
<1>1. v3' = List!None /\ v5' = v5 /\ v2 \in Seq(List!Entry)
  <2>1. CASE List!Drop(i)
    BY <2>1, ListState DEF List!Drop
  <2>2. CASE List!DragStart(i)
    BY <2>2, ListState DEF List!DragStart
  <2> QED
    BY <2>1, <2>2
<1>2. AtMost(v2', "dragged") /\ (Has(v2', "mark") <=> Has(v2, "mark"))
  <2>1. CASE List!Drop(i)
    <3>1. PICK e \in List!DraggedEntry : v2' = List!Moved(e, i)
      BY <2>1 DEF List!Drop
    <3>2. AtMost(v2', "dragged") /\ SameKind(v2, v2', "mark")
      BY <1>1, <3>1, OneDragged, KindMoved
    <3> QED
      BY <3>2 DEF SameKind
  <2>2. CASE i \in DOMAIN v2 /\ List!DragStart(i)
    <3>1. v2' = List!Dragged(v2, i) /\ v2[i].value # List!None
      BY <2>2 DEF List!DragStart, List!IsItem
    <3> QED
      BY <1>1, <2>2, <3>1, KindDragged
  <2> QED
    BY <2>1, <2>2
<1> QED
  BY <1>1, <1>2 DEF ListTyped

LEMMA TouchTyped ==
  ASSUME List!EntriesFit, ListTyped, NEW i \in DOMAIN v2, List!TouchStart(i) \/ List!TouchMove(i)
  PROVE  ListTyped'
<1>1. v2 \in Seq(List!Entry) /\ i \in Int
  BY ListState
<1>2. CASE List!TouchStart(i)
  <2> DEFINE es == [j \in DOMAIN v2 |->
                      IF v2[j].as = "mark" THEN [v2[j] EXCEPT !.as = "stray"] ELSE v2[j]]
             t == List!Dragged(es, i)
             r == List!Seqs!InsertAt(t, i + 1, List!Mark)
  <2>1. v2[i].value # List!None /\ v2' = r /\ v3' = List!None /\ v5' = TRUE
    BY <1>2 DEF List!TouchStart, List!IsItem, List!Mark
  <2>2. \A j \in DOMAIN v2 : v2[j] \in List!Entry
    BY <1>1
  <2>3. \A e \in List!Entry : e.as = "mark" =>
          [e EXCEPT !.as = "stray"] \in List!Entry /\ [e EXCEPT !.as = "stray"].value = e.value
    BY DEF List!Entry
  <2>4. \A j \in DOMAIN v2 : es[j] \in List!Entry /\ es[j].value = v2[j].value
    BY <2>2, <2>3
  <2>5. DOMAIN v2 = 1..Len(v2) /\ Len(v2) \in Nat
    BY <1>1
  <2>6. DOMAIN es = 1..Len(v2) /\ es = [j \in 1..Len(v2) |-> es[j]]
    BY <2>5
  <2> HIDE DEF es
  <2>7. es \in Seq(List!Entry)
    BY <2>4, <2>5, <2>6
  <2>8. t \in Seq(List!Entry) /\ DOMAIN t = DOMAIN es /\ AtMost(t, "dragged")
    BY <2>1, <2>4, <2>5, <2>6, <2>7, EntryDragged, KindDragged
  <2> HIDE DEF t
  <2>9. i \in DOMAIN t
    BY <2>5, <2>6, <2>8
  <2>10. AtMost(r, "dragged") /\ Has(r, "mark")
    BY <2>8, <2>9, KindInserted
  <2> HIDE DEF r
  <2> QED
    BY <2>1, <2>10 DEF ListTyped
<1>3. CASE List!TouchMove(i)
  <2>1. PICK after \in {0, 1} : v2' = List!Moved(List!Mark, i + after)
    BY <1>3 DEF List!TouchMove
  <2>2. i + after \in Int /\ v3' = v3 /\ v5' = v5 /\ v5
    BY <1>1, <1>3 DEF List!TouchMove
  <2> DEFINE k == i + after
  <2>3. List!Mark \in List!Entry /\ List!Mark.as = "mark"
    BY EntryFacts DEF List!Mark
  <2>4. k \in Int /\ v2' = List!Moved(List!Mark, k)
    BY <2>1, <2>2
  <2> HIDE DEF k
  <2>5. Has(v2', "mark") /\ SameKind(v2, v2', "dragged")
    BY <1>1, <2>3, <2>4, KindMoved
  <2> QED
    BY <2>2, <2>5 DEF ListTyped, SameKind
<1> QED
  BY <1>2, <1>3

LEMMA LiftTyped ==
  ASSUME List!EntriesFit, ListTyped, List!TouchEnd
  PROVE  ListTyped'
<1>1. v2 \in Seq(List!Entry) /\ v3' = List!None /\ v5' = FALSE
  BY ListState DEF List!TouchEnd
<1>2. PICK e \in List!DraggedEntry, i \in DOMAIN v2 : v2' = List!Settled(List!Moved(e, i), e)
  BY DEF List!TouchEnd
<1>3. i \in Int
  BY <1>1
<1> DEFINE m == List!Moved(e, i)
<1>4. m \in Seq(List!Entry) /\ AtMost(m, "dragged") /\ e \in List!Entry
  BY <1>1, <1>3, OneDragged, EntryMoved, KindMoved
<1> HIDE DEF m
<1>5. AtMost(List!Settled(m, e), "dragged") /\ ~Has(List!Settled(m, e), "mark")
  BY <1>4, KindSettled
<1> QED
  BY <1>1, <1>2, <1>5 DEF ListTyped, m

LEMMA ListTypedStep ==
  ASSUME List!EntriesFit, ListTyped, List!ListNext
  PROVE  ListTyped'
<1>1. \A i \in DOMAIN v2 : i \in Int
  BY ListState
<1>2. \A i \in 1..Len(v2) + 1 : i \in Int
  OBVIOUS
<1>3. ASSUME NEW i \in DOMAIN v2, List!RemoveItem(i) \/ List!DragStart(i) \/ List!TouchStart(i) \/ List!TouchMove(i)
      PROVE  ListTyped'
  <2>1. CASE List!RemoveItem(i)
    BY <2>1, RemovedTyped
  <2>2. CASE List!DragStart(i)
    BY <1>1, <2>2, DraggedTyped
  <2>3. CASE List!TouchStart(i) \/ List!TouchMove(i)
    BY <2>3, TouchTyped
  <2> QED
    BY <1>3, <2>1, <2>2, <2>3
<1>4. ASSUME NEW i \in 1..(Len(v2) + 1), List!Drop(i)
      PROVE  ListTyped'
  BY <1>2, <1>4, DraggedTyped
<1>5. ASSUME List!ClearChoices \/ List!AddChoices
      PROVE  ListTyped'
  BY <1>5 DEF List!ClearChoices, List!AddChoices, ListTyped, Has, AtMost
<1> QED
  BY <1>3, <1>4, <1>5, AddedTyped, SetTyped, LiftTyped DEF List!ListNext

LEMMA ListTypedStart ==
  ASSUME List!ListInit
  PROVE  ListTyped
<1>1. PICK vs \in List!OrderedOnce : v2 = List!AddItems(<<>>, vs)
  BY DEF List!ListInit
<1> DEFINE no == << >>
<1>2. no \in Seq(List!Entry) /\ ~Has(no, "mark") /\ ~Has(no, "dragged") /\ AtMost(no, "dragged")
  BY DEF Has, AtMost
<1> HIDE DEF no
<1>3. SameKind(no, List!AddItems(no, vs), "mark") /\ SameKind(no, List!AddItems(no, vs), "dragged")
  BY <1>2, ItemsJoinedKind
<1>4. v2 = List!AddItems(no, vs) /\ v3 = List!None /\ v5 = FALSE
  BY <1>1 DEF List!ListInit, no
<1> QED
  BY <1>2, <1>3, <1>4 DEF ListTyped, SameKind

LEMMA ListIsTyped ==
  ASSUME List!EntriesFit, ListTyped
  PROVE  List!ListTypeOK
<1> DEFINE S == {i \in DOMAIN v2 : v2[i].as = "dragged"}
<1>1. Lone(S)
  BY DEF Lone, ListTyped, AtMost
<1>2. (v3 # List!None => \A i \in DOMAIN v2 : v2[i].as # "dragged") /\ (v5 <=> \E i \in DOMAIN v2 : v2[i].as = "mark")
  BY DEF ListTyped, Has
<1> HIDE DEF S
<1>3. Cardinality(S) <= 1
  BY <1>1, AtMostOne
<1>4. List!Cardinality(S) = Cardinality(S)
  BY DEF List!Cardinality, Cardinality
<1>5. v5 = (\E i \in DOMAIN v2 : v2[i].as = "mark")
  BY <1>2 DEF ListTyped
<1> QED
  BY <1>2, <1>3, <1>4, <1>5, ListState DEF List!ListTypeOK, ListTyped, S

-----------------------------------------------------------------------------
(* Types of interfaces                                                     *)

\* What else is known of the types of interfaces.
NetTyped ==
  /\ \A n \in DOMAIN v1 : v1[n] \in Seq(Device)
  /\ v5 \subseteq {"dhcp", "zone"} /\ v6 \subseteq Iface

\* Interfaces keep their devices, or get none.
LEMMA NamesTyped ==
  ASSUME Network!ReferencesFit, NetTyped,
         \/ \E n \in Iface : Network!AddNetwork(n) \/ Network!StartDelete(n) \/ Network!DeleteNetwork(n)
         \/ \E type \in Network!RefType, n \in Iface : Network!AddReference(type, n)
         \/ \E sid \in Wifi, r \in Phy : Network!AddWifiNetwork(sid, r)
         \/ \E netid \in Network!Netid : Network!DeleteWifiNetwork(netid)
         \/ \E sid \in Wifi, ns \in SUBSET Iface : Network!SetNetworks(sid, ns)
  PROVE  NetTyped'
<1>1. << >> \in Seq(Device)
  OBVIOUS
<1>2. v5' = v5 /\ v6' = v6
  BY DEF Network!AddNetwork, Network!StartDelete, Network!DeleteNetwork, Network!AddReference,
         Network!AddWifiNetwork, Network!DeleteWifiNetwork, Network!SetNetworks
<1>3. \A n \in DOMAIN v1' : v1'[n] = << >> \/ (n \in DOMAIN v1 /\ v1'[n] = v1[n])
  <2>1. ASSUME NEW n \in Iface, Network!AddNetwork(n)
        PROVE  \A m \in DOMAIN v1' : v1'[m] = << >> \/ (m \in DOMAIN v1 /\ v1'[m] = v1[m])
    BY <2>1 DEF Network!AddNetwork
  <2>2. ASSUME NEW n \in Iface, Network!DeleteNetwork(n)
        PROVE  \A m \in DOMAIN v1' : m \in DOMAIN v1 /\ v1'[m] = v1[m]
    BY <2>2 DEF Network!DeleteNetwork
  <2>3. ASSUME NEW sid \in Wifi, NEW ns \in SUBSET Iface, Network!SetNetworks(sid, ns)
        PROVE  \A m \in DOMAIN v1' : v1'[m] = << >> \/ (m \in DOMAIN v1 /\ v1'[m] = v1[m])
    BY <2>3 DEF Network!SetNetworks
  <2>4. \/ v1' = v1
        \/ \E n \in Iface : Network!AddNetwork(n) \/ Network!DeleteNetwork(n)
        \/ \E sid \in Wifi, ns \in SUBSET Iface : Network!SetNetworks(sid, ns)
    BY DEF Network!StartDelete, Network!AddReference, Network!AddWifiNetwork, Network!DeleteWifiNetwork
  <2> QED
    BY <2>1, <2>2, <2>3, <2>4
<1> QED
  BY <1>1, <1>2, <1>3 DEF NetTyped

\* A new name has the devices of the old one.
LEMMA RenameTyped ==
  ASSUME Network!ReferencesFit, NetTyped, NEW old \in Iface, NEW new \in Iface, Network!RenameNetwork(old, new)
  PROVE  NetTyped'
<1>1. v5' = v5 /\ v6' \subseteq Iface
  BY DEF Network!RenameNetwork, NetTyped
<1>2. \A n \in DOMAIN v1' : v1'[n] \in Seq(Device)
  BY DEF Network!RenameNetwork, NetTyped
<1> QED
  BY <1>1, <1>2 DEF NetTyped

\* The instance has the operators of the theorems.
LEMMA NetworkOrder ==
  \A s, S : Network!Order!Selected(s, S) = Selected(s, S)
<1>1. \A S : Network!Order!Cardinality(S) = Cardinality(S)
  BY DEF Network!Order!Cardinality, Cardinality
<1>2. \A S, key, s : Network!Order!Rank(S, key, s) = Rank(S, key, s)
  BY <1>1 DEF Network!Order!Rank, Rank
<1>3. \A S, key : Network!Order!ByKey(S, key) = ByKey(S, key)
  BY <1>1, <1>2 DEF Network!Order!ByKey, ByKey
<1>4. \A S : Network!Order!Ascending(S) = Ascending(S)
  BY <1>3 DEF Network!Order!Ascending, Ascending
<1> QED
  BY <1>1, <1>4 DEF Network!Order!Selected, Selected

\* A device is put behind the others, or taken from among them.
LEMMA DevicesTyped ==
  ASSUME NEW s \in Seq(Device), NEW d
  PROVE  /\ d \in Device => Network!Appended(s, d) \in Seq(Device)
         /\ Network!Removed(s, d) \in Seq(Device)
<1>1. d \in Device => Network!Appended(s, d) \in Seq(Device)
  <2>1. Network!Appended(s, d) \in {s, Append(s, d)}
    BY DEF Network!Appended
  <2> QED
    BY <2>1
<1> DEFINE S == {i \in DOMAIN s : s[i] # d}
<1>2. S \in SUBSET (DOMAIN s) /\ Network!Removed(s, d) = Selected(s, S)
  BY NetworkOrder DEF Network!Removed
<1> HIDE DEF S
<1> QED
  BY <1>1, <1>2, WithinSelected

LEMMA DeviceTyped ==
  ASSUME Network!ReferencesFit, NetTyped, NEW n \in Iface, NEW d, Network!AddDevice(n, d) \/ Network!DeleteDevice(n, d)
  PROVE  NetTyped'
<1>1. v5' = v5 /\ v6' = v6 /\ n \in DOMAIN v1
  BY DEF Network!AddDevice, Network!DeleteDevice
<1>2. \/ v1' = v1
      \/ d \in Device /\ v1' = [v1 EXCEPT ![n] = Network!Appended(@, d)]
      \/ v1' = [v1 EXCEPT ![n] = Network!Removed(@, d)]
      \/ v1' = [v1 EXCEPT ![n] = @]
  BY DEF Network!AddDevice, Network!DeleteDevice
<1>3. v1[n] \in Seq(Device)
  BY <1>1 DEF NetTyped
<1>4. \A m \in DOMAIN v1' : v1'[m] \in Seq(Device)
  BY <1>1, <1>2, <1>3, DevicesTyped DEF NetTyped
<1> QED
  BY <1>1, <1>4 DEF NetTyped

LEMMA NetTypedStep ==
  ASSUME Network!ReferencesFit, NetTyped, Network!NetworkNext
  PROVE  NetTyped'
BY NamesTyped, RenameTyped, DeviceTyped DEF Network!NetworkNext

LEMMA NetTypedStart ==
  ASSUME Network!NetworkInit
  PROVE  NetTyped
<1>1. PICK d \in Device : v1 \in [Iface -> {<< >>, <<d>>}]
  BY DEF Network!NetworkInit
<1>2. << >> \in Seq(Device) /\ <<d>> \in Seq(Device)
  OBVIOUS
<1> QED
  BY <1>1, <1>2 DEF Network!NetworkInit, NetTyped

LEMMA NetworkIsTyped ==
  ASSUME Network!ReferencesFit, NetTyped
  PROVE  Network!NetworkTypeOK
<1> DEFINE R == [sid : Wifi, radio : Phy, networks : SUBSET Iface]
<1>1. \A i \in DOMAIN v3 : v3[i] \in R
  <2>1. v3 \in Seq(R)
    BY DEF Network!ReferencesFit, Network!NamesFit
  <2> HIDE DEF R
  <2> QED
    BY <2>1
<1> QED
  BY <1>1 DEF Network!NetworkTypeOK, Network!ReferencesFit, Network!NamesFit, NetTyped

-----------------------------------------------------------------------------
(* Types of gatherings                                                     *)

\* The device does not change more often than it may.
VersionTyped == v1 <= MaxVersion

LEMMA VersionTypedStep ==
  ASSUME State!GatheringsFit, VersionTyped, State!StateNext
  PROVE  VersionTyped'
<1>1. v1 \in Nat /\ MaxVersion \in Nat
  BY StateAssumption DEF State!GatheringsFit, State!GatherTypes
<1>2. v1' = v1 \/ (v1 < MaxVersion /\ v1' = v1 + 1)
  BY DEF State!StateNext, State!Change, State!Get, State!FlushCache, State!Answer, State!Collect, State!Complete
<1> QED
  BY <1>1, <1>2 DEF VersionTyped

LEMMA StateIsTyped ==
  ASSUME State!GatheringsFit, VersionTyped
  PROVE  State!StateTypeOK
<1> DEFINE At == {"asked", "answered", "listing", "over"}
           G == [at : At, seen : Nat]
           H == [at : At, seen : 0..MaxVersion]
<1>1. /\ v1 \in 0..MaxVersion /\ v1 \in Nat /\ v4 \in Seq(G) /\ v2 \in 0..Len(v4) /\ v3 \in 0..Len(v4)
      /\ v5 \in [Caller -> [for : 0..Len(v4), since : Nat]] /\ MaxVersion \in Nat
  BY StateAssumption DEF State!GatheringsFit, State!GatherTypes, VersionTyped
<1>2. \A g \in DOMAIN v4 : v4[g] \in G /\ v4[g].seen <= v1
  <2> HIDE DEF G
  <2> QED
    BY <1>1 DEF State!GatheringsFit, State!SeenInOrder
<1>3. \A x \in G : x.seen <= v1 => x \in H
  BY <1>1
<1> HIDE DEF G, H
<1>4. v4 \in Seq(H)
  BY <1>1, <1>2, <1>3
<1>5. \A c \in Caller : v5[c] \in [for : 0..Len(v4), since : 0..MaxVersion]
  <2> SUFFICES ASSUME NEW c \in Caller
               PROVE  v5[c] \in [for : 0..Len(v4), since : 0..MaxVersion]
    OBVIOUS
  <2>1. v5[c] \in [for : 0..Len(v4), since : Nat] /\ v5[c].since <= v1
    BY <1>1 DEF State!GatheringsFit, State!CallersWait
  <2> QED
    BY <1>1, <2>1
<1>6. v5 \in [Caller -> [for : 0..Len(v4), since : 0..MaxVersion]]
  BY <1>1, <1>5
<1>7. (v2 # 0 => v4[v2].at = "over") /\ \A c \in Caller : v5[c].for # 0 => v4[v5[c].for].at # "over"
  BY DEF State!GatheringsFit, State!OneUnderWay, State!CallersWait
<1> QED
  BY <1>1, <1>4, <1>6, <1>7 DEF State!StateTypeOK, H

-----------------------------------------------------------------------------
(* Types of the pages                                                      *)

\* What is known of the types of the pages, besides what makes them fit.
PagesTyped ==
  /\ KeysInv
  /\ page = "dropdown" => BoxTyped
  /\ page = "list" => ListTyped
  /\ page = "network" => NetTyped
  /\ page = "state" => VersionTyped

\* The keys are installed while another page is open.
LEMMA KeysRestInv == KeysRest => KeysInv
<1>1. KeysRest => RepoInit
  BY DEF KeysRest, RepoInit
<1> QED
  BY <1>1, KeysInitInv

LEMMA TypedStart ==
  ASSUME PagesInit
  PROVE  PagesTyped
<1>1. RepoInit \/ KeysRest
  BY DEF PagesInit
<1>2. /\ page = "dropdown" => Drop!DropInit
      /\ page = "list" => List!ListInit
      /\ page = "network" => Network!NetworkInit
      /\ page = "state" => State!StateInit
  BY DEF PagesInit, OtherPage
<1>3. State!StateInit => VersionTyped
  BY StateAssumption DEF State!StateInit, VersionTyped
<1> QED
  BY <1>1, <1>2, <1>3, KeysInitInv, KeysRestInv, BoxTypedStart, ListTypedStart, NetTypedStart DEF PagesTyped

LEMMA TypedStep ==
  ASSUME PagesFit, PagesTyped, [PagesNext]_pageVars
  PROVE  PagesTyped'
<1>1. KeysInv'
  <2>1. [RepoNext]_repoVars
    BY DEF PagesNext, On, pageVars
  <2> QED
    BY <2>1, KeysNextInv DEF PagesTyped
<1>2. CASE PagesNext
  <2>1. /\ page' = page
        /\ page = "dropdown" => Drop!DropNext
        /\ page = "list" => List!ListNext
        /\ page = "network" => Network!NetworkNext
        /\ page = "state" => State!StateNext
    BY <1>2 DEF PagesNext, On
  <2> QED
    BY <1>1, <2>1, BoxTypedStep, ListTypedStep, NetTypedStep, VersionTypedStep DEF PagesTyped, PagesFit
<1>3. CASE UNCHANGED pageVars
  BY <1>1, <1>3 DEF pageVars, PagesTyped, BoxTyped, Single, Known, ListTyped, Has, AtMost, NetTyped, VersionTyped
<1> QED
  BY <1>2, <1>3

\* The inductive invariant: what makes the pages fit, and the rest of their types,
\* with what is kept of the keys.
LEMMA PagesAlwaysInType ==
  PagesSpec => [](PagesFit /\ PagesTyped)
<1>1. PagesInit => PagesFit /\ PagesTyped
  BY PagesStart, TypedStart
<1>2. PagesFit /\ PagesTyped /\ [PagesNext]_pageVars => PagesFit' /\ PagesTyped'
  BY PagesStep, TypedStep
<1> QED
  BY <1>1, <1>2, PTL DEF PagesSpec

\* What the pages keep is of its type: whatever is on the device, and whatever is
\* clicked, dragged, answered and saved on them.
THEOREM PagesAlwaysTyped ==
  PagesSpec => []PagesTypeOK
<1>1. PagesFit /\ PagesTyped => PagesTypeOK
  <2> SUFFICES ASSUME PagesFit, PagesTyped
               PROVE  PagesTypeOK
    OBVIOUS
  <2>1. /\ page = "packages" => Packages!PackageTypeOK
        /\ page = "files" => Files!FilesTypeOK
        /\ page = "wireless" => Wireless!WirelessTypeOK
    BY DEF PagesFit, Packages!ListsFit, Files!FilesFit, Wireless!RowsFit
  <2>2. page = "tabs" => Tabs!TabsTypeOK
    <3> SUFFICES ASSUME Tabs!TabsFit
                 PROVE  Tabs!TabsTypeOK
      BY DEF PagesFit
    <3>1. v6.page \in TabPage /\ \A p \in DOMAIN v6.paths : v6.paths[p] \in Tabs!Pane \cup {Tabs!Unset}
      BY TabsState DEF Stored
    <3> QED
      BY <3>1, TabsState DEF Tabs!TabsTypeOK
  <2>3. page = "zones" => Zones!ZoneTypeOK
    BY DEF PagesFit, Zones!ZonesFit
  <2>4. page = "loader" => Loader!LoaderTypeOK
    BY DEF PagesFit, Loader!ChainsKept
  <2>5. page = "form" => Form!FieldsTypeOK
    BY DEF PagesFit, Form!FieldsFit
  <2>6. page = "grid" => Grid!GridTypeOK
    BY DEF PagesFit, Grid!TableFits
  <2>7. page = "json" => Json!JsonTypeOK
    BY DEF PagesFit, Json!SectionsFit
  <2>8. /\ page = "dropdown" => Drop!DropTypeOK
        /\ page = "list" => List!ListTypeOK
        /\ page = "network" => Network!NetworkTypeOK
        /\ page = "state" => State!StateTypeOK
    BY BoxIsTyped, ListIsTyped, NetworkIsTyped, StateIsTyped DEF PagesFit, PagesTyped
  <2>9. RepoTypeOK
    BY DEF PagesTyped, KeysInv
  <2> QED
    BY <2>1, <2>2, <2>3, <2>4, <2>5, <2>6, <2>7, <2>8, <2>9 DEF PagesTypeOK
<1> QED
  BY <1>1, PagesAlwaysInType, PTL

\* The same of the keys when their page is one of many (keyEnvironmentCheck, and
\* the comparison in addKey): the directory holds keys its package manager can
\* read, and a key that is there twice was added while another was on its way.
THEOREM PagesKeepTheKeys ==
  PagesSpec => [](FormatFits /\ DuplicatesNeedOverlap)
<1>1. PagesTyped => FormatFits /\ DuplicatesNeedOverlap
  BY DEF PagesTyped, KeysInv, Alone, DuplicatesNeedOverlap
<1> QED
  BY <1>1, PagesAlwaysInType, PTL

=============================================================================
