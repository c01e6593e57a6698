--------------------------- MODULE LuciBaseProofs ---------------------------
(***************************************************************************)
(* What LuciRuntime guarantees for any functions, intervals and number of  *)
(* lost replies; that UciCache implements UciDocument, for any             *)
(* configuration and any number of edits and faults; and that what it      *)
(* saves is what the page shows.                                           *)
(*                                                                         *)
(* All depend on sets in the order of a number: the entries that are due,  *)
(* the calls that are denied, the sections of a page.  That the members of *)
(* a set are in order, each of them once, follows from how many of them    *)
(* come before each.                                                       *)
(***************************************************************************)
EXTENDS UciCache, LuciRuntime, InOrderProofs

-----------------------------------------------------------------------------
(* Sequences without repetition                                            *)

\* What Selected picks out is what is at the positions, each of them once.
LEMMA SelectedRange ==
  ASSUME NEW T, NEW seq \in Seq(T), NEW S \in SUBSET (DOMAIN seq)
  PROVE  /\ Selected(seq, S) \in Seq(T)
         /\ SeqRange(Selected(seq, S)) = {seq[i] : i \in S}
         /\ Distinct(seq) => Distinct(Selected(seq, S))
<1>1. Selected(seq, S) \in Seq(T)
  BY SelectedFacts
<1>2. SeqRange(Selected(seq, S)) = {seq[i] : i \in S}
  BY SelectedFacts DEF SeqRange
<1>3. Distinct(seq) => Distinct(Selected(seq, S))
  BY SelectedFacts DEF Distinct
<1> QED
  BY <1>1, <1>2, <1>3

\* One sequence after another.
LEMMA ConcatRange ==
  ASSUME NEW T, NEW u \in Seq(T), NEW w \in Seq(T)
  PROVE  /\ u \o w \in Seq(T)
         /\ SeqRange(u \o w) = SeqRange(u) \cup SeqRange(w)
         /\ Distinct(u) /\ Distinct(w) /\ SeqRange(u) \cap SeqRange(w) = {} => Distinct(u \o w)
<1>1. /\ u \o w \in Seq(T)
      /\ \A i \in DOMAIN (u \o w) : \/ i \in DOMAIN u /\ (u \o w)[i] = u[i]
                                    \/ /\ i \notin DOMAIN u
                                       /\ i - Len(u) \in DOMAIN w
                                       /\ (u \o w)[i] = w[i - Len(u)]
      /\ \A i \in DOMAIN u : i \in DOMAIN (u \o w) /\ (u \o w)[i] = u[i]
      /\ \A i \in DOMAIN w : /\ i + Len(u) \in DOMAIN (u \o w)
                             /\ (u \o w)[i + Len(u)] = w[i]
  OBVIOUS
<1>2. SeqRange(u \o w) \subseteq SeqRange(u) \cup SeqRange(w)
  <2> SUFFICES ASSUME NEW i \in DOMAIN (u \o w)
               PROVE  (u \o w)[i] \in SeqRange(u) \cup SeqRange(w)
    BY DEF SeqRange
  <2>1. (\E k \in DOMAIN u : (u \o w)[i] = u[k]) \/ \E k \in DOMAIN w : (u \o w)[i] = w[k]
    BY <1>1
  <2> QED
    BY <2>1 DEF SeqRange
<1>3. SeqRange(u) \subseteq SeqRange(u \o w)
  <2>1. \A i \in DOMAIN u : \E k \in DOMAIN (u \o w) : u[i] = (u \o w)[k]
    BY <1>1
  <2> QED
    BY <2>1 DEF SeqRange
<1>4. SeqRange(w) \subseteq SeqRange(u \o w)
  <2>1. \A i \in DOMAIN w : \E k \in DOMAIN (u \o w) : w[i] = (u \o w)[k]
    BY <1>1
  <2> QED
    BY <2>1 DEF SeqRange
<1>5. ASSUME Distinct(u), Distinct(w), SeqRange(u) \cap SeqRange(w) = {}
      PROVE  Distinct(u \o w)
  <2> SUFFICES ASSUME NEW i \in DOMAIN (u \o w), NEW j \in DOMAIN (u \o w),
                      (u \o w)[i] = (u \o w)[j]
               PROVE  i = j
    BY DEF Distinct
  <2>1. \A k \in DOMAIN u, l \in DOMAIN w : u[k] # w[l]
    BY <1>5 DEF SeqRange
  <2>2. CASE i \in DOMAIN u /\ j \in DOMAIN u
    BY <1>1, <1>5, <2>2 DEF Distinct
  <2>3. CASE i \notin DOMAIN u /\ j \notin DOMAIN u
    <3>1. i - Len(u) = j - Len(u)
      BY <1>1, <1>5, <2>3 DEF Distinct
    <3>2. i \in Int /\ j \in Int /\ Len(u) \in Int
      BY <1>1
    <3> QED
      BY <3>1, <3>2
  <2>4. CASE i \in DOMAIN u /\ j \notin DOMAIN u
    BY <1>1, <2>1, <2>4
  <2>5. CASE i \notin DOMAIN u /\ j \in DOMAIN u
    BY <1>1, <2>1, <2>5
  <2> QED
    BY <2>2, <2>3, <2>4, <2>5
<1> QED
  BY <1>1, <1>2, <1>3, <1>4, <1>5

-----------------------------------------------------------------------------
(* The runtime: calls on their way                                         *)

OnTheWay == SeqRange(waiting) \cup UNION {SeqRange(b.calls) : b \in batches}

\* A function is polled once, by a call of its own, and an entry that is not to
\* be called waits for that call.
Entries(q) ==
  /\ q \in Seq(Entry)
  /\ \A i, j \in DOMAIN q : q[i].fn = q[j].fn => i = j
  /\ \A i \in DOMAIN q : CallOf(q[i]) \in Call
  /\ \A i \in DOMAIN q : q[i].r \/ CallOf(q[i]) \in OnTheWay

CallTypes ==
  /\ calls \in [Call -> [at : {"idle", "waiting", "sent"}, access : BOOLEAN]]
  /\ waiting \in Seq(Call) /\ batches \in SUBSET Batch

\* A call waits to be sent, or is in one batch, once.
OnePlace ==
  /\ Distinct(waiting)
  /\ \A c \in SeqRange(waiting) : calls[c].at = "waiting"
  /\ \A b \in batches : Distinct(b.calls) /\ \A c \in SeqRange(b.calls) : calls[c].at = "sent"
  /\ \A b1, b2 \in batches : b1 # b2 => SeqRange(b1.calls) \cap SeqRange(b2.calls) = {}

\* A reply is complete until it is cut short, and a question for access is
\* denied only when the session has expired.
Replies ==
  \A b \in batches :
    /\ DOMAIN b.reply \subseteq DOMAIN b.calls
    /\ b.reply = <<>> \/ b.lost \/ DOMAIN b.reply = DOMAIN b.calls
    /\ b.lost => lost > 0
    /\ \A i \in DOMAIN b.reply :
         /\ b.reply[i].to = b.calls[i]
         /\ calls[b.calls[i]].access /\ b.reply[i].denied => session = "expired"

\* Only calls that rest are made by step().
LEMMA StepUnderway ==
  ASSUME NEW q, NEW t, Entries(q), CallTypes, OnePlace, Replies,
         Step(q, t), batches' = batches, UNCHANGED <<session, lost>>
  PROVE  Entries(queue)' /\ CallTypes' /\ OnePlace' /\ Replies'
<1> DEFINE D == Due(q, t)
           e == [i \in DOMAIN q |-> CallOf(queue'[i])]
           made == Selected(e, D)
<1>1. /\ q \in Seq(Entry) /\ D \in SUBSET DOMAIN q
      /\ \A i \in DOMAIN q : /\ q[i] \in Entry /\ q[i].fn \in Fn /\ q[i].r \in BOOLEAN /\ q[i].n \in {1, 2}
                            /\ q[i] = [fn |-> q[i].fn, r |-> q[i].r, n |-> q[i].n]
  <2>1. q \in Seq(Entry) /\ \A i \in DOMAIN q : q[i] \in Entry
    BY DEF Entries
  <2>2. D \in SUBSET DOMAIN q
    BY DEF Due
  <2> QED
    BY <2>1, <2>2 DEF Entry
<1>2. /\ \A i \in D : calls[<<q[i].fn, FreeCall(q[i].fn)>>] = Idle
      /\ queue' = [i \in DOMAIN q |->
                     IF i \in D THEN [q[i] EXCEPT !.r = FALSE, !.n = FreeCall(q[i].fn)]
                     ELSE q[i]]
      /\ calls' = [c \in Call |-> IF \E i \in D : CallOf(queue'[i]) = c
                                    THEN [Idle EXCEPT !.at = "waiting"] ELSE calls[c]]
      /\ waiting' = waiting \o made
  BY DEF Step
<1>3. \A i \in D : /\ FreeCall(q[i].fn) \in {1, 2}
                   /\ <<q[i].fn, FreeCall(q[i].fn)>> \in Call
  BY <1>1 DEF FreeCall, Call
<1> HIDE DEF D
<1>4. /\ \A i \in DOMAIN q : queue'[i] \in Entry /\ queue'[i].fn = q[i].fn
      /\ \A i \in D : ~queue'[i].r /\ CallOf(queue'[i]) = <<q[i].fn, FreeCall(q[i].fn)>>
      /\ \A i \in DOMAIN q \ D : queue'[i] = q[i]
      /\ DOMAIN queue' = DOMAIN q
  <2>1. DOMAIN queue' = DOMAIN q /\ \A i \in DOMAIN q \ D : queue'[i] = q[i]
    BY <1>2
  <2>2. ASSUME NEW i \in D
        PROVE  /\ queue'[i] = [fn |-> q[i].fn, r |-> FALSE, n |-> FreeCall(q[i].fn)]
               /\ queue'[i].fn = q[i].fn /\ queue'[i].n = FreeCall(q[i].fn)
               /\ queue'[i].r = FALSE
    <3> DEFINE m == FreeCall(q[i].fn)
    <3>1. queue'[i] = [q[i] EXCEPT !.r = FALSE, !.n = m]
      BY <1>1, <1>2
    <3>2. q[i] = [fn |-> q[i].fn, r |-> q[i].r, n |-> q[i].n]
      BY <1>1
    <3> HIDE DEF m
    <3>3. queue'[i] = [fn |-> q[i].fn, r |-> FALSE, n |-> m]
      BY <3>1, <3>2
    <3> QED
      BY <3>3 DEF m
  <2>3. \A i \in D : queue'[i] \in Entry
    <3>1. \A i \in D : q[i].fn \in Fn /\ FreeCall(q[i].fn) \in {1, 2}
      BY <1>1, <1>3
    <3>2. \A f \in Fn, n \in {1, 2} : [fn |-> f, r |-> FALSE, n |-> n] \in Entry
      BY DEF Entry
    <3> QED
      BY <2>2, <3>1, <3>2
  <2>4. \A i \in DOMAIN q : queue'[i] \in Entry /\ queue'[i].fn = q[i].fn
    <3>1. \A i \in DOMAIN q \ D : q[i] \in Entry /\ queue'[i] = q[i]
      BY <1>1, <2>1
    <3> QED
      BY <2>2, <2>3, <3>1
  <2>5. \A i \in D : ~queue'[i].r /\ CallOf(queue'[i]) = <<q[i].fn, FreeCall(q[i].fn)>>
    <3>1. \A i \in D : /\ queue'[i].r = FALSE /\ queue'[i].fn = q[i].fn
                      /\ queue'[i].n = FreeCall(q[i].fn)
      BY <2>2
    <3> QED
      BY <3>1 DEF CallOf
  <2> QED
    BY <2>1, <2>4, <2>5
<1>5. queue' \in Seq(Entry)
  <2>1. PICK n \in Nat : DOMAIN q = 1..n
    BY <1>1
  <2>2. DOMAIN queue' = 1..n /\ queue' = [i \in 1..n |-> queue'[i]]
    BY <1>2, <2>1
  <2>3. \A i \in 1..n : queue'[i] \in Entry
    BY <1>4, <2>1
  <2> QED
    BY <2>1, <2>2, <2>3
<1>6. \A i \in DOMAIN q : CallOf(queue'[i]) \in Call
  <2>1. \A i \in DOMAIN q : CallOf(q[i]) \in Call
    BY DEF Entries
  <2> QED
    BY <1>3, <1>4, <2>1
<1>7. e \in Seq(Call) /\ DOMAIN e = DOMAIN q /\ Distinct(e)
  <2>1. Distinct(e)
    BY <1>4 DEF Distinct, CallOf, Entries
  <2> QED
    BY <1>1, <1>6, <2>1
<1> HIDE DEF e
<1>8. /\ made \in Seq(Call) /\ Distinct(made)
      /\ SeqRange(made) = {CallOf(queue'[i]) : i \in D}
  <2>1. /\ made \in Seq(Call) /\ Distinct(made)
        /\ SeqRange(made) = {e[i] : i \in D}
    BY <1>1, <1>7, SelectedRange
  <2>2. \A i \in D : e[i] = CallOf(queue'[i])
    BY <1>1 DEF e
  <2> QED
    BY <2>1, <2>2
<1> HIDE DEF made
<1>9. \A c \in SeqRange(made) : c \in Call /\ calls[c] = Idle
  <2>1. \A i \in D : CallOf(queue'[i]) \in Call /\ calls[CallOf(queue'[i])] = Idle
    BY <1>1, <1>2, <1>4, <1>6
  <2> QED
    BY <1>8, <2>1
<1>10. /\ \A c \in SeqRange(waiting) : c \in Call /\ calls[c].at = "waiting"
       /\ \A b \in batches : \A c \in SeqRange(b.calls) : c \in Call /\ calls[c].at = "sent"
  <2>1. waiting \in Seq(Call) /\ \A b \in batches : b.calls \in Seq(Call)
    BY DEF CallTypes, Batch
  <2> QED
    BY <2>1 DEF OnePlace, SeqRange
<1>11. Idle.at = "idle"
  BY DEF Idle
<1>12. /\ \A c \in Call \ SeqRange(made) : calls'[c] = calls[c]
       /\ \A c \in SeqRange(made) : calls'[c] = [at |-> "waiting", access |-> FALSE]
  BY <1>2, <1>8, <1>9 DEF Idle
<1>13. /\ SeqRange(made) \cap SeqRange(waiting) = {}
       /\ \A b \in batches : SeqRange(made) \cap SeqRange(b.calls) = {}
  BY <1>9, <1>10, <1>11
<1>14. /\ waiting' \in Seq(Call) /\ Distinct(waiting')
       /\ SeqRange(waiting') = SeqRange(waiting) \cup SeqRange(made)
  <2>1. waiting \in Seq(Call) /\ Distinct(waiting) /\ waiting' = waiting \o made
    BY <1>2 DEF CallTypes, OnePlace
  <2>2. SeqRange(waiting) \cap SeqRange(made) = {}
    BY <1>13
  <2> QED
    BY <1>8, <2>1, <2>2, ConcatRange
<1>15. Entries(queue)'
  <2>1. OnTheWay' = OnTheWay \cup SeqRange(made)
    BY <1>14 DEF OnTheWay, SeqRange
  <2>2. \A i \in DOMAIN queue' : queue'[i].r \/ CallOf(queue'[i]) \in OnTheWay'
    BY <1>4, <1>8, <2>1 DEF Entries
  <2>3. \A i, j \in DOMAIN queue' : queue'[i].fn = queue'[j].fn => i = j
    BY <1>4 DEF Entries
  <2> QED
    BY <1>4, <1>5, <1>6, <2>2, <2>3 DEF Entries, CallOf
<1>16. CallTypes'
  <2>1. calls' \in [Call -> [at : {"idle", "waiting", "sent"}, access : BOOLEAN]]
    BY <1>2 DEF CallTypes, Idle
  <2> QED
    BY <1>14, <2>1 DEF CallTypes
<1>17. OnePlace'
  <2>1. \A c \in SeqRange(waiting') : calls'[c].at = "waiting"
    BY <1>10, <1>12, <1>13, <1>14
  <2>2. \A b \in batches : \A c \in SeqRange(b.calls) : calls'[c].at = "sent"
    BY <1>10, <1>12, <1>13
  <2> QED
    BY <1>14, <2>1, <2>2 DEF OnePlace, SeqRange, Distinct
<1>18. Replies'
  <2>1. \A b \in batches : \A i \in DOMAIN b.calls : calls'[b.calls[i]] = calls[b.calls[i]]
    BY <1>10, <1>12, <1>13 DEF SeqRange
  <2> QED
    BY <2>1 DEF Replies
<1> QED
  BY <1>15, <1>16, <1>17, <1>18

Calling == CallTypes /\ OnePlace /\ Replies

\* A step that leaves the calls alone.
LEMMA SameCalls ==
  ASSUME Calling, UNCHANGED <<rpcVars, lost>>, session' \in {session, "expired"}
  PROVE  Calling' /\ OnTheWay' = OnTheWay
<1>1. calls' = calls /\ waiting' = waiting /\ batches' = batches /\ lost' = lost
  BY DEF rpcVars
<1>2. OnTheWay' = OnTheWay
  BY <1>1 DEF OnTheWay, SeqRange
<1>3. CallTypes' /\ OnePlace'
  <2>1. CallTypes'
    BY <1>1 DEF Calling, CallTypes
  <2>2. Distinct(waiting)' /\ \A c \in SeqRange(waiting)' : calls'[c].at = "waiting"
    BY <1>1 DEF Calling, OnePlace, SeqRange, Distinct
  <2>3. \A b \in batches' : Distinct(b.calls) /\ \A c \in SeqRange(b.calls) : calls'[c].at = "sent"
    BY <1>1 DEF Calling, OnePlace
  <2>4. \A b1, b2 \in batches' : b1 # b2 => SeqRange(b1.calls) \cap SeqRange(b2.calls) = {}
    BY <1>1 DEF Calling, OnePlace
  <2> QED
    BY <2>1, <2>2, <2>3, <2>4 DEF OnePlace, SeqRange, Distinct
<1>4. Replies'
  BY <1>1 DEF Calling, Replies
<1> QED
  BY <1>2, <1>3, <1>4 DEF Calling

\* The functions that start become entries of the queue, and their calls are under way.
LEMMA StartsUnderway ==
  ASSUME NEW q, Entries(q), Calling, Starts(q), UNCHANGED <<batches, session, lost>>
  PROVE  Entries(queue)' /\ Calling'
<1>1. CASE q = <<>>
  <2>1. queue' = q /\ UNCHANGED <<rpcVars, lost>> /\ session' = session
    BY <1>1 DEF Starts, rpcVars
  <2>2. Calling' /\ OnTheWay' = OnTheWay
    BY <2>1, SameCalls
  <2> QED
    BY <2>1, <2>2 DEF Entries, CallOf
<1>2. CASE q # <<>>
  BY <1>2, StepUnderway DEF Starts, Calling
<1> QED
  BY <1>1, <1>2

\* A function is added to the queue.
LEMMA AddUnderway ==
  ASSUME NEW f \in Fn, Entries(queue), Calling, AddPoll(f)
  PROVE  Entries(queue)' /\ Calling'
<1> DEFINE new == [fn |-> f, r |-> TRUE, n |-> FreeCall(f)]
           q == Append(queue, new)
<1>1. queue \in Seq(Entry) /\ f \notin Polled
  BY DEF Entries, AddPoll
<1>2. /\ new \in Entry /\ new.r /\ new.fn = f
      /\ CallOf(new) \in Call
  <2>1. FreeCall(f) \in {1, 2} /\ <<f, FreeCall(f)>> \in Call
    BY DEF FreeCall, Call
  <2> QED
    BY <2>1 DEF CallOf, Entry
<1> HIDE DEF new
<1>3. /\ q \in Seq(Entry)
      /\ \A i \in DOMAIN q : \/ i \in DOMAIN queue /\ q[i] = queue[i]
                             \/ i = Len(queue) + 1 /\ q[i] = new
  BY <1>1, <1>2
<1>4. Entries(q)
  <2>1. \A i \in DOMAIN queue : queue[i].fn # f
    BY <1>1 DEF Polled
  <2>2. \A i, j \in DOMAIN q : q[i].fn = q[j].fn => i = j
    BY <1>2, <1>3, <2>1 DEF Entries
  <2>3. \A i \in DOMAIN q : CallOf(q[i]) \in Call
    BY <1>2, <1>3 DEF Entries
  <2>4. \A i \in DOMAIN q : q[i].r \/ CallOf(q[i]) \in OnTheWay
    BY <1>2, <1>3 DEF Entries
  <2> QED
    BY <1>3, <2>2, <2>3, <2>4 DEF Entries
<1>5. /\ IF tick # Undefined /\ ~timer THEN Starts(q)
         ELSE queue' = q /\ UNCHANGED <<tick, timer, calls, waiting>>
      /\ UNCHANGED <<batches, session, expired, lost>>
  BY DEF AddPoll, new
<1> HIDE DEF q
<1>6. CASE Starts(q)
  BY <1>4, <1>5, <1>6, StartsUnderway
<1>7. CASE queue' = q /\ UNCHANGED <<calls, waiting>>
  <2>1. UNCHANGED <<rpcVars, lost>> /\ session' = session
    BY <1>5, <1>7 DEF rpcVars
  <2>2. Calling' /\ OnTheWay' = OnTheWay
    BY <2>1, SameCalls
  <2> QED
    BY <1>4, <1>7, <2>2 DEF Entries, CallOf
<1> QED
  BY <1>5, <1>6, <1>7

\* A function is removed from it.
LEMMA RemoveUnderway ==
  ASSUME NEW f \in Fn, Entries(queue), Calling, RemovePoll(f)
  PROVE  Entries(queue)' /\ Calling'
<1> DEFINE S == {i \in DOMAIN queue : queue[i].fn # f}
           q == Selected(queue, S)
<1>1. /\ queue \in Seq(Entry) /\ S \in SUBSET DOMAIN queue
      /\ queue' = q /\ UNCHANGED <<rpcVars, lost>> /\ session' = session
  BY DEF Entries, RemovePoll
<1> HIDE DEF S
<1>2. /\ q \in Seq(Entry)
      /\ \A k \in DOMAIN q : Ascending(S)[k] \in DOMAIN queue /\ q[k] = queue[Ascending(S)[k]]
      /\ \A k, l \in DOMAIN q : Ascending(S)[k] = Ascending(S)[l] => k = l
  BY <1>1, SelectedFacts
<1> HIDE DEF q
<1>3. Entries(q)
  <2>0. \A i, j \in DOMAIN queue : queue[i].fn = queue[j].fn => i = j
    BY DEF Entries
  <2>1. \A i, j \in DOMAIN q : q[i].fn = q[j].fn => i = j
    BY <1>2, <2>0
  <2>2. \A i \in DOMAIN q : CallOf(q[i]) \in Call /\ (q[i].r \/ CallOf(q[i]) \in OnTheWay)
    BY <1>2 DEF Entries
  <2> QED
    BY <1>2, <2>1, <2>2 DEF Entries
<1>4. Calling' /\ OnTheWay' = OnTheWay
  BY <1>1, SameCalls
<1> QED
  BY <1>1, <1>3, <1>4 DEF Entries, CallOf

\* The page makes a call of its own.
LEMMA PageCallUnderway ==
  ASSUME Entries(queue), Calling, PageCall
  PROVE  Entries(queue)' /\ Calling'
<1> DEFINE w == <<PageCalls>>
<1>1. /\ calls[PageCalls].at = "idle" /\ queue' = queue
      /\ calls' = [calls EXCEPT ![PageCalls].at = "waiting"]
      /\ waiting' = Append(waiting, PageCalls)
      /\ batches' = batches /\ session' = session /\ lost' = lost
  BY DEF PageCall, Idle, pollVars
<1>2. /\ calls \in [Call -> [at : {"idle", "waiting", "sent"}, access : BOOLEAN]]
      /\ waiting \in Seq(Call) /\ batches \in SUBSET Batch
      /\ \A b \in batches : b.calls \in Seq(Call)
      /\ PageCalls \in Call
  BY DEF Calling, CallTypes, Batch, Call
<1>3. /\ w \in Seq(Call) /\ Distinct(w) /\ SeqRange(w) = {PageCalls}
      /\ waiting' = waiting \o w
  BY <1>1, <1>2 DEF Distinct, SeqRange
<1> HIDE DEF w
<1>4. /\ \A c \in SeqRange(waiting) : c \in Call /\ calls[c].at = "waiting"
      /\ \A b \in batches : \A c \in SeqRange(b.calls) : c \in Call /\ calls[c].at = "sent"
  BY <1>2 DEF Calling, OnePlace, SeqRange
<1>5. /\ PageCalls \notin SeqRange(waiting)
      /\ \A b \in batches : PageCalls \notin SeqRange(b.calls)
  BY <1>1, <1>4
<1>6. /\ waiting' \in Seq(Call) /\ Distinct(waiting')
      /\ SeqRange(waiting') = SeqRange(waiting) \cup {PageCalls}
  <2>1. SeqRange(waiting) \cap SeqRange(w) = {}
    BY <1>3, <1>5
  <2> QED
    BY <1>2, <1>3, <2>1, ConcatRange DEF Calling, OnePlace
<1>7. /\ calls' \in [Call -> [at : {"idle", "waiting", "sent"}, access : BOOLEAN]]
      /\ calls'[PageCalls].at = "waiting"
      /\ \A c \in Call \ {PageCalls} : calls'[c] = calls[c]
  BY <1>1, <1>2
<1>8. CallTypes'
  BY <1>1, <1>2, <1>6, <1>7 DEF CallTypes
<1>9. OnePlace'
  <2>1. \A c \in SeqRange(waiting') : calls'[c].at = "waiting"
    BY <1>4, <1>5, <1>6, <1>7
  <2>2. \A b \in batches : \A c \in SeqRange(b.calls) : calls'[c].at = "sent"
    BY <1>4, <1>5, <1>7
  <2> QED
    BY <1>1, <1>6, <2>1, <2>2 DEF Calling, OnePlace, SeqRange, Distinct
<1>10. Replies'
  <2>1. \A b \in batches : \A i \in DOMAIN b.calls : calls'[b.calls[i]] = calls[b.calls[i]]
    BY <1>4, <1>5, <1>7 DEF SeqRange
  <2> QED
    BY <1>1, <2>1 DEF Calling, Replies
<1>11. Entries(queue)'
  <2>1. OnTheWay \subseteq OnTheWay'
    BY <1>1, <1>6 DEF OnTheWay, SeqRange
  <2> QED
    BY <1>1, <2>1 DEF Entries, CallOf
<1> QED
  BY <1>8, <1>9, <1>10, <1>11 DEF Calling

\* Calls that wait are sent as one batch.
LEMMA FlushUnderway ==
  ASSUME Entries(queue), Calling, Flush
  PROVE  Entries(queue)' /\ Calling'
<1> DEFINE new == [calls |-> waiting, reply |-> <<>>, lost |-> FALSE]
<1>1. /\ queue' = queue /\ batches' = batches \cup {new} /\ waiting' = <<>>
      /\ calls' = [c \in Call |-> IF calls[c].at = "waiting" THEN [calls[c] EXCEPT !.at = "sent"]
                                                             ELSE calls[c]]
      /\ session' = session /\ lost' = lost
  BY DEF Flush, pollVars
<1>2. /\ calls \in [Call -> [at : {"idle", "waiting", "sent"}, access : BOOLEAN]]
      /\ waiting \in Seq(Call) /\ batches \in SUBSET Batch
      /\ \A b \in batches : b.calls \in Seq(Call)
  BY DEF Calling, CallTypes, Batch
<1>3. new \in Batch /\ new.calls = waiting /\ new.reply = <<>> /\ ~new.lost
  BY <1>2 DEF Batch
<1> HIDE DEF new
<1>4. /\ \A c \in SeqRange(waiting) : c \in Call /\ calls[c].at = "waiting"
      /\ \A b \in batches : \A c \in SeqRange(b.calls) : c \in Call /\ calls[c].at = "sent"
  BY <1>2 DEF Calling, OnePlace, SeqRange
<1>5. /\ calls' \in [Call -> [at : {"idle", "waiting", "sent"}, access : BOOLEAN]]
      /\ \A c \in Call : calls[c].at = "waiting" => calls'[c].at = "sent"
      /\ \A c \in Call : calls[c].at # "waiting" => calls'[c] = calls[c]
  BY <1>1, <1>2
<1>6. CallTypes'
  <2>1. waiting' \in Seq(Call)
    BY <1>1
  <2> QED
    BY <1>1, <1>2, <1>3, <1>5, <2>1 DEF CallTypes
<1>7. SeqRange(waiting') = {} /\ Distinct(waiting')
  BY <1>1 DEF SeqRange, Distinct
<1>8. OnePlace'
  <2>1. ASSUME NEW b \in batches'
        PROVE  Distinct(b.calls) /\ \A c \in SeqRange(b.calls) : calls'[c].at = "sent"
    <3>1. CASE b = new
      BY <1>3, <1>4, <1>5, <3>1 DEF Calling, OnePlace
    <3>2. CASE b \in batches
      BY <1>4, <1>5, <3>2 DEF Calling, OnePlace
    <3> QED
      BY <1>1, <3>1, <3>2
  <2>2. \A b \in batches : SeqRange(waiting) \cap SeqRange(b.calls) = {}
    BY <1>4
  <2>3. \A b1, b2 \in batches' : b1 # b2 => SeqRange(b1.calls) \cap SeqRange(b2.calls) = {}
    BY <1>1, <1>3, <2>2 DEF Calling, OnePlace
  <2> QED
    BY <1>7, <2>1, <2>3 DEF OnePlace, SeqRange, Distinct
<1>9. Replies'
  <2>1. \A b \in batches : \A i \in DOMAIN b.calls : calls'[b.calls[i]] = calls[b.calls[i]]
    BY <1>4, <1>5 DEF SeqRange
  <2>2. DOMAIN new.reply = {} /\ new.reply = <<>> /\ ~new.lost
    BY <1>3
  <2>3. ASSUME NEW b \in batches'
        PROVE  /\ DOMAIN b.reply \subseteq DOMAIN b.calls
               /\ b.reply = <<>> \/ b.lost \/ DOMAIN b.reply = DOMAIN b.calls
               /\ b.lost => lost' > 0
               /\ \A i \in DOMAIN b.reply :
                    /\ b.reply[i].to = b.calls[i]
                    /\ calls'[b.calls[i]].access /\ b.reply[i].denied => session' = "expired"
    <3>1. CASE b = new
      BY <2>2, <3>1
    <3>2. CASE b \in batches
      <4>1. /\ DOMAIN b.reply \subseteq DOMAIN b.calls
            /\ b.reply = <<>> \/ b.lost \/ DOMAIN b.reply = DOMAIN b.calls
            /\ b.lost => lost > 0
            /\ \A i \in DOMAIN b.reply :
                 /\ b.reply[i].to = b.calls[i]
                 /\ calls[b.calls[i]].access /\ b.reply[i].denied => session = "expired"
        BY <3>2 DEF Calling, Replies
      <4>2. \A i \in DOMAIN b.reply : calls'[b.calls[i]] = calls[b.calls[i]]
        BY <2>1, <3>2, <4>1
      <4> QED
        BY <1>1, <4>1, <4>2
    <3> QED
      BY <1>1, <3>1, <3>2
  <2> QED
    BY <2>3 DEF Replies
<1>10. Entries(queue)'
  <2>1. OnTheWay \subseteq OnTheWay'
    BY <1>1, <1>3 DEF OnTheWay, SeqRange
  <2> QED
    BY <1>1, <2>1 DEF Entries, CallOf
<1> QED
  BY <1>6, <1>8, <1>9, <1>10 DEF Calling

\* A batch that gets another reply.
LEMMA ReplyUnderway ==
  ASSUME Entries(queue), Calling, NEW b \in batches, NEW r \in Batch, r.calls = b.calls,
         batches' = (batches \ {b}) \cup {r},
         queue' = queue, calls' = calls, waiting' = waiting, session' = session,
         lost \in Nat, lost' \in {lost, lost + 1},
         DOMAIN r.reply \subseteq DOMAIN r.calls,
         r.reply = <<>> \/ r.lost \/ DOMAIN r.reply = DOMAIN r.calls,
         r.lost => lost' > 0,
         \A i \in DOMAIN r.reply :
           /\ r.reply[i].to = r.calls[i]
           /\ calls[r.calls[i]].access /\ r.reply[i].denied => session = "expired"
  PROVE  Entries(queue)' /\ Calling'
<1>1. CallTypes'
  BY DEF Calling, CallTypes
<1>2. OnePlace'
  <2>1. Distinct(waiting)' /\ \A c \in SeqRange(waiting)' : calls'[c].at = "waiting"
    BY DEF Calling, OnePlace, SeqRange, Distinct
  <2>2. \A a \in batches' : Distinct(a.calls) /\ \A c \in SeqRange(a.calls) : calls'[c].at = "sent"
    BY DEF Calling, OnePlace, SeqRange, Distinct
  <2>3. \A b1, b2 \in batches' : b1 # b2 => SeqRange(b1.calls) \cap SeqRange(b2.calls) = {}
    <3>1. SeqRange(r.calls) = SeqRange(b.calls)
      BY DEF SeqRange
    <3> QED
      BY <3>1 DEF Calling, OnePlace
  <2> QED
    BY <2>1, <2>2, <2>3 DEF OnePlace, SeqRange, Distinct
<1>3. Replies'
  <2>1. lost > 0 => lost' > 0
    OBVIOUS
  <2>2. ASSUME NEW a \in batches'
        PROVE  /\ DOMAIN a.reply \subseteq DOMAIN a.calls
               /\ a.reply = <<>> \/ a.lost \/ DOMAIN a.reply = DOMAIN a.calls
               /\ a.lost => lost' > 0
               /\ \A i \in DOMAIN a.reply :
                    /\ a.reply[i].to = a.calls[i]
                    /\ calls[a.calls[i]].access /\ a.reply[i].denied => session = "expired"
    <3>1. CASE a = r
      BY <3>1
    <3>2. CASE a \in batches
      BY <2>1, <3>2 DEF Calling, Replies
    <3> QED
      BY <3>1, <3>2
  <2> QED
    BY <2>2 DEF Replies
<1>4. Entries(queue)'
  <2>1. OnTheWay' = OnTheWay
    BY DEF OnTheWay, SeqRange
  <2> QED
    BY <2>1 DEF Entries, CallOf
<1> QED
  BY <1>1, <1>2, <1>3, <1>4 DEF Calling

\* A batch is answered.
LEMMA ServeUnderway ==
  ASSUME Entries(queue), Calling, NEW b \in batches, Serve(b), lost \in Nat,
         session \in {"valid", "expired"}
  PROVE  Entries(queue)' /\ Calling'
<1>1. PICK denied \in SUBSET SeqRange(b.calls) :
        /\ \A i \in DOMAIN b.calls :
             /\ session = "expired" => b.calls[i] \in denied
             /\ session = "valid" /\ calls[b.calls[i]].access => b.calls[i] \notin denied
        /\ batches' = (batches \ {b}) \cup
             {[b EXCEPT !.reply = [i \in DOMAIN b.calls |->
                                     [to |-> b.calls[i], denied |-> b.calls[i] \in denied]]]}
  BY DEF Serve
<1> DEFINE reply == [i \in DOMAIN b.calls |-> [to |-> b.calls[i], denied |-> b.calls[i] \in denied]]
           r == [b EXCEPT !.reply = reply]
<1>2. b \in Batch /\ ~b.lost /\ b.calls \in Seq(Call)
  BY DEF Calling, CallTypes, Batch, Serve
<1>3. reply \in Seq(Answer)
  <2>1. PICK n \in Nat : DOMAIN b.calls = 1..n
    BY <1>2
  <2>2. \A i \in 1..n : [to |-> b.calls[i], denied |-> b.calls[i] \in denied] \in Answer
    BY <1>2, <2>1 DEF Answer
  <2> QED
    BY <2>1, <2>2
<1>4. /\ DOMAIN reply = DOMAIN b.calls
      /\ \A i \in DOMAIN reply :
           /\ reply[i].to = b.calls[i]
           /\ calls[b.calls[i]].access /\ reply[i].denied => session = "expired"
  BY <1>1
<1> HIDE DEF reply
<1>5. r \in Batch /\ r.calls = b.calls /\ r.reply = reply /\ ~r.lost
  BY <1>2, <1>3 DEF Batch
<1>6. batches' = (batches \ {b}) \cup {r}
  BY <1>1 DEF reply
<1> HIDE DEF r
<1>7. /\ queue' = queue /\ calls' = calls /\ waiting' = waiting
      /\ session' = session /\ lost' = lost
  BY DEF Serve, pollVars
<1> QED
  BY <1>4, <1>5, <1>6, <1>7, ReplyUnderway

\* The end of an answer is lost.
LEMMA LoseReplyUnderway ==
  ASSUME Entries(queue), Calling, NEW b \in batches, LoseReply(b), lost \in Nat
  PROVE  Entries(queue)' /\ Calling'
<1>1. PICK n \in 0..(Len(b.reply) - 1) :
        batches' = (batches \ {b}) \cup {[b EXCEPT !.reply = SubSeq(@, 1, n), !.lost = TRUE]}
  BY DEF LoseReply
<1> DEFINE reply == SubSeq(b.reply, 1, n)
           r == [b EXCEPT !.reply = reply, !.lost = TRUE]
<1>2. b \in Batch /\ b.calls \in Seq(Call) /\ b.reply \in Seq(Answer)
  BY DEF Calling, CallTypes, Batch
<1>3. /\ reply \in Seq(Answer) /\ DOMAIN reply \subseteq DOMAIN b.reply
      /\ \A i \in DOMAIN reply : reply[i] = b.reply[i]
  BY <1>2
<1>4. /\ DOMAIN reply \subseteq DOMAIN b.calls
      /\ \A i \in DOMAIN reply :
           /\ reply[i].to = b.calls[i]
           /\ calls[b.calls[i]].access /\ reply[i].denied => session = "expired"
  BY <1>3 DEF Calling, Replies
<1> HIDE DEF reply
<1>5. r \in Batch /\ r.calls = b.calls /\ r.reply = reply /\ r.lost
  BY <1>2, <1>3 DEF Batch
<1>6. batches' = (batches \ {b}) \cup {r}
  BY <1>1 DEF reply
<1> HIDE DEF r
<1>7. /\ queue' = queue /\ calls' = calls /\ waiting' = waiting
      /\ session' = session /\ lost' = lost + 1 /\ lost' > 0
  BY DEF LoseReply, pollVars
<1> QED
  BY <1>4, <1>5, <1>6, <1>7, ReplyUnderway

\* The calls of a batch that is answered rest, or wait once more to ask for access.
LEMMA ReceiveUnderway ==
  ASSUME Entries(queue), Calling, NEW b \in batches, Receive(b)
  PROVE  Entries(queue)' /\ Calling'
<1> DEFINE A == Asking(b)
           again == Selected(b.calls, A)
           again2 == {b.calls[i] : i \in A}
           done == {b.calls[i] : i \in DOMAIN b.calls \ A}
<1>0. batches' = batches \ {b} /\ session' = session /\ lost' = lost
  BY DEF Receive
<1>1. /\ calls' = [c \in Call |->
                     IF c \in done THEN Idle
                     ELSE IF \E i \in A : b.calls[i] = c
                       THEN [calls[c] EXCEPT !.at = "waiting", !.access = TRUE]
                       ELSE calls[c]]
      /\ waiting' = waiting \o again
      /\ queue' = [i \in DOMAIN queue |->
                     [queue[i] EXCEPT !.r = @ \/ CallOf(queue[i]) \in done]]
  BY DEF Receive, Settled, Ready
<1>2. /\ calls \in [Call -> [at : {"idle", "waiting", "sent"}, access : BOOLEAN]]
      /\ waiting \in Seq(Call) /\ batches \in SUBSET Batch
      /\ \A a \in batches : a.calls \in Seq(Call)
      /\ A \in SUBSET DOMAIN b.calls
  BY DEF Calling, CallTypes, Batch, Asking, Places
<1> HIDE DEF A
<1>3. /\ \A c \in SeqRange(waiting) : c \in Call /\ calls[c].at = "waiting"
      /\ \A a \in batches : \A c \in SeqRange(a.calls) : c \in Call /\ calls[c].at = "sent"
      /\ \A a \in batches : a # b => SeqRange(a.calls) \cap SeqRange(b.calls) = {}
      /\ \A a \in batches : Distinct(a.calls)
      /\ Distinct(waiting)
  <2>1. \A c \in SeqRange(waiting) : c \in Call
    BY <1>2 DEF SeqRange
  <2>2. \A a \in batches : \A c \in SeqRange(a.calls) : c \in Call
    BY <1>2 DEF SeqRange
  <2> QED
    BY <2>1, <2>2 DEF Calling, OnePlace
<1>4. /\ SeqRange(b.calls) = again2 \cup done /\ again2 \cap done = {}
      /\ again2 \subseteq Call
  BY <1>2, <1>3 DEF SeqRange, Distinct
<1>5. again \in Seq(Call) /\ Distinct(again) /\ SeqRange(again) = again2
  BY <1>2, <1>3, SelectedRange
<1>6. /\ \A c \in again2 : calls'[c].at = "waiting"
      /\ \A c \in Call \ SeqRange(b.calls) : calls'[c] = calls[c]
      /\ calls' \in [Call -> [at : {"idle", "waiting", "sent"}, access : BOOLEAN]]
  <2>1. \A c : c \in again2 <=> \E i \in A : b.calls[i] = c
    OBVIOUS
  <2> HIDE DEF again2, done
  <2>2. calls' = [c \in Call |->
                    IF c \in done THEN Idle
                    ELSE IF c \in again2
                      THEN [calls[c] EXCEPT !.at = "waiting", !.access = TRUE]
                      ELSE calls[c]]
    BY <1>1, <2>1
  <2>3. ASSUME NEW c \in Call
        PROVE  /\ [calls[c] EXCEPT !.at = "waiting", !.access = TRUE].at = "waiting"
               /\ [calls[c] EXCEPT !.at = "waiting", !.access = TRUE]
                    \in [at : {"idle", "waiting", "sent"}, access : BOOLEAN]
    <3> DEFINE call == calls[c]
               r == [call EXCEPT !.at = "waiting", !.access = TRUE]
    <3>1. call \in [at : {"idle", "waiting", "sent"}, access : BOOLEAN]
      BY <1>2
    <3> HIDE DEF call
    <3>2. r.at = "waiting" /\ r \in [at : {"idle", "waiting", "sent"}, access : BOOLEAN]
      BY <3>1
    <3> QED
      BY <3>2 DEF call
  <2> QED
    BY <1>2, <1>4, <2>2, <2>3 DEF Idle
<1> HIDE DEF again, again2, done
<1>7. /\ waiting' \in Seq(Call) /\ Distinct(waiting')
      /\ SeqRange(waiting') = SeqRange(waiting) \cup again2
  <2>1. SeqRange(waiting) \cap SeqRange(again) = {}
    BY <1>3, <1>4, <1>5
  <2>2. waiting \in Seq(Call) /\ Distinct(waiting) /\ waiting' = waiting \o again
    BY <1>1, <1>2, <1>3
  <2> QED
    BY <1>5, <2>1, <2>2, ConcatRange
<1>8. CallTypes'
  BY <1>0, <1>2, <1>6, <1>7 DEF CallTypes
<1>9. OnePlace'
  <2>1. \A c \in SeqRange(waiting') : calls'[c].at = "waiting"
    <3>1. \A c \in SeqRange(waiting) : c \notin SeqRange(b.calls)
      BY <1>3
    <3> QED
      BY <1>3, <1>6, <1>7, <3>1
  <2>2. \A a \in batches' : Distinct(a.calls) /\ \A c \in SeqRange(a.calls) : calls'[c].at = "sent"
    <3>1. \A a \in batches' : \A c \in SeqRange(a.calls) : calls'[c] = calls[c]
      BY <1>0, <1>3, <1>6
    <3> QED
      BY <1>0, <1>3, <3>1
  <2>3. \A b1, b2 \in batches' : b1 # b2 => SeqRange(b1.calls) \cap SeqRange(b2.calls) = {}
    BY <1>0 DEF Calling, OnePlace
  <2> QED
    BY <1>7, <2>1, <2>2, <2>3 DEF OnePlace, SeqRange, Distinct
<1>10. Replies'
  <2>1. \A a \in batches' : \A i \in DOMAIN a.calls : calls'[a.calls[i]] = calls[a.calls[i]]
    <3>1. \A a \in batches' : \A c \in SeqRange(a.calls) : calls'[c] = calls[c]
      BY <1>0, <1>3, <1>6
    <3> QED
      BY <3>1 DEF SeqRange
  <2> QED
    BY <1>0, <2>1 DEF Calling, Replies
<1>11. Entries(queue)'
  <2>0. DOMAIN queue' = DOMAIN queue
    BY <1>1
  <2>1. /\ queue \in Seq(Entry) /\ DOMAIN queue' = DOMAIN queue
        /\ \A i \in DOMAIN queue : queue[i] \in Entry
    BY <2>0 DEF Entries
  <2>2. ASSUME NEW i \in DOMAIN queue
        PROVE  /\ queue'[i] \in Entry /\ queue'[i].fn = queue[i].fn /\ queue'[i].n = queue[i].n
               /\ queue'[i].r = (queue[i].r \/ CallOf(queue[i]) \in done)
    <3> DEFINE r == queue[i].r \/ CallOf(queue[i]) \in done
    <3>1. queue'[i] = [queue[i] EXCEPT !.r = r] /\ r \in BOOLEAN
      BY <1>1
    <3> HIDE DEF r
    <3>2. /\ queue'[i] \in Entry /\ queue'[i].fn = queue[i].fn /\ queue'[i].n = queue[i].n
          /\ queue'[i].r = r
      BY <2>1, <3>1 DEF Entry
    <3> QED
      BY <3>2 DEF r
  <2>3. queue' \in Seq(Entry)
    <3>1. PICK n \in Nat : DOMAIN queue = 1..n
      BY <2>1
    <3>2. queue' = [i \in 1..n |-> queue'[i]]
      BY <1>1, <3>1
    <3> QED
      BY <2>2, <3>1, <3>2
  <2>4. \A i \in DOMAIN queue : CallOf(queue'[i]) = CallOf(queue[i])
    BY <2>2 DEF CallOf
  <2>5. \A i, j \in DOMAIN queue' : queue'[i].fn = queue'[j].fn => i = j
    BY <2>1, <2>2 DEF Entries
  <2>6. OnTheWay \subseteq OnTheWay' \cup done
    BY <1>0, <1>4, <1>7 DEF OnTheWay
  <2>7. \A i \in DOMAIN queue' : queue'[i].r \/ CallOf(queue'[i]) \in OnTheWay'
    BY <2>1, <2>2, <2>4, <2>6 DEF Entries
  <2> QED
    BY <2>1, <2>3, <2>4, <2>5, <2>7 DEF Entries, CallOf
<1> QED
  BY <1>8, <1>9, <1>10, <1>11 DEF Calling

\* The page takes the session for expired on its own denial only.
LEMMA RefusedIsReal ==
  ASSUME Calling, NEW b \in batches, b.reply # <<>> \/ b.lost, Refused(b) # {}
  PROVE  session = "expired" \/ lost > 0
<1>1. PICK i \in Places(b, TRUE) : AnswerTo(b, i) = {} \/ IsDenied(b, i)
  BY DEF Refused
<1>2. i \in DOMAIN b.calls /\ calls[b.calls[i]].access
  BY DEF Places
<1>3. CASE b.lost
  BY <1>3 DEF Calling, Replies
<1>4. CASE ~b.lost
  <2>1. i \in DOMAIN b.reply
    BY <1>2, <1>4 DEF Calling, Replies
  <2>2. b.reply[i].denied
    BY <1>1, <2>1 DEF AnswerTo, IsDenied
  <2> QED
    BY <1>2, <2>1, <2>2 DEF Calling, Replies
<1> QED
  BY <1>3, <1>4

Underway ==
  /\ Entries(queue) /\ Calling /\ ExpiryIsReal
  /\ lost \in Nat /\ session \in {"valid", "expired"}

\* Nothing is under way at first.
LEMMA InitUnderway ==
  ASSUME RuntimeInit
  PROVE  Underway
<1>1. /\ queue = <<>> /\ calls = [c \in Call |-> Idle] /\ waiting = <<>> /\ batches = {}
      /\ session = "valid" /\ expired = FALSE /\ lost = 0
  BY DEF RuntimeInit
<1>2. DOMAIN queue = {} /\ queue \in Seq(Entry) /\ DOMAIN waiting = {} /\ waiting \in Seq(Call)
  BY <1>1
<1>3. Entries(queue)
  BY <1>2 DEF Entries
<1>4. CallTypes
  BY <1>1, <1>2 DEF CallTypes, Idle
<1>5. OnePlace
  BY <1>1, <1>2 DEF OnePlace, Distinct, SeqRange
<1>6. Replies /\ ExpiryIsReal
  BY <1>1 DEF Replies, ExpiryIsReal
<1> QED
  BY <1>1, <1>3, <1>4, <1>5, <1>6 DEF Underway, Calling

\* Whatever is called, sent, answered or lost.
LEMMA NextUnderway ==
  ASSUME Underway, [RuntimeNext]_runtimeVars
  PROVE  Underway'
<1>1. /\ Entries(queue) /\ Calling /\ ExpiryIsReal
      /\ lost \in Nat /\ session \in {"valid", "expired"}
  BY DEF Underway
<1>2. CASE StartPoll
  <2>1. /\ Starts(queue) /\ UNCHANGED <<batches, session, expired, lost>>
    BY <1>2 DEF StartPoll
  <2> QED
    BY <1>1, <2>1, StartsUnderway DEF Underway, ExpiryIsReal
<1>3. CASE StopPoll
  <2>1. queue' = queue /\ UNCHANGED <<rpcVars, session, expired, lost>>
    BY <1>3 DEF StopPoll
  <2>2. Calling' /\ OnTheWay' = OnTheWay
    BY <1>1, <2>1, SameCalls
  <2> QED
    BY <1>1, <2>1, <2>2 DEF Underway, ExpiryIsReal, Entries, CallOf
<1>4. CASE Ticks
  <2>1. Step(queue, tick) /\ UNCHANGED <<batches, session, expired, lost>>
    BY <1>4 DEF Ticks
  <2> QED
    BY <1>1, <2>1, StepUnderway DEF Underway, Calling, ExpiryIsReal
<1>5. CASE PageCall
  <2>1. UNCHANGED <<session, expired, lost>>
    BY <1>5 DEF PageCall
  <2> QED
    BY <1>1, <1>5, <2>1, PageCallUnderway DEF Underway, ExpiryIsReal
<1>6. CASE Flush
  <2>1. UNCHANGED <<session, expired, lost>>
    BY <1>6 DEF Flush
  <2> QED
    BY <1>1, <1>6, <2>1, FlushUnderway DEF Underway, ExpiryIsReal
<1>7. CASE Expire
  <2>1. UNCHANGED <<queue, rpcVars, expired, lost>> /\ session' = "expired"
    BY <1>7 DEF Expire, pollVars
  <2>2. Calling' /\ OnTheWay' = OnTheWay
    BY <1>1, <2>1, SameCalls
  <2> QED
    BY <1>1, <2>1, <2>2 DEF Underway, ExpiryIsReal, Entries, CallOf
<1>8. CASE \E f \in Fn : AddPoll(f)
  <2>1. PICK f \in Fn : AddPoll(f)
    BY <1>8
  <2>2. UNCHANGED <<session, expired, lost>>
    BY <2>1 DEF AddPoll
  <2> QED
    BY <1>1, <2>1, <2>2, AddUnderway DEF Underway, ExpiryIsReal
<1>9. CASE \E f \in Fn : RemovePoll(f)
  <2>1. PICK f \in Fn : RemovePoll(f)
    BY <1>9
  <2>2. UNCHANGED <<session, expired, lost>>
    BY <2>1 DEF RemovePoll
  <2> QED
    BY <1>1, <2>1, <2>2, RemoveUnderway DEF Underway, ExpiryIsReal
<1>10. CASE \E b \in batches : Serve(b)
  <2>1. PICK b \in batches : Serve(b)
    BY <1>10
  <2>2. UNCHANGED <<session, expired, lost>>
    BY <2>1 DEF Serve
  <2> QED
    BY <1>1, <2>1, <2>2, ServeUnderway DEF Underway, ExpiryIsReal
<1>11. CASE \E b \in batches : LoseReply(b)
  <2>1. PICK b \in batches : LoseReply(b)
    BY <1>11
  <2>2. UNCHANGED <<session, expired>> /\ lost' = lost + 1
    BY <2>1 DEF LoseReply
  <2>3. lost' \in Nat /\ lost' > 0
    BY <1>1, <2>2
  <2> QED
    BY <1>1, <2>1, <2>2, <2>3, LoseReplyUnderway DEF Underway, ExpiryIsReal
<1>12. CASE \E b \in batches : Receive(b)
  <2>1. PICK b \in batches : Receive(b)
    BY <1>12
  <2>2. /\ UNCHANGED <<session, lost>> /\ expired' = (expired \/ Refused(b) # {})
        /\ b.reply # <<>> \/ b.lost
    BY <2>1 DEF Receive
  <2>3. ExpiryIsReal'
    BY <1>1, <2>2, RefusedIsReal DEF ExpiryIsReal
  <2> QED
    BY <1>1, <2>1, <2>2, <2>3, ReceiveUnderway DEF Underway
<1>13. CASE UNCHANGED runtimeVars
  <2>1. UNCHANGED <<queue, rpcVars, session, expired, lost>>
    BY <1>13 DEF runtimeVars, pollVars
  <2>2. Calling' /\ OnTheWay' = OnTheWay
    BY <1>1, <2>1, SameCalls
  <2> QED
    BY <1>1, <2>1, <2>2 DEF Underway, ExpiryIsReal, Entries, CallOf
<1> QED
  BY <1>2, <1>3, <1>4, <1>5, <1>6, <1>7, <1>8, <1>9, <1>10, <1>11, <1>12, <1>13 DEF RuntimeNext

\* Whatever becomes of batches and replies, every call gets its own answer, no
\* polled function is left out for good, and the page says that the session has
\* expired only if it has, or if a reply was lost (rpc.js, luci.js).
THEOREM EveryCallAnswered ==
  RuntimeSpec => []CallsAreAnswered
<1>1. Underway => CallsAreAnswered
  <2>1. ASSUME Underway
        PROVE  AnswersFit
    BY <2>1 DEF Underway, Calling, Replies, AnswersFit, AnswerTo
  <2>2. ASSUME Underway
        PROVE  NoneLeftOut
    BY <2>2 DEF Underway, Entries, OnTheWay, NoneLeftOut
  <2> QED
    BY <2>1, <2>2 DEF CallsAreAnswered, Underway
<1> QED
  BY <1>1, InitUnderway, NextUnderway, PTL DEF RuntimeSpec

-----------------------------------------------------------------------------
(* The runtime: polling that was stopped                                   *)

\* Without its timer, polling either has not begun or was stopped.
TimerFits == timer \/ tick \in {0, Undefined}

\* Polling that was stopped, by the user or because the session has expired,
\* goes on only when the user starts it (luci.js).
THEOREM StoppedStays ==
  RuntimeSpec => StaysStopped
<1> DEFINE Resumes == timer' /\ ~timer => StartPoll \/ \E f \in Fn : tick = 0 /\ AddPoll(f)
<1>1. RuntimeInit => TimerFits
  BY DEF RuntimeInit, TimerFits
<1>2. TimerFits /\ [RuntimeNext]_runtimeVars => TimerFits'
  <2> SUFFICES ASSUME TimerFits, [RuntimeNext]_runtimeVars, ~timer'
               PROVE  tick' \in {0, Undefined}
    BY DEF TimerFits
  <2>1. ASSUME NEW q, Starts(q)
        PROVE  tick' = 0
    BY <2>1 DEF Starts
  <2>2. CASE StartPoll
    BY <2>1, <2>2 DEF StartPoll
  <2>3. ASSUME NEW f \in Fn, AddPoll(f)
        PROVE  tick' \in {0, Undefined}
    BY <2>1, <2>3 DEF AddPoll, TimerFits
  <2>4. ASSUME NEW f \in Fn, RemovePoll(f)
        PROVE  tick' \in {0, Undefined}
    BY <2>4 DEF RemovePoll, TimerFits
  <2>5. ASSUME NEW b \in batches, Receive(b)
        PROVE  tick' \in {0, Undefined}
    BY <2>5 DEF Receive, Stopped, TimerFits
  <2>6. CASE StopPoll
    BY <2>6 DEF StopPoll, Stopped
  <2>7. CASE Ticks
    BY <2>7 DEF Ticks, TimerFits
  <2>8. CASE UNCHANGED <<tick, timer>>
    BY <2>8 DEF TimerFits
  <2>9. PageCall \/ Flush \/ Expire \/ (\E b \in batches : Serve(b) \/ LoseReply(b))
           \/ UNCHANGED runtimeVars => UNCHANGED <<tick, timer>>
    BY DEF PageCall, Flush, Expire, Serve, LoseReply, runtimeVars, pollVars
  <2> QED
    BY <2>2, <2>3, <2>4, <2>5, <2>6, <2>7, <2>8, <2>9 DEF RuntimeNext
<1>3. TimerFits /\ [RuntimeNext]_runtimeVars => [Resumes]_runtimeVars
  <2> SUFFICES ASSUME TimerFits, RuntimeNext, timer', ~timer
               PROVE  StartPoll \/ \E f \in Fn : tick = 0 /\ AddPoll(f)
    BY DEF runtimeVars, pollVars
  <2>1. timer' # timer
    OBVIOUS
  <2>2. StartPoll \/ (\E f \in Fn : AddPoll(f)) \/ \E b \in batches : Receive(b)
    BY <2>1 DEF RuntimeNext, StopPoll, Ticks, PageCall, Flush, Expire, RemovePoll, Serve,
                LoseReply, Stopped, pollVars
  <2>3. ASSUME NEW f \in Fn, AddPoll(f)
        PROVE  tick = 0
    BY <2>1, <2>3 DEF TimerFits, AddPoll
  <2>4. ASSUME NEW b \in batches, Receive(b)
        PROVE  FALSE
    BY <2>1, <2>4 DEF Receive
  <2> QED
    BY <2>2, <2>3, <2>4
<1> QED
  BY <1>1, <1>2, <1>3, PTL DEF RuntimeSpec, StaysStopped

-----------------------------------------------------------------------------
(* The runtime: types                                                      *)

Timing ==
  /\ tick \in {Undefined} \cup 0..(Wrap - 1) /\ timer \in BOOLEAN
  /\ timer => tick # Undefined
  /\ session \in {"valid", "expired"} /\ expired \in BOOLEAN /\ lost \in 0..MaxLost

\* The tick stays a number below the one where it wraps.
LEMMA StepTiming ==
  ASSUME NEW q, NEW t \in Nat, Step(q, t)
  PROVE  tick' \in 0..(Wrap - 1) /\ tick' # Undefined
<1>1. Wrap \in Nat /\ Wrap > 0
  BY RuntimeAssumption
<1>2. t + 1 \in Nat /\ tick' = (t + 1) % Wrap
  <2>1. tick' = (t + 1) % Wrap
    BY DEF Step
  <2> QED
    BY <2>1
<1>3. (t + 1) % Wrap \in 0..(Wrap - 1)
  BY <1>1, <1>2
<1> QED
  BY <1>1, <1>2, <1>3 DEF Undefined

\* Whatever happens, so does the tick.
LEMMA NextTiming ==
  ASSUME Timing, [RuntimeNext]_runtimeVars
  PROVE  Timing'
<1>1. Wrap \in Nat /\ Wrap > 0 /\ MaxLost \in Nat
  BY RuntimeAssumption
<1>2. 0 \in 0..(Wrap - 1) /\ 0 # Undefined
  BY <1>1 DEF Undefined
<1>3. timer => tick \in Nat
  BY <1>1 DEF Timing, Undefined
<1>4. ASSUME NEW q, Starts(q)
      PROVE  /\ tick' \in {Undefined} \cup 0..(Wrap - 1)
             /\ timer' \in BOOLEAN /\ (timer' => tick' # Undefined)
  <2>1. CASE q = <<>>
    BY <1>2, <1>4, <2>1 DEF Starts, Timing
  <2>2. CASE q # <<>>
    <3>1. timer' = TRUE /\ Step(q, 0)
      BY <1>4, <2>2 DEF Starts
    <3> QED
      BY <3>1, StepTiming
  <2> QED
    BY <2>1, <2>2
<1>5. CASE StartPoll
  BY <1>4, <1>5 DEF StartPoll, Timing
<1>6. ASSUME NEW f \in Fn, AddPoll(f)
      PROVE  Timing'
  BY <1>4, <1>6 DEF AddPoll, Timing
<1>7. ASSUME NEW f \in Fn, RemovePoll(f)
      PROVE  Timing'
  BY <1>2, <1>7 DEF RemovePoll, Timing
<1>8. CASE Ticks
  <2>1. /\ timer /\ Step(queue, tick) /\ UNCHANGED <<timer, session, expired, lost>>
    BY <1>8 DEF Ticks
  <2>2. tick' \in 0..(Wrap - 1) /\ tick' # Undefined
    BY <1>3, <2>1, StepTiming
  <2> QED
    BY <2>1, <2>2 DEF Timing
<1>9. CASE StopPoll
  BY <1>9 DEF StopPoll, Stopped, Timing
<1>10. CASE Expire
  BY <1>10 DEF Expire, Timing, pollVars
<1>11. ASSUME NEW b \in batches, LoseReply(b)
       PROVE  Timing'
  <2>1. lost' \in 0..MaxLost
    BY <1>1, <1>11 DEF LoseReply, Timing
  <2> QED
    BY <1>11, <2>1 DEF LoseReply, Timing, pollVars
<1>12. ASSUME NEW b \in batches, Receive(b)
       PROVE  Timing'
  BY <1>12 DEF Receive, Timing, Stopped
<1>13. CASE UNCHANGED <<tick, timer, session, expired, lost>>
  BY <1>13 DEF Timing
<1>14. PageCall \/ Flush \/ (\E b \in batches : Serve(b)) \/ UNCHANGED runtimeVars
         => UNCHANGED <<tick, timer, session, expired, lost>>
  BY DEF PageCall, Flush, Serve, runtimeVars, pollVars
<1> QED
  BY <1>5, <1>6, <1>7, <1>8, <1>9, <1>10, <1>11, <1>12, <1>13, <1>14 DEF RuntimeNext

\* The variables of the runtime have their types.
THEOREM RuntimeTypes ==
  RuntimeSpec => []RuntimeTypeOK
<1>1. RuntimeInit => Timing
  <2>1. 0 \in 0..(Wrap - 1) /\ 0 \in 0..MaxLost
    BY RuntimeAssumption
  <2> QED
    BY <2>1 DEF RuntimeInit, Timing
<1>2. Underway /\ Timing => RuntimeTypeOK
  BY DEF Underway, Calling, CallTypes, Entries, Timing, RuntimeTypeOK
<1> QED
  BY <1>1, <1>2, InitUnderway, NextUnderway, NextTiming, PTL DEF RuntimeSpec

-----------------------------------------------------------------------------
(* The configuration cache: sections and their indices                     *)

\* What sections() lists.
Shown == Existing \cup DOMAIN creates

Keys == [s \in Shown |-> IndexOf(s)]

Contents == [s \in Shown |-> SectionOf(s)]

\* rpcd has sections that have names of their own.
DeviceFits == device \in Seq(Section) /\ DistinctNames(device)

NewSection(e) ==
  /\ e = [opts |-> e.opts, index |-> e.index, name |-> e.name]
  /\ e.opts \in Opts /\ e.index \in Nat

Overlays ==
  /\ newidx \in Nat
  /\ DOMAIN values \subseteq Name
  /\ values \in [DOMAIN values -> [opts : Opts, index : Nat]]
  /\ DOMAIN creates \subseteq 0..(newidx - 1)
  /\ creates = [s \in DOMAIN creates |-> creates[s]]
  /\ \A s \in DOMAIN creates : NewSection(creates[s])
  /\ changes \in [Name -> Opts] /\ deletes \in [Name -> SUBSET (Option \cup {"whole"})]

\* Each section has an index of its own, and the next one that is created comes last.
Indexed ==
  /\ \A s \in Shown : IndexOf(s) < NewIndex
  /\ \A s, t \in Shown : IndexOf(s) = IndexOf(t) => s = t

\* What is to be loaded is not edited.
Blank ==
  /\ values = EmptyFunction /\ creates = EmptyFunction
  /\ changes = [s \in Name |-> Unset] /\ deletes = [s \in Name |-> {}]

\* What is sent to be ordered is a sequence.
Listed(names) == names \in Seq({names[i] : i \in DOMAIN names})

CacheFits ==
  DeviceFits /\ Overlays /\ Indexed /\ (loaded # "here" => Blank) /\ Listed(order)

\* Who comes before whom makes a list.
LEMMA ListRanks ==
  ASSUME NEW S, NEW key \in [S -> Int], NEW n, NEW seq, Lists(seq, n, S, key),
         NEW k \in 1..n
  PROVE  /\ seq[k] \in S /\ Rank(S, key, seq[k]) = k - 1
         /\ \A s \in S : Rank(S, key, s) = k - 1 => s = seq[k]
<1>1. n \in Nat /\ seq \in [1..n -> S] /\ \A s \in S : \E l \in 1..n : seq[l] = s
  BY DEF Lists
<1>2. ASSUME NEW l \in 1..n
      PROVE  Rank(S, key, seq[l]) = l - 1
  <2>1. IsFiniteSet(S) /\ Cardinality(S) = n /\ ByKey(S, key) = seq
    BY ListsUnique
  <2>2. \A s, t \in S : key[s] = key[t] => s = t
    BY ListsKeys
  <2>3. \E s \in S : Rank(S, key, s) = l - 1
    BY <2>1, <2>2, RankOnto
  <2>4. ByKey(S, key)[l] = CHOOSE s \in S : Rank(S, key, s) = l - 1
    BY <2>1 DEF ByKey
  <2> QED
    BY <2>1, <2>3, <2>4
<1>3. \A s \in S : Rank(S, key, s) = k - 1 => s = seq[k]
  <2> SUFFICES ASSUME NEW s \in S, Rank(S, key, s) = k - 1
               PROVE  s = seq[k]
    OBVIOUS
  <2>1. PICK l \in 1..n : seq[l] = s
    BY <1>1
  <2>2. l - 1 = k - 1
    BY <1>2, <2>1
  <2> QED
    BY <1>1, <2>1, <2>2
<1> QED
  BY <1>1, <1>2, <1>3

\* sections() in terms of a list.
LEMMA SectionsAre ==
  ASSUME NEW n, NEW seq, Lists(seq, n, Shown, Keys), Keys \in [Shown -> Int]
  PROVE  Sections = seq
<1> DEFINE S == Shown
<1>1. n \in Nat /\ seq \in [1..n -> S] /\ Cardinality(S) = n
  <2>1. n \in Nat /\ seq \in [1..n -> S]
    BY DEF Lists
  <2>2. Cardinality(S) = n
    BY ListsUnique
  <2> QED
    BY <2>1, <2>2
<1>2. \A s \in S : {t \in S : IndexOf(t) < IndexOf(s)} = {t \in S : Keys[t] < Keys[s]}
  BY DEF Keys
<1>3. ASSUME NEW k \in 1..n
      PROVE  (CHOOSE s \in S : Cardinality({t \in S : IndexOf(t) < IndexOf(s)}) = k - 1) = seq[k]
  <2> DEFINE count(s) == Cardinality({t \in S : IndexOf(t) < IndexOf(s)})
  <2>1. \A s \in S : count(s) = Rank(S, Keys, s)
    BY <1>2 DEF Rank
  <2>2. /\ seq[k] \in S /\ Rank(S, Keys, seq[k]) = k - 1
        /\ \A s \in S : Rank(S, Keys, s) = k - 1 => s = seq[k]
    BY ListRanks
  <2>3. seq[k] \in S /\ count(seq[k]) = k - 1 /\ \A s \in S : count(s) = k - 1 => s = seq[k]
    BY <2>1, <2>2
  <2> HIDE DEF count
  <2>4. (CHOOSE s \in S : count(s) = k - 1) = seq[k]
    BY <2>3
  <2> QED
    BY <2>4 DEF count
<1>4. Sections = [k \in 1..n |->
                    CHOOSE s \in S : Cardinality({t \in S : IndexOf(t) < IndexOf(s)}) = k - 1]
  BY <1>1 DEF Sections, Sorted, Shown
<1> HIDE DEF S
<1> QED
  BY <1>1, <1>3, <1>4

\* The same in the next state.
LEMMA NextSectionsAre ==
  ASSUME NEW n, NEW seq, Lists(seq, n, Shown', Keys'), Keys' \in [Shown' -> Int]
  PROVE  Sections' = seq
<1> DEFINE S == Shown'
<1>1. n \in Nat /\ seq \in [1..n -> S] /\ Cardinality(S) = n
  <2>1. n \in Nat /\ seq \in [1..n -> S]
    BY DEF Lists
  <2>2. Cardinality(S) = n
    BY ListsUnique
  <2> QED
    BY <2>1, <2>2
<1>2. \A s \in S : {t \in S : IndexOf(t)' < IndexOf(s)'} = {t \in S : Keys'[t] < Keys'[s]}
  BY DEF Keys
<1>3. ASSUME NEW k \in 1..n
      PROVE  (CHOOSE s \in S : Cardinality({t \in S : IndexOf(t)' < IndexOf(s)'}) = k - 1) = seq[k]
  <2> DEFINE count(s) == Cardinality({t \in S : IndexOf(t)' < IndexOf(s)'})
  <2>1. \A s \in S : count(s) = Rank(S, Keys', s)
    BY <1>2 DEF Rank
  <2>2. /\ seq[k] \in S /\ Rank(S, Keys', seq[k]) = k - 1
        /\ \A s \in S : Rank(S, Keys', s) = k - 1 => s = seq[k]
    BY ListRanks
  <2>3. seq[k] \in S /\ count(seq[k]) = k - 1 /\ \A s \in S : count(s) = k - 1 => s = seq[k]
    BY <2>1, <2>2
  <2> HIDE DEF count
  <2>4. (CHOOSE s \in S : count(s) = k - 1) = seq[k]
    BY <2>3
  <2> QED
    BY <2>4 DEF count
<1>4. Sections' = [k \in 1..n |->
                     CHOOSE s \in S : Cardinality({t \in S : IndexOf(t)' < IndexOf(s)'}) = k - 1]
  BY <1>1 DEF Sections, Sorted, Shown
<1> HIDE DEF S
<1> QED
  BY <1>1, <1>3, <1>4

\* sections() lists what is shown, and the page sees each of them.
LEMMA SectionsList ==
  ASSUME Overlays, Indexed
  PROVE  /\ IsFiniteSet(Shown) /\ Cardinality(Shown) <= NewIndex
         /\ Keys \in [Shown -> Int]
         /\ Lists(Sections, Cardinality(Shown), Shown, Keys)
         /\ View = [i \in 1..Cardinality(Shown) |-> Contents[Sections[i]]]
<1>1. /\ newidx \in Nat /\ Existing \subseteq Name /\ DOMAIN creates \subseteq 0..(newidx - 1)
      /\ \A s \in Existing : s \in DOMAIN values
  BY DEF Overlays, Existing
<1>2. IsFiniteSet(Shown) /\ Cardinality(Shown) <= NewIndex
  <2> DEFINE N == 0..(newidx - 1)
  <2>1. IsFiniteSet(N) /\ Cardinality(N) = newidx
    <3>1. 0 \in Int /\ newidx - 1 \in Int
      BY <1>1
    <3>2. /\ IsFiniteSet(N)
          /\ Cardinality(N) = IF 0 > newidx - 1 THEN 0 ELSE (newidx - 1) - 0 + 1
      BY <3>1, FS_Interval
    <3> QED
      BY <1>1, <3>2
  <2>2. IsFiniteSet(Name) /\ Cardinality(Name) <= 1000 /\ Cardinality(Name) \in Nat
    BY NameAssumption, FS_CardinalityType
  <2> HIDE DEF N
  <2>3. /\ IsFiniteSet(Name \cup N)
        /\ Cardinality(Name \cup N) = Cardinality(Name) + Cardinality(N) - Cardinality(Name \cap N)
    BY <2>1, <2>2, FS_Union
  <2>4. Cardinality(Name \cap N) \in Nat
    BY <2>1, <2>2, FS_Intersection, FS_CardinalityType
  <2>5. Shown \in SUBSET (Name \cup N)
    BY <1>1 DEF Shown, N
  <2>6. IsFiniteSet(Shown) /\ Cardinality(Shown) <= Cardinality(Name \cup N)
    BY <2>3, <2>5, FS_Subset
  <2>7. Cardinality(Shown) \in Nat /\ Cardinality(Name \cup N) \in Nat
    BY <2>3, <2>6, FS_CardinalityType
  <2> QED
    BY <1>1, <2>1, <2>2, <2>3, <2>4, <2>6, <2>7 DEF NewIndex
<1>3. Keys \in [Shown -> Int]
  <2>1. \A s \in Shown : IndexOf(s) \in Int
    BY <1>1 DEF Overlays, Shown, IndexOf, NewSection
  <2> QED
    BY <2>1 DEF Keys
<1>4. \A s, t \in Shown : Keys[s] = Keys[t] => s = t
  BY DEF Indexed, Keys
<1>5. Lists(ByKey(Shown, Keys), Cardinality(Shown), Shown, Keys)
  BY <1>2, <1>3, <1>4, ByKeyLists
<1>6. Sections = ByKey(Shown, Keys)
  BY <1>3, <1>5, SectionsAre
<1>7. DOMAIN Sections = 1..Cardinality(Shown)
  BY <1>5, <1>6 DEF Lists
<1>8. \A i \in 1..Cardinality(Shown) : Contents[Sections[i]] = SectionOf(Sections[i])
  BY <1>5, <1>6 DEF Lists, Contents
<1> QED
  BY <1>2, <1>3, <1>5, <1>6, <1>7, <1>8 DEF View

\* What the page sees next.
LEMMA NextView ==
  ASSUME NEW n, NEW seq, Lists(seq, n, Shown', Keys'), Keys' \in [Shown' -> Int]
  PROVE  View' = [i \in 1..n |-> Contents'[seq[i]]]
<1>1. Sections' = seq
  BY NextSectionsAre
<1>2. DOMAIN seq = 1..n /\ \A i \in 1..n : seq[i] \in Shown'
  BY DEF Lists
<1> QED
  BY <1>1, <1>2 DEF View, Contents

\* A name is not the number of a section the page has created.
LEMMA Apart ==
  ASSUME Overlays
  PROVE  /\ \A s \in Existing : /\ s \in Name /\ s \in DOMAIN values
                                /\ s \notin DOMAIN creates /\ "whole" \notin deletes[s]
         /\ \A s \in DOMAIN creates : s \in 0..(newidx - 1) /\ s \notin Name /\ s \notin Existing
<1>1. \A s \in DOMAIN creates : s \in 0..(newidx - 1) /\ s \in Int
  BY DEF Overlays
<1>2. \A s \in Existing : s \in Name /\ s \in DOMAIN values /\ "whole" \notin deletes[s]
  BY DEF Overlays, Existing
<1> QED
  BY <1>1, <1>2, NameAssumption

\* Sections that keep their indices keep their order.
LEMMA SameOrder ==
  ASSUME Overlays, Indexed, Shown' = Shown, newidx' = newidx,
         \A s \in Shown : IndexOf(s)' = IndexOf(s)
  PROVE  /\ Indexed' /\ Sections' = Sections
         /\ View' = [i \in 1..Cardinality(Shown) |-> Contents'[Sections[i]]]
<1>1. Keys' = Keys
  BY DEF Keys
<1>2. Lists(Sections, Cardinality(Shown), Shown', Keys') /\ Keys' \in [Shown' -> Int]
  BY <1>1, SectionsList
<1>3. Indexed'
  BY DEF Indexed, NewIndex
<1> QED
  BY <1>2, <1>3, NextView, NextSectionsAre

\* The same sections with the same options have the same contents.
LEMMA SameContents ==
  ASSUME Shown' = Shown, \A s \in Shown, w \in Option : Get(s, w)' = Get(s, w)
  PROVE  Contents' = Contents
<1>1. \A s \in Shown : [w \in Option |-> Get(s, w)'] = [w \in Option |-> Get(s, w)]
  OBVIOUS
<1> QED
  BY <1>1 DEF Contents, SectionOf

\* With the same places too, they are the same view.
LEMMA SameView ==
  ASSUME Overlays, Indexed, Shown' = Shown, newidx' = newidx,
         \A s \in Shown : IndexOf(s)' = IndexOf(s),
         \A s \in Shown, w \in Option : Get(s, w)' = Get(s, w)
  PROVE  Indexed' /\ View' = View
<1>1. /\ Indexed'
      /\ View' = [i \in 1..Cardinality(Shown) |-> Contents'[Sections[i]]]
  BY SameOrder
<1>2. View = [i \in 1..Cardinality(Shown) |-> Contents[Sections[i]]]
  BY SectionsList
<1>3. Contents' = Contents
  BY SameContents
<1> QED
  BY <1>1, <1>2, <1>3

\* A section that is created comes last.
LEMMA CreateStep ==
  ASSUME Overlays, Indexed, NEW x0 \in Opts, Create(x0), UNCHANGED <<values, changes, deletes>>
  PROVE  Overlays' /\ Indexed' /\ Document!AddSection(View, View')
<1> DEFINE n == Cardinality(Shown)
           e == [opts |-> x0, index |-> NewIndex, name |-> None]
<1> PICK id : id = newidx
  OBVIOUS
<1>1. /\ id \in Nat /\ newidx = id /\ newidx' = id + 1
      /\ NewIndex \in Nat /\ NewIndex' = NewIndex + 1
      /\ DOMAIN creates' = DOMAIN creates \cup {id}
      /\ creates' = [s \in DOMAIN creates' |-> creates'[s]]
      /\ creates'[id] = e
      /\ \A s \in DOMAIN creates : s # id => creates'[s] = creates[s]
  BY DEF Create, Overlays, NewIndex
<1>2. NewSection(e) /\ e.index = NewIndex
  BY <1>1 DEF NewSection
<1> HIDE DEF e
<1>3. id \notin Shown /\ id \notin DOMAIN creates /\ id \notin Name
  <2>1. id \notin 0..(newidx - 1) /\ id \in Int
    BY <1>1
  <2> QED
    BY <2>1, Apart, NameAssumption DEF Shown
<1>4. Overlays'
  <2>1. DOMAIN creates' \subseteq 0..(newidx' - 1)
    <3>1. 0..(newidx - 1) \subseteq 0..(newidx' - 1) /\ id \in 0..(newidx' - 1)
      BY <1>1
    <3> QED
      BY <1>1, <3>1 DEF Overlays
  <2>2. \A s \in DOMAIN creates' : NewSection(creates'[s])
    BY <1>1, <1>2 DEF Overlays
  <2> QED
    BY <1>1, <2>1, <2>2 DEF Overlays, NewSection
<1>5. Existing' = Existing /\ Shown' = Shown \cup {id}
  BY <1>1 DEF Existing, Shown
<1>6. /\ \A s \in Shown : s \in DOMAIN creates' <=> s \in DOMAIN creates
      /\ \A s \in DOMAIN creates : creates'[s] = creates[s]
  BY <1>1, <1>3
<1>7. /\ n \in Nat /\ Keys \in [Shown -> Int] /\ Lists(Sections, n, Shown, Keys)
      /\ View = [i \in 1..n |-> Contents[Sections[i]]]
  BY SectionsList DEF Lists
<1> DEFINE seq == [i \in 1..(n + 1) |-> IF i = n + 1 THEN id ELSE Sections[i]]
<1> HIDE DEF n
<1>8. /\ \A s \in Shown : Keys'[s] = Keys[s] /\ Keys[s] \in Int /\ Keys[s] < NewIndex
      /\ Keys'[id] = NewIndex
      /\ Keys' \in [Shown' -> Int]
  <2>1. \A s \in Shown : Keys[s] \in Int /\ Keys[s] < NewIndex
    BY <1>7 DEF Keys, Indexed
  <2>2. \A s \in Shown : Keys'[s] = Keys[s]
    BY <1>5, <1>6 DEF Keys, IndexOf
  <2>3. Keys'[id] = NewIndex
    BY <1>1, <1>2, <1>5 DEF Keys, IndexOf
  <2>4. Keys' = [s \in Shown' |-> Keys'[s]]
    BY DEF Keys
  <2>5. \A s \in Shown' : Keys'[s] \in Int
    BY <1>1, <1>5, <2>1, <2>2, <2>3
  <2> QED
    BY <2>1, <2>2, <2>3, <2>4, <2>5
<1>9. /\ \A s \in Shown : Contents'[s] = Contents[s] /\ Contents[s].name = s
      /\ Contents'[id].name = id
  <2>1. \A s \in Shown, w \in Option : Get(s, w)' = Get(s, w)
    BY <1>6 DEF Get
  <2>2. \A s \in Shown : [w \in Option |-> Get(s, w)'] = [w \in Option |-> Get(s, w)]
    BY <2>1
  <2> QED
    BY <1>5, <2>2 DEF Contents, SectionOf
<1>10. Lists(seq, n + 1, Shown', Keys')
  <2>1. /\ \A i \in 1..n : Sections[i] \in Shown
        /\ \A s \in Shown : \E k \in 1..n : Sections[k] = s
        /\ \A k, l \in 1..n : k < l => Keys[Sections[k]] < Keys[Sections[l]]
    BY <1>7 DEF Lists
  <2>2. /\ n + 1 \in Nat /\ n + 1 \in 1..(n + 1)
        /\ \A i \in 1..(n + 1) : i = n + 1 \/ i \in 1..n
        /\ \A i \in 1..n : i \in 1..(n + 1) /\ i # n + 1
        /\ \A k, l \in 1..(n + 1) : k < l => k \in 1..n
    BY <1>7
  <2>3. /\ seq[n + 1] = id
        /\ \A i \in 1..n : seq[i] = Sections[i]
        /\ DOMAIN seq = 1..(n + 1) /\ seq = [i \in 1..(n + 1) |-> seq[i]]
    BY <2>2
  <2> HIDE DEF seq
  <2>4. seq \in [1..(n + 1) -> Shown']
    BY <1>5, <2>1, <2>2, <2>3
  <2>5. \A s \in Shown' : \E k \in 1..(n + 1) : seq[k] = s
    BY <1>5, <2>1, <2>2, <2>3
  <2>6. \A k, l \in 1..(n + 1) : k < l => Keys'[seq[k]] < Keys'[seq[l]]
    <3> SUFFICES ASSUME NEW k \in 1..(n + 1), NEW l \in 1..(n + 1), k < l
                 PROVE  Keys'[seq[k]] < Keys'[seq[l]]
      OBVIOUS
    <3>1. k \in 1..n /\ seq[k] = Sections[k] /\ Sections[k] \in Shown
      BY <2>1, <2>2, <2>3
    <3>2. CASE l \in 1..n
      BY <1>8, <2>1, <2>3, <3>1, <3>2
    <3>3. CASE l = n + 1
      BY <1>8, <2>3, <3>1, <3>3
    <3> QED
      BY <2>2, <3>2, <3>3
  <2> QED
    BY <2>2, <2>4, <2>5, <2>6 DEF Lists
<1>11. Indexed'
  <2>1. \A s \in Shown' : Keys'[s] < NewIndex'
    BY <1>1, <1>5, <1>8
  <2>2. \A s, t \in Shown' : Keys'[s] = Keys'[t] => s = t
    BY <1>8, <1>10, ListsKeys
  <2>3. \A s \in Shown' : Keys'[s] = IndexOf(s)'
    BY DEF Keys
  <2> QED
    BY <2>1, <2>2, <2>3 DEF Indexed
<1>12. /\ View' = [i \in 1..(n + 1) |-> View'[i]]
       /\ \A i \in 1..n : View'[i] = View[i]
       /\ View'[n + 1].name = id
       /\ \A i \in 1..n : View[i].name \in Shown
  <2>1. View' = [i \in 1..(n + 1) |-> Contents'[seq[i]]]
    BY <1>8, <1>10, NextView
  <2>2. \A i \in 1..n : i \in 1..(n + 1) /\ seq[i] = Sections[i] /\ Sections[i] \in Shown
    BY <1>7 DEF Lists
  <2>3. n + 1 \in 1..(n + 1) /\ seq[n + 1] = id
    BY <1>7
  <2> HIDE DEF seq
  <2> QED
    BY <1>7, <1>9, <2>1, <2>2, <2>3
<1> HIDE DEF seq
<1>14. Len(View) = n /\ Len(View') = n + 1 /\ DOMAIN View = 1..n
  BY <1>7, <1>12
<1>15. SubSeq(View', 1, n) = View
  <2>1. SubSeq(View', 1, n) = [i \in 1..n |-> View'[i]]
    BY <1>7, <1>12
  <2> QED
    BY <1>7, <1>12, <2>1
<1>16. \A i \in 1..n : View[i].name # View'[n + 1].name
  BY <1>3, <1>12
<1> QED
  BY <1>4, <1>11, <1>14, <1>15, <1>16 DEF Document!AddSection

\* What is left when the member at place p is taken out.
LEMMA ListWithout ==
  ASSUME NEW S, NEW key \in [S -> Int], NEW n, NEW seq, Lists(seq, n, S, key), NEW p \in 1..n
  PROVE  /\ Document!Without(seq, p) = [j \in 1..(n - 1) |-> seq[IF j < p THEN j ELSE j + 1]]
         /\ Lists(Document!Without(seq, p), n - 1, S \ {seq[p]}, key)
<1> DEFINE rest == [j \in 1..(n - 1) |-> seq[IF j < p THEN j ELSE j + 1]]
<1>1. n \in Nat /\ n - 1 \in Nat /\ seq \in [1..n -> S] /\ Len(seq) = n
  BY DEF Lists
<1>2. Document!Without(seq, p) = rest
  BY <1>1 DEF Document!Without
<1>3. /\ DOMAIN rest = 1..(n - 1) /\ rest = [j \in 1..(n - 1) |-> rest[j]]
      /\ \A j \in 1..(n - 1) : \/ j \in 1..n /\ j < p /\ rest[j] = seq[j]
                               \/ j + 1 \in 1..n /\ p < j + 1 /\ ~(j < p) /\ rest[j] = seq[j + 1]
  BY <1>1
<1>4. \A i \in 1..n : i # p => \/ i \in 1..(n - 1) /\ i < p /\ rest[i] = seq[i]
                               \/ i - 1 \in 1..(n - 1) /\ rest[i - 1] = seq[i]
  BY <1>1
<1> HIDE DEF rest
<1>5. rest \in [1..(n - 1) -> S \ {seq[p]}]
  <2>1. \A j \in 1..(n - 1) : rest[j] \in S /\ rest[j] # seq[p]
    <3> SUFFICES ASSUME NEW j \in 1..(n - 1)
                 PROVE  rest[j] \in S /\ rest[j] # seq[p]
      OBVIOUS
    <3>1. PICK i \in 1..n : i # p /\ rest[j] = seq[i]
      <4>1. j \in Int /\ p \in Int
        BY <1>1
      <4>2. CASE j \in 1..n /\ j < p /\ rest[j] = seq[j]
        BY <4>1, <4>2
      <4>3. CASE j + 1 \in 1..n /\ p < j + 1 /\ rest[j] = seq[j + 1]
        BY <4>1, <4>3
      <4> QED
        BY <1>3, <4>2, <4>3
    <3>2. seq[i] # seq[p]
      BY <3>1, ListsOnce
    <3> QED
      BY <1>1, <3>1, <3>2
  <2> QED
    BY <1>3, <2>1
<1>6. \A s \in S \ {seq[p]} : \E k \in 1..(n - 1) : rest[k] = s
  <2> SUFFICES ASSUME NEW s \in S \ {seq[p]}
               PROVE  \E k \in 1..(n - 1) : rest[k] = s
    OBVIOUS
  <2>1. PICK i \in 1..n : seq[i] = s
    BY DEF Lists
  <2> QED
    BY <1>4, <2>1
<1>7. \A k, l \in 1..(n - 1) : k < l => key[rest[k]] < key[rest[l]]
  <2> SUFFICES ASSUME NEW k \in 1..(n - 1), NEW l \in 1..(n - 1), k < l
               PROVE  key[rest[k]] < key[rest[l]]
    OBVIOUS
  <2>1. k \in Int /\ l \in Int /\ p \in Int
    BY <1>1
  <2>2. PICK i \in 1..n, j \in 1..n : i < j /\ rest[k] = seq[i] /\ rest[l] = seq[j]
    <3>1. CASE k < p /\ l < p
      BY <1>3, <2>1, <3>1
    <3>2. CASE k < p /\ ~(l < p)
      <4>1. k \in 1..n /\ rest[k] = seq[k] /\ l + 1 \in 1..n /\ rest[l] = seq[l + 1] /\ k < l + 1
        BY <1>3, <2>1, <3>2
      <4> QED
        BY <4>1
    <3>3. CASE ~(k < p)
      <4>1. /\ k + 1 \in 1..n /\ rest[k] = seq[k + 1] /\ l + 1 \in 1..n /\ rest[l] = seq[l + 1]
            /\ k + 1 < l + 1
        BY <1>3, <2>1, <3>3
      <4> QED
        BY <4>1
    <3> QED
      BY <3>1, <3>2, <3>3
  <2> QED
    BY <2>2 DEF Lists
<1> QED
  BY <1>1, <1>2, <1>5, <1>6, <1>7 DEF Lists, rest

\* The other sections stay as they are.
LEMMA RemoveStep ==
  ASSUME Overlays, Indexed, NEW s \in Shown, Shown' = Shown \ {s}, newidx' = newidx,
         \A t \in Shown' : IndexOf(t)' = IndexOf(t),
         \A t \in Shown', w \in Option : Get(t, w)' = Get(t, w)
  PROVE  Indexed' /\ Document!RemoveSection(View, View')
<1> DEFINE n == Cardinality(Shown)
<1>1. /\ n \in Nat /\ Keys \in [Shown -> Int] /\ Lists(Sections, n, Shown, Keys)
      /\ View = [i \in 1..n |-> Contents[Sections[i]]]
  BY SectionsList DEF Lists
<1> HIDE DEF n
<1>2. PICK p \in 1..n : Sections[p] = s
  BY <1>1 DEF Lists
<1> DEFINE rest == Document!Without(Sections, p)
<1>3. /\ rest = [j \in 1..(n - 1) |-> Sections[IF j < p THEN j ELSE j + 1]]
      /\ Lists(rest, n - 1, Shown', Keys)
  <2>1. Shown' = Shown \ {Sections[p]}
    BY <1>2
  <2> HIDE DEF rest
  <2>2. /\ Document!Without(Sections, p) = [j \in 1..(n - 1) |-> Sections[IF j < p THEN j ELSE j + 1]]
        /\ Lists(Document!Without(Sections, p), n - 1, Shown \ {Sections[p]}, Keys)
    BY <1>1, ListWithout
  <2> QED
    BY <2>1, <2>2 DEF rest
<1> HIDE DEF rest
<1>4. Keys' \in [Shown' -> Int] /\ \A t \in Shown' : Keys'[t] = Keys[t]
  BY <1>1 DEF Keys
<1>5. Lists(rest, n - 1, Shown', Keys')
  BY <1>3, <1>4 DEF Lists
<1>6. \A t \in Shown' : Contents'[t] = Contents[t]
  <2>1. \A t \in Shown' : [w \in Option |-> Get(t, w)'] = [w \in Option |-> Get(t, w)]
    OBVIOUS
  <2> QED
    BY <2>1 DEF Contents, SectionOf
<1>7. View' = [i \in 1..(n - 1) |-> Contents'[rest[i]]]
  BY <1>4, <1>5, NextView
<1>8. View' = Document!Without(View, p) /\ p \in DOMAIN View
  <2>1. Document!Without(View, p) = [j \in 1..(n - 1) |-> View[IF j < p THEN j ELSE j + 1]]
    <3>1. Len(View) = n
      BY <1>1
    <3> QED
      BY <3>1 DEF Document!Without
  <2>2. ASSUME NEW j \in 1..(n - 1)
        PROVE  Contents'[rest[j]] = View[IF j < p THEN j ELSE j + 1]
    <3> DEFINE i == IF j < p THEN j ELSE j + 1
    <3>1. i \in 1..n
      BY <1>1
    <3>2. rest[j] = Sections[i]
      BY <1>3
    <3>3. rest[j] \in Shown'
      BY <1>5 DEF Lists
    <3>4. View[i] = Contents[Sections[i]]
      BY <1>1, <3>1
    <3> HIDE DEF i
    <3>5. Contents'[rest[j]] = View[i]
      BY <1>6, <3>2, <3>3, <3>4
    <3> QED
      BY <3>5 DEF i
  <2> QED
    BY <1>1, <1>7, <2>1, <2>2
<1>9. Indexed'
  BY DEF Indexed, NewIndex
<1> QED
  BY <1>8, <1>9 DEF Document!RemoveSection

\* u is put in behind place a.
PutIn(r, a, u) == SubSeq(r, 1, a) \o <<u>> \o SubSeq(r, a + 1, Len(r))

\* What is at which place when an element is put into a sequence.
LEMMA Splice ==
  ASSUME NEW T, NEW r \in Seq(T), NEW u \in T, NEW a \in 0..Len(r)
  PROVE  PutIn(r, a, u)
           = [k \in 1..(Len(r) + 1) |-> IF k <= a THEN r[k] ELSE IF k = a + 1 THEN u ELSE r[k - 1]]
<1> DEFINE m == Len(r)
           first == SubSeq(r, 1, a)
           last == SubSeq(r, a + 1, m)
<1>1. m \in Nat /\ a \in Nat /\ a <= m /\ \A i \in 1..m : r[i] \in T
  OBVIOUS
<1>2. first \in Seq(T) /\ Len(first) = a /\ \A i \in 1..a : first[i] = r[i]
  BY <1>1
<1>3. last \in Seq(T) /\ Len(last) = m - a /\ \A i \in 1..(m - a) : last[i] = r[a + i]
  BY <1>1
<1> HIDE DEF first, last, m
<1> DEFINE front == first \o <<u>>
           all == front \o last
<1>4. /\ front \in Seq(T) /\ Len(front) = a + 1
      /\ \A i \in 1..a : front[i] = r[i]
      /\ front[a + 1] = u
  BY <1>1, <1>2
<1> HIDE DEF front
<1>5. /\ all \in Seq(T) /\ Len(all) = m + 1
      /\ \A i \in 1..a : all[i] = r[i]
      /\ all[a + 1] = u
      /\ \A i \in (a + 2)..(m + 1) : all[i] = r[i - 1]
  <2>1. all \in Seq(T) /\ Len(all) = m + 1
    <3>1. all \in Seq(T) /\ Len(all) = Len(front) + Len(last)
      <4>1. front \in Seq(T) /\ last \in Seq(T)
        BY <1>3, <1>4
      <4> QED
        BY ONLY <4>1
    <3> HIDE DEF all
    <3> QED
      BY <1>1, <1>3, <1>4, <3>1
  <2>2. \A i \in 1..(a + 1) : all[i] = front[i]
    BY <1>1, <1>3, <1>4
  <2>3. ASSUME NEW i \in (a + 2)..(m + 1)
        PROVE  all[i] = last[i - (a + 1)] /\ i - (a + 1) \in 1..(m - a)
    <3> HIDE DEF all
    <3>1. i \in Int /\ i > Len(front) /\ i <= Len(front) + Len(last)
      <4>1. a + 1 \in Int /\ m - a \in Int /\ i \in Int /\ i >= a + 2 /\ i <= m + 1
        BY <1>1
      <4>2. i > a + 1 /\ i <= (a + 1) + (m - a)
        BY <1>1, <4>1
      <4> QED
        BY <1>3, <1>4, <4>1, <4>2
    <3>2. all[i] = last[i - Len(front)]
      BY <1>3, <1>4, <3>1 DEF all
    <3> QED
      BY <1>1, <1>3, <1>4, <3>1, <3>2
  <2>4. \A i \in (a + 2)..(m + 1) : a + (i - (a + 1)) = i - 1
    BY <1>1
  <2>5. \A i \in 1..a : i \in 1..(a + 1)
    BY <1>1
  <2>6. a + 1 \in 1..(a + 1)
    BY <1>1
  <2> HIDE DEF all
  <2> QED
    BY <1>3, <1>4, <2>1, <2>2, <2>3, <2>4, <2>5, <2>6
<1> HIDE DEF all
<1>6. \A k \in 1..(m + 1) :
        all[k] = IF k <= a THEN r[k] ELSE IF k = a + 1 THEN u ELSE r[k - 1]
  BY <1>1, <1>5
<1>7. all = [k \in 1..(m + 1) |-> all[k]]
  BY <1>1, <1>5
<1>8. all = [k \in 1..(m + 1) |-> IF k <= a THEN r[k] ELSE IF k = a + 1 THEN u ELSE r[k - 1]]
  BY <1>6, <1>7
<1>9. all = PutIn(r, a, u)
  BY DEF all, front, first, last, m, PutIn
<1> QED
  BY <1>8, <1>9 DEF m

\* Where a member is.
LEMMA PlaceIs ==
  ASSUME NEW seq, NEW s, \E k \in DOMAIN seq : seq[k] = s
  PROVE  Place(seq, s) \in DOMAIN seq /\ seq[Place(seq, s)] = s
BY DEF Place

\* The member at place p is put behind a of the others.
Moved(seq, n, p, a) ==
  [k \in 1..n |-> IF k <= a THEN Document!Without(seq, p)[k]
                  ELSE IF k = a + 1 THEN seq[p] ELSE Document!Without(seq, p)[k - 1]]

\* A section that is taken from its place and put beside another one has moved.
LEMMA SplicedIs ==
  ASSUME NEW S, NEW key \in [S -> Int], NEW n, NEW seq, Lists(seq, n, S, key),
         NEW s1 \in S, NEW s2 \in S, NEW after \in BOOLEAN
  PROVE  \E p \in 1..n, a \in 0..(n - 1) :
           seq[p] = s1 /\ Spliced(seq, s1, s2, after) = Moved(seq, n, p, a)
<1> DEFINE p == Place(seq, s1)
           rest == Document!Without(seq, p)
           a == IF s2 = s1 THEN Len(rest) ELSE Place(rest, s2) - (IF after THEN 0 ELSE 1)
<1>1. n \in Nat /\ seq \in [1..n -> S] /\ \A s \in S : \E l \in 1..n : seq[l] = s
  BY DEF Lists
<1>2. p \in 1..n /\ seq[p] = s1 /\ Len(seq) = n
  BY <1>1, PlaceIs
<1>3. n - 1 \in Nat /\ n = (n - 1) + 1
  BY <1>1, <1>2
<1>4. Spliced(seq, s1, s2, after) = PutIn(rest, a, s1)
  BY DEF Spliced, PutIn, Document!Without
<1> HIDE DEF p
<1>5. Lists(rest, n - 1, S \ {s1}, key)
  <2>1. Lists(Document!Without(seq, p), n - 1, S \ {seq[p]}, key)
    BY <1>2, ListWithout
  <2> QED
    BY <1>2, <2>1
<1> HIDE DEF rest
<1>6. /\ rest \in [1..(n - 1) -> S \ {s1}]
      /\ \A s \in S \ {s1} : \E k \in 1..(n - 1) : rest[k] = s
  BY <1>5 DEF Lists
<1>7. rest \in Seq(S) /\ Len(rest) = n - 1
  BY <1>3, <1>6
<1>8. a \in 0..(n - 1)
  <2>1. CASE s2 = s1
    BY <1>3, <1>7, <2>1
  <2>2. CASE s2 # s1
    <3>1. Place(rest, s2) \in 1..(n - 1)
      BY <1>6, <2>2, PlaceIs
    <3> QED
      BY <1>3, <2>2, <3>1
  <2> QED
    BY <2>1, <2>2
<1> HIDE DEF a
<1>9. PutIn(rest, a, s1)
        = [k \in 1..(Len(rest) + 1) |->
             IF k <= a THEN rest[k] ELSE IF k = a + 1 THEN s1 ELSE rest[k - 1]]
  <2>1. a \in 0..Len(rest) /\ rest \in Seq(S)
    BY <1>7, <1>8
  <2> QED
    BY <2>1, Splice
<1>10. Spliced(seq, s1, s2, after)
         = [k \in 1..n |-> IF k <= a THEN rest[k] ELSE IF k = a + 1 THEN s1 ELSE rest[k - 1]]
  BY <1>3, <1>4, <1>7, <1>9
<1>11. Spliced(seq, s1, s2, after) = Moved(seq, n, p, a)
  BY <1>2, <1>10 DEF rest, Moved
<1> QED
  BY <1>2, <1>8, <1>11

\* Each section has one place then.
LEMMA SplicedOnce ==
  ASSUME NEW S, NEW key \in [S -> Int], NEW n, NEW seq, Lists(seq, n, S, key),
         NEW p \in 1..n, NEW a \in 0..(n - 1)
  PROVE  /\ Moved(seq, n, p, a) \in [1..n -> S]
         /\ \A s \in S : \E k \in 1..n : Moved(seq, n, p, a)[k] = s
         /\ \A k, l \in 1..n : Moved(seq, n, p, a)[k] = Moved(seq, n, p, a)[l] => k = l
<1> PICK moved : moved = Moved(seq, n, p, a)
  OBVIOUS
<1> DEFINE rest == Document!Without(seq, p)
           u == seq[p]
<1>1. n \in Nat /\ a \in Nat /\ n - 1 \in Nat /\ u \in S
  BY DEF Lists
<1>2. Lists(rest, n - 1, S \ {u}, key) /\ key \in [S -> Int]
  BY ListWithout
<1> HIDE DEF rest, u
<1>3. /\ rest \in [1..(n - 1) -> S \ {u}]
      /\ \A s \in S \ {u} : \E k \in 1..(n - 1) : rest[k] = s
      /\ \A k, l \in 1..(n - 1) : k < l => key[rest[k]] < key[rest[l]]
  BY <1>2 DEF Lists
<1>4. \A k, l \in 1..(n - 1) : rest[k] = rest[l] => k = l
  <2> SUFFICES ASSUME NEW k \in 1..(n - 1), NEW l \in 1..(n - 1), rest[k] = rest[l]
               PROVE  k = l
    OBVIOUS
  <2>1. ~(k < l) /\ ~(l < k)
    <3>1. key[rest[k]] \in Int /\ key[rest[l]] = key[rest[k]]
      BY <1>3
    <3>2. ~(key[rest[k]] < key[rest[l]]) /\ ~(key[rest[l]] < key[rest[k]])
      BY <3>1
    <3> QED
      BY <1>3, <3>2
  <2> QED
    BY <2>1
<1>5. /\ moved = [k \in 1..n |-> moved[k]]
      /\ \A k \in 1..n : \/ k <= a /\ k \in 1..(n - 1) /\ moved[k] = rest[k]
                         \/ k = a + 1 /\ moved[k] = u
                         \/ k > a + 1 /\ k - 1 \in 1..(n - 1) /\ moved[k] = rest[k - 1]
  <2>1. moved = [k \in 1..n |->
                   IF k <= a THEN rest[k] ELSE IF k = a + 1 THEN u ELSE rest[k - 1]]
    BY DEF Moved, rest, u
  <2>2. ASSUME NEW k \in 1..n
        PROVE  \/ k <= a /\ k \in 1..(n - 1) /\ moved[k] = rest[k]
               \/ k = a + 1 /\ moved[k] = u
               \/ k > a + 1 /\ k - 1 \in 1..(n - 1) /\ moved[k] = rest[k - 1]
    <3>1. moved[k] = IF k <= a THEN rest[k] ELSE IF k = a + 1 THEN u ELSE rest[k - 1]
      BY <2>1
    <3>2. \/ k <= a /\ k \in 1..(n - 1)
          \/ k = a + 1 /\ ~(k <= a)
          \/ k > a + 1 /\ k - 1 \in 1..(n - 1) /\ ~(k <= a) /\ k # a + 1
      BY <1>1
    <3> QED
      BY <3>1, <3>2
  <2> QED
    BY <2>1, <2>2
<1>6. /\ a + 1 \in 1..n /\ moved[a + 1] = u
      /\ \A k \in 1..(n - 1) : \/ k \in 1..n /\ moved[k] = rest[k]
                               \/ k + 1 \in 1..n /\ moved[k + 1] = rest[k]
  <2>1. moved = [k \in 1..n |->
                   IF k <= a THEN rest[k] ELSE IF k = a + 1 THEN u ELSE rest[k - 1]]
    BY DEF Moved, rest, u
  <2>2. ASSUME NEW k \in 1..(n - 1)
        PROVE  \/ k \in 1..n /\ moved[k] = rest[k]
               \/ k + 1 \in 1..n /\ moved[k + 1] = rest[k]
    <3>1. CASE k <= a
      BY <1>1, <2>1, <3>1
    <3>2. CASE ~(k <= a)
      <4>1. k + 1 \in 1..n /\ ~(k + 1 <= a) /\ k + 1 # a + 1 /\ (k + 1) - 1 = k
        BY <1>1, <3>2
      <4> QED
        BY <2>1, <4>1
    <3> QED
      BY <3>1, <3>2
  <2>3. a + 1 \in 1..n /\ ~(a + 1 <= a)
    BY <1>1
  <2>4. moved[a + 1] = u
    BY <2>1, <2>3
  <2> QED
    BY <2>2, <2>3, <2>4
<1>7. moved \in [1..n -> S]
  <2>1. \A k \in 1..n : moved[k] \in S
    BY <1>1, <1>3, <1>5
  <2> QED
    BY <1>5, <2>1
<1>8. ASSUME NEW s \in S
      PROVE  \E k \in 1..n : moved[k] = s
  <2>1. CASE s = u
    BY <1>6, <2>1
  <2>2. CASE s # u
    <3>1. PICK k \in 1..(n - 1) : rest[k] = s
      BY <1>3, <2>2
    <3> QED
      BY <1>6, <3>1
  <2> QED
    BY <2>1, <2>2
<1>9. ASSUME NEW k \in 1..n, NEW l \in 1..n, moved[k] = moved[l]
      PROVE  k = l
  <2>1. \A i \in 1..(n - 1) : rest[i] # u
    BY <1>3
  <2>2. /\ k \in Int /\ l \in Int
        /\ \/ k <= a /\ k \in 1..(n - 1) /\ moved[k] = rest[k]
           \/ k = a + 1 /\ moved[k] = u
           \/ k > a + 1 /\ k - 1 \in 1..(n - 1) /\ moved[k] = rest[k - 1]
        /\ \/ l <= a /\ l \in 1..(n - 1) /\ moved[l] = rest[l]
           \/ l = a + 1 /\ moved[l] = u
           \/ l > a + 1 /\ l - 1 \in 1..(n - 1) /\ moved[l] = rest[l - 1]
    BY <1>5
  <2>3. CASE k = a + 1 \/ l = a + 1
    BY <1>1, <1>9, <2>1, <2>2, <2>3
  <2>4. CASE k <= a /\ l <= a
    BY <1>1, <1>4, <1>9, <2>2, <2>4
  <2>5. CASE k <= a /\ l > a + 1
    <3>1. k = l - 1
      BY <1>1, <1>4, <1>9, <2>2, <2>5
    <3> QED
      BY <1>1, <2>2, <2>5, <3>1
  <2>6. CASE k > a + 1 /\ l <= a
    <3>1. l = k - 1
      BY <1>1, <1>4, <1>9, <2>2, <2>6
    <3> QED
      BY <1>1, <2>2, <2>6, <3>1
  <2>7. CASE k > a + 1 /\ l > a + 1
    <3>1. k - 1 = l - 1
      BY <1>1, <1>4, <1>9, <2>2, <2>7
    <3> QED
      BY <2>2, <3>1
  <2> QED
    BY <2>2, <2>3, <2>4, <2>5, <2>6, <2>7
<1> QED
  BY ONLY <1>7, <1>8, <1>9, moved = Moved(seq, n, p, a)

\* A page that has looked at a section sees the same.
LEMMA MergedIs ==
  ASSUME Overlays, NEW S
  PROVE  /\ Merged(S) \in [DOMAIN values -> [opts : Opts, index : Nat]]
         /\ \A s \in DOMAIN values : Merged(S)[s].index = values[s].index
         /\ \A s \in Existing : Merged(S)[s].opts \in {values[s].opts, SectionOf(s).opts}
         /\ \A s \in Existing \cap S : Merged(S)[s].opts = SectionOf(s).opts
<1>1. values \in [DOMAIN values -> [opts : Opts, index : Nat]]
  BY DEF Overlays
<1>2. \A s \in Existing : SectionOf(s).opts = [o \in Option |-> Get(s, o)]
  BY DEF SectionOf
<1>3. ASSUME NEW s \in Existing
      PROVE  [o \in Option |-> Get(s, o)] \in Opts
  <2>1. s \in DOMAIN values /\ s \in Name /\ s \notin DOMAIN creates
    BY Apart
  <2>2. changes[s] \in Opts /\ values[s].opts \in Opts
    BY <1>1, <2>1 DEF Overlays
  <2>3. \A o \in Option : Get(s, o) \in Val \cup {None}
    BY <2>1, <2>2 DEF Get, Opts
  <2> QED
    BY <2>3 DEF Opts
<1>4. \A s \in DOMAIN values :
        Merged(S)[s] = IF s \notin S \cap Existing THEN values[s]
                       ELSE [values[s] EXCEPT !.opts = [o \in Option |-> Get(s, o)]]
  BY DEF Merged
<1>5. Merged(S) = [s \in DOMAIN values |-> Merged(S)[s]]
  BY DEF Merged
<1>6. ASSUME NEW s \in DOMAIN values
      PROVE  /\ Merged(S)[s] \in [opts : Opts, index : Nat]
             /\ Merged(S)[s].index = values[s].index
             /\ s \in S \cap Existing => Merged(S)[s].opts = [o \in Option |-> Get(s, o)]
             /\ s \notin S \cap Existing => Merged(S)[s] = values[s]
  <2>1. values[s] \in [opts : Opts, index : Nat]
    BY <1>1
  <2>2. CASE s \in S \cap Existing
    <3> DEFINE x == [o \in Option |-> Get(s, o)]
    <3>1. x \in Opts /\ Merged(S)[s] = [values[s] EXCEPT !.opts = x]
      BY <1>3, <1>4, <2>2
    <3> HIDE DEF x
    <3>2. /\ Merged(S)[s] \in [opts : Opts, index : Nat]
          /\ Merged(S)[s].index = values[s].index /\ Merged(S)[s].opts = x
      BY <2>1, <3>1
    <3> QED
      BY <2>2, <3>2 DEF x
  <2>3. CASE s \notin S \cap Existing
    BY <1>4, <2>1, <2>3
  <2> QED
    BY <2>2, <2>3
<1>7. \A s \in Existing : s \in DOMAIN values
  BY DEF Existing
<1> HIDE DEF Opts
<1> QED
  BY <1>2, <1>5, <1>6, <1>7

\* Where changes and deletions rest, sections may get other numbers, and read the same.
LEMMA SameGet ==
  ASSUME Overlays, UNCHANGED <<changes, deletes>>,
         DOMAIN values' = DOMAIN values, DOMAIN creates' = DOMAIN creates,
         \A s \in DOMAIN creates : creates'[s].opts = creates[s].opts,
         \A s \in Existing : values'[s].opts \in {values[s].opts, SectionOf(s).opts}
  PROVE  /\ Existing' = Existing /\ Shown' = Shown
         /\ \A s \in Shown, w \in Option : Get(s, w)' = Get(s, w)
<1>1. Existing' = Existing /\ Shown' = Shown
  BY DEF Existing, Shown
<1>2. ASSUME NEW s \in DOMAIN creates, NEW w \in Option
      PROVE  Get(s, w)' = Get(s, w)
  BY DEF Get
<1>3. ASSUME NEW s \in Existing, NEW w \in Option
      PROVE  Get(s, w)' = Get(s, w)
  <2>1. s \notin DOMAIN creates /\ s \notin DOMAIN creates'
    BY Apart
  <2>2. values'[s].opts[w] \in {values[s].opts[w], Get(s, w)}
    <3>1. SectionOf(s).opts[w] = Get(s, w)
      BY DEF SectionOf
    <3> QED
      BY <3>1
  <2> QED
    BY <2>1, <2>2 DEF Get
<1> QED
  BY <1>1, <1>2, <1>3 DEF Shown

\* The page numbers the sections from 0 when one is moved.
LEMMA MoveStep ==
  ASSUME Overlays, Indexed, NEW s1 \in Shown, NEW s2 \in Shown, NEW after \in BOOLEAN,
         Move(s1, s2, after)
  PROVE  Overlays' /\ Indexed' /\ Document!MoveSection(View, View')
<1> DEFINE n == Cardinality(Shown)
           moved == Spliced(Sections, s1, s2, after)
           place(s) == Place(moved, s) - 1
<1>1. /\ n \in Nat /\ n <= NewIndex /\ Keys \in [Shown -> Int]
      /\ Lists(Sections, n, Shown, Keys)
      /\ View = [i \in 1..n |-> Contents[Sections[i]]]
  BY SectionsList DEF Lists
<1> HIDE DEF n
<1>2. PICK p \in 1..n, a \in 0..(n - 1) : Sections[p] = s1 /\ moved = Moved(Sections, n, p, a)
  <2>1. Keys \in [Shown -> Int] /\ Lists(Sections, n, Shown, Keys)
    BY <1>1
  <2>2. s1 \in Shown /\ s2 \in Shown /\ after \in BOOLEAN
    OBVIOUS
  <2> QED
    BY ONLY <2>1, <2>2, SplicedIs
<1>3. /\ values' = [s \in DOMAIN values |->
                      IF s \in Existing THEN [Merged(Existing)[s] EXCEPT !.index = place(s)]
                      ELSE values[s]]
      /\ creates' = [s \in DOMAIN creates |-> [creates[s] EXCEPT !.index = place(s)]]
      /\ newidx' = newidx /\ UNCHANGED <<changes, deletes>>
  BY DEF Move, Reindex
<1> HIDE DEF moved
<1>4. /\ moved \in [1..n -> Shown]
      /\ \A s \in Shown : \E k \in 1..n : moved[k] = s
      /\ \A k, l \in 1..n : moved[k] = moved[l] => k = l
  <2>1. Keys \in [Shown -> Int] /\ Lists(Sections, n, Shown, Keys)
    BY <1>1
  <2> DEFINE m == Moved(Sections, n, p, a)
  <2>2. p \in 1..n /\ a \in 0..(n - 1)
    OBVIOUS
  <2>3. /\ m \in [1..n -> Shown]
        /\ \A s \in Shown : \E k \in 1..n : m[k] = s
        /\ \A k, l \in 1..n : m[k] = m[l] => k = l
    BY ONLY <2>1, <2>2, SplicedOnce
  <2>4. moved = m
    BY <1>2
  <2> HIDE DEF m
  <2> QED
    BY <2>3, <2>4
<1>5. /\ \A k \in 1..n : place(moved[k]) = k - 1
      /\ \A s \in Shown : place(s) \in Nat /\ place(s) < n
  <2>1. ASSUME NEW s \in Shown
        PROVE  Place(moved, s) \in 1..n /\ moved[Place(moved, s)] = s
    <3>1. \E k \in DOMAIN moved : moved[k] = s
      BY <1>4
    <3>2. DOMAIN moved = 1..n
      BY <1>4
    <3> QED
      BY <3>1, <3>2, PlaceIs
  <2>2. \A k \in 1..n : Place(moved, moved[k]) = k
    <3> SUFFICES ASSUME NEW k \in 1..n
                 PROVE  Place(moved, moved[k]) = k
      OBVIOUS
    <3>1. moved[k] \in Shown
      BY <1>4
    <3>2. Place(moved, moved[k]) \in 1..n /\ moved[Place(moved, moved[k])] = moved[k]
      BY <2>1, <3>1
    <3> QED
      BY <1>4, <3>2
  <2>3. ASSUME NEW k \in 1..n
        PROVE  place(moved[k]) = k - 1
    <3>1. Place(moved, moved[k]) = k
      BY <2>2
    <3> QED
      BY <3>1
  <2>4. ASSUME NEW s \in Shown
        PROVE  place(s) \in Nat /\ place(s) < n
    <3>1. n \in Nat
      BY <1>1
    <3>2. PICK i \in 1..n : Place(moved, s) = i
      BY <2>1
    <3>3. i - 1 \in Nat /\ i - 1 < n
      BY <3>1
    <3>4. place(s) = i - 1
      BY <3>2
    <3> HIDE DEF place
    <3> QED
      BY <3>3, <3>4
  <2> HIDE DEF place
  <2> QED
    BY <2>3, <2>4
<1> HIDE DEF place
<1>6. /\ \A s \in Existing : /\ s \in Shown /\ s \in DOMAIN values /\ s \notin DOMAIN creates
                             /\ values'[s] \in [opts : Opts, index : Nat]
                             /\ values'[s].opts = SectionOf(s).opts
                             /\ values'[s].index = place(s)
      /\ \A s \in DOMAIN values \ Existing : values'[s] = values[s]
  <2>1. ASSUME NEW s \in Existing
        PROVE  /\ s \in Shown /\ s \in DOMAIN values /\ s \notin DOMAIN creates
               /\ values'[s] \in [opts : Opts, index : Nat]
               /\ values'[s].opts = SectionOf(s).opts
               /\ values'[s].index = place(s)
    <3>1. s \in Shown /\ s \in DOMAIN values /\ s \notin DOMAIN creates
      BY Apart DEF Shown
    <3> DEFINE e == Merged(Existing)[s]
    <3>2. e \in [opts : Opts, index : Nat] /\ e.opts = SectionOf(s).opts
      BY <3>1, MergedIs
    <3>3. values'[s] = [e EXCEPT !.index = place(s)] /\ place(s) \in Nat
      BY <1>3, <1>5, <3>1
    <3> HIDE DEF e
    <3> QED
      BY <3>1, <3>2, <3>3
  <2> QED
    BY <1>3, <2>1
<1>7. \A s \in DOMAIN creates : /\ NewSection(creates'[s]) /\ s \in Shown
                                /\ creates'[s].opts = creates[s].opts
                                /\ creates'[s].index = place(s)
  <2> SUFFICES ASSUME NEW s \in DOMAIN creates
               PROVE  /\ NewSection(creates'[s]) /\ s \in Shown
                      /\ creates'[s].opts = creates[s].opts
                      /\ creates'[s].index = place(s)
    OBVIOUS
  <2> DEFINE e == creates[s]
  <2>1. e = [opts |-> e.opts, index |-> e.index, name |-> e.name] /\ e.opts \in Opts
    BY DEF Overlays, NewSection
  <2>2. creates'[s] = [e EXCEPT !.index = place(s)] /\ place(s) \in Nat /\ s \in Shown
    BY <1>3, <1>5 DEF Shown
  <2> HIDE DEF e
  <2>3. creates'[s] = [opts |-> e.opts, index |-> place(s), name |-> e.name]
    BY <2>1, <2>2
  <2>4. NewSection(creates'[s]) /\ creates'[s].opts = e.opts /\ creates'[s].index = place(s)
    BY <2>1, <2>2, <2>3 DEF NewSection
  <2> QED
    BY <2>2, <2>4 DEF e
<1>8. DOMAIN values' = DOMAIN values /\ DOMAIN creates' = DOMAIN creates
  BY <1>3
<1>9. /\ Existing' = Existing /\ Shown' = Shown
      /\ \A s \in Shown, w \in Option : Get(s, w)' = Get(s, w)
  BY <1>3, <1>6, <1>7, <1>8, SameGet
<1>10. Overlays'
  <2>1. values' \in [DOMAIN values' -> [opts : Opts, index : Nat]]
    <3>1. \A s \in DOMAIN values : values'[s] \in [opts : Opts, index : Nat]
      BY <1>6 DEF Overlays
    <3>2. values' = [s \in DOMAIN values |-> values'[s]]
      BY <1>3
    <3> QED
      BY <1>8, <3>1, <3>2
  <2>2. creates' = [s \in DOMAIN creates' |-> creates'[s]]
    BY <1>3
  <2> QED
    BY <1>3, <1>7, <1>8, <2>1, <2>2 DEF Overlays, NewSection
<1>11. \A s \in Shown : Keys'[s] = place(s)
  <2>1. \A s \in Shown : IndexOf(s)' = place(s)
    BY <1>6, <1>7, <1>8 DEF IndexOf, Shown
  <2> QED
    BY <1>9, <2>1 DEF Keys
<1>12. Lists(moved, n, Shown', Keys') /\ Keys' \in [Shown' -> Int]
  <2>1. Keys' = [s \in Shown |-> place(s)]
    <3>1. Keys' = [s \in Shown' |-> Keys'[s]]
      BY DEF Keys
    <3> QED
      BY <1>9, <1>11, <3>1
  <2>2. Keys' \in [Shown -> Int]
    BY <1>5, <2>1
  <2>3. \A k, l \in 1..n : k < l => Keys'[moved[k]] < Keys'[moved[l]]
    <3>1. \A k \in 1..n : Keys'[moved[k]] = k - 1
      BY <1>4, <1>5, <1>11
    <3> QED
      BY <3>1
  <2> QED
    BY <1>1, <1>4, <1>9, <2>2, <2>3 DEF Lists
<1>13. Indexed'
  <2>1. NewIndex \in Int /\ NewIndex' = NewIndex
    BY <1>3 DEF Overlays, NewIndex
  <2>2. \A s \in Shown' : Keys'[s] < NewIndex'
    BY <1>1, <1>5, <1>9, <1>11, <2>1
  <2>3. \A s, t \in Shown' : Keys'[s] = Keys'[t] => s = t
    BY <1>12, ListsKeys
  <2>4. \A s \in Shown' : Keys'[s] = IndexOf(s)'
    BY DEF Keys
  <2> QED
    BY <2>2, <2>3, <2>4 DEF Indexed
<1>14. View' = [k \in 1..n |-> Contents[moved[k]]]
  <2>1. View' = [k \in 1..n |-> Contents'[moved[k]]]
    BY <1>12, NextView
  <2>2. Contents' = Contents
    BY <1>9, SameContents
  <2> QED
    BY <2>1, <2>2
<1> DEFINE r == Document!Without(View, p)
<1>15. /\ r = [j \in 1..(n - 1) |-> View[IF j < p THEN j ELSE j + 1]]
       /\ n - 1 \in Nat /\ Len(View) = n /\ DOMAIN View = 1..n
  <2>1. n - 1 \in Nat /\ Len(View) = n /\ DOMAIN View = 1..n
    BY <1>1, <1>2
  <2> QED
    BY <2>1 DEF Document!Without
<1> HIDE DEF r
<1>16. \A j \in 1..(n - 1) : r[j] = Contents[Document!Without(Sections, p)[j]]
  <2>1. /\ Document!Without(Sections, p) = [j \in 1..(n - 1) |-> Sections[IF j < p THEN j ELSE j + 1]]
        /\ Lists(Document!Without(Sections, p), n - 1, Shown \ {Sections[p]}, Keys)
    BY <1>1, ListWithout
  <2>2. ASSUME NEW j \in 1..(n - 1)
        PROVE  r[j] = Contents[Document!Without(Sections, p)[j]]
    <3> DEFINE i == IF j < p THEN j ELSE j + 1
    <3>1. i \in 1..n
      BY <1>1, <1>2
    <3>2. r[j] = View[i] /\ Document!Without(Sections, p)[j] = Sections[i]
      BY <1>15, <2>1
    <3> HIDE DEF i
    <3> QED
      BY <1>1, <3>1, <3>2
  <2> QED
    BY <2>2
<1> PICK u : u = View[p]
  OBVIOUS
<1>17. PutIn(r, a, u) = [k \in 1..n |-> IF k <= a THEN r[k] ELSE IF k = a + 1 THEN u ELSE r[k - 1]]
  <2> DEFINE T == {View[i] : i \in 1..n}
  <2>1. u \in T
    BY <1>2
  <2>2. r \in Seq(T)
    <3>1. \A j \in 1..(n - 1) : (IF j < p THEN j ELSE j + 1) \in 1..n
      BY <1>1, <1>2
    <3>2. r \in [1..(n - 1) -> T]
      BY <1>15, <3>1
    <3> HIDE DEF T
    <3> QED
      BY <1>15, <3>2
  <2>3. Len(r) = n - 1 /\ a \in 0..Len(r) /\ Len(r) + 1 = n
    BY <1>1, <1>2, <1>15
  <2> HIDE DEF T
  <2>4. PutIn(r, a, u)
          = [k \in 1..(Len(r) + 1) |-> IF k <= a THEN r[k] ELSE IF k = a + 1 THEN u ELSE r[k - 1]]
    BY ONLY <2>1, <2>2, <2>3, Splice
  <2> QED
    BY <2>3, <2>4
<1>18. View' = PutIn(r, a, View[p])
  <2> DEFINE w == Document!Without(Sections, p)
  <2>1. ASSUME NEW k \in 1..n
        PROVE  Contents[moved[k]] = IF k <= a THEN r[k] ELSE IF k = a + 1 THEN View[p] ELSE r[k - 1]
    <3>1. moved[k] = IF k <= a THEN w[k] ELSE IF k = a + 1 THEN s1 ELSE w[k - 1]
      BY <1>2 DEF Moved
    <3>2. View[p] = Contents[s1]
      BY <1>1, <1>2
    <3>3. /\ k <= a => k \in 1..(n - 1)
          /\ ~(k <= a) /\ k # a + 1 => k - 1 \in 1..(n - 1)
      BY <1>1
    <3>4. \A j \in 1..(n - 1) : r[j] = Contents[w[j]]
      BY <1>16
    <3> HIDE DEF w
    <3> QED
      BY <3>1, <3>2, <3>3, <3>4
  <2> QED
    BY <1>14, <1>17, <2>1
<1>19. Document!MoveSection(View, View')
  <2> DEFINE j == a + 1
  <2>1. j \in 1..n /\ j - 1 = a /\ j = a + 1 /\ Len(r) = Len(View) - 1
    BY <1>1, <1>2, <1>15
  <2>2. View' = SubSeq(r, 1, j - 1) \o <<View[p]>> \o SubSeq(r, j, Len(View) - 1)
    BY <1>18, <2>1 DEF PutIn
  <2> HIDE DEF j
  <2> QED
    BY <1>15, <2>1, <2>2 DEF Document!MoveSection, r
<1> QED
  BY <1>10, <1>13, <1>19

\* One option of one section changes.
LEMMA SetStep ==
  ASSUME Overlays, Indexed, NEW s \in Shown, NEW o \in Option, NEW v \in Val \cup {None},
         Shown' = Shown, newidx' = newidx,
         \A t \in Shown : IndexOf(t)' = IndexOf(t),
         \A t \in Shown, w \in Option : Get(t, w)' = IF t = s /\ w = o THEN v ELSE Get(t, w)
  PROVE  Indexed' /\ Document!SetOption(View, View')
<1> DEFINE n == Cardinality(Shown)
<1>1. Lists(Sections, n, Shown, Keys) /\ Keys \in [Shown -> Int]
  BY SectionsList
<1>2. View = [i \in 1..n |-> Contents[Sections[i]]]
  BY SectionsList
<1>3. Indexed' /\ View' = [i \in 1..n |-> Contents'[Sections[i]]]
  BY SameOrder
<1> HIDE DEF n
<1>4. /\ \A i \in 1..n : Sections[i] \in Shown
      /\ \A k, l \in 1..n : Sections[k] = Sections[l] => k = l
  <2>1. \A k, l \in 1..n : Sections[k] = Sections[l] => k = l
    BY <1>1, ListsOnce
  <2> QED
    BY <1>1, <2>1 DEF Lists
<1>5. PICK i \in 1..n : Sections[i] = s
  BY <1>1 DEF Lists
<1>6. \A t \in Shown : t # s => Contents'[t] = Contents[t]
  <2>1. \A t \in Shown : t # s => [w \in Option |-> Get(t, w)'] = [w \in Option |-> Get(t, w)]
    OBVIOUS
  <2> QED
    BY <2>1 DEF Contents, SectionOf
<1>7. Contents'[s] = [Contents[s] EXCEPT !.opts[o] = v]
  <2> DEFINE x == [w \in Option |-> Get(s, w)]
             y == [w \in Option |-> Get(s, w)']
  <2>1. y = [x EXCEPT ![o] = v]
    OBVIOUS
  <2>2. Contents[s] = [name |-> s, opts |-> x] /\ Contents'[s] = [name |-> s, opts |-> y]
    BY DEF Contents, SectionOf
  <2> HIDE DEF x, y
  <2> QED
    BY <2>1, <2>2
<1>8. View' = [View EXCEPT ![i].opts[o] = v]
  <2> DEFINE z == [View[i] EXCEPT !.opts[o] = v]
  <2>1. View[i] = Contents[s]
    BY <1>2, <1>5
  <2>2. Contents'[s] = z
    BY <1>7, <2>1
  <2>3. [View EXCEPT ![i].opts[o] = v] = [View EXCEPT ![i] = z]
    OBVIOUS
  <2> HIDE DEF z
  <2>4. \A k \in 1..n : View'[k] = IF k = i THEN z ELSE View[k]
    BY <1>2, <1>3, <1>4, <1>5, <1>6, <2>2
  <2> QED
    BY <1>2, <1>3, <2>3, <2>4
<1>9. i \in DOMAIN View
  BY <1>2
<1> QED
  BY <1>3, <1>8, <1>9 DEF Document!SetOption

\* An option of a new section is set.
LEMMA SetNewStep ==
  ASSUME Overlays, Indexed, NEW s \in Shown, NEW o \in Option, NEW v \in Val \cup {None},
         SetNew(s, o, v), UNCHANGED <<values, newidx>>
  PROVE  Overlays' /\ Indexed' /\ Document!SetOption(View, View')
<1> DEFINE e == creates[s]
<1>1. /\ s \in DOMAIN creates /\ UNCHANGED <<changes, deletes, values, newidx>>
      /\ creates' = [creates EXCEPT ![s] = [e EXCEPT !.opts = [e.opts EXCEPT ![o] = v]]]
  BY DEF SetNew
<1>2. e = [opts |-> e.opts, index |-> e.index, name |-> e.name] /\ e.opts \in Opts /\ e.index \in Nat
  BY <1>1 DEF Overlays, NewSection
<1>3. /\ DOMAIN creates' = DOMAIN creates /\ creates' = [t \in DOMAIN creates |-> creates'[t]]
      /\ creates'[s] = [e EXCEPT !.opts = [e.opts EXCEPT ![o] = v]]
      /\ \A t \in DOMAIN creates : t # s => creates'[t] = creates[t]
  BY <1>1
<1> HIDE DEF e
<1>4. creates'[s] = [opts |-> [e.opts EXCEPT ![o] = v], index |-> e.index, name |-> e.name]
  BY <1>2, <1>3
<1>5. [e.opts EXCEPT ![o] = v] \in Opts
  BY <1>2 DEF Opts
<1>6. NewSection(creates'[s]) /\ creates'[s].index = creates[s].index
  BY <1>2, <1>4, <1>5 DEF NewSection, e
<1>7. Overlays'
  <2>1. \A t \in DOMAIN creates' : NewSection(creates'[t])
    BY <1>3, <1>6 DEF Overlays
  <2> QED
    BY <1>1, <1>3, <2>1 DEF Overlays, NewSection
<1>8. Existing' = Existing /\ Shown' = Shown
  BY <1>1, <1>3 DEF Existing, Shown
<1>9. \A t \in Shown : IndexOf(t)' = IndexOf(t)
  BY <1>1, <1>3, <1>6 DEF IndexOf
<1>10. \A t \in Shown, w \in Option : Get(t, w)' = IF t = s /\ w = o THEN v ELSE Get(t, w)
  <2>1. \A w \in Option : creates'[s].opts[w] = IF w = o THEN v ELSE creates[s].opts[w]
    BY <1>2, <1>4 DEF Opts, e
  <2>2. \A w \in Option : Get(s, w)' = IF w = o THEN v ELSE Get(s, w)
    BY <1>1, <1>3, <2>1 DEF Get
  <2>3. \A t \in Shown, w \in Option : t # s => Get(t, w)' = Get(t, w)
    BY <1>1, <1>3 DEF Get
  <2> QED
    BY <2>2, <2>3
<1> QED
  BY <1>1, <1>7, <1>8, <1>9, <1>10, SetStep

\* set() and unset() of what was loaded.
LEMMA SetLoadedStep ==
  ASSUME Overlays, Indexed, NEW s \in Shown, NEW o \in Option, NEW v \in Val \cup {None},
         SetLoaded(s, o, v) \/ UnsetLoaded(s, o, v), UNCHANGED <<values, newidx>>
  PROVE  Overlays' /\ Indexed' /\ Document!SetOption(View, View')
<1>1. /\ s \in Existing /\ UNCHANGED <<creates, values, newidx>>
      /\ changes' = [changes EXCEPT ![s] = [changes[s] EXCEPT ![o] = v]]
      /\ deletes' \in {deletes, [deletes EXCEPT ![s] = @ \ {o}], [deletes EXCEPT ![s] = @ \cup {o}]}
  <2>1. CASE SetLoaded(s, o, v)
    BY <2>1 DEF SetLoaded
  <2>2. CASE UnsetLoaded(s, o, v)
    BY <2>2 DEF UnsetLoaded
  <2> QED
    BY <2>1, <2>2
<1>2. /\ s \in Name /\ s \in DOMAIN values /\ s \notin DOMAIN creates
      /\ changes \in [Name -> Opts] /\ deletes \in [Name -> SUBSET (Option \cup {"whole"})]
      /\ changes[s] \in [Option -> Val \cup {None}]
  <2>1. changes \in [Name -> Opts] /\ deletes \in [Name -> SUBSET (Option \cup {"whole"})]
    BY DEF Overlays
  <2>2. s \in Name /\ s \in DOMAIN values /\ s \notin DOMAIN creates
    BY <1>1, Apart
  <2> QED
    BY <2>1, <2>2 DEF Opts
<1>3. /\ changes' \in [Name -> Opts]
      /\ \A w \in Option : changes'[s][w] = IF w = o THEN v ELSE changes[s][w]
      /\ \A t \in Name : t # s => changes'[t] = changes[t]
  <2> DEFINE x == [changes[s] EXCEPT ![o] = v]
  <2>1. x \in Opts /\ \A w \in Option : x[w] = IF w = o THEN v ELSE changes[s][w]
    BY <1>2 DEF Opts
  <2>2. changes' = [changes EXCEPT ![s] = x]
    BY <1>1
  <2> HIDE DEF x
  <2> QED
    BY <1>2, <2>1, <2>2
<1>4. /\ deletes' \in [Name -> SUBSET (Option \cup {"whole"})]
      /\ \A t \in Name : "whole" \in deletes'[t] <=> "whole" \in deletes[t]
      /\ \A t \in Name : t # s => deletes'[t] = deletes[t]
      /\ \A w \in Option : w # o => (w \in deletes'[s] <=> w \in deletes[s])
  <2>1. o # "whole"
    BY UciCacheAssumption
  <2>2. CASE deletes' = deletes
    BY <1>2, <2>2
  <2>3. CASE deletes' = [deletes EXCEPT ![s] = @ \ {o}]
    BY <1>2, <2>1, <2>3
  <2>4. CASE deletes' = [deletes EXCEPT ![s] = @ \cup {o}]
    BY <1>2, <2>1, <2>4
  <2> QED
    BY <1>1, <2>2, <2>3, <2>4
<1>5. Overlays'
  BY <1>1, <1>3, <1>4 DEF Overlays, NewSection
<1>6. Existing' = Existing /\ Shown' = Shown
  <2>1. DOMAIN values \subseteq Name
    BY DEF Overlays
  <2> QED
    BY <1>1, <1>4, <2>1 DEF Existing, Shown
<1>7. \A t \in Shown : IndexOf(t)' = IndexOf(t)
  BY <1>1 DEF IndexOf
<1>8. Get(s, o)' = v
  <2>1. CASE SetLoaded(s, o, v)
    BY <1>1, <1>2, <1>3, <2>1 DEF SetLoaded, Get
  <2>2. CASE UnsetLoaded(s, o, v)
    <3>1. v = None /\ changes'[s][o] = None
      BY <1>3, <2>2 DEF UnsetLoaded
    <3>2. o \in deletes'[s] \/ values[s].opts[o] = None
      BY <1>2, <2>2 DEF UnsetLoaded
    <3> QED
      BY <1>1, <1>2, <3>1, <3>2 DEF Get
  <2> QED
    BY <2>1, <2>2
<1>9. \A t \in Shown, w \in Option : Get(t, w)' = IF t = s /\ w = o THEN v ELSE Get(t, w)
  <2>1. \A w \in Option : w # o => Get(s, w)' = Get(s, w)
    BY <1>1, <1>2, <1>3, <1>4 DEF Get
  <2>2. \A t \in Shown, w \in Option : t # s => Get(t, w)' = Get(t, w)
    <3>1. \A t \in Shown : t \in DOMAIN creates \/ t \in Name
      BY Apart DEF Shown
    <3> QED
      BY <1>1, <1>3, <1>4, <3>1 DEF Get
  <2> QED
    BY <1>8, <2>1, <2>2
<1> QED
  BY <1>1, <1>5, <1>6, <1>7, <1>9, SetStep

\* remove() of a section the page has created, and of one that was loaded.
LEMMA RemoveEdit ==
  ASSUME Overlays, Indexed, NEW s \in Shown, Remove(s)
  PROVE  Overlays' /\ Indexed' /\ Document!RemoveSection(View, View')
<1>1. values' = values /\ newidx' = newidx
  BY DEF Remove
<1>2. CASE s \in DOMAIN creates /\ creates' = [t \in DOMAIN creates \ {s} |-> creates[t]]
           /\ UNCHANGED <<changes, deletes>>
  <2>1. DOMAIN creates' = DOMAIN creates \ {s} /\ \A t \in DOMAIN creates' : creates'[t] = creates[t]
    BY <1>2
  <2>2. Existing' = Existing /\ Shown' = Shown \ {s}
    <3>1. s \notin Existing
      BY <1>2, Apart
    <3> QED
      BY <1>1, <1>2, <2>1, <3>1 DEF Existing, Shown
  <2>3. \A t \in Shown' : (t \in DOMAIN creates' <=> t \in DOMAIN creates) /\ IndexOf(t)' = IndexOf(t)
    BY <1>1, <2>1, <2>2 DEF IndexOf
  <2>4. \A t \in Shown', w \in Option : Get(t, w)' = Get(t, w)
    BY <1>1, <1>2, <2>1, <2>3 DEF Get
  <2>5. Overlays'
    <3>1. creates' = [t \in DOMAIN creates' |-> creates'[t]] /\ DOMAIN creates' \subseteq DOMAIN creates
      BY <1>2, <2>1
    <3> QED
      BY <1>1, <1>2, <2>1, <3>1 DEF Overlays, NewSection
  <2> QED
    BY <1>1, <2>2, <2>3, <2>4, <2>5, RemoveStep
<1>3. CASE s \in Existing /\ changes' = [changes EXCEPT ![s] = Unset]
           /\ deletes' = [deletes EXCEPT ![s] = {"whole"}] /\ creates' = creates
  <2>1. /\ changes \in [Name -> Opts] /\ deletes \in [Name -> SUBSET (Option \cup {"whole"})]
        /\ DOMAIN values \subseteq Name
    BY DEF Overlays
  <2>2. s \in Name /\ s \notin DOMAIN creates /\ Unset \in Opts
    BY <1>3, Apart DEF Unset, Opts
  <2>3. /\ deletes'[s] = {"whole"}
        /\ \A t \in Name : t # s => deletes'[t] = deletes[t] /\ changes'[t] = changes[t]
    BY <1>3, <2>1, <2>2
  <2>4. Existing' = Existing \ {s} /\ Shown' = Shown \ {s}
    BY <1>1, <1>3, <2>1, <2>2, <2>3 DEF Existing, Shown
  <2>5. \A t \in Shown' : IndexOf(t)' = IndexOf(t)
    BY <1>1, <1>3 DEF IndexOf
  <2>6. \A t \in Shown', w \in Option : Get(t, w)' = Get(t, w)
    <3>1. \A t \in Shown : t \in DOMAIN creates \/ t \in Name
      BY Apart DEF Shown
    <3> QED
      BY <1>1, <1>3, <2>3, <2>4, <3>1 DEF Get
  <2>7. Overlays'
    <3>1. changes' \in [Name -> Opts]
      BY <1>3, <2>1, <2>2
    <3>2. deletes' \in [Name -> SUBSET (Option \cup {"whole"})]
      BY <1>3, <2>1
    <3> QED
      BY <1>1, <1>3, <3>1, <3>2 DEF Overlays, NewSection
  <2> QED
    BY <1>1, <2>4, <2>5, <2>6, <2>7, RemoveStep
<1> QED
  BY <1>2, <1>3 DEF Remove

\* Looking at a section, and giving the created sections their names.
LEMMA LookStep ==
  ASSUME Overlays, Indexed, NEW s \in Existing, Look(s)
  PROVE  Overlays' /\ Indexed' /\ View' = View
<1>1. values' = Merged({s}) /\ UNCHANGED <<creates, changes, deletes, newidx>>
  BY DEF Look
<1>2. /\ Merged({s}) \in [DOMAIN values -> [opts : Opts, index : Nat]]
      /\ \A t \in DOMAIN values : Merged({s})[t].index = values[t].index
      /\ \A t \in Existing : Merged({s})[t].opts \in {values[t].opts, SectionOf(t).opts}
  BY MergedIs
<1>3. DOMAIN values' = DOMAIN values
  BY <1>1, <1>2
<1>4. Overlays'
  BY <1>1, <1>2, <1>3 DEF Overlays, NewSection
<1>5. Shown' = Shown /\ \A t \in Shown, w \in Option : Get(t, w)' = Get(t, w)
  BY <1>1, <1>2, <1>3, SameGet
<1>6. \A t \in Shown : IndexOf(t)' = IndexOf(t)
  <2>1. \A t \in Shown : t \in DOMAIN creates \/ t \in DOMAIN values
    BY Apart DEF Shown
  <2> QED
    BY <1>1, <1>2, <2>1 DEF IndexOf
<1>7. newidx' = newidx
  BY <1>1
<1> QED
  BY <1>4, <1>5, <1>6, <1>7, SameView

\* The device has named the new sections.
LEMMA AnsweredStep ==
  ASSUME Overlays, Indexed, Answered
  PROVE  Overlays' /\ Indexed' /\ View' = View
<1>1. /\ creates' = [s \in DOMAIN creates |-> Named(s)]
      /\ UNCHANGED <<values, changes, deletes, newidx>>
  BY DEF Answered
<1>2. ASSUME NEW s \in DOMAIN creates
      PROVE  /\ NewSection(creates'[s])
             /\ creates'[s].opts = creates[s].opts /\ creates'[s].index = creates[s].index
  <2> DEFINE e == creates[s]
  <2> PICK x : x = Answers[Place(AddCalls, s)]
    OBVIOUS
  <2>1. creates'[s] = [e EXCEPT !.name = x]
    BY <1>1 DEF Named
  <2>2. e = [opts |-> e.opts, index |-> e.index, name |-> e.name] /\ e.opts \in Opts /\ e.index \in Nat
    BY DEF Overlays, NewSection
  <2> HIDE DEF e
  <2>3. creates'[s] = [opts |-> e.opts, index |-> e.index, name |-> x]
    BY <2>1, <2>2
  <2> QED
    BY <2>2, <2>3 DEF NewSection, e
<1>3. DOMAIN creates' = DOMAIN creates /\ creates' = [s \in DOMAIN creates' |-> creates'[s]]
  BY <1>1
<1>4. Overlays'
  BY <1>1, <1>2, <1>3 DEF Overlays, NewSection
<1>5. Shown' = Shown /\ \A t \in Shown, w \in Option : Get(t, w)' = Get(t, w)
  <2>1. \A s \in Existing : values'[s].opts \in {values[s].opts, SectionOf(s).opts}
    BY <1>1
  <2> QED
    BY <1>1, <1>2, <1>3, <2>1, SameGet
<1>6. \A t \in Shown : IndexOf(t)' = IndexOf(t)
  BY <1>1, <1>2, <1>3 DEF IndexOf
<1>7. newidx' = newidx
  BY <1>1
<1> QED
  BY <1>4, <1>5, <1>6, <1>7, SameView

\* Steps that leave the overlays alone.
LEMMA SameOverlays ==
  ASSUME Overlays, Indexed, UNCHANGED <<values, creates, changes, deletes, newidx>>
  PROVE  Overlays' /\ Indexed' /\ View' = View
<1>1. Existing' = Existing /\ Shown' = Shown
  BY DEF Existing, Shown
<1>2. \A s \in Shown : IndexOf(s)' = IndexOf(s)
  BY DEF IndexOf
<1>3. \A s \in Shown, w \in Option : Get(s, w)' = Get(s, w)
  BY DEF Get
<1>4. Overlays'
  BY DEF Overlays, NewSection
<1>5. newidx' = newidx
  OBVIOUS
<1> QED
  BY <1>1, <1>2, <1>3, <1>4, <1>5, SameView

\* An empty cache fits.
LEMMA BlankFits ==
  ASSUME newidx \in Nat, Blank
  PROVE  Overlays /\ Indexed
<1>1. /\ DOMAIN values = {} /\ DOMAIN creates = {}
      /\ changes = [s \in Name |-> Unset] /\ deletes = [s \in Name |-> {}]
      /\ values = [s \in {} |-> None] /\ creates = [s \in {} |-> None]
  BY DEF Blank, EmptyFunction
<1>2. Unset \in Opts
  BY DEF Unset, Opts
<1>3. Overlays
  <2>1. changes \in [Name -> Opts] /\ deletes \in [Name -> SUBSET (Option \cup {"whole"})]
    BY <1>1, <1>2
  <2>2. values \in [DOMAIN values -> [opts : Opts, index : Nat]]
    BY <1>1
  <2>3. creates = [s \in DOMAIN creates |-> creates[s]]
    BY <1>1
  <2> QED
    BY <1>1, <2>1, <2>2, <2>3 DEF Overlays
<1>4. Shown = {}
  BY <1>1 DEF Shown, Existing
<1> QED
  BY <1>3, <1>4 DEF Indexed

\* What is loaded is shown as the device has it.
LEMMA LoadStep ==
  ASSUME DeviceFits, Overlays, Blank, LoadAnswer
  PROVE  Overlays' /\ Indexed' /\ View' = device
<1> DEFINE n == Len(device)
           seq == [i \in 1..n |-> device[i].name]
<1>1. /\ n \in Nat /\ DOMAIN device = 1..n
      /\ \A i \in 1..n : device[i] \in Section
      /\ device = [i \in 1..n |-> device[i]]
  BY DEF DeviceFits
<1>2. \A i, j \in 1..n : device[i].name = device[j].name => i = j
  <2>1. \A i, j \in 1..n : [k \in DOMAIN device |-> device[k].name][i]
                             = [k \in DOMAIN device |-> device[k].name][j] => i = j
    BY <1>1 DEF DeviceFits, DistinctNames, Distinct
  <2> QED
    BY <1>1, <2>1
<1>3. \A i \in 1..n : Position(device, device[i].name) = i
  <2> SUFFICES ASSUME NEW i \in 1..n
               PROVE  Position(device, device[i].name) = i
    OBVIOUS
  <2>1. i \in DOMAIN device /\ \A j \in DOMAIN device : device[j].name = device[i].name => j = i
    BY <1>1, <1>2
  <2> QED
    BY <2>1 DEF Position
<1>4. NamesOf(device) = {device[i].name : i \in 1..n}
  BY <1>1 DEF NamesOf
<1>5. /\ values' = [s \in NamesOf(device) |->
                      [opts |-> device[Position(device, s)].opts,
                       index |-> Position(device, s) - 1]]
      /\ UNCHANGED <<creates, changes, deletes, newidx>>
  BY DEF LoadAnswer
<1>6. /\ DOMAIN values' = {device[i].name : i \in 1..n}
      /\ \A i \in 1..n : values'[device[i].name] = [opts |-> device[i].opts, index |-> i - 1]
  BY <1>3, <1>4, <1>5
<1>7. /\ changes' = [s \in Name |-> Unset] /\ deletes' = [s \in Name |-> {}]
      /\ DOMAIN creates' = {} /\ creates' = [s \in {} |-> None]
  BY <1>5 DEF Blank, EmptyFunction
<1>8. \A i \in 1..n : /\ device[i].name \in Name /\ device[i].opts \in Opts
                      /\ device[i] = [name |-> device[i].name, opts |-> device[i].opts]
  BY <1>1 DEF Section
<1>9. n <= 1000
  <2> DEFINE f == [i \in 1..n |-> device[i].name]
  <2>1. f \in Injection(1..n, Name)
    BY <1>2, <1>8 DEF Injection, IsInjective
  <2>2. IsFiniteSet(1..n) /\ Cardinality(1..n) = n
    <3>1. 1 \in Int /\ n \in Int
      BY <1>1
    <3>2. /\ IsFiniteSet(1..n)
          /\ Cardinality(1..n) = IF 1 > n THEN 0 ELSE n - 1 + 1
      BY <3>1, FS_Interval
    <3> HIDE DEF n
    <3> QED
      BY <1>1, <3>2
  <2>3. IsFiniteSet(Name) /\ Cardinality(Name) <= 1000 /\ Cardinality(Name) \in Nat
    BY NameAssumption, FS_CardinalityType
  <2> HIDE DEF n, f
  <2>4. Cardinality(1..n) <= Cardinality(Name)
    BY <2>1, <2>2, <2>3, FS_Injection
  <2> QED
    BY <1>1, <2>2, <2>3, <2>4
<1> HIDE DEF n
<1>10. Overlays'
  <2>1. DOMAIN values' \subseteq Name
    BY <1>6, <1>8
  <2>2. values' \in [DOMAIN values' -> [opts : Opts, index : Nat]]
    <3>1. values' = [s \in DOMAIN values' |-> values'[s]]
      BY <1>5
    <3>2. \A i \in 1..n : [opts |-> device[i].opts, index |-> i - 1] \in [opts : Opts, index : Nat]
      BY <1>1, <1>8
    <3>3. \A s \in DOMAIN values' : values'[s] \in [opts : Opts, index : Nat]
      BY <1>6, <3>2
    <3> QED
      BY <3>1, <3>3
  <2>3. changes' \in [Name -> Opts] /\ deletes' \in [Name -> SUBSET (Option \cup {"whole"})]
    BY <1>5 DEF Overlays
  <2>4. creates' = [s \in DOMAIN creates' |-> creates'[s]] /\ newidx' \in Nat
    BY <1>5 DEF Overlays
  <2> QED
    BY <1>7, <2>1, <2>2, <2>3, <2>4 DEF Overlays
<1>11. Shown' = {device[i].name : i \in 1..n}
  <2>1. \A s \in DOMAIN values' : "whole" \notin deletes'[s]
    BY <1>6, <1>7, <1>8
  <2> QED
    BY <1>6, <1>7, <2>1 DEF Shown, Existing
<1>12. \A i \in 1..n : seq[i] = device[i].name /\ seq[i] \in Shown' /\ Keys'[seq[i]] = i - 1
  <2>1. \A i \in 1..n : device[i].name \in Shown' /\ IndexOf(device[i].name)' = i - 1
    <3>1. ASSUME NEW i \in 1..n
          PROVE  device[i].name \in Shown' /\ IndexOf(device[i].name)' = i - 1
      <4> PICK s : s = device[i].name
        OBVIOUS
      <4>1. s \in Shown' /\ s \notin DOMAIN creates'
        BY <1>7, <1>11
      <4>2. values'[s] = [opts |-> device[i].opts, index |-> i - 1]
        BY <1>6
      <4>3. values'[device[i].name].index = i - 1
        BY <4>2
      <4>4. device' = device
        BY DEF LoadAnswer
      <4> QED
        BY <4>1, <4>3, <4>4 DEF IndexOf
    <3> QED
      BY <3>1
  <2>2. device' = device
    BY DEF LoadAnswer
  <2> QED
    BY <2>1, <2>2 DEF Keys
<1> HIDE DEF seq
<1>13. Lists(seq, n, Shown', Keys') /\ Keys' \in [Shown' -> Int]
  <2>1. seq \in [1..n -> Shown']
    BY <1>12 DEF seq
  <2>2. \A s \in Shown' : \E k \in 1..n : seq[k] = s
    BY <1>11, <1>12
  <2>3. Keys' \in [Shown' -> Int]
    <3>1. Keys' = [s \in Shown' |-> Keys'[s]]
      BY DEF Keys
    <3>2. \A s \in Shown' : Keys'[s] \in Int
      BY <1>12, <2>2
    <3> QED
      BY <3>1, <3>2
  <2>4. \A k, l \in 1..n : k < l => Keys'[seq[k]] < Keys'[seq[l]]
    BY <1>12
  <2> QED
    BY <1>1, <2>1, <2>2, <2>3, <2>4 DEF Lists
<1>14. Indexed'
  <2>1. newidx' \in Nat
    BY <1>5 DEF Overlays
  <2>2. \A s \in Shown' : Keys'[s] < NewIndex'
    <3>1. \A k \in 1..n : Keys'[seq[k]] < NewIndex'
      BY <1>1, <1>9, <1>12, <2>1 DEF NewIndex
    <3> QED
      BY <1>13, <3>1 DEF Lists
  <2>3. \A s, t \in Shown' : Keys'[s] = Keys'[t] => s = t
    BY <1>13, ListsKeys
  <2>4. \A s \in Shown' : Keys'[s] = IndexOf(s)'
    BY DEF Keys
  <2> QED
    BY <2>2, <2>3, <2>4 DEF Indexed
<1>15. View' = [i \in 1..n |-> Contents'[seq[i]]]
  BY <1>13, NextView
<1>16. ASSUME NEW i \in 1..n
       PROVE  Contents'[seq[i]] = device[i]
  <2> PICK s : s = seq[i]
    OBVIOUS
  <2>1. s \in Shown' /\ s \in Name /\ s = device[i].name /\ s \notin DOMAIN creates'
    BY <1>7, <1>8, <1>12
  <2>2. Contents'[s] = [name |-> s, opts |-> [o \in Option |-> Get(s, o)']]
    BY <2>1 DEF Contents, SectionOf
  <2>3. changes'[s] = [o \in Option |-> None] /\ deletes'[s] = {}
    BY <1>7, <2>1 DEF Unset
  <2>4. values'[s].opts = device[i].opts
    <3>1. values'[device[i].name] = [opts |-> device[i].opts, index |-> i - 1]
      BY <1>6
    <3>2. s = device[i].name
      BY <2>1
    <3>3. values'[s] = [opts |-> device[i].opts, index |-> i - 1]
      BY ONLY <3>1, <3>2
    <3> QED
      BY ONLY <3>3
  <2>5. \A o \in Option : Get(s, o)' = device[i].opts[o]
    BY <2>1, <2>3, <2>4 DEF Get
  <2>6. device[i].opts = [o \in Option |-> device[i].opts[o]]
    BY <1>8 DEF Opts
  <2>7. [o \in Option |-> Get(s, o)'] = device[i].opts
    BY <2>5, <2>6
  <2> QED
    BY <1>8, <2>1, <2>2, <2>7
<1> QED
  BY <1>1, <1>10, <1>14, <1>15, <1>16

\* Sections in a row, each with a name of its own.
LEMMA NamesConcat ==
  ASSUME NEW u \in Seq(Section), NEW w \in Seq(Section), DistinctNames(u), DistinctNames(w),
         \A i \in DOMAIN u, j \in DOMAIN w : u[i].name # w[j].name
  PROVE  u \o w \in Seq(Section) /\ DistinctNames(u \o w)
<1>1. /\ u \o w \in Seq(Section)
      /\ \A i \in DOMAIN (u \o w) : \/ i \in DOMAIN u /\ (u \o w)[i] = u[i]
                                    \/ /\ i - Len(u) \in DOMAIN w
                                       /\ (u \o w)[i] = w[i - Len(u)]
  OBVIOUS
<1>2. /\ \A i, j \in DOMAIN u : u[i].name = u[j].name => i = j
      /\ \A i, j \in DOMAIN w : w[i].name = w[j].name => i = j
  BY DEF DistinctNames, Distinct
<1>3. PICK uw : uw = u \o w
  OBVIOUS
<1>4. /\ DOMAIN uw \subseteq Int /\ Len(u) \in Int
      /\ \A i \in DOMAIN uw : \/ i \in DOMAIN u /\ uw[i] = u[i]
                              \/ i - Len(u) \in DOMAIN w /\ uw[i] = w[i - Len(u)]
  BY <1>1, <1>3
<1>5. ASSUME NEW i \in DOMAIN uw, NEW j \in DOMAIN uw, uw[i].name = uw[j].name
      PROVE  i = j
  <2>1. CASE i \in DOMAIN u /\ uw[i] = u[i]
    <3>1. j \in DOMAIN u /\ uw[j] = u[j]
      BY <1>4, <1>5, <2>1
    <3> QED
      BY <1>2, <1>5, <2>1, <3>1
  <2>2. CASE i - Len(u) \in DOMAIN w /\ uw[i] = w[i - Len(u)]
    <3>1. j - Len(u) \in DOMAIN w /\ uw[j] = w[j - Len(u)]
      BY <1>4, <1>5, <2>2
    <3>2. i - Len(u) = j - Len(u)
      BY <1>2, <1>5, <2>2, <3>1
    <3>3. i \in Int /\ j \in Int
      BY <1>4
    <3> QED
      BY <1>4, <3>2, <3>3
  <2> QED
    BY <1>4, <2>1, <2>2
<1>6. DistinctNames(uw)
  BY <1>5 DEF DistinctNames, Distinct
<1> QED
  BY <1>1, <1>3, <1>6

\* Sections with different names, some of them selected, have different names.
LEMMA NamesSelected ==
  ASSUME NEW u \in Seq(Section), DistinctNames(u), NEW S \in SUBSET (DOMAIN u)
  PROVE  /\ Selected(u, S) \in Seq(Section) /\ DistinctNames(Selected(u, S))
         /\ \A k \in DOMAIN Selected(u, S) : \E i \in S : Selected(u, S)[k] = u[i]
<1>1. /\ Selected(u, S) \in Seq(Section)
      /\ \A k \in DOMAIN Selected(u, S) :
           Ascending(S)[k] \in S /\ Selected(u, S)[k] = u[Ascending(S)[k]]
      /\ \A k, l \in DOMAIN Selected(u, S) : Ascending(S)[k] = Ascending(S)[l] => k = l
  BY SelectedFacts
<1>2. \A i, j \in DOMAIN u : u[i].name = u[j].name => i = j
  BY DEF DistinctNames, Distinct
<1>3. ASSUME NEW k \in DOMAIN Selected(u, S), NEW l \in DOMAIN Selected(u, S),
             Selected(u, S)[k].name = Selected(u, S)[l].name
      PROVE  k = l
  <2>1. /\ Ascending(S)[k] \in DOMAIN u /\ Selected(u, S)[k] = u[Ascending(S)[k]]
        /\ Ascending(S)[l] \in DOMAIN u /\ Selected(u, S)[l] = u[Ascending(S)[l]]
    BY <1>1
  <2>2. Ascending(S)[k] = Ascending(S)[l]
    BY <1>2, <1>3, <2>1
  <2> QED
    BY <1>1, <2>2
<1>4. DistinctNames(Selected(u, S))
  BY <1>3 DEF DistinctNames, Distinct
<1> QED
  BY <1>1, <1>4

\* rpcd finds names for what the page has created.
LEMMA NamesFound ==
  ASSUME NEW config, NEW m \in Nat, m <= Cardinality(Name \ NamesOf(config))
  PROVE  /\ FreshNames(config, m) \in [1..m -> Name \ NamesOf(config)]
         /\ Distinct(FreshNames(config, m))
<1> DEFINE free == Name \ NamesOf(config)
           c == Cardinality(free)
<1>1. IsFiniteSet(free) /\ c \in Nat /\ ExistsBijection(1..c, free)
  <2>1. free \in SUBSET Name /\ IsFiniteSet(Name)
    BY NameAssumption
  <2> HIDE DEF free
  <2>2. IsFiniteSet(free)
    BY <2>1, FS_Subset
  <2> QED
    BY <2>2, FS_CardinalityType
<1>2. m <= c
  OBVIOUS
<1> HIDE DEF c, free
<1>3. PICK f : f \in [1..c -> free] /\ \A i, j \in 1..c : f[i] = f[j] => i = j
  BY <1>1 DEF ExistsBijection, Bijection, Injection, IsInjective
<1> DEFINE g == [i \in 1..m |-> f[i]]
<1>4. g \in [1..m -> free] /\ Distinct(g)
  <2>1. \A i \in 1..m : i \in 1..c
    BY <1>1, <1>2
  <2> QED
    BY <1>3, <2>1 DEF Distinct
<1> HIDE DEF g
<1>5. FreshNames(config, m) = CHOOSE names \in [1..m -> free] : Distinct(names)
  BY DEF FreshNames, free
<1>6. FreshNames(config, m) \in [1..m -> free] /\ Distinct(FreshNames(config, m))
  BY <1>4, <1>5
<1> QED
  BY <1>6 DEF free

\* The calls that add the sections A are in the order in which the page created
\* them.
LEMMA SomeCallsList ==
  ASSUME Overlays, NEW A \in SUBSET DOMAIN creates
  PROVE  /\ A \subseteq Int /\ IsFiniteSet(A) /\ IsFiniteSet(DOMAIN creates)
         /\ Lists(Ascending(A), Cardinality(A), A, [s \in A |-> s])
         /\ Len(Ascending(A)) = Cardinality(A)
<1> DEFINE D == DOMAIN creates
           key == [s \in A |-> s]
<1>1. D \in SUBSET (0..(newidx - 1)) /\ 0 \in Int /\ newidx - 1 \in Int
  BY DEF Overlays
<1>2. /\ IsFiniteSet(D) /\ D \subseteq Int
      /\ IsFiniteSet(A) /\ A \subseteq Int
  <2> DEFINE N == 0..(newidx - 1)
  <2>1. IsFiniteSet(N) /\ N \subseteq Int
    BY <1>1, FS_Interval
  <2>2. D \in SUBSET N /\ A \in SUBSET N
    BY <1>1
  <2> HIDE DEF D, N
  <2> QED
    BY ONLY <2>1, <2>2, FS_Subset
<1>3. key \in [A -> Int] /\ \A s, t \in A : key[s] = key[t] => s = t
  BY <1>2
<1>4. Ascending(A) = ByKey(A, key)
  BY DEF Ascending
<1> HIDE DEF key
<1>5. Lists(Ascending(A), Cardinality(A), A, key)
  BY <1>2, <1>3, <1>4, ByKeyLists
<1>6. Len(Ascending(A)) = Cardinality(A)
  BY <1>5 DEF Lists
<1> QED
  BY <1>2, <1>5, <1>6 DEF D, key

\* The same of all calls that add.
LEMMA AddCallsList ==
  ASSUME Overlays
  PROVE  /\ DOMAIN creates \subseteq Int /\ IsFiniteSet(DOMAIN creates)
         /\ Lists(AddCalls, Cardinality(DOMAIN creates), DOMAIN creates, [s \in DOMAIN creates |-> s])
         /\ Len(AddCalls) = Cardinality(DOMAIN creates)
BY SomeCallsList DEF AddCalls

\* What rpcd keeps of the sections, and what it names the new ones, when only the
\* calls for the sections C and A are carried out.
LEMMA PartsFit ==
  ASSUME DeviceFits, Overlays, Cardinality(DOMAIN creates) <= Cardinality(Name \ NamesOf(device)),
         NEW C, NEW A \in SUBSET DOMAIN creates
  PROVE  /\ AfterDeletes(C) \in Seq(Section) /\ DistinctNames(AfterDeletes(C))
         /\ \A k \in DOMAIN AfterDeletes(C) : \E i \in DOMAIN device : AfterDeletes(C)[k] = device[i]
         /\ FreshNames(AfterDeletes(C), Len(Ascending(A)))
              \in [1..Len(Ascending(A)) -> Name \ NamesOf(AfterDeletes(C))]
         /\ Distinct(FreshNames(AfterDeletes(C), Len(Ascending(A))))
         /\ Len(Ascending(A)) \in Nat /\ DOMAIN Ascending(A) = 1..Len(Ascending(A))
         /\ \A i \in 1..Len(Ascending(A)) : Ascending(A)[i] \in A
<1> DEFINE kept == AfterDeletes(C)
           D == DOMAIN creates
           m == Len(Ascending(A))
           names == FreshNames(kept, m)
<1>1. /\ kept \in Seq(Section) /\ DistinctNames(kept)
      /\ \A k \in DOMAIN kept : \E i \in DOMAIN device : kept[k] = device[i]
  <2> DEFINE K == {i \in DOMAIN device :
                     device[i].name \notin C \/ "whole" \notin deletes[device[i].name]}
  <2>1. K \in SUBSET (DOMAIN device) /\ device \in Seq(Section) /\ DistinctNames(device)
    BY DEF DeviceFits
  <2>2. kept = Selected(device, K)
    BY DEF AfterDeletes
  <2> HIDE DEF K, kept
  <2> QED
    BY <2>1, <2>2, NamesSelected
<1>2. NamesOf(kept) \subseteq NamesOf(device)
  BY <1>1 DEF NamesOf
<1>3. /\ m = Cardinality(A) /\ m \in Nat /\ DOMAIN Ascending(A) = 1..m
      /\ \A i \in 1..m : Ascending(A)[i] \in A
  BY SomeCallsList DEF Lists
<1>4. Cardinality(A) <= Cardinality(D) /\ Cardinality(A) \in Nat /\ Cardinality(D) \in Nat
  <2>1. IsFiniteSet(D) /\ A \in SUBSET D
    BY SomeCallsList
  <2> HIDE DEF D
  <2> QED
    BY <2>1, FS_Subset, FS_CardinalityType
<1> HIDE DEF D, kept, m
<1>5. names \in [1..m -> Name \ NamesOf(kept)] /\ Distinct(names)
  <2> DEFINE more == Name \ NamesOf(kept)
             free == Name \ NamesOf(device)
  <2>1. free \in SUBSET more /\ more \in SUBSET Name /\ IsFiniteSet(Name)
    BY <1>2, NameAssumption
  <2>2. Cardinality(D) <= Cardinality(free)
    BY DEF D
  <2> HIDE DEF more, free
  <2>3. IsFiniteSet(more) /\ IsFiniteSet(free)
    BY <2>1, FS_Subset
  <2>4. Cardinality(free) <= Cardinality(more) /\ Cardinality(free) \in Nat /\ Cardinality(more) \in Nat
    BY <2>1, <2>3, FS_Subset, FS_CardinalityType
  <2>5. m <= Cardinality(more)
    BY <1>3, <1>4, <2>2, <2>4
  <2> QED
    BY <1>3, <2>5, NamesFound DEF more
<1> HIDE DEF names
<1> QED
  BY <1>1, <1>3, <1>5 DEF kept, m, names

\* The same of the whole batch.
LEMMA BatchParts ==
  ASSUME DeviceFits, Overlays, Cardinality(DOMAIN creates) <= Cardinality(Name \ NamesOf(device))
  PROVE  /\ AfterDeletes(Name) \in Seq(Section) /\ DistinctNames(AfterDeletes(Name))
         /\ \A k \in DOMAIN AfterDeletes(Name) :
              \E i \in DOMAIN device : AfterDeletes(Name)[k] = device[i]
         /\ FreshNames(AfterDeletes(Name), Len(AddCalls))
              \in [1..Len(AddCalls) -> Name \ NamesOf(AfterDeletes(Name))]
         /\ Distinct(FreshNames(AfterDeletes(Name), Len(AddCalls)))
         /\ Len(AddCalls) \in Nat /\ DOMAIN AddCalls = 1..Len(AddCalls)
         /\ \A i \in 1..Len(AddCalls) : AddCalls[i] \in DOMAIN creates
BY PartsFit DEF AddCalls

\* What rpcd makes of a section it keeps.
LEMMA SomeSetFits ==
  ASSUME Overlays, NEW e \in Section, NEW D, NEW C
  PROVE  /\ AfterSet(e, D, C) \in Section /\ AfterSet(e, D, C).name = e.name
         /\ AfterSet(e, D, C).opts =
              [o \in Option |-> IF e.name \in D /\ o \in deletes[e.name] THEN None
                                ELSE IF e.name \in C /\ changes[e.name][o] # None
                                  THEN changes[e.name][o]
                                ELSE e.opts[o]]
         /\ AfterSet(e, D, C) = [name |-> e.name, opts |-> AfterSet(e, D, C).opts]
<1>1. e \in [name : Name, opts : [Option -> Val \cup {None}]]
  BY DEF Section, Opts
<1> DEFINE x == [o \in Option |-> IF e.name \in D /\ o \in deletes[e.name] THEN None
                                  ELSE IF e.name \in C /\ changes[e.name][o] # None
                                    THEN changes[e.name][o]
                                  ELSE e.opts[o]]
<1>2. changes[e.name] \in [Option -> Val \cup {None}]
  BY <1>1 DEF Overlays, Opts
<1>3. x \in [Option -> Val \cup {None}]
  BY <1>1, <1>2
<1>4. AfterSet(e, D, C) = [e EXCEPT !.opts = x]
  BY DEF AfterSet
<1>5. AfterSet(e, D, C).opts = x
  <2> HIDE DEF x
  <2> QED
    BY <1>1, <1>4
<1>6. /\ AfterSet(e, D, C) \in [name : Name, opts : [Option -> Val \cup {None}]]
      /\ AfterSet(e, D, C).name = e.name
      /\ AfterSet(e, D, C) = [name |-> e.name, opts |-> AfterSet(e, D, C).opts]
  <2> HIDE DEF x
  <2> QED
    BY <1>1, <1>3, <1>4
<1> QED
  BY <1>5, <1>6 DEF Section, Opts

\* In short.
LEMMA SomeSetNames ==
  ASSUME Overlays, NEW D, NEW C
  PROVE  \A e \in Section : AfterSet(e, D, C) \in Section /\ AfterSet(e, D, C).name = e.name
<1> SUFFICES ASSUME NEW e \in Section
             PROVE  AfterSet(e, D, C) \in Section /\ AfterSet(e, D, C).name = e.name
  OBVIOUS
<1>1. /\ AfterSet(e, D, C) \in Section /\ AfterSet(e, D, C).name = e.name
      /\ AfterSet(e, D, C).opts =
           [o \in Option |-> IF e.name \in D /\ o \in deletes[e.name] THEN None
                             ELSE IF e.name \in C /\ changes[e.name][o] # None
                               THEN changes[e.name][o]
                             ELSE e.opts[o]]
      /\ AfterSet(e, D, C) = [name |-> e.name, opts |-> AfterSet(e, D, C).opts]
  BY SomeSetFits
<1> QED
  BY <1>1

\* The same when all calls are carried out.
LEMMA AfterSetFits ==
  ASSUME Overlays, NEW e \in Section
  PROVE  /\ AfterSet(e, Name, Name) \in Section /\ AfterSet(e, Name, Name).name = e.name
         /\ AfterSet(e, Name, Name).opts =
              [o \in Option |-> IF o \in deletes[e.name] THEN None
                                ELSE IF changes[e.name][o] # None THEN changes[e.name][o]
                                ELSE e.opts[o]]
         /\ AfterSet(e, Name, Name) = [name |-> e.name, opts |-> AfterSet(e, Name, Name).opts]
<1>1. e.name \in Name
  BY DEF Section
<1> QED
  BY <1>1, SomeSetFits

\* Whichever calls of the batch are carried out, the sections have names of their
\* own again.
LEMMA CallsFit ==
  ASSUME DeviceFits, Overlays, Cardinality(DOMAIN creates) <= Cardinality(Name \ NamesOf(device)),
         NEW S, NEW C, NEW D \in SUBSET DOMAIN creates
  PROVE  AfterCalls(S, C, D) \in Seq(Section) /\ DistinctNames(AfterCalls(S, C, D))
<1> DEFINE kept == AfterDeletes(S)
           added == Ascending(D)
           m == Len(added)
           names == FreshNames(kept, m)
           A == [i \in DOMAIN kept |-> AfterSet(kept[i], S, C)]
           B == [i \in DOMAIN added |-> [name |-> names[i], opts |-> creates[added[i]].opts]]
<1>0. \A e \in Section : AfterSet(e, S, C) \in Section /\ AfterSet(e, S, C).name = e.name
  BY SomeSetNames
<1>1. AfterCalls(S, C, D) = A \o B
  BY DEF AfterCalls
<1>2. /\ kept \in Seq(Section) /\ DistinctNames(kept)
      /\ names \in [1..m -> Name \ NamesOf(kept)] /\ Distinct(names)
  BY PartsFit
<1>3. \A k \in DOMAIN kept : kept[k].name \in NamesOf(kept)
  BY DEF NamesOf
<1>4. m \in Nat /\ DOMAIN added = 1..m /\ \A i \in 1..m : added[i] \in D
  BY PartsFit
<1>5. names \in [1..m -> Name \ NamesOf(kept)] /\ Distinct(names)
  BY <1>2
<1> HIDE DEF kept, added, m, names
<1>6. /\ A \in Seq(Section) /\ DOMAIN A = DOMAIN kept
      /\ \A i \in DOMAIN kept : A[i].name = kept[i].name
  <2>1. ASSUME NEW i \in DOMAIN kept
        PROVE  AfterSet(kept[i], S, C) \in Section /\ AfterSet(kept[i], S, C).name = kept[i].name
    <3>1. kept[i] \in Section
      BY <1>2
    <3> QED
      BY <1>0, <3>1
  <2>2. PICK k \in Nat : DOMAIN kept = 1..k
    BY <1>2
  <2>3. A \in [1..k -> Section] /\ DOMAIN A = DOMAIN kept
    BY <2>1, <2>2
  <2>4. \A i \in DOMAIN kept : A[i].name = kept[i].name
    BY <2>1
  <2> HIDE DEF A
  <2> QED
    BY <2>2, <2>3, <2>4
<1>7. /\ B \in Seq(Section) /\ DOMAIN B = 1..m
      /\ \A i \in 1..m : B[i].name = names[i]
  <2>1. \A i \in 1..m : names[i] \in Name /\ creates[added[i]].opts \in Opts
    <3>1. \A s \in D : creates[s].opts \in Opts
      BY DEF Overlays, NewSection
    <3> QED
      BY <1>4, <1>5, <3>1
  <2>2. B \in [1..m -> Section]
    BY <1>4, <2>1 DEF Section
  <2>3. \A i \in 1..m : B[i].name = names[i]
    BY <1>4
  <2> HIDE DEF B
  <2> QED
    BY <1>4, <2>2, <2>3
<1>8. DistinctNames(A) /\ DistinctNames(B)
  <2>1. \A i, j \in DOMAIN kept : kept[i].name = kept[j].name => i = j
    BY <1>2 DEF DistinctNames, Distinct
  <2>2. \A i, j \in 1..m : names[i] = names[j] => i = j
    BY <1>5 DEF Distinct
  <2> HIDE DEF A, B
  <2>3. DistinctNames(A)
    BY <1>6, <2>1 DEF DistinctNames, Distinct
  <2>4. DistinctNames(B)
    BY <1>7, <2>2 DEF DistinctNames, Distinct
  <2> QED
    BY <2>3, <2>4
<1>9. \A i \in DOMAIN A, j \in DOMAIN B : A[i].name # B[j].name
  <2> HIDE DEF A, B
  <2>1. \A i \in DOMAIN A : A[i].name \in NamesOf(kept)
    BY <1>3, <1>6
  <2>2. \A j \in DOMAIN B : B[j].name \notin NamesOf(kept)
    BY <1>5, <1>7
  <2> QED
    BY <2>1, <2>2
<1> HIDE DEF A, B
<1> QED
  BY <1>1, <1>6, <1>7, <1>8, <1>9, NamesConcat

\* The same of the whole batch.
LEMMA BatchFits ==
  ASSUME DeviceFits, Overlays, Cardinality(DOMAIN creates) <= Cardinality(Name \ NamesOf(device))
  PROVE  AfterBatch \in Seq(Section) /\ DistinctNames(AfterBatch)
BY CallsFit DEF AfterBatch

\* The order that is sent lists the sections.
LEMMA OrderListed ==
  ASSUME Overlays
  PROVE  Listed(ToOrder)
<1> DEFINE S == DOMAIN values \cup DOMAIN creates
           c == Cardinality(S)
           all == Sorted(S)
           names == [i \in DOMAIN all |-> IF all[i] \in DOMAIN creates THEN Named(all[i]).name ELSE all[i]]
<1>1. c \in Nat
  <2> DEFINE N == 0..(newidx - 1)
  <2>1. IsFiniteSet(N) /\ IsFiniteSet(Name)
    <3>1. 0 \in Int /\ newidx - 1 \in Int
      BY DEF Overlays
    <3> QED
      BY <3>1, NameAssumption, FS_Interval
  <2>2. S \in SUBSET (Name \cup N)
    BY DEF Overlays
  <2> HIDE DEF S, N
  <2>3. IsFiniteSet(Name \cup N)
    BY <2>1, FS_Union
  <2> QED
    BY <2>2, <2>3, FS_Subset, FS_CardinalityType
<1>2. DOMAIN all = 1..c
  BY DEF Sorted
<1>3. ToOrder = <<>> \/ ToOrder = names
  BY DEF ToOrder
<1> HIDE DEF all, c
<1>4. DOMAIN names = 1..c /\ names = [i \in 1..c |-> names[i]]
  BY <1>2
<1> HIDE DEF names
<1>5. CASE ToOrder = names
  <2> DEFINE T == {names[i] : i \in DOMAIN names}
  <2>1. names \in [1..c -> T]
    BY <1>4
  <2> HIDE DEF T
  <2>2. names \in Seq(T)
    BY <1>1, <2>1
  <2> QED
    BY <1>5, <2>2 DEF Listed, T
<1>6. CASE ToOrder = <<>>
  BY <1>6 DEF Listed
<1> QED
  BY <1>3, <1>5, <1>6

\* Ordering keeps the sections apart.
LEMMA OrderFits ==
  ASSUME NEW config \in Seq(Section), DistinctNames(config), NEW names, Listed(names)
  PROVE  Ordered(config, names) \in Seq(Section) /\ DistinctNames(Ordered(config, names))
<1> DEFINE last == {i \in DOMAIN names : /\ names[i] \in NamesOf(config)
                                        /\ \A j \in DOMAIN names : j > i => names[j] # names[i]}
           placed == Selected(names, last)
           others == {i \in DOMAIN config : \A j \in last : names[j] # config[i].name}
           P == [i \in DOMAIN placed |-> config[Position(config, placed[i])]]
           Q == Selected(config, others)
<1>1. Ordered(config, names) = P \o Q
  BY DEF Ordered
<1>2. /\ placed \in Seq({names[i] : i \in DOMAIN names})
      /\ \A k \in DOMAIN placed : Ascending(last)[k] \in last /\ placed[k] = names[Ascending(last)[k]]
      /\ \A k, l \in DOMAIN placed : Ascending(last)[k] = Ascending(last)[l] => k = l
  <2> DEFINE T == {names[i] : i \in DOMAIN names}
  <2>1. names \in Seq(T) /\ last \in SUBSET (DOMAIN names)
    BY DEF Listed
  <2> HIDE DEF last, T
  <2>2. /\ placed \in Seq(T)
        /\ \A k \in DOMAIN placed : Ascending(last)[k] \in last /\ placed[k] = names[Ascending(last)[k]]
        /\ \A k, l \in DOMAIN placed : Ascending(last)[k] = Ascending(last)[l] => k = l
    BY <2>1, SelectedFacts
  <2> QED
    BY <2>2 DEF T
<1>3. \A i, j \in last : names[i] = names[j] => i = j
  <2>1. DOMAIN names \subseteq Int
    BY DEF Listed
  <2>2. ASSUME NEW i \in last, NEW j \in last, names[i] = names[j]
        PROVE  i = j
    <3>1. ~(j > i) /\ ~(i > j)
      BY <2>2
    <3>2. i \in Int /\ j \in Int
      BY <2>1
    <3> QED
      BY <3>1, <3>2
  <2> QED
    BY <2>2
<1>4. \A i \in last : names[i] \in NamesOf(config)
  OBVIOUS
<1> HIDE DEF last, placed
<1>5. /\ \A k \in DOMAIN placed : placed[k] \in NamesOf(config)
      /\ \A k, l \in DOMAIN placed : placed[k] = placed[l] => k = l
      /\ \A k \in DOMAIN placed : \E j \in last : placed[k] = names[j]
  BY <1>2, <1>3, <1>4
<1>6. \A s \in NamesOf(config) : /\ Position(config, s) \in DOMAIN config
                                 /\ config[Position(config, s)].name = s
                                 /\ config[Position(config, s)] \in Section
  <2>1. \A s \in NamesOf(config) : \E i \in DOMAIN config : config[i].name = s
    BY DEF NamesOf
  <2>2. \A s \in NamesOf(config) : /\ Position(config, s) \in DOMAIN config
                                   /\ config[Position(config, s)].name = s
    BY <2>1 DEF Position
  <2> QED
    BY <2>2
<1>7. P \in Seq(Section) /\ DOMAIN P = DOMAIN placed /\ \A k \in DOMAIN placed : P[k].name = placed[k]
  <2>1. PICK m \in Nat : DOMAIN placed = 1..m
    BY <1>2
  <2>2. \A k \in DOMAIN placed : P[k] \in Section /\ P[k].name = placed[k]
    BY <1>5, <1>6
  <2>3. P \in [1..m -> Section] /\ DOMAIN P = DOMAIN placed
    BY <2>1, <2>2
  <2> HIDE DEF P
  <2> QED
    BY <2>1, <2>2, <2>3
<1>8. /\ Q \in Seq(Section) /\ DistinctNames(Q)
      /\ \A k \in DOMAIN Q : \E i \in others : Q[k] = config[i]
  <2>1. others \in SUBSET (DOMAIN config)
    OBVIOUS
  <2> HIDE DEF others
  <2> QED
    BY <2>1, NamesSelected
<1>9. \A i \in others, j \in last : names[j] # config[i].name
  OBVIOUS
<1> HIDE DEF P, Q, others
<1>10. DistinctNames(P)
  BY <1>5, <1>7 DEF DistinctNames, Distinct
<1>11. \A k \in DOMAIN P, l \in DOMAIN Q : P[k].name # Q[l].name
  <2> SUFFICES ASSUME NEW k \in DOMAIN P, NEW l \in DOMAIN Q
               PROVE  P[k].name # Q[l].name
    OBVIOUS
  <2>1. PICK j \in last : placed[k] = names[j]
    BY <1>5, <1>7
  <2>2. PICK i \in others : Q[l] = config[i]
    BY <1>8
  <2>3. P[k].name = names[j]
    BY <1>7, <2>1
  <2> QED
    BY <1>9, <2>2, <2>3
<1> QED
  BY <1>1, <1>7, <1>8, <1>10, <1>11, NamesConcat

-----------------------------------------------------------------------------
(* The configuration cache implements a document                           *)

\* The same of the next state.
LEMMA NextBlankFits ==
  (newidx \in Nat /\ Blank => Overlays /\ Indexed)'
<1>1. newidx \in Nat /\ Blank => Overlays /\ Indexed
  BY BlankFits
<1> QED
  BY <1>1, PTL

\* What an edit does to the document.
LEMMA EditShown ==
  ASSUME loaded = "here", loaded' = "here", device' = device, Document!Edits(View, View')
  PROVE  Document!Next
<1> DEFINE doc == IF loaded = "here" THEN View ELSE <<>>
<1>1. doc = View /\ doc' = View'
  OBVIOUS
<1>2. Document!Edit
  BY <1>1 DEF Document!Edit
<1> QED
  BY <1>2 DEF Document!Next

\* What is not loaded, and what does not change, is a step of the document.
LEMMA NothingShown ==
  ASSUME loaded' = loaded \/ (loaded # "here" /\ loaded' # "here"), View' = View
  PROVE  Document!Next
BY DEF Document!Next

\* A document that is closed is hidden.
LEMMA HiddenNow ==
  ASSUME loaded' # "here", device' = device
  PROVE  Document!Next
BY DEF Document!Next, Document!Hide

\* An edit of the cache is an edit of the document.
LEMMA EditStepShown ==
  ASSUME CacheFits, EditStep
  PROVE  CacheFits' /\ Document!Next
<1>1. loaded = "here" /\ loaded' = "here" /\ device' = device /\ order' = order
  BY DEF EditStep, Add, Clone, Remove, Look, Set, Move, Edit, Editing, save
<1>2. DeviceFits' /\ Listed(order)' /\ Overlays /\ Indexed
  BY <1>1 DEF CacheFits, DeviceFits, Listed
<1>3. Overlays' /\ Indexed' /\ Document!Edits(View, View')
  <2>1. CASE Add
    <3>1. Unset \in Opts
      BY DEF Unset, Opts
    <3>2. Create(Unset) /\ UNCHANGED <<values, changes, deletes>>
      BY <2>1 DEF Add
    <3>3. Overlays' /\ Indexed' /\ Document!AddSection(View, View')
      BY <1>2, <3>1, <3>2, CreateStep
    <3> QED
      BY <3>3 DEF Document!Edits
  <2>2. ASSUME NEW s \in Shown, Clone(s)
        PROVE  Overlays' /\ Indexed' /\ Document!Edits(View, View')
    <3> DEFINE x == IF s \in DOMAIN values THEN values[s].opts ELSE Unset
    <3>1. x \in Opts
      BY <1>2 DEF Unset, Opts, Overlays
    <3>2. Create(x) /\ UNCHANGED <<values, changes, deletes>>
      BY <2>2 DEF Clone
    <3> HIDE DEF x
    <3>3. Overlays' /\ Indexed' /\ Document!AddSection(View, View')
      BY <1>2, <3>1, <3>2, CreateStep
    <3> QED
      BY <3>3 DEF Document!Edits
  <2>3. ASSUME NEW s \in Shown, Remove(s)
        PROVE  Overlays' /\ Indexed' /\ Document!Edits(View, View')
    <3>1. Overlays' /\ Indexed' /\ Document!RemoveSection(View, View')
      BY <1>2, <2>3, RemoveEdit
    <3> QED
      BY <3>1 DEF Document!Edits
  <2>4. ASSUME NEW s, Look(s)
        PROVE  Overlays' /\ Indexed' /\ Document!Edits(View, View')
    <3>1. s \in Existing
      BY <2>4 DEF Look
    <3>2. Overlays' /\ Indexed' /\ View' = View
      BY <1>2, <2>4, <3>1, LookStep
    <3> QED
      BY <3>2 DEF Document!Edits
  <2>5. ASSUME NEW s \in Shown, NEW o \in Option, NEW v \in Val \cup {None}, Set(s, o, v)
        PROVE  Overlays' /\ Indexed' /\ Document!Edits(View, View')
    <3>1. UNCHANGED <<values, newidx>>
      BY <2>5 DEF Set
    <3>2. CASE SetNew(s, o, v)
      <4>1. Overlays' /\ Indexed' /\ Document!SetOption(View, View')
        BY <1>2, <3>1, <3>2, SetNewStep
      <4> QED
        BY <4>1 DEF Document!Edits
    <3>3. CASE SetLoaded(s, o, v) \/ UnsetLoaded(s, o, v)
      <4>1. Overlays' /\ Indexed' /\ Document!SetOption(View, View')
        BY <1>2, <3>1, <3>3, SetLoadedStep
      <4> QED
        BY <4>1 DEF Document!Edits
    <3> QED
      BY <2>5, <3>2, <3>3 DEF Set
  <2>6. ASSUME NEW s1 \in Shown, NEW s2 \in Shown, NEW after \in BOOLEAN, Move(s1, s2, after)
        PROVE  Overlays' /\ Indexed' /\ Document!Edits(View, View')
    <3>1. Overlays' /\ Indexed' /\ Document!MoveSection(View, View')
      BY <1>2, <2>6, MoveStep
    <3> QED
      BY <3>1 DEF Document!Edits
  <2> QED
    BY <2>1, <2>2, <2>3, <2>4, <2>5, <2>6 DEF EditStep, Shown
<1>4. CacheFits'
  BY <1>1, <1>2, <1>3 DEF CacheFits
<1>5. Document!Next
  BY <1>1, <1>3, EditShown
<1> QED
  BY <1>4, <1>5

\* A step that keeps the overlays and what is loaded.
LEMMA KeptStep ==
  ASSUME CacheFits, UNCHANGED <<values, creates, changes, deletes, newidx>>,
         loaded' = loaded \/ (loaded # "here" /\ loaded' # "here"),
         DeviceFits', Listed(order)'
  PROVE  CacheFits' /\ Document!Next
<1>1. Overlays' /\ Indexed' /\ View' = View
  BY SameOverlays DEF CacheFits
<1>2. loaded' # "here" => Blank'
  BY DEF CacheFits, Blank
<1>3. CacheFits'
  BY <1>1, <1>2 DEF CacheFits
<1>4. Document!Next
  BY <1>1, NothingShown
<1> QED
  BY <1>3, <1>4

\* The cache is cleared.
LEMMA ClearedStep ==
  ASSUME CacheFits, Clean, newidx' \in Nat, loaded' # "here", device' = device, order' = <<>>
  PROVE  CacheFits' /\ Document!Next
<1>1. Blank'
  BY DEF Clean, Blank, EmptyFunction, Unset
<1>2. Overlays' /\ Indexed'
  BY <1>1, NextBlankFits
<1>3. DeviceFits'
  BY DEF CacheFits, DeviceFits
<1>4. Listed(order)'
  BY DEF Listed
<1>5. CacheFits'
  BY <1>1, <1>2, <1>3, <1>4 DEF CacheFits
<1> QED
  BY <1>5, HiddenNow

\* The cache is loaded, or closed.
LEMMA LoadStepShown ==
  ASSUME CacheFits, Load \/ LoadAnswer \/ LoadFails \/ Reopen
  PROVE  CacheFits' /\ Document!Next
<1>1. CASE Load \/ LoadFails
  <2>1. /\ UNCHANGED <<values, creates, changes, deletes, newidx>>
        /\ loaded # "here" /\ loaded' # "here" /\ device' = device /\ order' = order
    BY <1>1 DEF Load, LoadFails, overlay, save
  <2>2. DeviceFits' /\ Listed(order)'
    BY <2>1 DEF CacheFits, DeviceFits, Listed
  <2> QED
    BY <2>1, <2>2, KeptStep
<1>2. CASE LoadAnswer
  <2>1. loaded = "asked" /\ loaded' = "here" /\ device' = device /\ order' = order
    BY <1>2 DEF LoadAnswer, save
  <2>2. Overlays' /\ Indexed' /\ View' = device
    BY <1>2, <2>1, LoadStep DEF CacheFits
  <2>3. CacheFits'
    BY <2>1, <2>2 DEF CacheFits, DeviceFits, Listed
  <2>4. Document!Next
    BY <2>1, <2>2 DEF Document!Next, Document!Show
  <2> QED
    BY <2>3, <2>4
<1>3. CASE Reopen
  <2>1. Clean /\ newidx' \in Nat /\ loaded' # "here" /\ device' = device /\ order' = <<>>
    BY <1>3 DEF Reopen
  <2> QED
    BY <2>1, ClearedStep
<1> QED
  BY <1>1, <1>2, <1>3

\* The cache is saved.
LEMMA SaveStepShown ==
  ASSUME CacheFits, SaveStep
  PROVE  CacheFits' /\ Document!Next
<1>0. DeviceFits /\ Listed(order) /\ Overlays /\ Indexed /\ (loaded # "here" => Blank)
  BY DEF CacheFits
<1>6. CASE RpcdSavesInPart
  <2>1. /\ UNCHANGED <<values, creates, changes, deletes, newidx>>
        /\ loaded' = loaded /\ order' = <<>>
        /\ Cardinality(DOMAIN creates) <= Cardinality(Name \ NamesOf(device))
        /\ \E D \in SUBSET DeleteCalls, C \in SUBSET SetCalls, A \in SUBSET DOMAIN creates :
             device' = AfterCalls(D, C, A)
    BY <1>6 DEF RpcdSavesInPart, overlay
  <2>2. DeviceFits'
    BY <1>0, <2>1, CallsFit DEF DeviceFits
  <2>3. Listed(order)'
    BY <2>1 DEF Listed
  <2> QED
    BY <2>1, <2>2, <2>3, KeptStep
<1>1. CASE Save \/ SaveFails
  <2>1. /\ UNCHANGED <<values, creates, changes, deletes, newidx>>
        /\ loaded' = loaded /\ device' = device /\ order' \in {order, <<>>}
    BY <1>1 DEF Save, SaveFails, overlay
  <2>2. DeviceFits'
    BY <1>0, <2>1 DEF DeviceFits
  <2>3. Listed(order)'
    <3>1. Listed(<<>>)
      BY DEF Listed
    <3>2. CASE order' = order
      BY <1>0, <3>2 DEF Listed
    <3>3. CASE order' = <<>>
      BY <3>1, <3>3 DEF Listed
    <3> QED
      BY <2>1, <3>2, <3>3
  <2> QED
    BY <2>1, <2>2, <2>3, KeptStep
<1>2. CASE RpcdSaves
  <2>1. /\ UNCHANGED <<values, creates, changes, deletes, newidx>>
        /\ loaded' = loaded /\ device' = AfterBatch /\ order' = order
        /\ Cardinality(DOMAIN creates) <= Cardinality(Name \ NamesOf(device))
    BY <1>2 DEF RpcdSaves, overlay
  <2>2. DeviceFits' /\ Listed(order)'
    BY <1>0, <2>1, BatchFits DEF DeviceFits, Listed
  <2> QED
    BY <2>1, <2>2, KeptStep
<1>3. CASE Answered
  <2>1. loaded' = loaded /\ device' = device /\ order' = ToOrder
    BY <1>3 DEF Answered
  <2>2. Overlays' /\ Indexed' /\ View' = View
    BY <1>0, <1>3, AnsweredStep
  <2>3. DeviceFits' /\ Listed(order)'
    BY <1>0, <2>1, OrderListed DEF DeviceFits, Listed
  <2>4. loaded # "here" => Blank'
    <3> SUFFICES ASSUME loaded # "here"
                 PROVE  Blank'
      OBVIOUS
    <3>1. Blank /\ DOMAIN creates = {}
      BY <1>0 DEF Blank, EmptyFunction
    <3>2. creates' = [s \in {} |-> Named(s)] /\ UNCHANGED <<values, changes, deletes>>
      BY <1>3, <3>1 DEF Answered
    <3>3. creates' = EmptyFunction
      BY <3>2 DEF EmptyFunction
    <3> QED
      BY <3>1, <3>2, <3>3 DEF Blank, EmptyFunction, Unset
  <2>5. CacheFits'
    BY <2>1, <2>2, <2>3, <2>4 DEF CacheFits
  <2>6. Document!Next
    BY <2>1, <2>2, NothingShown
  <2> QED
    BY <2>5, <2>6
<1>4. CASE RpcdOrders
  <2>1. /\ UNCHANGED <<values, creates, changes, deletes, newidx>>
        /\ loaded' = loaded /\ device' = Ordered(device, order) /\ order' = order
    BY <1>4 DEF RpcdOrders, overlay
  <2>2. Ordered(device, order) \in Seq(Section) /\ DistinctNames(Ordered(device, order))
    BY <1>0, OrderFits DEF DeviceFits
  <2>3. DeviceFits' /\ Listed(order)'
    BY <1>0, <2>1, <2>2 DEF DeviceFits, Listed
  <2> QED
    BY <2>1, <2>3, KeptStep
<1>5. CASE Finish
  <2>1. device' = device /\ order' = <<>>
    BY <1>5 DEF Finish
  <2>2. CASE touched = {}
    <3>1. UNCHANGED <<values, creates, changes, deletes, newidx>> /\ loaded' = loaded
      BY <1>5, <2>2 DEF Finish, overlay
    <3>2. DeviceFits' /\ Listed(order)'
      BY <1>0, <2>1 DEF DeviceFits, Listed
    <3> QED
      BY <3>1, <3>2, KeptStep
  <2>3. CASE touched # {}
    <3>1. Clean /\ loaded' # "here" /\ newidx' \in Nat
      BY <1>0, <1>5, <2>3 DEF Finish, Overlays
    <3> QED
      BY <2>1, <3>1, ClearedStep
  <2> QED
    BY <2>2, <2>3
<1> QED
  BY <1>1, <1>2, <1>3, <1>4, <1>5, <1>6 DEF SaveStep

\* At first no document is shown.
LEMMA InitShown ==
  Init => CacheFits /\ Document!Init
<1> SUFFICES ASSUME Init
             PROVE  CacheFits /\ Document!Init
  OBVIOUS
<1>1. Closed /\ device = Stored
  BY DEF Init
<1>2. Blank /\ newidx \in Nat /\ loaded = "no" /\ order = <<>>
  BY <1>1 DEF Closed, Blank
<1>3. Overlays /\ Indexed
  BY <1>2, BlankFits
<1>4. DeviceFits /\ Listed(order)
  BY <1>1, <1>2, StoredAssumption DEF DeviceFits, Listed
<1> QED
  BY <1>2, <1>3, <1>4 DEF CacheFits, Document!Init

\* Every step of the cache is a step of the document, or none.
LEMMA NextShown ==
  CacheFits /\ [Next]_vars
    => CacheFits' /\ [Document!Next]_<<loaded = "here", IF loaded = "here" THEN View ELSE <<>>, device>>
<1> SUFFICES ASSUME CacheFits, [Next]_vars
             PROVE  CacheFits' /\ Document!Next
  OBVIOUS
<1>1. CASE Next
  BY <1>1, LoadStepShown, EditStepShown, SaveStepShown DEF Next
<1>2. CASE UNCHANGED vars
  <2>1. /\ UNCHANGED <<values, creates, changes, deletes, newidx>>
        /\ loaded' = loaded /\ device' = device /\ order' = order
    BY <1>2 DEF vars, overlay, save
  <2>2. DeviceFits' /\ Listed(order)'
    BY <2>1 DEF CacheFits, DeviceFits, Listed
  <2> QED
    BY <2>1, <2>2, KeptStep
<1> QED
  BY <1>1, <1>2

\* Whatever is edited, lost or saved again: the sections of the device keep
\* names of their own, those of the page keep indices ('.index' of uci.js) of
\* their own below the next one that add() gives out, and what is to be loaded
\* again has no overlays.
THEOREM CacheInvariance ==
  Spec => []CacheFits
BY InitShown, NextShown, PTL DEF Spec

\* The overlays are a document, for any configuration of the device with names
\* of their own for its sections, and any number of edits, faults and saves:
\* what get() of uci.js says of the sections sections() lists, and their order,
\* change by one edit at a time and are the device's whenever that is loaded.
\* The records sections() hands out are not meant: they may still hold an option
\* that was deleted (Recorded).
THEOREM CacheIsDocument ==
  Spec => IsDocument
BY InitShown, NextShown, PTL DEF Spec, IsDocument, Document!Spec

-----------------------------------------------------------------------------
(* Saving delivers what the page shows                                     *)

\* a names the sections of config, which has each section of the page, with the
\* options the page sees, and nothing else.
Carries(a, config) ==
  /\ \A s, t \in Shown : a[s] = a[t] => s = t
  /\ Within(config) = {[name |-> a[s], opts |-> Contents[s].opts] : s \in Shown}

\* Where the sections of the page are in config.
LEMMA CarriedPlaces ==
  ASSUME NEW config \in Seq(Section), DistinctNames(config),
         NEW a \in [Shown -> Name], Carries(a, config)
  PROVE  /\ \A s \in Shown :
              /\ Position(config, a[s]) \in DOMAIN config
              /\ config[Position(config, a[s])].name = a[s]
              /\ config[Position(config, a[s])].opts = Contents[s].opts
         /\ \A j \in DOMAIN config : \E s \in Shown : Position(config, a[s]) = j
         /\ \A s, t \in Shown : Position(config, a[s]) = Position(config, a[t]) => s = t
<1>1. \A i, j \in DOMAIN config : config[i].name = config[j].name => i = j
  BY DEF DistinctNames, Distinct
<1>2. ASSUME NEW s \in Shown, NEW j \in DOMAIN config,
             config[j] = [name |-> a[s], opts |-> Contents[s].opts]
      PROVE  Position(config, a[s]) = j /\ config[j].name = a[s] /\ config[j].opts = Contents[s].opts
  <2>1. config[j].name = a[s] /\ config[j].opts = Contents[s].opts
    BY <1>2
  <2>2. \A i \in DOMAIN config : config[i].name = a[s] => i = j
    BY <1>1, <2>1
  <2> QED
    BY <2>1, <2>2 DEF Position
<1>3. \A s \in Shown : \E j \in DOMAIN config : config[j] = [name |-> a[s], opts |-> Contents[s].opts]
  BY DEF Carries, Within
<1>4. \A j \in DOMAIN config : \E s \in Shown : config[j] = [name |-> a[s], opts |-> Contents[s].opts]
  BY DEF Carries, Within
<1>5. \A s \in Shown :
        /\ Position(config, a[s]) \in DOMAIN config
        /\ config[Position(config, a[s])].name = a[s]
        /\ config[Position(config, a[s])].opts = Contents[s].opts
  BY <1>2, <1>3
<1>6. \A j \in DOMAIN config : \E s \in Shown : Position(config, a[s]) = j
  BY <1>2, <1>4
<1>7. \A s, t \in Shown : Position(config, a[s]) = Position(config, a[t]) => s = t
  BY <1>5 DEF Carries
<1> QED
  BY <1>5, <1>6, <1>7

\* A configuration that carries the sections has them, in some order.
LEMMA CarriedIsSame ==
  ASSUME Overlays, Indexed, NEW config \in Seq(Section), DistinctNames(config),
         NEW a \in [Shown -> Name], Carries(a, config)
  PROVE  SameSections(View, config)
<1> DEFINE n == Cardinality(Shown)
           f(i) == Position(config, a[Sections[i]])
<1>1. /\ n \in Nat /\ DOMAIN View = 1..n
      /\ \A i \in 1..n : Sections[i] \in Shown /\ View[i] = Contents[Sections[i]]
      /\ \A s \in Shown : \E i \in 1..n : Sections[i] = s
      /\ \A i, j \in 1..n : Sections[i] = Sections[j] => i = j
  <2>1. /\ Lists(Sections, n, Shown, Keys) /\ Keys \in [Shown -> Int]
        /\ View = [i \in 1..n |-> Contents[Sections[i]]]
    BY SectionsList
  <2>2. \A i, j \in 1..n : Sections[i] = Sections[j] => i = j
    BY <2>1, ListsOnce
  <2>3. /\ n \in Nat /\ \A i \in 1..n : Sections[i] \in Shown
        /\ \A s \in Shown : \E i \in 1..n : Sections[i] = s
    BY <2>1 DEF Lists
  <2> HIDE DEF n
  <2> QED
    BY <2>1, <2>2, <2>3
<1> HIDE DEF n
<1>2. /\ \A i \in 1..n : f(i) \in DOMAIN config /\ config[f(i)].opts = View[i].opts
      /\ \A j \in DOMAIN config : \E i \in 1..n : f(i) = j
      /\ \A i, j \in 1..n : f(i) = f(j) => i = j
  <2>1. /\ \A s \in Shown :
             /\ Position(config, a[s]) \in DOMAIN config
             /\ config[Position(config, a[s])].opts = Contents[s].opts
        /\ \A j \in DOMAIN config : \E s \in Shown : Position(config, a[s]) = j
        /\ \A s, t \in Shown : Position(config, a[s]) = Position(config, a[t]) => s = t
    BY CarriedPlaces
  <2>2. \A i \in 1..n : f(i) \in DOMAIN config /\ config[f(i)].opts = View[i].opts
    BY <1>1, <2>1
  <2>3. \A j \in DOMAIN config : \E i \in 1..n : f(i) = j
    BY <1>1, <2>1
  <2>4. \A i, j \in 1..n : f(i) = f(j) => i = j
    BY <1>1, <2>1
  <2> QED
    BY <2>2, <2>3, <2>4
<1> HIDE DEF f
<1>3. ASSUME NEW x0
      PROVE  Cardinality({i \in DOMAIN View : View[i].opts = x0})
               = Cardinality({i \in DOMAIN config : config[i].opts = x0})
  <2> DEFINE S == {i \in 1..n : View[i].opts = x0}
             T == {i \in DOMAIN config : config[i].opts = x0}
             g == [i \in S |-> f(i)]
  <2>1. g \in [S -> T]
    BY <1>2
  <2>2. \A j \in T : \E i \in S : g[i] = j
    BY <1>2
  <2>3. \A i, j \in S : g[i] = g[j] => i = j
    BY <1>2
  <2>4. IsFiniteSet(S)
    <3>1. 1 \in Int /\ n \in Int /\ S \in SUBSET (1..n)
      BY <1>1
    <3> HIDE DEF S
    <3>2. IsFiniteSet(1..n)
      BY <3>1, FS_Interval
    <3> QED
      BY <3>1, <3>2, FS_Subset
  <2> HIDE DEF S, T, g
  <2>5. g \in Bijection(S, T)
    BY <2>1, <2>2, <2>3 DEF Bijection, Injection, Surjection, IsInjective
  <2>6. Cardinality(S) = Cardinality(T)
    BY <2>4, <2>5, FS_Bijection DEF ExistsBijection
  <2> QED
    BY <1>1, <2>6 DEF S, T
<1> QED
  BY <1>3 DEF SameSections

\* Configurations with the same contents have the same sections.
LEMMA SameContentsSame ==
  ASSUME NEW c1, NEW c2, ContentsOf(c1) = ContentsOf(c2)
  PROVE  SameSections(c1, c2)
<1>1. DOMAIN c1 = DOMAIN c2
  <2>1. DOMAIN ContentsOf(c1) = DOMAIN c1 /\ DOMAIN ContentsOf(c2) = DOMAIN c2
    BY DEF ContentsOf
  <2> QED
    BY <2>1
<1>2. \A i \in DOMAIN c1 : c1[i].opts = c2[i].opts
  <2>1. \A i \in DOMAIN c1 : ContentsOf(c1)[i] = c1[i].opts /\ ContentsOf(c2)[i] = c2[i].opts
    BY <1>1 DEF ContentsOf
  <2> QED
    BY <2>1
<1>3. \A x0 : {i \in DOMAIN c1 : c1[i].opts = x0} = {i \in DOMAIN c2 : c2[i].opts = x0}
  BY <1>1, <1>2
<1> QED
  BY <1>3 DEF SameSections

\* All positions, in order.
LEMMA AscendingAll ==
  ASSUME NEW n \in Nat
  PROVE  Ascending(1..n) = [i \in 1..n |-> i]
<1> DEFINE id == [i \in 1..n |-> i]
<1>1. id \in [1..n -> Int] /\ Lists(id, n, 1..n, id)
  BY DEF Lists
<1> HIDE DEF id
<1>2. ByKey(1..n, id) = id
  BY <1>1, ListsUnique
<1> QED
  BY <1>2 DEF Ascending, id

\* What is selected when everything is.
LEMMA SelectedAll ==
  ASSUME NEW T, NEW seq \in Seq(T)
  PROVE  Selected(seq, DOMAIN seq) = seq
<1> PICK n \in Nat : DOMAIN seq = 1..n
  OBVIOUS
<1>1. Ascending(1..n) = [i \in 1..n |-> i]
  BY AscendingAll
<1>2. Cardinality(1..n) = n
  <2>1. 1 \in Int /\ n \in Int
    OBVIOUS
  <2>2. Cardinality(1..n) = IF 1 > n THEN 0 ELSE n - 1 + 1
    BY <2>1, FS_Interval
  <2> QED
    BY <2>2
<1>3. Selected(seq, DOMAIN seq) = [k \in 1..n |-> seq[Ascending(1..n)[k]]]
  BY <1>2 DEF Selected
<1>4. Selected(seq, DOMAIN seq) = [k \in 1..n |-> seq[k]]
  BY <1>1, <1>3
<1> QED
  BY <1>4

-----------------------------------------------------------------------------

\* Each section the page has created has its place among the calls.
LEMMA AddCallsPlace ==
  ASSUME Overlays
  PROVE  /\ \A s \in DOMAIN creates : /\ Place(AddCalls, s) \in 1..Len(AddCalls)
                                      /\ AddCalls[Place(AddCalls, s)] = s
         /\ \A i \in 1..Len(AddCalls) : AddCalls[i] \in DOMAIN creates /\ Place(AddCalls, AddCalls[i]) = i
         /\ DOMAIN AddCalls = 1..Len(AddCalls) /\ Len(AddCalls) \in Nat
<1> DEFINE D == DOMAIN creates
           key == [s \in D |-> s]
           m == Len(AddCalls)
<1>1. D \subseteq Int /\ Lists(AddCalls, m, D, key)
  BY AddCallsList
<1>2. key \in [D -> Int]
  BY <1>1
<1> HIDE DEF D, key
<1>3. \A i, j \in 1..m : AddCalls[i] = AddCalls[j] => i = j
  BY <1>1, <1>2, ListsOnce
<1>4. /\ m \in Nat /\ DOMAIN AddCalls = 1..m /\ \A i \in 1..m : AddCalls[i] \in D
      /\ \A s \in D : \E i \in 1..m : AddCalls[i] = s
  BY <1>1 DEF Lists
<1> HIDE DEF m
<1>5. \A s \in D : Place(AddCalls, s) \in 1..m /\ AddCalls[Place(AddCalls, s)] = s
  BY <1>4 DEF Place
<1>6. \A i \in 1..m : Place(AddCalls, AddCalls[i]) = i
  BY <1>3, <1>4, <1>5
<1> QED
  BY <1>4, <1>5, <1>6 DEF D, m

\* Option w of section s, which the device has as d, is what was loaded, or the
\* page has changed it; and what values has lost was deleted and looked at.
Traced(s, w, d) ==
  /\ values[s].opts[w] = d \/ changes[s][w] # None \/ w \in deletes[s]
  /\ values[s].opts[w] = None /\ d # None => w \in deletes[s] /\ <<s, w>> \in history.erased

AllTraced ==
  \A i \in DOMAIN device, w \in Option :
    device[i].name \in Existing => Traced(device[i].name, w, device[i].opts[w])

\* The names the sections of the page get on the device.
NewNames == FreshNames(AfterDeletes(Name), Len(AddCalls))

\* A section that is kept becomes what the page shows of it.
LEMMA KeptContents ==
  ASSUME Overlays, AllTraced, NEW i \in DOMAIN device, device[i] \in Section,
         device[i].name \in Existing
  PROVE  AfterSet(device[i], Name, Name).opts = Contents[device[i].name].opts
<1> DEFINE s == device[i].name
           d == device[i].opts
<1>1. s \in Shown /\ s \notin DOMAIN creates
  BY Apart DEF Shown
<1>2. Contents[s].opts = [o \in Option |-> Get(s, o)]
  BY <1>1 DEF Contents, SectionOf
<1>3. AfterSet(device[i], Name, Name).opts = [o \in Option |-> IF o \in deletes[s] THEN None
                                                   ELSE IF changes[s][o] # None THEN changes[s][o]
                                                   ELSE d[o]]
  BY AfterSetFits
<1>4. ASSUME NEW o \in Option
      PROVE  Get(s, o) = IF o \in deletes[s] THEN None
                         ELSE IF changes[s][o] # None THEN changes[s][o] ELSE d[o]
  <2>1. values[s].opts[o] = d[o] \/ changes[s][o] # None \/ o \in deletes[s]
    BY DEF AllTraced, Traced
  <2> HIDE DEF s, d
  <2> QED
    BY <1>1, <2>1 DEF Get
<1> QED
  BY <1>2, <1>3, <1>4

\* And so does a section that is added.
LEMMA AddedContents ==
  ASSUME Overlays, NEW s \in DOMAIN creates
  PROVE  s \in Shown /\ Contents[s].opts = creates[s].opts
<1>1. s \in Shown
  BY DEF Shown
<1>2. Contents[s].opts = [o \in Option |-> Get(s, o)]
  BY <1>1 DEF Contents, SectionOf
<1>3. creates[s].opts \in [Option -> Val \cup {None}]
  BY DEF Overlays, NewSection, Opts
<1>4. \A o \in Option : Get(s, o) = creates[s].opts[o]
  BY DEF Get
<1> QED
  BY <1>1, <1>2, <1>3, <1>4

\* The batch gives the device what the page shows.
LEMMA BatchCarries ==
  ASSUME DeviceFits, Overlays, Cardinality(DOMAIN creates) <= Cardinality(Name \ NamesOf(device)),
         NamesOf(device) = DOMAIN values, AllTraced
  PROVE  \E a \in [Shown -> Name] :
           /\ Carries(a, AfterBatch)
           /\ \A s \in Existing : a[s] = s
           /\ \A s \in DOMAIN creates : a[s] = NewNames[Place(AddCalls, s)]
<1> DEFINE kept == AfterDeletes(Name)
           K == {i \in DOMAIN device :
                   device[i].name \notin Name \/ "whole" \notin deletes[device[i].name]}
           m == Len(AddCalls)
           names == NewNames
           A == [i \in DOMAIN kept |-> AfterSet(kept[i], Name, Name)]
           B == [i \in DOMAIN AddCalls |-> [name |-> names[i], opts |-> creates[AddCalls[i]].opts]]
           a == [s \in Shown |-> IF s \in DOMAIN creates THEN names[Place(AddCalls, s)] ELSE s]
           record(s) == [name |-> a[s], opts |-> Contents[s].opts]
<1>1. AfterBatch = A \o B
  BY DEF AfterBatch, AfterCalls, AddCalls, NewNames
<1>2. /\ kept \in Seq(Section) /\ Within(kept) = {device[i] : i \in K}
      /\ \A i \in DOMAIN device : device[i] \in Section
  <2>1. K \in SUBSET (DOMAIN device) /\ device \in Seq(Section)
    BY DEF DeviceFits
  <2>2. kept = Selected(device, K)
    BY DEF AfterDeletes
  <2>3. \A i \in DOMAIN device : device[i] \in Section
    BY <2>1
  <2> HIDE DEF K, kept
  <2> QED
    BY <2>1, <2>2, <2>3, WithinSelected
<1>3. /\ names \in [1..m -> Name \ NamesOf(kept)] /\ Distinct(names)
      /\ m \in Nat /\ DOMAIN AddCalls = 1..m
  BY BatchParts DEF NewNames
<1>4. /\ \A s \in DOMAIN creates : Place(AddCalls, s) \in 1..m /\ AddCalls[Place(AddCalls, s)] = s
      /\ \A i \in 1..m : AddCalls[i] \in DOMAIN creates /\ Place(AddCalls, AddCalls[i]) = i
  BY AddCallsPlace
<1>5. /\ \A s \in Existing : /\ s \in Name /\ s \in DOMAIN values
                             /\ s \notin DOMAIN creates /\ "whole" \notin deletes[s]
      /\ \A s \in DOMAIN values : "whole" \notin deletes[s] => s \in Existing
      /\ \A s \in Shown : s \in Existing \/ s \in DOMAIN creates
  BY Apart DEF Existing, Shown
<1>6. /\ \A i \in K : i \in DOMAIN device /\ device[i].name \in Existing
      /\ \A s \in Existing : \E i \in K : device[i].name = s
  <2>0. \A i \in DOMAIN device : device[i].name \in Name
    BY <1>2 DEF Section
  <2>1. \A i \in DOMAIN device : device[i].name \in DOMAIN values
    BY DEF NamesOf
  <2>2. \A s \in DOMAIN values : \E i \in DOMAIN device : device[i].name = s
    BY DEF NamesOf
  <2>3. \A i \in K : i \in DOMAIN device /\ device[i].name \in Existing
    BY <1>5, <2>0, <2>1
  <2>4. \A s \in Existing : \E i \in K : device[i].name = s
    BY <1>5, <2>2
  <2> QED
    BY <2>3, <2>4
<1>7. NamesOf(kept) = Existing
  <2>1. NamesOf(kept) = {e.name : e \in Within(kept)}
    BY DEF NamesOf, Within
  <2> HIDE DEF K, kept
  <2>2. NamesOf(kept) = {device[i].name : i \in K}
    BY <1>2, <2>1
  <2> QED
    BY <1>6, <2>2
<1>8. /\ a \in [Shown -> Name]
      /\ \A s \in Existing : a[s] = s
      /\ \A s \in DOMAIN creates : a[s] = names[Place(AddCalls, s)] /\ a[s] \notin Existing
  <2>1. \A s \in Existing : s \in Shown /\ a[s] = s
    BY <1>5 DEF Shown
  <2>2. \A s \in DOMAIN creates : s \in Shown /\ a[s] = names[Place(AddCalls, s)]
    BY DEF Shown
  <2>3. \A i \in 1..m : names[i] \in Name /\ names[i] \notin Existing
    BY <1>3, <1>7
  <2>4. \A s \in Shown : a[s] \in Name
    BY <1>4, <1>5, <2>1, <2>2, <2>3
  <2>5. a \in [Shown -> Name]
    <3>1. a = [s \in Shown |-> a[s]]
      OBVIOUS
    <3> HIDE DEF a
    <3> QED
      BY <2>4, <3>1
  <2> QED
    BY <1>4, <2>1, <2>2, <2>3, <2>5
<1> HIDE DEF a, kept, K, m, names
<1>9. ASSUME NEW s \in Shown, NEW t \in Shown, a[s] = a[t]
      PROVE  s = t
  <2>1. CASE s \in Existing \/ t \in Existing
    BY <1>5, <1>8, <1>9, <2>1
  <2>2. CASE s \in DOMAIN creates /\ t \in DOMAIN creates
    <3>1. Place(AddCalls, s) = Place(AddCalls, t)
      BY <1>3, <1>4, <1>8, <1>9, <2>2 DEF Distinct
    <3> QED
      BY <1>4, <2>2, <3>1
  <2> QED
    BY <1>5, <2>1, <2>2
<1>10. ASSUME NEW i \in K
       PROVE  AfterSet(device[i], Name, Name) = record(device[i].name)
  <2> DEFINE s == device[i].name
  <2>1. i \in DOMAIN device /\ device[i] \in Section /\ s \in Existing
    BY <1>2, <1>6
  <2>2. AfterSet(device[i], Name, Name) = [name |-> s, opts |-> AfterSet(device[i], Name, Name).opts]
    BY <2>1, AfterSetFits
  <2>3. AfterSet(device[i], Name, Name).opts = Contents[s].opts
    BY <2>1, KeptContents
  <2>4. a[s] = s
    BY <1>8, <2>1
  <2> HIDE DEF s
  <2>5. AfterSet(device[i], Name, Name) = [name |-> a[s], opts |-> Contents[s].opts]
    BY ONLY <2>2, <2>3, <2>4
  <2> QED
    BY <2>5 DEF s
<1>11. A \in Seq(Section) /\ Within(A) = {record(s) : s \in Existing}
  <2>1. \A i \in DOMAIN kept : AfterSet(kept[i], Name, Name) \in Section
    <3>1. \A i \in DOMAIN kept : kept[i] \in Section
      BY <1>2
    <3>2. \A e \in Section : AfterSet(e, Name, Name) \in Section
      BY AfterSetFits
    <3> QED
      BY <3>1, <3>2
  <2>2. PICK k \in Nat : DOMAIN kept = 1..k
    BY <1>2
  <2>3. A \in [1..k -> Section]
    BY <2>1, <2>2
  <2>4. A \in Seq(Section)
    <3> HIDE DEF A
    <3> QED
      BY <2>2, <2>3
  <2>5. Within(A) = {AfterSet(e, Name, Name) : e \in Within(kept)}
    BY DEF Within
  <2>6. Within(A) = {AfterSet(device[i], Name, Name) : i \in K}
    BY <1>2, <2>5
  <2>7. Within(A) = {record(device[i].name) : i \in K}
    <3> HIDE DEF A, record
    <3> QED
      BY <1>10, <2>6
  <2> HIDE DEF A, record
  <2> QED
    BY <1>6, <2>4, <2>7
<1>12. B \in Seq(Section) /\ Within(B) = {record(s) : s \in DOMAIN creates}
  <2>1. \A i \in 1..m : names[i] \in Name /\ creates[AddCalls[i]].opts \in Opts
    <3>1. \A s \in DOMAIN creates : creates[s].opts \in Opts
      BY DEF Overlays, NewSection
    <3> QED
      BY <1>3, <1>4, <3>1
  <2>2. B \in [1..m -> Section]
    BY <1>3, <2>1 DEF Section
  <2>3. ASSUME NEW s \in DOMAIN creates
        PROVE  record(s) = [name |-> names[Place(AddCalls, s)], opts |-> creates[s].opts]
    <3>1. a[s] = names[Place(AddCalls, s)] /\ Contents[s].opts = creates[s].opts
      BY <1>8, AddedContents
    <3> QED
      BY <3>1
  <2>4. \A i \in 1..m : B[i] = record(AddCalls[i])
    <3>1. \A i \in 1..m : B[i] = [name |-> names[i], opts |-> creates[AddCalls[i]].opts]
      BY <1>3
    <3> HIDE DEF B, record
    <3> QED
      BY <1>4, <2>3, <3>1
  <2>5. DOMAIN B = 1..m
    BY <1>3
  <2> HIDE DEF B, record
  <2>6. Within(B) = {record(AddCalls[i]) : i \in 1..m}
    BY <2>4, <2>5 DEF Within
  <2>7. Within(B) = {record(s) : s \in DOMAIN creates}
    BY <1>4, <2>6
  <2> QED
    BY <1>3, <2>2, <2>7
<1>13. Within(AfterBatch) = {record(s) : s \in Shown}
  <2> HIDE DEF A, B, record
  <2>1. Within(AfterBatch) = Within(A) \cup Within(B)
    BY <1>1, <1>11, <1>12, WithinJoined
  <2> QED
    BY <1>11, <1>12, <2>1 DEF Shown
<1>14. Carries(a, AfterBatch)
  BY <1>9, <1>13 DEF Carries
<1> QED
  BY <1>8, <1>14 DEF names

NothingDeleted == \A s \in Name : deletes[s] = {}

\* If nothing is deleted, the new sections come behind all the others.
LEMMA BatchKeeps ==
  ASSUME DeviceFits, Overlays, Cardinality(DOMAIN creates) <= Cardinality(Name \ NamesOf(device)),
         NothingDeleted
  PROVE  /\ AfterDeletes(Name) = device
         /\ Len(device) \in Nat /\ DOMAIN device = 1..Len(device)
         /\ Len(AddCalls) \in Nat /\ Len(AfterBatch) = Len(device) + Len(AddCalls)
         /\ DOMAIN AfterBatch = 1..(Len(device) + Len(AddCalls))
         /\ \A i \in 1..Len(device) : AfterBatch[i] = AfterSet(device[i], Name, Name)
         /\ \A i \in 1..Len(AddCalls) :
              AfterBatch[Len(device) + i] = [name |-> NewNames[i], opts |-> creates[AddCalls[i]].opts]
<1> DEFINE m == Len(AddCalls)
           n == Len(device)
           A == [i \in DOMAIN device |-> AfterSet(device[i], Name, Name)]
           B == [i \in DOMAIN AddCalls |-> [name |-> NewNames[i], opts |-> creates[AddCalls[i]].opts]]
<1>1. device \in Seq(Section) /\ n \in Nat /\ DOMAIN device = 1..n /\ \A i \in 1..n : device[i] \in Section
  BY DEF DeviceFits
<1>2. AfterDeletes(Name) = device
  <2>1. {i \in DOMAIN device :
           device[i].name \notin Name \/ "whole" \notin deletes[device[i].name]} = DOMAIN device
    BY <1>1 DEF NothingDeleted, Section
  <2>2. AfterDeletes(Name) = Selected(device, DOMAIN device)
    BY <2>1 DEF AfterDeletes
  <2> QED
    BY <1>1, <2>2, SelectedAll
<1>3. AfterBatch = A \o B
  BY <1>2 DEF AfterBatch, AfterCalls, AddCalls, NewNames
<1>4. /\ m \in Nat /\ DOMAIN AddCalls = 1..m
      /\ NewNames \in [1..m -> Name] /\ \A i \in 1..m : AddCalls[i] \in DOMAIN creates
  BY BatchParts DEF NewNames
<1> HIDE DEF m, n
<1>5. A \in Seq(Section) /\ DOMAIN A = 1..n /\ \A i \in 1..n : A[i] = AfterSet(device[i], Name, Name)
  <2>1. \A e \in Section : AfterSet(e, Name, Name) \in Section
    BY AfterSetFits
  <2>2. A \in [1..n -> Section]
    BY <1>1, <2>1
  <2>3. \A i \in 1..n : A[i] = AfterSet(device[i], Name, Name)
    BY <1>1
  <2> HIDE DEF A
  <2> QED
    BY <1>1, <2>2, <2>3
<1>6. /\ B \in Seq(Section) /\ DOMAIN B = 1..m
      /\ \A i \in 1..m : B[i] = [name |-> NewNames[i], opts |-> creates[AddCalls[i]].opts]
  <2>1. \A i \in 1..m : NewNames[i] \in Name /\ creates[AddCalls[i]].opts \in Opts
    <3>1. \A s \in DOMAIN creates : creates[s].opts \in Opts
      BY DEF Overlays, NewSection
    <3> QED
      BY <1>4, <3>1
  <2>2. B \in [1..m -> Section]
    BY <1>4, <2>1 DEF Section
  <2>3. \A i \in 1..m : B[i] = [name |-> NewNames[i], opts |-> creates[AddCalls[i]].opts]
    BY <1>4
  <2> HIDE DEF B
  <2> QED
    BY <1>4, <2>2, <2>3
<1> HIDE DEF A, B
<1>7. /\ Len(A) = n /\ Len(B) = m /\ Len(A \o B) = n + m /\ DOMAIN (A \o B) = 1..(n + m)
      /\ \A i \in 1..n : (A \o B)[i] = A[i]
      /\ \A i \in 1..m : (A \o B)[n + i] = B[i]
  <2>1. Len(A) = n /\ Len(B) = m
    BY <1>1, <1>4, <1>5, <1>6
  <2>2. A \in Seq(Section) /\ B \in Seq(Section)
    BY <1>5, <1>6
  <2>3. /\ Len(A \o B) = Len(A) + Len(B) /\ DOMAIN (A \o B) = 1..(Len(A) + Len(B))
        /\ \A i \in 1..Len(A) : (A \o B)[i] = A[i]
        /\ \A i \in 1..Len(B) : (A \o B)[Len(A) + i] = B[i]
    BY <2>2
  <2> QED
    BY <2>1, <2>3
<1> QED
  BY <1>1, <1>2, <1>3, <1>4, <1>5, <1>6, <1>7 DEF m, n

\* The answers then name the new sections in the order of the calls.
LEMMA BatchAnswers ==
  ASSUME DeviceFits, Overlays, Cardinality(DOMAIN creates) <= Cardinality(Name \ NamesOf(device)),
         NothingDeleted, device' = AfterBatch, UNCHANGED <<creates, deletes>>
  PROVE  \A i \in 1..Len(AddCalls) : Answers'[i] = NewNames[i]
<1> DEFINE m == Len(AddCalls)
           n == Len(device)
           q == [i \in DOMAIN AddCalls |-> device'[Len(device') - m + i].name]
<1>1. DeleteCalls' = {} /\ AddCalls' = AddCalls
  <2>1. DeleteCalls' = {}
    BY DEF DeleteCalls, NothingDeleted
  <2> QED
    BY <2>1 DEF AddCalls
<1>2. Cardinality({}) = 0
  BY FS_EmptySet
<1>3. Answers' = [i \in 1..0 |-> None] \o q
  BY <1>1, <1>2 DEF Answers
<1>4. /\ n \in Nat /\ m \in Nat /\ Len(device') = n + m
      /\ \A i \in 1..m : device'[n + i] = [name |-> NewNames[i], opts |-> creates[AddCalls[i]].opts]
  BY BatchKeeps
<1>5. DOMAIN AddCalls = 1..m
  BY AddCallsPlace
<1>6. \A i \in 1..m : q[i] = NewNames[i]
  <2> SUFFICES ASSUME NEW i \in 1..m
               PROVE  q[i] = NewNames[i]
    OBVIOUS
  <2>1. Len(device') - m + i = n + i
    BY <1>4
  <2>2. device'[n + i].name = NewNames[i]
    <3>1. device'[n + i] = [name |-> NewNames[i], opts |-> creates[AddCalls[i]].opts]
      BY <1>4
    <3> QED
      BY ONLY <3>1
  <2>3. q[i] = device'[Len(device') - m + i].name
    BY <1>5
  <2> QED
    BY <2>1, <2>2, <2>3
<1>7. q = [i \in 1..m |-> q[i]]
  BY <1>5
<1> HIDE DEF q, m, n
<1>8. Answers' = q
  <2>1. q \in Seq({q[i] : i \in 1..m})
    BY <1>4, <1>7
  <2>2. [i \in 1..0 |-> None] = <<>>
    OBVIOUS
  <2> QED
    BY <1>3, <2>1, <2>2
<1> QED
  BY <1>6, <1>8 DEF m

\* A batch that says nothing changes nothing.
LEMMA BatchOfNothing ==
  ASSUME DeviceFits, Overlays, NothingDeleted, DOMAIN creates = {}, \A s \in Name : changes[s] = Unset
  PROVE  AfterBatch = device
<1>1. Cardinality(DOMAIN creates) <= Cardinality(Name \ NamesOf(device)) /\ Cardinality(DOMAIN creates) = 0
  <2>1. Name \ NamesOf(device) \in SUBSET Name
    OBVIOUS
  <2>2. Cardinality(Name \ NamesOf(device)) \in Nat
    BY <2>1, NameAssumption, FS_Subset, FS_CardinalityType
  <2>3. Cardinality(DOMAIN creates) = 0
    BY FS_EmptySet
  <2> QED
    BY <2>2, <2>3
<1>2. Len(AddCalls) = 0
  BY <1>1, AddCallsList
<1>3. /\ Len(device) \in Nat /\ DOMAIN device = 1..Len(device)
      /\ DOMAIN AfterBatch = 1..(Len(device) + Len(AddCalls))
      /\ \A i \in 1..Len(device) : AfterBatch[i] = AfterSet(device[i], Name, Name)
  BY <1>1, BatchKeeps
<1>4. \A i \in 1..Len(device) : AfterSet(device[i], Name, Name) = device[i]
  <2> SUFFICES ASSUME NEW e \in Section
               PROVE  AfterSet(e, Name, Name) = e
    BY <1>3 DEF DeviceFits
  <2>1. e.name \in Name /\ e.opts \in [Option -> Val \cup {None}] /\ e = [name |-> e.name, opts |-> e.opts]
    BY DEF Section, Opts
  <2>2. /\ AfterSet(e, Name, Name).opts = [o \in Option |-> IF o \in deletes[e.name] THEN None
                                                ELSE IF changes[e.name][o] # None THEN changes[e.name][o]
                                                ELSE e.opts[o]]
        /\ AfterSet(e, Name, Name) = [name |-> e.name, opts |-> AfterSet(e, Name, Name).opts]
    BY AfterSetFits
  <2>3. deletes[e.name] = {} /\ \A o \in Option : changes[e.name][o] = None
    BY <2>1 DEF NothingDeleted, Unset
  <2>4. AfterSet(e, Name, Name).opts = e.opts
    BY <2>1, <2>2, <2>3
  <2>5. AfterSet(e, Name, Name) = [name |-> e.name, opts |-> e.opts]
    BY ONLY <2>2, <2>4
  <2> QED
    BY <2>1, <2>5
<1>5. DOMAIN AfterBatch = DOMAIN device /\ \A i \in DOMAIN device : AfterBatch[i] = device[i]
  BY <1>2, <1>3, <1>4
<1>6. AfterBatch \in Seq(Section) /\ device \in Seq(Section)
  BY <1>1, BatchFits DEF DeviceFits
<1> QED
  BY <1>5, <1>6

\* What is loaded has the indices it has on the device, and what is created comes
\* behind it.
IndicesKept ==
  /\ \A i \in DOMAIN device : values[device[i].name].index = i - 1
  /\ \A s \in DOMAIN creates : creates[s].index = 1000 + s

\* If nothing is deleted or moved, the page shows what is loaded, and then what it
\* has created.
LEMMA SectionsInOrder ==
  ASSUME DeviceFits, Overlays, NothingDeleted, NamesOf(device) = DOMAIN values, IndicesKept
  PROVE  LET n == Len(device)
             m == Len(AddCalls)
             seq == [k \in 1..(n + m) |-> IF k <= n THEN device[k].name ELSE AddCalls[k - n]]
         IN Lists(seq, n + m, Shown, Keys)
<1> DEFINE n == Len(device)
           m == Len(AddCalls)
           seq == [k \in 1..(n + m) |-> IF k <= n THEN device[k].name ELSE AddCalls[k - n]]
<1>1. /\ n \in Nat /\ DOMAIN device = 1..n
      /\ \A k \in 1..n : device[k].name \in Name
      /\ \A k, l \in 1..n : device[k].name = device[l].name => k = l
  <2>1. /\ n \in Nat /\ DOMAIN device = 1..n
        /\ \A k \in 1..n : device[k].name \in Name
    <3>1. n \in Nat /\ DOMAIN device = 1..n /\ \A k \in 1..n : device[k] \in Section
      BY DEF DeviceFits
    <3>2. \A e \in Section : e.name \in Name
      BY DEF Section
    <3> HIDE DEF n
    <3> QED
      BY <3>1, <3>2
  <2>2. \A k, l \in 1..n : device[k].name = device[l].name => k = l
    BY <2>1 DEF DeviceFits, DistinctNames, Distinct
  <2> QED
    BY <2>1, <2>2
<1>2. /\ m \in Nat /\ \A i \in 1..m : AddCalls[i] \in DOMAIN creates
      /\ \A s \in DOMAIN creates : \E i \in 1..m : AddCalls[i] = s
  BY AddCallsPlace
<1>3. \A i, j \in 1..m : i < j => AddCalls[i] < AddCalls[j]
  <2> DEFINE D == DOMAIN creates
             key == [s \in D |-> s]
  <2>1. Lists(AddCalls, m, D, key)
    BY AddCallsList
  <2>2. \A s \in D : key[s] = s
    OBVIOUS
  <2> HIDE DEF D, key
  <2> QED
    BY <1>2, <2>1, <2>2 DEF Lists, D
<1>4. n <= 1000
  <2> DEFINE f == [k \in 1..n |-> device[k].name]
  <2>1. f \in Injection(1..n, Name)
    BY <1>1 DEF Injection, IsInjective
  <2>2. Cardinality(1..n) = n /\ IsFiniteSet(1..n)
    <3>1. 1 \in Int /\ n \in Int
      BY <1>1
    <3>2. IsFiniteSet(1..n) /\ Cardinality(1..n) = IF 1 > n THEN 0 ELSE n - 1 + 1
      BY <3>1, FS_Interval
    <3> HIDE DEF n
    <3> QED
      BY <1>1, <3>2
  <2>3. IsFiniteSet(Name) /\ Cardinality(Name) <= 1000 /\ Cardinality(Name) \in Nat
    BY NameAssumption, FS_CardinalityType
  <2> HIDE DEF n, f
  <2>4. Cardinality(1..n) <= Cardinality(Name)
    BY <2>1, <2>2, <2>3, FS_Injection
  <2> QED
    BY <1>1, <2>2, <2>3, <2>4
<1>5. /\ \A s \in DOMAIN values : s \in Shown /\ s \notin DOMAIN creates
      /\ \A s \in DOMAIN creates : s \in Shown /\ s \in Nat
      /\ \A s \in Shown : s \in DOMAIN values \/ s \in DOMAIN creates
  <2>1. \A s \in DOMAIN values : s \in Existing
    BY DEF Existing, Overlays, NothingDeleted
  <2>2. \A s \in Existing : s \in DOMAIN values /\ s \notin DOMAIN creates
    BY Apart
  <2>3. \A s \in DOMAIN creates : s \in Nat
    BY DEF Overlays
  <2> QED
    BY <2>1, <2>2, <2>3 DEF Shown
<1>6. /\ \A k \in 1..n : device[k].name \in Shown /\ Keys[device[k].name] = k - 1
      /\ \A s \in DOMAIN values : \E k \in 1..n : device[k].name = s
  <2>1. \A k \in 1..n : device[k].name \in DOMAIN values
    BY <1>1 DEF NamesOf
  <2>2. \A s \in DOMAIN values : \E k \in 1..n : device[k].name = s
    BY <1>1 DEF NamesOf
  <2>3. \A s \in DOMAIN values : Keys[s] = values[s].index
    BY <1>5 DEF Keys, IndexOf
  <2> QED
    BY <1>1, <1>5, <2>1, <2>2, <2>3 DEF IndicesKept
<1>7. \A i \in 1..m : AddCalls[i] \in Shown /\ Keys[AddCalls[i]] = 1000 + AddCalls[i] /\ AddCalls[i] \in Nat
  BY <1>2, <1>5 DEF Keys, IndexOf, IndicesKept
<1> HIDE DEF n, m
<1>8. /\ \A k \in 1..n : k \in 1..(n + m) /\ seq[k] = device[k].name
      /\ \A i \in 1..m : n + i \in 1..(n + m) /\ seq[n + i] = AddCalls[i]
      /\ \A k \in 1..(n + m) : k \in 1..n \/ \E i \in 1..m : k = n + i
  <2>1. \A k \in 1..n : k \in 1..(n + m) /\ seq[k] = device[k].name
    BY <1>1, <1>2
  <2>2. \A i \in 1..m : n + i \in 1..(n + m) /\ ~(n + i <= n) /\ (n + i) - n = i
    BY <1>1, <1>2
  <2>3. \A k \in 1..(n + m) : k \in 1..n \/ (k - n \in 1..m /\ k = n + (k - n))
    BY <1>1, <1>2
  <2>4. \A i \in 1..m : seq[n + i] = AddCalls[i]
    BY <2>2
  <2> QED
    BY <2>1, <2>2, <2>3, <2>4
<1>9. seq \in [1..(n + m) -> Shown]
  <2>1. seq = [k \in 1..(n + m) |-> seq[k]]
    OBVIOUS
  <2> HIDE DEF seq
  <2>2. \A k \in 1..(n + m) : seq[k] \in Shown
    BY <1>6, <1>7, <1>8
  <2> QED
    BY <2>1, <2>2
<1> HIDE DEF seq
<1>10. \A s \in Shown : \E k \in 1..(n + m) : seq[k] = s
  BY <1>2, <1>5, <1>6, <1>8
<1>11. ASSUME NEW k \in 1..(n + m), NEW l \in 1..(n + m), k < l
       PROVE  Keys[seq[k]] < Keys[seq[l]]
  <2>1. CASE k \in 1..n /\ l \in 1..n
    BY <1>1, <1>6, <1>8, <1>11, <2>1
  <2>2. CASE k \in 1..n /\ l \notin 1..n
    <3>1. PICK j \in 1..m : l = n + j
      BY <1>8, <2>2
    <3>2. Keys[seq[k]] = k - 1 /\ Keys[seq[l]] = 1000 + AddCalls[j] /\ AddCalls[j] \in Nat
      BY <1>6, <1>7, <1>8, <2>2, <3>1
    <3> QED
      BY <1>1, <1>4, <2>2, <3>2
  <2>3. CASE k \notin 1..n
    <3>1. PICK i \in 1..m : k = n + i
      BY <1>8, <2>3
    <3>2. l \notin 1..n
      BY <1>1, <1>2, <1>11, <2>3
    <3>3. PICK j \in 1..m : l = n + j
      BY <1>8, <3>2
    <3>4. i < j
      BY <1>1, <1>2, <1>11, <3>1, <3>3
    <3>5. AddCalls[i] < AddCalls[j] /\ AddCalls[i] \in Nat /\ AddCalls[j] \in Nat
      BY <1>3, <1>7, <3>4
    <3>6. Keys[seq[k]] = 1000 + AddCalls[i] /\ Keys[seq[l]] = 1000 + AddCalls[j]
      BY <1>7, <1>8, <3>1, <3>3
    <3> QED
      BY <3>5, <3>6
  <2> QED
    BY <2>1, <2>2, <2>3
<1> QED
  BY <1>1, <1>2, <1>9, <1>10, <1>11 DEF Lists, seq, n, m

\* Then the batch leaves the device with the sections in that order.
LEMMA BatchInOrder ==
  ASSUME DeviceFits, Overlays, Indexed,
         Cardinality(DOMAIN creates) <= Cardinality(Name \ NamesOf(device)),
         NothingDeleted, NamesOf(device) = DOMAIN values, AllTraced, IndicesKept
  PROVE  ContentsOf(View) = ContentsOf(AfterBatch)
<1> DEFINE n == Len(device)
           m == Len(AddCalls)
           seq == [k \in 1..(n + m) |-> IF k <= n THEN device[k].name ELSE AddCalls[k - n]]
<1>1. Lists(seq, n + m, Shown, Keys)
  BY SectionsInOrder
<1>2. /\ n \in Nat /\ m \in Nat /\ DOMAIN device = 1..n
      /\ DOMAIN AfterBatch = 1..(n + m)
      /\ \A i \in 1..n : AfterBatch[i] = AfterSet(device[i], Name, Name)
      /\ \A i \in 1..m : AfterBatch[n + i] = [name |-> NewNames[i], opts |-> creates[AddCalls[i]].opts]
  BY BatchKeeps
<1>3. \A k \in 1..(n + m) : k \in 1..n \/ (k - n \in 1..m /\ k = n + (k - n) /\ ~(k <= n))
  BY <1>2
<1>4. \A k \in 1..(n + m) : seq[k] = IF k <= n THEN device[k].name ELSE AddCalls[k - n]
  OBVIOUS
<1> HIDE DEF seq, n, m
<1>5. View = [k \in 1..(n + m) |-> Contents[seq[k]]]
  <2>1. Keys \in [Shown -> Int] /\ View = [k \in 1..Cardinality(Shown) |-> Contents[Sections[k]]]
    BY SectionsList
  <2>2. Cardinality(Shown) = n + m /\ Sections = seq
    BY <1>1, <2>1, ListsUnique, SectionsAre
  <2> QED
    BY <2>1, <2>2
<1>6. ASSUME NEW k \in 1..(n + m)
      PROVE  View[k].opts = AfterBatch[k].opts
  <2>1. View[k] = Contents[seq[k]]
    BY <1>5
  <2>2. CASE k \in 1..n
    <3>1. k \in DOMAIN device /\ device[k] \in Section /\ seq[k] = device[k].name
      BY <1>2, <1>4, <2>2 DEF DeviceFits
    <3>2. device[k].name \in Existing
      <4>1. device[k].name \in DOMAIN values
        BY <3>1 DEF NamesOf
      <4> QED
        BY <4>1 DEF Existing, Overlays, NothingDeleted
    <3> QED
      BY <1>2, <2>1, <2>2, <3>1, <3>2, KeptContents
  <2>3. CASE k \notin 1..n
    <3> DEFINE i == k - n
    <3>1. i \in 1..m /\ k = n + i /\ seq[k] = AddCalls[i]
      BY <1>3, <1>4, <2>3
    <3> HIDE DEF i
    <3>2. AfterBatch[k] = [name |-> NewNames[i], opts |-> creates[AddCalls[i]].opts]
      BY <1>2, <3>1
    <3>3. AfterBatch[k].opts = creates[AddCalls[i]].opts
      BY ONLY <3>2
    <3>4. AddCalls[i] \in DOMAIN creates
      BY <3>1, AddCallsPlace DEF m
    <3> QED
      BY <2>1, <3>1, <3>3, <3>4, AddedContents
  <2> QED
    BY <2>2, <2>3
<1>7. DOMAIN View = 1..(n + m)
  BY <1>5
<1> QED
  BY <1>2, <1>6, <1>7 DEF ContentsOf

\* rpcd orders sections that are all listed as they are listed.
LEMMA OrderedAsListed ==
  ASSUME NEW config \in Seq(Section), DistinctNames(config), NEW n \in Nat,
         NEW names \in [1..n -> NamesOf(config)],
         \A i, j \in 1..n : names[i] = names[j] => i = j,
         \A s \in NamesOf(config) : \E i \in 1..n : names[i] = s
  PROVE  Ordered(config, names) = [i \in 1..n |-> config[Position(config, names[i])]]
<1> DEFINE last == {i \in DOMAIN names : /\ names[i] \in NamesOf(config)
                                        /\ \A j \in DOMAIN names : j > i => names[j] # names[i]}
           placed == Selected(names, last)
           others == {i \in DOMAIN config : \A j \in last : names[j] # config[i].name}
           P == [i \in DOMAIN placed |-> config[Position(config, placed[i])]]
           T == NamesOf(config)
<1>1. last = 1..n
  <2>1. \A i, j \in 1..n : j > i => names[j] # names[i]
    OBVIOUS
  <2> QED
    BY <2>1
<1>2. placed = names
  <2>1. names \in [1..n -> T]
    OBVIOUS
  <2> HIDE DEF T, last
  <2>2. names \in Seq(T)
    BY <2>1
  <2> QED
    BY <1>1, <2>2, SelectedAll
<1>3. others = {}
  <2>1. \A i \in DOMAIN config : \E j \in 1..n : names[j] = config[i].name
    <3>1. \A i \in DOMAIN config : config[i].name \in NamesOf(config)
      BY DEF NamesOf
    <3> QED
      BY <3>1
  <2> HIDE DEF last
  <2> QED
    BY <1>1, <2>1
<1>4. Ordered(config, names) = P \o Selected(config, others)
  BY DEF Ordered
<1> HIDE DEF last, placed, others
<1>5. Selected(config, others) = <<>>
  <2>1. Cardinality({}) = 0
    BY FS_EmptySet
  <2>2. Selected(config, {}) = [k \in 1..0 |-> config[Ascending({})[k]]]
    BY <2>1 DEF Selected
  <2>3. Selected(config, {}) = <<>>
    BY <2>2
  <2> QED
    BY <1>3, <2>3
<1>6. P = [i \in 1..n |-> config[Position(config, names[i])]]
  BY <1>2
<1>7. P \in Seq(Section)
  <2>1. \A s \in NamesOf(config) : Position(config, s) \in DOMAIN config
    BY DEF NamesOf, Position
  <2>2. \A i \in 1..n : config[Position(config, names[i])] \in Section
    BY <2>1
  <2> HIDE DEF P
  <2> QED
    BY <1>6, <2>2
<1> HIDE DEF P
<1> QED
  BY <1>4, <1>5, <1>6, <1>7

\* So they are in the order the page shows.
LEMMA OrderedAsSeen ==
  ASSUME Overlays, Indexed, NEW config \in Seq(Section), DistinctNames(config),
         NEW a \in [Shown -> Name], Carries(a, config)
  PROVE  ContentsOf(View) = ContentsOf(Ordered(config, [i \in DOMAIN Sections |-> a[Sections[i]]]))
<1> DEFINE n == Cardinality(Shown)
           names == [i \in DOMAIN Sections |-> a[Sections[i]]]
<1>1. /\ n \in Nat /\ DOMAIN Sections = 1..n /\ DOMAIN View = 1..n
      /\ \A i \in 1..n : Sections[i] \in Shown /\ View[i] = Contents[Sections[i]]
      /\ \A s \in Shown : \E i \in 1..n : Sections[i] = s
      /\ \A i, j \in 1..n : Sections[i] = Sections[j] => i = j
  <2>1. /\ Lists(Sections, n, Shown, Keys) /\ Keys \in [Shown -> Int]
        /\ View = [i \in 1..n |-> Contents[Sections[i]]]
    BY SectionsList
  <2>2. \A i, j \in 1..n : Sections[i] = Sections[j] => i = j
    BY <2>1, ListsOnce
  <2>3. /\ n \in Nat /\ \A i \in 1..n : Sections[i] \in Shown
        /\ \A s \in Shown : \E i \in 1..n : Sections[i] = s
        /\ DOMAIN Sections = 1..n
    BY <2>1 DEF Lists
  <2> HIDE DEF n
  <2> QED
    BY <2>1, <2>2, <2>3
<1>2. /\ \A s \in Shown :
           /\ Position(config, a[s]) \in DOMAIN config
           /\ config[Position(config, a[s])].name = a[s]
           /\ config[Position(config, a[s])].opts = Contents[s].opts
      /\ \A j \in DOMAIN config : \E s \in Shown : Position(config, a[s]) = j
  BY CarriedPlaces
<1>3. /\ DOMAIN names = 1..n /\ names = [i \in 1..n |-> names[i]]
      /\ \A i \in 1..n : names[i] = a[Sections[i]]
  BY <1>1
<1> HIDE DEF n, names
<1>4. \A i, j \in 1..n : names[i] = names[j] => i = j
  BY <1>1, <1>3 DEF Carries
<1>5. \A i \in 1..n : names[i] \in NamesOf(config)
  BY <1>1, <1>2, <1>3 DEF NamesOf
<1>6. /\ names \in [1..n -> NamesOf(config)]
      /\ \A s \in NamesOf(config) : \E i \in 1..n : names[i] = s
  <2>1. \A j \in DOMAIN config : \E s \in Shown : config[j].name = a[s]
    BY <1>2
  <2>2. \A j \in DOMAIN config : \E i \in 1..n : config[j].name = names[i]
    BY <1>1, <1>3, <2>1
  <2>3. \A s \in NamesOf(config) : \E i \in 1..n : names[i] = s
    BY <2>2 DEF NamesOf
  <2> QED
    BY <1>3, <1>5, <2>3
<1>7. Ordered(config, names) = [i \in 1..n |-> config[Position(config, names[i])]]
  <2>1. n \in Nat /\ names \in [1..n -> NamesOf(config)]
    BY <1>1, <1>6
  <2>2. \A s \in NamesOf(config) : \E i \in 1..n : names[i] = s
    BY <1>6
  <2>3. config \in Seq(Section) /\ DistinctNames(config)
    OBVIOUS
  <2> QED
    BY ONLY <1>4, <2>1, <2>2, <2>3, OrderedAsListed
<1>8. ASSUME NEW i \in 1..n
      PROVE  Ordered(config, names)[i].opts = View[i].opts
  <2>1. Ordered(config, names)[i] = config[Position(config, a[Sections[i]])]
    BY <1>3, <1>7
  <2>2. config[Position(config, a[Sections[i]])].opts = Contents[Sections[i]].opts
    BY <1>1, <1>2
  <2> QED
    BY <1>1, <2>1, <2>2
<1>9. DOMAIN Ordered(config, names) = 1..n
  BY <1>7
<1>10. ContentsOf(View) = ContentsOf(Ordered(config, names))
  BY <1>1, <1>8, <1>9 DEF ContentsOf
<1> QED
  BY <1>10 DEF names

\* The names the page sends are those the device has given, in the order it shows.
LEMMA OrderIsSections ==
  ASSUME Overlays, Indexed, NothingDeleted, "reorder" \in touched, "deletes" \notin touched,
         NEW a \in [Shown -> Name], \A s \in Existing : a[s] = s,
         \A s \in DOMAIN creates : a[s] = Answers[Place(AddCalls, s)]
  PROVE  ToOrder = [i \in DOMAIN Sections |-> a[Sections[i]]]
<1>1. Existing = DOMAIN values
  BY DEF Existing, Overlays, NothingDeleted
<1>2. ToOrder = [i \in DOMAIN Sections |->
                   IF Sections[i] \in DOMAIN creates THEN Named(Sections[i]).name ELSE Sections[i]]
  BY <1>1 DEF ToOrder, Sections
<1>3. \A s \in DOMAIN creates : Named(s).name = a[s]
  <2> SUFFICES ASSUME NEW s \in DOMAIN creates
               PROVE  Named(s).name = Answers[Place(AddCalls, s)]
    OBVIOUS
  <2> PICK x : x = Answers[Place(AddCalls, s)]
    OBVIOUS
  <2>1. creates[s] = [opts |-> creates[s].opts, index |-> creates[s].index, name |-> creates[s].name]
    BY DEF Overlays, NewSection
  <2>2. Named(s) = [creates[s] EXCEPT !.name = x]
    BY DEF Named
  <2>3. Named(s).name = x
    BY <2>1, <2>2
  <2> QED
    BY <2>3
<1>4. \A i \in DOMAIN Sections : Sections[i] \in Shown
  BY SectionsList DEF Lists
<1>5. \A i \in DOMAIN Sections :
        (IF Sections[i] \in DOMAIN creates THEN Named(Sections[i]).name ELSE Sections[i])
          = a[Sections[i]]
  BY <1>3, <1>4 DEF Shown
<1> QED
  BY <1>2, <1>5

-----------------------------------------------------------------------------
(* What the page has edited, it knows                                      *)

HistoryFits ==
  history \in [erased : SUBSET (Name \X Option), relapsed : SUBSET (Name \X Option), failed : BOOLEAN]

\* An overlay that is not there has nothing.
Touches ==
  /\ "creates" \notin touched => DOMAIN creates = {}
  /\ "changes" \notin touched => \A s \in Name : changes[s] = Unset
  /\ "deletes" \notin touched =>
       NothingDeleted /\ (loaded = "here" => history.erased = {} /\ history.relapsed = {})

\* The page has what the device has, under its overlays.
Synced ==
  /\ NamesOf(device) = DOMAIN values
  /\ history.relapsed = {} => AllTraced
  /\ "reorder" \notin touched => IndicesKept

Known == HistoryFits /\ Touches /\ (~history.failed => Synced)

\* A section is created.
LEMMA CreateKnown ==
  ASSUME Overlays, Known, NEW x0 \in Opts, Create(x0),
         UNCHANGED <<device, loaded, values, changes, deletes, history>>
  PROVE  Known'
<1>1. HistoryFits'
  BY DEF Known, HistoryFits
<1>2. Touches'
  BY DEF Known, Touches, Create, NothingDeleted
<1>3. ASSUME ~history.failed
      PROVE  Synced'
  <2>1. Synced
    BY <1>3 DEF Known
  <2>2. Existing' = Existing
    BY DEF Existing
  <2>3. NamesOf(device)' = DOMAIN values'
    BY <2>1 DEF Synced, NamesOf
  <2>4. (history.relapsed = {} => AllTraced)'
    BY <2>1, <2>2 DEF Synced, AllTraced, Traced
  <2>5. ("reorder" \notin touched => IndicesKept)'
    <3> SUFFICES ASSUME "reorder" \notin touched'
                 PROVE  IndicesKept'
      OBVIOUS
    <3>1. IndicesKept
      BY <2>1 DEF Synced, Create
    <3>2. /\ DOMAIN creates' = DOMAIN creates \cup {newidx}
          /\ \A s \in DOMAIN creates : s # newidx => creates'[s] = creates[s]
          /\ creates'[newidx] = [opts |-> x0, index |-> NewIndex, name |-> None]
      BY DEF Create
    <3>3. creates'[newidx].index = 1000 + newidx
      BY <3>2 DEF NewIndex
    <3> QED
      BY <3>1, <3>2, <3>3 DEF IndicesKept
  <2> QED
    BY <2>3, <2>4, <2>5 DEF Synced
<1> QED
  BY <1>1, <1>2, <1>3 DEF Known

\* A section is removed.
LEMMA RemoveKnown ==
  ASSUME Overlays, Known, NEW s \in Shown, Remove(s)
  PROVE  Known'
<1>1. UNCHANGED <<device, loaded, values, history>>
  BY DEF Remove, Edit
<1>2. HistoryFits'
  BY <1>1 DEF Known, HistoryFits
<1>3. changes \in [Name -> Opts] /\ deletes \in [Name -> SUBSET (Option \cup {"whole"})]
  BY DEF Overlays
<1>4. CASE s \in DOMAIN creates /\ creates' = [t \in DOMAIN creates \ {s} |-> creates[t]]
           /\ UNCHANGED <<changes, deletes, touched>>
  <2>1. DOMAIN creates' \subseteq DOMAIN creates /\ \A t \in DOMAIN creates' : creates'[t] = creates[t]
    BY <1>4
  <2>2. Touches'
    BY <1>1, <1>4, <2>1 DEF Known, Touches, NothingDeleted
  <2>3. Existing' = Existing
    BY <1>1, <1>4 DEF Existing
  <2>4. ASSUME Synced
        PROVE  Synced'
    BY <1>1, <1>4, <2>1, <2>3, <2>4 DEF Synced, AllTraced, Traced, IndicesKept, NamesOf
  <2> QED
    BY <1>1, <1>2, <2>2, <2>4 DEF Known
<1>5. CASE s \in Existing /\ changes' = [changes EXCEPT ![s] = Unset]
           /\ deletes' = [deletes EXCEPT ![s] = {"whole"}]
           /\ touched' = touched \cup {"deletes"} /\ creates' = creates
  <2>1. s \in Name /\ deletes'[s] = {"whole"} /\ changes'[s] = Unset
    BY <1>3, <1>5, Apart
  <2>2. \A t \in Name : t # s => deletes'[t] = deletes[t] /\ changes'[t] = changes[t]
    BY <1>3, <1>5
  <2>3. Touches'
    BY <1>1, <1>5, <2>1, <2>2 DEF Known, Touches
  <2>4. DOMAIN values \subseteq Name
    BY DEF Overlays
  <2>5. \A t \in Existing' : t \in Existing /\ t # s /\ t \in Name
    BY <1>1, <2>1, <2>2, <2>4 DEF Existing
  <2>6. ASSUME Synced
        PROVE  Synced'
    <3>1. (history.relapsed = {} => AllTraced)'
      BY <1>1, <2>2, <2>5, <2>6 DEF Synced, AllTraced, Traced
    <3>2. ("reorder" \notin touched => IndicesKept)'
      BY <1>1, <1>5, <2>6 DEF Synced, IndicesKept
    <3> QED
      BY <1>1, <2>6, <3>1, <3>2 DEF Synced, NamesOf
  <2> QED
    BY <1>1, <1>2, <2>3, <2>6 DEF Known
<1> QED
  BY <1>4, <1>5 DEF Remove

\* An option of a new section is set.
LEMMA SetNewKnown ==
  ASSUME Overlays, Known, NEW s, NEW o, NEW v, SetNew(s, o, v), UNCHANGED <<device, loaded, values>>
  PROVE  Known'
<1>1. /\ s \in DOMAIN creates /\ UNCHANGED <<changes, deletes, touched, history>>
      /\ creates' = [creates EXCEPT ![s] = [creates[s] EXCEPT !.opts[o] = v]]
  BY DEF SetNew
<1>2. DOMAIN creates' = DOMAIN creates /\ \A t \in DOMAIN creates : t # s => creates'[t] = creates[t]
  BY <1>1
<1>3. creates'[s].index = creates[s].index
  <2> DEFINE e == creates[s]
             x == [e.opts EXCEPT ![o] = v]
  <2>1. e = [opts |-> e.opts, index |-> e.index, name |-> e.name]
    BY <1>1 DEF Overlays, NewSection
  <2>2. creates'[s] = [e EXCEPT !.opts = x]
    BY <1>1
  <2> HIDE DEF e, x
  <2>3. creates'[s] = [opts |-> x, index |-> e.index, name |-> e.name]
    BY <2>1, <2>2
  <2>4. creates'[s].index = e.index
    BY ONLY <2>3
  <2> QED
    BY <2>4 DEF e
<1>4. HistoryFits' /\ Touches'
  BY <1>1, <1>2 DEF Known, HistoryFits, Touches, NothingDeleted
<1>5. Existing' = Existing
  BY <1>1 DEF Existing
<1>6. ASSUME Synced
      PROVE  Synced'
  <2>1. (history.relapsed = {} => AllTraced)'
    BY <1>1, <1>5, <1>6 DEF Synced, AllTraced, Traced
  <2>2. ("reorder" \notin touched => IndicesKept)'
    BY <1>1, <1>2, <1>3, <1>6 DEF Synced, IndicesKept
  <2> QED
    BY <1>6, <2>1, <2>2 DEF Synced, NamesOf
<1> QED
  BY <1>1, <1>4, <1>6 DEF Known

\* An option of a section that was loaded is set: what values has lost of it was
\* looked at before, and is remembered.
LEMMA SetLoadedKnown ==
  ASSUME Overlays, Known, NEW s, NEW o \in Option, NEW v \in Val \cup {None},
         SetLoaded(s, o, v), UNCHANGED <<device, loaded, values>>
  PROVE  Known'
<1>1. /\ s \in Existing /\ v # None /\ creates' = creates
      /\ changes' = [changes EXCEPT ![s] = [changes[s] EXCEPT ![o] = v]]
      /\ deletes' = [deletes EXCEPT ![s] = @ \ {o}]
      /\ touched' = touched \cup {"changes"}
      /\ history' = [history EXCEPT !.relapsed = @ \cup ({<<s, o>>} \cap history.erased)]
  BY DEF SetLoaded
<1>2. /\ changes \in [Name -> [Option -> Val \cup {None}]]
      /\ deletes \in [Name -> SUBSET (Option \cup {"whole"})]
      /\ s \in Name /\ o # "whole"
  BY <1>1, Apart, UciCacheAssumption DEF Overlays, Opts
<1>3. /\ changes'[s][o] = v /\ \A w \in Option : w # o => changes'[s][w] = changes[s][w]
      /\ \A t \in Name : t # s => changes'[t] = changes[t]
  <2> DEFINE x == [changes[s] EXCEPT ![o] = v]
  <2>1. x[o] = v /\ \A w \in Option : w # o => x[w] = changes[s][w]
    BY <1>2
  <2>2. changes' = [changes EXCEPT ![s] = x]
    BY <1>1
  <2> HIDE DEF x
  <2> QED
    BY <1>2, <2>1, <2>2
<1>4. /\ deletes'[s] = deletes[s] \ {o}
      /\ \A t \in Name : t # s => deletes'[t] = deletes[t]
  BY <1>1, <1>2
<1>5. /\ history'.erased = history.erased /\ history'.failed = history.failed
      /\ history'.relapsed = history.relapsed \cup ({<<s, o>>} \cap history.erased)
      /\ HistoryFits'
  <2> DEFINE r == history.relapsed \cup ({<<s, o>>} \cap history.erased)
  <2>1. /\ history \in [erased : SUBSET (Name \X Option), relapsed : SUBSET (Name \X Option),
                        failed : BOOLEAN]
        /\ history' = [history EXCEPT !.relapsed = r]
    BY <1>1 DEF Known, HistoryFits
  <2>2. r \in SUBSET (Name \X Option)
    BY <2>1
  <2> HIDE DEF r
  <2>3. /\ history'.erased = history.erased /\ history'.failed = history.failed
        /\ history'.relapsed = r
        /\ history' \in [erased : SUBSET (Name \X Option), relapsed : SUBSET (Name \X Option),
                         failed : BOOLEAN]
    BY <2>1, <2>2
  <2> QED
    BY <2>3 DEF r, HistoryFits
<1>6. Touches'
  <2>1. NothingDeleted => NothingDeleted'
    BY <1>2, <1>4 DEF NothingDeleted
  <2>2. history.erased = {} /\ history.relapsed = {} => history'.erased = {} /\ history'.relapsed = {}
    BY <1>5
  <2>3. "changes" \in touched' /\ ("deletes" \notin touched' => "deletes" \notin touched)
        /\ ("creates" \notin touched' => "creates" \notin touched)
    BY <1>1
  <2> QED
    BY <1>1, <2>1, <2>2, <2>3 DEF Known, Touches
<1>7. Existing' = Existing
  <2>1. \A t \in Name : "whole" \in deletes'[t] <=> "whole" \in deletes[t]
    BY <1>2, <1>4
  <2>2. DOMAIN values \subseteq Name
    BY DEF Overlays
  <2> QED
    BY <2>1, <2>2 DEF Existing
<1>8. ASSUME Synced
      PROVE  Synced'
  <2>1. ASSUME history'.relapsed = {}
        PROVE  AllTraced'
    <3>1. AllTraced /\ <<s, o>> \notin history.erased
      BY <1>5, <1>8, <2>1 DEF Synced
    <3> SUFFICES ASSUME NEW i \in DOMAIN device, NEW w \in Option, device[i].name \in Existing
                 PROVE  Traced(device[i].name, w, device[i].opts[w])'
      BY <1>7 DEF AllTraced
    <3> DEFINE t == device[i].name
               d == device[i].opts[w]
    <3>2. Traced(t, w, d) /\ t \in Name
      BY <3>1, Apart DEF AllTraced
    <3> HIDE DEF t, d
    <3>3. Traced(t, w, d) => (values[t].opts[w] = d \/ changes'[t][w] # None \/ w \in deletes'[t])
      BY <1>1, <1>3, <1>4, <3>2 DEF Traced
    <3>4. values[t].opts[w] = None /\ d # None => w \in deletes'[t] /\ <<t, w>> \in history'.erased
      BY <1>4, <1>5, <3>1, <3>2 DEF Traced
    <3>5. values' = values /\ device' = device
      OBVIOUS
    <3> QED
      BY <3>2, <3>3, <3>4, <3>5 DEF Traced, t, d
  <2>2. ("reorder" \notin touched => IndicesKept)'
    BY <1>1, <1>8 DEF Synced, IndicesKept
  <2> QED
    BY <1>8, <2>1, <2>2 DEF Synced, NamesOf
<1> QED
  BY <1>5, <1>6, <1>8 DEF Known

\* An option of a section that was loaded is unset.
LEMMA UnsetLoadedKnown ==
  ASSUME Overlays, Known, NEW s, NEW o \in Option, NEW v \in Val \cup {None},
         UnsetLoaded(s, o, v), UNCHANGED <<device, loaded, values>>
  PROVE  Known'
<1>1. /\ s \in Existing /\ creates' = creates /\ history' = history
      /\ changes' = [changes EXCEPT ![s] = [changes[s] EXCEPT ![o] = None]]
      /\ IF values[s].opts[o] # None
           THEN /\ deletes' = [deletes EXCEPT ![s] = @ \cup {o}]
                /\ touched' = touched \cup {"deletes"}
           ELSE deletes' = deletes /\ touched' = touched
  BY DEF UnsetLoaded
<1>2. /\ changes \in [Name -> [Option -> Val \cup {None}]]
      /\ deletes \in [Name -> SUBSET (Option \cup {"whole"})]
      /\ s \in Name /\ o # "whole"
  BY <1>1, Apart, UciCacheAssumption DEF Overlays, Opts
<1>3. /\ changes'[s] = [changes[s] EXCEPT ![o] = None]
      /\ changes'[s][o] = None /\ \A w \in Option : w # o => changes'[s][w] = changes[s][w]
      /\ \A t \in Name : t # s => changes'[t] = changes[t]
  <2> DEFINE x == [changes[s] EXCEPT ![o] = None]
  <2>1. x[o] = None /\ \A w \in Option : w # o => x[w] = changes[s][w]
    BY <1>2
  <2>2. changes' = [changes EXCEPT ![s] = x]
    BY <1>1
  <2> HIDE DEF x
  <2>3. changes'[s] = x /\ \A t \in Name : t # s => changes'[t] = changes[t]
    BY <1>2, <2>2
  <2> QED
    BY <2>1, <2>3 DEF x
<1>4. /\ values[s].opts[o] # None => o \in deletes'[s] /\ "deletes" \in touched'
      /\ values[s].opts[o] = None => deletes' = deletes /\ touched' = touched
      /\ \A w \in Option : w # o => (w \in deletes'[s] <=> w \in deletes[s])
      /\ \A t \in Name : t # s => deletes'[t] = deletes[t]
      /\ \A t \in Name : "whole" \in deletes'[t] <=> "whole" \in deletes[t]
      /\ touched' \in {touched, touched \cup {"deletes"}}
  <2>1. CASE values[s].opts[o] # None
    BY <1>1, <1>2, <2>1
  <2>2. CASE values[s].opts[o] = None
    BY <1>1, <1>2, <2>2
  <2> QED
    BY <2>1, <2>2
<1>5. HistoryFits'
  BY <1>1 DEF Known, HistoryFits
<1>6. Touches'
  <2>1. "deletes" \notin touched' => deletes' = deletes /\ touched' = touched
    BY <1>4
  <2>2. ASSUME \A t \in Name : changes[t] = Unset
        PROVE  \A t \in Name : changes'[t] = Unset
    <3>1. [changes[s] EXCEPT ![o] = None] = Unset
      BY <1>2, <2>2 DEF Unset
    <3> QED
      BY <1>3, <2>2, <3>1
  <2>3. ("changes" \notin touched' => "changes" \notin touched)
        /\ ("creates" \notin touched' => "creates" \notin touched)
    BY <1>4
  <2> QED
    BY <1>1, <2>1, <2>2, <2>3 DEF Known, Touches, NothingDeleted
<1>7. Existing' = Existing
  <2>1. DOMAIN values \subseteq Name
    BY DEF Overlays
  <2> QED
    BY <1>4, <2>1 DEF Existing
<1>8. ASSUME Synced
      PROVE  Synced'
  <2>1. ASSUME history'.relapsed = {}
        PROVE  AllTraced'
    <3>1. AllTraced
      BY <1>1, <1>8, <2>1 DEF Synced
    <3> SUFFICES ASSUME NEW i \in DOMAIN device, NEW w \in Option, device[i].name \in Existing
                 PROVE  Traced(device[i].name, w, device[i].opts[w])'
      BY <1>7 DEF AllTraced
    <3> DEFINE t == device[i].name
               d == device[i].opts[w]
    <3>2. Traced(t, w, d) /\ t \in Name
      BY <3>1, Apart DEF AllTraced
    <3> HIDE DEF t, d
    <3>3. values[t].opts[w] = d \/ changes'[t][w] # None \/ w \in deletes'[t]
      BY <1>3, <1>4, <3>2 DEF Traced
    <3>4. values[t].opts[w] = None /\ d # None => w \in deletes'[t] /\ <<t, w>> \in history'.erased
      BY <1>1, <1>4, <3>2 DEF Traced
    <3>5. values' = values /\ device' = device
      OBVIOUS
    <3> QED
      BY <3>3, <3>4, <3>5 DEF Traced, t, d
  <2>2. ("reorder" \notin touched => IndicesKept)'
    <3>1. "reorder" \notin touched' => "reorder" \notin touched
      BY <1>4
    <3> QED
      BY <1>1, <1>8, <3>1 DEF Synced, IndicesKept
  <2> QED
    BY <1>8, <2>1, <2>2 DEF Synced, NamesOf
<1> QED
  BY <1>1, <1>5, <1>6, <1>8 DEF Known

\* Sections S are looked at.
LEMMA ForgetKnown ==
  ASSUME Overlays, Known, NEW S, Forget(S), UNCHANGED <<device, loaded, changes, deletes>>,
         DOMAIN values' = DOMAIN values, DOMAIN creates' = DOMAIN creates,
         \A t \in Existing \cap S : values'[t].opts = SectionOf(t).opts,
         \A t \in Existing \ S : values'[t].opts = values[t].opts,
         touched' \in {touched, touched \cup {"reorder"}},
         "reorder" \notin touched' => creates' = creates /\ \A t \in DOMAIN values : values'[t].index = values[t].index
  PROVE  Known'
<1> DEFINE gone == {p \in (S \cap Existing) \X Option : p[2] \in deletes[p[1]]}
<1>1. /\ history'.erased = history.erased \cup gone /\ history'.failed = history.failed
      /\ history'.relapsed = history.relapsed /\ HistoryFits'
  <2> DEFINE e == history.erased \cup gone
  <2>1. /\ history \in [erased : SUBSET (Name \X Option), relapsed : SUBSET (Name \X Option),
                        failed : BOOLEAN]
        /\ history' = [history EXCEPT !.erased = e]
    BY DEF Known, HistoryFits, Forget
  <2>2. e \in SUBSET (Name \X Option)
    <3>1. Existing \subseteq Name
      BY Apart
    <3> QED
      BY <2>1, <3>1
  <2> HIDE DEF e
  <2>3. /\ history'.relapsed = history.relapsed /\ history'.failed = history.failed
        /\ history'.erased = e
        /\ history' \in [erased : SUBSET (Name \X Option), relapsed : SUBSET (Name \X Option),
                         failed : BOOLEAN]
    BY <2>1, <2>2
  <2> QED
    BY <2>3 DEF e, HistoryFits
<1>2. NothingDeleted => gone = {}
  <2>1. \A t \in Existing : t \in Name
    BY Apart
  <2> QED
    BY <2>1 DEF NothingDeleted
<1>3. \A t \in S \cap Existing, w \in Option : w \in deletes[t] => <<t, w>> \in gone
  OBVIOUS
<1> HIDE DEF gone
<1>4. Touches'
  <2>1. \A k \in {"creates", "changes", "deletes"} : k \notin touched' => k \notin touched
    OBVIOUS
  <2> QED
    BY <1>1, <1>2, <2>1 DEF Known, Touches, NothingDeleted
<1>5. Existing' = Existing
  BY DEF Existing
<1>6. ASSUME Synced
      PROVE  Synced'
  <2>1. ASSUME history'.relapsed = {}
        PROVE  AllTraced'
    <3>1. AllTraced
      BY <1>1, <1>6, <2>1 DEF Synced
    <3> SUFFICES ASSUME NEW i \in DOMAIN device, NEW w \in Option, device[i].name \in Existing
                 PROVE  Traced(device[i].name, w, device[i].opts[w])'
      BY <1>5 DEF AllTraced
    <3> DEFINE t == device[i].name
               d == device[i].opts[w]
    <3>2. Traced(t, w, d) /\ t \in Existing /\ t \notin DOMAIN creates
      BY <3>1, Apart DEF AllTraced
    <3> HIDE DEF t, d
    <3>3. CASE t \in S
      <4>1. values'[t].opts[w] = Get(t, w)
        <5>1. SectionOf(t).opts[w] = Get(t, w)
          BY DEF SectionOf
        <5> QED
          BY <3>2, <3>3, <5>1
      <4>2. Get(t, w) = IF w \in deletes[t] THEN None
                        ELSE IF changes[t][w] # None THEN changes[t][w] ELSE values[t].opts[w]
        BY <3>2 DEF Get
      <4>3. w \in deletes[t] => <<t, w>> \in history'.erased
        BY <1>1, <1>3, <3>2, <3>3
      <4>4. values'[t].opts[w] = d \/ changes[t][w] # None \/ w \in deletes[t]
        BY <3>2, <4>1, <4>2 DEF Traced
      <4>5. values'[t].opts[w] = None /\ d # None => w \in deletes[t] /\ <<t, w>> \in history'.erased
        BY <3>2, <4>1, <4>2, <4>3 DEF Traced
      <4> QED
        BY <4>4, <4>5 DEF Traced, t, d
    <3>4. CASE t \notin S
      <4>1. values'[t].opts[w] = values[t].opts[w]
        BY <3>2, <3>4
      <4>2. history.erased \subseteq history'.erased
        BY <1>1
      <4>3. /\ values'[t].opts[w] = d \/ changes[t][w] # None \/ w \in deletes[t]
            /\ values'[t].opts[w] = None /\ d # None => w \in deletes[t] /\ <<t, w>> \in history'.erased
        BY <3>2, <4>1, <4>2 DEF Traced
      <4> QED
        BY <4>3 DEF Traced, t, d
    <3> QED
      BY <3>3, <3>4
  <2>2. ("reorder" \notin touched => IndicesKept)'
    <3> SUFFICES ASSUME "reorder" \notin touched'
                 PROVE  IndicesKept'
      OBVIOUS
    <3>1. IndicesKept /\ creates' = creates /\ \A t \in DOMAIN values : values'[t].index = values[t].index
      BY <1>6 DEF Synced
    <3>2. \A i \in DOMAIN device : device[i].name \in DOMAIN values
      BY <1>6 DEF Synced, NamesOf
    <3> QED
      BY <3>1, <3>2 DEF IndicesKept
  <2> QED
    BY <1>6, <2>1, <2>2 DEF Synced, NamesOf
<1> QED
  BY <1>1, <1>4, <1>6 DEF Known

\* Every edit leaves the page with what it knows.
LEMMA EditKnown ==
  ASSUME Overlays, Indexed, Known, EditStep
  PROVE  Known'
<1>1. device' = device /\ loaded' = loaded
  BY DEF EditStep, Add, Clone, Remove, Look, Set, Move, Edit, Editing
<1>2. CASE Add
  <2>1. Unset \in Opts
    BY DEF Unset, Opts
  <2>2. Create(Unset) /\ UNCHANGED <<values, changes, deletes, history>>
    BY <1>2 DEF Add
  <2> QED
    BY <1>1, <2>1, <2>2, CreateKnown
<1>3. ASSUME NEW s \in Shown, Clone(s)
      PROVE  Known'
  <2> DEFINE x == IF s \in DOMAIN values THEN values[s].opts ELSE Unset
  <2>1. x \in Opts
    BY DEF Unset, Opts, Overlays
  <2>2. Create(x) /\ UNCHANGED <<values, changes, deletes, history>>
    BY <1>3 DEF Clone
  <2> HIDE DEF x
  <2> QED
    BY <1>1, <2>1, <2>2, CreateKnown
<1>4. ASSUME NEW s \in Shown, Remove(s)
      PROVE  Known'
  BY <1>4, RemoveKnown
<1>5. ASSUME NEW s, Look(s)
      PROVE  Known'
  <2>1. /\ values' = Merged({s}) /\ Forget({s})
        /\ UNCHANGED <<device, loaded, creates, changes, deletes, touched>>
    BY <1>5 DEF Look
  <2>2. /\ Merged({s}) \in [DOMAIN values -> [opts : Opts, index : Nat]]
        /\ \A t \in DOMAIN values : Merged({s})[t].index = values[t].index
        /\ \A t \in Existing \cap {s} : Merged({s})[t].opts = SectionOf(t).opts
    BY MergedIs
  <2>3. \A t \in Existing \ {s} : Merged({s})[t] = values[t]
    BY DEF Merged, Existing
  <2>4. DOMAIN values' = DOMAIN values
    BY <2>1, <2>2
  <2>5. \A t \in Existing \cap {s} : values'[t].opts = SectionOf(t).opts
    BY <2>1, <2>2
  <2>6. \A t \in Existing \ {s} : values'[t].opts = values[t].opts
    BY <2>1, <2>3
  <2>7. \A t \in DOMAIN values : values'[t].index = values[t].index
    BY <2>1, <2>2
  <2> QED
    BY <2>1, <2>4, <2>5, <2>6, <2>7, ForgetKnown
<1>6. ASSUME NEW s \in Shown, NEW o \in Option, NEW v \in Val \cup {None}, Set(s, o, v)
      PROVE  Known'
  <2>1. values' = values /\ (SetNew(s, o, v) \/ SetLoaded(s, o, v) \/ UnsetLoaded(s, o, v))
    BY <1>6 DEF Set
  <2> QED
    BY <1>1, <2>1, SetNewKnown, SetLoadedKnown, UnsetLoadedKnown
<1>7. ASSUME NEW s1 \in Shown, NEW s2 \in Shown, NEW after \in BOOLEAN, Move(s1, s2, after)
      PROVE  Known'
  <2>1. PICK sections : Reindex(Spliced(sections, s1, s2, after))
    BY <1>7 DEF Move
  <2> DEFINE place(s) == Place(Spliced(sections, s1, s2, after), s) - 1
  <2>2. /\ values' = [s \in DOMAIN values |->
                        IF s \in Existing THEN [Merged(Existing)[s] EXCEPT !.index = place(s)]
                        ELSE values[s]]
        /\ creates' = [s \in DOMAIN creates |-> [creates[s] EXCEPT !.index = place(s)]]
        /\ Forget(Existing)
    BY <2>1 DEF Reindex
  <2>3. touched' = touched \cup {"reorder"} /\ UNCHANGED <<changes, deletes>>
    BY <1>7 DEF Move
  <2> HIDE DEF place
  <2>4. DOMAIN values' = DOMAIN values /\ DOMAIN creates' = DOMAIN creates
    BY <2>2
  <2>5. ASSUME NEW t \in Existing
        PROVE  values'[t].opts = SectionOf(t).opts
    <3>1. /\ Merged(Existing) \in [DOMAIN values -> [opts : Opts, index : Nat]]
          /\ Merged(Existing)[t].opts = SectionOf(t).opts
      BY MergedIs
    <3> DEFINE e == Merged(Existing)[t]
    <3>2. e \in [opts : Opts, index : Nat] /\ values'[t] = [e EXCEPT !.index = place(t)]
      BY <2>2, <3>1 DEF Existing
    <3> HIDE DEF e
    <3>3. values'[t].opts = e.opts
      BY <3>2
    <3> QED
      BY <3>1, <3>3 DEF e
  <2>6. /\ \A t \in Existing \cap Existing : values'[t].opts = SectionOf(t).opts
        /\ \A t \in Existing \ Existing : values'[t].opts = values[t].opts
    BY <2>5
  <2> QED
    BY <1>1, <2>2, <2>3, <2>4, <2>6, ForgetKnown
<1> QED
  BY <1>2, <1>3, <1>4, <1>5, <1>6, <1>7 DEF EditStep, Shown

\* What is loaded is what the device has.
LEMMA LoadKnown ==
  ASSUME DeviceFits, Blank, LoadAnswer
  PROVE  Known'
<1>1. /\ values' = [s \in NamesOf(device) |->
                      [opts |-> device[Position(device, s)].opts,
                       index |-> Position(device, s) - 1]]
      /\ history' = NoHistory /\ UNCHANGED <<device, creates, changes, deletes>>
      /\ creates = EmptyFunction /\ changes = [s \in Name |-> Unset] /\ deletes = [s \in Name |-> {}]
  BY DEF LoadAnswer, Blank
<1>2. /\ history'.erased = {} /\ history'.relapsed = {} /\ ~history'.failed
      /\ HistoryFits'
  BY <1>1 DEF NoHistory, HistoryFits
<1>3. DOMAIN creates' = {} /\ (\A s \in Name : changes'[s] = Unset) /\ \A s \in Name : deletes'[s] = {}
  BY <1>1 DEF EmptyFunction
<1>4. Touches'
  BY <1>2, <1>3 DEF Touches, NothingDeleted
<1>5. ASSUME NEW i \in DOMAIN device
      PROVE  /\ values'[device[i].name].opts = device[i].opts
             /\ values'[device[i].name].index = i - 1
  <2> DEFINE s == device[i].name
  <2>1. s \in NamesOf(device)
    BY DEF NamesOf
  <2>2. Position(device, s) = i
    <3>1. \A j \in DOMAIN device : device[j].name = device[i].name => j = i
      BY DEF DeviceFits, DistinctNames, Distinct
    <3> QED
      BY <3>1 DEF Position
  <2>3. values'[s] = [opts |-> device[Position(device, s)].opts, index |-> Position(device, s) - 1]
    BY <1>1, <2>1
  <2> HIDE DEF s
  <2>4. values'[s] = [opts |-> device[i].opts, index |-> i - 1]
    BY ONLY <2>2, <2>3
  <2>5. values'[s].opts = device[i].opts /\ values'[s].index = i - 1
    BY ONLY <2>4
  <2> QED
    BY <2>5 DEF s
<1>6. NamesOf(device)' = DOMAIN values'
  BY <1>1 DEF NamesOf
<1>7. AllTraced'
  <2> SUFFICES ASSUME NEW i \in DOMAIN device, NEW w \in Option
               PROVE  Traced(device[i].name, w, device[i].opts[w])'
    BY <1>1 DEF AllTraced
  <2>1. values'[device[i].name].opts[w] = device[i].opts[w]
    BY <1>5
  <2>2. device' = device
    BY <1>1
  <2> QED
    BY <2>1, <2>2 DEF Traced
<1>8. IndicesKept'
  BY <1>1, <1>3, <1>5 DEF IndicesKept
<1>9. Synced'
  BY <1>6, <1>7, <1>8 DEF Synced
<1> QED
  BY <1>2, <1>4, <1>9 DEF Known

-----------------------------------------------------------------------------
(* Every save that is through has delivered                                *)

\* The device has what the page shows, under names that the answers give.
Delivered ==
  \E a \in [Shown -> Name] :
    /\ Carries(a, device)
    /\ \A s \in Existing : a[s] = s
    /\ "deletes" \notin touched => \A s \in DOMAIN creates : a[s] = Answers[Place(AddCalls, s)]

\* The page has asked for the order it shows.
AskedInOrder ==
  \E a \in [Shown -> Name] :
    Carries(a, device) /\ order = [i \in DOMAIN Sections |-> a[Sections[i]]]

Saving ==
  /\ saving \in {"no", "sent"} \/ touched = {} => Synced
  /\ saving = "saved" =>
       /\ history.relapsed = {} => Delivered
       /\ {"deletes", "reorder"} \cap touched = {} => ContentsOf(View) = ContentsOf(device)
  /\ saving = "ordering" => "reorder" \in touched /\ "deletes" \notin touched /\ AskedInOrder
  /\ saving = "ordered" =>
       /\ history.relapsed = {} => SameSections(View, device)
       /\ "deletes" \notin touched => ContentsOf(View) = ContentsOf(device)

SaveFits ==
  /\ HistoryFits /\ Touches
  /\ saving # "no" => loaded = "here" /\ seen = View
  /\ loaded = "here" /\ ~history.failed => Saving

\* What rests while the page saves.
LEMMA SaveKeeps ==
  ASSUME Overlays, Indexed, UNCHANGED <<values, changes, deletes, newidx>>,
         creates' = creates \/ Answered
  PROVE  /\ Existing' = Existing /\ Shown' = Shown /\ DOMAIN creates' = DOMAIN creates
         /\ Sections' = Sections /\ Contents' = Contents /\ View' = View
         /\ \A s \in DOMAIN creates : creates'[s].index = creates[s].index
<1>1. /\ DOMAIN creates' = DOMAIN creates
      /\ \A s \in DOMAIN creates : /\ creates'[s].opts = creates[s].opts
                                   /\ creates'[s].index = creates[s].index
  <2>1. CASE creates' = creates
    BY <2>1
  <2>2. CASE Answered
    <3>1. creates' = [s \in DOMAIN creates |-> Named(s)]
      BY <2>2 DEF Answered
    <3>2. ASSUME NEW s \in DOMAIN creates
          PROVE  creates'[s].opts = creates[s].opts /\ creates'[s].index = creates[s].index
      <4> DEFINE e == creates[s]
      <4> PICK x : x = Answers[Place(AddCalls, s)]
        OBVIOUS
      <4>1. creates'[s] = [e EXCEPT !.name = x]
        BY <3>1 DEF Named
      <4>2. e = [opts |-> e.opts, index |-> e.index, name |-> e.name]
        BY DEF Overlays, NewSection
      <4> HIDE DEF e
      <4>3. creates'[s].opts = e.opts /\ creates'[s].index = e.index
        BY <4>1, <4>2
      <4> QED
        BY <4>3 DEF e
    <3> QED
      BY <3>1, <3>2
  <2> QED
    BY <2>1, <2>2
<1>2. Existing' = Existing /\ Shown' = Shown
  BY <1>1 DEF Existing, Shown
<1>3. \A s \in Shown, w \in Option : Get(s, w)' = Get(s, w)
  <2>1. \A s \in Existing : values'[s].opts \in {values[s].opts, SectionOf(s).opts}
    OBVIOUS
  <2> QED
    BY <1>1, <2>1, SameGet
<1>4. \A s \in Shown : IndexOf(s)' = IndexOf(s)
  BY <1>1 DEF IndexOf, Shown
<1>5. Sections' = Sections
  BY <1>2, <1>4, SameOrder
<1>6. Contents' = Contents
  BY <1>2, <1>3, SameContents
<1>7. View' = View
  BY <1>2, <1>3, <1>4, SameView
<1> QED
  BY <1>1, <1>2, <1>5, <1>6, <1>7

\* What the page knows rests, too.
LEMMA SyncedKeeps ==
  ASSUME Overlays, Synced, UNCHANGED <<device, values, changes, deletes, touched, history>>,
         Existing' = Existing, DOMAIN creates' = DOMAIN creates,
         \A s \in DOMAIN creates : creates'[s].index = creates[s].index
  PROVE  Synced'
<1>1. (history.relapsed = {} => AllTraced)'
  BY DEF Synced, AllTraced, Traced
<1>2. ("reorder" \notin touched => IndicesKept)'
  BY DEF Synced, IndicesKept
<1> QED
  BY <1>1, <1>2 DEF Synced, NamesOf

\* rpcd has carried out the batch.
LEMMA SavedKnown ==
  ASSUME CacheFits, SaveFits, loaded = "here", ~history.failed, RpcdSaves
  PROVE  Saving'
<1>1. /\ saving = "sent" /\ saving' = "saved" /\ device' = AfterBatch
      /\ UNCHANGED <<loaded, values, creates, changes, deletes, touched, newidx, history, seen>>
      /\ Cardinality(DOMAIN creates) <= Cardinality(Name \ NamesOf(device))
  BY DEF RpcdSaves, overlay
<1>2. DeviceFits /\ Overlays /\ Indexed
  BY DEF CacheFits
<1>3. Synced /\ Touches
  BY <1>1 DEF SaveFits, Saving
<1>4. /\ Existing' = Existing /\ Shown' = Shown
      /\ Sections' = Sections /\ Contents' = Contents /\ View' = View
  BY <1>1, <1>2, SaveKeeps
<1>5. "deletes" \notin touched => NothingDeleted /\ history.relapsed = {} /\ AllTraced
  BY <1>3 DEF Touches, Synced
<1>6. ASSUME touched' = {}
      PROVE  Synced'
  <2>1. device' = device
    BY <1>1, <1>2, <1>3, <1>6, BatchOfNothing DEF Touches
  <2> QED
    BY <1>1, <1>2, <1>3, <1>4, <2>1, SyncedKeeps
<1>7. ASSUME history'.relapsed = {}
      PROVE  Delivered'
  <2>1. AllTraced /\ NamesOf(device) = DOMAIN values
    BY <1>1, <1>3, <1>7 DEF Synced
  <2>2. PICK a \in [Shown -> Name] :
          /\ Carries(a, AfterBatch)
          /\ \A s \in Existing : a[s] = s
          /\ \A s \in DOMAIN creates : a[s] = NewNames[Place(AddCalls, s)]
    BY <1>1, <1>2, <2>1, BatchCarries
  <2>3. Carries(a, device)'
    BY <1>1, <1>4, <2>2 DEF Carries
  <2>4. ASSUME "deletes" \notin touched, NEW s \in DOMAIN creates
        PROVE  a[s] = Answers'[Place(AddCalls, s)']
    <3>1. AddCalls' = AddCalls
      BY <1>1 DEF AddCalls
    <3>2. Place(AddCalls, s)' = Place(AddCalls, s)
      BY <3>1 DEF Place
    <3>3. Place(AddCalls, s) \in 1..Len(AddCalls)
      BY <1>2, AddCallsPlace
    <3>4. \A i \in 1..Len(AddCalls) : Answers'[i] = NewNames[i]
      BY <1>1, <1>2, <1>5, <2>4, BatchAnswers
    <3> QED
      BY <2>2, <3>2, <3>3, <3>4
  <2> QED
    BY <1>1, <1>4, <2>2, <2>3, <2>4 DEF Delivered
<1>8. ASSUME {"deletes", "reorder"} \cap touched' = {}
      PROVE  ContentsOf(View') = ContentsOf(device')
  <2>1. NothingDeleted /\ AllTraced /\ IndicesKept /\ NamesOf(device) = DOMAIN values
    BY <1>1, <1>3, <1>5, <1>8 DEF Synced
  <2>2. ContentsOf(View) = ContentsOf(AfterBatch)
    BY <1>1, <1>2, <2>1, BatchInOrder
  <2> QED
    BY <1>1, <1>4, <2>2
<1>9. ContentsOf(View)' = ContentsOf(View') /\ ContentsOf(device)' = ContentsOf(device')
  BY DEF ContentsOf
<1> QED
  BY <1>1, <1>6, <1>7, <1>8, <1>9 DEF Saving

\* The page has the answers.
LEMMA AnsweredKnown ==
  ASSUME CacheFits, SaveFits, loaded = "here", ~history.failed, Answered
  PROVE  Saving'
<1>1. /\ saving = "saved" /\ order' = ToOrder
      /\ saving' = (IF ToOrder = <<>> THEN "ordered" ELSE "ordering")
      /\ UNCHANGED <<device, loaded, values, changes, deletes, touched, newidx, history, seen>>
  BY DEF Answered
<1>2. DeviceFits /\ Overlays /\ Indexed
  BY DEF CacheFits
<1>3. Touches /\ Saving
  BY DEF SaveFits
<1>4. /\ Existing' = Existing /\ Shown' = Shown /\ DOMAIN creates' = DOMAIN creates
      /\ Sections' = Sections /\ Contents' = Contents /\ View' = View
      /\ \A s \in DOMAIN creates : creates'[s].index = creates[s].index
  BY <1>1, <1>2, SaveKeeps
<1>5. "deletes" \notin touched => NothingDeleted /\ history.relapsed = {}
  BY <1>3 DEF Touches
<1>6. ASSUME touched' = {}
      PROVE  Synced'
  <2>1. Synced
    BY <1>1, <1>3, <1>6 DEF Saving
  <2> QED
    BY <1>1, <1>2, <1>4, <2>1, SyncedKeeps
<1>7. ASSUME ToOrder # <<>>
      PROVE  "reorder" \in touched' /\ "deletes" \notin touched' /\ AskedInOrder'
  <2>1. "reorder" \in touched /\ "deletes" \notin touched
    BY <1>7 DEF ToOrder
  <2>2. PICK a \in [Shown -> Name] :
          /\ Carries(a, device)
          /\ \A s \in Existing : a[s] = s
          /\ \A s \in DOMAIN creates : a[s] = Answers[Place(AddCalls, s)]
    BY <1>1, <1>3, <1>5, <2>1 DEF Saving, Delivered
  <2>3. ToOrder = [i \in DOMAIN Sections |-> a[Sections[i]]]
    BY <1>2, <1>5, <2>1, <2>2, OrderIsSections
  <2>4. Carries(a, device)'
    BY <1>1, <1>4, <2>2 DEF Carries
  <2> QED
    BY <1>1, <1>4, <2>1, <2>3, <2>4 DEF AskedInOrder
<1>8. ASSUME history'.relapsed = {}
      PROVE  SameSections(View', device')
  <2>1. PICK a \in [Shown -> Name] : Carries(a, device)
    BY <1>1, <1>3, <1>8 DEF Saving, Delivered
  <2>2. SameSections(View, device)
    BY <1>2, <2>1, CarriedIsSame DEF DeviceFits
  <2> QED
    BY <1>1, <1>4, <2>2
<1>9. ASSUME ToOrder = <<>>, "deletes" \notin touched'
      PROVE  ContentsOf(View') = ContentsOf(device')
  <2>1. CASE "reorder" \notin touched
    <3>1. {"deletes", "reorder"} \cap touched = {}
      BY <1>1, <1>9, <2>1
    <3>2. ContentsOf(View) = ContentsOf(device)
      BY <1>1, <1>3, <3>1 DEF Saving
    <3> QED
      BY <1>1, <1>4, <3>2
  <2>2. CASE "reorder" \in touched
    <3>1. PICK a \in [Shown -> Name] :
            /\ Carries(a, device)
            /\ \A s \in Existing : a[s] = s
            /\ \A s \in DOMAIN creates : a[s] = Answers[Place(AddCalls, s)]
      BY <1>1, <1>3, <1>5, <1>9 DEF Saving, Delivered
    <3>2. ToOrder = [i \in DOMAIN Sections |-> a[Sections[i]]]
      BY <1>1, <1>2, <1>5, <1>9, <2>2, <3>1, OrderIsSections
    <3>3. DOMAIN Sections = {}
      <4>1. DOMAIN ToOrder = DOMAIN Sections
        BY <3>2
      <4> QED
        BY <1>9, <4>1
    <3>4. /\ \A s \in Shown : \E i \in DOMAIN Sections : Sections[i] = s
          /\ DOMAIN View = DOMAIN Sections
      <4>1. /\ Lists(Sections, Cardinality(Shown), Shown, Keys)
            /\ View = [i \in 1..Cardinality(Shown) |-> Contents[Sections[i]]]
        BY <1>2, SectionsList
      <4> QED
        BY <4>1 DEF Lists
    <3>5. DOMAIN device = {}
      <4>1. Within(device) = {}
        BY <3>1, <3>3, <3>4 DEF Carries
      <4> QED
        BY <4>1 DEF Within
    <3>6. ContentsOf(View) = ContentsOf(device)
      BY <3>3, <3>4, <3>5 DEF ContentsOf
    <3> QED
      BY <1>1, <1>4, <3>6
  <2> QED
    BY <2>1, <2>2
<1>10. /\ SameSections(View, device)' = SameSections(View', device')
       /\ ContentsOf(View)' = ContentsOf(View') /\ ContentsOf(device)' = ContentsOf(device')
  BY DEF SameSections, ContentsOf
<1>11. CASE ToOrder = <<>>
  <2>1. saving' = "ordered"
    BY <1>1, <1>11
  <2> QED
    BY <1>6, <1>8, <1>9, <1>10, <1>11, <2>1 DEF Saving
<1>12. CASE ToOrder # <<>>
  <2>1. saving' = "ordering"
    BY <1>1, <1>12
  <2> QED
    BY <1>6, <1>7, <1>12, <2>1 DEF Saving
<1> QED
  BY <1>11, <1>12

\* rpcd has ordered the sections.
LEMMA OrdersKnown ==
  ASSUME CacheFits, SaveFits, loaded = "here", ~history.failed, RpcdOrders
  PROVE  Saving'
<1>1. /\ saving = "ordering" /\ saving' = "ordered" /\ device' = Ordered(device, order)
      /\ UNCHANGED <<values, creates, changes, deletes, touched, newidx, history, seen>>
  BY DEF RpcdOrders, overlay
<1>2. DeviceFits /\ Overlays /\ Indexed
  BY DEF CacheFits
<1>3. "reorder" \in touched /\ AskedInOrder
  BY <1>1 DEF SaveFits, Saving
<1>4. View' = View
  BY <1>1, <1>2, SaveKeeps
<1>5. PICK a \in [Shown -> Name] :
        Carries(a, device) /\ order = [i \in DOMAIN Sections |-> a[Sections[i]]]
  BY <1>3 DEF AskedInOrder
<1>6. ContentsOf(View) = ContentsOf(Ordered(device, order))
  BY <1>2, <1>5, OrderedAsSeen DEF DeviceFits
<1>7. ContentsOf(View') = ContentsOf(device')
  BY <1>1, <1>4, <1>6
<1>8. SameSections(View', device')
  BY <1>7, SameContentsSame
<1>9. /\ SameSections(View, device)' = SameSections(View', device')
      /\ ContentsOf(View)' = ContentsOf(View') /\ ContentsOf(device)' = ContentsOf(device')
  BY DEF SameSections, ContentsOf
<1> QED
  BY <1>1, <1>3, <1>7, <1>8, <1>9 DEF Saving

\* A step that leaves the overlays and the device alone.
LEMMA SavingKeeps ==
  ASSUME Overlays, Indexed, Saving,
         UNCHANGED <<device, values, creates, changes, deletes, newidx, touched, history, order, saving>>
  PROVE  Saving'
<1>1. /\ Existing' = Existing /\ Shown' = Shown
      /\ Sections' = Sections /\ Contents' = Contents /\ View' = View
  BY SaveKeeps
<1>2. Synced => Synced'
  BY <1>1, SyncedKeeps
<1>3. AddCalls' = AddCalls
  BY DEF AddCalls
<1>4. Answers' = Answers
  BY <1>3 DEF Answers, DeleteCalls
<1>5. \A a : Carries(a, device)' <=> Carries(a, device)
  BY <1>1 DEF Carries
<1>6. \A s : Place(AddCalls, s)' = Place(AddCalls, s)
  BY <1>3 DEF Place
<1>7. Delivered => Delivered'
  BY <1>1, <1>4, <1>5, <1>6 DEF Delivered
<1>8. AskedInOrder => AskedInOrder'
  BY <1>1, <1>5 DEF AskedInOrder
<1>9. /\ SameSections(View, device)' = SameSections(View, device)
      /\ ContentsOf(View)' = ContentsOf(View) /\ ContentsOf(device)' = ContentsOf(device)
  BY <1>1 DEF SameSections, ContentsOf
<1> QED
  BY <1>2, <1>7, <1>8, <1>9 DEF Saving

\* A page that is opened has nothing to save.
LEMMA OpenedFits ==
  ASSUME Clean, touched' = {}, saving' = "no", loaded' # "here", HistoryFits'
  PROVE  SaveFits'
<1>1. DOMAIN creates' = {} /\ (\A s \in Name : changes'[s] = Unset) /\ \A s \in Name : deletes'[s] = {}
  BY DEF Clean, EmptyFunction
<1>2. Touches'
  BY <1>1 DEF Touches, NothingDeleted
<1> QED
  BY <1>2 DEF SaveFits

LEMMA InitSaves ==
  Init => SaveFits
<1> SUFFICES ASSUME Init
             PROVE  SaveFits
  OBVIOUS
<1>1. /\ loaded = "no" /\ saving = "no" /\ touched = {} /\ history = NoHistory
      /\ creates = EmptyFunction /\ changes = [s \in Name |-> Unset] /\ deletes = [s \in Name |-> {}]
  BY DEF Init, Closed
<1>2. HistoryFits
  BY <1>1 DEF HistoryFits, NoHistory
<1>3. DOMAIN creates = {} /\ (\A s \in Name : changes[s] = Unset) /\ \A s \in Name : deletes[s] = {}
  BY <1>1 DEF EmptyFunction
<1>4. Touches
  BY <1>1, <1>3 DEF Touches, NothingDeleted
<1> QED
  BY <1>1, <1>2, <1>4 DEF SaveFits

LEMMA LoadSaves ==
  ASSUME CacheFits, SaveFits, Load \/ LoadAnswer \/ LoadFails \/ Reopen
  PROVE  SaveFits'
<1>1. CASE Load \/ LoadFails
  <2>1. /\ loaded \in {"no", "asked"} /\ loaded' # "here" /\ saving' = saving
        /\ UNCHANGED <<creates, changes, deletes, touched, history>>
    BY <1>1 DEF Load, LoadFails, overlay, save
  <2>2. saving = "no"
    BY <2>1 DEF SaveFits
  <2>3. HistoryFits'
    BY <2>1 DEF SaveFits, HistoryFits
  <2>4. Touches'
    BY <2>1 DEF SaveFits, Touches, NothingDeleted
  <2> QED
    BY <2>1, <2>2, <2>3, <2>4 DEF SaveFits
<1>2. CASE LoadAnswer
  <2>1. loaded = "asked" /\ loaded' = "here" /\ saving' = saving
    BY <1>2 DEF LoadAnswer, save
  <2>2. saving = "no" /\ DeviceFits /\ Blank
    BY <2>1 DEF SaveFits, CacheFits
  <2>3. Known'
    BY <1>2, <2>2, LoadKnown
  <2>4. ~history'.failed => Saving'
    BY <2>1, <2>2, <2>3 DEF Known, Saving
  <2> QED
    BY <2>1, <2>2, <2>3, <2>4 DEF Known, SaveFits
<1>3. CASE Reopen
  <2>1. Clean /\ touched' = {} /\ saving' = "no" /\ loaded' # "here" /\ history' = NoHistory
    BY <1>3 DEF Reopen
  <2>2. HistoryFits'
    BY <2>1 DEF HistoryFits, NoHistory
  <2> QED
    BY <2>1, <2>2, OpenedFits
<1> QED
  BY <1>1, <1>2, <1>3

LEMMA EditSaves ==
  ASSUME CacheFits, SaveFits, EditStep
  PROVE  SaveFits'
<1>1. loaded = "here" /\ saving = "no" /\ loaded' = loaded /\ saving' = saving
  BY DEF EditStep, Add, Clone, Remove, Look, Set, Move, Edit, Editing, save
<1>2. Known
  BY <1>1 DEF SaveFits, Saving, Known
<1>3. Overlays /\ Indexed
  BY DEF CacheFits
<1>4. Known'
  BY <1>2, <1>3, EditKnown
<1>5. ~history'.failed => Saving'
  BY <1>1, <1>4 DEF Known, Saving
<1> QED
  BY <1>1, <1>4, <1>5 DEF Known, SaveFits

\* A request of the save, or its answer.
LEMMA CallSaves ==
  ASSUME CacheFits, SaveFits, Save \/ RpcdSaves \/ Answered \/ RpcdOrders
  PROVE  SaveFits'
<1>1. Overlays /\ Indexed
  BY DEF CacheFits
<1>2. /\ UNCHANGED <<loaded, values, changes, deletes, touched, newidx, history>>
      /\ creates' = creates \/ Answered
      /\ saving' # "no"
  BY DEF Save, RpcdSaves, Answered, RpcdOrders, overlay
<1>3. DOMAIN creates' = DOMAIN creates /\ View' = View
  BY <1>1, <1>2, SaveKeeps
<1>4. loaded = "here" /\ seen' = View
  BY DEF Save, Editing, RpcdSaves, Answered, RpcdOrders, SaveFits
<1>5. HistoryFits' /\ Touches'
  BY <1>2, <1>3 DEF SaveFits, HistoryFits, Touches, NothingDeleted
<1>6. ASSUME ~history'.failed
      PROVE  Saving'
  <2>1. ~history.failed
    BY <1>2, <1>6
  <2>2. CASE Save
    <3>1. saving = "no" /\ saving' = "sent" /\ UNCHANGED <<device, creates>>
      BY <2>2 DEF Save, Editing, overlay
    <3>2. Synced
      BY <1>4, <2>1, <3>1 DEF SaveFits, Saving
    <3>3. Existing' = Existing /\ \A s \in DOMAIN creates : creates'[s].index = creates[s].index
      BY <1>1, <1>2, SaveKeeps
    <3>4. Synced'
      BY <1>1, <1>2, <1>3, <3>1, <3>2, <3>3, SyncedKeeps
    <3> QED
      BY <3>1, <3>4 DEF Saving
  <2> QED
    BY <1>4, <2>1, <2>2, SavedKnown, AnsweredKnown, OrdersKnown
<1> QED
  BY <1>2, <1>3, <1>4, <1>5, <1>6 DEF SaveFits

\* The save is over.
LEMMA OverSaves ==
  ASSUME CacheFits, SaveFits, Finish \/ SaveFails \/ RpcdSavesInPart
  PROVE  SaveFits'
<1>1. Overlays /\ Indexed
  BY DEF CacheFits
<1>2. saving # "no" /\ saving' = "no"
  BY DEF Finish, SaveFails, RpcdSavesInPart
<1>3. CASE Finish /\ touched = {}
  <2>1. UNCHANGED <<device, loaded, values, creates, changes, deletes, touched, newidx, history>>
    BY <1>3 DEF Finish, overlay
  <2>2. HistoryFits' /\ Touches'
    BY <2>1 DEF SaveFits, HistoryFits, Touches, NothingDeleted
  <2>3. ASSUME loaded' = "here", ~history'.failed
        PROVE  Saving'
    <3>1. Synced
      BY <1>3, <2>1, <2>3 DEF SaveFits, Saving
    <3>2. Existing' = Existing
      BY <2>1 DEF Existing
    <3>3. Synced'
      BY <1>1, <2>1, <3>1, <3>2, SyncedKeeps
    <3> QED
      BY <1>2, <3>3 DEF Saving
  <2> QED
    BY <1>2, <2>2, <2>3 DEF SaveFits
<1>4. CASE Finish /\ touched # {}
  <2>1. Clean /\ touched' = {} /\ loaded' # "here" /\ history' = history
    BY <1>4 DEF Finish
  <2>2. HistoryFits'
    BY <2>1 DEF SaveFits, HistoryFits
  <2> QED
    BY <1>2, <2>1, <2>2, OpenedFits
<1>5. CASE SaveFails \/ RpcdSavesInPart
  <2>1. /\ history' = [history EXCEPT !.failed = TRUE]
        /\ touched' \in {touched, touched \ {"reorder"}}
        /\ UNCHANGED <<loaded, creates, changes, deletes>>
    BY <1>5 DEF SaveFails, RpcdSavesInPart, overlay
  <2> DEFINE h == history
  <2>2. /\ h \in [erased : SUBSET (Name \X Option), relapsed : SUBSET (Name \X Option), failed : BOOLEAN]
        /\ history' = [h EXCEPT !.failed = TRUE]
    BY <2>1 DEF SaveFits, HistoryFits
  <2> HIDE DEF h
  <2>3. /\ history' \in [erased : SUBSET (Name \X Option), relapsed : SUBSET (Name \X Option), failed : BOOLEAN]
        /\ history'.failed /\ history'.erased = h.erased /\ history'.relapsed = h.relapsed
    BY <2>2
  <2>4. HistoryFits'
    BY <2>3 DEF HistoryFits
  <2>5. Touches'
    BY <2>1, <2>3 DEF h, SaveFits, Touches, NothingDeleted
  <2> QED
    BY <1>2, <2>3, <2>4, <2>5 DEF SaveFits
<1> QED
  BY <1>3, <1>4, <1>5

LEMMA NextSaves ==
  CacheFits /\ SaveFits /\ [Next]_vars => SaveFits'
<1> SUFFICES ASSUME CacheFits, SaveFits, [Next]_vars
             PROVE  SaveFits'
  OBVIOUS
<1>1. CASE Next
  BY <1>1, LoadSaves, EditSaves, CallSaves, OverSaves DEF Next, SaveStep
<1>2. CASE UNCHANGED vars
  <2>1. UNCHANGED <<device, loaded, values, creates, changes, deletes, touched, newidx, saving, order, seen, history>>
    BY <1>2 DEF vars, overlay, save
  <2>2. Overlays /\ Indexed
    BY DEF CacheFits
  <2>3. View' = View
    BY <2>1, <2>2, SaveKeeps
  <2>4. Saving => Saving'
    BY <2>1, <2>2, SavingKeeps
  <2>5. HistoryFits' /\ Touches'
    BY <2>1 DEF SaveFits, HistoryFits, Touches, NothingDeleted
  <2> QED
    BY <2>1, <2>3, <2>4, <2>5 DEF SaveFits
<1> QED
  BY <1>1, <1>2

\* What a save has done when it is through.
LEMMA FinishIsSeen ==
  ASSUME CacheFits, SaveFits, Finishes, ~history.failed
  PROVE  /\ history.relapsed = {} => SameSections(seen, device)
         /\ "deletes" \notin touched => ContentsOf(seen) = ContentsOf(device)
<1>1. loaded = "here" /\ seen = View /\ Saving /\ saving = "ordered"
  BY DEF Finishes, SaveFits
<1> QED
  BY <1>1 DEF Saving

\* However often the page edits, saves and loses answers, the overlays that
\* exist hold what the page has edited, under them the page has what the device
\* has, and each request of a save that has been carried out has brought the
\* device nearer to what the page shows.
THEOREM SaveInvariance ==
  Spec => []SaveFits
<1>1. Init => CacheFits /\ SaveFits
  BY InitShown, InitSaves
<1>2. CacheFits /\ SaveFits /\ [Next]_vars => (CacheFits /\ SaveFits)'
  BY NextShown, NextSaves
<1> QED
  BY <1>1, <1>2, PTL DEF Spec

\* When a save is through and none has failed before, the sections of the device
\* have the options the page showed when save() of uci.js was called: nothing is
\* lost, doubled or mixed up between sections, for any configuration and for
\* all edits but one kind, an option that is deleted, looked at, set and deleted
\* again (history.relapsed).
THEOREM SaveIsSeen ==
  Spec => SavedAsSeen
<1>1. CacheFits /\ SaveFits /\ [Next]_vars
        => [Finishes /\ ~history.failed /\ history.relapsed = {} => SameSections(seen, device)]_vars
  BY FinishIsSeen
<1>2. Spec => [](CacheFits /\ SaveFits)
  BY CacheInvariance, SaveInvariance, PTL
<1> QED
  BY <1>1, <1>2, PTL DEF Spec, SavedAsSeen

\* A save of a configuration nothing was deleted in, which no failed save
\* preceded, puts the sections in the order the page showed: the answers name the created sections, and
\* reorderSections() of uci.js asks for that order.
THEOREM SaveKeepsOrder ==
  Spec => SavedInOrder
<1>1. CacheFits /\ SaveFits /\ [Next]_vars
        => [Finishes /\ ~history.failed /\ "deletes" \notin touched
              => ContentsOf(seen) = ContentsOf(device)]_vars
  BY FinishIsSeen
<1>2. Spec => [](CacheFits /\ SaveFits)
  BY CacheInvariance, SaveInvariance, PTL
<1> QED
  BY <1>1, <1>2, PTL DEF Spec, SavedInOrder

=============================================================================
