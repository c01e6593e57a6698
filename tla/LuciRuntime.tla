----------------------------- MODULE LuciRuntime -----------------------------
(***************************************************************************)
(* The running LuCI page: polling and remote calls (luci.js, rpc.js).      *)
(*                                                                         *)
(* Poll calls its functions every so many seconds, each one only after its *)
(* last call has settled.  Calls made before the next animation frame      *)
(* leave as one batch; their answers are told apart by their places in the *)
(* reply.  A call that is denied has rpc.js ask whether the session is     *)
(* still good, again with a call; if not, polling stops and the page says  *)
(* that the session has expired.                                           *)
(*                                                                         *)
(* Simplifications.  A poll function makes one call and settles with it;   *)
(* at most two calls of one function are on their way, which takes         *)
(* removing and adding it.  The user makes one call at a time.  The wrap   *)
(* of the tick at 2^32 is at Wrap.                                         *)
(***************************************************************************)
EXTENDS Integers, Sequences, FiniteSets, InOrder

CONSTANTS
  Fn,       \* functions that are polled
  Interval, \* how often, in ticks
  Removed,  \* those that the page also removes
  Wrap,     \* where the tick wraps, a multiple of every interval
  MaxLost   \* replies that are lost or cut short

ASSUME RuntimeAssumption ==
  /\ Interval \in [Fn -> Nat \ {0}]
  /\ Wrap \in Nat \ {0} /\ \A f \in Fn : Wrap % Interval[f] = 0
  /\ MaxLost \in Nat
  /\ Removed \subseteq Fn
  /\ "page" \notin Fn

VARIABLES
  queue,   \* Poll.queue: a function, its last call, whether that has settled
  tick,    \* Poll.tick, or Undefined
  timer,   \* whether the interval timer runs
  calls,   \* for each call: its state, whether it asks for access
  waiting, \* requestQueue
  batches, \* the batches on their way, with their replies
  session, \* "valid" or "expired", on the device
  expired, \* whether the page says that the session has expired
  lost     \* replies lost so far

pollVars == <<queue, tick, timer>>
rpcVars == <<calls, waiting, batches>>
runtimeVars == <<pollVars, rpcVars, session, expired, lost>>

SeqRange(seq) == {seq[i] : i \in DOMAIN seq}

Undefined == -1

PageCalls == <<"page", 1>>

\* A call is named after the function that makes it.
Call == (Fn \X {1}) \cup (Removed \X {2}) \cup {PageCalls}

Idle == [at |-> "idle", access |-> FALSE]

Entry == [fn : Fn, r : BOOLEAN, n : {1, 2}]

Answer == [to : Call, denied : BOOLEAN]

Batch == [calls : Seq(Call), reply : Seq(Answer), lost : BOOLEAN]

RuntimeTypeOK ==
  /\ queue \in Seq(Entry)
  /\ tick \in {Undefined} \cup 0..(Wrap - 1) /\ timer \in BOOLEAN
  /\ calls \in [Call -> [at : {"idle", "waiting", "sent"}, access : BOOLEAN]]
  /\ waiting \in Seq(Call)
  /\ batches \in SUBSET Batch
  /\ session \in {"valid", "expired"} /\ expired \in BOOLEAN /\ lost \in 0..MaxLost

RuntimeInit ==
  /\ queue = <<>> /\ tick = 0 /\ timer = FALSE
  /\ calls = [c \in Call |-> Idle] /\ waiting = <<>> /\ batches = {}
  /\ session = "valid" /\ expired = FALSE /\ lost = 0

-----------------------------------------------------------------------------
(* Poll                                                                    *)

Polled == {queue[i].fn : i \in DOMAIN queue}

\* The entries of q step() calls.
Due(q, t) == {i \in DOMAIN q : q[i].r /\ t % Interval[q[i].fn] = 0}

FreeCall(f) == IF calls[<<f, 1>>] = Idle \/ f \notin Removed THEN 1 ELSE 2

CallOf(e) == <<e.fn, e.n>>

\* step(), with the queue q and at tick t.
Step(q, t) ==
  /\ \A i \in Due(q, t) : calls[<<q[i].fn, FreeCall(q[i].fn)>>] = Idle
  /\ queue' = [i \in DOMAIN q |->
                 IF i \in Due(q, t) THEN [q[i] EXCEPT !.r = FALSE, !.n = FreeCall(q[i].fn)]
                 ELSE q[i]]
  /\ calls' = [c \in Call |->
                 IF \E i \in Due(q, t) : CallOf(queue'[i]) = c
                   THEN [Idle EXCEPT !.at = "waiting"] ELSE calls[c]]
  /\ waiting' = waiting \o
       Selected([i \in DOMAIN q |-> CallOf(queue'[i])], Due(q, t))
  /\ tick' = (t + 1) % Wrap

\* start(): without anything to poll it only gets ready.
Starts(q) ==
  IF q = <<>> THEN tick' = 0 /\ queue' = q /\ UNCHANGED <<timer, calls, waiting>>
  ELSE timer' = TRUE /\ Step(q, 0)

StartPoll ==
  /\ ~timer
  /\ Starts(queue)
  /\ UNCHANGED <<batches, session, expired, lost>>

Stopped == timer' = FALSE /\ tick' = Undefined

StopPoll ==
  /\ timer /\ Stopped
  /\ UNCHANGED <<queue, rpcVars, session, expired, lost>>

AddPoll(f) ==
  /\ f \notin Polled
  /\ LET q == Append(queue, [fn |-> f, r |-> TRUE, n |-> FreeCall(f)])
     IN IF tick # Undefined /\ ~timer THEN Starts(q)
        ELSE queue' = q /\ UNCHANGED <<tick, timer, calls, waiting>>
  /\ UNCHANGED <<batches, session, expired, lost>>

\* The call of a removed entry is nobody's: a new entry does not wait for it.
RemovePoll(f) ==
  /\ f \in Polled \cap Removed
  /\ queue' = Selected(queue, {i \in DOMAIN queue : queue[i].fn # f})
  /\ IF queue' = <<>> /\ timer THEN timer' = FALSE /\ tick' = 0 ELSE UNCHANGED <<timer, tick>>
  /\ UNCHANGED <<rpcVars, session, expired, lost>>

Ticks ==
  /\ timer /\ Step(queue, tick)
  /\ UNCHANGED <<timer, batches, session, expired, lost>>

-----------------------------------------------------------------------------
(* Remote calls                                                            *)

\* A call the page makes for the user.
PageCall ==
  /\ calls[PageCalls] = Idle /\ ~expired
  /\ calls' = [calls EXCEPT ![PageCalls].at = "waiting"]
  /\ waiting' = Append(waiting, PageCalls)
  /\ UNCHANGED <<pollVars, batches, session, expired, lost>>

\* flushRequestQueue
Flush ==
  /\ waiting # <<>>
  /\ batches' = batches \cup {[calls |-> waiting, reply |-> <<>>, lost |-> FALSE]}
  /\ calls' = [c \in Call |-> IF calls[c].at = "waiting" THEN [calls[c] EXCEPT !.at = "sent"]
                                                         ELSE calls[c]]
  /\ waiting' = <<>>
  /\ UNCHANGED <<pollVars, session, expired, lost>>

\* The device answers every call of the batch.  A call may be denied while the
\* session is good; asking for access to LuCI is not.
Serve(b) ==
  /\ b.reply = <<>> /\ ~b.lost
  /\ \E denied \in SUBSET SeqRange(b.calls) :
       /\ \A i \in DOMAIN b.calls :
            /\ session = "expired" => b.calls[i] \in denied
            /\ session = "valid" /\ calls[b.calls[i]].access => b.calls[i] \notin denied
       /\ batches' = (batches \ {b}) \cup
            {[b EXCEPT !.reply = [i \in DOMAIN b.calls |->
                                    [to |-> b.calls[i], denied |-> b.calls[i] \in denied]]]}
  /\ UNCHANGED <<pollVars, calls, waiting, session, expired, lost>>

\* The reply lacks its last answers, or all of them.
LoseReply(b) ==
  /\ b.reply # <<>> /\ lost < MaxLost
  /\ \E n \in 0..(Len(b.reply) - 1) :
       batches' = (batches \ {b}) \cup {[b EXCEPT !.reply = SubSeq(@, 1, n), !.lost = TRUE]}
  /\ lost' = lost + 1
  /\ UNCHANGED <<pollVars, calls, waiting, session, expired>>

\* The i-th answer goes to the i-th call.
AnswerTo(b, i) == IF i \in DOMAIN b.reply THEN {b.reply[i]} ELSE {}

IsDenied(b, i) == \E a \in AnswerTo(b, i) : a.denied

Places(b, access) == {i \in DOMAIN b.calls : calls[b.calls[i]].access = access}

\* Mutant of Asking: the interceptor looks after the calls of the user only.
AskingForUser(b) == {i \in Places(b, FALSE) : IsDenied(b, i) /\ b.calls[i] = PageCalls}

\* Denied calls have the interceptor ask for access before they settle.
Asking(b) == {i \in Places(b, FALSE) : IsDenied(b, i)}

\* Mutant of Settled: a call that is missing in the reply is forgotten.
SettledIfAnswered(b) == {b.calls[i] : i \in DOMAIN b.reply \ Asking(b)}

Settled(b) == {b.calls[i] : i \in DOMAIN b.calls \ Asking(b)}

\* A question for access that is denied, or fails.
Refused(b) == {i \in Places(b, TRUE) : AnswerTo(b, i) = {} \/ IsDenied(b, i)}

\* The entry may be called again.
Ready(q, settled) ==
  [i \in DOMAIN q |-> [q[i] EXCEPT !.r = @ \/ CallOf(q[i]) \in settled]]

Receive(b) ==
  /\ b.reply # <<>> \/ b.lost
  /\ batches' = batches \ {b}
  /\ calls' = [c \in Call |->
                 IF c \in Settled(b) THEN Idle
                 ELSE IF \E i \in Asking(b) : b.calls[i] = c
                   THEN [calls[c] EXCEPT !.at = "waiting", !.access = TRUE]
                   ELSE calls[c]]
  /\ waiting' = waiting \o Selected(b.calls, Asking(b))
  /\ queue' = Ready(queue, Settled(b))
  /\ expired' = (expired \/ Refused(b) # {})
  /\ IF Refused(b) # {} /\ timer THEN Stopped ELSE UNCHANGED <<timer, tick>>
  /\ UNCHANGED <<session, lost>>

Expire ==
  /\ session = "valid" /\ session' = "expired"
  /\ UNCHANGED <<pollVars, rpcVars, expired, lost>>

RuntimeNext ==
  \/ StartPoll \/ StopPoll \/ Ticks \/ PageCall \/ Flush \/ Expire
  \/ \E f \in Fn : AddPoll(f) \/ RemovePoll(f)
  \/ \E b \in batches : Serve(b) \/ LoseReply(b) \/ Receive(b)

RuntimeSpec == RuntimeInit /\ [][RuntimeNext]_runtimeVars

\* The timer fires, frames are drawn, and every request is answered or times
\* out.
RuntimeFairness ==
  /\ WF_runtimeVars(Ticks) /\ WF_runtimeVars(Flush)
  /\ \A c \in Call : WF_runtimeVars(\E b \in batches : c \in SeqRange(b.calls) /\ (Serve(b) \/ Receive(b)))

RuntimeFairSpec == RuntimeSpec /\ RuntimeFairness

-----------------------------------------------------------------------------
(* Properties                                                              *)

\* What a call gets is the answer the device gave to it.
AnswersFit ==
  \A b \in batches : \A i \in DOMAIN b.calls : \A a \in AnswerTo(b, i) : a.to = b.calls[i]

\* An entry that is not to be called has its call on its way: whatever happens
\* to a call, to its batch or to its reply, its entry is not left out for good.
NoneLeftOut ==
  \A i \in DOMAIN queue :
    \/ queue[i].r
    \/ CallOf(queue[i]) \in SeqRange(waiting) \cup UNION {SeqRange(b.calls) : b \in batches}

\* The page says the session has expired only if it has, or if a reply is lost.
ExpiryIsReal == expired => session = "expired" \/ lost > 0

\* Every call gets the answer that was given to it, every call that is polled
\* is settled, whatever becomes of its batch and of the reply, and the page does
\* not take a denial for an expired session.
CallsAreAnswered == AnswersFit /\ NoneLeftOut /\ ExpiryIsReal

\* Polling that was stopped, by the user or because the session has expired,
\* goes on only when the user starts it.
StaysStopped ==
  [][timer' /\ ~timer => StartPoll \/ \E f \in Fn : tick = 0 /\ AddPoll(f)]_runtimeVars

\* Once the session has expired polling stops, by itself if not by the user.
ExpiryIsNoticed == session = "expired" /\ timer ~> ~timer

=============================================================================
