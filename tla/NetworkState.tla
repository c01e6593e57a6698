---------------------------- MODULE NetworkState ----------------------------
(***************************************************************************)
(* initNetworkState of network.js: the state of the network as the pages   *)
(* see it, gathered once and on every flushCache().                        *)
(*                                                                         *)
(* A gathering asks the device for its interfaces, devices and             *)
(* configurations; with all the answers it makes the state, is no longer   *)
(* the one under way (`_init`), and asks for hostapd's objects; with these *)
(* the state is there (`_state`).                                          *)
(*                                                                         *)
(* Simplifications.  What the device says is a version of its state, and   *)
(* the requests of a gathering see the same one.  None of them fails       *)
(* (resolveDefault).                                                       *)
(***************************************************************************)
EXTENDS Naturals, Sequences

CONSTANTS
  Caller,     \* parts of the page
  MaxGather,  \* gatherings
  MaxVersion  \* changes on the device

VARIABLES
  version, \* of the device's state
  state,   \* _state: the gathering it is from; 0 is none
  init,    \* _init: the gathering under way; 0 is none
  gather,  \* the gatherings: "asked", "answered", "listing" or "over"; what they saw
  caller   \* what each waits for, and whether it sees what it asked for

stateVars == <<version, state, init, gather, caller>>

Idle == [for |-> 0, since |-> 0]

StateTypeOK ==
  /\ version \in 0..MaxVersion
  /\ gather \in Seq([at : {"asked", "answered", "listing", "over"}, seen : 0..MaxVersion])
  /\ state \in 0..Len(gather) /\ init \in 0..Len(gather)
  /\ state # 0 => gather[state].at = "over"
  /\ caller \in [Caller -> [for : 0..Len(gather), since : 0..MaxVersion]]
  /\ \A c \in Caller : caller[c].for # 0 => gather[caller[c].for].at # "over"

StateInit ==
  /\ version = 0 /\ state = 0 /\ init = 0 /\ gather = <<>>
  /\ caller = [c \in Caller |-> Idle]

\* A gathering starts, unless one is under way or it is not called for.
InitNetworkState(refresh) ==
  IF init = 0 /\ (state = 0 \/ refresh)
  THEN /\ Len(gather) < MaxGather
       /\ gather' = Append(gather, [at |-> "asked", seen |-> 0]) /\ init' = Len(gather')
  ELSE UNCHANGED <<gather, init>>

\* A getter, when there is no state yet, and flushCache().
Get(c) ==
  /\ state = 0 /\ caller[c].for = 0
  /\ InitNetworkState(FALSE)
  /\ caller' = [caller EXCEPT ![c].for = init']
  /\ UNCHANGED <<version, state>>

FlushCache(c) ==
  /\ caller[c].for = 0
  /\ InitNetworkState(TRUE)
  \* It knows of what is there now, unless the answers were on their way.
  /\ caller' = [caller EXCEPT ![c] = [for |-> init', since |-> IF gather'[init'].at = "answered" THEN 0 ELSE version]]
  /\ UNCHANGED <<version, state>>

Change == version < MaxVersion /\ version' = version + 1 /\ UNCHANGED <<state, init, gather, caller>>

Answer(g) ==
  /\ gather[g].at = "asked"
  /\ gather' = [gather EXCEPT ![g] = [at |-> "answered", seen |-> version]]
  /\ UNCHANGED <<version, state, init, caller>>

\* Mutant of Collect: the gathering stays the one under way.
CollectKept(g) ==
  /\ gather[g].at = "answered"
  /\ gather' = [gather EXCEPT ![g].at = "listing"] /\ init' = init
  /\ UNCHANGED <<version, state, caller>>

Collect(g) ==
  /\ gather[g].at = "answered"
  /\ gather' = [gather EXCEPT ![g].at = "listing"] /\ init' = 0
  /\ UNCHANGED <<version, state, caller>>

\* hostapd's objects are there, and so is the state; who waited for it goes on.
Complete(g) ==
  /\ gather[g].at = "listing"
  /\ gather' = [gather EXCEPT ![g].at = "over"] /\ state' = g
  /\ caller' = [c \in Caller |-> IF caller[c].for = g THEN Idle ELSE caller[c]]
  /\ UNCHANGED <<version, init>>

StateNext ==
  \/ Change
  \/ \E c \in Caller : Get(c) \/ FlushCache(c)
  \/ \E g \in DOMAIN gather : Answer(g) \/ Collect(g) \/ Complete(g)

StateSpec == StateInit /\ [][StateNext]_stateVars

-----------------------------------------------------------------------------
(* Properties                                                              *)

Seen == [g \in 0..Len(gather) |-> IF g = 0 THEN 0 ELSE gather[g].seen]

\* Of a step: who flushes the cache sees, once it goes on, a state at least as new as its
\* call (answers that were on their way excepted), and what the page shows
\* goes back in time only when a gathering that waits for hostapd is overtaken
\* by the next one.
FlushedIsFresh ==
  /\ \A c \in Caller : caller[c].for # 0 /\ caller'[c].for = 0 => Seen'[state'] >= caller[c].since
  /\ Seen'[state'] < Seen[state] => state' < state

-----------------------------------------------------------------------------
(* Why                                                                     *)

GatherTypes ==
  /\ version \in Nat
  /\ gather \in Seq([at : {"asked", "answered", "listing", "over"}, seen : Nat])
  /\ state \in 0..Len(gather) /\ init \in 0..Len(gather)
  /\ caller \in [Caller -> [for : 0..Len(gather), since : Nat]]

\* Before its state is there a gathering is the last one, or waits for hostapd.
OneUnderWay ==
  /\ state # 0 => gather[state].at = "over"
  /\ init # 0 => init = Len(gather) /\ gather[init].at \in {"asked", "answered"}
  /\ \A g \in DOMAIN gather : gather[g].at \in {"asked", "answered"} => g = init

\* Gatherings see the device one after the other.
SeenInOrder ==
  \A g \in DOMAIN gather :
    /\ gather[g].seen <= version
    /\ \A h \in DOMAIN gather : g < h /\ gather[h].at # "asked" => gather[g].seen <= gather[h].seen

\* Each caller waits for a gathering that sees, or has seen, what it knows of.
CallersWait ==
  \A c \in Caller :
    /\ caller[c].since <= version
    /\ caller[c].for = 0 => caller[c].since = 0
    /\ caller[c].for # 0 => /\ gather[caller[c].for].at # "over"
                            /\ gather[caller[c].for].at # "asked" => gather[caller[c].for].seen >= caller[c].since

GatheringsFit == GatherTypes /\ OneUnderWay /\ SeenInOrder /\ CallersWait

=============================================================================
