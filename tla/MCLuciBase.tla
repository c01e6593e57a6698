----------------------------- MODULE MCLuciBase -----------------------------
(***************************************************************************)
(* What every page of LuCI is built on, on small instances: either the     *)
(* configuration it edits, with two sections that differ, or its polling   *)
(* and its remote calls.  The other of the two rests.                      *)
(***************************************************************************)
EXTENDS UciCache, LuciRuntime, TLC

CONSTANTS n1, n2, n3, n4, o, p, x

VARIABLE part

baseVars == <<part, vars, runtimeVars>>

StoredValue ==
  << [name |-> n1, opts |-> (o :> x @@ p :> None)],
     [name |-> n2, opts |-> (o :> x @@ p :> x)] >>

EveryOtherTick == [f \in Fn |-> 2]

BaseInit == part \in {"cache", "runtime"} /\ Init /\ RuntimeInit

BaseNext ==
  \/ part = "cache" /\ Next /\ UNCHANGED <<part, runtimeVars>>
  \/ part = "runtime" /\ RuntimeNext /\ UNCHANGED <<part, vars>>

BaseSpec == BaseInit /\ [][BaseNext]_baseVars /\ (part = "runtime" => RuntimeFairness)

-----------------------------------------------------------------------------
(* Properties                                                              *)

\* Polling stops once the session has expired, and then, as after a stop by the
\* user, goes on only when the user starts it.
PollingStops == ExpiryIsNoticed /\ StaysStopped

=============================================================================
