---------------------------- MODULE MCLuciCalls -----------------------------
(***************************************************************************)
(* What LuCI has the device do for it, on small instances: either browsers *)
(* apply changes and wait for the confirmation, or pages call the package  *)
(* manager.  The other of the two rests.                                   *)
(***************************************************************************)
EXTENDS UciApply, PackageManagerCall, FiniteSets

VARIABLE part

callsVars == <<part, vars, callVars>>

\* A tick is half a minute: the 90 seconds of uci.uc, and a shorter rollback.
NinetySeconds == 3
HalfAMinute == 1

\* One file per call that waits, and the one that has the name.
MCInode == 0..Cardinality(Call)

CallsInit == part \in {"apply", "packages"} /\ Init /\ CallInit

CallsNext ==
  \/ part = "apply" /\ Next /\ UNCHANGED <<part, callVars>>
  \/ part = "packages" /\ CallNext /\ UNCHANGED <<part, vars>>

CallsSpec ==
  /\ CallsInit /\ [][CallsNext]_callsVars
  /\ (part = "apply" => Fairness) /\ (part = "packages" => CallFairness)

=============================================================================
