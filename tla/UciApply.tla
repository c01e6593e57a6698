------------------------------ MODULE UciApply ------------------------------
(***************************************************************************)
(* Applying configuration changes in LuCI: apply, confirm and roll back.   *)
(*                                                                         *)
(* A browser asks uci.uc to apply its pending changes.  uci.uc has rpcd    *)
(* apply them with a rollback timer and puts a token into the null         *)
(* session.  The browser polls the device with the token until its own     *)
(* deadline.  A confirmation stops the timer; otherwise rpcd restores the  *)
(* old configuration.  Every page that is loaded meanwhile is given the    *)
(* token and joins in.                                                     *)
(*                                                                         *)
(* Three clocks run: rpcd's timer and the browser's deadline take at least *)
(* 90 seconds, the token lives for what the configuration says.  They are  *)
(* counted down in ticks.                                                  *)
(*                                                                         *)
(* Simplifications.  Browsers have sessions of their own and change        *)
(* different options, to a good value or to one that cuts every browser    *)
(* off.  A browser sends its next request after the device is done with    *)
(* the last one or has never seen it.  A changed configuration is in force *)
(* before the first poll (apply_holdoff).                                  *)
(***************************************************************************)
EXTENDS Integers

CONSTANTS
  Browser,
  Rollback, \* option rollback of "config internal apply", in ticks
  Minimum,  \* the 90 of uci.uc and header.ut, in ticks
  Lossy     \* requests and answers may get lost, or late, at any time

ASSUME UciApplyAssumption ==
  /\ Rollback \in Nat /\ Minimum \in Nat \ {0}
  /\ Lossy \in BOOLEAN
  /\ "none" \notin Browser

MaxOf(a, b) == IF a < b THEN b ELSE a

RollbackTime == MaxOf(Rollback, Minimum)

Owner == Browser \cup {"none"}

VARIABLES
  pending, \* the change each browser has not applied yet
  running, \* what is in force of the options each browser changes
  rpcd,    \* the session that may confirm, the timer, what was in force before
  token,   \* the rollback entry of the null session
  fate,    \* what became of the last change each browser applied
  ui,      \* what each page shows
  checked, \* whether its apply asked for a rollback
  about,   \* the browser whose change the page waits for
  auth,    \* whether its confirm_auth is the token of the entry
  left,    \* ticks until its deadline
  link,    \* its request: where it is on the device, or its answer
  sess     \* the session uci_confirm read for it

deviceVars == <<pending, running, rpcd, token, fate>>
pageVars == <<ui, checked, about, auth, left>>
vars == <<deviceVars, pageVars, link, sess>>

AllGood == [b \in Browser |-> "good"]

NoRollback == [owner |-> "none", left |-> 0, saved |-> AllGood]

\* The entry after values: { rollback: {} }.  It is never valid.
NoToken == [owner |-> "none", left |-> -1]

Init ==
  /\ pending = [b \in Browser |-> "none"]
  /\ running = AllGood
  /\ rpcd = NoRollback
  /\ token = NoToken
  /\ fate = [b \in Browser |-> "kept"]
  /\ ui = [b \in Browser |-> "idle"]
  /\ checked = [b \in Browser |-> FALSE]
  /\ about = [b \in Browser |-> b]
  /\ auth = [b \in Browser |-> "stale"]
  /\ left = [b \in Browser |-> 0]
  /\ link = [b \in Browser |-> "none"]
  /\ sess = [b \in Browser |-> "none"]

Reachable == running = AllGood

Status == {"200", "204", "403", "0"}

Answer(b, status) == link' = [link EXCEPT ![b] = status]

Show(b, state) == ui' = [ui EXCEPT ![b] = state]

\* The page is idle; what it knew of an apply no longer matters.
Idle(b) ==
  /\ Show(b, "idle")
  /\ checked' = [checked EXCEPT ![b] = FALSE]
  /\ about' = [about EXCEPT ![b] = b]
  /\ auth' = [auth EXCEPT ![b] = "stale"]
  /\ left' = [left EXCEPT ![b] = 0]

-----------------------------------------------------------------------------
(* The page: UI.changes in ui.js, and footer.ut                            *)

Edit(b) ==
  /\ ui[b] = "idle"
  /\ \E change \in {"good", "cut"} : pending' = [pending EXCEPT ![b] = change]
  /\ UNCHANGED <<running, rpcd, token, fate, pageVars, link, sess>>

\* UI.revert and action_revert.
Revert(b) ==
  /\ ui[b] = "idle" /\ Reachable
  /\ pending' = [pending EXCEPT ![b] = "none"]
  /\ UNCHANGED <<running, rpcd, token, fate, pageVars, link, sess>>

\* UI.apply, checked or unchecked.
Apply(b, chk) ==
  /\ ui[b] = "idle"
  /\ Show(b, "applying")
  /\ checked' = [checked EXCEPT ![b] = chk]
  /\ about' = [about EXCEPT ![b] = b]
  /\ Answer(b, IF chk THEN "apply" ELSE "unchecked")
  /\ UNCHANGED <<deviceVars, auth, left, sess>>

\* The answer to the apply request.  A status other than the one expected is
\* reported, and the page is back to where it was.
Applied(b) ==
  /\ ui[b] = "applying" /\ link[b] \in Status \ {"0"}
  /\ Answer(b, "none")
  /\ IF link[b] = (IF checked[b] THEN "200" ELSE "204")
       THEN /\ Show(b, "confirming")
            /\ left' = [left EXCEPT ![b] = RollbackTime]
            /\ UNCHANGED <<checked, about, auth>>
       ELSE Idle(b)
  /\ UNCHANGED <<deviceVars, sess>>

\* Without an answer the request is rejected, which UI.apply does not handle:
\* the page keeps saying "Starting configuration apply".
Unheard(b) ==
  /\ ui[b] = "applying" /\ link[b] = "0"
  /\ Answer(b, "none")
  /\ Show(b, "silent")
  /\ UNCHANGED <<deviceVars, checked, about, auth, left, sess>>

\* The next poll.  While it waits for the rollback the page sends the token of
\* its session, which never confirms anything.
Poll(b) ==
  /\ link[b] = "none"
  /\ ui[b] = "rolling" \/ (ui[b] = "confirming" /\ left[b] > 0)
  /\ Answer(b, "confirm")
  /\ UNCHANGED <<deviceVars, pageVars, sess>>

\* UI.rollback, entered at the deadline.
GiveUp(b) == Show(b, IF checked[b] THEN "rolling" ELSE "unreachable")

Deadline(b) ==
  /\ ui[b] = "confirming" /\ link[b] = "none" /\ left[b] = 0
  /\ GiveUp(b)
  /\ UNCHANGED <<deviceVars, checked, about, auth, left, link, sess>>

\* The answer to a poll of UI.confirm: the deadline is looked at first.
Confirmed(b) ==
  /\ ui[b] = "confirming" /\ link[b] \in Status
  /\ Answer(b, "none")
  /\ IF left[b] = 0 THEN GiveUp(b) /\ UNCHANGED left
     ELSE IF link[b] \in {"200", "204"}
       THEN Show(b, "applied") /\ left' = [left EXCEPT ![b] = 0]
     ELSE UNCHANGED <<ui, left>>
  /\ UNCHANGED <<deviceVars, checked, about, auth, sess>>

\* Mutants of RolledBack: any answer of the device counts; only "OK" does.
RolledBackOnAnswer(b) ==
  /\ ui[b] = "rolling" /\ link[b] \in Status
  /\ Answer(b, "none")
  /\ IF link[b] # "0" THEN Show(b, "rolledback") ELSE UNCHANGED ui
  /\ UNCHANGED <<deviceVars, checked, about, auth, left, sess>>

RolledBackOnOk(b) ==
  /\ ui[b] = "rolling" /\ link[b] \in Status
  /\ Answer(b, "none")
  /\ IF link[b] = "200" THEN Show(b, "rolledback") ELSE UNCHANGED ui
  /\ UNCHANGED <<deviceVars, checked, about, auth, left, sess>>

\* The answer to a poll of UI.rollback.
RolledBack(b) ==
  /\ ui[b] = "rolling" /\ link[b] \in Status
  /\ Answer(b, "none")
  /\ IF link[b] = "204" THEN Show(b, "rolledback") ELSE UNCHANGED ui
  /\ UNCHANGED <<deviceVars, checked, about, auth, left, sess>>

Dismiss(b) ==
  /\ ui[b] \in {"rolledback", "unreachable"}
  /\ Idle(b)
  /\ UNCHANGED <<deviceVars, link, sess>>

\* A page is loaded: rollback_pending hands it the token and what is left of
\* it, whoever applied the changes.  The page reloads after "applied".
LoadPage(b) ==
  /\ ui[b] \in {"idle", "silent", "applied", "rolledback", "unreachable"}
  /\ Reachable
  /\ IF token.owner # "none" /\ token.left > 0
       THEN /\ Show(b, "confirming")
            /\ checked' = [checked EXCEPT ![b] = TRUE]
            /\ about' = [about EXCEPT ![b] = token.owner]
            /\ auth' = [auth EXCEPT ![b] = "current"]
            /\ left' = [left EXCEPT ![b] = token.left]
       ELSE Idle(b)
  /\ UNCHANGED <<deviceVars, link, sess>>

-----------------------------------------------------------------------------
(* uci.uc on the device, and rpcd                                          *)

\* Mutant of RpcdApply: uci_apply does not ask rpcd for a rollback.
RpcdApplyForGood(b) ==
  /\ link[b] = "apply" /\ Reachable
  /\ Answer(b, IF pending[b] = "none" THEN "204" ELSE "settoken")
  /\ running' = [running EXCEPT ![b] = IF pending[b] = "none" THEN @ ELSE pending[b]]
  /\ pending' = [pending EXCEPT ![b] = "none"]
  /\ UNCHANGED <<rpcd, token, fate, pageVars, sess>>

\* uci_apply(true): rpcd takes one rollback at a time, and answers "no data"
\* when nothing is pending.
RpcdApply(b) ==
  /\ link[b] = "apply" /\ Reachable
  /\ \/ /\ rpcd.owner # "none"
        /\ Answer(b, "403")
        /\ UNCHANGED <<pending, running, rpcd, fate>>
     \/ /\ rpcd.owner = "none" /\ pending[b] = "none"
        /\ Answer(b, "204")
        /\ UNCHANGED <<pending, running, rpcd, fate>>
     \/ /\ rpcd.owner = "none" /\ pending[b] # "none"
        /\ Answer(b, "settoken")
        /\ rpcd' = [owner |-> b, left |-> RollbackTime, saved |-> running]
        /\ running' = [running EXCEPT ![b] = pending[b]]
        /\ pending' = [pending EXCEPT ![b] = "none"]
        /\ fate' = [fate EXCEPT ![b] = "tried"]
  /\ UNCHANGED <<token, pageVars, sess>>

\* session.set of a new random token: every other one is stale.
SetToken(b) ==
  /\ link[b] = "settoken"
  /\ Answer(b, "200")
  /\ token' = [owner |-> b, left |-> Rollback]
  /\ auth' = [c \in Browser |-> IF c = b THEN "current" ELSE "stale"]
  /\ UNCHANGED <<pending, running, rpcd, fate, ui, checked, about, left, sess>>

\* uci_apply(false): commit every changed configuration, then apply what is
\* left, which is nothing.
ApplyUnchecked(b) ==
  /\ link[b] = "unchecked" /\ Reachable
  /\ Answer(b, "204")
  /\ pending' = [pending EXCEPT ![b] = "none"]
  /\ fate' = [fate EXCEPT ![b] = "kept"]
  /\ IF pending[b] = "none"
       THEN UNCHANGED <<running, rpcd>>
       ELSE /\ running' = [running EXCEPT ![b] = pending[b]]
            /\ rpcd' = [rpcd EXCEPT !.saved[b] =
                          IF rpcd.owner \in {"none", b} THEN @ ELSE pending[b]]
  /\ UNCHANGED <<token, pageVars, sess>>

Expired == token.owner = "none" \/ token.left < 0

\* Mutant of CheckToken: uci_confirm does not call rpcd.
CheckTokenOnly(b) ==
  /\ link[b] = "confirm" /\ Reachable
  /\ Answer(b, IF Expired THEN "204"
               ELSE IF ui[b] = "confirming" /\ auth[b] = "current"
                 THEN "clear token" ELSE "403")
  /\ UNCHANGED <<deviceVars, pageVars, sess>>

\* uci_confirm reads the entry and compares the token.
CheckToken(b) ==
  /\ link[b] = "confirm" /\ Reachable
  /\ Answer(b, IF Expired THEN "204"
               ELSE IF ui[b] = "confirming" /\ auth[b] = "current"
                 THEN "confirm session" ELSE "403")
  /\ sess' = [sess EXCEPT ![b] =
                IF link'[b] = "confirm session" THEN token.owner ELSE @]
  /\ UNCHANGED <<deviceVars, pageVars>>

\* uci.confirm of rpcd with the session that was read.
RpcdConfirm(b) ==
  /\ link[b] = "confirm session"
  /\ \/ /\ rpcd.owner = "none"
        /\ Answer(b, "204")
        /\ UNCHANGED <<rpcd, fate>>
     \/ /\ rpcd.owner \notin {"none", sess[b]}
        /\ Answer(b, "403")
        /\ UNCHANGED <<rpcd, fate>>
     \/ /\ rpcd.owner # "none" /\ rpcd.owner = sess[b]
        /\ Answer(b, "clear token")
        /\ rpcd' = NoRollback
        /\ fate' = [fate EXCEPT ![sess[b]] = "kept"]
  /\ sess' = [sess EXCEPT ![b] = "none"]
  /\ UNCHANGED <<pending, running, token, pageVars>>

\* session.set of an empty entry, whatever is in it by now.
ClearToken(b) ==
  /\ link[b] = "clear token"
  /\ Answer(b, "200")
  /\ token' = NoToken
  /\ UNCHANGED <<pending, running, rpcd, fate, pageVars, sess>>

\* rpcd's timer: the old configuration is back, the changes are pending again.
RollBack ==
  /\ rpcd.owner # "none" /\ rpcd.left = 0
  /\ running' = rpcd.saved
  /\ pending' = [pending EXCEPT ![rpcd.owner] = running[rpcd.owner]]
  /\ fate' = [fate EXCEPT ![rpcd.owner] = "undone"]
  /\ rpcd' = NoRollback
  /\ UNCHANGED <<token, pageVars, link, sess>>

-----------------------------------------------------------------------------
(* The network and the clock                                               *)

\* A request or an answer is lost: the page sees status 0.
Lose(b) ==
  /\ link[b] \in {"apply", "unchecked", "confirm", "200", "204", "403"}
  /\ ~Reachable \/ Lossy
  /\ Answer(b, "0")
  /\ UNCHANGED <<deviceVars, pageVars, sess>>

\* rpcd's timer is punctual.  So is a network that loses nothing.
Tick ==
  /\ rpcd.owner # "none" => rpcd.left > 0
  /\ Lossy \/ \A b \in Browser : link[b] = "none"
  /\ \E b \in Browser : rpcd.left > 0 \/ token.left >= 0 \/ left[b] > 0
  /\ rpcd' = [rpcd EXCEPT !.left = MaxOf(@ - 1, 0)]
  /\ token' = [token EXCEPT !.left = MaxOf(@ - 1, -1)]
  /\ left' = [b \in Browser |-> MaxOf(left[b] - 1, 0)]
  /\ UNCHANGED <<pending, running, fate, ui, checked, about, auth, link, sess>>

User(b) ==
  \/ Edit(b) \/ Revert(b) \/ (\E chk \in BOOLEAN : Apply(b, chk))
  \/ Dismiss(b) \/ LoadPage(b)

Page(b) ==
  \/ Applied(b) \/ Unheard(b) \/ Poll(b) \/ Deadline(b)
  \/ Confirmed(b) \/ RolledBack(b)

Device(b) ==
  \/ RpcdApply(b) \/ SetToken(b) \/ ApplyUnchecked(b)
  \/ CheckToken(b) \/ RpcdConfirm(b) \/ ClearToken(b)

Next ==
  \/ \E b \in Browser : User(b) \/ Page(b) \/ Device(b) \/ Lose(b)
  \/ RollBack \/ Tick

Spec == Init /\ [][Next]_vars

\* Clocks run however busy the network is, the device serves its requests,
\* pages run their timers, and a request is done with or lost at some time.
Fairness ==
  /\ WF_vars(RollBack) /\ SF_vars(Tick)
  /\ \A b \in Browser : WF_vars(Page(b)) /\ WF_vars(Device(b) \/ Lose(b))

FairSpec == Spec /\ Fairness

-----------------------------------------------------------------------------
(* Properties                                                              *)

PageState ==
  {"idle", "applying", "silent", "confirming", "rolling", "applied",
   "rolledback", "unreachable"}

LinkState ==
  Status \cup {"none", "apply", "settoken", "unchecked", "confirm",
               "confirm session", "clear token"}

TypeOK ==
  /\ pending \in [Browser -> {"none", "good", "cut"}]
  /\ running \in [Browser -> {"good", "cut"}]
  /\ rpcd \in [owner : Owner, left : 0..RollbackTime,
               saved : [Browser -> {"good", "cut"}]]
  /\ token \in [owner : Owner, left : -1..Rollback]
  /\ fate \in [Browser -> {"kept", "tried", "undone"}]
  /\ ui \in [Browser -> PageState]
  /\ checked \in [Browser -> BOOLEAN]
  /\ about \in [Browser -> Browser]
  /\ auth \in [Browser -> {"current", "stale"}]
  /\ left \in [Browser -> 0..RollbackTime]
  /\ link \in [Browser -> LinkState]
  /\ sess \in [Browser -> Owner]

\* "Configuration changes applied." is said by the page that applied them when
\* they have been confirmed, or applied for good: neither while the timer of
\* rpcd still runs nor after it has gone off.
ToldApplied ==
  \A b \in Browser : ui[b] = "applied" /\ about[b] = b => fate[b] = "kept"

\* "Configuration changes have been rolled back!" is said when they have been.
ToldRolledBack ==
  [][\A b \in Browser :
       ui[b] = "rolling" /\ ui'[b] = "rolledback" =>
         about[b] # rpcd.owner /\ pending[about[b]] # "none"]_vars

\* A checked apply that cuts the browsers off is taken back.
CutIsUndone ==
  \A b \in Browser :
    link[b] = "settoken" /\ running[b] = "cut" ~> running[b] = "good"

\* A page that waits for the confirmation or for the rollback says in the end
\* what became of the changes.  One that has not heard the answer to its apply
\* does not wait, and says nothing.
WaitingIsTold ==
  \A b \in Browser :
    ui[b] \in {"confirming", "rolling"} ~>
      ui[b] \in {"applied", "rolledback", "unreachable"}

=============================================================================
