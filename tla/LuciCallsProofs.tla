-------------------------- MODULE LuciCallsProofs ---------------------------
(***************************************************************************)
(* What the calls of the web interface guarantee.                          *)
(*                                                                         *)
(* UciApply, whatever the timeouts are: types for any number of browsers,  *)
(* and for one browser on a network that loses nothing while the device    *)
(* can be reached, that "applied" is not said too early.  The page         *)
(* believes an expired token.  That is right as long as the token outlives *)
(* the timer of rpcd, which it does when it lives for at least the minimum *)
(* that the timer has.                                                     *)
(*                                                                         *)
(* PackageManagerCall, for any number of callers.  The lock does not       *)
(* exclude: it does among calls that have opened the same file.  A call    *)
(* that found no other, and under which none has cleaned up, shares its    *)
(* lock file with everybody who came later, so nobody touches the report   *)
(* between its RunOpkg and its Read.                                       *)
(***************************************************************************)
EXTENDS UciApply, PackageManagerCall, TLAPS

-----------------------------------------------------------------------------
(* Types                                                                   *)

\* The timer of rpcd.
LEMMA Times ==
  /\ RollbackTime \in Nat /\ Rollback <= RollbackTime
  /\ Rollback >= Minimum => RollbackTime = Rollback
BY UciApplyAssumption DEF RollbackTime, MaxOf

\* Clocks stop at their ends.
LEMMA Clocks ==
  ASSUME NEW n \in Nat
  PROVE  /\ \A i \in 0..n : MaxOf(i - 1, 0) \in 0..n
         /\ \A i \in -1..n : MaxOf(i - 1, -1) \in -1..n
BY DEF MaxOf

\* At first all have their types.
LEMMA InitType == Init => TypeOK
<1> SUFFICES ASSUME Init PROVE TypeOK
  OBVIOUS
<1> QED
  BY Times, UciApplyAssumption
     DEF Init, TypeOK, AllGood, NoRollback, NoToken, Owner, PageState, LinkState, Status

\* What each action may do to the state of the pages.
LEMMA PageType ==
  ASSUME TypeOK, NEW b \in Browser,
         ui' = ui \/ \E s \in PageState : Show(b, s),
         link' = link \/ \E l \in LinkState : Answer(b, l),
         checked' = checked \/ \E x \in BOOLEAN : checked' = [checked EXCEPT ![b] = x],
         about' = about \/ \E c \in Browser : about' = [about EXCEPT ![b] = c],
         auth' = auth \/ \E x \in {"current", "stale"} : auth' = [auth EXCEPT ![b] = x],
         left' = left \/ \E n \in 0..RollbackTime : left' = [left EXCEPT ![b] = n]
  PROVE  /\ ui' \in [Browser -> PageState] /\ link' \in [Browser -> LinkState]
         /\ checked' \in [Browser -> BOOLEAN] /\ about' \in [Browser -> Browser]
         /\ auth' \in [Browser -> {"current", "stale"}]
         /\ left' \in [Browser -> 0..RollbackTime]
BY DEF TypeOK, Show, Answer

\* The user, and the page.
LEMMA BrowserType ==
  ASSUME TypeOK, NEW b \in Browser, User(b) \/ Page(b)
  PROVE  TypeOK'
<1>0. /\ {"idle", "applying", "silent", "confirming", "rolling", "applied", "rolledback", "unreachable"} = PageState
      /\ {"none", "apply", "unchecked", "confirm"} \subseteq LinkState
      /\ 0 \in 0..RollbackTime /\ RollbackTime \in 0..RollbackTime
  BY Times DEF PageState, LinkState
<1>1. /\ running' = running /\ rpcd' = rpcd /\ token' = token /\ sess' = sess
      /\ fate' = fate
  BY DEF User, Page, Edit, Revert, Apply, Dismiss, LoadPage, Applied, Unheard, Poll, Deadline,
         Confirmed, RolledBack, deviceVars
<1>2. pending' \in [Browser -> {"none", "good", "cut"}]
  BY DEF TypeOK, User, Page, Edit, Revert, Apply, Dismiss, LoadPage, Applied, Unheard, Poll, Deadline,
         Confirmed, RolledBack, deviceVars
<1>3. ui' = ui \/ \E s \in PageState : Show(b, s)
  BY <1>0 DEF User, Page, Edit, Revert, Apply, Dismiss, LoadPage, Applied, Unheard, Poll, Deadline,
         Confirmed, RolledBack, Idle, GiveUp, Show, pageVars
<1>4. link' = link \/ \E l \in LinkState : Answer(b, l)
  BY <1>0 DEF User, Page, Edit, Revert, Apply, Dismiss, LoadPage, Applied, Unheard, Poll, Deadline,
         Confirmed, RolledBack, Answer
<1>5. checked' = checked \/ \E x \in BOOLEAN : checked' = [checked EXCEPT ![b] = x]
  BY DEF User, Page, Edit, Revert, Apply, Dismiss, LoadPage, Applied, Unheard, Poll, Deadline,
         Confirmed, RolledBack, Idle, pageVars
<1>6. about' = about \/ \E c \in Browser : about' = [about EXCEPT ![b] = c]
  BY DEF TypeOK, Owner, User, Page, Edit, Revert, Apply, Dismiss, LoadPage, Applied, Unheard, Poll, Deadline,
         Confirmed, RolledBack, Idle, pageVars
<1>7. auth' = auth \/ \E x \in {"current", "stale"} : auth' = [auth EXCEPT ![b] = x]
  BY DEF User, Page, Edit, Revert, Apply, Dismiss, LoadPage, Applied, Unheard, Poll, Deadline,
         Confirmed, RolledBack, Idle, pageVars
<1>8. left' = left \/ \E n \in 0..RollbackTime : left' = [left EXCEPT ![b] = n]
  <2>1. token.left > 0 => token.left \in 0..RollbackTime
    BY Times, UciApplyAssumption DEF TypeOK
  <2> QED
    BY <1>0, <2>1
       DEF User, Page, Edit, Revert, Apply, Dismiss, LoadPage, Applied, Unheard, Poll, Deadline,
           Confirmed, RolledBack, Idle, pageVars
<1> QED
  BY <1>1, <1>2, <1>3, <1>4, <1>5, <1>6, <1>7, <1>8, PageType DEF TypeOK

\* The device.
LEMMA DeviceType ==
  ASSUME TypeOK, NEW b \in Browser, Device(b) \/ Lose(b)
  PROVE  TypeOK'
<1> USE DEF Device
<1>1. /\ ui' = ui /\ checked' = checked /\ about' = about /\ left' = left
  BY DEF RpcdApply, SetToken, ApplyUnchecked, CheckToken, RpcdConfirm, ClearToken, Lose, pageVars
<1>2. link' \in [Browser -> LinkState]
  <2>1. \E l \in LinkState : Answer(b, l)
    BY DEF RpcdApply, SetToken, ApplyUnchecked, CheckToken, RpcdConfirm, ClearToken, Lose,
           LinkState, Status
  <2> QED
    BY <2>1, <1>1, PageType DEF TypeOK, Answer
<1>3. auth' \in [Browser -> {"current", "stale"}]
  BY DEF TypeOK, RpcdApply, SetToken, ApplyUnchecked, CheckToken, RpcdConfirm, ClearToken,
         Lose, pageVars
<1>4. pending' \in [Browser -> {"none", "good", "cut"}] /\ running' \in [Browser -> {"good", "cut"}]
  <2>1. /\ pending' = pending \/ pending' = [pending EXCEPT ![b] = "none"]
        /\ \/ running' = running
           \/ pending[b] # "none" /\ running' = [running EXCEPT ![b] = pending[b]]
    BY DEF RpcdApply, SetToken, ApplyUnchecked, CheckToken, RpcdConfirm, ClearToken,
           Lose, deviceVars
  <2> QED
    BY <2>1 DEF TypeOK
<1>5. rpcd' \in [owner : Owner, left : 0..RollbackTime, saved : [Browser -> {"good", "cut"}]]
  <2>1. NoRollback \in [owner : Owner, left : 0..RollbackTime, saved : [Browser -> {"good", "cut"}]]
    BY Times DEF NoRollback, AllGood, Owner
  <2>2. CASE rpcd' = rpcd \/ rpcd' = NoRollback
    BY <2>1, <2>2 DEF TypeOK
  <2>3. CASE rpcd' = [owner |-> b, left |-> RollbackTime, saved |-> running]
    BY <2>3, Times DEF TypeOK, Owner
  <2>4. CASE ApplyUnchecked(b)
    BY <2>4 DEF TypeOK, ApplyUnchecked
  <2> QED
    BY <2>2, <2>3, <2>4
       DEF RpcdApply, SetToken, CheckToken, RpcdConfirm, ClearToken, Lose, deviceVars
<1>6. token' \in [owner : Owner, left : -1..Rollback]
  <2>1. CASE token' = token \/ token' = NoToken
    BY <2>1, UciApplyAssumption DEF TypeOK, NoToken, Owner
  <2>2. CASE token' = [owner |-> b, left |-> Rollback]
    BY <2>2, UciApplyAssumption DEF Owner
  <2> QED
    BY <2>1, <2>2
       DEF RpcdApply, SetToken, ApplyUnchecked, CheckToken, RpcdConfirm, ClearToken, Lose,
           deviceVars
<1>7. sess' \in [Browser -> Owner]
  BY DEF TypeOK, Owner, RpcdApply, SetToken, ApplyUnchecked, CheckToken, RpcdConfirm,
         ClearToken, Lose
<1>8. fate' \in [Browser -> {"kept", "tried", "undone"}]
  <2>1. fate' = fate \/ \E c \in Owner, f \in {"kept", "tried", "undone"} :
                         fate' = [fate EXCEPT ![c] = f]
    BY DEF TypeOK, Owner, RpcdApply, SetToken, ApplyUnchecked, CheckToken, RpcdConfirm,
           ClearToken, Lose, deviceVars
  <2> QED
    BY <2>1 DEF TypeOK
<1> QED
  BY <1>1, <1>2, <1>3, <1>4, <1>5, <1>6, <1>7, <1>8 DEF TypeOK

\* The clocks.
LEMMA ClockType ==
  ASSUME TypeOK, RollBack \/ Tick
  PROVE  TypeOK'
<1>1. CASE RollBack
  <2>1. NoRollback \in [owner : Owner, left : 0..RollbackTime, saved : [Browser -> {"good", "cut"}]]
    BY Times DEF NoRollback, AllGood, Owner
  <2>2. /\ pending' \in [Browser -> {"none", "good", "cut"}]
        /\ running' \in [Browser -> {"good", "cut"}]
        /\ fate' \in [Browser -> {"kept", "tried", "undone"}]
    BY <1>1 DEF RollBack, TypeOK, Owner
  <2>3. /\ rpcd' = NoRollback
        /\ UNCHANGED <<token, ui, checked, about, auth, left, link, sess>>
    BY <1>1 DEF RollBack, pageVars
  <2> QED
    BY <2>1, <2>2, <2>3 DEF TypeOK
<1>2. CASE Tick
  <2>1. /\ rpcd' = [rpcd EXCEPT !.left = MaxOf(@ - 1, 0)]
        /\ token' = [token EXCEPT !.left = MaxOf(@ - 1, -1)]
        /\ left' = [b \in Browser |-> MaxOf(left[b] - 1, 0)]
        /\ UNCHANGED <<pending, running, fate, ui, checked, about, auth, link, sess>>
    BY <1>2 DEF Tick
  <2>2. rpcd' \in [owner : Owner, left : 0..RollbackTime, saved : [Browser -> {"good", "cut"}]]
    <3>1. MaxOf(rpcd.left - 1, 0) \in 0..RollbackTime
      BY Times, Clocks DEF TypeOK
    <3> QED
      BY <2>1, <3>1 DEF TypeOK
  <2>3. token' \in [owner : Owner, left : -1..Rollback]
    <3>1. MaxOf(token.left - 1, -1) \in -1..Rollback
      BY UciApplyAssumption, Clocks DEF TypeOK
    <3> QED
      BY <2>1, <3>1 DEF TypeOK
  <2>4. left' \in [Browser -> 0..RollbackTime]
    <3>1. \A b \in Browser : MaxOf(left[b] - 1, 0) \in 0..RollbackTime
      BY Times, Clocks DEF TypeOK
    <3> QED
      BY <2>1, <3>1
  <2> QED
    BY <2>1, <2>2, <2>3, <2>4 DEF TypeOK
<1> QED
  BY <1>1, <1>2

\* Every step keeps the types.
LEMMA NextType == TypeOK /\ [Next]_vars => TypeOK'
<1> SUFFICES ASSUME TypeOK, [Next]_vars PROVE TypeOK'
  OBVIOUS
<1>1. CASE Next
  BY <1>1, BrowserType, DeviceType, ClockType DEF Next
<1>2. CASE UNCHANGED vars
  BY <1>2 DEF TypeOK, vars, deviceVars, pageVars
<1> QED
  BY <1>1, <1>2

-----------------------------------------------------------------------------
(* One browser, and a token that lives as long as the timer runs           *)

\* While rpcd may still roll back, the device knows the token, and the page has
\* no answer that says otherwise.
Told(b) ==
  /\ ui[b] \in {"idle", "silent", "applied", "rolledback", "unreachable"} =>
       link[b] = "none"
  /\ link[b] \in {"apply", "unchecked", "settoken"} => ui[b] = "applying"
  /\ rpcd.owner = b =>
       link[b] = "settoken" \/ (token.owner = b /\ token.left >= rpcd.left)
  /\ link[b] = "clear token" => rpcd.owner # b
  /\ ui[b] = "confirming" /\ link[b] \in {"200", "204"} => rpcd.owner # b

\* At first nothing is said.
LEMMA InitTold ==
  ASSUME NEW b, Browser = {b}, Init
  PROVE  Told(b)
BY UciApplyAssumption DEF Init, Told, NoRollback

\* The user, and the page: it leaves the device alone.
LEMMA BrowserTold ==
  ASSUME NEW b, Browser = {b}, TypeOK, Told(b), User(b) \/ Page(b)
  PROVE  Told(b)'
<1>1. rpcd' = rpcd /\ token' = token
  BY DEF User, Page, Edit, Revert, Apply, Dismiss, LoadPage, Applied, Unheard, Poll, Deadline,
         Confirmed, RolledBack, deviceVars
<1>2. \A s : Show(b, s) => ui'[b] = s
  BY DEF TypeOK, Show
<1>3. \A l : Answer(b, l) => link'[b] = l
  BY DEF TypeOK, Answer
<1> USE <1>1, <1>2, <1>3 DEF Told
<1>4. CASE Edit(b) \/ Revert(b)
  BY <1>4 DEF Edit, Revert, pageVars
<1>5. CASE \E chk \in BOOLEAN : Apply(b, chk)
  BY <1>5 DEF Apply
<1>6. CASE Dismiss(b)
  BY <1>6 DEF Dismiss, Idle
<1>7. CASE LoadPage(b)
  BY <1>7 DEF LoadPage, Idle
<1>8. CASE Applied(b)
  BY <1>8 DEF Applied, Idle, Status
<1>13. CASE Unheard(b)
  BY <1>13 DEF Unheard
<1>9. CASE Poll(b)
  BY <1>9 DEF Poll, pageVars
<1>10. CASE Deadline(b)
  BY <1>10 DEF Deadline, GiveUp
<1>11. CASE Confirmed(b)
  BY <1>11 DEF Confirmed, GiveUp
<1>12. CASE RolledBack(b)
  BY <1>12 DEF RolledBack
<1> QED
  BY <1>4, <1>5, <1>6, <1>7, <1>8, <1>9, <1>10, <1>11, <1>12, <1>13 DEF User, Page

\* The device: it answers "204" to a confirmation only when nothing is left to
\* roll back.
LEMMA DeviceTold ==
  ASSUME NEW b, Browser = {b}, Rollback >= Minimum,
         TypeOK, Told(b), Device(b) \/ Lose(b)
  PROVE  Told(b)'
<1>1. ui' = ui
  BY DEF Device, RpcdApply, SetToken, ApplyUnchecked, CheckToken, RpcdConfirm, ClearToken,
         Lose, pageVars
<1>2. \A l : Answer(b, l) => link'[b] = l
  BY DEF TypeOK, Answer
<1>3. /\ b # "none" /\ rpcd.owner \in {b, "none"} /\ rpcd.left \in 0..RollbackTime
      /\ token.left \in Int /\ RollbackTime = Rollback /\ Rollback \in Nat
  BY Times, UciApplyAssumption DEF TypeOK, Owner
<1> USE <1>1, <1>2, <1>3 DEF Told
<1>4. CASE RpcdApply(b)
  <2>1. ui[b] = "applying" /\ token' = token
    BY <1>4 DEF RpcdApply
  <2>2. CASE rpcd' = rpcd /\ (Answer(b, "403") \/ Answer(b, "204"))
    BY <1>4, <2>1, <2>2 DEF RpcdApply
  <2>3. CASE Answer(b, "settoken")
    BY <2>1, <2>3
  <2> QED
    BY <1>4, <2>2, <2>3 DEF RpcdApply
<1>5. CASE SetToken(b)
  <2>1. ui[b] = "applying" /\ link'[b] = "200" /\ rpcd' = rpcd
    BY <1>5 DEF SetToken
  <2>2. token'.owner = b /\ token'.left = Rollback
    BY <1>5 DEF SetToken
  <2>3. token'.left >= rpcd'.left
    <3>1. rpcd'.left \in 0..Rollback
      BY <1>3, <2>1
    <3> HIDE <1>1, <1>2, <1>3 DEF Told
    <3> QED
      BY <1>3, <2>2, <3>1
  <2> QED
    BY <2>1, <2>2, <2>3
<1>6. CASE ApplyUnchecked(b)
  <2>1. ui[b] = "applying" /\ link[b] = "unchecked" /\ link'[b] = "204" /\ token' = token
    BY <1>6 DEF ApplyUnchecked
  <2>2. rpcd'.owner = rpcd.owner /\ rpcd'.left = rpcd.left
    BY <1>6 DEF ApplyUnchecked, TypeOK
  <2> QED
    BY <2>1, <2>2
<1>7. CASE CheckToken(b)
  <2>1. link[b] = "confirm" /\ rpcd' = rpcd /\ token' = token
    BY <1>7 DEF CheckToken, deviceVars
  <2>2. Expired => rpcd.owner # b
    BY <2>1 DEF Expired
  <2>3. link'[b] \in {"204", "403", "confirm session"} /\ (link'[b] = "204" => Expired)
    BY <1>7 DEF CheckToken
  <2> QED
    BY <2>1, <2>2, <2>3
<1>8. CASE RpcdConfirm(b)
  <2>1. link[b] = "confirm session" /\ token' = token
    BY <1>8 DEF RpcdConfirm
  <2>2. CASE rpcd.owner = "none" /\ Answer(b, "204") /\ rpcd' = rpcd
    BY <2>1, <2>2
  <2>3. CASE Answer(b, "403") /\ rpcd' = rpcd
    BY <2>1, <2>3
  <2>4. CASE Answer(b, "clear token") /\ rpcd' = NoRollback
    BY <2>1, <2>4 DEF NoRollback
  <2> QED
    BY <1>8, <2>2, <2>3, <2>4 DEF RpcdConfirm
<1>9. CASE ClearToken(b)
  BY <1>9 DEF ClearToken
<1>10. CASE Lose(b)
  BY <1>10 DEF Lose, deviceVars
<1> QED
  BY <1>4, <1>5, <1>6, <1>7, <1>8, <1>9, <1>10 DEF Device

\* The clocks of rpcd and of the token run together.
LEMMA ClockTold ==
  ASSUME NEW b, Browser = {b}, ~Lossy, TypeOK, Told(b), RollBack \/ Tick
  PROVE  Told(b)'
<1>1. CASE RollBack
  <2>1. b # "none" /\ rpcd'.owner = "none"
    BY <1>1, UciApplyAssumption DEF RollBack, NoRollback
  <2>2. ui' = ui /\ link' = link
    BY <1>1 DEF RollBack, pageVars
  <2> QED
    BY <2>1, <2>2 DEF Told
<1>2. CASE Tick
  <2>1. ui' = ui /\ link' = link /\ link[b] = "none"
    BY <1>2 DEF Tick
  <2>2. /\ rpcd'.owner = rpcd.owner /\ rpcd'.left = MaxOf(rpcd.left - 1, 0)
        /\ token'.owner = token.owner /\ token'.left = MaxOf(token.left - 1, -1)
    BY <1>2 DEF Tick, TypeOK
  <2>3. rpcd.left \in Nat /\ token.left \in Int
    BY Times DEF TypeOK
  <2>4. rpcd.owner = b => token'.owner = b /\ token'.left >= rpcd'.left
    <3> SUFFICES ASSUME rpcd.owner = b
                 PROVE  token'.owner = b /\ token'.left >= rpcd'.left
      OBVIOUS
    <3>1. token.owner = b /\ token.left >= rpcd.left /\ rpcd.left > 0
      BY <1>2, <2>1, UciApplyAssumption DEF Tick, Told
    <3> QED
      BY <2>2, <2>3, <3>1 DEF MaxOf
  <2> QED
    BY <2>1, <2>2, <2>4 DEF Told
<1> QED
  BY <1>1, <1>2

-----------------------------------------------------------------------------
(* The end of the wait: timer, token and page run down together            *)

\* The token and the timer of rpcd are set at the same moment and run down
\* together.  A token without a timer is at its end, or about to be cleared.
Timed(b) ==
  /\ ui[b] = "applying" =>
       link[b] \notin {"none", "confirm", "confirm session", "clear token"}
  /\ link[b] = "settoken" \/ (ui[b] = "applying" /\ link[b] = "200") =>
       rpcd.owner = b /\ rpcd.left = RollbackTime
  /\ rpcd.owner = b /\ link[b] # "settoken" =>
       token.owner = b /\ token.left = rpcd.left
  /\ rpcd.owner # b /\ token.owner = b =>
       ~(token.left > 0) \/ link[b] = "clear token"

\* So does the deadline of the page.  It waits for the timer, or its
\* confirmation has come through and it is about to hear so, or the timer has
\* gone off at the deadline.
Awaited(b) ==
  \/ /\ rpcd.owner = b /\ left[b] = rpcd.left
     /\ left[b] = 0 => link[b] = "none"
     /\ link[b] \notin {"clear token", "200", "204"}
     /\ link[b] = "confirm session" => Reachable
  \/ /\ rpcd.owner # b /\ left[b] # 0
     /\ link[b] \in {"clear token", "200"} /\ Reachable
  \/ /\ rpcd.owner # b /\ left[b] = 0
     /\ link[b] = "none" /\ pending[b] # "none"

Waiting(b) ==
  /\ ui[b] = "confirming" /\ checked[b] => Awaited(b)
  /\ ui[b] = "rolling" =>
       /\ rpcd.owner # b => pending[b] # "none"
       /\ link[b] \notin {"200", "confirm session", "clear token"}
       /\ link[b] = "204" => rpcd.owner # b

\* At first nobody waits.
LEMMA InitWaiting ==
  ASSUME NEW b, Browser = {b}, Init
  PROVE  Timed(b) /\ Waiting(b)
BY UciApplyAssumption DEF Init, Timed, Waiting, NoRollback, NoToken

\* The user, and the page: it waits as long as the timer runs, and rolls back
\* at the deadline.
LEMMA BrowserWaiting ==
  ASSUME NEW b, Browser = {b}, TypeOK, Told(b), Timed(b), Waiting(b),
         User(b) \/ Page(b)
  PROVE  Timed(b)' /\ Waiting(b)'
<1>1. rpcd' = rpcd /\ token' = token /\ running' = running
  BY DEF User, Page, Edit, Revert, Apply, Dismiss, LoadPage, Applied, Unheard, Poll,
         Deadline, Confirmed, RolledBack, deviceVars
<1>2. \A s : Show(b, s) => ui'[b] = s
  BY DEF TypeOK, Show
<1>3. \A l : Answer(b, l) => link'[b] = l
  BY DEF TypeOK, Answer
<1>4. /\ b # "none" /\ rpcd.owner \in {b, "none"} /\ rpcd.left \in Nat
      /\ token.left \in Int /\ left[b] \in Nat /\ RollbackTime \in Nat \ {0}
      /\ token.owner \in {b, "none"}
  BY Times, UciApplyAssumption DEF TypeOK, Owner, RollbackTime, MaxOf
<1> USE <1>1, <1>2, <1>3, <1>4 DEF Timed, Waiting, Awaited, Reachable
<1>5. CASE Edit(b) \/ Revert(b)
  BY <1>5 DEF Edit, Revert, pageVars, Told
<1>6. CASE \E chk \in BOOLEAN : Apply(b, chk)
  BY <1>6 DEF Apply, Told
<1>7. CASE Dismiss(b)
  BY <1>7 DEF Dismiss, Idle, Told
<1>8. CASE LoadPage(b)
  <2>1. link[b] = "none" /\ link' = link
    BY <1>8 DEF LoadPage, Told
  <2>2. CASE token.owner # "none" /\ token.left > 0
    <3>1. rpcd.owner = b /\ token.left = rpcd.left
      BY <2>1, <2>2
    <3>2. ui'[b] = "confirming" /\ left'[b] = token.left
      BY <1>8, <2>2 DEF LoadPage, TypeOK
    <3> QED
      BY <2>1, <2>2, <3>1, <3>2
  <2>3. CASE ~(token.owner # "none" /\ token.left > 0)
    BY <1>8, <2>1, <2>3 DEF LoadPage, Idle
  <2> QED
    BY <2>2, <2>3
<1>9. CASE Applied(b)
  <2>1. ui[b] = "applying" /\ link'[b] = "none" /\ link[b] # "settoken"
    BY <1>9 DEF Applied, Status
  <2>2. link[b] # "clear token" /\ link[b] \in Status
    BY <1>9 DEF Applied, Status
  <2>3. CASE checked[b] /\ link[b] = "200"
    <3>1. /\ ui'[b] = "confirming" /\ left'[b] = RollbackTime
          /\ rpcd.owner = b /\ rpcd.left = RollbackTime
      BY <1>9, <2>1, <2>3 DEF Applied, TypeOK
    <3> QED
      BY <2>1, <3>1
  <2>4. CASE ~checked[b] /\ link[b] = "204"
    BY <1>9, <2>1, <2>4 DEF Applied, TypeOK
  <2>5. CASE ~(checked[b] /\ link[b] = "200") /\ ~(~checked[b] /\ link[b] = "204")
    BY <1>9, <2>1, <2>2, <2>5 DEF Applied, Idle, TypeOK
  <2> QED
    BY <2>3, <2>4, <2>5
<1>14. CASE Unheard(b)
  BY <1>14 DEF Unheard, Status, deviceVars
<1>10. CASE Poll(b)
  <2>1. /\ link[b] = "none" /\ link'[b] = "confirm"
        /\ ui[b] = "rolling" \/ (ui[b] = "confirming" /\ left[b] > 0)
        /\ UNCHANGED <<ui, checked, left, pending>>
    BY <1>10 DEF Poll, pageVars, deviceVars
  <2>2. left[b] > 0 => left[b] # 0
    <3> HIDE DEF Timed, Waiting, Awaited
    <3> QED
      BY <1>4
  <2> QED
    BY <2>1, <2>2
<1>11. CASE Deadline(b)
  BY <1>11 DEF Deadline, GiveUp, deviceVars
<1>12. CASE Confirmed(b)
  <2>1. /\ ui[b] = "confirming" /\ link[b] \in Status
        /\ link'[b] = "none" /\ checked' = checked /\ pending' = pending
    BY <1>12 DEF Confirmed, deviceVars
  <2>2. Timed(b)'
    BY <1>12, <2>1 DEF Confirmed, GiveUp, Status
  <2>3. checked[b] => left[b] # 0
    BY <2>1 DEF Status
  <2>4. CASE ~checked[b]
    BY <1>12, <2>1, <2>2, <2>4 DEF Confirmed, GiveUp
  <2>5. CASE checked[b] /\ link[b] \in {"200", "204"}
    BY <1>12, <2>1, <2>2, <2>3, <2>5 DEF Confirmed
  <2>6. CASE checked[b] /\ link[b] \notin {"200", "204"}
    BY <1>12, <2>1, <2>2, <2>3, <2>6 DEF Confirmed, Status
  <2> QED
    BY <2>4, <2>5, <2>6
<1>13. CASE RolledBack(b)
  BY <1>13 DEF RolledBack, Status, deviceVars
<1> QED
  BY <1>5, <1>6, <1>7, <1>8, <1>9, <1>10, <1>11, <1>12, <1>13, <1>14 DEF User, Page

\* The device: while the timer runs the token is not expired, and a
\* confirmation it lets through is heard of.
LEMMA DeviceWaiting ==
  ASSUME NEW b, Browser = {b}, ~Lossy, Rollback >= Minimum,
         TypeOK, Told(b), Timed(b), Waiting(b), Device(b) \/ Lose(b)
  PROVE  Timed(b)' /\ Waiting(b)'
<1>1. ui' = ui /\ checked' = checked /\ left' = left
  BY DEF Device, RpcdApply, SetToken, ApplyUnchecked, CheckToken, RpcdConfirm,
         ClearToken, Lose, pageVars
<1>2. \A l : Answer(b, l) => link'[b] = l
  BY DEF TypeOK, Answer
<1>3. /\ b # "none" /\ rpcd.owner \in {b, "none"} /\ rpcd.left \in Nat
      /\ token.left \in Int /\ left[b] \in Nat /\ RollbackTime \in Nat \ {0}
      /\ token.owner \in {b, "none"} /\ RollbackTime = Rollback
  BY Times, UciApplyAssumption DEF TypeOK, Owner, RollbackTime, MaxOf
<1> USE <1>1, <1>2, <1>3 DEF Timed, Waiting, Awaited, Reachable
<1>4. CASE RpcdApply(b)
  <2>1. ui[b] = "applying" /\ token' = token /\ link[b] = "apply"
    BY <1>4 DEF RpcdApply, Told
  <2>2. CASE rpcd' = rpcd /\ (Answer(b, "403") \/ Answer(b, "204"))
    BY <2>1, <2>2
  <2>3. CASE Answer(b, "settoken") /\
             rpcd' = [owner |-> b, left |-> RollbackTime, saved |-> running]
    BY <2>1, <2>3
  <2> QED
    BY <1>4, <2>2, <2>3 DEF RpcdApply
<1>5. CASE SetToken(b)
  BY <1>5 DEF SetToken, Told
<1>6. CASE ApplyUnchecked(b)
  <2>1. ui[b] = "applying" /\ link[b] = "unchecked" /\ link'[b] = "204" /\ token' = token
    BY <1>6 DEF ApplyUnchecked, Told
  <2>2. rpcd'.owner = rpcd.owner /\ rpcd'.left = rpcd.left
    BY <1>6 DEF ApplyUnchecked, TypeOK
  <2> QED
    BY <2>1, <2>2
<1>7. CASE CheckToken(b)
  <2>1. /\ link[b] = "confirm" /\ Reachable
        /\ UNCHANGED <<pending, running, rpcd, token>>
    BY <1>7 DEF CheckToken, deviceVars
  <2>2. /\ link'[b] \in {"204", "403", "confirm session"}
        /\ link'[b] = "204" => Expired
        /\ link'[b] = "confirm session" => ui[b] = "confirming"
    BY <1>7 DEF CheckToken
  <2>3. Expired => rpcd.owner # b
    BY <2>1 DEF Expired
  <2> QED
    BY <2>1, <2>2, <2>3 DEF Told
<1>8. CASE RpcdConfirm(b)
  <2>1. link[b] = "confirm session" /\ UNCHANGED <<pending, running, token>>
    BY <1>8 DEF RpcdConfirm
  <2>2. CASE rpcd.owner = "none" /\ Answer(b, "204") /\ rpcd' = rpcd
    BY <2>1, <2>2
  <2>3. CASE Answer(b, "403") /\ rpcd' = rpcd
    BY <2>1, <2>3
  <2>4. CASE Answer(b, "clear token") /\ rpcd' = NoRollback
    <3>1. rpcd'.owner = "none" /\ link'[b] = "clear token"
      BY <2>4 DEF NoRollback
    <3>2. ui[b] # "applying"
      BY <2>1 DEF Status
    <3>3. ui[b] = "confirming" /\ checked[b] =>
            left[b] # 0 /\ running = AllGood
      BY <2>1
    <3>4. UNCHANGED <<token, running>>
      BY <2>1
    <3> QED
      BY <2>1, <3>1, <3>2, <3>3, <3>4
  <2> QED
    BY <1>8, <2>2, <2>3, <2>4 DEF RpcdConfirm
<1>9. CASE ClearToken(b)
  <2>1. /\ link[b] = "clear token" /\ link'[b] = "200" /\ token'.owner # b
        /\ rpcd.owner # b /\ UNCHANGED <<pending, running, rpcd>>
    BY <1>9 DEF ClearToken, NoToken, Told
  <2>2. ui[b] # "applying"
    BY <2>1 DEF Status
  <2> QED
    BY <2>1, <2>2
<1>10. CASE Lose(b)
  BY <1>10 DEF Lose, deviceVars
<1> QED
  BY <1>4, <1>5, <1>6, <1>7, <1>8, <1>9, <1>10 DEF Device

\* The clocks: the timer goes off when the deadline is reached.
LEMMA ClockWaiting ==
  ASSUME NEW b, Browser = {b}, ~Lossy, TypeOK, Told(b), Timed(b), Waiting(b),
         RollBack \/ Tick
  PROVE  Timed(b)' /\ Waiting(b)'
<1>1. /\ b # "none" /\ rpcd.owner \in {b, "none"} /\ rpcd.left \in Nat
      /\ token.left \in Int /\ left[b] \in Nat /\ RollbackTime \in Nat \ {0}
      /\ token.owner \in {b, "none"}
  BY Times, UciApplyAssumption DEF TypeOK, Owner, RollbackTime, MaxOf
<1>2. CASE RollBack
  <2>1. rpcd.owner = b /\ rpcd.left = 0 /\ rpcd'.owner # b
    BY <1>1, <1>2 DEF RollBack, NoRollback
  <2>2. UNCHANGED <<token, ui, checked, left, link>> /\ pending'[b] # "none"
    BY <1>2, <2>1 DEF RollBack, pageVars, TypeOK
  <2>3. Timed(b)'
    <3>1. /\ ~(link[b] = "settoken" \/ (ui[b] = "applying" /\ link[b] = "200"))
          /\ token.left = 0
      BY <1>1, <2>1 DEF Timed
    <3>2. ~(token.left > 0)
      BY <3>1
    <3> QED
      BY <1>1, <2>1, <2>2, <3>1, <3>2 DEF Timed
  <2>4. Awaited(b) => Awaited(b)'
    BY <1>1, <2>1, <2>2 DEF Awaited
  <2> QED
    BY <2>1, <2>2, <2>3, <2>4 DEF Waiting
<1>3. CASE Tick
  <2>1. UNCHANGED <<pending, running, ui, checked, link>> /\ link[b] = "none"
    BY <1>3 DEF Tick
  <2>2. /\ rpcd'.owner = rpcd.owner /\ rpcd'.left = MaxOf(rpcd.left - 1, 0)
        /\ token'.owner = token.owner /\ token'.left = MaxOf(token.left - 1, -1)
        /\ left'[b] = MaxOf(left[b] - 1, 0)
    BY <1>3 DEF Tick, TypeOK
  <2>3. rpcd.owner = b => rpcd.left > 0
    BY <1>1, <1>3 DEF Tick
  <2>4. Timed(b)'
    BY <1>1, <2>1, <2>2, <2>3 DEF Timed, MaxOf
  <2>5. Awaited(b) => Awaited(b)'
    BY <1>1, <2>1, <2>2, <2>3 DEF Awaited, MaxOf, Reachable
  <2> QED
    BY <2>1, <2>2, <2>4, <2>5 DEF Waiting
<1> QED
  BY <1>2, <1>3

-----------------------------------------------------------------------------
(* What became of the change                                               *)

\* A page that does not wait for the timer of rpcd has none running, unless it
\* has not heard of its apply, and then the device is cut off.
Settled(b) ==
  /\ link[b] \in {"apply", "settoken"} \/ (ui[b] = "applying" /\ link[b] = "200") =>
       checked[b]
  /\ ui[b] \in {"idle", "applied", "rolledback", "unreachable"} => rpcd.owner # b
  /\ ui[b] = "confirming" /\ ~checked[b] => rpcd.owner # b
  /\ ui[b] = "applying" /\ link[b] \in {"apply", "unchecked", "204", "403"} =>
       rpcd.owner # b
  /\ ui[b] = "silent" \/ (ui[b] = "applying" /\ link[b] = "0") =>
       rpcd.owner # b \/ ~Reachable

\* A page that says so, or waits while no timer runs, has a change that stays.
Kept(b) ==
  /\ ui[b] = "applied" => fate[b] = "kept"
  /\ ui[b] = "applying" /\ ~checked[b] /\ link[b] = "204" => fate[b] = "kept"
  /\ ui[b] = "confirming" =>
       rpcd.owner = b \/ (checked[b] /\ left[b] = 0) \/ fate[b] = "kept"

\* At first all is settled.
LEMMA InitKept ==
  ASSUME NEW b, Browser = {b}, Init
  PROVE  Settled(b) /\ Kept(b)
BY UciApplyAssumption DEF Init, Settled, Kept, NoRollback

\* The user, and the page: it waits unless the device is cut off.
LEMMA BrowserKept ==
  ASSUME NEW b, Browser = {b}, TypeOK, Told(b), Timed(b), Waiting(b),
         Settled(b), Kept(b), User(b) \/ Page(b)
  PROVE  Settled(b)' /\ Kept(b)'
<1>1. rpcd' = rpcd /\ token' = token /\ running' = running /\ fate' = fate
  BY DEF User, Page, Edit, Revert, Apply, Dismiss, LoadPage, Applied, Unheard, Poll,
         Deadline, Confirmed, RolledBack, deviceVars
<1>2. \A s : Show(b, s) => ui'[b] = s
  BY DEF TypeOK, Show
<1>3. \A l : Answer(b, l) => link'[b] = l
  BY DEF TypeOK, Answer
<1>4. /\ b # "none" /\ rpcd.owner \in {b, "none"} /\ token.left \in Int
      /\ left[b] \in Nat /\ RollbackTime \in Nat \ {0}
      /\ token.owner \in {b, "none"} /\ checked[b] \in BOOLEAN
  BY Times, UciApplyAssumption DEF TypeOK, Owner, RollbackTime, MaxOf
<1> USE <1>1, <1>2, <1>3, <1>4 DEF Settled, Kept, Reachable
<1>5. CASE Edit(b) \/ Revert(b)
  BY <1>5 DEF Edit, Revert, pageVars
<1>6. CASE \E chk \in BOOLEAN : Apply(b, chk)
  <2>1. PICK chk \in BOOLEAN : Apply(b, chk)
    BY <1>6
  <2>2. ui[b] = "idle" /\ ui'[b] = "applying" /\ checked'[b] = chk
    BY <2>1 DEF Apply, TypeOK
  <2>3. link'[b] = IF chk THEN "apply" ELSE "unchecked"
    BY <2>1 DEF Apply
  <2> QED
    BY <2>2, <2>3
<1>7. CASE Dismiss(b)
  BY <1>7 DEF Dismiss, Idle, Told
<1>8. CASE LoadPage(b)
  <2>1. /\ link[b] = "none" /\ link' = link /\ Reachable
        /\ ui[b] \in {"idle", "silent", "applied", "rolledback", "unreachable"}
    BY <1>8 DEF LoadPage, Told
  <2>2. rpcd.owner # b
    BY <2>1
  <2>3. ~(token.owner # "none" /\ token.left > 0)
    BY <2>1, <2>2 DEF Timed
  <2>4. ui'[b] = "idle"
    BY <1>8, <2>3 DEF LoadPage, Idle
  <2> QED
    BY <2>1, <2>2, <2>4
<1>9. CASE Applied(b)
  <2>1. /\ ui[b] = "applying" /\ link'[b] = "none" /\ link[b] \in {"200", "204", "403"}
    BY <1>9 DEF Applied, Status
  <2>2. CASE checked[b] /\ link[b] = "200"
    <3>1. ui'[b] = "confirming" /\ checked' = checked /\ rpcd.owner = b
      BY <1>9, <2>1, <2>2 DEF Applied, Timed
    <3> QED
      BY <2>1, <2>2, <3>1
  <2>3. CASE ~checked[b] /\ link[b] = "204"
    <3>1. ui'[b] = "confirming" /\ checked' = checked
      BY <1>9, <2>1, <2>3 DEF Applied
    <3> QED
      BY <2>1, <2>3, <3>1
  <2>4. CASE ~(checked[b] /\ link[b] = "200") /\ ~(~checked[b] /\ link[b] = "204")
    <3>1. ui'[b] = "idle"
      BY <1>9, <2>1, <2>4 DEF Applied, Idle
    <3>2. link[b] \in {"204", "403"}
      BY <2>1, <2>4
    <3> QED
      BY <2>1, <3>1, <3>2
  <2> QED
    BY <2>2, <2>3, <2>4
<1>10. CASE Unheard(b)
  BY <1>10 DEF Unheard
<1>11. CASE Poll(b)
  BY <1>11 DEF Poll, pageVars
<1>12. CASE Deadline(b)
  BY <1>12 DEF Deadline, GiveUp
<1>13. CASE Confirmed(b)
  <2>1. ui[b] = "confirming" /\ link'[b] = "none" /\ checked' = checked
    BY <1>13 DEF Confirmed
  <2>2. CASE left[b] = 0
    BY <1>13, <2>1, <2>2 DEF Confirmed, GiveUp
  <2>3. CASE left[b] # 0 /\ link[b] \in {"200", "204"}
    <3>1. ui'[b] = "applied" /\ rpcd.owner # b
      BY <1>13, <2>1, <2>3 DEF Confirmed, Told
    <3> QED
      BY <2>1, <2>3, <3>1
  <2>4. CASE left[b] # 0 /\ link[b] \notin {"200", "204"}
    BY <1>13, <2>1, <2>4 DEF Confirmed
  <2> QED
    BY <2>2, <2>3, <2>4
<1>14. CASE RolledBack(b)
  <2>1. ui[b] = "rolling" /\ link'[b] = "none" /\ checked' = checked
    BY <1>14 DEF RolledBack
  <2>2. \/ ui'[b] = "rolledback" /\ link[b] = "204"
        \/ ui' = ui
    BY <1>14 DEF RolledBack
  <2>3. link[b] = "204" => rpcd.owner # b
    BY <2>1 DEF Waiting
  <2> QED
    BY <2>1, <2>2, <2>3
<1> QED
  BY <1>5, <1>6, <1>7, <1>8, <1>9, <1>10, <1>11, <1>12, <1>13, <1>14 DEF User, Page

\* The device: a change is tried when its page waits for it, and kept when it
\* is confirmed.
LEMMA DeviceKept ==
  ASSUME NEW b, Browser = {b}, ~Lossy, TypeOK, Told(b), Timed(b), Waiting(b),
         Settled(b), Kept(b), Device(b) \/ Lose(b)
  PROVE  Settled(b)' /\ Kept(b)'
<1>1. ui' = ui /\ checked' = checked /\ left' = left
  BY DEF Device, RpcdApply, SetToken, ApplyUnchecked, CheckToken, RpcdConfirm,
         ClearToken, Lose, pageVars
<1>2. \A l : Answer(b, l) => link'[b] = l
  BY DEF TypeOK, Answer
<1>3. b # "none" /\ rpcd.owner \in {b, "none"}
  BY UciApplyAssumption DEF TypeOK, Owner
<1> USE <1>1, <1>2, <1>3 DEF Settled, Kept, Reachable
<1>4. CASE RpcdApply(b)
  <2>1. link[b] = "apply" /\ ui[b] = "applying" /\ checked[b]
    BY <1>4 DEF RpcdApply, Told
  <2>2. CASE UNCHANGED <<running, rpcd, fate>> /\ (Answer(b, "403") \/ Answer(b, "204"))
    BY <2>1, <2>2
  <2>3. CASE Answer(b, "settoken")
    BY <2>1, <2>3
  <2> QED
    BY <1>4, <2>2, <2>3 DEF RpcdApply
<1>5. CASE SetToken(b)
  BY <1>5 DEF SetToken, Told
<1>6. CASE ApplyUnchecked(b)
  <2>1. link[b] = "unchecked" /\ ui[b] = "applying" /\ link'[b] = "204"
    BY <1>6 DEF ApplyUnchecked, Told
  <2>2. rpcd'.owner = rpcd.owner /\ fate'[b] = "kept"
    BY <1>6 DEF ApplyUnchecked, TypeOK
  <2> QED
    BY <2>1, <2>2
<1>7. CASE CheckToken(b)
  <2>1. link[b] = "confirm" /\ link'[b] \in {"204", "403", "confirm session"}
    BY <1>7 DEF CheckToken
  <2>2. UNCHANGED <<running, rpcd, fate>> /\ ui[b] # "applying"
    BY <1>7, <2>1 DEF CheckToken, deviceVars, Timed
  <2> QED
    BY <2>1, <2>2
<1>8. CASE RpcdConfirm(b)
  <2>1. link[b] = "confirm session" /\ ui[b] # "applying" /\ running' = running
    BY <1>8 DEF RpcdConfirm, Timed
  <2>2. CASE UNCHANGED <<rpcd, fate>> /\ (Answer(b, "204") \/ Answer(b, "403"))
    BY <2>1, <2>2
  <2>3. CASE /\ rpcd.owner # "none" /\ rpcd.owner = sess[b]
             /\ Answer(b, "clear token") /\ rpcd' = NoRollback
             /\ fate' = [fate EXCEPT ![sess[b]] = "kept"]
    <3>1. rpcd'.owner = "none" /\ fate'[b] = "kept"
      BY <2>3 DEF NoRollback, TypeOK
    <3> QED
      BY <2>1, <2>3, <3>1
  <2> QED
    BY <1>8, <2>2, <2>3 DEF RpcdConfirm
<1>9. CASE ClearToken(b)
  BY <1>9 DEF ClearToken, Timed
<1>10. CASE Lose(b)
  BY <1>10 DEF Lose, deviceVars
<1> QED
  BY <1>4, <1>5, <1>6, <1>7, <1>8, <1>9, <1>10 DEF Device

\* The clocks: the timer goes off when the page has given up.
LEMMA ClockKept ==
  ASSUME NEW b, Browser = {b}, TypeOK, Told(b), Timed(b), Waiting(b),
         Settled(b), Kept(b), RollBack \/ Tick
  PROVE  Settled(b)' /\ Kept(b)'
<1>1. b # "none" /\ rpcd.owner \in {b, "none"} /\ left[b] \in Nat
  BY Times, UciApplyAssumption DEF TypeOK, Owner
<1>2. CASE RollBack
  <2>1. rpcd.owner = b /\ rpcd.left = 0 /\ rpcd'.owner # b
    BY <1>1, <1>2 DEF RollBack, NoRollback
  <2>2. UNCHANGED <<ui, checked, left, link>>
    BY <1>2 DEF RollBack, pageVars
  <2>3. ui[b] = "confirming" => checked[b] /\ left[b] = 0
    BY <2>1 DEF Settled, Waiting, Awaited
  <2>4. ui[b] = "applying" /\ link[b] = "204" => FALSE
    BY <2>1 DEF Settled
  <2>5. ui[b] # "applied"
    BY <2>1 DEF Settled
  <2>6. link[b] \in {"apply", "settoken"} \/ (ui[b] = "applying" /\ link[b] = "200") =>
          checked[b]
    BY DEF Settled
  <2> QED
    BY <2>1, <2>2, <2>3, <2>4, <2>5, <2>6 DEF Settled, Kept
<1>3. CASE Tick
  <2>1. UNCHANGED <<running, ui, checked, link, fate>> /\ rpcd'.owner = rpcd.owner
    BY <1>3 DEF Tick, TypeOK
  <2>2. left[b] = 0 => left'[b] = 0
    BY <1>1, <1>3 DEF Tick, MaxOf
  <2> QED
    BY <2>1, <2>2 DEF Settled, Kept, Reachable
<1> QED
  BY <1>2, <1>3

-----------------------------------------------------------------------------
(* Theorems                                                                *)

\* Types, for any number of browsers, any timeouts and any network.
THEOREM TypeCorrect == Spec => []TypeOK
<1> QED
  BY InitType, NextType, PTL DEF Spec

\* With one browser, a network that loses nothing while the device can be
\* reached, and a rollback option of at least the minimum, the page knows how
\* far rpcd is.
THEOREM OneBrowser ==
  ASSUME NEW me, Browser = {me}, ~Lossy, Rollback >= Minimum
  PROVE  Spec => [](/\ TypeOK /\ Told(me) /\ Timed(me) /\ Waiting(me)
                    /\ Settled(me) /\ Kept(me))
<1> DEFINE Inv == /\ TypeOK /\ Told(me) /\ Timed(me) /\ Waiting(me)
                  /\ Settled(me) /\ Kept(me)
<1>1. Init => Inv
  BY InitType, InitTold, InitWaiting, InitKept
<1>2. Inv /\ [Next]_vars => Inv'
  <2> SUFFICES ASSUME Inv, [Next]_vars PROVE Inv'
    OBVIOUS
  <2>1. TypeOK'
    BY NextType
  <2>2. CASE User(me) \/ Page(me)
    BY <2>1, <2>2, BrowserTold, BrowserWaiting, BrowserKept
  <2>3. CASE Device(me) \/ Lose(me)
    BY <2>1, <2>3, DeviceTold, DeviceWaiting, DeviceKept
  <2>4. CASE RollBack \/ Tick
    BY <2>1, <2>4, ClockTold, ClockWaiting, ClockKept
  <2>5. CASE UNCHANGED vars
    BY <2>1, <2>5 DEF Told, Timed, Waiting, Awaited, Settled, Kept, Reachable, vars,
                      deviceVars, pageVars
  <2> QED
    BY <2>2, <2>3, <2>4, <2>5 DEF Next
<1> QED
  BY <1>1, <1>2, PTL DEF Spec

\* UI.confirm and uci_confirm: with one browser, a network that loses nothing
\* while the device can be reached, and a rollback option of at least the
\* minimum, "applied" is said only of changes that are in force for good: they
\* have been confirmed, or were applied without a rollback.
\* With a shorter option it is said too early.
THEOREM AppliedIsMeant ==
  ASSUME NEW me, Browser = {me}, ~Lossy, Rollback >= Minimum
  PROVE  Spec => []ToldApplied
<1>1. Kept(me) => ToldApplied
  BY DEF Kept, ToldApplied
<1> QED
  BY <1>1, OneBrowser, PTL

\* UI.rollback: under the same conditions "rolled back" is said only after
\* rpcd has rolled back, with the changes pending again: not while its timer
\* still runs, and never of changes it has been made to keep.
THEOREM RolledBackIsMeant ==
  ASSUME NEW me, Browser = {me}, ~Lossy, Rollback >= Minimum
  PROVE  Spec => ToldRolledBack
<1> DEFINE Truth ==
      \A b \in Browser :
        ui[b] = "rolling" /\ ui'[b] = "rolledback" =>
          about[b] # rpcd.owner /\ pending[about[b]] # "none"
<1>1. ASSUME TypeOK, Waiting(me), Next, ui[me] = "rolling",
             ui'[me] = "rolledback"
      PROVE  about[me] # rpcd.owner /\ pending[about[me]] # "none"
  <2>1. about[me] = me
    BY <1>1 DEF TypeOK
  <2>2. link[me] = "204"
    <3>1. RolledBack(me)
      BY <1>1
         DEF Next, User, Edit, Revert, Apply, Dismiss, LoadPage, Idle, Show,
             Page, Applied, Unheard, Poll, Deadline, Confirmed, GiveUp, Device,
             RpcdApply, SetToken, ApplyUnchecked, CheckToken, RpcdConfirm,
             ClearToken, Lose, RollBack, Tick, pageVars, TypeOK
    <3> QED
      BY <1>1, <3>1 DEF RolledBack
  <2> QED
    BY <1>1, <2>1, <2>2 DEF Waiting
<1>2. TypeOK /\ Waiting(me) /\ [Next]_vars => [Truth]_vars
  BY <1>1
<1> QED
  BY <1>2, OneBrowser, PTL DEF Spec, ToldRolledBack

-----------------------------------------------------------------------------
(* Calls of package-manager-call                                           *)

Active == Holding \cup {"waiting"}

\* flock: holders of one file exclude each other.
Exclusive ==
  \A c, d \in Call :
    pc[c] \in Holding /\ pc[d] \in Holding /\ lockFd[c] = lockFd[d] => c = d

\* Whoever is in the subshell has the lock file of an undisturbed call open.
Shared ==
  \A c, d \in Call :
    alone[c] /\ pc[c] \in Active /\ pc[d] \in Active =>
      lockFd[d] = lockFile /\ lockFile # NoFile

\* The report of an undisturbed call belongs to it.
Undisturbed ==
  \A c \in Call : alone[c] =>
    /\ pc[c] # "idle"
    /\ pc[c] = "running" => outFile /\ outFd[c] /\ content = {}
    /\ pc[c] = "ended" => outFile /\ content = {c}

CallInv == CallTypeOK /\ Exclusive /\ Shared /\ Undisturbed

-----------------------------------------------------------------------------

\* A step of one call.
CallStep(c) == Open(c) \/ Lock(c) \/ LockFails(c) \/ Work(c)

\* Nobody calls at first.
LEMMA CallInitInv == CallInit => CallInv
  BY PackageManagerAssumption
     DEF CallInit, CallInv, CallTypeOK, State, Exclusive, Shared, Undisturbed, Holding,
         Active

\* Every step keeps the types.
LEMMA TypeStep ==
  ASSUME CallTypeOK, NEW c \in Call, CallStep(c)
  PROVE  CallTypeOK'
<1> USE DEF CallTypeOK, State, Holding, Go
<1>1. CASE Open(c)
  <2>1. Opened \subseteq Inode
    BY DEF Opened, Unused
  <2> QED
    BY <1>1, <2>1 DEF Open
<1>2. CASE Lock(c) \/ LockFails(c) \/ Unlock(c)
  BY <1>2 DEF Lock, LockFails, Unlock
<1>3. CASE RunOpkg(c)
  BY <1>3 DEF RunOpkg
<1>4. CASE OpkgEnds(c)
  BY <1>4 DEF OpkgEnds
<1>5. CASE Read(c)
  BY <1>5 DEF Read
<1>6. CASE Clean(c)
  BY <1>6 DEF Clean
<1> QED
  BY <1>1, <1>2, <1>3, <1>4, <1>5, <1>6 DEF CallStep, Work

\* Every step keeps the locks exclusive and shared.
LEMMA LockStep ==
  ASSUME CallInv, NEW c \in Call, CallStep(c)
  PROVE  Exclusive' /\ Shared'
<1> USE DEF CallInv, CallTypeOK, Holding, Active, Go
<1>1. CASE Open(c)
  <2>1. PICK i \in Opened :
          lockFile' = i /\ lockFd' = [lockFd EXCEPT ![c] = i]
    BY <1>1 DEF Open
  <2>2. i # NoFile /\ (lockFile # NoFile => i = lockFile)
    BY PackageManagerAssumption DEF Opened, Unused
  <2>3. Exclusive'
    BY <1>1, <2>1 DEF Open, Exclusive
  <2>4. ASSUME NEW d \in Call, NEW e \in Call, alone'[d],
               pc'[d] \in Active, pc'[e] \in Active
        PROVE  lockFd'[e] = lockFile' /\ lockFile' # NoFile
    <3>1. CASE d = c
      BY <1>1, <2>1, <2>2, <2>4, <3>1 DEF Open
    <3>2. CASE d # c
      <4>1. alone[d] /\ pc[d] \in Active
        BY <1>1, <2>4, <3>2 DEF Open
      <4>2. lockFile # NoFile
        BY <4>1 DEF Shared
      <4>3. CASE e = c
        BY <1>1, <2>1, <2>2, <4>2, <4>3 DEF Open
      <4>4. CASE e # c
        BY <1>1, <2>1, <2>2, <2>4, <4>1, <4>2, <4>4 DEF Open, Shared
      <4> QED
        BY <4>3, <4>4
    <3> QED
      BY <3>1, <3>2
  <2> QED
    BY <2>3, <2>4 DEF Shared
<1>2. CASE Lock(c)
  BY <1>2 DEF Lock, Exclusive, Shared
<1>3. CASE LockFails(c) \/ Unlock(c)
  BY <1>3 DEF LockFails, Unlock, Exclusive, Shared
<1>4. CASE RunOpkg(c) \/ OpkgEnds(c) \/ Read(c)
  BY <1>4 DEF RunOpkg, OpkgEnds, Read, Exclusive, Shared
<1>5. CASE Clean(c)
  BY <1>5 DEF Clean, Exclusive, Shared
<1> QED
  BY <1>1, <1>2, <1>3, <1>4, <1>5 DEF CallStep, Work

\* A holder that is not the undisturbed one does not exist.
LEMMA OnlyHolder ==
  ASSUME CallInv, NEW c \in Call, NEW d \in Call,
         alone[c], pc[c] \in Holding, pc[d] \in Holding
  PROVE  d = c
  BY DEF CallInv, Shared, Exclusive, Active

\* Every step leaves the report of an undisturbed call alone.
LEMMA ReportStep ==
  ASSUME CallInv, NEW c \in Call, CallStep(c)
  PROVE  Undisturbed'
<1> USE DEF CallInv, CallTypeOK, Go
<1>1. CASE Open(c)
  BY <1>1 DEF Open, Undisturbed
<1>2. CASE Lock(c) \/ LockFails(c) \/ Unlock(c)
  BY <1>2 DEF Lock, LockFails, Unlock, Undisturbed
<1>3. CASE RunOpkg(c)
  BY <1>3, OnlyHolder DEF RunOpkg, Undisturbed, Holding
<1>4. CASE OpkgEnds(c)
  BY <1>4, OnlyHolder DEF OpkgEnds, Undisturbed, Holding
<1>5. CASE Read(c)
  BY <1>5 DEF Read, Undisturbed
<1>6. CASE Clean(c)
  BY <1>6 DEF Clean, Undisturbed
<1> QED
  BY <1>1, <1>2, <1>3, <1>4, <1>5, <1>6 DEF CallStep, Work

\* The inductive invariant.
THEOREM CallInvariance == CallSpec => []CallInv
<1>1. CallInv /\ [CallNext]_callVars => CallInv'
  <2> SUFFICES ASSUME CallInv, [CallNext]_callVars PROVE CallInv'
    OBVIOUS
  <2>1. CASE CallNext
    BY <2>1, TypeStep, LockStep, ReportStep DEF CallNext, CallStep, CallInv
  <2>2. CASE UNCHANGED callVars
    BY <2>2 DEF callVars, CallInv, CallTypeOK, Exclusive, Shared, Undisturbed
  <2> QED
    BY <2>1, <2>2
<1> QED
  BY CallInitInv, <1>1, PTL DEF CallSpec

\* A call that found no other call, and that no other call cleans up under,
\* reports the output of its own opkg, for any number of callers.
THEOREM ReportIsOwn == CallSpec => OwnReport
<1>1. CallInv /\ [CallNext]_callVars =>
        [\A c \in Call :
           pc[c] = "ended" /\ pc'[c] = "read" /\ alone[c]
             => report'[c] = {c}]_callVars
  <2> SUFFICES ASSUME CallInv, CallNext, NEW c \in Call,
                      pc[c] = "ended", pc'[c] = "read", alone[c]
               PROVE  report'[c] = {c}
    OBVIOUS
  <2>1. PICK d \in Call : CallStep(d)
    BY DEF CallNext, CallStep
  <2>2. Read(c)
    BY <2>1 DEF CallStep, Work, Open, Lock, LockFails, RunOpkg, OpkgEnds, Read, Unlock,
                Clean, Go, CallInv, CallTypeOK
  <2>3. outFile /\ content = {c}
    BY DEF CallInv, Undisturbed
  <2> QED
    BY <2>2, <2>3 DEF Read, CallInv, CallTypeOK
<1> QED
  BY <1>1, CallInvariance, PTL DEF CallSpec, OwnReport

\* Whoever comes last removes what anybody has created.
THEOREM NothingIsLeft == CallSpec => []NothingLeft
<1>1. CallInit => NothingLeft
  BY DEF CallInit, NothingLeft
<1>2. CallTypeOK /\ NothingLeft /\ [CallNext]_callVars => NothingLeft'
  <2> SUFFICES ASSUME CallTypeOK, NothingLeft, [CallNext]_callVars PROVE NothingLeft'
    OBVIOUS
  <2>1. ASSUME NEW c \in Call, CallStep(c)
        PROVE  NothingLeft'
    <3>1. CASE Clean(c)
      BY <3>1 DEF Clean, NothingLeft
    <3>2. CASE ~Clean(c)
      <4>1. pc'[c] # "idle"
        BY <2>1, <3>2 DEF CallTypeOK, Go, CallStep, Work, Open, Lock, LockFails, RunOpkg,
                          OpkgEnds, Read, Unlock
      <4> QED
        BY <4>1 DEF NothingLeft
    <3> QED
      BY <3>1, <3>2
  <2>2. CASE UNCHANGED callVars
    BY <2>2 DEF callVars, NothingLeft
  <2> QED
    BY <2>1, <2>2 DEF CallNext, CallStep
<1>3. CallInv => CallTypeOK
  BY DEF CallInv
<1> QED
  BY <1>1, <1>2, <1>3, CallInvariance, PTL DEF CallSpec

=============================================================================
