------------------------------ MODULE FormFields ------------------------------
(***************************************************************************)
(* form.js: the fields of a section, which of them are shown, and what is  *)
(* saved.                                                                  *)
(*                                                                         *)
(* A field is shown when another one has a value.  After every change the  *)
(* fields are gone through in their order; what is shown or hidden by it   *)
(* counts at once.  Saving has each field write its option into the cache  *)
(* of uci.js, or remove it, all of them whether one is refused or not; a   *)
(* field writes only what differs from what it was loaded with, and it is  *)
(* loaded again only when the save was served.                             *)
(*                                                                         *)
(* Simplifications.  A form has one section; alternatives of a dependency, *)
(* defaults and sections within fields are left out.                       *)
(***************************************************************************)
EXTENDS Naturals, Sequences, FiniteSets

CONSTANTS
  Field,    \* fields
  Option,   \* options they are stored in
  Content,  \* what can be in a field
  Bad,      \* contents a validator refuses
  Forms,    \* forms: see IsForm
  MaxSaves  \* bound on the saves

None == "none"

\* A form: the order of its fields; the field and content each one depends on,
\* or whose contents it must not have; the option of each, and whether that is
\* set as ucioption; whether a field may be empty, keeps its option when it is
\* hidden, and is a flag.  Fields do not depend on each other in a circle.
IsForm(f) ==
  /\ f.order \in Seq(Field)
  /\ \A i, j \in DOMAIN f.order : f.order[i] = f.order[j] => i = j
  /\ \A x \in Field : \E i \in DOMAIN f.order : f.order[i] = x
  /\ \A S \in (SUBSET Field) \ {{}} : \E x \in S : f.on[x] \notin S
  /\ f.on \in [Field -> Field \cup {None}] /\ f.value \in [Field -> Content]
  /\ f.reverse \subseteq Field /\ f.option \in [Field -> Option] /\ f.named \subseteq Field
  /\ f.mayBeEmpty \subseteq Field /\ f.retain \subseteq Field /\ f.flag \subseteq Field

VARIABLES
  form,
  content,  \* what is in each field
  active,   \* the fields that are shown
  cfg,      \* what each field was loaded with
  cache,    \* the options as uci.js has them
  device,   \* the options on the device
  saving,   \* a save that was sent has not been answered
  shown,    \* what the fields showed when the form was last saved, unless stale
  stale,    \* a save was refused or failed since the fields were loaded
  saves

formVars == <<form, content, active, cfg, cache, device, saving, shown, stale, saves>>

Hidden == "hidden"

Nothing == [x \in {} |-> None]

FieldsTypeOK ==
  /\ IsForm(form) /\ content \in [Field -> Content \cup {None}] /\ active \subseteq Field
  /\ cfg \in [Field -> Content \cup {None}]
  /\ cache \in [Option -> Content \cup {None}] /\ device \in [Option -> Content \cup {None}]
  /\ saving \in BOOLEAN /\ stale \in BOOLEAN /\ saves \in 0..MaxSaves
  /\ shown = Nothing \/ shown \in [Field -> Content \cup {None, Hidden}]

-----------------------------------------------------------------------------
(* Which fields are shown                                                  *)

\* isDependencySatisfied: a field that is hidden has no value.
Satisfied(fm, x, act, c) ==
  LET on == fm.on[x]
      equal == on \in act /\ c[on] = fm.value[x]
  IN on = None \/ equal # (x \in fm.reverse)

\* checkDepends of the section: one field after the other.
Pass(fm, act, c) ==
  LET after[i \in 0..Len(fm.order)] ==
        IF i = 0 THEN act
        ELSE LET a == after[i - 1]  x == fm.order[i]
             IN IF Satisfied(fm, x, a, c) THEN a \cup {x} ELSE a \ {x}
  IN after[Len(fm.order)]

\* checkDepends of the map: a second pass, when the first has changed anything.
CheckDepends(fm, act, c) == Pass(fm, Pass(fm, act, c), c)

\* renderContents: fields that depend on others are hidden at first.
Render(fm, c) ==
  /\ content' = c
  /\ active' = CheckDepends(fm, {x \in Field : fm.on[x] = None}, c)

FormInit ==
  /\ form \in Forms
  /\ device \in [Option -> (Content \ Bad) \cup {None}] /\ cache = device
  /\ cfg = [x \in Field |-> device[form.option[x]]]
  /\ content = cfg /\ active = CheckDepends(form, {x \in Field : form.on[x] = None}, content)
  /\ saving = FALSE /\ shown = Nothing /\ stale = FALSE /\ saves = 0

Edit(x, v) ==
  /\ x \in active /\ v # content[x]
  /\ content' = [content EXCEPT ![x] = v]
  /\ active' = CheckDepends(form, active, content')
  /\ UNCHANGED <<form, cfg, cache, device, saving, shown, stale, saves>>

-----------------------------------------------------------------------------
(* What is saved                                                           *)

Refused(x, act) ==
  x \in act /\ (content[x] \in Bad \/ (content[x] = None /\ x \notin form.mayBeEmpty))

\* remove: a field that is shown and set to the same option by ucioption keeps
\* it.
Remove(opts, x, act) ==
  IF \E y \in act \ {x} : y \in form.named /\ form.option[y] = form.option[x] THEN opts
  ELSE [opts EXCEPT ![form.option[x]] = None]

\* parse of one field.  A flag is written whether it has changed or not.
Parse(opts, x, act) ==
  IF Refused(x, act) THEN opts
  ELSE IF x \notin act THEN (IF x \in form.retain THEN opts ELSE Remove(opts, x, act))
  ELSE IF content[x] = None THEN Remove(opts, x, act)
  ELSE IF x \in form.flag \/ content[x] # cfg[x] THEN [opts EXCEPT ![form.option[x]] = content[x]]
  ELSE opts

\* parse of the section: one field after the other.
ParseAll(opts, act) ==
  LET after[i \in 0..Len(form.order)] ==
        IF i = 0 THEN opts ELSE Parse(after[i - 1], form.order[i], act)
  IN after[Len(form.order)]

\* save: what the fields write stays written if one of them is refused.
Save ==
  /\ ~saving /\ saves < MaxSaves
  /\ active' = CheckDepends(form, active, content)
  /\ cache' = ParseAll(cache, active')
  /\ IF \E x \in Field : Refused(x, active')
       THEN stale' = TRUE /\ UNCHANGED <<saving, shown>>
       ELSE /\ saving' = TRUE /\ UNCHANGED stale
            /\ shown' = IF stale THEN Nothing
                         ELSE [x \in Field |-> IF x \in active' THEN content[x] ELSE Hidden]
  /\ saves' = saves + 1
  /\ UNCHANGED <<form, content, cfg, device>>

\* The fields are loaded and drawn anew.
SaveServed ==
  /\ saving /\ saving' = FALSE
  /\ device' = cache
  /\ cfg' = [x \in Field |-> cache[form.option[x]]]
  /\ Render(form, cfg')
  /\ stale' = FALSE
  /\ UNCHANGED <<form, cache, shown, saves>>

SaveFails ==
  /\ saving /\ saving' = FALSE
  /\ stale' = TRUE /\ shown' = Nothing
  /\ UNCHANGED <<form, content, active, cfg, cache, device, saves>>

\* reset: the form is drawn anew from what the fields were loaded with.
Reset ==
  /\ ~saving /\ Render(form, cfg)
  /\ UNCHANGED <<form, cfg, cache, device, saving, shown, stale, saves>>

FormNext ==
  \/ \E x \in Field, v \in Content \cup {None} : Edit(x, v)
  \/ Save \/ SaveServed \/ SaveFails \/ Reset

FormSpec == FormInit /\ [][FormNext]_formVars

-----------------------------------------------------------------------------
(* Properties                                                              *)

PlaceOf(x) == CHOOSE i \in DOMAIN form.order : form.order[i] = x

\* A field that comes before the one it depends on.
IsBackward(x) == form.on[x] # None /\ PlaceOf(x) < PlaceOf(form.on[x])

\* More than one such field.  (Only if one depends on the other, directly or not,
\* are two passes too few; forms in which none does are not told apart here.)
NeedsMorePasses == Cardinality({x \in Field : IsBackward(x)}) > 1

\* What is shown is what should be: a change has gone all the way through the
\* fields that depend on each other.  (Two passes are enough for one field that
\* comes before the one it depends on; of forms with more nothing is said.)
ShownAsItShould ==
  NeedsMorePasses \/ \A x \in Field : (x \in active) = Satisfied(form, x, active, content)

\* Only one of the fields that share an option was shown, and none that was
\* hidden erases the option because this one is not set to it by ucioption.
HasItsOption(x) ==
  \A y \in Field \ {x} :
    form.option[y] = form.option[x] =>
      shown[y] = Hidden /\ (y \in form.retain \/ x \in form.named)

\* What was saved is what the form showed: a field that was shown is stored as
\* it was.  (Not so after a save that was refused or failed: what a field has
\* written stays in the cache, and putting back what it was loaded with does
\* not write again.)
SavedAsShown ==
  shown # Nothing /\ ~saving => \A x \in Field :
    shown[x] # Hidden /\ HasItsOption(x) => device[form.option[x]] = shown[x]

-----------------------------------------------------------------------------
(* Why                                                                     *)

\* What was shown is in the cache before it is on the device, and the fields
\* are what is in the cache until one is refused.
FieldsFit ==
  /\ FieldsTypeOK /\ ShownAsItShould /\ SavedAsShown
  /\ ~saving /\ ~stale => \A x \in Field : cfg[x] = cache[form.option[x]]
  /\ saving /\ shown # Nothing => \A x \in Field :
       shown[x] # Hidden /\ HasItsOption(x) => cache[form.option[x]] = shown[x]

=============================================================================
