----------------------------- MODULE JSONConfig -----------------------------
(***************************************************************************)
(* CBIJSONConfig of form.js: the sections of a JSON document, for forms    *)
(* that do not edit a configuration of the device.                         *)
(*                                                                         *)
(* A document has, for each type, one object or a list of objects, named   *)
(* or not.  One without a name gets one from its type and a number: of all *)
(* sections before it when the document is read, of those of its type when *)
(* it is added.                                                            *)
(*                                                                         *)
(* Simplifications.  The options of a section are left out.  A name is a   *)
(* type and a number, or a type (-1), whoever gave it.                     *)
(***************************************************************************)
EXTENDS Integers, Sequences, FiniteSets

CONSTANTS
  Kind,     \* types, each a number: the order of the document and of the names
  Document,   \* documents: their objects in order, see IsDocument
  MaxIndex    \* sections that are added

Unnamed == <<-1, -1>>
Single == <<-2, -2>>

\* Each object has a type, and a name, or is Unnamed in the list of its type, or
\* is the Single one of its type.
IsDocument(doc) ==
  /\ doc \in Seq([type : Kind, name : (Kind \X Nat) \cup {Unnamed, Single}])
  /\ \A i, j \in DOMAIN doc : doc[i].name = Single /\ doc[i].type = doc[j].type => i = j

VARIABLES
  data, \* the sections: type and index, by name
  odd   \* what is known of the names: whether any was given or removed, or two types were numbered

configVars == <<data, odd>>

JsonTypeOK ==
  /\ DOMAIN data \subseteq Kind \X (Nat \cup {-1})
  /\ \A n \in DOMAIN data : data[n] \in [type : Kind, index : Nat]
  /\ odd \in BOOLEAN

-----------------------------------------------------------------------------

\* __init__: the name and the index of an object, counting all.  The index of a
\* single one is not set: 9999.
NameOf(doc, i) ==
  IF doc[i].name = Unnamed THEN <<doc[i].type, i - 1>>
  ELSE IF doc[i].name = Single THEN <<doc[i].type, -1>>
  ELSE doc[i].name

IndexOf(doc, i) == IF doc[i].name = Single THEN 9999 ELSE i - 1

\* A name that is there already is overwritten.
Read(doc) ==
  LET last(name) == CHOOSE i \in DOMAIN doc : /\ NameOf(doc, i) = name
                                             /\ \A j \in DOMAIN doc : NameOf(doc, j) = name => j <= i
  IN [name \in {NameOf(doc, i) : i \in DOMAIN doc} |->
        [type |-> doc[last(name)].type, index |-> IndexOf(doc, last(name))]]

\* By index, then by name.
Before(d, m, n) ==
  LET i == d[m].index  j == d[n].index
  IN i < j \/ (i = j /\ (m[1] < n[1] \/ (m[1] = n[1] /\ m[2] < n[2])))

Reindexed(d) ==
  [n \in DOMAIN d |-> [d[n] EXCEPT !.index = Cardinality({m \in DOMAIN d : Before(d, m, n)})]]

JsonInit ==
  \E doc \in Document :
    /\ data = Reindexed(Read(doc))
    /\ odd = \/ \E i \in DOMAIN doc : doc[i].name \notin {Unnamed, Single}
             \/ \E i, j \in DOMAIN doc : doc[i].name = Unnamed /\ doc[i].type # doc[j].type

NumberOf(t) == Cardinality({n \in DOMAIN data : data[n].type = t})

NextIndex(d) ==
  LET indices == {0} \cup {d[n].index : n \in DOMAIN d}
  IN 1 + CHOOSE i \in indices : \A j \in indices : j <= i

\* add: where the name is taken, it is the section there is.
AddSection(t, name) ==
  /\ data' = IF name \in DOMAIN data THEN data
             ELSE [n \in DOMAIN data \cup {name} |-> IF n = name THEN [type |-> t, index |-> NextIndex(data)] ELSE data[n]]

Add(t) == AddSection(t, <<t, NumberOf(t)>>) /\ UNCHANGED odd

AddNamed(t, name) == AddSection(t, name) /\ odd' = TRUE

Remove(name) ==
  /\ name \in DOMAIN data
  /\ data' = [n \in DOMAIN data \ {name} |-> data[n]] /\ odd' = TRUE

\* move is that of uci.js: what is moved goes right before the other, or behind
\* it, and all are counted anew.
Move(name, to, after) ==
  LET key(n) == IF n = name THEN 2 * data[to].index + (IF after THEN 1 ELSE -1) ELSE 2 * data[n].index
  IN /\ {name, to} \subseteq DOMAIN data /\ name # to
     /\ data' = [n \in DOMAIN data |->
                   [data[n] EXCEPT !.index = Cardinality({m \in DOMAIN data : key(m) < key(n)})]]
     /\ UNCHANGED odd

Named == {<<t, 1>> : t \in Kind}

JsonNext ==
  \/ /\ NextIndex(data) <= MaxIndex
     /\ \E t \in Kind : Add(t) \/ \E name \in Named : AddNamed(t, name)
  \/ \E name \in DOMAIN data : Remove(name) \/ \E to \in DOMAIN data, after \in BOOLEAN : Move(name, to, after)

JsonSpec == JsonInit /\ [][JsonNext]_configVars

-----------------------------------------------------------------------------
(* Properties                                                              *)

\* No two sections have the same index, so that their order is one, and what is
\* added is last and is a new one: the name add() makes is free, unless names
\* were given, sections removed, or two types numbered together when the
\* document was read.  (There a form that adds edits the section there is, and
\* takes it away when it is dismissed.)
AddedIsNewAndLast ==
  /\ \A m, n \in DOMAIN data : data[m].index = data[n].index => m = n
  /\ \A n \in DOMAIN data : data[n].index < NextIndex(data)
  /\ ~odd => \A t \in Kind : <<t, NumberOf(t)>> \notin DOMAIN data

-----------------------------------------------------------------------------
(* Why                                                                     *)

\* Names are numbered up to the number of sections of their type.
SectionsFit ==
  /\ JsonTypeOK /\ AddedIsNewAndLast /\ IsFiniteSet(DOMAIN data)
  /\ ~odd => \A n \in DOMAIN data : n[1] = data[n].type /\ n[2] < NumberOf(n[1])

=============================================================================
