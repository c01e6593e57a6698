----------------------------- MODULE ClassLoader -----------------------------
(***************************************************************************)
(* L.require of luci.js: loading classes and what they depend on.          *)
(*                                                                         *)
(* A class is fetched when it is first required; until it is made the     *)
(* promise of it stands in its place.  Once its source is there the        *)
(* classes it depends on are required, in their order.  A class that is    *)
(* required along a chain it is itself on is a circular dependency, and    *)
(* the class that requires it is refused.  What is refused stays so.       *)
(*                                                                         *)
(* Simplifications.  The classes a page starts with are required like any  *)
(* other; a class that fetches or requires others when it is used does so  *)
(* through Ask.                                                            *)
(***************************************************************************)
EXTENDS Naturals, Sequences, FiniteSets

CONSTANTS
  Class,   \* classes
  Requires \* in some cases: for each class, those it depends on, in order

VARIABLES
  requires, \* the case
  class,    \* "no", "fetch", "wait", "made" or "refused"
  from      \* the chain along which each class was first required

loaderVars == <<requires, class, from>>

LoaderTypeOK ==
  /\ requires \in [Class -> Seq(Class)]
  /\ class \in [Class -> {"no", "fetch", "wait", "made", "refused"}]
  /\ from \in [Class -> Seq(Class)] /\ \A c \in Class : class[c] # "no" => Head(from[c]) = c

LoaderInit ==
  /\ requires \in Requires
  /\ class = [c \in Class |-> "no"] /\ from = [c \in Class |-> <<>>]

Among(c, chain) == \E i \in DOMAIN chain : chain[i] = c

\* Mutant of IsCircle: only the class that requires it is looked at.
IsCircleIfDirect(c, chain) == class[c] # "no" /\ chain # <<>> /\ c = chain[1]

\* A class that is there is not required along a chain that it is on.
IsCircle(c, chain) == class[c] # "no" /\ Among(c, chain)

\* require(c, chain), for the classes cs in their order: those up to the first
\* circle are fetched, unless they are there.
Require(cs, chain) ==
  LET circles == {i \in DOMAIN cs : IsCircle(cs[i], chain)}
      fetched == {c \in Class : class[c] = "no" /\ \E i \in DOMAIN cs : cs[i] = c /\ \A j \in circles : i < j}
  IN [class |-> [c \in Class |-> IF c \in fetched THEN "fetch" ELSE class[c]],
      from |-> [c \in Class |-> IF c \in fetched THEN <<c>> \o chain ELSE from[c]],
      raised |-> circles # {}]

\* Something on the page asks for a class.
Ask(c) ==
  /\ class[c] = "no"
  /\ LET l == Require(<<c>>, <<>>) IN class' = l.class /\ from' = l.from
  /\ UNCHANGED requires

\* compileClass, with the source of the class.
Compile(c) ==
  /\ class[c] = "fetch"
  /\ LET l == Require(requires[c], from[c])
     IN /\ class' = [l.class EXCEPT ![c] = IF l.raised THEN "refused" ELSE "wait"]
        /\ from' = l.from
  /\ UNCHANGED requires

\* An error of the network, or of HTTP.
FetchFails(c) ==
  /\ class[c] = "fetch"
  /\ class' = [class EXCEPT ![c] = "refused"]
  /\ UNCHANGED <<requires, from>>

Needs(c, d) == Among(d, requires[c])

\* All it depends on is there: the factory makes the class, or throws.
Make(c) ==
  /\ class[c] = "wait" /\ \A d \in Class : Needs(c, d) => class[d] = "made"
  /\ class' \in {[class EXCEPT ![c] = "made"], [class EXCEPT ![c] = "refused"]}
  /\ UNCHANGED <<requires, from>>

GiveUp(c) ==
  /\ class[c] = "wait" /\ \E d \in Class : Needs(c, d) /\ class[d] = "refused"
  /\ class' = [class EXCEPT ![c] = "refused"]
  /\ UNCHANGED <<requires, from>>

LoaderNext == \E c \in Class : Ask(c) \/ Compile(c) \/ FetchFails(c) \/ Make(c) \/ GiveUp(c)

LoaderSpec == LoaderInit /\ [][LoaderNext]_loaderVars

-----------------------------------------------------------------------------
(* Properties                                                              *)

\* The classes of C wait for one another and for nothing else.
WaitForEachOther(C) ==
  \A c \in C : /\ class[c] = "wait"
               /\ \A d \in Class : Needs(c, d) => class[d] = "made" \/ d \in C
               /\ \E d \in C : Needs(d, c)

EnteredAt(C) == {c \in C : Len(from[c]) = 1 \/ from[c][2] \notin C}

\* Circular dependencies are reported, and do not leave the classes waiting for
\* each other for ever, if the circle was entered at one place.  (Where it was
\* entered at two, by two classes or two parts of the page, each chain lacks
\* the other half, and nothing is ever said.)
CirclesAreReported ==
  \A C \in (SUBSET Class) \ {{}} : WaitForEachOther(C) => Cardinality(EnteredAt(C)) > 1

-----------------------------------------------------------------------------
(* Why                                                                     *)

\* The chain of a class goes on with that of the class that required it, and
\* all that is on it is there.
ChainsFit ==
  \A c \in Class : class[c] # "no" =>
    /\ from[c] # <<>> /\ from[c][1] = c
    /\ \A d \in Class : Among(d, from[c]) => class[d] # "no"
    /\ Len(from[c]) = 1 \/ from[c] = <<c>> \o from[from[c][2]]

\* A class that waits was not refused: it needs nothing of its chain.
WaitersFit ==
  \A c, d \in Class : class[c] = "wait" /\ Needs(c, d) => ~Among(d, from[c])

ChainsKept == LoaderTypeOK /\ ChainsFit /\ WaitersFit

=============================================================================
