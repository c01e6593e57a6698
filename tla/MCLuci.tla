------------------------------- MODULE MCLuci -------------------------------
(***************************************************************************)
(* LuciPages on small instances, and what pages work out by themselves,    *)
(* for which nothing but the outcome counts: the order of versions, the    *)
(* dependencies of a package, and the prefixes of masks.                   *)
(***************************************************************************)
EXTENDS LuciPages, TLC

InstalledKeys == (TRUE :> ("official" :> "k1")) @@ (FALSE :> ("official" :> "k3"))

-----------------------------------------------------------------------------
(* Values of the constants                                                 *)

\* Nothing is installed, or an old p and the q of the repository.
NothingOrBoth == {{}, {[pkg |-> "p", old |-> TRUE], [pkg |-> "q", old |-> FALSE]}}

\* What p and q may depend on: one another and a name both or one of them
\* provide, in any version or in one that is good enough.
DependencyGraphs ==
  LET of(d) == [name : {d}, strict : BOOLEAN]
      lists(d) == {<<>>} \cup {<<x>> : x \in of(d) \cup of("virtual")}
                    \cup {<<x, y>> : x \in of(d), y \in of("virtual")}
                    \cup {<<y, x>> : x \in of(d), y \in of("virtual")}
  IN {("p" :> a) @@ ("q" :> b) : a \in lists("q"), b \in lists("p")}

ProvidedNames ==
  {("p" :> a) @@ ("q" :> b) : a \in {{"virtual"}, {"virtual", "q"}}, b \in {{}, {"virtual"}, {"p"}}}

FileTree == ("/d" :> "/") @@ ("/f" :> "/") @@ ("/d/g" :> "/d")

TwoZones == <<[name |-> "lan", networks |-> {"lan"}], [name |-> "wan", networks |-> {"wan"}]>>

TwoRules == {[type |-> "rule", src |-> "wan", dest |-> "none"],
             [type |-> "forwarding", src |-> "lan", dest |-> "wan"]}

\* Three fields, of which c depends on b and b on a.
Chain ==
  [order |-> <<"a", "b", "c">>,
   on |-> ("a" :> "none") @@ ("b" :> "a") @@ ("c" :> "b"),
   value |-> [x \in {"a", "b", "c"} |-> "1"],
   reverse |-> {}, named |-> {}, mayBeEmpty |-> {"a"}, retain |-> {"c"}, flag |-> {},
   option |-> ("a" :> "x") @@ ("b" :> "y") @@ ("c" :> "z")]

\* The same in other orders, and two fields for one option.
FourForms ==
  {Chain,
   [Chain EXCEPT !.order = <<"c", "b", "a">>],
   [Chain EXCEPT !.order = <<"b", "a", "c">>, !.flag = {"a"}],
   [Chain EXCEPT !.on = ("a" :> "c") @@ ("b" :> "c") @@ ("c" :> "none"), !.reverse = {"b"},
                 !.retain = {}, !.named = {"b"},
                 !.option = ("a" :> "x") @@ ("b" :> "x") @@ ("c" :> "z")]}

\* Two types with no object, one or two without a name, a single object, and
\* objects with names like those that are given to sections.
Documents ==
  LET unnamed == <<-1, -1>>
      single == <<-2, -2>>
      one == {<<>>, <<unnamed>>, <<unnamed, unnamed>>, <<single>>, <<<<1, 0>>, unnamed>>, <<<<2, 1>>, <<2, 1>>>>}
      of(t, names) == [i \in DOMAIN names |-> [type |-> t, name |-> names[i]]]
  IN {of(1, x) \o of(2, y) : x, y \in one}

RequireLists ==
  [{"a", "b", "c"} -> {<<>>} \cup {<<c>> : c \in {"a", "b", "c"}}
                        \cup {<<c, d>> : <<c, d>> \in {p \in {"a", "b", "c"} \X {"a", "b", "c"} : p[1] # p[2]}}]

NoPath == [g \in {"tabs", "inner"} |-> ""]

OneDevice == {<<"eth0">>}

TwoSections == <<"s1", "s2">>

TwoChoices == <<"a", "b">>

-----------------------------------------------------------------------------
(* What pages calculate                                                    *)

Deps == INSTANCE PackageDeps WITH
  MaxLen <- 2, Listing <- <<"p", "q">>, Virtual <- {"virtual"},
  Provided <- ProvidedNames, Graph <- DependencyGraphs,
  version <- v1, graph <- v2, provides <- v3, present <- v4, offered <- v5

Masks == INSTANCE NetMasks WITH
  Octet <- {0, 64, 128, 254, 255}, Word <- {0, 65535},
  v6 <- v1, bits <- v2, mask <- v3

Calculation ==
  \/ page = "deps" /\ Deps!DepsInit /\ Unused(6)
  \/ page = "masks" /\ Masks!MasksInit /\ Unused(4)

LuciInit == PagesInit \/ (KeysRest /\ Calculation)

LuciSpec == LuciInit /\ [][PagesNext]_pageVars

-----------------------------------------------------------------------------
(* Properties                                                              *)

\* What the pages work out by themselves is right: which of two versions is the
\* newer, what a package needs, and which prefix a mask is.
PagesCalculate ==
  /\ page = "deps" => Deps!VersionsInOrder /\ Deps!DialogIsComplete
  /\ page = "masks" => Masks!MasksFit

=============================================================================
