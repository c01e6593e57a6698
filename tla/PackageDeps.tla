----------------------------- MODULE PackageDeps -----------------------------
(***************************************************************************)
(* package-manager.js: comparing versions, and the dependencies the        *)
(* install dialog lists.  The inputs are chosen at the start, and nothing  *)
(* changes: every state is a case.                                         *)
(*                                                                         *)
(* Simplifications.  A version is a sequence of characters.  For the       *)
(* dependencies a version is too old, good enough, or there is none, and a *)
(* dependency asks for one that is good enough or for any.  What a package *)
(* provides and depends on is the same in all its versions.  Both lists    *)
(* have one order.  libc, which is passed over, is left out.               *)
(***************************************************************************)
EXTENDS Integers, Sequences, FiniteSets

Seqs == INSTANCE SequencesExt

CONSTANTS
  MaxLen,    \* length of versions
  Listing,   \* the packages, in the order of the lists
  Virtual,   \* names no package has
  Provided,  \* what packages provide besides their own name, in some cases
  Graph      \* what packages depend on, in some cases

VARIABLES
  version,   \* two versions to be compared
  graph,     \* what each package depends on: names, and whether any version will do
  provides,  \* what each package provides besides its own name
  present,   \* the version of each package that is installed
  offered    \* the version of each package that is available

depsVars == <<version, graph, provides, present, offered>>

Package == Seqs!ToSet(Listing)

-----------------------------------------------------------------------------
(* Versions                                                                *)

Digit == {"0", "1", "2"}

Char == Digit \cup {"~", "a", "."}

Code == [c \in Char |-> CASE c = "0" -> 48 [] c = "1" -> 49 [] c = "2" -> 50
                          [] c = "~" -> 126 [] c = "a" -> 97 [] c = "." -> 46]

\* charAt: beyond the end there is nothing.
At(s, i) == IF i \in DOMAIN s THEN s[i] ELSE ""

IsDigit(s, i) == At(s, i) \in Digit

OrderOf(c) ==
  IF c = "~" THEN -1 ELSE IF c \in Digit \cup {""} THEN 0
  ELSE IF c = "a" THEN Code[c] ELSE Code[c] + 256

\* The first place from i on where P does not hold.
RECURSIVE SkipZeros(_, _)
SkipZeros(s, i) == IF At(s, i) = "0" THEN SkipZeros(s, i + 1) ELSE i

\* One round of the loop at a time: what is no digit, then the numbers.
RECURSIVE CompareText(_, _, _, _), CompareNumber(_, _, _, _, _)

CompareText(v, r, i, j) ==
  IF (i <= Len(v) /\ ~IsDigit(v, i)) \/ (j <= Len(r) /\ ~IsDigit(r, j))
    THEN IF OrderOf(At(v, i)) # OrderOf(At(r, j)) THEN OrderOf(At(v, i)) - OrderOf(At(r, j))
         ELSE CompareText(v, r, i + 1, j + 1)
  ELSE CompareNumber(v, r, SkipZeros(v, i), SkipZeros(r, j), 0)

CompareNumber(v, r, i, j, diff) ==
  IF IsDigit(v, i) /\ IsDigit(r, j)
    THEN CompareNumber(v, r, i + 1, j + 1, IF diff # 0 THEN diff ELSE Code[v[i]] - Code[r[j]])
  ELSE IF IsDigit(v, i) THEN 1
  ELSE IF IsDigit(r, j) THEN -1
  ELSE IF diff # 0 THEN diff
  ELSE IF i <= Len(v) \/ j <= Len(r) THEN CompareText(v, r, i, j)
  ELSE 0

CompareVersion(v, r) == IF v = r THEN 0 ELSE CompareText(v, r, 1, 1)

-----------------------------------------------------------------------------
(* Dependencies                                                            *)

Any(d) == [name |-> d, strict |-> FALSE]

Dependency == [name : Package \cup Virtual, strict : BOOLEAN]

\* parseList: the packages a list has for a name.  A package is not entered
\* under its own name after another that provides it.
Providers(list, d) ==
  LET Has(i) == list[Listing[i]] # "none"
      Own(i) == Listing[i] = d /\ \A j \in 1..i - 1 : Has(j) => d \notin provides[Listing[j]]
      entered == {i \in DOMAIN Listing : Has(i) /\ (Own(i) \/ d \in provides[Listing[i]])}
  IN SelectSeq(Listing, LAMBDA p : \E i \in entered : Listing[i] = p)

\* versionSatisfied, where a version is asked for
Satisfies(v, d) == d.strict => v = "good"

\* What the dialog has gathered, and the packages another one is to replace.
NoInfo == [seen |-> {}, install |-> {}, errors |-> {}, replaced |-> {}]

\* pkgStatus: what is to be installed, or why it cannot be.
PkgStatus(p, d, info) ==
  LET repl == SelectSeq(Providers(offered, p), LAMBDA r : Satisfies(offered[r], d))
  IN IF present[p] # "none"
       THEN IF Satisfies(present[p], d) THEN info
            ELSE IF repl # <<>>
              THEN [info EXCEPT !.install = @ \cup {Head(repl)}, !.replaced = @ \cup ({p} \ {Head(repl)})]
            ELSE [info EXCEPT !.errors = @ \cup {<<p, "installed">>}]
     ELSE IF Satisfies(offered[p], d) THEN [info EXCEPT !.install = @ \cup {p}]
     ELSE [info EXCEPT !.errors = @ \cup {<<p, "offered">>}]

\* The packages for a dependency: those that are installed come first.
PkgsFor(d) ==
  LET installed == Providers(present, d.name)
  IN installed \o SelectSeq(Providers(offered, d.name), LAMBDA p : p \notin Seqs!ToSet(installed))

\* What is said of each of them, or that there is none.
Status(d, info) ==
  IF PkgsFor(d) = <<>> THEN [info EXCEPT !.errors = @ \cup {<<d.name, "missing">>}]
  ELSE Seqs!FoldLeft(LAMBDA i, p : PkgStatus(p, d, i), info, PkgsFor(d))

\* What they depend on, in order; a name that was seen is passed over, whatever
\* version is asked for now.
RECURSIVE RenderDependencies(_, _)
RenderDependencies(deps, info) ==
  LET Item(i, d) ==
        LET further == Seqs!FlattenSeq([k \in DOMAIN PkgsFor(d) |-> graph[PkgsFor(d)[k]]])
        IN RenderDependencies(further, Status(d, [i EXCEPT !.seen = @ \cup {d}]))
      Seen(i, d) == \E e \in i.seen : e.name = d.name
  IN Seqs!FoldLeft(LAMBDA i, d : IF Seen(i, d) THEN i ELSE Item(i, d), info, deps)

HandleInstall(p) == RenderDependencies(graph[p], NoInfo)

-----------------------------------------------------------------------------

VersionOf(n) == UNION {[1..k -> Char] : k \in 0..n}

NoVersions == <<<<>>, <<>>>>

DepsInit ==
  \/ /\ version \in VersionOf(MaxLen) \X VersionOf(MaxLen)
     /\ graph = [p \in Package |-> <<>>] /\ provides = [p \in Package |-> {}]
     /\ present = [p \in Package |-> "none"] /\ offered = [p \in Package |-> "none"]
  \/ /\ version = NoVersions
     /\ graph \in Graph /\ provides \in Provided
     /\ present \in [Package -> {"none", "old", "good"}] /\ offered \in [Package -> {"none", "old", "good"}]

-----------------------------------------------------------------------------
(* Properties                                                              *)

\* A version read as numbers: the text up to the next number, an end mark, the
\* number, and so on.
RECURSIVE Value(_, _, _), SortKey(_, _, _)

Value(s, i, n) == IF IsDigit(s, i) THEN Value(s, i + 1, 10 * n + Code[s[i]] - 48) ELSE <<n, i>>

SortKey(s, i, key) ==
  IF i > Len(s) THEN key
  ELSE IF IsDigit(s, i) THEN SortKey(s, Value(s, i, 0)[2], key \o <<0, Value(s, i, 0)[1]>>)
  ELSE SortKey(s, i + 1, Append(key, OrderOf(s[i])))

Digits(key, n) == [i \in 1..n |-> IF i \in DOMAIN key THEN key[i] ELSE 0]

SignOf(n) == IF n < 0 THEN -1 ELSE IF n > 0 THEN 1 ELSE 0

SignOfKeys(k, l) ==
  LET n == 2 * MaxLen
      differ == {i \in 1..n : Digits(k, n)[i] # Digits(l, n)[i]}
  IN IF differ = {} THEN 0
     ELSE LET i == CHOOSE i \in differ : \A j \in differ : i <= j
          IN SignOf(Digits(k, n)[i] - Digits(l, n)[i])

\* Versions are ordered as their numbers and texts are, one after the other.
VersionsInOrder ==
  SignOf(CompareVersion(version[1], version[2]))
    = SignOfKeys(SortKey(version[1], 1, <<>>), SortKey(version[2], 1, <<>>))

\* With the packages in install in the versions that are offered, there is one
\* for the dependency.
Met(d, install) ==
  \E p \in Package :
    /\ d.name = p \/ d.name \in provides[p]
    /\ p \in install \/ present[p] # "none"
    /\ Satisfies(IF p \in install THEN offered[p] ELSE present[p], d)

\* A dialog without an error keeps what it says: with the packages it lists,
\* every dependency of every package it installs is met, through virtual
\* packages, cycles and packages that provide the name of another.  Of a name
\* that was seen before with no version it only says that there is some package;
\* of what another package is to replace, as it provides the name, it says
\* nothing, nor when it would put a package in place of a newer one.
DialogIsComplete ==
  \A p \in Package :
    LET info == HandleInstall(p)
        install == info.install \cup {p}
        shown == offered[p] # "none" /\ present[p] \notin {offered[p], "good"}
    IN shown /\ info.errors = {}
         => \A q \in install, d \in Dependency :
              d \in Seqs!ToSet(graph[q]) /\ Seqs!ToSet(PkgsFor(d)) \cap info.replaced = {}
                => Met(IF d \in info.seen THEN d ELSE Any(d.name), install)

=============================================================================
