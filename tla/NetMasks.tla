------------------------------- MODULE NetMasks -------------------------------
(***************************************************************************)
(* network.js: the length of a prefix and the mask it stands for.          *)
(*                                                                         *)
(* Simplifications.  A mask is the tuple of its parts, the octets of an    *)
(* IPv4 mask or the words of an IPv6 mask; its text is left out.           *)
(***************************************************************************)
EXTENDS Integers, Sequences, FiniteSets

Folding == INSTANCE SequencesExt

CONSTANTS
  Octet, \* octets of IPv4 masks
  Word   \* words of IPv6 masks

VARIABLES
  v6,   \* which of the two
  bits, \* the length a user enters
  mask  \* the mask a user enters

maskVars == <<v6, bits, mask>>

Width == IF v6 THEN 16 ELSE 8
Parts == IF v6 THEN 8 ELSE 4

\* The first b bits of w are set: a full word that is shifted to the left, and
\* cut to its width.
FirstBits(b, w) == 2^w - 2^(w - b)

\* prefixToMask writes words of 16 bits; of an IPv4 mask each is two octets.
PrefixToMask(length) ==
  LET Least(a, b) == IF a < b THEN a ELSE b
      Most(a, b) == IF a < b THEN b ELSE a
      word == [i \in 1..(Width * Parts) \div 16 |-> FirstBits(Most(0, Least(16, length - 16 * (i - 1))), 16)]
      Half(i) == IF i % 2 = 1 THEN word[(i + 1) \div 2] \div 256 ELSE word[i \div 2] % 256
  IN [i \in 1..Parts |-> IF v6 THEN word[i] ELSE Half(i)]

\* How many of the first bits of a part are set.
Leading(part) == CHOOSE b \in 0..Width : /\ part >= FirstBits(b, Width)
                                         /\ b < Width => part < FirstBits(b + 1, Width)

\* Mutant of MaskToPrefix: a part that is zero is not remembered.
MaskToPrefixAny(m) ==
  IF \E i \in DOMAIN m : m[i] # FirstBits(Leading(m[i]), Width) THEN {}
  ELSE {Folding!FoldLeft(LAMBDA sum, part : sum + Leading(part), 0, m)}

\* maskToPrefix counts the leading bits of the parts, up to the first that is
\* zero; what is left of a part must be zero.
MaskToPrefix(m) ==
  LET AfterZero(i) == \E j \in 1..i : m[j] = 0
      ones == [i \in DOMAIN m |-> IF AfterZero(i) THEN 0 ELSE Leading(m[i])]
  IN IF \E i \in DOMAIN m : m[i] # FirstBits(ones[i], Width) THEN {}
     ELSE {Folding!FoldLeft(LAMBDA sum, b : sum + b, 0, ones)}

\* A part that is neither full nor zero, and more behind it.
Gap(m) == \E i \in DOMAIN m : i < Len(m) /\ m[i] # FirstBits(Width, Width) /\ m[i] # 0 /\ m[i + 1] # 0

\* A length, or a mask of any parts.
MasksInit ==
  /\ v6 \in BOOLEAN /\ bits \in 0..Width * Parts
  /\ \/ mask = PrefixToMask(bits)
     \/ bits = 0 /\ mask \in [1..Parts -> IF v6 THEN Word ELSE Octet]

-----------------------------------------------------------------------------
(* Properties                                                              *)

\* A length and the mask it stands for are found from one another, and a mask
\* that is no prefix has none, but for one with a gap between two of its parts.
MasksFit ==
  /\ MaskToPrefix(PrefixToMask(bits)) = {bits}
  /\ \A length \in MaskToPrefix(mask) : mask = PrefixToMask(length) \/ Gap(mask)

=============================================================================
