----------------------------- MODULE OrderKeys -----------------------------
(***************************************************************************)
(* Fractional index keys: the strings that order the artifacts of a        *)
(* collection (after_key and mid_key in mantle/db/arango.py, and the same  *)
(* two functions in facet/src/utils/fractional-index.ts).                  *)
(*                                                                         *)
(* A key is a sequence of digits, the empty one standing for "no key".     *)
(* The code has 62 digits in the order of their codes, the numerals, the   *)
(* capitals and the small letters, and pads with "U".  The database and    *)
(* the tab do not compare keys by these codes, but as words: "a" comes     *)
(* before "U".                                                             *)
(***************************************************************************)
EXTENDS Integers, Sequences

CONSTANTS
  Base,      \* how many digits there are
  Letters,   \* the last 2 * Letters are the capitals and the small letters
  Pad        \* the digit new keys begin with

ASSUME KeysAssumption ==
  /\ Base \in Nat /\ Pad \in Nat /\ Pad + 2 < Base
  /\ Letters \in Nat \ {0} /\ 2 * Letters <= Base

Top    == Base - 1
Digits == 0..Top
Keys   == Seq(Digits)
NoKey  == <<>>

(* Strings in the order of the codes: n is where b first differs from a.   *)
Below(a, b) ==
  \E n \in 1..Len(b) :
    /\ \A i \in 1..(n - 1) : i <= Len(a) /\ a[i] = b[i]
    /\ n <= Len(a) => a[n] < b[n]

(* Strings as words: the two cases of a letter weigh the same, and only    *)
(* words that are otherwise the same are told apart by them.               *)
Small(d)   == d > Top - Letters
Capital(d) == ~Small(d) /\ d > Top - 2 * Letters
LastCapital == Top - Letters

Weight(d)  == IF Small(d) THEN d - Letters ELSE d
Weights(a) == [i \in 1..Len(a) |-> Weight(a[i])]

Less(capsFirst, a, b) ==
  \/ Below(Weights(a), Weights(b))
  \/ /\ Weights(a) = Weights(b)
     /\ IF capsFirst THEN Below(a, b) ELSE Below(b, a)

(* Two keys that part at a capital of a and a small letter of b.           *)
Crossing(a, b) ==
  \E n \in 1..Len(b) :
    /\ \A i \in 1..(n - 1) : i <= Len(a) /\ a[i] = b[i]
    /\ n <= Len(a) /\ Capital(a[n]) /\ Small(b[n])

AfterKey(a) ==
  IF a = NoKey THEN <<Pad>>
  ELSE IF a[Len(a)] = Top THEN Append(a, Pad)
  ELSE [i \in 1..Len(a) |-> IF i = Len(a) THEN a[i] + 1 ELSE a[i]]

(* mid_key looks for the first place with a digit to spare, where a is     *)
(* padded with Pad and b with the last digit.                              *)
DigitOfA(a, i) == IF i <= Len(a) THEN a[i] ELSE Pad
DigitOfB(b, i) == IF i <= Len(b) THEN b[i] ELSE Top

FirstGap(a, b) ==
  CHOOSE n \in 1..(Len(a) + Len(b) + 1) :
    /\ DigitOfA(a, n) + 1 < DigitOfB(b, n)
    /\ \A i \in 1..(n - 1) : DigitOfA(a, i) + 1 >= DigitOfB(b, i)

MidKey(a, b) ==
  IF b = NoKey THEN Append(a, Pad)
  ELSE LET n == FirstGap(a, b)
       IN  Append(IF n <= Len(a) THEN SubSeq(a, 1, n - 1) ELSE a,
                  (DigitOfA(a, n) + DigitOfB(b, n)) \div 2)

(* The keys a reordering gives to the first, second, ... of its list.      *)
NthKey[n \in Nat] == IF n = 0 THEN NoKey ELSE AfterKey(NthKey[n - 1])
=============================================================================
