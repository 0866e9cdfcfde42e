-------------------------- MODULE WorkspaceProofs --------------------------
(***************************************************************************)
(* Proofs about a workspace in a browser tab: what after_key and mid_key   *)
(* promise of the keys they make, for keys of any length and any number of *)
(* digits; that the details panel comes to show what is stored; that an    *)
(* upload, once complete, is served and is shown as complete; and that the *)
(* artifacts of the workspace are listed in the order that was asked for.  *)
(***************************************************************************)
EXTENDS Workspace, FiniteSetTheorems, SequenceTheorems, WellFoundedInduction, TLAPS

-----------------------------------------------------------------------------
(* Order keys.                                                             *)

LEMMA AppendDigit ==
  ASSUME NEW s \in Keys, NEW x \in Digits
  PROVE  /\ Append(s, x) \in Keys
         /\ Len(Append(s, x)) = Len(s) + 1
         /\ \A i \in 1..Len(s) : Append(s, x)[i] = s[i]
         /\ Append(s, x)[Len(s) + 1] = x
  BY DEF Keys

LEMMA Prefix ==
  ASSUME NEW s \in Keys, NEW n \in 0..Len(s)
  PROVE  /\ SubSeq(s, 1, n) \in Keys
         /\ Len(SubSeq(s, 1, n)) = n
         /\ \A i \in 1..n : SubSeq(s, 1, n)[i] = s[i]
  BY DEF Keys

(* A key that agrees with a before place k and ends there with a greater   *)
(* digit, or one where a has none, comes after a.                          *)
LEMMA GreaterAt ==
  ASSUME NEW a \in Keys, NEW m \in Keys, NEW k \in 1..(Len(a) + 1),
         k <= Len(m), \A i \in 1..(k - 1) : m[i] = a[i],
         k <= Len(a) => a[k] < m[k]
  PROVE  Below(a, m)
  BY DEF Below, Keys

LEMMA AppendedComesAfter ==
  ASSUME NEW a \in Keys, NEW x \in Digits
  PROVE  Below(a, Append(a, x))
<1>1. Len(a) \in Nat /\ Len(a) + 1 \in 1..(Len(a) + 1)
  BY DEF Keys
<1> DEFINE m == Append(a, x)
<1>2. m \in Keys /\ Len(m) = Len(a) + 1 /\ \A i \in 1..Len(a) : m[i] = a[i]
  BY AppendDigit
<1> HIDE DEF m
<1>3. \A i \in 1..(Len(a) + 1 - 1) : m[i] = a[i]
  BY <1>1, <1>2
<1>4. Below(a, m)
  BY <1>1, <1>2, <1>3 DEF Below
<1> QED BY <1>4 DEF m

(* after_key gives a key, and one that comes after the key it is given in  *)
(* the order of the codes.                                                 *)
THEOREM AfterKeyComesAfter ==
  ASSUME NEW a \in Keys
  PROVE  AfterKey(a) \in Keys /\ Below(a, AfterKey(a))
<1>1. Pad \in Digits /\ Top \in Digits
  BY KeysAssumption DEF Digits, Top
<1>2. CASE a = NoKey
  <2>1. <<Pad>> \in Keys /\ Len(<<Pad>>) = 1 /\ Len(a) = 0
    BY <1>1, <1>2 DEF Keys, NoKey
  <2>2. Below(a, <<Pad>>)
    BY <2>1, GreaterAt
  <2> QED BY <1>2, <2>1, <2>2 DEF AfterKey
<1>3. CASE a # NoKey /\ a[Len(a)] = Top
  <2>1. AfterKey(a) = Append(a, Pad)
    BY <1>3 DEF AfterKey
  <2>2. Len(a) \in Nat
    BY DEF Keys
  <2>3. Below(a, Append(a, Pad))
    BY <1>1, AppendedComesAfter
  <2> QED BY <1>1, <2>1, <2>3, AppendDigit
<1>4. CASE a # NoKey /\ a[Len(a)] # Top
  <2> DEFINE m == [i \in 1..Len(a) |-> IF i = Len(a) THEN a[i] + 1 ELSE a[i]]
  <2>1. AfterKey(a) = m
    BY <1>4 DEF AfterKey
  <2>2. Len(a) \in Nat \ {0} /\ \A i \in 1..Len(a) : a[i] \in Digits
    BY <1>4 DEF Keys, NoKey
  <2>3. a[Len(a)] + 1 \in Digits
    BY <1>4, <2>2, KeysAssumption DEF Digits, Top
  <2>4. m \in Keys
    BY <2>2, <2>3 DEF Keys
  <2>5. Len(m) = Len(a) /\ \A i \in 1..(Len(a) - 1) : m[i] = a[i]
    BY <2>2
  <2>6. a[Len(a)] < m[Len(a)]
    BY <2>2, KeysAssumption DEF Digits, Top
  <2> HIDE DEF m
  <2>7. Below(a, m)
    BY <2>2, <2>4, <2>5, <2>6, GreaterAt
  <2> QED BY <2>1, <2>4, <2>7
<1> QED BY <1>2, <1>3, <1>4

-----------------------------------------------------------------------------
LEMMA LeastElement ==
  ASSUME NEW S \in SUBSET Nat, S # {}
  PROVE  \E n \in S : \A y \in S : y >= n
<1> DEFINE R == {p \in Nat \X Nat : p[1] < p[2]}
<1>1. IsWellFoundedOn(R, Nat)
  BY NatLessThanWellFounded, Zenon DEF OpToRel
<1>2. \A x, y \in Nat : <<y, x>> \notin R => y >= x
  OBVIOUS
<1> HIDE DEF R
<1>3. \E n \in S : \A y \in S : ~ (<<y, n>> \in R)
  BY <1>1, WFMin
<1> QED BY <1>2, <1>3

(* The loop of mid_key ends: past both keys there is room between the      *)
(* digit a is padded with and the last one.                                *)
LEMMA FirstGapExists ==
  ASSUME NEW a \in Keys, NEW b \in Keys
  PROVE  /\ FirstGap(a, b) \in 1..(Len(a) + Len(b) + 1)
         /\ DigitOfA(a, FirstGap(a, b)) + 1 < DigitOfB(b, FirstGap(a, b))
         /\ \A i \in 1..(FirstGap(a, b) - 1) : DigitOfA(a, i) + 1 >= DigitOfB(b, i)
<1> DEFINE last == Len(a) + Len(b) + 1
           Gap(n) == DigitOfA(a, n) + 1 < DigitOfB(b, n)
           Gaps == {n \in 1..last : Gap(n)}
<1>1. Len(a) \in Nat /\ Len(b) \in Nat
  BY DEF Keys
<1>2. Gap(last)
  BY <1>1, KeysAssumption DEF DigitOfA, DigitOfB, Top
<1>3. last \in Gaps /\ Gaps \subseteq Nat
  BY <1>1, <1>2
<1>4. \A i \in 1..last : DigitOfA(a, i) \in Nat /\ DigitOfB(b, i) \in Nat
  BY <1>1, KeysAssumption DEF DigitOfA, DigitOfB, Keys, Digits, Top
<1> HIDE DEF Gaps
<1>5. PICK n \in Gaps : \A y \in Gaps : y >= n
  BY <1>3, LeastElement
<1> USE DEF Gaps
<1>7. \A i \in 1..(n - 1) : DigitOfA(a, i) + 1 >= DigitOfB(b, i)
  <2> SUFFICES ASSUME NEW i \in 1..(n - 1) PROVE DigitOfA(a, i) + 1 >= DigitOfB(b, i)
    OBVIOUS
  <2>1. i \in 1..last /\ i \notin Gaps
    BY <1>1, <1>5
  <2>2. ~Gap(i)
    BY <2>1
  <2> QED BY <1>4, <2>1, <2>2
<1>8. n \in 1..last /\ Gap(n)
  OBVIOUS
<1> QED BY <1>7, <1>8 DEF FirstGap

(* The key mid_key makes agrees with a up to some place k, where it ends   *)
(* with a digit greater than a's and less than the one b has at the gap.   *)
LEMMA MidKeyDigits ==
  ASSUME NEW a \in Keys, NEW b \in Keys, b # NoKey
  PROVE  \E k \in 1..(Len(a) + 1) :
           /\ MidKey(a, b) \in Keys
           /\ Len(MidKey(a, b)) = k
           /\ \A i \in 1..(k - 1) : MidKey(a, b)[i] = a[i]
           /\ k <= Len(a) => a[k] < MidKey(a, b)[k] /\ k = FirstGap(a, b)
           /\ k = Len(a) + 1 => FirstGap(a, b) >= k
           /\ MidKey(a, b)[k] < DigitOfB(b, FirstGap(a, b))
<1> DEFINE n == FirstGap(a, b)
           x == (DigitOfA(a, n) + DigitOfB(b, n)) \div 2
<1>1. /\ n \in 1..(Len(a) + Len(b) + 1)
      /\ DigitOfA(a, n) + 1 < DigitOfB(b, n)
  BY FirstGapExists
<1> HIDE DEF n
<1>2. Len(a) \in Nat /\ Len(b) \in Nat
  BY DEF Keys
<1>3. DigitOfA(a, n) \in Digits /\ DigitOfB(b, n) \in Digits
  BY <1>1, <1>2, KeysAssumption DEF DigitOfA, DigitOfB, Keys, Digits, Top
<1>4. x \in Digits /\ DigitOfA(a, n) < x /\ x < DigitOfB(b, n)
  BY <1>1, <1>3, KeysAssumption DEF Digits, Top
<1>5. MidKey(a, b) = Append(IF n <= Len(a) THEN SubSeq(a, 1, n - 1) ELSE a, x)
  BY DEF MidKey, n
<1> HIDE DEF x
<1>6. CASE n <= Len(a)
  <2>1. n - 1 \in 0..Len(a)
    BY <1>1, <1>2, <1>6
  <2>2. MidKey(a, b) = Append(SubSeq(a, 1, n - 1), x)
    BY <1>5, <1>6
  <2>3. /\ MidKey(a, b) \in Keys
        /\ Len(MidKey(a, b)) = n
        /\ \A i \in 1..(n - 1) : MidKey(a, b)[i] = a[i]
        /\ MidKey(a, b)[n] = x
    <3> DEFINE p == SubSeq(a, 1, n - 1)
    <3>1. p \in Keys /\ Len(p) = n - 1 /\ \A i \in 1..(n - 1) : p[i] = a[i]
      BY <2>1, Prefix
    <3> HIDE DEF p
    <3>2. /\ Append(p, x) \in Keys
          /\ Len(Append(p, x)) = Len(p) + 1
          /\ \A i \in 1..Len(p) : Append(p, x)[i] = p[i]
          /\ Append(p, x)[Len(p) + 1] = x
      BY <1>4, <3>1, AppendDigit
    <3>3. MidKey(a, b) = Append(p, x) /\ n - 1 + 1 = n
      BY <1>1, <2>2 DEF p
    <3> QED BY <3>1, <3>2, <3>3
  <2>4. DigitOfA(a, n) = a[n]
    BY <1>6 DEF DigitOfA
  <2> QED BY <1>1, <1>2, <1>4, <1>6, <2>3, <2>4 DEF n
<1>7. CASE n > Len(a)
  <2>1. MidKey(a, b) = Append(a, x)
    BY <1>1, <1>2, <1>5, <1>7
  <2>2. /\ MidKey(a, b) \in Keys
        /\ Len(MidKey(a, b)) = Len(a) + 1
        /\ \A i \in 1..Len(a) : MidKey(a, b)[i] = a[i]
        /\ MidKey(a, b)[Len(a) + 1] = x
    BY <1>4, <2>1, AppendDigit
  <2> QED BY <1>1, <1>2, <1>4, <1>7, <2>2 DEF n
<1> QED BY <1>1, <1>2, <1>6, <1>7

(* mid_key gives a key that comes after its left neighbour in the order of *)
(* the codes, whatever the right one is.                                   *)
THEOREM MidKeyComesAfter ==
  ASSUME NEW a \in Keys, NEW b \in Keys
  PROVE  MidKey(a, b) \in Keys /\ Below(a, MidKey(a, b))
<1>1. CASE b = NoKey
  <2>1. Pad \in Digits /\ Len(a) \in Nat
    BY KeysAssumption DEF Digits, Top, Keys
  <2>2. Below(a, Append(a, Pad))
    BY <2>1, AppendedComesAfter
  <2> QED BY <1>1, <2>1, <2>2, AppendDigit DEF MidKey
<1>2. CASE b # NoKey
  <2>1. PICK k \in 1..(Len(a) + 1) :
           /\ MidKey(a, b) \in Keys
           /\ Len(MidKey(a, b)) = k
           /\ \A i \in 1..(k - 1) : MidKey(a, b)[i] = a[i]
           /\ k <= Len(a) => a[k] < MidKey(a, b)[k]
    BY <1>2, MidKeyDigits
  <2> QED BY <2>1, GreaterAt DEF Keys
<1> QED BY <1>1, <1>2

(* It comes before its right neighbour as well when the two neighbours     *)
(* differ in a digit that both have ...                                    *)
THEOREM MidKeyComesBefore ==
  ASSUME NEW a \in Keys, NEW b \in Keys, Below(a, b),
         \E i \in 1..Len(a) : i <= Len(b) /\ a[i] # b[i]
  PROVE  Below(MidKey(a, b), b)
<1>1. Len(a) \in Nat /\ Len(b) \in Nat
  BY DEF Keys
<1>2. PICK d \in 1..Len(b) :
        /\ \A i \in 1..(d - 1) : i <= Len(a) /\ a[i] = b[i]
        /\ d <= Len(a) => a[d] < b[d]
  BY DEF Below
<1>3. d <= Len(a)
  <2>1. PICK i \in 1..Len(a) : i <= Len(b) /\ a[i] # b[i]
    OBVIOUS
  <2> QED BY <1>1, <1>2, <2>1
<1>4. b # NoKey
  BY <1>1, <1>2 DEF NoKey
<1>5. \A i \in 1..(d - 1) : ~ (DigitOfA(a, i) + 1 < DigitOfB(b, i))
  <2> SUFFICES ASSUME NEW i \in 1..(d - 1) PROVE ~ (DigitOfA(a, i) + 1 < DigitOfB(b, i))
    OBVIOUS
  <2>1. i <= Len(a) /\ i <= Len(b) /\ a[i] = b[i] /\ i \in 1..Len(a)
    BY <1>1, <1>2
  <2>2. a[i] \in Nat
    BY <2>1, KeysAssumption DEF Keys, Digits, Top
  <2> QED BY <2>1, <2>2 DEF DigitOfA, DigitOfB
<1>6. FirstGap(a, b) \in Nat /\ FirstGap(a, b) >= d
  BY <1>1, <1>2, <1>5, FirstGapExists
<1>7. PICK k \in 1..(Len(a) + 1) :
         /\ MidKey(a, b) \in Keys
         /\ Len(MidKey(a, b)) = k
         /\ \A i \in 1..(k - 1) : MidKey(a, b)[i] = a[i]
         /\ k <= Len(a) => k = FirstGap(a, b)
         /\ MidKey(a, b)[k] < DigitOfB(b, FirstGap(a, b))
  BY <1>4, MidKeyDigits
<1>8. CASE k = d
  <2>1. MidKey(a, b)[d] < b[d]
    BY <1>3, <1>7, <1>8 DEF DigitOfB
  <2> QED BY <1>1, <1>2, <1>7, <1>8, <2>1 DEF Below
<1>9. CASE k > d
  <2>1. \A i \in 1..(d - 1) : MidKey(a, b)[i] = b[i] /\ i <= Len(MidKey(a, b))
    BY <1>1, <1>2, <1>7, <1>9
  <2>2. MidKey(a, b)[d] < b[d]
    BY <1>1, <1>2, <1>3, <1>7, <1>9
  <2> QED BY <1>2, <2>1, <2>2 DEF Below
<1> QED BY <1>1, <1>3, <1>6, <1>7, <1>8, <1>9

(* ... and not always when one continues the other: against the docstring  *)
(* of mid_key, "a key strictly between", the key for a place before a key  *)
(* may come after it, in the order of the codes and also as a word         *)
(* (mid_key(None, "A") is "j").                                            *)
THEOREM MidKeyMissesTheGap ==
  \E a, b \in Keys :
    /\ Below(a, b) /\ Less(TRUE, a, b)
    /\ Below(b, MidKey(a, b)) /\ Less(TRUE, b, MidKey(a, b))
<1> DEFINE b == <<0>>
           x == (Pad + Top) \div 2
<1>1. /\ NoKey \in Keys /\ Len(NoKey) = 0
      /\ b \in Keys /\ b # NoKey /\ Len(b) = 1 /\ b[1] = 0
      /\ x \in Digits /\ 0 < x /\ Pad + 1 < Top
  BY KeysAssumption DEF NoKey, Keys, Digits, Top
<1>2. /\ Weight(0) = 0
      /\ Weight(x) \in Nat
  BY <1>1, KeysAssumption DEF Weight, Small, Digits, Top
<1> HIDE DEF b, x
<1>3. /\ DigitOfA(NoKey, 1) = Pad /\ DigitOfA(NoKey, 2) = Pad
      /\ DigitOfB(b, 1) = 0 /\ DigitOfB(b, 2) = Top
  BY <1>1 DEF DigitOfA, DigitOfB
<1>4. FirstGap(NoKey, b) = 2
  <2>1. FirstGap(NoKey, b) \in 1..2
    <3>1. FirstGap(NoKey, b) \in 1..(Len(NoKey) + Len(b) + 1)
      BY <1>1, FirstGapExists
    <3> QED BY <1>1, <3>1
  <2>2. FirstGap(NoKey, b) # 1
    BY <1>1, <1>3, FirstGapExists, KeysAssumption
  <2> QED BY <2>1, <2>2
<1>5. MidKey(NoKey, b) = Append(NoKey, x)
  BY <1>1, <1>3, <1>4 DEF MidKey, x
<1>6. Append(NoKey, x) = <<x>> /\ Len(<<x>>) = 1 /\ <<x>>[1] = x
  BY <1>1 DEF NoKey
<1>7. Below(NoKey, b) /\ Below(b, <<x>>)
  BY <1>1, <1>6 DEF Below
<1>8. /\ Weights(NoKey) = NoKey /\ Len(Weights(NoKey)) = 0
      /\ Weights(b) = <<0>> /\ Weights(<<x>>) = <<Weight(x)>>
  BY <1>1, <1>2, <1>6 DEF Weights, NoKey, b
<1>9. Below(Weights(NoKey), Weights(b))
  BY <1>8 DEF Below
<1>10. Below(Weights(b), Weights(<<x>>)) \/ Weights(b) = Weights(<<x>>)
  <2>1. CASE Weight(x) = 0
    BY <1>8, <2>1
  <2>2. CASE 0 < Weight(x)
    BY <1>8, <2>2 DEF Below
  <2> QED BY <1>2, <2>1, <2>2
<1>11. Less(TRUE, NoKey, b) /\ Less(TRUE, b, <<x>>)
  BY <1>7, <1>9, <1>10 DEF Less
<1> QED BY <1>1, <1>5, <1>6, <1>7, <1>11

-----------------------------------------------------------------------------
(* The details panel.                                                      *)

Written == [text : Nat, form : {"tab", "mantle"}]
Saves == [at : {"none", "sent", "answered", "failed"}, text : Nat, doc : Written]

EditorTypes ==
  /\ text \in Nat /\ lastValue \in Nat
  /\ known \in Written /\ stored \in Written
  /\ save \in Saves
  /\ echoes \in Seq(Written)

(* The panel shows what it takes for saved unless the timer runs, it takes *)
(* for saved what the tab's copy says, and between saves the copy says     *)
(* what is stored, once the last event was heard: that one is of the last  *)
(* write.                                                                  *)
PanelInv(show, val, copy, run, call, kept, heard, off) ==
  /\ call.at = "answered" => call.doc.text = call.text
  /\ heard # <<>> => heard[Len(heard)] = kept
  /\ off \/ (/\ val = copy.text
             /\ run \/ show = val
             /\ call = NoSave /\ heard = <<>> => copy.text = kept.text)

EditorInv ==
  /\ setup \in Setups
  /\ EditorTypes
  /\ PanelInv(text, lastValue, known, timer, save, stored, echoes, astray)

LEMMA ContextType ==
  ASSUME NEW t \in Nat, NEW form \in {"tab", "mantle"}
  PROVE  Context(t, form) \in Written /\ Context(t, form).text = t
  BY DEF Context, Written

LEMMA NoSaveType == NoSave \in Saves /\ NoSave.at = "none"
  BY ContextType DEF NoSave, Saves

LEMMA SyncedTypes ==
  ASSUME EditorTypes, NEW c \in Written, NEW saved \in Nat, Synced(c, saved)
  PROVE  text' \in Nat /\ lastValue' \in Nat /\ known' \in Written
  BY DEF Synced, EditorTypes, Written

(* Storing keeps the last event that of the last write.                    *)
LEMMA StoresTypes ==
  ASSUME EditorTypes, NEW t \in Nat, NEW reformats, Stores(t, reformats),
         echoes # <<>> => echoes[Len(echoes)] = stored
  PROVE  /\ stored' \in Written /\ stored'.text = t
         /\ echoes' \in Seq(Written)
         /\ echoes' # <<>> => echoes'[Len(echoes')] = stored'
         /\ echoes' = <<>> => echoes = <<>> /\ stored' = stored
<1>1. stored' \in Written /\ stored'.text = t
  BY ContextType DEF Stores
<1>2. CASE stored' = stored
  BY <1>1, <1>2 DEF Stores, EditorTypes
<1>3. CASE stored' # stored
  BY <1>1, <1>3 DEF Stores, EditorTypes
<1> QED BY <1>1, <1>2, <1>3

LEMMA EditorStepKeepsEditorInv ==
  ASSUME EditorInv, EditorStep
  PROVE  EditorInv'
<1>t. EditorTypes /\ setup \in Setups /\ setup.keys \in Nat
  BY UploadAssumption DEF EditorInv
<1>p. PanelInv(text, lastValue, known, timer, save, stored, echoes, astray)
  BY DEF EditorInv
<1> SUFFICES EditorTypes' /\ PanelInv(text', lastValue', known', timer', save', stored', echoes', astray')
  BY <1>t DEF EditorStep, EditorInv
<1>1. CASE Type(setup.keys)
  <2>1. PICK t \in 0..setup.keys : text' = t /\ timer' = (t # lastValue)
    BY <1>1 DEF Type
  <2>2. UNCHANGED <<known, lastValue, save, stored, echoes, astray>>
    BY <1>1 DEF Type
  <2>3. EditorTypes'
    BY <1>t, <2>1, <2>2 DEF EditorTypes
  <2>4. timer' \/ text' = lastValue'
    BY <2>1, <2>2
  <2> QED BY <1>p, <2>2, <2>3, <2>4 DEF PanelInv
<1>2. CASE Fire
  <2>1. CASE save # NoSave
    BY <1>2, <1>t, <1>p, <2>1 DEF Fire, EditorTypes, PanelInv
  <2>2. CASE save = NoSave
    <3>1. /\ save' \in Saves /\ save'.at = "sent" /\ save' # NoSave
          /\ known' \in Written /\ known'.text = text
      BY <1>2, <1>t, <2>2, NoSaveType, ContextType DEF Fire, EditorTypes, Saves
    <3>2. lastValue' \in {lastValue, text} /\ (known' # known => lastValue' = text)
      BY <1>2, <2>2 DEF Fire
    <3>3. ~astray' => lastValue = known.text
      BY <1>2, <2>2 DEF Fire
    <3>4. UNCHANGED <<text, stored, echoes>>
      BY <1>2, <2>2 DEF Fire
    <3> QED BY <1>t, <1>p, <3>1, <3>2, <3>3, <3>4 DEF EditorTypes, PanelInv
  <2> QED BY <2>1, <2>2
<1>3. CASE Saved
  <2>1. save \in Saves /\ save.doc \in Written /\ save.text \in Nat /\ save.doc.text = save.text
    BY <1>3, <1>t, <1>p DEF Saved, EditorTypes, PanelInv, Saves
  <2>2. text' \in Nat /\ lastValue' \in Nat /\ known' \in Written
    BY <1>3, <1>t, <2>1, SyncedTypes DEF Saved
  <2>3. EditorTypes'
    BY <1>3, <1>t, <2>2, NoSaveType DEF Saved, EditorTypes
  <2>4. /\ save' = NoSave /\ UNCHANGED <<stored, echoes>> /\ known' = save.doc
        /\ ~astray' => ~astray /\ (save.doc = stored \/ echoes # <<>>)
        /\ \/ save.doc = known /\ lastValue' = save.text /\ UNCHANGED <<text, timer>>
           \/ lastValue' = save.doc.text /\ text' = save.doc.text
    BY <1>3 DEF Saved, Synced
  <2> QED BY <1>p, <2>1, <2>3, <2>4, NoSaveType DEF PanelInv
<1>4. CASE SaveFailed \/ (Trouble /\ SaveForgotten)
  <2> DEFINE c == IF SaveFailed THEN stored ELSE known
  <2>1. save \in Saves /\ save.text \in Nat /\ c \in Written
    BY <1>t DEF EditorTypes, Saves
  <2>2. /\ save' = NoSave /\ UNCHANGED <<stored, echoes>> /\ Synced(c, save.text)
        /\ ~astray' => c = stored /\ ~astray /\ ~Misled
    BY <1>4 DEF SaveFailed, SaveForgotten
  <2>3. EditorTypes'
    BY <1>t, <2>1, <2>2, SyncedTypes, NoSaveType DEF EditorTypes
  <2>4. \/ lastValue' = save.text /\ UNCHANGED <<text, timer, known>>
        \/ lastValue' = c.text /\ text' = c.text
    BY <2>2 DEF Synced
  <2>5. known' = c /\ (~astray' => lastValue' = known'.text)
    BY <2>2 DEF Synced, Misled
  <2> HIDE DEF c
  <2> QED BY <1>p, <2>2, <2>3, <2>4, <2>5, NoSaveType DEF PanelInv
<1>5. CASE HearEdit
  <2>1. /\ Head(echoes) \in Written /\ echoes # <<>> /\ echoes' = Tail(echoes)
        /\ echoes' \in Seq(Written) /\ UNCHANGED <<save, stored, astray>>
    BY <1>5, <1>t DEF HearEdit, EditorTypes
  <2>2. EditorTypes'
    BY <1>5, <1>t, <2>1, SyncedTypes DEF HearEdit, Sync, EditorTypes
  <2>3. echoes' # <<>> => echoes'[Len(echoes')] = stored
    BY <1>t, <1>p, <2>1 DEF EditorTypes, PanelInv
  <2>4. echoes' = <<>> => Head(echoes) = stored
    <3>1. echoes \in Seq(Written) /\ echoes[Len(echoes)] = stored
      BY <1>t, <1>p, <2>1 DEF EditorTypes, PanelInv
    <3>2. Len(echoes') = Len(echoes) - 1
      BY <2>1, <3>1
    <3>3. echoes' = <<>> => Len(echoes) = 1
      <4>1. Len(echoes) \in Nat /\ Len(<<>>) = 0
        BY <3>1
      <4> QED BY <3>2, <4>1
    <3> QED BY <2>1, <3>1, <3>3
  <2>5. /\ known' = Head(echoes)
        /\ \/ known' = known /\ UNCHANGED <<lastValue, text, timer>>
           \/ lastValue' = known'.text /\ text' = known'.text
    BY <1>5 DEF HearEdit, Sync, Synced
  <2> QED BY <1>p, <2>1, <2>2, <2>3, <2>4, <2>5 DEF PanelInv
<1>6. CASE PatchEdit(setup.reformats)
  <2>1. save \in Saves /\ save.at = "sent" /\ save.text \in Nat /\ Stores(save.text, setup.reformats)
    BY <1>6, <1>t DEF PatchEdit, EditorTypes, Saves
  <2>2. /\ stored' \in Written /\ stored'.text = save.text /\ echoes' \in Seq(Written)
        /\ echoes' # <<>> => echoes'[Len(echoes')] = stored'
    BY <1>t, <1>p, <2>1, StoresTypes DEF PanelInv
  <2>3. /\ save' \in Saves /\ save'.at = "answered" /\ save'.doc = stored' /\ save'.text = save.text
    BY <1>6, <2>1, <2>2 DEF PatchEdit, Saves
  <2>4. UNCHANGED <<text, known, lastValue, timer, astray>>
    BY <1>6 DEF PatchEdit, panelVars
  <2> QED BY <1>t, <1>p, <2>2, <2>3, <2>4, NoSaveType DEF EditorTypes, PanelInv
<1>7. CASE PatchEditFails(setup.reformats)
  <2>1. save \in Saves /\ save.text \in Nat
    BY <1>t DEF EditorTypes, Saves
  <2>2. /\ stored' \in Written /\ echoes' \in Seq(Written)
        /\ echoes' # <<>> => echoes'[Len(echoes')] = stored'
    <3>1. CASE Stores(save.text, setup.reformats)
      BY <1>t, <1>p, <2>1, <3>1, StoresTypes DEF PanelInv
    <3> QED BY <1>7, <1>t, <1>p, <3>1 DEF PatchEditFails, EditorTypes, PanelInv
  <2>3. save' \in Saves /\ save'.at = "failed"
    BY <1>7, <2>1 DEF PatchEditFails, Saves
  <2>4. UNCHANGED <<text, known, lastValue, timer, astray>>
    BY <1>7 DEF PatchEditFails, panelVars
  <2> QED BY <1>t, <1>p, <2>2, <2>3, <2>4, NoSaveType DEF EditorTypes, PanelInv
<1>8. CASE OthersEdit(setup.keys, setup.reformats)
  <2>1. PICK t \in Nat : Stores(t, setup.reformats)
    BY <1>8, <1>t DEF OthersEdit
  <2>2. /\ stored' \in Written /\ echoes' \in Seq(Written)
        /\ echoes' # <<>> => echoes'[Len(echoes')] = stored'
        /\ echoes' = <<>> => echoes = <<>> /\ stored' = stored
    BY <1>t, <1>p, <2>1, StoresTypes DEF PanelInv
  <2>3. UNCHANGED <<text, known, lastValue, timer, save, astray>>
    BY <1>8 DEF OthersEdit, panelVars
  <2> QED BY <1>t, <1>p, <2>2, <2>3 DEF EditorTypes, PanelInv
<1> QED BY <1>1, <1>2, <1>3, <1>4, <1>5, <1>6, <1>7, <1>8 DEF EditorStep

(* The list is fetched, and with it the context that is stored.            *)
LEMMA FetchKeepsEditorInv ==
  ASSUME EditorInv, FetchList
  PROVE  EditorInv'
<1>t. EditorTypes /\ setup \in Setups
  BY DEF EditorInv
<1>p. PanelInv(text, lastValue, known, timer, save, stored, echoes, astray)
  BY DEF EditorInv
<1>1. Sync(stored) /\ UNCHANGED <<setup, save, stored, echoes, astray>>
  BY DEF FetchList
<1>2. EditorTypes'
  BY <1>1, <1>t, SyncedTypes DEF Sync, EditorTypes
<1>3. /\ known' = stored
      /\ \/ known' = known /\ UNCHANGED <<lastValue, text, timer>>
         \/ lastValue' = known'.text /\ text' = known'.text
  BY <1>1 DEF Sync, Synced
<1>4. PanelInv(text', lastValue', known', timer', save', stored', echoes', astray')
  BY <1>p, <1>1, <1>3 DEF PanelInv
<1> QED BY <1>t, <1>1, <1>2, <1>4 DEF EditorInv

LEMMA NextKeepsEditorInv ==
  ASSUME EditorInv, [Next]_vars
  PROVE  EditorInv'
<1> USE DEF storeVars, wireVars, tabVars
<1>1. CASE UNCHANGED <<setup, editorVars>>
  BY <1>1 DEF EditorInv, EditorTypes, editorVars, panelVars
<1>2. CASE Drag \/ OthersChange \/ ListStep
  BY <1>1, <1>2 DEF Drag, OthersChange, ListStep, uploadVars
<1>3. ASSUME NEW g \in Files, AnnounceAt(g) \/ AddExisting(g) \/ DeleteArtifact(g) PROVE EditorInv'
  BY <1>1, <1>3 DEF AnnounceAt, Announce, AddExisting, Announced, DeleteArtifact, DeleteUpload
<1>4. ASSUME NEW g \in Files, NEW i \in DOMAIN calls[g], MakeArtifact(g, i) PROVE EditorInv'
  BY <1>1, <1>4 DEF MakeArtifact, InitiateUpload
<1>5. ASSUME NEW g \in Files, UploadStep(g) PROVE EditorInv'
  <2>1. UNCHANGED setup
    BY <1>5 DEF UploadStep, BeginSending, Progress, Sent, SendFails, Joined, Completed, Refused, GaveUp,
                Edit, HearUpdate, ContentUrl, Lost, PatchContext, ReportStatus, CompleteUpload
  <2> QED BY <1>1, <1>5, <2>1 DEF UploadStep
<1>6. CASE UNCHANGED vars
  BY <1>1, <1>6 DEF vars, uploadVars
<1> QED BY <1>2, <1>3, <1>4, <1>5, <1>6, EditorStepKeepsEditorInv, FetchKeepsEditorInv DEF Next

(* When nothing is on its way any more, the details panel shows what is    *)
(* stored, unless one of the things happened that lead it astray.          *)
THEOREM PanelShownIsStored == Spec => []ShownIsStored
<1>1. Init => EditorInv
  <2> SUFFICES ASSUME Init PROVE EditorInv
    OBVIOUS
  <2>1. /\ setup \in Setups
        /\ text = 0 /\ known = Context(0, "tab") /\ lastValue = 0 /\ save = NoSave
        /\ stored = Context(0, "tab") /\ echoes = <<>>
    BY DEF Init, UploadInit, EditorInit
  <2> QED BY <2>1, ContextType, NoSaveType DEF EditorInv, EditorTypes, PanelInv
<1>2. EditorInv => ShownIsStored
  BY DEF EditorInv, PanelInv, ShownIsStored
<1> QED BY <1>1, <1>2, NextKeepsEditorInv, PTL DEF Spec

-----------------------------------------------------------------------------
(* Uploads.                                                                *)

Stages == {"idle", "initiating", "queued", "sending", "joining", "completing",
           "failing", "failed", "done", "abandoned"}
Replies == [ok : {"none", "no", "yes"}, doc : Contexts \cup {NoDoc}]

IsSeq(cs) == \E S : cs \in Seq(S)

UploadTypes ==
  /\ setup \in Setups
  /\ ctx \in [Files -> Contexts \cup {NoDoc}] /\ cache \in [Files -> Contexts \cup {NoDoc}]
  /\ task \in [Files -> Stages]
  /\ answer \in [Files -> Replies]
  /\ mail \in [Files -> Seq(Contexts)]
  /\ calls = [f \in Files |-> calls[f]] /\ \A f \in Files : IsSeq(calls[f])

NoneAwaited(cs) == \A i \in DOMAIN cs : ~Awaited(cs[i])
Served(f) == f \in edge \cup durable
Settled(d) == d.status = "none" /\ d.processing = "ready"

(* One request of a file is awaited at a time, and none while the tab does *)
(* something else than wait for it.                                        *)
Protocol(f) ==
  /\ \A i, j \in DOMAIN calls[f] : Awaited(calls[f][i]) /\ Awaited(calls[f][j]) => i = j
  /\ answer[f].ok # "none" => NoneAwaited(calls[f])
  /\ task[f] \in {"idle", "queued", "sending", "failed", "done"} =>
       NoneAwaited(calls[f]) /\ answer[f].ok = "none"
  /\ task[f] \in {"joining", "completing"} =>
       /\ \A i \in DOMAIN calls[f] : Awaited(calls[f][i]) => calls[f][i].op = "complete"
       /\ answer[f].ok = "yes" => Settled(answer[f].doc)

(* Before a file is announced, and until Mantle has made its artifact,     *)
(* nothing is known or said of it.                                         *)
Blank(f) ==
  /\ ctx[f] = NoDoc /\ cache[f] = NoDoc /\ mail[f] = <<>> /\ answer[f].ok = "none"
  /\ \A i \in DOMAIN calls[f] : calls[f][i].op # "patch"

Beginning(f) ==
  /\ task[f] = "idle" => Blank(f) /\ calls[f] = <<>>
  /\ \A i \in DOMAIN calls[f] : calls[f][i].op = "initiate" => Blank(f)

(* A document of the artifact, wherever it is on its way, speaks of        *)
(* objects that are there.                                                 *)
True(f, d) ==
  /\ d.status = "none" => Served(f)
  /\ d.synced => f \in durable

Documents(f) ==
  /\ \A i \in DOMAIN calls[f] : calls[f][i].op = "patch" => calls[f][i].doc \in Contexts
  /\ answer[f].ok = "yes" => answer[f].doc \in Contexts
  /\ ctx[f] # NoDoc =>
       /\ True(f, ctx[f])
       /\ cache[f] # NoDoc => True(f, cache[f])
       /\ \A i \in DOMAIN mail[f] : True(f, mail[f][i])
       /\ \A i \in DOMAIN calls[f] : calls[f][i].op = "patch" => True(f, calls[f][i].doc)
       /\ answer[f].ok = "yes" => True(f, answer[f].doc)
       /\ task[f] = "done" => Served(f)

(* Requests that arrive in the order they were sent: when the last one is  *)
(* answered none is left, and what comes after it says nothing else.       *)
InSequence(f) ==
  ~setup.reordered /\ ~setup.edits =>
    /\ task[f] \in {"joining", "completing"} =>
         /\ \A i \in DOMAIN calls[f] : Awaited(calls[f][i]) => i = Len(calls[f])
         /\ answer[f].ok # "none" => calls[f] = <<>>
         /\ answer[f].ok = "yes" /\ ctx[f] # NoDoc => Settled(ctx[f])
    /\ task[f] = "done" =>
         /\ \A i \in DOMAIN calls[f] : calls[f][i].op = "patch" /\ Settled(calls[f][i].doc)
         /\ ctx[f] # NoDoc => Settled(ctx[f])

FileInv(f) == Protocol(f) /\ Beginning(f) /\ Documents(f) /\ InSequence(f)

UploadInv == UploadTypes /\ \A f \in Files : FileInv(f)

LEMMA OneMore ==
  ASSUME NEW cs, IsSeq(cs), NEW c
  PROVE  /\ IsSeq(cs \o <<c>>)
         /\ Len(cs) \in Nat /\ DOMAIN cs = 1..Len(cs)
         /\ Len(cs \o <<c>>) = Len(cs) + 1 /\ DOMAIN (cs \o <<c>>) = 1..(Len(cs) + 1)
         /\ \A i \in 1..Len(cs) : (cs \o <<c>>)[i] = cs[i]
         /\ (cs \o <<c>>)[Len(cs) + 1] = c
<1>1. PICK S : cs \in Seq(S)
  BY DEF IsSeq
<1>2. cs \in Seq(S \cup {c}) /\ <<c>> \in Seq(S \cup {c})
  BY <1>1
<1>3. cs \o <<c>> \in Seq(S \cup {c})
  BY <1>2
<1> QED BY <1>1, <1>2, <1>3 DEF IsSeq

LEMMA TwoMore ==
  ASSUME NEW cs, IsSeq(cs), NEW c, NEW d
  PROVE  /\ IsSeq(cs \o <<c, d>>)
         /\ Len(cs) \in Nat /\ DOMAIN cs = 1..Len(cs)
         /\ Len(cs \o <<c, d>>) = Len(cs) + 2 /\ DOMAIN (cs \o <<c, d>>) = 1..(Len(cs) + 2)
         /\ \A i \in 1..Len(cs) : (cs \o <<c, d>>)[i] = cs[i]
         /\ (cs \o <<c, d>>)[Len(cs) + 1] = c /\ (cs \o <<c, d>>)[Len(cs) + 2] = d
<1>1. PICK S : cs \in Seq(S)
  BY DEF IsSeq
<1>2. cs \in Seq(S \cup {c, d}) /\ <<c, d>> \in Seq(S \cup {c, d})
  BY <1>1
<1>3. cs \o <<c, d>> \in Seq(S \cup {c, d})
  BY <1>2
<1> QED BY <1>1, <1>2, <1>3 DEF IsSeq

LEMMA OneLess ==
  ASSUME NEW cs, IsSeq(cs), NEW i \in DOMAIN cs
  PROVE  LET rest == SubSeq(cs, 1, i - 1) \o SubSeq(cs, i + 1, Len(cs))
         IN  /\ IsSeq(rest)
             /\ Len(cs) \in Nat /\ DOMAIN cs = 1..Len(cs) /\ i \in 1..Len(cs)
             /\ Len(rest) = Len(cs) - 1 /\ DOMAIN rest = 1..(Len(cs) - 1)
             /\ \A k \in 1..(Len(cs) - 1) : rest[k] = cs[IF k < i THEN k ELSE k + 1]
<1> DEFINE a == SubSeq(cs, 1, i - 1)
           b == SubSeq(cs, i + 1, Len(cs))
<1>1. PICK S : cs \in Seq(S)
  BY DEF IsSeq
<1>2. Len(cs) \in Nat /\ DOMAIN cs = 1..Len(cs) /\ i \in 1..Len(cs)
  BY <1>1
<1>3. a \in Seq(S) /\ Len(a) = i - 1 /\ \A k \in 1..(i - 1) : a[k] = cs[k]
  BY <1>1, <1>2
<1>4. b \in Seq(S) /\ Len(b) = Len(cs) - i /\ \A k \in 1..(Len(cs) - i) : b[k] = cs[k + i]
  BY <1>1, <1>2
<1> HIDE DEF a, b
<1>5. a \o b \in Seq(S) /\ Len(a \o b) = Len(cs) - 1 /\ DOMAIN (a \o b) = 1..(Len(cs) - 1)
  <2>1. a \in Seq(S) /\ b \in Seq(S) /\ Len(a) + Len(b) = Len(cs) - 1
    BY <1>2, <1>3, <1>4
  <2>2. a \o b \in Seq(S) /\ Len(a \o b) = Len(cs) - 1
    BY <2>1, ConcatProperties
  <2> QED BY <2>2
<1>6. ASSUME NEW k \in 1..(Len(cs) - 1)
      PROVE  (a \o b)[k] = cs[IF k < i THEN k ELSE k + 1]
  <2>1. a \in Seq(S) /\ b \in Seq(S) /\ k \in 1..(Len(a) + Len(b))
    BY <1>2, <1>3, <1>4
  <2>2. (a \o b)[k] = IF k <= Len(a) THEN a[k] ELSE b[k - Len(a)]
    BY <2>1, ConcatProperties
  <2>3. (a \o b)[k] = IF k < i THEN a[k] ELSE b[k - (i - 1)]
    BY <1>2, <1>3, <2>2
  <2>4. CASE k < i
    BY <1>2, <1>3, <2>3, <2>4
  <2>5. CASE ~(k < i)
    <3>1. k - (i - 1) \in 1..(Len(cs) - i) /\ k - (i - 1) + i = k + 1
      BY <1>2, <2>5
    <3>2. b[k - (i - 1)] = cs[k + 1]
      BY <1>4, <3>1
    <3> QED BY <2>3, <2>5, <3>2
  <2> QED BY <2>4, <2>5
<1> QED BY <1>2, <1>5, <1>6 DEF IsSeq, a, b

(* What a step that concerns another file leaves of this one.              *)
Untouched(f) ==
  /\ UNCHANGED <<ctx[f], cache[f], mail[f], answer[f], calls[f]>>
  /\ task'[f] \in {task[f], "abandoned"}
  /\ (f \in edge' <=> f \in edge) /\ (f \in durable' <=> f \in durable)

Concerns(f) == UploadTypes' /\ UNCHANGED setup /\ FileInv(f)' /\ \A g \in Files \ {f} : Untouched(g)

LEMMA UntouchedKeepsFileInv ==
  ASSUME UNCHANGED setup, NEW f, FileInv(f), Untouched(f)
  PROVE  FileInv(f)'
<1> USE DEF Untouched, FileInv
<1>1. Protocol(f)'
  BY DEF Protocol
<1>2. Beginning(f)'
  BY DEF Beginning, Blank
<1>3. Documents(f)'
  BY DEF Documents, True, Served
<1>4. InSequence(f)'
  BY DEF InSequence
<1> QED BY <1>1, <1>2, <1>3, <1>4

LEMMA ConcernsKeepsUploadInv ==
  ASSUME UploadInv, NEW f \in Files, Concerns(f)
  PROVE  UploadInv'
  BY UntouchedKeepsFileInv DEF UploadInv, Concerns

(* What one more request, two more, and one less, make of those on their   *)
(* way.                                                                    *)
Gains(f, c) ==
  /\ calls' = [g \in Files |-> calls'[g]] /\ \A g \in Files : IsSeq(calls'[g])
  /\ \A g \in Files \ {f} : calls'[g] = calls[g]
  /\ Len(calls[f]) \in Nat /\ DOMAIN calls[f] = 1..Len(calls[f])
  /\ Len(calls'[f]) = Len(calls[f]) + 1 /\ DOMAIN calls'[f] = 1..(Len(calls[f]) + 1)
  /\ \A i \in 1..Len(calls[f]) : calls'[f][i] = calls[f][i]
  /\ calls'[f][Len(calls[f]) + 1] = c

GainsTwo(f, c, d) ==
  /\ calls' = [g \in Files |-> calls'[g]] /\ \A g \in Files : IsSeq(calls'[g])
  /\ \A g \in Files \ {f} : calls'[g] = calls[g]
  /\ Len(calls[f]) \in Nat /\ DOMAIN calls[f] = 1..Len(calls[f])
  /\ DOMAIN calls'[f] = 1..(Len(calls[f]) + 2)
  /\ \A i \in 1..Len(calls[f]) : calls'[f][i] = calls[f][i]
  /\ calls'[f][Len(calls[f]) + 1] = c /\ calls'[f][Len(calls[f]) + 2] = d

Loses(f, i) ==
  /\ calls' = [g \in Files |-> calls'[g]] /\ \A g \in Files : IsSeq(calls'[g])
  /\ \A g \in Files \ {f} : calls'[g] = calls[g]
  /\ Len(calls[f]) \in Nat /\ DOMAIN calls[f] = 1..Len(calls[f]) /\ i \in 1..Len(calls[f])
  /\ Len(calls'[f]) = Len(calls[f]) - 1 /\ DOMAIN calls'[f] = 1..(Len(calls[f]) - 1)
  /\ \A k \in 1..(Len(calls[f]) - 1) : calls'[f][k] = calls[f][IF k < i THEN k ELSE k + 1]
  /\ setup.reordered \/ i = 1

LEMMA SendOne ==
  ASSUME UploadTypes, NEW f \in Files, NEW c, Send(f, <<c>>)
  PROVE  Gains(f, c)
<1> DEFINE more == calls[f] \o <<c>>
<1>1. IsSeq(calls[f])
  BY DEF UploadTypes
<1>2. calls' = [g \in Files |-> IF g = f THEN more ELSE calls[g]]
  BY DEF Send, UploadTypes
<1>3. /\ IsSeq(more)
      /\ Len(calls[f]) \in Nat /\ DOMAIN calls[f] = 1..Len(calls[f])
      /\ Len(more) = Len(calls[f]) + 1 /\ DOMAIN more = 1..(Len(calls[f]) + 1)
      /\ \A i \in 1..Len(calls[f]) : more[i] = calls[f][i]
      /\ more[Len(calls[f]) + 1] = c
  BY <1>1, OneMore
<1> HIDE DEF more
<1>4. calls'[f] = more /\ \A g \in Files \ {f} : calls'[g] = calls[g]
  BY <1>2
<1>5. calls' = [g \in Files |-> calls'[g]]
  BY <1>2
<1>6. \A g \in Files : IsSeq(calls'[g])
  BY <1>3, <1>4 DEF UploadTypes
<1> QED BY <1>3, <1>4, <1>5, <1>6 DEF Gains

LEMMA SendTwo ==
  ASSUME UploadTypes, NEW f \in Files, NEW c, NEW d, Send(f, <<c, d>>)
  PROVE  GainsTwo(f, c, d)
<1> DEFINE more == calls[f] \o <<c, d>>
<1>1. IsSeq(calls[f])
  BY DEF UploadTypes
<1>2. calls' = [g \in Files |-> IF g = f THEN more ELSE calls[g]]
  BY DEF Send, UploadTypes
<1>3. /\ IsSeq(more)
      /\ Len(calls[f]) \in Nat /\ DOMAIN calls[f] = 1..Len(calls[f])
      /\ DOMAIN more = 1..(Len(calls[f]) + 2)
      /\ \A i \in 1..Len(calls[f]) : more[i] = calls[f][i]
      /\ more[Len(calls[f]) + 1] = c /\ more[Len(calls[f]) + 2] = d
  <2> DEFINE cs == calls[f]
  <2>1. IsSeq(cs)
    BY <1>1
  <2> HIDE DEF cs
  <2>2. /\ IsSeq(cs \o <<c, d>>)
        /\ Len(cs) \in Nat /\ DOMAIN cs = 1..Len(cs)
        /\ DOMAIN (cs \o <<c, d>>) = 1..(Len(cs) + 2)
        /\ \A i \in 1..Len(cs) : (cs \o <<c, d>>)[i] = cs[i]
        /\ (cs \o <<c, d>>)[Len(cs) + 1] = c /\ (cs \o <<c, d>>)[Len(cs) + 2] = d
    BY <2>1, TwoMore
  <2> QED BY <2>2 DEF cs
<1> HIDE DEF more
<1>4. calls'[f] = more /\ \A g \in Files \ {f} : calls'[g] = calls[g]
  BY <1>2
<1>5. calls' = [g \in Files |-> calls'[g]]
  BY <1>2
<1>6. \A g \in Files : IsSeq(calls'[g])
  BY <1>3, <1>4 DEF UploadTypes
<1> QED BY <1>3, <1>4, <1>5, <1>6 DEF GainsTwo

LEMMA ArriveOne ==
  ASSUME UploadTypes, NEW f \in Files, NEW i, Arrives(f, i)
  PROVE  Loses(f, i)
<1> DEFINE rest == SubSeq(calls[f], 1, i - 1) \o SubSeq(calls[f], i + 1, Len(calls[f]))
<1>1. IsSeq(calls[f]) /\ i \in DOMAIN calls[f]
  BY DEF UploadTypes, Arrives
<1>2. calls' = [g \in Files |-> IF g = f THEN rest ELSE calls[g]]
  BY DEF Arrives, UploadTypes
<1>3. /\ IsSeq(rest)
      /\ Len(calls[f]) \in Nat /\ DOMAIN calls[f] = 1..Len(calls[f]) /\ i \in 1..Len(calls[f])
      /\ Len(rest) = Len(calls[f]) - 1 /\ DOMAIN rest = 1..(Len(calls[f]) - 1)
      /\ \A k \in 1..(Len(calls[f]) - 1) : rest[k] = calls[f][IF k < i THEN k ELSE k + 1]
  BY <1>1, OneLess
<1> HIDE DEF rest
<1>4. calls'[f] = rest /\ \A g \in Files \ {f} : calls'[g] = calls[g]
  BY <1>2
<1>5. calls' = [g \in Files |-> calls'[g]]
  BY <1>2
<1>6. \A g \in Files : IsSeq(calls'[g])
  BY <1>3, <1>4 DEF UploadTypes
<1>7. setup.reordered \/ i = 1
  BY DEF Arrives
<1> QED BY <1>3, <1>4, <1>5, <1>6, <1>7 DEF Loses

-----------------------------------------------------------------------------
(* The tab.                                                                *)

LEMMA AnnounceConcerns ==
  ASSUME UploadInv, NEW f \in Files, NEW request, request.op = "initiate", Announce(f, request)
  PROVE  Concerns(f)
<1> USE DEF storeVars
<1>1. UploadTypes /\ FileInv(f)
  BY DEF UploadInv
<1>2. Gains(f, request)
  BY <1>1, SendOne DEF Announce
<1>3. task[f] = "idle" /\ task' = [task EXCEPT ![f] = "initiating"]
  BY DEF Announce, Goes
<1>4. UNCHANGED <<setup, ctx, edge, durable, cache, answer, mail>>
  BY DEF Announce
<1>5. UploadTypes'
  BY <1>1, <1>2, <1>3, <1>4 DEF UploadTypes, Stages, Gains
<1>6. \A g \in Files \ {f} : Untouched(g)
  BY <1>1, <1>2, <1>3, <1>4 DEF UploadTypes, Gains, Untouched
<1>7. /\ Blank(f) /\ calls[f] = <<>> /\ task'[f] = "initiating"
      /\ DOMAIN calls'[f] = {1} /\ calls'[f][1] = request
  BY <1>1, <1>2, <1>3 DEF FileInv, Beginning, Gains, UploadTypes
<1>8. FileInv(f)'
  BY <1>4, <1>7 DEF FileInv, Protocol, Beginning, Documents, InSequence, Blank
<1> QED BY <1>4, <1>5, <1>6, <1>8 DEF Concerns

LEMMA AnnouncedKeeps ==
  ASSUME UploadInv, NEW f \in Files, Announced(f)
  PROVE  Concerns(f)
<1> USE DEF storeVars
<1>1. UploadTypes /\ FileInv(f)
  BY DEF UploadInv
<1>2. /\ answer[f].ok # "none" /\ task[f] = "initiating"
      /\ answer' = [answer EXCEPT ![f] = NoAnswer]
      /\ UNCHANGED <<setup, ctx, edge, durable, calls, mail>>
  BY DEF Announced
<1>3. NoAnswer \in Replies /\ NoAnswer.ok = "none"
  BY DEF NoAnswer, Replies
<1>4. NoneAwaited(calls[f])
  BY <1>1, <1>2 DEF FileInv, Protocol
<1>5. \A i \in DOMAIN calls[f] : calls[f][i].op # "initiate"
  BY <1>4 DEF NoneAwaited, Awaited
<1>6. CASE answer[f].ok = "yes"
  <2>1. task' = [task EXCEPT ![f] = "queued"] /\ cache' = [cache EXCEPT ![f] = answer[f].doc]
    BY <1>6 DEF Announced
  <2>2. answer[f].doc \in Contexts
    BY <1>1, <1>6 DEF FileInv, Documents
  <2>3. UploadTypes'
    BY <1>1, <1>2, <1>3, <2>1, <2>2 DEF UploadTypes, Stages
  <2>4. \A g \in Files \ {f} : Untouched(g)
    BY <1>1, <1>2, <2>1 DEF UploadTypes, Untouched
  <2>5. task'[f] = "queued" /\ cache'[f] = answer[f].doc /\ answer'[f] = NoAnswer
    BY <1>1, <1>2, <2>1 DEF UploadTypes
  <2>6. FileInv(f)'
    BY <1>1, <1>2, <1>3, <1>4, <1>5, <1>6, <2>5
       DEF FileInv, Protocol, Beginning, Documents, InSequence, True, Served
  <2> QED BY <1>2, <2>3, <2>4, <2>6 DEF Concerns
<1>7. CASE answer[f].ok # "yes"
  <2>1. task' = [g \in Files |-> "abandoned"] /\ UNCHANGED cache
    BY <1>7 DEF Announced
  <2>2. UploadTypes'
    BY <1>1, <1>2, <1>3, <2>1 DEF UploadTypes, Stages
  <2>3. \A g \in Files \ {f} : Untouched(g)
    BY <1>1, <1>2, <2>1 DEF UploadTypes, Untouched
  <2>4. task'[f] = "abandoned" /\ answer'[f] = NoAnswer
    BY <1>1, <1>2, <2>1 DEF UploadTypes
  <2>5. FileInv(f)'
    BY <1>1, <1>2, <1>3, <1>4, <1>5, <2>1, <2>4
       DEF FileInv, Protocol, Beginning, Documents, InSequence, True, Served
  <2> QED BY <1>2, <2>2, <2>3, <2>5 DEF Concerns
<1> QED BY <1>6, <1>7

LEMMA BeginSendingConcerns ==
  ASSUME UploadInv, NEW f \in Files, BeginSending(f)
  PROVE  Concerns(f)
<1> USE DEF storeVars, wireVars
<1>1. UploadTypes /\ FileInv(f)
  BY DEF UploadInv
<1>2. /\ task[f] = "queued" /\ task' = [task EXCEPT ![f] = "sending"]
      /\ UNCHANGED <<setup, ctx, edge, durable, cache, calls, answer, mail>>
  BY DEF BeginSending, Goes
<1>3. UploadTypes'
  BY <1>1, <1>2 DEF UploadTypes, Stages
<1>4. \A g \in Files \ {f} : Untouched(g)
  BY <1>1, <1>2 DEF UploadTypes, Untouched
<1>5. task'[f] = "sending"
  BY <1>1, <1>2 DEF UploadTypes
<1>6. FileInv(f)'
  BY <1>1, <1>2, <1>5 DEF FileInv, Protocol, Beginning, Blank, Documents, InSequence, True, Served
<1> QED BY <1>2, <1>3, <1>4, <1>6 DEF Concerns

LEMMA UploadingType ==
  ASSUME NEW d \in Contexts
  PROVE  Uploading(d) \in Contexts /\ Uploading(d).status = "uploading" /\ Uploading(d).synced = d.synced
  BY DEF Uploading, Contexts

LEMMA ProgressConcerns ==
  ASSUME UploadInv, NEW f \in Files, Progress(f)
  PROVE  Concerns(f)
<1> USE DEF storeVars
<1>1. UploadTypes /\ FileInv(f)
  BY DEF UploadInv
<1>2. task[f] = "sending" /\ UNCHANGED <<setup, ctx, edge, durable, task, answer, mail>>
  BY DEF Progress
<1>3. NoneAwaited(calls[f]) /\ answer[f].ok = "none"
  BY <1>1, <1>2 DEF FileInv, Protocol
<1> DEFINE report == Report("uploading")
<1>4. report.op = "uploading" /\ ~Awaited(report)
  BY DEF Report, Awaited
<1> HIDE DEF report
<1>5. CASE cache[f] = NoDoc
  <2>1. Gains(f, report) /\ UNCHANGED cache
    BY <1>1, <1>5, SendOne DEF Progress, report
  <2>2. UploadTypes'
    BY <1>1, <1>2, <2>1 DEF UploadTypes, Gains
  <2>3. \A g \in Files \ {f} : Untouched(g)
    BY <1>1, <1>2, <2>1 DEF UploadTypes, Gains, Untouched
  <2>4. \A i \in DOMAIN calls'[f] : (i \in DOMAIN calls[f] /\ calls'[f][i] = calls[f][i]) \/ calls'[f][i] = report
    BY <2>1 DEF Gains
  <2>5. FileInv(f)'
    BY <1>1, <1>2, <1>3, <1>4, <2>1, <2>4
       DEF FileInv, Protocol, NoneAwaited, Awaited, Beginning, Blank, Documents, InSequence, True, Served
  <2> QED BY <1>2, <2>2, <2>3, <2>5 DEF Concerns
<1>6. CASE cache[f] # NoDoc
  <2> DEFINE u == Uploading(cache[f])
             patch == Patch(u)
  <2>1. cache[f] \in Contexts /\ u \in Contexts /\ u.status = "uploading" /\ u.synced = cache[f].synced
    BY <1>1, <1>6, UploadingType DEF UploadTypes
  <2>2. GainsTwo(f, patch, report) /\ cache' = [cache EXCEPT ![f] = u]
    BY <1>1, <1>6, SendTwo DEF Progress, report
  <2>3. patch.op = "patch" /\ patch.doc = u /\ ~Awaited(patch)
    BY DEF Patch, Awaited
  <2> HIDE DEF u, patch
  <2>4. UploadTypes'
    BY <1>1, <1>2, <2>1, <2>2 DEF UploadTypes, GainsTwo
  <2>5. \A g \in Files \ {f} : Untouched(g)
    BY <1>1, <1>2, <2>2 DEF UploadTypes, GainsTwo, Untouched
  <2>6. \A i \in DOMAIN calls'[f] : \/ i \in DOMAIN calls[f] /\ calls'[f][i] = calls[f][i]
                                    \/ calls'[f][i] \in {patch, report}
    BY <2>2 DEF GainsTwo
  <2>7. cache'[f] = u
    BY <1>1, <2>2 DEF UploadTypes
  <2>8. Protocol(f)'
    BY <1>1, <1>2, <1>3, <1>4, <2>3, <2>6 DEF FileInv, Protocol, NoneAwaited
  <2>9. Beginning(f)'
    BY <1>1, <1>2, <1>4, <1>6, <2>3, <2>6 DEF FileInv, Beginning, Blank
  <2>10. Documents(f)'
    BY <1>1, <1>2, <1>4, <1>6, <2>1, <2>3, <2>6, <2>7 DEF FileInv, Documents, True, Served
  <2>11. InSequence(f)'
    BY <1>2 DEF InSequence
  <2> QED BY <1>2, <2>4, <2>5, <2>8, <2>9, <2>10, <2>11 DEF Concerns, FileInv
<1> QED BY <1>5, <1>6

(* The tab sends a request it will wait for, having waited for none.       *)
LEMMA SendsAwaited ==
  ASSUME UploadInv, NEW f \in Files, NEW c, Gains(f, c), NoneAwaited(calls[f]),
         NEW t \in {"joining", "completing", "failing"}, task' = [task EXCEPT ![f] = t],
         c.op = "complete" \/ (c.op = "failed" /\ t = "failing"),
         answer' \in [Files -> Replies], answer'[f].ok = "none",
         \A g \in Files \ {f} : answer'[g] = answer[g],
         edge' \in {edge, edge \cup {f}},
         UNCHANGED <<setup, ctx, durable, cache, mail>>
  PROVE  Concerns(f)
<1>1. UploadTypes /\ FileInv(f)
  BY DEF UploadInv
<1>2. task'[f] = t /\ task' \in [Files -> Stages] /\ \A g \in Files \ {f} : task'[g] = task[g]
  BY <1>1 DEF UploadTypes, Stages
<1>3. UploadTypes'
  BY <1>1, <1>2 DEF UploadTypes, Gains
<1>4. \A g \in Files \ {f} : Untouched(g)
  BY <1>2 DEF Gains, Untouched
<1>5. \A i \in DOMAIN calls'[f] : \/ i \in DOMAIN calls[f] /\ calls'[f][i] = calls[f][i]
                                  \/ i = Len(calls'[f]) /\ calls'[f][i] = c
  BY DEF Gains
<1>6. \A i \in DOMAIN calls[f] : calls[f][i].op # "initiate"
  BY DEF NoneAwaited, Awaited
<1>7. Protocol(f)'
  BY <1>2, <1>5 DEF Protocol, NoneAwaited
<1>8. Beginning(f)'
  BY <1>2, <1>5, <1>6 DEF Beginning
<1>9. Documents(f)'
  BY <1>1, <1>2, <1>5 DEF FileInv, Documents, True, Served
<1>10. InSequence(f)'
  BY <1>2, <1>5 DEF InSequence, NoneAwaited
<1> QED BY <1>3, <1>4, <1>7, <1>8, <1>9, <1>10 DEF Concerns, FileInv

LEMMA CompleteCall ==
  ASSUME NEW ps, NEW section
  PROVE  Complete(ps, section).op = "complete" /\ Complete(ps, section).parts = ps
         /\ Complete(ps, section).section = section
  BY DEF Complete

LEMMA NoAnswerType == NoAnswer \in Replies /\ NoAnswer.ok = "none"
  BY DEF NoAnswer, Replies

LEMMA SentConcerns ==
  ASSUME UploadInv, NEW f \in Files, Sent(f)
  PROVE  Concerns(f)
<1>1. UploadTypes /\ FileInv(f)
  BY DEF UploadInv
<1>2. UNCHANGED <<setup, ctx, durable, cache, answer, mail>> /\ task[f] = "sending"
  BY DEF Sent, Goes
<1>3. PICK t \in {"joining", "completing"} : \E ps :
        /\ task' = [task EXCEPT ![f] = t]
        /\ Send(f, <<Complete(ps, NoSection)>>)
        /\ edge' \in {edge, edge \cup {f}}
  BY DEF Sent, Goes
<1>4. PICK ps : Send(f, <<Complete(ps, NoSection)>>)
  BY <1>3
<1>5. NoneAwaited(calls[f]) /\ answer[f].ok = "none"
  BY <1>1, <1>2 DEF FileInv, Protocol
<1>6. Gains(f, Complete(ps, NoSection))
  BY <1>1, <1>4, SendOne
<1> DEFINE c == Complete(ps, NoSection)
<1>7. Gains(f, c) /\ c.op = "complete"
  BY <1>6, CompleteCall
<1> HIDE DEF c
<1>8. answer' \in [Files -> Replies] /\ answer'[f].ok = "none" /\ \A g \in Files \ {f} : answer'[g] = answer[g]
  BY <1>1, <1>2, <1>5 DEF UploadTypes
<1> QED BY <1>2, <1>3, <1>5, <1>7, <1>8, SendsAwaited

LEMMA ReportFailedConcerns ==
  ASSUME UploadInv, NEW f \in Files, SendFails(f) \/ Refused(f)
  PROVE  Concerns(f)
<1> USE DEF storeVars
<1> DEFINE c == Report("failed")
<1>1. UploadTypes /\ FileInv(f)
  BY DEF UploadInv
<1>2. /\ UNCHANGED <<setup, ctx, edge, durable, cache, mail>>
      /\ task' = [task EXCEPT ![f] = "failing"] /\ Send(f, <<c>>)
  BY DEF SendFails, Refused, Goes
<1>3. c.op = "failed"
  BY DEF Report
<1>4. Gains(f, c)
  BY <1>1, <1>2, SendOne
<1> HIDE DEF c
<1>5. NoneAwaited(calls[f])
  <2>1. task[f] = "sending" \/ answer[f].ok # "none"
    BY DEF SendFails, Refused, Goes
  <2> QED BY <1>1, <2>1 DEF FileInv, Protocol
<1>6. answer' \in [Files -> Replies] /\ answer'[f].ok = "none" /\ \A g \in Files \ {f} : answer'[g] = answer[g]
  <2>1. CASE SendFails(f)
    BY <1>1, <2>1 DEF SendFails, Goes, UploadTypes, FileInv, Protocol
  <2>2. CASE Refused(f)
    BY <1>1, <2>2, NoAnswerType DEF Refused, UploadTypes
  <2> QED BY <2>1, <2>2
<1> QED BY <1>1, <1>2, <1>3, <1>4, <1>5, <1>6, SendsAwaited

LEMMA JoinedConcerns ==
  ASSUME UploadInv, NEW f \in Files, Joined(f)
  PROVE  Concerns(f)
<1> USE DEF storeVars
<1>1. UploadTypes /\ FileInv(f)
  BY DEF UploadInv
<1>2. PICK section : Send(f, <<Complete(FALSE, section)>>)
  BY DEF Joined
<1>3. /\ UNCHANGED <<setup, ctx, edge, durable, cache, mail>>
      /\ task' = [task EXCEPT ![f] = "completing"]
      /\ answer[f].ok = "yes" /\ answer' = [answer EXCEPT ![f] = NoAnswer]
  BY DEF Joined, Goes
<1>4. Gains(f, Complete(FALSE, section))
  BY <1>1, <1>2, SendOne
<1>5. NoneAwaited(calls[f])
  BY <1>1, <1>3 DEF FileInv, Protocol
<1>6. answer' \in [Files -> Replies] /\ answer'[f].ok = "none" /\ \A g \in Files \ {f} : answer'[g] = answer[g]
  BY <1>1, <1>3, NoAnswerType DEF UploadTypes
<1> DEFINE c == Complete(FALSE, section)
<1>7. Gains(f, c) /\ c.op = "complete"
  BY <1>4, CompleteCall
<1> HIDE DEF c
<1> QED BY <1>3, <1>5, <1>6, <1>7, SendsAwaited

LEMMA CompletedConcerns ==
  ASSUME UploadInv, NEW f \in Files, Completed(f)
  PROVE  Concerns(f)
<1> USE DEF storeVars
<1> DEFINE d == answer[f].doc
           c == Patch(d)
<1>1. UploadTypes /\ FileInv(f)
  BY DEF UploadInv
<1>2. /\ UNCHANGED <<setup, ctx, edge, durable, mail>>
      /\ task[f] = "completing" /\ task' = [task EXCEPT ![f] = "done"]
      /\ answer[f].ok = "yes" /\ answer' = [answer EXCEPT ![f] = NoAnswer]
      /\ cache' = [cache EXCEPT ![f] = IF @ = NoDoc THEN NoDoc ELSE d]
      /\ Send(f, <<c>>)
  BY DEF Completed, Goes
<1>3. Gains(f, c)
  BY <1>1, <1>2, SendOne
<1>4. c.op = "patch" /\ c.doc = d /\ ~Awaited(c)
  BY DEF Patch, Awaited
<1>5. /\ NoneAwaited(calls[f]) /\ d \in Contexts /\ Settled(d)
      /\ ctx[f] # NoDoc => True(f, d) /\ Served(f)
      /\ ~setup.reordered /\ ~setup.edits => calls[f] = <<>> /\ (ctx[f] # NoDoc => Settled(ctx[f]))
  BY <1>1, <1>2 DEF FileInv, Protocol, Documents, InSequence, Settled, True
<1> HIDE DEF d, c
<1>6. /\ task'[f] = "done" /\ answer'[f].ok = "none" /\ cache'[f] \in {NoDoc, d}
      /\ \A g \in Files \ {f} : task'[g] = task[g] /\ answer'[g] = answer[g] /\ cache'[g] = cache[g]
  BY <1>1, <1>2, NoAnswerType DEF UploadTypes
<1>7. UploadTypes'
  BY <1>1, <1>2, <1>3, <1>5, NoAnswerType DEF UploadTypes, Gains, Stages
<1>8. \A g \in Files \ {f} : Untouched(g)
  BY <1>2, <1>3, <1>6 DEF Gains, Untouched
<1>9. \A i \in DOMAIN calls'[f] : \/ i \in DOMAIN calls[f] /\ calls'[f][i] = calls[f][i]
                                  \/ calls'[f][i] = c
  BY <1>3 DEF Gains
<1>10. \A i \in DOMAIN calls[f] : calls[f][i].op # "initiate"
  BY <1>5 DEF NoneAwaited, Awaited
<1>11. Protocol(f)'
  BY <1>4, <1>5, <1>6, <1>9 DEF Protocol, NoneAwaited
<1>12. Beginning(f)'
  BY <1>4, <1>6, <1>9, <1>10 DEF Beginning
<1>13. Documents(f)'
  BY <1>1, <1>2, <1>4, <1>5, <1>6, <1>9 DEF FileInv, Documents, True, Served
<1>14. InSequence(f)'
  BY <1>2, <1>4, <1>5, <1>6, <1>9 DEF InSequence
<1> QED BY <1>2, <1>7, <1>8, <1>11, <1>12, <1>13, <1>14 DEF Concerns, FileInv

LEMMA GaveUpConcerns ==
  ASSUME UploadInv, NEW f \in Files, GaveUp(f)
  PROVE  Concerns(f)
<1> USE DEF storeVars
<1>1. UploadTypes /\ FileInv(f)
  BY DEF UploadInv
<1>2. /\ UNCHANGED <<setup, ctx, edge, durable, cache, calls, mail>>
      /\ task[f] = "failing" /\ task' = [task EXCEPT ![f] = "failed"]
      /\ answer[f].ok # "none" /\ answer' = [answer EXCEPT ![f] = NoAnswer]
  BY DEF GaveUp, Goes
<1>3. /\ task'[f] = "failed" /\ answer'[f].ok = "none"
      /\ \A g \in Files \ {f} : task'[g] = task[g] /\ answer'[g] = answer[g]
  BY <1>1, <1>2, NoAnswerType DEF UploadTypes
<1>4. UploadTypes'
  BY <1>1, <1>2, NoAnswerType DEF UploadTypes, Stages
<1>5. \A g \in Files \ {f} : Untouched(g)
  BY <1>2, <1>3 DEF Untouched
<1>6. FileInv(f)'
  BY <1>1, <1>2, <1>3 DEF FileInv, Protocol, Beginning, Blank, Documents, InSequence, True, Served
<1> QED BY <1>2, <1>4, <1>5, <1>6 DEF Concerns

LEMMA EditConcerns ==
  ASSUME UploadInv, NEW f \in Files, Edit(f)
  PROVE  Concerns(f)
<1> USE DEF storeVars, tabVars
<1> DEFINE c == Patch(cache[f])
<1>1. UploadTypes /\ FileInv(f)
  BY DEF UploadInv
<1>2. /\ UNCHANGED <<setup, ctx, edge, durable, task, cache, answer, mail>>
      /\ setup.edits /\ cache[f] # NoDoc /\ Send(f, <<c>>)
  BY DEF Edit
<1>3. Gains(f, c) /\ cache[f] \in Contexts
  BY <1>1, <1>2, SendOne DEF UploadTypes
<1>4. c.op = "patch" /\ c.doc = cache[f] /\ ~Awaited(c)
  BY DEF Patch, Awaited
<1> HIDE DEF c
<1>5. UploadTypes'
  BY <1>1, <1>2, <1>3 DEF UploadTypes, Gains
<1>6. \A g \in Files \ {f} : Untouched(g)
  BY <1>2, <1>3 DEF Gains, Untouched
<1>7. \A i \in DOMAIN calls'[f] : \/ i \in DOMAIN calls[f] /\ calls'[f][i] = calls[f][i]
                                  \/ calls'[f][i] = c
  BY <1>3 DEF Gains
<1>8. Protocol(f)'
  BY <1>1, <1>2, <1>4, <1>7 DEF FileInv, Protocol, NoneAwaited
<1>9. Beginning(f)'
  BY <1>1, <1>2, <1>4, <1>7 DEF FileInv, Beginning, Blank
<1>10. Documents(f)'
  BY <1>1, <1>2, <1>3, <1>4, <1>7 DEF FileInv, Documents, True, Served
<1>11. InSequence(f)'
  BY <1>2 DEF InSequence
<1> QED BY <1>2, <1>5, <1>6, <1>8, <1>9, <1>10, <1>11 DEF Concerns, FileInv

LEMMA HearUpdateConcerns ==
  ASSUME UploadInv, NEW f \in Files, HearUpdate(f)
  PROVE  Concerns(f)
<1> USE DEF storeVars
<1>1. UploadTypes /\ FileInv(f)
  BY DEF UploadInv
<1>2. /\ UNCHANGED <<setup, ctx, edge, durable, task, calls, answer>>
      /\ mail[f] # <<>> /\ mail' = [mail EXCEPT ![f] = Tail(@)]
      /\ cache' = [cache EXCEPT ![f] = IF @ = NoDoc THEN NoDoc ELSE Head(mail[f])]
  BY DEF HearUpdate
<1>3. /\ Head(mail[f]) \in Contexts /\ Tail(mail[f]) \in Seq(Contexts)
      /\ 1 \in DOMAIN mail[f] /\ Head(mail[f]) = mail[f][1]
      /\ \A i \in DOMAIN Tail(mail[f]) : i + 1 \in DOMAIN mail[f] /\ Tail(mail[f])[i] = mail[f][i + 1]
  BY <1>1, <1>2 DEF UploadTypes
<1>4. UploadTypes'
  BY <1>1, <1>2, <1>3 DEF UploadTypes
<1>5. /\ mail'[f] = Tail(mail[f]) /\ cache'[f] \in {NoDoc, Head(mail[f])}
      /\ \A g \in Files \ {f} : mail'[g] = mail[g] /\ cache'[g] = cache[g]
  BY <1>1, <1>2 DEF UploadTypes
<1>6. \A g \in Files \ {f} : Untouched(g)
  BY <1>2, <1>5 DEF Untouched
<1>7. ~Blank(f)
  BY <1>2 DEF Blank
<1>8. Documents(f)'
  <2>1. \A i \in DOMAIN mail'[f] : i + 1 \in DOMAIN mail[f] /\ mail'[f][i] = mail[f][i + 1]
    BY <1>3, <1>5
  <2> QED BY <1>1, <1>2, <1>3, <1>5, <2>1 DEF FileInv, Documents, True, Served
<1>9. Beginning(f)' /\ Protocol(f)' /\ InSequence(f)'
  BY <1>1, <1>2, <1>7 DEF FileInv, Beginning, Protocol, InSequence
<1> QED BY <1>2, <1>4, <1>6, <1>8, <1>9 DEF Concerns, FileInv

-----------------------------------------------------------------------------
(* Mantle.                                                                 *)

LEMMA Remaining ==
  ASSUME NEW f \in Files, NEW i, Protocol(f), Loses(f, i)
  PROVE  /\ i \in DOMAIN calls[f]
         /\ \A k \in DOMAIN calls'[f] : \E j \in DOMAIN calls[f] : j # i /\ calls'[f][k] = calls[f][j]
         /\ \A k, l \in DOMAIN calls'[f] : Awaited(calls'[f][k]) /\ Awaited(calls'[f][l]) => k = l
         /\ NoneAwaited(calls[f]) \/ Awaited(calls[f][i]) => NoneAwaited(calls'[f])
<1> DEFINE from(k) == IF k < i THEN k ELSE k + 1
<1>1. \A k \in DOMAIN calls'[f] : from(k) \in DOMAIN calls[f] /\ from(k) # i /\ calls'[f][k] = calls[f][from(k)]
  BY DEF Loses
<1>2. \A k, l \in DOMAIN calls'[f] : from(k) = from(l) => k = l
  BY DEF Loses
<1>3. i \in DOMAIN calls[f]
  BY DEF Loses
<1> HIDE DEF from
<1> QED BY <1>1, <1>2, <1>3 DEF Protocol, NoneAwaited

LEMMA RemainingInOrder ==
  ASSUME NEW f \in Files, NEW i, Loses(f, i), ~setup.reordered,
         \A k \in DOMAIN calls[f] : Awaited(calls[f][k]) => k = Len(calls[f])
  PROVE  /\ \A k \in DOMAIN calls'[f] : Awaited(calls'[f][k]) => k = Len(calls'[f])
         /\ Awaited(calls[f][i]) => calls'[f] = <<>>
<1>1. i = 1 /\ Len(calls[f]) \in Nat /\ DOMAIN calls[f] = 1..Len(calls[f]) /\ 1 \in DOMAIN calls[f]
  BY DEF Loses
<1>2. \A k \in DOMAIN calls'[f] : k \in Nat /\ k + 1 \in DOMAIN calls[f] /\ calls'[f][k] = calls[f][k + 1]
  BY <1>1 DEF Loses
<1>3. Len(calls'[f]) = Len(calls[f]) - 1
  BY DEF Loses
<1>4. \A k \in DOMAIN calls'[f] : Awaited(calls'[f][k]) => k = Len(calls'[f])
  BY <1>1, <1>2, <1>3
<1>5. Awaited(calls[f][i]) => Len(calls'[f]) = 0
  <2>1. Awaited(calls[f][i]) => i = Len(calls[f])
    BY <1>1
  <2> QED BY <1>1, <1>3, <2>1
<1>6. PICK S : calls'[f] \in Seq(S)
  BY DEF Loses, IsSeq
<1> QED BY <1>4, <1>5, <1>6

(* What Mantle makes of the request i of a file: it answers if somebody    *)
(* waits, and may write the document.                                      *)
Handles(f, i) ==
  /\ UNCHANGED <<setup, task, cache>>
  /\ ctx' \in [Files -> Contexts \cup {NoDoc}] /\ mail' \in [Files -> Seq(Contexts)]
  /\ answer' \in [Files -> Replies]
  /\ \A g \in Files \ {f} : /\ UNCHANGED <<ctx[g], mail[g], answer[g]>>
                            /\ (g \in edge' <=> g \in edge) /\ (g \in durable' <=> g \in durable)
  /\ (Served(f) => Served(f)') /\ (f \in durable => f \in durable')
  /\ IF Awaited(calls[f][i])
       THEN /\ answer'[f].ok \in {"yes", "no"}
            /\ answer'[f].ok = "yes" => answer'[f].doc = ctx'[f] /\ ctx'[f] \in Contexts
            /\ answer'[f].ok = "yes" /\ calls[f][i].op = "complete" => Settled(ctx'[f])
       ELSE answer'[f] = answer[f]
  /\ \/ UNCHANGED <<ctx[f], mail[f]>>
     \/ /\ ctx'[f] \in Contexts /\ mail'[f] = Append(mail[f], ctx'[f])
        /\ ctx[f] # NoDoc \/ calls[f][i].op = "initiate"
        /\ ctx[f] # NoDoc \/ calls[f][i].op = "initiate" => True(f, ctx[f])'
        /\ calls[f][i].op = "patch" => ctx'[f] = calls[f][i].doc

LEMMA HandlesConcerns ==
  ASSUME UploadInv, NEW f \in Files, NEW i, Loses(f, i), Handles(f, i)
  PROVE  Concerns(f)
<1>1. UploadTypes /\ FileInv(f)
  BY DEF UploadInv
<1> DEFINE call == calls[f][i]
<1>2. /\ i \in DOMAIN calls[f]
      /\ \A k \in DOMAIN calls'[f] : \E j \in DOMAIN calls[f] : j # i /\ calls'[f][k] = calls[f][j]
      /\ \A k, l \in DOMAIN calls'[f] : Awaited(calls'[f][k]) /\ Awaited(calls'[f][l]) => k = l
      /\ NoneAwaited(calls[f]) \/ Awaited(call) => NoneAwaited(calls'[f])
  BY <1>1, Remaining DEF FileInv
<1>3. UploadTypes'
  BY <1>1 DEF UploadTypes, Handles, Loses
<1>4. \A g \in Files \ {f} : Untouched(g)
  BY DEF Untouched, Handles, Loses
<1>5. task[f] # "idle"
  <2>1. calls[f] # <<>>
    BY <1>2
  <2> QED BY <1>1, <2>1 DEF FileInv, Beginning
<1>6. UNCHANGED <<setup, task, cache>>
  BY DEF Handles
<1>7. Awaited(call) => answer[f].ok = "none" /\ task[f] \notin {"idle", "queued", "sending", "failed", "done"}
  BY <1>1, <1>2 DEF FileInv, Protocol, NoneAwaited
<1>8. Awaited(call) /\ task[f] \in {"joining", "completing"} => call.op = "complete"
  BY <1>1, <1>2 DEF FileInv, Protocol
<1>9. Protocol(f)'
  <2>1. CASE Awaited(call)
    <3>1. NoneAwaited(calls'[f]) /\ task'[f] \notin {"idle", "queued", "sending", "failed", "done"}
      BY <1>2, <1>6, <1>7, <2>1
    <3>2. task'[f] \in {"joining", "completing"} /\ answer'[f].ok = "yes" => Settled(answer'[f].doc)
      BY <1>6, <1>8, <2>1 DEF Handles
    <3>3. \A k \in DOMAIN calls'[f] : ~Awaited(calls'[f][k])
      BY <3>1 DEF NoneAwaited
    <3> QED BY <3>1, <3>2, <3>3 DEF Protocol, Settled
  <2>2. CASE ~Awaited(call)
    <3>1. answer'[f] = answer[f]
      BY <2>2 DEF Handles
    <3> QED BY <1>1, <1>2, <1>6, <3>1 DEF FileInv, Protocol
  <2> QED BY <2>1, <2>2
<1>10. Beginning(f)'
  <2> SUFFICES ASSUME NEW k \in DOMAIN calls'[f], calls'[f][k].op = "initiate" PROVE Blank(f)'
    BY <1>5, <1>6 DEF Beginning
  <2>1. PICK j \in DOMAIN calls[f] : j # i /\ calls'[f][k] = calls[f][j]
    BY <1>2
  <2>2. Blank(f) /\ Awaited(calls[f][j])
    BY <1>1, <2>1 DEF FileInv, Beginning, Awaited
  <2>3. ~Awaited(call) /\ call.op # "initiate"
    BY <1>1, <1>2, <2>1, <2>2 DEF FileInv, Protocol, Awaited
  <2>4. UNCHANGED <<ctx[f], mail[f]>> /\ answer'[f] = answer[f]
    BY <2>2, <2>3 DEF Handles, Blank
  <2> QED BY <1>2, <1>6, <2>2, <2>4 DEF Blank
<1>11. \A k \in DOMAIN calls'[f] : calls'[f][k].op = "patch" =>
         \E j \in DOMAIN calls[f] : calls[f][j].op = "patch" /\ calls'[f][k] = calls[f][j]
  BY <1>2
<1>12. answer'[f].ok = "yes" => answer'[f].doc \in Contexts /\
         (answer'[f] = answer[f] \/ (Awaited(call) /\ answer'[f].doc = ctx'[f]))
  BY <1>1 DEF Handles, FileInv, Documents
<1>13. (Served(f) => Served(f)') /\ (f \in durable => f \in durable')
  BY DEF Handles
<1>14. \A d : True(f, d) => (d.status = "none" => Served(f)') /\ (d.synced => f \in durable')
  BY <1>13 DEF True
<1>15. Documents(f)'
  <2>1. CASE UNCHANGED <<ctx[f], mail[f]>>
    BY <1>1, <1>6, <1>11, <1>12, <1>13, <1>14, <2>1 DEF FileInv, Documents, True
  <2>2. ASSUME ctx'[f] \in Contexts, mail'[f] = Append(mail[f], ctx'[f]),
               ctx[f] # NoDoc \/ call.op = "initiate", True(f, ctx[f])'
        PROVE  Documents(f)'
    <3>1. \A k \in DOMAIN mail'[f] : (k \in DOMAIN mail[f] /\ mail'[f][k] = mail[f][k]) \/ mail'[f][k] = ctx'[f]
      BY <1>1, <2>2 DEF UploadTypes
    <3>2. CASE ctx[f] # NoDoc
      <4> DEFINE Holds(d) == (d.status = "none" => Served(f)') /\ (d.synced => f \in durable')
      <4>1. \A d : True(f, d) => Holds(d)
        BY <1>14
      <4>2. Holds(ctx'[f])
        BY <2>2 DEF True
      <4> HIDE DEF Holds
      <4>3. cache'[f] # NoDoc => Holds(cache'[f])
        BY <1>1, <1>6, <3>2, <4>1 DEF FileInv, Documents
      <4>4. \A k \in DOMAIN mail'[f] : Holds(mail'[f][k])
        BY <1>1, <3>1, <3>2, <4>1, <4>2 DEF FileInv, Documents
      <4>5. \A k \in DOMAIN calls'[f] : calls'[f][k].op = "patch" =>
              calls'[f][k].doc \in Contexts /\ Holds(calls'[f][k].doc)
        BY <1>1, <1>11, <3>2, <4>1 DEF FileInv, Documents
      <4>6. answer'[f].ok = "yes" => answer'[f].doc \in Contexts /\ Holds(answer'[f].doc)
        BY <1>1, <1>12, <3>2, <4>1, <4>2 DEF FileInv, Documents
      <4>7. task'[f] = "done" => Served(f)'
        BY <1>1, <1>6, <1>13, <3>2 DEF FileInv, Documents
      <4> QED BY <4>2, <4>3, <4>4, <4>5, <4>6, <4>7 DEF Documents, True, Holds
    <3>3. CASE call.op = "initiate"
      <4>1. Blank(f) /\ Awaited(call)
        BY <1>1, <1>2, <3>3 DEF FileInv, Beginning, Awaited
      <4>2. mail[f] = <<>> /\ DOMAIN mail[f] = {} /\ cache'[f] = NoDoc /\ task'[f] # "done"
        BY <1>6, <1>7, <4>1 DEF Blank
      <4>3. \A k \in DOMAIN mail'[f] : mail'[f][k] = ctx'[f]
        BY <3>1, <4>2
      <4>4. \A k \in DOMAIN calls'[f] : calls'[f][k].op # "patch"
        BY <1>11, <4>1 DEF Blank
      <4>5. answer'[f].ok = "yes" => answer'[f].doc = ctx'[f]
        BY <1>12, <4>1 DEF Blank
      <4> QED BY <2>2, <4>2, <4>3, <4>4, <4>5 DEF Documents
    <3> QED BY <2>2, <3>2, <3>3
  <2> QED BY <2>1, <2>2 DEF Handles
<1>16. InSequence(f)'
  <2> SUFFICES ASSUME ~setup.reordered, ~setup.edits PROVE InSequence(f)'
    BY <1>6 DEF InSequence
  <2>1. CASE task[f] \in {"joining", "completing"}
    <3>1. /\ \A k \in DOMAIN calls[f] : Awaited(calls[f][k]) => k = Len(calls[f])
          /\ answer[f].ok # "none" => calls[f] = <<>>
      BY <1>1, <2>1 DEF FileInv, InSequence
    <3>2. /\ \A k \in DOMAIN calls'[f] : Awaited(calls'[f][k]) => k = Len(calls'[f])
          /\ Awaited(call) => calls'[f] = <<>>
      BY <3>1, RemainingInOrder
    <3>3. answer[f].ok = "none"
      BY <1>2, <3>1
    <3>4. answer'[f].ok # "none" => Awaited(call)
      BY <3>3 DEF Handles
    <3>5. answer'[f].ok = "yes" => Settled(ctx'[f])
      BY <1>8, <2>1, <3>4 DEF Handles
    <3> QED BY <1>6, <2>1, <3>2, <3>4, <3>5 DEF InSequence, Settled
  <2>2. CASE task[f] = "done"
    <3>1. /\ \A k \in DOMAIN calls[f] : calls[f][k].op = "patch" /\ Settled(calls[f][k].doc)
          /\ ctx[f] # NoDoc => Settled(ctx[f])
      BY <1>1, <2>2 DEF FileInv, InSequence
    <3>2. \A k \in DOMAIN calls'[f] : calls'[f][k].op = "patch" /\ Settled(calls'[f][k].doc)
      BY <1>2, <3>1
    <3>3. ctx'[f] # NoDoc => Settled(ctx'[f])
      BY <1>2, <3>1 DEF Handles
    <3> QED BY <1>6, <2>2, <3>2, <3>3 DEF InSequence, Settled
  <2>3. CASE task[f] \notin {"joining", "completing", "done"}
    BY <1>6, <2>3 DEF InSequence
  <2> QED BY <2>1, <2>2, <2>3
<1> QED BY <1>3, <1>4, <1>6, <1>9, <1>10, <1>15, <1>16 DEF Concerns, FileInv

LEMMA FailedType == Failed \in Replies /\ Failed.ok = "no"
  BY DEF Failed, Replies

LEMMA OkType ==
  ASSUME NEW d \in Contexts
  PROVE  Ok(d) \in Replies /\ Ok(d).ok = "yes" /\ Ok(d).doc = d
  BY DEF Ok, Replies

(* The answer to a request: what it amounts to, or a failure.              *)
LEMMA AnswersReply ==
  ASSUME UploadTypes, NEW f \in Files, NEW call, NEW result \in Replies, Answers(f, call, result)
  PROVE  /\ answer' \in [Files -> Replies] /\ \A g \in Files \ {f} : answer'[g] = answer[g]
         /\ ~Awaited(call) => answer'[f] = answer[f]
         /\ Awaited(call) => answer'[f] \in {result, Failed}
  BY FailedType DEF Answers, UploadTypes

LEMMA WriteDocument ==
  ASSUME UploadTypes, NEW f \in Files, NEW d \in Contexts, Write(f, d)
  PROVE  /\ ctx' \in [Files -> Contexts \cup {NoDoc}] /\ mail' \in [Files -> Seq(Contexts)]
         /\ ctx'[f] = d /\ mail'[f] = Append(mail[f], d)
         /\ \A g \in Files \ {f} : ctx'[g] = ctx[g] /\ mail'[g] = mail[g]
<1>1. mail[f] \in Seq(Contexts) /\ Append(mail[f], d) \in Seq(Contexts)
  BY DEF UploadTypes
<1> QED BY <1>1 DEF Write, UploadTypes

LEMMA RefuseHandles ==
  ASSUME UploadInv, NEW f \in Files, NEW i, Loses(f, i), UNCHANGED <<setup, task, cache, ctx, mail, edge, durable>>,
         \/ Answers(f, calls[f][i], Failed)
         \/ answer' = IF Awaited(calls[f][i]) THEN [answer EXCEPT ![f] = Failed] ELSE answer
  PROVE  Concerns(f)
<1>1. UploadTypes
  BY DEF UploadInv
<1>2. /\ answer' \in [Files -> Replies] /\ \A g \in Files \ {f} : answer'[g] = answer[g]
      /\ ~Awaited(calls[f][i]) => answer'[f] = answer[f]
      /\ Awaited(calls[f][i]) => answer'[f] = Failed
  <2>1. CASE Answers(f, calls[f][i], Failed)
    BY <1>1, <2>1, AnswersReply, FailedType
  <2>2. CASE answer' = IF Awaited(calls[f][i]) THEN [answer EXCEPT ![f] = Failed] ELSE answer
    BY <1>1, <2>2, FailedType DEF UploadTypes
  <2> QED BY <2>1, <2>2
<1>3. Handles(f, i)
  BY <1>1, <1>2, FailedType DEF Handles, UploadTypes, Served
<1> QED BY <1>3, HandlesConcerns

LEMMA LostConcerns ==
  ASSUME UploadInv, NEW f \in Files, NEW i, Lost(f, i)
  PROVE  Concerns(f)
<1>1. Loses(f, i)
  BY ArriveOne DEF Lost, UploadInv
<1> QED BY <1>1, RefuseHandles DEF Lost, storeVars, tabVars

LEMMA InitiateConcerns ==
  ASSUME UploadInv, NEW f \in Files, NEW i, InitiateUpload(f, i)
  PROVE  Concerns(f)
<1> DEFINE made == [status |-> "initiated", named |-> FALSE, processing |-> "pending", synced |-> FALSE]
           named == [made EXCEPT !.named = TRUE]
           call == calls[f][i]
<1>1. UploadTypes
  BY DEF UploadInv
<1>2. Loses(f, i)
  BY <1>1, ArriveOne DEF InitiateUpload
<1>3. /\ made \in Contexts /\ made.status = "initiated" /\ ~made.synced
      /\ named \in Contexts /\ named.status = "initiated" /\ ~named.synced
  BY DEF Contexts
<1>4. call.op = "initiate" /\ Awaited(call) /\ UNCHANGED <<setup, edge, durable, task, cache>>
  BY DEF InitiateUpload, tabVars, Awaited
<1>5. \/ Write(f, named) /\ Answers(f, call, Ok(ctx'[f]))
      \/ Write(f, made) /\ answer' = [answer EXCEPT ![f] = Failed]
  BY DEF InitiateUpload
<1> HIDE DEF made, named
<1>6. CASE Write(f, named) /\ Answers(f, call, Ok(ctx'[f]))
  <2>1. /\ ctx' \in [Files -> Contexts \cup {NoDoc}] /\ mail' \in [Files -> Seq(Contexts)]
        /\ ctx'[f] = named /\ mail'[f] = Append(mail[f], named)
        /\ \A g \in Files \ {f} : ctx'[g] = ctx[g] /\ mail'[g] = mail[g]
    BY <1>1, <1>3, <1>6, WriteDocument
  <2>2. Ok(ctx'[f]) \in Replies /\ Ok(ctx'[f]).ok = "yes" /\ Ok(ctx'[f]).doc = ctx'[f]
    BY <1>3, <2>1, OkType
  <2>3. /\ answer' \in [Files -> Replies] /\ \A g \in Files \ {f} : answer'[g] = answer[g]
        /\ answer'[f] \in {Ok(ctx'[f]), Failed}
    BY <1>1, <1>4, <1>6, <2>2, AnswersReply
  <2>4. Handles(f, i)
    BY <1>3, <1>4, <2>1, <2>2, <2>3, FailedType DEF Handles, Served, True
  <2> QED BY <1>2, <2>4, HandlesConcerns
<1>7. CASE Write(f, made) /\ answer' = [answer EXCEPT ![f] = Failed]
  <2>1. /\ ctx' \in [Files -> Contexts \cup {NoDoc}] /\ mail' \in [Files -> Seq(Contexts)]
        /\ ctx'[f] = made /\ mail'[f] = Append(mail[f], made)
        /\ \A g \in Files \ {f} : ctx'[g] = ctx[g] /\ mail'[g] = mail[g]
    BY <1>1, <1>3, <1>7, WriteDocument
  <2>2. /\ answer' \in [Files -> Replies] /\ \A g \in Files \ {f} : answer'[g] = answer[g]
        /\ answer'[f] = Failed
    BY <1>1, <1>7, FailedType DEF UploadTypes
  <2>3. Handles(f, i)
    BY <1>3, <1>4, <2>1, <2>2, FailedType DEF Handles, Served, True
  <2> QED BY <1>2, <2>3, HandlesConcerns
<1> QED BY <1>5, <1>6, <1>7

LEMMA PatchConcerns ==
  ASSUME UploadInv, NEW f \in Files, NEW i, PatchContext(f, i)
  PROVE  Concerns(f)
<1> DEFINE call == calls[f][i]
<1>1. UploadTypes /\ FileInv(f)
  BY DEF UploadInv
<1>2. Loses(f, i)
  BY <1>1, ArriveOne DEF PatchContext
<1>3. call.op = "patch" /\ ~Awaited(call) /\ UNCHANGED <<setup, edge, durable, task, cache, answer>>
  BY DEF PatchContext, tabVars, Awaited
<1>4. i \in DOMAIN calls[f] /\ call.doc \in Contexts /\ (ctx[f] # NoDoc => True(f, call.doc))
  BY <1>1, <1>2, <1>3 DEF FileInv, Documents, Loses
<1>5. CASE ctx[f] = NoDoc
  <2>1. UNCHANGED <<ctx, mail>>
    BY <1>5 DEF PatchContext
  <2>2. Handles(f, i)
    BY <1>1, <1>3, <2>1 DEF Handles, UploadTypes, Served
  <2> QED BY <1>2, <2>2, HandlesConcerns
<1>6. CASE ctx[f] # NoDoc
  <2>1. Write(f, call.doc)
    BY <1>6 DEF PatchContext
  <2>2. /\ ctx' \in [Files -> Contexts \cup {NoDoc}] /\ mail' \in [Files -> Seq(Contexts)]
        /\ ctx'[f] = call.doc /\ mail'[f] = Append(mail[f], call.doc)
        /\ \A g \in Files \ {f} : ctx'[g] = ctx[g] /\ mail'[g] = mail[g]
    BY <1>1, <1>4, <2>1, WriteDocument
  <2>3. Handles(f, i)
    BY <1>1, <1>3, <1>4, <1>6, <2>2 DEF Handles, UploadTypes, Served, True
  <2> QED BY <1>2, <2>3, HandlesConcerns
<1> QED BY <1>5, <1>6

LEMMA ReportConcerns ==
  ASSUME UploadInv, NEW f \in Files, NEW i, ReportStatus(f, i)
  PROVE  Concerns(f)
<1> DEFINE call == calls[f][i]
           d == [ctx[f] EXCEPT !.status = call.op,
                               !.processing = IF call.op = "failed" THEN "failed" ELSE @]
<1>1. UploadTypes /\ FileInv(f)
  BY DEF UploadInv
<1>2. Loses(f, i)
  BY <1>1, ArriveOne DEF ReportStatus
<1>3. call.op \in {"uploading", "failed"} /\ UNCHANGED <<setup, edge, durable, task, cache>>
  BY DEF ReportStatus, tabVars
<1>4. CASE ctx[f] = NoDoc
  BY <1>2, <1>3, <1>4, RefuseHandles DEF ReportStatus, Refuse
<1>5. CASE ctx[f] # NoDoc
  <2>1. Write(f, d) /\ Answers(f, call, Ok(ctx'[f]))
    BY <1>5 DEF ReportStatus
  <2>2. ctx[f] \in Contexts /\ True(f, ctx[f])
    BY <1>1, <1>5 DEF UploadTypes, FileInv, Documents
  <2>3. d \in Contexts /\ d.status = call.op /\ d.synced = ctx[f].synced
    BY <1>3, <2>2 DEF Contexts
  <2> HIDE DEF d
  <2>4. /\ ctx' \in [Files -> Contexts \cup {NoDoc}] /\ mail' \in [Files -> Seq(Contexts)]
        /\ ctx'[f] = d /\ mail'[f] = Append(mail[f], d)
        /\ \A g \in Files \ {f} : ctx'[g] = ctx[g] /\ mail'[g] = mail[g]
    BY <1>1, <2>1, <2>3, WriteDocument
  <2>5. Ok(ctx'[f]) \in Replies /\ Ok(ctx'[f]).ok = "yes" /\ Ok(ctx'[f]).doc = ctx'[f]
    BY <2>3, <2>4, OkType
  <2>6. /\ answer' \in [Files -> Replies] /\ \A g \in Files \ {f} : answer'[g] = answer[g]
        /\ ~Awaited(call) => answer'[f] = answer[f]
        /\ Awaited(call) => answer'[f] \in {Ok(ctx'[f]), Failed}
    BY <1>1, <2>1, <2>5, AnswersReply
  <2>7. Handles(f, i)
    BY <1>3, <1>5, <2>2, <2>3, <2>4, <2>5, <2>6, FailedType DEF Handles, Served, True
  <2> QED BY <1>2, <2>7, HandlesConcerns
<1> QED BY <1>4, <1>5

LEMMA PersistServes ==
  ASSUME NEW f \in Files, Persist(f) \/ (edge' = edge \cup {f} /\ UNCHANGED durable)
  PROVE  /\ Served(f)' /\ (f \in durable => f \in durable')
         /\ \A g \in Files \ {f} : (g \in edge' <=> g \in edge) /\ (g \in durable' <=> g \in durable)
         /\ Persist(f) /\ setup.durable => f \in durable'
  BY DEF Persist, Served

LEMMA CompleteConcerns ==
  ASSUME UploadInv, NEW f \in Files, NEW i, CompleteUpload(f, i)
  PROVE  Concerns(f)
<1> DEFINE call == calls[f][i]
           d == CompletedContext(f, call)
<1>1. UploadTypes /\ FileInv(f)
  BY DEF UploadInv
<1>2. Loses(f, i)
  BY <1>1, ArriveOne DEF CompleteUpload
<1>3. call.op = "complete" /\ Awaited(call) /\ UNCHANGED <<setup, task, cache>>
  BY DEF CompleteUpload, tabVars, Awaited
<1>4. CASE ctx[f] = NoDoc \/ ~Accepted(f, call)
  BY <1>2, <1>3, <1>4, RefuseHandles DEF CompleteUpload, Refuse
<1>5. CASE ~(ctx[f] = NoDoc \/ ~Accepted(f, call))
  <2>1. /\ ctx[f] \in Contexts /\ True(f, ctx[f])
        /\ setup.durable \in BOOLEAN
    BY <1>1, <1>5, UploadAssumption DEF UploadTypes, FileInv, Documents
  <2>2. d \in Contexts /\ Settled(d) /\ (d.synced => ctx[f].synced \/ setup.durable)
    BY <2>1 DEF CompletedContext, Contexts, Settled
  <2>3. \/ Persist(f) /\ Write(f, d) /\ Answers(f, call, Ok(ctx'[f]))
        \/ /\ Persist(f) \/ (edge' = edge \cup {f} /\ UNCHANGED durable)
           /\ answer' = [answer EXCEPT ![f] = Failed]
           /\ UNCHANGED <<ctx, mail>>
    BY <1>5 DEF CompleteUpload
  <2> HIDE DEF d
  <2>4. CASE Persist(f) /\ Write(f, d) /\ Answers(f, call, Ok(ctx'[f]))
    <3>1. /\ ctx' \in [Files -> Contexts \cup {NoDoc}] /\ mail' \in [Files -> Seq(Contexts)]
          /\ ctx'[f] = d /\ mail'[f] = Append(mail[f], d)
          /\ \A g \in Files \ {f} : ctx'[g] = ctx[g] /\ mail'[g] = mail[g]
      BY <1>1, <2>2, <2>4, WriteDocument
    <3>2. Ok(ctx'[f]) \in Replies /\ Ok(ctx'[f]).ok = "yes" /\ Ok(ctx'[f]).doc = ctx'[f]
      BY <2>2, <3>1, OkType
    <3>3. /\ answer' \in [Files -> Replies] /\ \A g \in Files \ {f} : answer'[g] = answer[g]
          /\ answer'[f] \in {Ok(ctx'[f]), Failed}
      BY <1>1, <1>3, <2>4, <3>2, AnswersReply
    <3>4. /\ Served(f)' /\ (f \in durable => f \in durable')
          /\ \A g \in Files \ {f} : (g \in edge' <=> g \in edge) /\ (g \in durable' <=> g \in durable)
          /\ setup.durable => f \in durable'
      BY <2>4, PersistServes
    <3>5. True(f, ctx[f])'
      BY <2>1, <2>2, <3>1, <3>4 DEF True
    <3>6. Handles(f, i)
      BY <1>3, <1>5, <2>2, <3>1, <3>2, <3>3, <3>4, <3>5, FailedType DEF Handles
    <3> QED BY <1>2, <3>6, HandlesConcerns
  <2>5. CASE /\ Persist(f) \/ (edge' = edge \cup {f} /\ UNCHANGED durable)
             /\ answer' = [answer EXCEPT ![f] = Failed]
             /\ UNCHANGED <<ctx, mail>>
    <3>1. /\ Served(f)' /\ (f \in durable => f \in durable')
          /\ \A g \in Files \ {f} : (g \in edge' <=> g \in edge) /\ (g \in durable' <=> g \in durable)
      BY <2>5, PersistServes
    <3>2. /\ answer' \in [Files -> Replies] /\ \A g \in Files \ {f} : answer'[g] = answer[g]
          /\ answer'[f] = Failed
      BY <1>1, <2>5, FailedType DEF UploadTypes
    <3>3. Handles(f, i)
      BY <1>1, <1>3, <2>5, <3>1, <3>2, FailedType DEF Handles, UploadTypes
    <3> QED BY <1>2, <3>3, HandlesConcerns
  <2> QED BY <2>3, <2>4, <2>5
<1> QED BY <1>4, <1>5

LEMMA ContentUrlConcerns ==
  ASSUME UploadInv, NEW f \in Files, ContentUrl(f)
  PROVE  Concerns(f)
<1>1. UploadTypes /\ FileInv(f)
  BY DEF UploadInv
<1>2. edge' = edge \cup {f} /\ UNCHANGED <<setup, ctx, durable, task, cache, calls, answer, mail>>
  BY DEF ContentUrl, tabVars, wireVars
<1>3. UploadTypes'
  BY <1>1, <1>2 DEF UploadTypes
<1>4. \A g \in Files \ {f} : Untouched(g)
  BY <1>2 DEF Untouched
<1>5. Protocol(f)' /\ Beginning(f)' /\ InSequence(f)'
  BY <1>1, <1>2 DEF FileInv, Protocol, Beginning, Blank, InSequence
<1>6. Documents(f)'
  BY <1>1, <1>2 DEF FileInv, Documents, True, Served
<1> QED BY <1>2, <1>3, <1>4, <1>5, <1>6 DEF Concerns, FileInv

LEMMA DeleteConcerns ==
  ASSUME UploadInv, NEW f \in Files, DeleteUpload(f)
  PROVE  Concerns(f)
<1>1. UploadTypes /\ FileInv(f)
  BY DEF UploadInv
<1>2. /\ ctx[f] # NoDoc /\ edge' = edge \ {f} /\ durable' = durable \ {f}
      /\ ctx' = [ctx EXCEPT ![f] = NoDoc] /\ cache' = [cache EXCEPT ![f] = NoDoc]
      /\ UNCHANGED <<setup, task, calls, answer, mail>>
  BY DEF DeleteUpload, wireVars
<1>3. /\ ctx'[f] = NoDoc /\ cache'[f] = NoDoc
      /\ \A g \in Files \ {f} : ctx'[g] = ctx[g] /\ cache'[g] = cache[g]
  BY <1>1, <1>2 DEF UploadTypes
<1>4. UploadTypes'
  BY <1>1, <1>2 DEF UploadTypes
<1>5. \A g \in Files \ {f} : Untouched(g)
  BY <1>2, <1>3 DEF Untouched
<1>6. FileInv(f)'
  BY <1>1, <1>2, <1>3 DEF FileInv, Protocol, Beginning, Blank, Documents, InSequence
<1> QED BY <1>2, <1>4, <1>5, <1>6 DEF Concerns

LEMMA NextKeepsUploadInv ==
  ASSUME UploadInv, [Next]_vars
  PROVE  UploadInv'
<1>1. CASE UNCHANGED <<setup, ctx, edge, durable, task, cache, calls, answer, mail>>
  BY <1>1 DEF UploadInv, UploadTypes, FileInv, Protocol, Beginning, Blank, Documents, InSequence, True, Served
<1>2. CASE FetchList
  <2>1. /\ UNCHANGED <<setup, ctx, edge, durable, task, calls, answer, mail>> /\ cache' = ctx
    BY <1>2 DEF FetchList, storeVars, wireVars
  <2>2. UploadTypes'
    BY <2>1 DEF UploadInv, UploadTypes
  <2>3. ASSUME NEW f \in Files PROVE FileInv(f)'
    BY <2>1 DEF UploadInv, FileInv, Protocol, Beginning, Blank, Documents, InSequence, True, Served
  <2> QED BY <2>2, <2>3 DEF UploadInv
<1>3. CASE Drag \/ OthersChange \/ ListStep \/ EditorStep
  BY <1>1, <1>3 DEF Drag, OthersChange, ListStep, EditorStep, uploadVars, storeVars, tabVars, wireVars
<1>4. ASSUME NEW f \in Files, AnnounceAt(f) PROVE Concerns(f)
  <2>1. PICK request : request.op = "initiate" /\ Announce(f, request)
    BY <1>4 DEF AnnounceAt
  <2> QED BY <2>1, AnnounceConcerns
<1>5. ASSUME NEW f \in Files, AddExisting(f) PROVE Concerns(f)
  BY <1>5, AnnouncedKeeps DEF AddExisting
<1>6. ASSUME NEW f \in Files, DeleteArtifact(f) PROVE Concerns(f)
  BY <1>6, DeleteConcerns DEF DeleteArtifact
<1>7. ASSUME NEW f \in Files, UploadStep(f) PROVE Concerns(f)
  BY <1>7, BeginSendingConcerns, ProgressConcerns, SentConcerns, ReportFailedConcerns, JoinedConcerns,
     CompletedConcerns, GaveUpConcerns, EditConcerns, HearUpdateConcerns, ContentUrlConcerns, LostConcerns,
     PatchConcerns, ReportConcerns, CompleteConcerns DEF UploadStep
<1>8. ASSUME NEW f \in Files, NEW i \in DOMAIN calls[f], MakeArtifact(f, i) PROVE Concerns(f)
  BY <1>8, InitiateConcerns DEF MakeArtifact
<1>9. CASE UNCHANGED vars
  BY <1>1, <1>9 DEF vars, uploadVars, storeVars, tabVars, wireVars
<1> QED BY <1>2, <1>3, <1>4, <1>5, <1>6, <1>7, <1>8, <1>9, ConcernsKeepsUploadInv DEF Next

LEMMA UploadInvHolds == Spec => []UploadInv
<1>1. Init => UploadInv
  <2> SUFFICES ASSUME Init PROVE UploadInv
    OBVIOUS
  <2>1. /\ setup \in Setups
        /\ ctx = [f \in Files |-> NoDoc] /\ cache = [f \in Files |-> NoDoc]
        /\ task = [f \in Files |-> "idle"] /\ calls = [f \in Files |-> <<>>]
        /\ answer = [f \in Files |-> NoAnswer] /\ mail = [f \in Files |-> <<>>]
    BY DEF Init, UploadInit
  <2>2. IsSeq(<<>>) /\ <<>> \in Seq(Contexts)
    BY DEF IsSeq
  <2>3. UploadTypes
    BY <2>1, <2>2, NoAnswerType DEF UploadTypes, Stages
  <2>4. ASSUME NEW f \in Files PROVE FileInv(f)
    <3>1. /\ ctx[f] = NoDoc /\ cache[f] = NoDoc /\ task[f] = "idle" /\ calls[f] = <<>>
          /\ answer[f].ok = "none" /\ mail[f] = <<>> /\ DOMAIN calls[f] = {}
      BY <2>1, NoAnswerType
    <3> QED BY <3>1 DEF FileInv, Protocol, Beginning, Blank, Documents, InSequence, NoneAwaited
  <2> QED BY <2>3, <2>4 DEF UploadInv
<1> QED BY <1>1, NextKeepsUploadInv, PTL DEF Spec

(* An artifact that no longer says it is being uploaded, or whose upload   *)
(* the tab has seen complete, has its object in one of the two buckets,    *)
(* and a document that names a durable copy has one.                       *)
THEOREM UploadServedOnceComplete == Spec => []ServedOnceComplete
<1>1. UploadInv => ServedOnceComplete
  BY DEF UploadInv, FileInv, Documents, True, Served, ServedOnceComplete
<1> QED BY <1>1, UploadInvHolds, PTL

(* When the tab is done with an upload and its requests have arrived in    *)
(* the order they were sent, the artifact is shown as completed.           *)
THEOREM UploadSettledInOrder == Spec => []SettledInOrder
<1>1. UploadInv => SettledInOrder
  BY DEF UploadInv, FileInv, InSequence, Settled, SettledInOrder
<1> QED BY <1>1, UploadInvHolds, PTL

-----------------------------------------------------------------------------
(* The list.                                                               *)

(* The codes of the digits put keys in a strict total order.               *)
LEMMA BelowAt ==
  ASSUME NEW a \in Keys, NEW b \in Keys, Below(a, b)
  PROVE  \E n \in 1..Len(b) : /\ n <= Len(a) + 1
                              /\ \A i \in 1..(n - 1) : a[i] = b[i]
                              /\ n <= Len(a) => a[n] < b[n]
<1>1. PICK n \in 1..Len(b) : /\ \A i \in 1..(n - 1) : i <= Len(a) /\ a[i] = b[i]
                             /\ n <= Len(a) => a[n] < b[n]
  BY DEF Below
<1>2. Len(a) \in Nat /\ Len(b) \in Nat
  BY DEF Keys
<1>3. n <= Len(a) + 1
  <2>1. CASE n = 1
    BY <1>2, <2>1
  <2>2. CASE n # 1
    <3>1. n - 1 \in 1..(n - 1)
      BY <1>2, <2>2
    <3> QED BY <1>1, <1>2, <3>1
  <2> QED BY <2>1, <2>2
<1> QED BY <1>1, <1>3

LEMMA KeyDigits ==
  ASSUME NEW a \in Keys
  PROVE  Len(a) \in Nat /\ \A i \in 1..Len(a) : a[i] \in Int
BY KeysAssumption DEF Keys, Digits, Top

LEMMA BelowIrreflexive ==
  ASSUME NEW a \in Keys
  PROVE  ~Below(a, a)
<1> SUFFICES ASSUME Below(a, a) PROVE FALSE
  OBVIOUS
<1>1. PICK n \in 1..Len(a) : n <= Len(a) => a[n] < a[n]
  BY DEF Below
<1>2. Len(a) \in Nat /\ a[n] \in Digits /\ a[n] < a[n]
  BY <1>1 DEF Keys
<1> QED BY <1>2, KeysAssumption DEF Digits, Top

LEMMA BelowTransitive ==
  ASSUME NEW a \in Keys, NEW b \in Keys, NEW c \in Keys, Below(a, b), Below(b, c)
  PROVE  Below(a, c)
<1>1. PICK n \in 1..Len(b) : /\ n <= Len(a) + 1
                             /\ \A i \in 1..(n - 1) : a[i] = b[i]
                             /\ n <= Len(a) => a[n] < b[n]
  BY BelowAt
<1>2. PICK m \in 1..Len(c) : /\ m <= Len(b) + 1
                             /\ \A i \in 1..(m - 1) : b[i] = c[i]
                             /\ m <= Len(b) => b[m] < c[m]
  BY BelowAt
<1>3. Len(a) \in Nat /\ Len(b) \in Nat /\ Len(c) \in Nat
  BY DEF Keys
<1>4. /\ \A i \in 1..Len(a) : a[i] \in Int
      /\ \A i \in 1..Len(b) : b[i] \in Int
      /\ \A i \in 1..Len(c) : c[i] \in Int
  BY KeyDigits
<1>5. CASE n < m
  <2>1. n \in 1..Len(c) /\ b[n] = c[n] /\ \A i \in 1..(n - 1) : b[i] = c[i]
    BY <1>2, <1>3, <1>5
  <2> QED BY <1>1, <1>3, <2>1 DEF Below
<1>6. CASE ~(n < m)
  <2>1. /\ \A i \in 1..(m - 1) : i <= Len(a) /\ a[i] = c[i]
        /\ m <= Len(b) /\ b[m] < c[m]
    BY <1>1, <1>2, <1>3, <1>6
  <2>2. m <= Len(a) => a[m] < c[m]
    <3>1. CASE m = n
      BY <1>1, <1>3, <1>4, <2>1, <3>1
    <3>2. CASE m # n
      BY <1>1, <1>3, <1>4, <1>6, <2>1, <3>2
    <3> QED BY <3>1, <3>2
  <2> QED BY <1>3, <2>1, <2>2 DEF Below
<1> QED BY <1>5, <1>6

LEMMA BelowTotal ==
  ASSUME NEW a \in Keys, NEW b \in Keys, a # b
  PROVE  Below(a, b) \/ Below(b, a)
<1>1. Len(a) \in Nat /\ Len(b) \in Nat
  BY DEF Keys
<1>2. /\ \A i \in 1..Len(a) : a[i] \in Int
      /\ \A i \in 1..Len(b) : b[i] \in Int
  BY KeyDigits
<1> DEFINE Apart == {n \in Nat \ {0} : n > Len(a) \/ n > Len(b) \/ a[n] # b[n]}
<1>3. Len(a) + 1 \in Apart
  BY <1>1
<1>4. PICK n \in Apart : \A i \in Apart : i >= n
  BY <1>3, LeastElement
<1>5. \A i \in 1..(n - 1) : i <= Len(a) /\ i <= Len(b) /\ a[i] = b[i]
  <2> TAKE i \in 1..(n - 1)
  <2>1. i \in Nat \ {0} /\ i < n
    BY <1>4
  <2>2. i \notin Apart
    BY <1>4, <2>1
  <2> QED BY <1>1, <2>1, <2>2
<1>6. n \in Nat \ {0}
  BY <1>4
<1>7. CASE n > Len(a) /\ n > Len(b)
  <2>1. Len(a) = Len(b)
    <3>1. n - 1 <= Len(a) /\ n - 1 <= Len(b)
      <4>1. CASE n = 1
        BY <1>1, <4>1
      <4>2. CASE n # 1
        <5>1. n - 1 \in 1..(n - 1)
          BY <1>6, <4>2
        <5> QED BY <1>5, <5>1
      <4> QED BY <4>1, <4>2
    <3> QED BY <1>1, <1>6, <1>7, <3>1
  <2>2. \A i \in 1..Len(a) : a[i] = b[i]
    BY <1>1, <1>5, <1>6, <1>7
  <2>3. a = b
    BY <2>1, <2>2, SeqEqual DEF Keys
  <2> QED BY <2>3
<1>8. CASE n <= Len(b) /\ (n > Len(a) \/ a[n] < b[n])
  BY <1>1, <1>5, <1>6, <1>8 DEF Below
<1>9. CASE n <= Len(a) /\ (n > Len(b) \/ b[n] < a[n])
  BY <1>1, <1>5, <1>6, <1>9 DEF Below
<1>10. CASE n <= Len(a) /\ n <= Len(b)
  <2>1. a[n] \in Int /\ b[n] \in Int /\ a[n] # b[n]
    BY <1>1, <1>2, <1>4, <1>6, <1>10
  <2> QED BY <1>8, <1>9, <1>10, <2>1
<1> QED BY <1>1, <1>6, <1>7, <1>8, <1>9, <1>10

(* As words keys are in a strict total order too.                          *)
LEMMA WeightsAreKey ==
  ASSUME NEW a \in Keys
  PROVE  /\ Weights(a) \in Keys /\ Len(a) \in Nat /\ Len(Weights(a)) = Len(a)
         /\ \A i \in 1..Len(a) : a[i] \in Digits /\ Weights(a)[i] = Weight(a[i])
<1>1. Len(a) \in Nat /\ \A i \in 1..Len(a) : a[i] \in Digits
  BY DEF Keys
<1>2. \A d \in Digits : Weight(d) \in Digits
  BY KeysAssumption DEF Weight, Small, Digits, Top
<1>3. Weights(a) \in [1..Len(a) -> Digits] /\ \A i \in 1..Len(a) : Weights(a)[i] = Weight(a[i])
  BY <1>1, <1>2 DEF Weights
<1> QED BY <1>1, <1>3 DEF Keys

LEMMA LessIrreflexive ==
  ASSUME NEW caps, NEW a \in Keys
  PROVE  ~Less(caps, a, a)
BY WeightsAreKey, BelowIrreflexive DEF Less

LEMMA LessTransitive ==
  ASSUME NEW caps, NEW a \in Keys, NEW b \in Keys, NEW c \in Keys, Less(caps, a, b), Less(caps, b, c)
  PROVE  Less(caps, a, c)
<1> DEFINE wa == Weights(a)
           wb == Weights(b)
           wc == Weights(c)
<1>1. wa \in Keys /\ wb \in Keys /\ wc \in Keys
  BY WeightsAreKey
<1>2. /\ Below(wa, wb) \/ (wa = wb /\ IF caps THEN Below(a, b) ELSE Below(b, a))
      /\ Below(wb, wc) \/ (wb = wc /\ IF caps THEN Below(b, c) ELSE Below(c, b))
  BY DEF Less
<1> HIDE DEF wa, wb, wc
<1>3. Below(wa, wb) /\ Below(wb, wc) => Below(wa, wc)
  BY <1>1, BelowTransitive
<1>4. Below(a, b) /\ Below(b, c) => Below(a, c)
  BY BelowTransitive
<1>5. Below(c, b) /\ Below(b, a) => Below(c, a)
  BY BelowTransitive
<1>6. Below(wa, wc) \/ (wa = wc /\ IF caps THEN Below(a, c) ELSE Below(c, a))
  BY <1>2, <1>3, <1>4, <1>5
<1> QED BY <1>6 DEF Less, wa, wc

LEMMA LessTotal ==
  ASSUME NEW caps, NEW a \in Keys, NEW b \in Keys, a # b
  PROVE  Less(caps, a, b) \/ Less(caps, b, a)
<1>1. Weights(a) # Weights(b) => Below(Weights(a), Weights(b)) \/ Below(Weights(b), Weights(a))
  BY WeightsAreKey, BelowTotal
<1>2. Below(a, b) \/ Below(b, a)
  BY BelowTotal
<1> QED BY <1>1, <1>2 DEF Less

(* The two orders differ only where a capital meets a small letter.        *)
LEMMA LessUnlessCrossing ==
  ASSUME NEW caps, NEW a \in Keys, NEW b \in Keys, Below(a, b), ~Crossing(a, b)
  PROVE  Less(caps, a, b)
<1>1. PICK n \in 1..Len(b) : /\ \A i \in 1..(n - 1) : i <= Len(a) /\ a[i] = b[i]
                             /\ n <= Len(a) => a[n] < b[n]
  BY DEF Below
<1>2. /\ Len(Weights(a)) = Len(a) /\ Len(Weights(b)) = Len(b) /\ Len(a) \in Nat /\ Len(b) \in Nat
      /\ \A i \in 1..Len(a) : a[i] \in Digits /\ Weights(a)[i] = Weight(a[i])
      /\ \A i \in 1..Len(b) : b[i] \in Digits /\ Weights(b)[i] = Weight(b[i])
  BY WeightsAreKey
<1>3. \A i \in 1..(n - 1) : i <= Len(a) /\ Weights(a)[i] = Weights(b)[i]
  BY <1>1, <1>2
<1>4. n <= Len(a) => Weights(a)[n] < Weights(b)[n]
  <2> SUFFICES ASSUME n <= Len(a) PROVE Weights(a)[n] < Weights(b)[n]
    OBVIOUS
  <2>1. a[n] \in Digits /\ b[n] \in Digits /\ a[n] < b[n]
    BY <1>1, <1>2
  <2>2. ~(Capital(a[n]) /\ Small(b[n]))
    BY <1>1 DEF Crossing
  <2>3. Weight(a[n]) < Weight(b[n])
    BY <2>1, <2>2, KeysAssumption DEF Weight, Capital, Small, Digits, Top
  <2> QED BY <1>1, <1>2, <2>3
<1>5. Below(Weights(a), Weights(b))
  BY <1>1, <1>2, <1>3, <1>4 DEF Below
<1> QED BY <1>5 DEF Less

(* after_key gives a key that is listed after the one it is given, unless  *)
(* that one ends in the last capital: "Z" is followed by "a", which is     *)
(* listed before it.                                                       *)
THEOREM AfterKeyIsListedAfter ==
  ASSUME NEW caps, NEW a \in Keys
  PROVE  \/ Less(caps, a, AfterKey(a))
         \/ /\ a # NoKey /\ a[Len(a)] = LastCapital
            /\ AfterKey(a) # NoKey /\ AfterKey(a)[Len(AfterKey(a))] = LastCapital + 1
<1> DEFINE k == AfterKey(a)
<1>1. k \in Keys /\ Below(a, k) /\ Len(a) \in Nat
  BY AfterKeyComesAfter DEF Keys
<1>2. CASE a = NoKey
  <2>1. ~Crossing(a, k)
    BY <1>1, <1>2 DEF Crossing, NoKey
  <2> HIDE DEF k
  <2>2. Less(caps, a, k)
    BY <1>1, <2>1, LessUnlessCrossing
  <2> QED BY <2>2 DEF k
<1>3. CASE a # NoKey /\ a[Len(a)] = Top
  <2>1. k = Append(a, Pad) /\ Len(k) = Len(a) + 1 /\ \A i \in 1..Len(a) : k[i] = a[i]
    BY <1>1, <1>3, AppendDigit, KeysAssumption DEF AfterKey, Digits, Top
  <2> HIDE DEF k
  <2>2. \A i \in 1..Len(a) : ~(Capital(a[i]) /\ Small(k[i]))
    BY <2>1 DEF Capital
  <2>3. ~Crossing(a, k)
    BY <1>1, <2>1, <2>2 DEF Crossing
  <2>4. Less(caps, a, k)
    BY <1>1, <2>3, LessUnlessCrossing
  <2> QED BY <2>4 DEF k
<1>4. CASE a # NoKey /\ a[Len(a)] # Top
  <2>1. Len(a) \in 1..Len(a) /\ a[Len(a)] \in Digits
    BY <1>1, <1>4 DEF NoKey, Keys
  <2>2. /\ k = [i \in 1..Len(a) |-> IF i = Len(a) THEN a[i] + 1 ELSE a[i]]
        /\ Len(k) = Len(a) /\ k # NoKey /\ k[Len(a)] = a[Len(a)] + 1
        /\ \A i \in 1..Len(a) : i # Len(a) => k[i] = a[i]
    BY <1>1, <1>4, <2>1 DEF AfterKey, NoKey
  <2> HIDE DEF k
  <2>3. CASE a[Len(a)] = LastCapital
    <3>1. k # NoKey /\ k[Len(k)] = LastCapital + 1
      BY <2>2, <2>3
    <3> QED BY <1>4, <2>3, <3>1 DEF k
  <2>4. CASE a[Len(a)] # LastCapital
    <3>1. ~(Capital(a[Len(a)]) /\ Small(k[Len(a)]))
      BY <2>1, <2>2, <2>4, KeysAssumption DEF Capital, Small, LastCapital, Digits, Top
    <3>2. \A i \in 1..Len(a) : ~(Capital(a[i]) /\ Small(k[i]))
      BY <2>2, <3>1 DEF Capital
    <3>3. ~Crossing(a, k)
      BY <1>1, <2>2, <3>2 DEF Crossing
    <3>4. Less(caps, a, k)
      BY <1>1, <3>3, LessUnlessCrossing
    <3> QED BY <3>4 DEF k
  <2> QED BY <2>3, <2>4
<1> QED BY <1>2, <1>3, <1>4

(* In a finite set in strict total order each place is taken.              *)
LEMMA Ranks ==
  ASSUME NEW I, IsFiniteSet(I), NEW R,
         \A i \in I : <<i, i>> \notin R,
         \A i, j, k \in I : <<i, j>> \in R /\ <<j, k>> \in R => <<i, k>> \in R,
         \A i, j \in I : i # j => <<i, j>> \in R \/ <<j, i>> \in R
  PROVE  \A n \in 1..Cardinality(I) : \E i \in I : Cardinality({j \in I : <<j, i>> \in R}) = n - 1
<1> DEFINE Under(i) == {j \in I : <<j, i>> \in R}
           N == Cardinality(I)
           rank == [i \in I |-> Cardinality(Under(i)) + 1]
<1>1. N \in Nat
  BY FS_CardinalityType
<1>2. ASSUME NEW i \in I
      PROVE  Cardinality(Under(i)) \in 0..(N - 1)
  <2>1. Under(i) \in SUBSET (I \ {i})
    OBVIOUS
  <2>2. IsFiniteSet(I \ {i}) /\ Cardinality(I \ {i}) = N - 1
    BY FS_RemoveElement
  <2> HIDE DEF Under
  <2>3. IsFiniteSet(Under(i)) /\ Cardinality(Under(i)) <= N - 1
    BY <2>1, <2>2, FS_Subset
  <2> QED BY <1>1, <2>3, FS_CardinalityType
<1>3. ASSUME NEW i \in I, NEW j \in I, <<i, j>> \in R
      PROVE  Cardinality(Under(i)) # Cardinality(Under(j))
  <2>1. Under(i) \in SUBSET Under(j) /\ i \in Under(j) /\ i \notin Under(i)
    BY <1>3
  <2>2. Under(j) \in SUBSET I
    OBVIOUS
  <2> HIDE DEF Under
  <2>3. IsFiniteSet(Under(j))
    BY <2>2, FS_Subset
  <2>4. Cardinality(Under(j)) = Cardinality(Under(i)) => Under(j) = Under(i)
    BY <2>1, <2>3, FS_Subset
  <2> QED BY <2>1, <2>4
<1>4. rank \in Injection(I, 1..N)
  <2>1. rank \in [I -> 1..N]
    BY <1>1, <1>2
  <2>2. \A i, j \in I : i # j => rank[i] # rank[j]
    <3> SUFFICES ASSUME NEW i \in I, NEW j \in I, i # j PROVE rank[i] # rank[j]
      OBVIOUS
    <3>1. Cardinality(Under(i)) # Cardinality(Under(j))
      BY <1>3
    <3>2. Cardinality(Under(i)) \in Int /\ Cardinality(Under(j)) \in Int
      BY <1>1, <1>2
    <3> HIDE DEF Under
    <3> QED BY <3>1, <3>2
  <2> HIDE DEF rank
  <2> QED BY <2>1, <2>2 DEF Injection, IsInjective
<1>5. IsFiniteSet(1..N) /\ Cardinality(1..N) = N
  BY <1>1, FS_Interval
<1> HIDE DEF rank
<1>6. rank \in Surjection(I, 1..N)
  BY <1>4, <1>5, FS_Injection
<1>7. ASSUME NEW n \in 1..N
      PROVE  \E i \in I : Cardinality(Under(i)) = n - 1
  <2>1. PICK i \in I : rank[i] = n
    BY <1>6 DEF Surjection
  <2>2. Cardinality(Under(i)) + 1 = n
    BY <2>1 DEF rank
  <2>3. Cardinality(Under(i)) \in Int
    BY <1>1, <1>2
  <2> HIDE DEF Under
  <2> QED BY <1>1, <2>2, <2>3
<1> QED BY <1>7

(* A set that is enumerated has each of its members in one place.          *)
LEMMA EnumeratedOnce ==
  ASSUME NEW S, IsFiniteSet(S)
  PROVE  /\ Cardinality(S) \in Nat
         /\ Enumerated(S) \in [1..Cardinality(S) -> S]
         /\ \A x \in S : \E i \in 1..Cardinality(S) : Enumerated(S)[i] = x
         /\ \A i, j \in 1..Cardinality(S) : Enumerated(S)[i] = Enumerated(S)[j] => i = j
<1> DEFINE N == Cardinality(S)
           s == Enumerated(S)
<1>1. N \in Nat /\ ExistsBijection(1..N, S)
  BY FS_CardinalityType
<1>2. PICK g \in [1..N -> S] : \A x \in S : \E i \in 1..N : g[i] = x
  BY <1>1 DEF ExistsBijection, Bijection, Surjection
<1>3. s \in [1..N -> S] /\ \A x \in S : \E i \in DOMAIN s : s[i] = x
  <2>1. \A x \in S : \E i \in DOMAIN g : g[i] = x
    BY <1>2
  <2> QED BY <2>1 DEF Enumerated
<1> HIDE DEF s
<1>4. s \in Surjection(1..N, S)
  BY <1>3 DEF Surjection
<1>5. IsFiniteSet(1..N) /\ Cardinality(1..N) = N
  BY <1>1, FS_Interval
<1>6. s \in Injection(1..N, S)
  BY <1>4, <1>5, FS_SurjSameCardinalityImpliesInj
<1>7. \A i, j \in 1..N : s[i] = s[j] => i = j
  BY <1>6 DEF Injection, IsInjective
<1>8. \A x \in S : \E i \in 1..N : s[i] = x
  BY <1>3
<1> QED BY <1>1, <1>3, <1>7, <1>8 DEF s

Entries == [id : Items, key : Keys]

EachOnce(list) == \A i, j \in DOMAIN list : list[i].id = list[j].id => i = j

Lists == {list \in Seq(Entries) : EachOnce(list)}

(* Sorting a list puts its entries in other places.                        *)
LEMMA SortedList ==
  ASSUME NEW caps, NEW list \in Lists
  PROVE  Sorted(caps, list) \in Lists
<1> DEFINE I == DOMAIN list
           R == {ji \in I \X I : Earlier(caps, list, ji[1], ji[2])}
<1>1. list \in Seq(Entries) /\ Len(list) \in Nat /\ I = 1..Len(list)
  BY DEF Lists
<1>2. \A i \in I : list[i] \in Entries /\ list[i].key \in Keys
  <2>1. \A i \in I : list[i] \in Entries
    BY <1>1
  <2> QED BY <2>1 DEF Entries
<1>3. IsFiniteSet(I) /\ Cardinality(I) = Len(list)
  BY <1>1, FS_Interval
<1>4. \A i \in I : <<i, i>> \notin R
  BY <1>1, <1>2, LessIrreflexive DEF Earlier
<1>5. \A i, j, k \in I : <<i, j>> \in R /\ <<j, k>> \in R => <<i, k>> \in R
  <2> SUFFICES ASSUME NEW i \in I, NEW j \in I, NEW k \in I, Earlier(caps, list, i, j), Earlier(caps, list, j, k)
               PROVE  Earlier(caps, list, i, k)
    OBVIOUS
  <2>1. list[i].key \in Keys /\ list[j].key \in Keys /\ list[k].key \in Keys
    BY <1>2
  <2>2. Less(caps, list[i].key, list[j].key) /\ Less(caps, list[j].key, list[k].key) => Less(caps, list[i].key, list[k].key)
    BY <2>1, LessTransitive
  <2> QED BY <1>1, <2>2 DEF Earlier
<1>6. \A i, j \in I : i # j => <<i, j>> \in R \/ <<j, i>> \in R
  <2> SUFFICES ASSUME NEW i \in I, NEW j \in I, i # j PROVE Earlier(caps, list, i, j) \/ Earlier(caps, list, j, i)
    OBVIOUS
  <2>1. list[i].key \in Keys /\ list[j].key \in Keys
    BY <1>2
  <2>2. list[i].key # list[j].key => Less(caps, list[i].key, list[j].key) \/ Less(caps, list[j].key, list[i].key)
    BY <2>1, LessTotal
  <2> QED BY <1>1, <2>2 DEF Earlier
<1>7. \A i \in I : {j \in I : <<j, i>> \in R} = {j \in I : Earlier(caps, list, j, i)}
  OBVIOUS
<1> HIDE DEF R
<1>8. \A n \in I : \E i \in I : Cardinality({j \in I : <<j, i>> \in R}) = n - 1
  BY <1>1, <1>3, <1>4, <1>5, <1>6, Ranks
<1>9. \A n \in I : Nth(caps, list, n) \in I /\ Cardinality({j \in I : Earlier(caps, list, j, Nth(caps, list, n))}) = n - 1
  <2> TAKE n \in I
  <2>1. \E i \in I : Cardinality({j \in I : Earlier(caps, list, j, i)}) = n - 1
    BY <1>7, <1>8
  <2> QED BY <2>1 DEF Nth
<1>10. \A n, m \in I : Nth(caps, list, n) = Nth(caps, list, m) => n = m
  <2> SUFFICES ASSUME NEW n \in I, NEW m \in I, Nth(caps, list, n) = Nth(caps, list, m) PROVE n = m
    OBVIOUS
  <2>1. n - 1 = m - 1
    BY <1>9
  <2> QED BY <1>1, <2>1
<1>11. /\ Sorted(caps, list) \in Seq(Entries) /\ DOMAIN Sorted(caps, list) = I
       /\ \A n \in I : Sorted(caps, list)[n] = list[Nth(caps, list, n)]
  <2> DEFINE sorted == [n \in I |-> list[Nth(caps, list, n)]]
  <2>1. \A n \in I : list[Nth(caps, list, n)] \in Entries
    BY <1>2, <1>9
  <2>2. sorted \in [1..Len(list) -> Entries] /\ \A n \in I : sorted[n] = list[Nth(caps, list, n)]
    BY <1>1, <2>1
  <2>3. Sorted(caps, list) = sorted
    BY DEF Sorted
  <2> HIDE DEF sorted
  <2>4. sorted \in Seq(Entries) /\ DOMAIN sorted = I
    BY <1>1, <2>2
  <2> QED BY <2>2, <2>3, <2>4
<1>12. EachOnce(Sorted(caps, list))
  <2>1. EachOnce(list)
    BY DEF Lists
  <2>2. ASSUME NEW n \in I, NEW m \in I, Sorted(caps, list)[n].id = Sorted(caps, list)[m].id
        PROVE  n = m
    <3>1. list[Nth(caps, list, n)].id = list[Nth(caps, list, m)].id
      BY <1>11, <2>2
    <3>2. Nth(caps, list, n) = Nth(caps, list, m)
      BY <1>9, <2>1, <3>1 DEF EachOnce
    <3> QED BY <1>10, <3>2
  <2> QED BY <1>11, <2>2 DEF EachOnce
<1> QED BY <1>11, <1>12 DEF Lists

(* Each key a reordering gives is made from the one before it.             *)
LEMMA NthKeys ==
  /\ NthKey[0] = NoKey
  /\ \A n \in Nat : NthKey[n] \in Keys /\ NthKey[n + 1] = AfterKey(NthKey[n])
<1> DEFINE Starts(n) == {g \in [0..n -> Keys] : g[0] = NoKey /\ \A i \in 1..n : g[i] = AfterKey(g[i - 1])}
<1>1. NoKey \in Keys /\ \A a \in Keys : AfterKey(a) \in Keys
  BY AfterKeyComesAfter DEF NoKey, Keys
<1>2. \A n \in Nat : Starts(n) # {}
  <2> DEFINE Bad == {n \in Nat : Starts(n) = {}}
  <2> SUFFICES ASSUME Bad # {} PROVE FALSE
    OBVIOUS
  <2>1. PICK n \in Bad : \A y \in Bad : y >= n
    BY LeastElement
  <2>2. n # 0
    <3> DEFINE g == [i \in 0..0 |-> NoKey]
    <3>1. g \in Starts(0)
      BY <1>1
    <3> QED BY <3>1, <2>1
  <2>3. n \in Nat /\ n - 1 \in Nat /\ n - 1 < n
    BY <2>1, <2>2
  <2>4. PICK g \in Starts(n - 1) : TRUE
    <3>1. n - 1 \notin Bad
      <4> HIDE DEF Bad
      <4> QED BY <2>1, <2>3
    <3> QED BY <2>3, <3>1
  <2> DEFINE h == [i \in 0..n |-> IF i = n THEN AfterKey(g[n - 1]) ELSE g[i]]
  <2>5. h \in [0..n -> Keys]
    BY <1>1, <2>3, <2>4
  <2>6. h[0] = NoKey /\ \A i \in 1..n : h[i] = AfterKey(h[i - 1])
    BY <2>2, <2>3, <2>4
  <2>7. h \in Starts(n)
    BY <2>5, <2>6
  <2> QED BY <2>1, <2>7
<1>3. ASSUME NEW n \in Nat, NEW m \in Nat, NEW g \in Starts(n), NEW h \in Starts(m)
      PROVE  \A i \in Nat : i <= n /\ i <= m => g[i] = h[i]
  <2> DEFINE Bad == {i \in Nat : i <= n /\ i <= m /\ g[i] # h[i]}
  <2> SUFFICES ASSUME Bad # {} PROVE FALSE
    OBVIOUS
  <2>1. PICK i \in Bad : \A y \in Bad : y >= i
    BY LeastElement
  <2>2. i \in 1..n /\ i \in 1..m
    BY <2>1
  <2>3. i - 1 \in Nat /\ i - 1 \notin Bad
    BY <2>1, <2>2
  <2>4. g[i - 1] = h[i - 1]
    BY <2>2, <2>3
  <2> QED BY <2>1, <2>2, <2>4
<1> DEFINE f == [n \in Nat |-> (CHOOSE g \in Starts(n) : TRUE)[n]]
<1>4. \A n \in Nat : \E g \in Starts(n) : f[n] = g[n]
  BY <1>2
<1> HIDE DEF f
<1>5. f[0] = NoKey
  BY <1>4
<1>6. ASSUME NEW n \in Nat
      PROVE  f[n] \in Keys /\ f[n + 1] = AfterKey(f[n])
  <2>1. PICK g \in Starts(n) : f[n] = g[n]
    BY <1>4
  <2>2. PICK h \in Starts(n + 1) : f[n + 1] = h[n + 1]
    <3>1. n + 1 \in Nat
      OBVIOUS
    <3> HIDE DEF Starts
    <3> QED BY <1>4, <3>1
  <2>3. g[n] = h[n]
    BY <1>3
  <2>4. n + 1 \in 1..(n + 1) /\ n + 1 - 1 = n
    OBVIOUS
  <2>5. h[n + 1] = AfterKey(h[n])
    BY <2>2, <2>4
  <2> QED BY <2>1, <2>2, <2>3, <2>5
<1>7. f = [n \in Nat |-> IF n = 0 THEN NoKey ELSE AfterKey(f[n - 1])]
  <2>1. f = [n \in Nat |-> f[n]]
    BY DEF f
  <2>2. \A n \in Nat : f[n] = IF n = 0 THEN NoKey ELSE AfterKey(f[n - 1])
    <3> TAKE n \in Nat
    <3>1. CASE n = 0
      BY <1>5, <3>1
    <3>2. CASE n # 0
      <4>1. n - 1 \in Nat /\ n - 1 + 1 = n
        BY <3>2
      <4>2. f[n - 1 + 1] = AfterKey(f[n - 1])
        BY <1>6, <4>1
      <4> QED BY <3>2, <4>1, <4>2
    <3> QED BY <3>1, <3>2
  <2> QED BY <2>1, <2>2
<1>8. NthKey = [n \in Nat |-> IF n = 0 THEN NoKey ELSE AfterKey(NthKey[n - 1])]
  BY <1>7 DEF NthKey
<1>9. NthKey[0] = NoKey
  BY <1>8
<1>10. \A n \in Nat : NthKey[n + 1] = AfterKey(NthKey[n])
  <2> TAKE n \in Nat
  <2>1. n + 1 \in Nat /\ n + 1 # 0 /\ n + 1 - 1 = n
    OBVIOUS
  <2> QED BY <1>8, <2>1
<1>11. \A n \in Nat : NthKey[n] = f[n]
  <2> DEFINE Bad == {n \in Nat : NthKey[n] # f[n]}
  <2> SUFFICES ASSUME Bad # {} PROVE FALSE
    OBVIOUS
  <2>1. PICK n \in Bad : \A y \in Bad : y >= n
    BY LeastElement
  <2>2. n # 0 /\ n \in Nat /\ NthKey[n] # f[n]
    BY <1>5, <1>9, <2>1
  <2>3. n - 1 \in Nat /\ n - 1 \notin Bad /\ n - 1 + 1 = n
    BY <2>1, <2>2
  <2>4. NthKey[n - 1] = f[n - 1] /\ NthKey[n - 1 + 1] = AfterKey(NthKey[n - 1]) /\ f[n - 1 + 1] = AfterKey(f[n - 1])
    BY <1>6, <1>10, <2>3
  <2> QED BY <2>2, <2>3, <2>4
<1> QED BY <1>6, <1>9, <1>10, <1>11

LEMMA LaterKeysComeAfter ==
  ASSUME NEW i \in Nat, NEW j \in Nat, i < j
  PROVE  Below(NthKey[i], NthKey[j])
<1> DEFINE Bad == {n \in Nat : i < n /\ ~Below(NthKey[i], NthKey[n])}
<1> SUFFICES ASSUME Bad # {} PROVE FALSE
  OBVIOUS
<1>1. PICK n \in Bad : \A y \in Bad : y >= n
  BY LeastElement
<1>2. n - 1 \in Nat /\ i <= n - 1 /\ n - 1 + 1 = n /\ n - 1 \notin Bad
  BY <1>1
<1>3. NthKey[n] = AfterKey(NthKey[n - 1]) /\ NthKey[i] \in Keys /\ NthKey[n - 1] \in Keys /\ NthKey[n] \in Keys
  BY <1>1, <1>2, NthKeys
<1>4. Below(NthKey[n - 1], NthKey[n])
  BY <1>3, AfterKeyComesAfter
<1>5. i = n - 1 \/ Below(NthKey[i], NthKey[n - 1])
  BY <1>2
<1>6. Below(NthKey[i], NthKey[n])
  BY <1>3, <1>4, <1>5, BelowTransitive
<1> QED BY <1>1, <1>6

(* The key an artifact is added after is the last one listed.              *)
LEMMA LastKeyIsLast ==
  ASSUME order \in [Items -> Keys], Linked # {}
  PROVE  LastKey \in Keys /\ \A x \in Linked : order[x] = LastKey \/ Less(MantleCaps, order[x], LastKey)
<1> DEFINE K == {order[x] : x \in Linked}
           R == {ab \in K \X K : Less(MantleCaps, ab[1], ab[2])}
           keyOf == [x \in Linked |-> order[x]]
<1>1. IsFiniteSet(Linked) /\ Linked \subseteq Items
  <2>1. Linked \in SUBSET Items
    BY DEF Linked
  <2> QED BY <2>1, ListingAssumption, FS_Subset
<1>2. K \subseteq Keys /\ K # {}
  BY <1>1
<1>3. IsFiniteSet(K)
  <2>1. keyOf \in Surjection(Linked, K)
    BY DEF Surjection
  <2> HIDE DEF keyOf, K
  <2> QED BY <1>1, <2>1, FS_Surjection
<1>4. Cardinality(K) \in Nat \ {0}
  <2> HIDE DEF K
  <2> QED BY <1>2, <1>3, FS_CardinalityType, FS_EmptySet
<1>5. \A a \in K : <<a, a>> \notin R
  BY <1>2, LessIrreflexive
<1>6. \A a, b, c \in K : <<a, b>> \in R /\ <<b, c>> \in R => <<a, c>> \in R
  <2> HIDE DEF K
  <2> SUFFICES ASSUME NEW a \in K, NEW b \in K, NEW c \in K, Less(MantleCaps, a, b), Less(MantleCaps, b, c) PROVE Less(MantleCaps, a, c)
    OBVIOUS
  <2> QED BY <1>2, LessTransitive
<1>7. \A a, b \in K : a # b => <<a, b>> \in R \/ <<b, a>> \in R
  <2> HIDE DEF K
  <2> SUFFICES ASSUME NEW a \in K, NEW b \in K, a # b PROVE Less(MantleCaps, a, b) \/ Less(MantleCaps, b, a)
    OBVIOUS
  <2> QED BY <1>2, LessTotal
<1>8. \A a, b \in K : <<a, b>> \in R <=> Less(MantleCaps, a, b)
  OBVIOUS
<1>9. Cardinality(K) \in 1..Cardinality(K)
  BY <1>4
<1> HIDE DEF R, K
<1>10. PICK k \in K : Cardinality({a \in K : <<a, k>> \in R}) = Cardinality(K) - 1
  <2>1. \A n \in 1..Cardinality(K) : \E k \in K : Cardinality({a \in K : <<a, k>> \in R}) = n - 1
    BY <1>3, <1>5, <1>6, <1>7, Ranks
  <2> QED BY <1>9, <2>1
<1>11. {a \in K : <<a, k>> \in R} = K \ {k}
  <2> DEFINE T == {a \in K : <<a, k>> \in R}
  <2>1. T \in SUBSET (K \ {k})
    BY <1>5
  <2>2. IsFiniteSet(K \ {k}) /\ Cardinality(K \ {k}) = Cardinality(K) - 1
    BY <1>3, FS_RemoveElement
  <2>3. Cardinality(T) = Cardinality(K \ {k})
    BY <1>10, <2>2
  <2> HIDE DEF T
  <2>4. T = K \ {k}
    BY <2>1, <2>2, <2>3, FS_Subset
  <2> QED BY <2>4 DEF T
<1>12. \A a \in K : a = k \/ Less(MantleCaps, a, k)
  BY <1>8, <1>11
<1>13. \A x \in Linked : order[x] = k \/ Less(MantleCaps, order[x], k)
  BY <1>12 DEF K
<1>14. \E m \in {order[x] : x \in Linked} : \A x \in Linked : order[x] = m \/ Less(MantleCaps, order[x], m)
  BY <1>13 DEF K
<1>15. LastKey \in {order[x] : x \in Linked} /\ \A x \in Linked : order[x] = LastKey \/ Less(MantleCaps, order[x], LastKey)
  BY <1>14 DEF LastKey
<1> QED BY <1>2, <1>15 DEF K

-----------------------------------------------------------------------------
Requests == {ids \in Seq(Items) : \A i, j \in DOMAIN ids : ids[i] = ids[j] => i = j}

LEMMA IdsOfList ==
  ASSUME NEW list \in Lists
  PROVE  [i \in DOMAIN list |-> list[i].id] \in Requests
<1>1. list \in Seq(Entries) /\ Len(list) \in Nat /\ DOMAIN list = 1..Len(list)
  BY DEF Lists
<1>2. \A i \in DOMAIN list : list[i] \in Entries
  BY <1>1
<1>3. \A i \in DOMAIN list : list[i].id \in Items
  BY <1>2 DEF Entries
<1> DEFINE ids == [i \in DOMAIN list |-> list[i].id]
<1>4. ids \in [1..Len(list) -> Items] /\ DOMAIN ids = DOMAIN list /\ \A i \in DOMAIN list : ids[i] = list[i].id
  BY <1>1, <1>3
<1> HIDE DEF ids
<1>5. ids \in Seq(Items)
  BY <1>1, <1>4
<1>6. \A i, j \in DOMAIN ids : ids[i] = ids[j] => i = j
  BY <1>4 DEF Lists, EachOnce
<1>7. ids \in Requests
  BY <1>5, <1>6 DEF Requests
<1> QED BY <1>7 DEF ids

LEMMA NumberedAnew ==
  ASSUME NEW list \in Lists
  PROVE  [i \in DOMAIN list |-> [id |-> list[i].id, key |-> NthKey[i]]] \in Lists
<1>1. list \in Seq(Entries) /\ Len(list) \in Nat /\ DOMAIN list = 1..Len(list)
  BY DEF Lists
<1>2. \A i \in DOMAIN list : list[i] \in Entries
  BY <1>1
<1>3. \A i \in DOMAIN list : [id |-> list[i].id, key |-> NthKey[i]] \in Entries
  <2>1. \A i \in DOMAIN list : NthKey[i] \in Keys
    BY <1>1, NthKeys
  <2> QED BY <1>2, <2>1 DEF Entries
<1> DEFINE anew == [i \in DOMAIN list |-> [id |-> list[i].id, key |-> NthKey[i]]]
<1>4. /\ anew \in [1..Len(list) -> Entries] /\ DOMAIN anew = DOMAIN list
      /\ \A i \in DOMAIN list : anew[i].id = list[i].id
  BY <1>1, <1>3
<1> HIDE DEF anew
<1>5. anew \in Seq(Entries)
  BY <1>1, <1>4
<1>6. EachOnce(anew)
  BY <1>4 DEF Lists, EachOnce
<1>7. anew \in Lists
  BY <1>5, <1>6 DEF Lists
<1> QED BY <1>7 DEF anew

LEMMA AppendedList ==
  ASSUME NEW list \in Lists, NEW x \in Items
  PROVE  Appended(list, x) \in Lists
<1>1. CASE \E i \in DOMAIN list : list[i].id = x
  BY <1>1 DEF Appended
<1>2. CASE ~ \E i \in DOMAIN list : list[i].id = x
  <2> DEFINE e == [id |-> x, key |-> NoKey]
             more == Append(list, e)
  <2>1. e \in Entries /\ e.id = x
    BY DEF Entries, Keys, NoKey
  <2>2. list \in Seq(Entries) /\ EachOnce(list)
    BY DEF Lists
  <2> HIDE DEF e
  <2>3. /\ more \in Seq(Entries) /\ Len(list) \in Nat /\ DOMAIN list = 1..Len(list)
        /\ DOMAIN more = 1..(Len(list) + 1)
        /\ \A i \in 1..Len(list) : more[i] = list[i]
        /\ more[Len(list) + 1] = e
    BY <2>1, <2>2
  <2> HIDE DEF more
  <2>4. EachOnce(more)
    <3> SUFFICES ASSUME NEW i \in DOMAIN more, NEW j \in DOMAIN more, more[i].id = more[j].id PROVE i = j
      BY DEF EachOnce
    <3>1. CASE i \in DOMAIN list /\ j \in DOMAIN list
      BY <2>2, <2>3, <3>1 DEF EachOnce
    <3>2. i = Len(list) + 1 \/ i \in DOMAIN list
      BY <2>3
    <3>3. j = Len(list) + 1 \/ j \in DOMAIN list
      BY <2>3
    <3> QED BY <1>2, <2>1, <2>3, <3>1, <3>2, <3>3
  <2>5. Appended(list, x) = more
    BY <1>2 DEF Appended, more, e
  <2> QED BY <2>3, <2>4, <2>5 DEF Lists
<1> QED BY <1>1, <1>2

LEMMA RemovedList ==
  ASSUME NEW list \in Lists, NEW i \in DOMAIN list
  PROVE  /\ Removed(list, i) \in Lists
         /\ Len(Removed(list, i)) = Len(list) - 1
         /\ \A k \in DOMAIN Removed(list, i) : Removed(list, i)[k].id # list[i].id
<1> DEFINE rest == Removed(list, i)
           from(k) == IF k < i THEN k ELSE k + 1
<1>1. list \in Seq(Entries) /\ EachOnce(list) /\ IsSeq(list)
  BY DEF Lists, IsSeq
<1>2. /\ IsSeq(rest)
      /\ Len(list) \in Nat /\ DOMAIN list = 1..Len(list) /\ i \in 1..Len(list)
      /\ Len(rest) = Len(list) - 1 /\ DOMAIN rest = 1..(Len(list) - 1)
      /\ \A k \in 1..(Len(list) - 1) : rest[k] = list[from(k)]
  BY <1>1, OneLess DEF Removed
<1> HIDE DEF rest
<1>3. \A k \in DOMAIN rest : from(k) \in DOMAIN list /\ from(k) # i /\ rest[k] = list[from(k)]
  BY <1>2
<1>4. \A k, l \in DOMAIN rest : from(k) = from(l) => k = l
  BY <1>2
<1> HIDE DEF from
<1>5. \A k \in DOMAIN rest : rest[k] \in Entries
  BY <1>1, <1>3
<1>6. rest \in Seq(Entries)
  <2>1. PICK S : rest \in Seq(S)
    BY <1>2 DEF IsSeq
  <2>2. rest \in [1..Len(rest) -> Entries] /\ Len(rest) \in Nat
    BY <1>2, <1>5, <2>1
  <2> QED BY <2>2
<1>7. EachOnce(rest)
  BY <1>1, <1>3, <1>4 DEF EachOnce
<1>8. \A k \in DOMAIN rest : rest[k].id # list[i].id
  BY <1>1, <1>3 DEF EachOnce
<1> QED BY <1>2, <1>6, <1>7, <1>8 DEF rest, Lists

LEMMA WithoutList ==
  ASSUME NEW list \in Lists, NEW x
  PROVE  Without(list, x) \in Lists
<1>1. CASE \E i \in DOMAIN list : list[i].id = x
  <2> DEFINE i == CHOOSE i \in DOMAIN list : list[i].id = x
  <2>1. i \in DOMAIN list
    BY <1>1
  <2>2. Without(list, x) = Removed(list, i)
    BY <1>1 DEF Without
  <2> HIDE DEF i
  <2> QED BY <2>1, <2>2, RemovedList
<1>2. CASE ~ \E i \in DOMAIN list : list[i].id = x
  BY <1>2 DEF Without
<1> QED BY <1>1, <1>2

LEMMA OneInserted ==
  ASSUME NEW S, NEW s \in Seq(S), NEW e \in S, NEW n \in 1..(Len(s) + 1)
  PROVE  LET t == SubSeq(s, 1, n - 1) \o <<e>> \o SubSeq(s, n, Len(s))
         IN  /\ t \in Seq(S) /\ Len(s) \in Nat /\ Len(t) = Len(s) + 1
             /\ \A k \in 1..(Len(s) + 1) :
                  t[k] = IF k = n THEN e ELSE s[IF k < n THEN k ELSE k - 1]
<1> DEFINE a == SubSeq(s, 1, n - 1)
           b == SubSeq(s, n, Len(s))
           d == a \o <<e>>
<1>1. Len(s) \in Nat
  OBVIOUS
<1>2. a \in Seq(S) /\ Len(a) = n - 1 /\ \A k \in 1..(n - 1) : a[k] = s[k]
  BY <1>1
<1>3. b \in Seq(S) /\ Len(b) = Len(s) - n + 1 /\ \A k \in 1..(Len(s) - n + 1) : b[k] = s[k + n - 1]
  BY <1>1
<1> HIDE DEF a, b
<1>4. d \in Seq(S) /\ Len(d) = n /\ d[n] = e /\ \A k \in 1..(n - 1) : d[k] = s[k]
  BY <1>1, <1>2
<1> HIDE DEF d
<1>5. d \o b \in Seq(S) /\ Len(d \o b) = Len(s) + 1
  BY <1>1, <1>3, <1>4, ConcatProperties
<1>6. ASSUME NEW k \in 1..(Len(s) + 1)
      PROVE  (d \o b)[k] = IF k = n THEN e ELSE s[IF k < n THEN k ELSE k - 1]
  <2>1. k \in 1..(Len(d) + Len(b))
    BY <1>1, <1>3, <1>4
  <2>2. (d \o b)[k] = IF k <= Len(d) THEN d[k] ELSE b[k - Len(d)]
    BY <1>3, <1>4, <2>1, ConcatProperties
  <2>3. CASE k <= n
    BY <1>1, <1>4, <2>2, <2>3
  <2>4. CASE k > n
    <3>1. k - n \in 1..(Len(s) - n + 1) /\ k - n + n - 1 = k - 1
      BY <1>1, <2>4
    <3>2. b[k - n] = s[k - 1]
      BY <1>3, <3>1
    <3>3. (d \o b)[k] = b[k - n]
      BY <1>1, <1>4, <2>2, <2>4
    <3>4. k # n /\ (IF k < n THEN k ELSE k - 1) = k - 1
      BY <1>1, <2>4
    <3>5. (d \o b)[k] = s[k - 1]
      BY <3>2, <3>3
    <3> QED BY <3>4, <3>5
  <2>5. k <= n \/ k > n
    BY <1>1
  <2> QED BY <2>3, <2>4, <2>5
<1> QED BY <1>1, <1>5, <1>6 DEF a, b, d

LEMMA MovedList ==
  ASSUME NEW list \in Lists, NEW from \in DOMAIN list, NEW to \in DOMAIN list
  PROVE  Moved(list, from, to) \in Lists
<1> DEFINE rest == Removed(list, from)
           moved == Moved(list, from, to)
           of(k) == IF k < to THEN k ELSE k - 1
           e == list[from]
<1>1. list \in Seq(Entries) /\ Len(list) \in Nat /\ DOMAIN list = 1..Len(list) /\ list[from] \in Entries
  BY DEF Lists
<1>2. rest \in Lists /\ Len(rest) = Len(list) - 1 /\ \A k \in DOMAIN rest : rest[k].id # list[from].id
  BY RemovedList
<1>3. rest \in Seq(Entries) /\ EachOnce(rest) /\ to \in 1..(Len(rest) + 1) /\ DOMAIN rest = 1..Len(rest)
  BY <1>1, <1>2 DEF Lists
<1>4. moved = SubSeq(rest, 1, to - 1) \o <<list[from]>> \o SubSeq(rest, to, Len(rest))
  BY DEF Moved
<1> HIDE DEF rest, moved
<1>5. /\ moved \in Seq(Entries) /\ Len(rest) \in Nat /\ Len(moved) = Len(rest) + 1
      /\ \A k \in 1..(Len(rest) + 1) : moved[k] = IF k = to THEN list[from] ELSE rest[of(k)]
  <2> e \in Entries
    BY <1>1
  <2> DEFINE t == SubSeq(rest, 1, to - 1) \o <<e>> \o SubSeq(rest, to, Len(rest))
  <2>1. moved = t
    BY <1>4
  <2> HIDE DEF e
  <2>2. /\ t \in Seq(Entries) /\ Len(rest) \in Nat /\ Len(t) = Len(rest) + 1
        /\ \A k \in 1..(Len(rest) + 1) :
             t[k] = IF k = to THEN e ELSE rest[IF k < to THEN k ELSE k - 1]
    BY <1>3, OneInserted
  <2> HIDE DEF t
  <2> QED BY <2>1, <2>2 DEF e
<1>6. \A k \in DOMAIN moved : k # to => of(k) \in DOMAIN rest /\ moved[k] = rest[of(k)]
  BY <1>1, <1>3, <1>5
<1>7. \A k, l \in DOMAIN moved : k # to /\ l # to /\ of(k) = of(l) => k = l
  BY <1>1, <1>3, <1>5
<1>8. to \in DOMAIN moved => moved[to] = list[from]
  BY <1>3, <1>5
<1> HIDE DEF of
<1>9. EachOnce(moved)
  <2> SUFFICES ASSUME NEW k \in DOMAIN moved, NEW l \in DOMAIN moved, moved[k].id = moved[l].id PROVE k = l
    BY DEF EachOnce
  <2>1. k # to => moved[k].id # list[from].id
    BY <1>2, <1>6
  <2>2. l # to => moved[l].id # list[from].id
    BY <1>2, <1>6
  <2>3. k = to <=> l = to
    BY <1>8, <2>1, <2>2
  <2>4. k # to /\ l # to => of(k) = of(l)
    BY <1>3, <1>6 DEF EachOnce
  <2> QED BY <1>7, <2>3, <2>4
<1> QED BY <1>5, <1>9 DEF Lists, moved

Order == order \in [Items -> Keys]

Placed == Order /\ promised \subseteq Items \X Items /\ PlacedAsAsked

(* The order of two keys as far as it is promised.                         *)
Fits(a, b) == Less(MantleCaps, a, b) \/ Misplaced(a, b)

LEMMA BelowFits ==
  ASSUME NEW a \in Keys, NEW b \in Keys, Below(a, b)
  PROVE  Fits(a, b)
BY LessUnlessCrossing DEF Fits, Misplaced

Shown == shown \in Lists /\ moves \in Seq(Requests)

(* A file that is yet to be announced, or whose artifact is yet to be      *)
(* made, is not in the workspace; its key comes after its left neighbour's.*)
Behind(call) == call.key \in Keys /\ call.leftKey \in Keys /\ Below(call.leftKey, call.key)

Unplaced(f) ==
  /\ task[f] = "idle" => order[f] = NoKey
  /\ \A i \in DOMAIN calls[f] : calls[f][i].op = "initiate" => order[f] = NoKey /\ Behind(calls[f][i])

ListInv == Placed /\ Shown /\ \A f \in Files : Unplaced(f)

(* Artifacts get other keys, their promises end, and new ones are kept.    *)
LEMMA PromisesKept ==
  ASSUME Placed, NEW S, NEW New, Order',
         \A y \in Items \ S : order'[y] = order[y],
         promised' = Besides(S) \cup New, New \subseteq Items \X Items,
         \A p \in New : Fits(order'[p[1]], order'[p[2]])
  PROVE  Placed'
<1>1. ASSUME NEW p \in Besides(S)
      PROVE  p \in Items \X Items /\ Fits(order'[p[1]], order'[p[2]])
  <2>1. p \in promised /\ p[1] \notin S /\ p[2] \notin S
    BY <1>1 DEF Besides
  <2>2. p \in Items \X Items /\ Fits(order[p[1]], order[p[2]])
    BY <2>1 DEF Placed, PlacedAsAsked, Fits
  <2>3. p[1] \in Items \ S /\ p[2] \in Items \ S
    BY <2>1, <2>2
  <2> QED BY <2>2, <2>3
<1> QED BY <1>1 DEF Placed, PlacedAsAsked, Fits

LEMMA AddAtEndKeeps ==
  ASSUME Placed, NEW x \in Items, AddAtEnd(x)
  PROVE  Placed' /\ \A y \in Items \ {x} : order'[y] = order[y]
<1>1. /\ order[x] = NoKey /\ order' = [order EXCEPT ![x] = AfterKey(LastKey)]
      /\ promised' = Besides({x}) \cup {<<y, x>> : y \in Linked}
  BY DEF AddAtEnd, AddEdge
<1>2. Order /\ Linked \subseteq Items /\ x \notin Linked
  BY <1>1 DEF Placed, Linked
<1>3. LastKey \in Keys
  <2>1. CASE Linked = {}
    BY <2>1 DEF LastKey, NoKey, Keys
  <2>2. CASE Linked # {}
    BY <1>2, <2>2, LastKeyIsLast DEF Order
  <2> QED BY <2>1, <2>2
<1>4. AfterKey(LastKey) \in Keys
  BY <1>3, AfterKeyComesAfter
<1>5. Order' /\ order'[x] = AfterKey(LastKey) /\ \A y \in Items \ {x} : order'[y] = order[y]
  BY <1>1, <1>2, <1>4 DEF Order
<1>6. ASSUME NEW y \in Linked
      PROVE  Fits(order'[y], order'[x])
  <2>1. order'[y] = order[y] /\ order[y] \in Keys
    BY <1>2, <1>5 DEF Order
  <2>2. order[y] = LastKey \/ Less(MantleCaps, order[y], LastKey)
    BY <1>2, LastKeyIsLast DEF Order
  <2>3. CASE Less(MantleCaps, LastKey, AfterKey(LastKey))
    <3>1. Less(MantleCaps, order[y], AfterKey(LastKey))
      BY <1>3, <1>4, <2>1, <2>2, <2>3, LessTransitive
    <3> QED BY <1>5, <2>1, <3>1 DEF Fits
  <2>4. CASE ~Less(MantleCaps, LastKey, AfterKey(LastKey))
    <3>1. Misplaced(order[y], AfterKey(LastKey))
      BY <1>3, <2>4, AfterKeyIsListedAfter DEF Misplaced
    <3> QED BY <1>5, <2>1, <3>1 DEF Fits
  <2> QED BY <2>3, <2>4
<1> DEFINE New == {<<y, x>> : y \in Linked}
<1>7. New \subseteq Items \X Items /\ \A p \in New : Fits(order'[p[1]], order'[p[2]])
  BY <1>2, <1>6
<1>8. promised' = Besides({x}) \cup New
  BY <1>1
<1> HIDE DEF New
<1>9. Placed'
  BY <1>5, <1>7, <1>8, PromisesKept
<1> QED BY <1>5, <1>9

LEMMA UnlinkKeeps ==
  ASSUME Placed, NEW x \in Items, NEW withDocument, Unlink(x, withDocument)
  PROVE  Placed' /\ \A y \in Items \ {x} : order'[y] = order[y]
<1>1. order' = [order EXCEPT ![x] = NoKey] /\ promised' = Besides({x})
  BY DEF Unlink
<1>2. NoKey \in Keys
  BY DEF NoKey, Keys
<1>3. Order' /\ \A y \in Items \ {x} : order'[y] = order[y]
  BY <1>1, <1>2 DEF Placed, Order
<1> DEFINE New == {}
<1>4. /\ promised' = Besides({x}) \cup New
      /\ New \subseteq Items \X Items /\ \A p \in New : Fits(order'[p[1]], order'[p[2]])
  BY <1>1
<1> HIDE DEF New
<1>5. Placed'
  BY <1>3, <1>4, PromisesKept
<1> QED BY <1>3, <1>5

LEMMA PlaceUploadKeeps ==
  ASSUME Placed, NEW x \in Items, NEW key, NEW left, NEW leftKey, PlaceUpload(x, key, left, leftKey),
         order[x] = NoKey, key \in Keys, leftKey \in Keys, Below(leftKey, key)
  PROVE  Placed' /\ \A y \in Items \ {x} : order'[y] = order[y]
<1> DEFINE New == {<<y, x>> : y \in {y \in Linked : y = left /\ order[y] = leftKey}}
<1>1. order' = [order EXCEPT ![x] = key] /\ promised' = Besides({x}) \cup New
  BY DEF PlaceUpload, AddEdge
<1>2. Order' /\ order'[x] = key /\ \A y \in Items \ {x} : order'[y] = order[y]
  BY <1>1 DEF Placed, Order
<1>3. New \subseteq Items \X Items /\ \A p \in New : Fits(order'[p[1]], order'[p[2]])
  <2>1. Linked \subseteq Items /\ x \notin Linked
    BY DEF Linked
  <2> SUFFICES ASSUME NEW y \in Linked, order[y] = leftKey
               PROVE  <<y, x>> \in Items \X Items /\ Fits(order'[y], order'[x])
    OBVIOUS
  <2>2. order'[y] = order[y]
    BY <1>2, <2>1
  <2>3. Fits(order[y], key)
    BY BelowFits
  <2> QED BY <1>2, <2>1, <2>2, <2>3
<1> HIDE DEF New
<1>4. Placed'
  BY <1>1, <1>2, <1>3, PromisesKept
<1> QED BY <1>2, <1>4

(* A reordering gives each artifact it reaches the key of its place among  *)
(* them.                                                                   *)
LEMMA NewKeysInOrder ==
  ASSUME Order, NEW ids \in Requests
  PROVE  /\ NewKeys(ids) \in [Items -> Keys]
         /\ \A y \in Items \ {ids[i] : i \in Given(ids)} : NewKeys(ids)[y] = order[y]
         /\ \A y \in Items : order[y] = NoKey => NewKeys(ids)[y] = NoKey
         /\ \A i, j \in Given(ids) : i < j => Below(NewKeys(ids)[ids[i]], NewKeys(ids)[ids[j]])
<1> DEFINE G == Given(ids)
           rank(i) == Cardinality({j \in G : j <= i})
           the(x) == CHOOSE i \in G : ids[i] = x
<1>1. /\ ids \in Seq(Items) /\ Len(ids) \in Nat /\ DOMAIN ids = 1..Len(ids)
      /\ \A i, j \in DOMAIN ids : ids[i] = ids[j] => i = j
  BY DEF Requests
<1>2. G \subseteq DOMAIN ids /\ IsFiniteSet(G) /\ \A i \in G : ids[i] \in Items /\ i \in Nat
  <2>1. G \in SUBSET (1..Len(ids))
    BY <1>1 DEF Given
  <2>2. IsFiniteSet(1..Len(ids))
    BY <1>1, FS_Interval
  <2> HIDE DEF G
  <2>3. IsFiniteSet(G)
    BY <2>1, <2>2, FS_Subset
  <2>4. \A i \in G : i \in 1..Len(ids) /\ i \in Nat
    BY <2>1
  <2>5. \A i \in G : ids[i] \in Items
    BY <1>1, <2>4
  <2> QED BY <1>1, <2>1, <2>3, <2>4, <2>5
<1>3. \A i \in G : order[ids[i]] # NoKey
  <2> TAKE i \in G
  <2>1. i \in DOMAIN ids
    BY <1>2
  <2>2. i \in 1..i
    BY <1>1, <2>1
  <2> QED BY <2>2 DEF Given
<1> HIDE DEF G
<1>4. ASSUME NEW i
      PROVE  IsFiniteSet({j \in G : j <= i}) /\ rank(i) \in Nat
  <2>1. {j \in G : j <= i} \in SUBSET G
    OBVIOUS
  <2>2. IsFiniteSet({j \in G : j <= i})
    BY <1>2, <2>1, FS_Subset
  <2> QED BY <2>2, FS_CardinalityType
<1>5. ASSUME NEW i \in G, NEW j \in G, i < j
      PROVE  rank(i) < rank(j)
  <2> DEFINE A == {k \in G : k <= i}
             B == {k \in G : k <= j}
  <2>1. A \in SUBSET B /\ j \in B /\ j \notin A
    BY <1>2, <1>5
  <2>2. IsFiniteSet(B) /\ Cardinality(A) \in Nat /\ Cardinality(B) \in Nat
    BY <1>4
  <2> HIDE DEF A, B
  <2>3. Cardinality(A) <= Cardinality(B) /\ (Cardinality(A) = Cardinality(B) => A = B)
    BY <2>1, <2>2, FS_Subset
  <2>4. Cardinality(A) < Cardinality(B)
    BY <2>1, <2>2, <2>3
  <2> QED BY <2>4 DEF A, B
<1> DEFINE new == NewKeys(ids)
<1>6. /\ new = [x \in Items |-> new[x]]
      /\ \A x \in Items : new[x] = IF \E i \in G : ids[i] = x THEN NthKey[rank(the(x))] ELSE order[x]
  BY DEF NewKeys, G
<1>7. \A i \in G : the(ids[i]) = i
  BY <1>1, <1>2
<1> HIDE DEF rank, the, new
<1>8. \A i \in G : new[ids[i]] = NthKey[rank(i)]
  BY <1>2, <1>6, <1>7
<1>9. \A y \in Items \ {ids[i] : i \in G} : new[y] = order[y]
  BY <1>6
<1>10. \A i \in G : new[ids[i]] \in Keys
  BY <1>4, <1>8, NthKeys
<1>11. new \in [Items -> Keys]
  <2>1. \A x \in Items : new[x] \in Keys
    <3> TAKE x \in Items
    <3>1. CASE \E i \in G : ids[i] = x
      BY <1>10, <3>1
    <3>2. CASE ~ \E i \in G : ids[i] = x
      BY <1>6, <3>2 DEF Order
    <3> QED BY <3>1, <3>2
  <2> QED BY <1>6, <2>1
<1>12. \A y \in Items : order[y] = NoKey => new[y] = NoKey
  BY <1>3, <1>6
<1>13. \A i, j \in G : i < j => Below(new[ids[i]], new[ids[j]])
  <2> SUFFICES ASSUME NEW i \in G, NEW j \in G, i < j PROVE Below(new[ids[i]], new[ids[j]])
    OBVIOUS
  <2>1. rank(i) \in Nat /\ rank(j) \in Nat /\ rank(i) < rank(j)
    BY <1>4, <1>5
  <2>2. Below(NthKey[rank(i)], NthKey[rank(j)])
    BY <2>1, LaterKeysComeAfter
  <2> QED BY <1>8, <2>2
<1> QED BY <1>9, <1>11, <1>12, <1>13 DEF new, G

LEMMA ReorderKeeps ==
  ASSUME Placed, Shown, ReorderChildren
  PROVE  Placed' /\ Shown' /\ \A y \in Items : order[y] = NoKey => order'[y] = NoKey
<1> DEFINE ids == Head(moves)
           S == {ids[i] : i \in Given(ids)}
           New == {<<ids[ij[1]], ids[ij[2]]>> : ij \in Pairs(Given(ids))}
<1>1. /\ moves # <<>> /\ moves' = Tail(moves) /\ shown' = shown
      /\ order' = NewKeys(ids) /\ promised' = Besides(S) \cup New
  BY DEF ReorderChildren
<1>2. ids \in Requests /\ Shown'
  BY <1>1 DEF Shown
<1>3. ids \in Seq(Items) /\ Given(ids) \subseteq DOMAIN ids
  BY <1>2 DEF Requests, Given
<1> HIDE DEF ids
<1>4. Order
  BY DEF Placed
<1>5. /\ order' \in [Items -> Keys]
      /\ \A y \in Items \ S : order'[y] = order[y]
      /\ \A y \in Items : order[y] = NoKey => order'[y] = NoKey
      /\ \A i, j \in Given(ids) : i < j => Below(order'[ids[i]], order'[ids[j]])
  BY <1>1, <1>2, <1>4, NewKeysInOrder
<1>6. New \subseteq Items \X Items /\ \A p \in New : Fits(order'[p[1]], order'[p[2]])
  <2> SUFFICES ASSUME NEW i \in Given(ids), NEW j \in Given(ids), i < j
               PROVE  <<ids[i], ids[j]>> \in Items \X Items /\ Fits(order'[ids[i]], order'[ids[j]])
    BY DEF Pairs
  <2>1. ids[i] \in Items /\ ids[j] \in Items
    BY <1>3
  <2>2. order'[ids[i]] \in Keys /\ order'[ids[j]] \in Keys /\ Below(order'[ids[i]], order'[ids[j]])
    BY <1>5, <2>1
  <2> QED BY <2>1, <2>2, BelowFits
<1> HIDE DEF S, New
<1>7. Placed'
  BY <1>1, <1>5, <1>6, PromisesKept DEF Order
<1> QED BY <1>2, <1>5, <1>7

LEMMA ListedIsList ==
  ASSUME Order
  PROVE  Listed \in Lists
<1> DEFINE s == Enumerated(Linked)
           list == [i \in DOMAIN s |-> [id |-> s[i], key |-> order[s[i]]]]
<1>1. IsFiniteSet(Linked) /\ Linked \subseteq Items
  <2>1. Linked \in SUBSET Items
    BY DEF Linked
  <2> QED BY <2>1, ListingAssumption, FS_Subset
<1>2. /\ Cardinality(Linked) \in Nat /\ s \in [1..Cardinality(Linked) -> Linked]
      /\ \A i, j \in 1..Cardinality(Linked) : s[i] = s[j] => i = j
  BY <1>1, EnumeratedOnce
<1> HIDE DEF s
<1>3. /\ list \in [1..Cardinality(Linked) -> Entries]
      /\ \A i \in 1..Cardinality(Linked) : list[i].id = s[i]
  BY <1>1, <1>2 DEF Entries, Order
<1> HIDE DEF list
<1>4. list \in Seq(Entries) /\ DOMAIN list = 1..Cardinality(Linked)
  BY <1>2, <1>3
<1>5. list \in Lists
  BY <1>2, <1>3, <1>4 DEF Lists, EachOnce
<1>6. Sorted(MantleCaps, list) \in Lists
  BY <1>5, SortedList
<1>7. Listed = Sorted(MantleCaps, list)
  BY DEF Listed, list, s
<1> QED BY <1>6, <1>7

LEMMA HearNewsKeeps ==
  ASSUME Shown, NEW x \in Items, HearNews(x)
  PROVE  Shown' /\ UNCHANGED <<order, promised>>
<1>1. shown' \in {Appended(shown, x), Without(shown, x)} /\ UNCHANGED <<order, promised, moves>>
  BY DEF HearNews
<1>2. shown' \in Lists
  BY <1>1, AppendedList, WithoutList DEF Shown
<1> QED BY <1>1, <1>2 DEF Shown

LEMMA OrderArtifactsKeeps ==
  ASSUME Shown, NEW from, NEW to, OrderArtifacts(from, to)
  PROVE  Shown' /\ UNCHANGED <<order, promised>>
<1> DEFINE list == Moved(Sorted(TabCaps, shown), from, to)
<1>1. Sorted(TabCaps, shown) \in Lists
  BY SortedList DEF Shown
<1>2. from \in DOMAIN Sorted(TabCaps, shown) /\ to \in DOMAIN Sorted(TabCaps, shown)
  BY DEF OrderArtifacts, Sorted
<1>3. list \in Lists
  BY <1>1, <1>2, MovedList
<1>4. /\ shown' = [i \in DOMAIN list |-> [id |-> list[i].id, key |-> NthKey[i]]]
      /\ moves' = Append(moves, [i \in DOMAIN list |-> list[i].id])
      /\ UNCHANGED <<order, promised>>
  BY DEF OrderArtifacts
<1> HIDE DEF list
<1>5. shown' \in Lists /\ [i \in DOMAIN list |-> list[i].id] \in Requests
  BY <1>3, <1>4, NumberedAnew, IdsOfList
<1>6. moves' \in Seq(Requests)
  BY <1>4, <1>5 DEF Shown
<1> QED BY <1>4, <1>5, <1>6 DEF Shown

LEMMA DropKeyComesAfter ==
  ASSUME Shown, NEW left
  PROVE  KeyAt(shown, left) \in Keys /\ DropKey(left) \in Keys /\ Below(KeyAt(shown, left), DropKey(left))
<1>1. ASSUME NEW i
      PROVE  KeyAt(shown, i) \in Keys
  <2>1. CASE i \in DOMAIN shown
    <3>1. shown[i] \in Entries
      BY <2>1 DEF Shown, Lists
    <3> QED BY <2>1, <3>1 DEF KeyAt, Entries
  <2>2. CASE i \notin DOMAIN shown
    BY <2>2 DEF KeyAt, NoKey, Keys
  <2> QED BY <2>1, <2>2
<1> QED BY <1>1, MidKeyComesAfter DEF DropKey

(* A step that announces no file.                                          *)
NoneAnnounced(f) ==
  /\ task'[f] = "idle" => task[f] = "idle"
  /\ \A i \in DOMAIN calls'[f] : calls'[f][i].op = "initiate" =>
       \E j \in DOMAIN calls[f] : calls'[f][i] = calls[f][j]

LEMMA NoneAnnouncedKeeps ==
  ASSUME NEW f \in Files, Unplaced(f), NoneAnnounced(f), order[f] = NoKey => order'[f] = NoKey
  PROVE  Unplaced(f)'
<1>1. task'[f] = "idle" => order'[f] = NoKey
  BY DEF Unplaced, NoneAnnounced
<1>2. ASSUME NEW i \in DOMAIN calls'[f], calls'[f][i].op = "initiate"
      PROVE  order'[f] = NoKey /\ Behind(calls'[f][i])
  <2>1. PICK j \in DOMAIN calls[f] : calls'[f][i] = calls[f][j]
    BY <1>2 DEF NoneAnnounced
  <2>2. order[f] = NoKey /\ Behind(calls[f][j])
    BY <1>2, <2>1 DEF Unplaced
  <2> QED BY <2>1, <2>2
<1> QED BY <1>1, <1>2 DEF Unplaced, Behind

LEMMA GainsNoneAnnounced ==
  ASSUME UploadTypes, NEW f \in Files, NEW c, Send(f, <<c>>), c.op # "initiate"
  PROVE  \A g \in Files : \A i \in DOMAIN calls'[g] : calls'[g][i].op = "initiate" =>
           \E j \in DOMAIN calls[g] : calls'[g][i] = calls[g][j]
<1>1. Gains(f, c)
  BY SendOne
<1>2. ASSUME NEW i \in DOMAIN calls'[f], calls'[f][i].op = "initiate"
      PROVE  i \in DOMAIN calls[f] /\ calls'[f][i] = calls[f][i]
  BY <1>1, <1>2 DEF Gains
<1> QED BY <1>1, <1>2 DEF Gains

LEMMA GainsTwoNoneAnnounced ==
  ASSUME UploadTypes, NEW f \in Files, NEW c, NEW d, Send(f, <<c, d>>), c.op # "initiate", d.op # "initiate"
  PROVE  \A g \in Files : \A i \in DOMAIN calls'[g] : calls'[g][i].op = "initiate" =>
           \E j \in DOMAIN calls[g] : calls'[g][i] = calls[g][j]
<1>1. GainsTwo(f, c, d)
  BY SendTwo
<1>2. ASSUME NEW i \in DOMAIN calls'[f], calls'[f][i].op = "initiate"
      PROVE  i \in DOMAIN calls[f] /\ calls'[f][i] = calls[f][i]
  BY <1>1, <1>2 DEF GainsTwo
<1> QED BY <1>1, <1>2 DEF GainsTwo

LEMMA ArrivesNoneAnnounced ==
  ASSUME UploadTypes, NEW f \in Files, NEW i, Arrives(f, i)
  PROVE  \A g \in Files : \A k \in DOMAIN calls'[g] : \E j \in DOMAIN calls[g] : calls'[g][k] = calls[g][j]
<1>1. Loses(f, i)
  BY ArriveOne
<1>2. ASSUME NEW k \in DOMAIN calls'[f]
      PROVE  \E j \in DOMAIN calls[f] : calls'[f][k] = calls[f][j]
  <2>1. (IF k < i THEN k ELSE k + 1) \in DOMAIN calls[f]
    BY <1>1 DEF Loses
  <2>2. calls'[f][k] = calls[f][IF k < i THEN k ELSE k + 1]
    BY <1>1 DEF Loses
  <2> HIDE DEF Loses
  <2> QED BY <2>1, <2>2
<1> QED BY <1>1, <1>2 DEF Loses

(* Nothing but its announcement announces a file.                          *)
LEMMA UploadStepAnnouncesNone ==
  ASSUME UploadTypes, NEW f \in Files, UploadStep(f)
  PROVE  \A g \in Files : NoneAnnounced(g)
<1> DEFINE Kept == \A g \in Files : \A i \in DOMAIN calls'[g] : calls'[g][i].op = "initiate" =>
                     \E j \in DOMAIN calls[g] : calls'[g][i] = calls[g][j]
           Past == \A g \in Files : task'[g] = "idle" => task[g] = "idle"
<1> SUFFICES Kept /\ Past
  BY DEF NoneAnnounced
<1>1. ASSUME NEW from, NEW to, to # "idle", Goes(f, from, to) PROVE Past
  BY <1>1 DEF Goes, UploadTypes
<1>2. CASE BeginSending(f)
  <2>1. calls' = calls /\ Goes(f, "queued", "sending")
    BY <1>2 DEF BeginSending, wireVars
  <2> QED BY <1>1, <2>1
<1>3. CASE Progress(f)
  <2>1. task' = task
    BY <1>3 DEF Progress
  <2>2. \/ Send(f, <<Report("uploading")>>)
        \/ Send(f, <<Patch(Uploading(cache[f])), Report("uploading")>>)
    BY <1>3 DEF Progress
  <2>3. Report("uploading").op # "initiate" /\ Patch(Uploading(cache[f])).op # "initiate"
    BY DEF Report, Patch
  <2> QED BY <2>1, <2>2, <2>3, GainsNoneAnnounced, GainsTwoNoneAnnounced
<1>4. CASE Sent(f)
  <2>1. PICK ps \in BOOLEAN : Send(f, <<Complete(ps, NoSection)>>)
    BY <1>4 DEF Sent
  <2>2. Complete(ps, NoSection).op # "initiate"
    BY DEF Complete
  <2>3. Goes(f, "sending", "completing") \/ Goes(f, "sending", "joining")
    BY <1>4 DEF Sent
  <2> QED BY <1>1, <2>1, <2>2, <2>3, GainsNoneAnnounced
<1>5. CASE SendFails(f) \/ Refused(f)
  <2>1. Send(f, <<Report("failed")>>) /\ Report("failed").op # "initiate"
    BY <1>5 DEF SendFails, Refused, Report
  <2>2. task' = [task EXCEPT ![f] = "failing"]
    BY <1>5 DEF SendFails, Refused, Goes
  <2>3. Past
    BY <2>2 DEF UploadTypes
  <2> QED BY <2>1, <2>3, GainsNoneAnnounced
<1>6. CASE Joined(f)
  <2>1. PICK section : Send(f, <<Complete(FALSE, section)>>) /\ Goes(f, "joining", "completing")
    BY <1>6 DEF Joined
  <2>2. Complete(FALSE, section).op # "initiate"
    BY DEF Complete
  <2> QED BY <1>1, <2>1, <2>2, GainsNoneAnnounced
<1>7. CASE Completed(f)
  <2>1. Send(f, <<Patch(answer[f].doc)>>) /\ Goes(f, "completing", "done") /\ Patch(answer[f].doc).op # "initiate"
    BY <1>7 DEF Completed, Patch
  <2> QED BY <1>1, <2>1, GainsNoneAnnounced
<1>8. CASE GaveUp(f)
  <2>1. calls' = calls /\ Goes(f, "failing", "failed")
    BY <1>8 DEF GaveUp
  <2> QED BY <1>1, <2>1
<1>9. CASE Edit(f)
  <2>1. Send(f, <<Patch(cache[f])>>) /\ Patch(cache[f]).op # "initiate" /\ task' = task
    BY <1>9 DEF Edit, Patch, tabVars
  <2> QED BY <2>1, GainsNoneAnnounced
<1>10. CASE HearUpdate(f) \/ ContentUrl(f)
  BY <1>10 DEF HearUpdate, ContentUrl, tabVars, wireVars
<1>11. CASE \E i \in DOMAIN calls[f] : Lost(f, i) \/ PatchContext(f, i) \/ ReportStatus(f, i) \/ CompleteUpload(f, i)
  <2>1. PICK i : Arrives(f, i) /\ task' = task
    BY <1>11 DEF Lost, PatchContext, ReportStatus, CompleteUpload, tabVars
  <2> QED BY <2>1, ArrivesNoneAnnounced
<1> HIDE DEF Kept, Past
<1> QED BY <1>2, <1>3, <1>4, <1>5, <1>6, <1>7, <1>8, <1>9, <1>10, <1>11 DEF UploadStep

LEMMA NextKeepsListInv ==
  ASSUME UploadInv, ListInv, [Next]_vars
  PROVE  ListInv'
<1>1. UploadTypes /\ Placed /\ Shown /\ Files \subseteq Items
  BY WorkspaceAssumption DEF UploadInv, ListInv
<1>2. ASSUME Placed', Shown', \A f \in Files : NoneAnnounced(f) /\ (order[f] = NoKey => order'[f] = NoKey)
      PROVE  ListInv'
  BY <1>2, NoneAnnouncedKeeps DEF ListInv
<1>3. ASSUME UNCHANGED <<order, promised>> PROVE Placed'
  BY <1>1, <1>3 DEF Placed, Order, PlacedAsAsked
<1>4. ASSUME UNCHANGED <<task, calls>> PROVE \A f \in Files : NoneAnnounced(f)
  BY <1>4 DEF NoneAnnounced
<1>5. ASSUME UNCHANGED <<shown, moves>> PROVE Shown'
  BY <1>1, <1>5 DEF Shown
<1>6. CASE FetchList
  <2>1. shown' = Listed /\ UNCHANGED <<order, promised, moves, task, calls>>
    BY <1>6 DEF FetchList, Refresh, wireVars
  <2>2. Shown'
    BY <1>1, <2>1, ListedIsList DEF Shown, Placed
  <2> QED BY <1>2, <1>3, <1>4, <2>1, <2>2
<1>7. CASE Drag
  <2>1. PICK from, to : OrderArtifacts(from, to)
    BY <1>7 DEF Drag
  <2>2. UNCHANGED <<task, calls>>
    BY <1>7 DEF Drag, tabVars, wireVars
  <2> QED BY <1>1, <1>2, <1>3, <1>4, <2>1, <2>2, OrderArtifactsKeeps
<1>8. CASE OthersChange
  <2>1. PICK x \in Items \ Files : AddAtEnd(x) \/ \E withDocument \in BOOLEAN : Unlink(x, withDocument)
    BY <1>8 DEF OthersChange
  <2>2. UNCHANGED <<task, calls, shown, moves>>
    BY <1>8, <2>1 DEF OthersChange, tabVars, wireVars, AddAtEnd, Unlink
  <2>3. Placed' /\ \A y \in Items \ {x} : order'[y] = order[y]
    BY <1>1, <2>1, AddAtEndKeeps, UnlinkKeeps
  <2>4. \A f \in Files : order'[f] = order[f]
    BY <1>1, <2>1, <2>3
  <2> QED BY <1>2, <1>4, <1>5, <2>2, <2>3, <2>4
<1>9. CASE ListStep /\ ReorderChildren
  <2>1. UNCHANGED <<task, calls>>
    BY <1>9 DEF ListStep, uploadVars, tabVars, wireVars
  <2>2. Placed' /\ Shown' /\ \A y \in Items : order[y] = NoKey => order'[y] = NoKey
    BY <1>1, <1>9, ReorderKeeps
  <2> QED BY <1>1, <1>2, <1>4, <2>1, <2>2
<1>10. CASE ListStep /\ \E x \in Items : HearNews(x)
  <2>1. UNCHANGED <<task, calls>>
    BY <1>10 DEF ListStep, uploadVars, tabVars, wireVars
  <2>2. Shown' /\ UNCHANGED <<order, promised>>
    BY <1>1, <1>10, HearNewsKeeps
  <2> QED BY <1>2, <1>3, <1>4, <2>1, <2>2
<1>11. CASE EditorStep
  <2>1. UNCHANGED <<order, promised, shown, moves, task, calls>>
    BY <1>11 DEF EditorStep, listVars, tabVars, wireVars
  <2> QED BY <1>2, <1>3, <1>4, <1>5, <2>1
<1>12. ASSUME NEW f \in Files, AnnounceAt(f) PROVE ListInv'
  <2> DEFINE left == PlaceOf(f)
             request == [op |-> "initiate", key |-> DropKey(left),
                         left |-> IF left \in DOMAIN shown THEN shown[left].id ELSE NoDoc,
                         leftKey |-> KeyAt(shown, left)]
  <2>1. Announce(f, request) /\ UNCHANGED <<order, promised, shown, moves>>
    BY <1>12 DEF AnnounceAt, listVars
  <2>2. request.key \in Keys /\ request.leftKey \in Keys /\ Below(request.leftKey, request.key)
    BY <1>1, DropKeyComesAfter
  <2> HIDE DEF request
  <2>3. /\ Send(f, <<request>>) /\ task[f] = "idle" /\ task' = [task EXCEPT ![f] = "initiating"]
    BY <2>1 DEF Announce, Goes
  <2>4. Gains(f, request)
    BY <1>1, <2>3, SendOne
  <2>5. calls[f] = <<>> /\ order[f] = NoKey
    BY <2>3 DEF UploadInv, FileInv, Beginning, ListInv, Unplaced
  <2>6. DOMAIN calls'[f] = {1} /\ calls'[f][1] = request
    BY <2>4, <2>5 DEF Gains
  <2>7. Unplaced(f)'
    BY <1>1, <2>1, <2>2, <2>3, <2>5, <2>6 DEF Unplaced, Behind, UploadTypes
  <2>8. ASSUME NEW g \in Files \ {f} PROVE Unplaced(g)'
    <3>1. task'[g] = task[g] /\ calls'[g] = calls[g] /\ order'[g] = order[g] /\ Unplaced(g)
      BY <1>1, <2>1, <2>3, <2>4 DEF Gains, UploadTypes, ListInv
    <3> QED BY <3>1 DEF Unplaced, Behind
  <2> QED BY <1>3, <1>5, <2>1, <2>7, <2>8 DEF ListInv
<1>13. ASSUME NEW f \in Files, AddExisting(f) PROVE ListInv'
  <2>1. shown' \in {Appended(shown, f), shown} /\ UNCHANGED <<order, promised, moves, calls>>
    BY <1>13 DEF AddExisting, Announced
  <2>2. task' = [task EXCEPT ![f] = "queued"] \/ task' = [g \in Files |-> "abandoned"]
    BY <1>13 DEF AddExisting, Announced
  <2>3. \A g \in Files : NoneAnnounced(g)
    BY <1>1, <2>1, <2>2 DEF NoneAnnounced, UploadTypes
  <2>4. Shown'
    BY <1>1, <2>1, AppendedList DEF Shown
  <2> QED BY <1>2, <1>3, <2>1, <2>3, <2>4
<1>14. ASSUME NEW f \in Files, DeleteArtifact(f) PROVE ListInv'
  <2>1. Unlink(f, TRUE) /\ UNCHANGED <<task, calls, shown, moves>>
    BY <1>14 DEF DeleteArtifact, DeleteUpload, wireVars, Unlink
  <2>2. Placed' /\ (\A y \in Items \ {f} : order'[y] = order[y]) /\ order'[f] = NoKey
    BY <1>1, <2>1, UnlinkKeeps DEF Unlink, Placed, Order
  <2> QED BY <1>1, <1>2, <1>4, <1>5, <2>1, <2>2
<1>15. ASSUME NEW f \in Files, UploadStep(f) PROVE ListInv'
  <2>1. UNCHANGED <<order, promised, shown, moves>>
    BY <1>15 DEF UploadStep, listVars
  <2>2. \A g \in Files : NoneAnnounced(g)
    BY <1>1, <1>15, UploadStepAnnouncesNone
  <2> QED BY <1>2, <1>3, <1>5, <2>1, <2>2
<1>16. ASSUME NEW f \in Files, NEW i \in DOMAIN calls[f], MakeArtifact(f, i) PROVE ListInv'
  <2> DEFINE call == calls[f][i]
  <2>1. /\ Arrives(f, i) /\ call.op = "initiate" /\ PlaceUpload(f, call.key, call.left, call.leftKey)
        /\ UNCHANGED <<task, shown, moves>>
    BY <1>16 DEF MakeArtifact, InitiateUpload, PlaceUpload, tabVars
  <2>2. order[f] = NoKey /\ Behind(call)
    BY <2>1 DEF ListInv, Unplaced
  <2>3. Placed' /\ \A y \in Items \ {f} : order'[y] = order[y]
    BY <1>1, <2>1, <2>2, PlaceUploadKeeps DEF Behind
  <2>4. Loses(f, i) /\ Protocol(f) /\ Awaited(call)
    BY <1>1, <2>1, ArriveOne DEF UploadInv, FileInv, Awaited
  <2>5. NoneAwaited(calls'[f])
    BY <2>4, Remaining
  <2>6. task[f] # "idle"
    BY <2>4 DEF UploadInv, FileInv, Beginning, Loses
  <2>7. Unplaced(f)'
    BY <2>1, <2>5, <2>6 DEF Unplaced, NoneAwaited, Awaited
  <2>8. ASSUME NEW g \in Files \ {f} PROVE Unplaced(g)'
    <3>1. task'[g] = task[g] /\ calls'[g] = calls[g] /\ order'[g] = order[g] /\ Unplaced(g)
      BY <1>1, <2>1, <2>3, <2>4 DEF Loses, ListInv
    <3> QED BY <3>1 DEF Unplaced, Behind
  <2> QED BY <1>5, <2>1, <2>3, <2>7, <2>8 DEF ListInv
<1>17. CASE UNCHANGED vars
  <2>1. UNCHANGED <<order, promised, shown, moves, task, calls>>
    BY <1>17 DEF vars, listVars, uploadVars, tabVars, wireVars
  <2> QED BY <1>2, <1>3, <1>4, <1>5, <2>1
<1>18. ListStep => ReorderChildren \/ \E x \in Items : HearNews(x)
  BY DEF ListStep
<1> QED BY <1>6, <1>7, <1>8, <1>9, <1>10, <1>11, <1>12, <1>13, <1>14, <1>15, <1>16, <1>17, <1>18 DEF Next

(* What was put after something is listed after it, unless their keys are  *)
(* misplaced: an artifact added at the end after all that are there, a     *)
(* dropped file after its left neighbour, and the artifacts of a           *)
(* reordering in the order asked for, as far as it came, whatever other    *)
(* users add, remove or reorder in between.                                *)
THEOREM WorkspacePlacedAsAsked == Spec => []PlacedAsAsked
<1>1. Init => ListInv
  <2> SUFFICES ASSUME Init PROVE ListInv
    OBVIOUS
  <2> DEFINE s == Enumerated(Initial)
             N == Cardinality(Initial)
  <2>1. /\ order = [x \in Items |-> IF x \in Initial THEN NthKey[CHOOSE i \in DOMAIN s : s[i] = x] ELSE NoKey]
        /\ shown = [i \in DOMAIN s |-> [id |-> s[i], key |-> NthKey[i]]]
        /\ moves = <<>> /\ promised = {}
        /\ calls = [f \in Files |-> <<>>]
    BY DEF Init, ListInit, UploadInit
  <2>2. IsFiniteSet(Initial) /\ Initial \subseteq Items
    BY ListingAssumption, FS_Subset
  <2>3. /\ N \in Nat /\ s \in [1..N -> Initial]
        /\ \A x \in Initial : \E i \in 1..N : s[i] = x
        /\ \A i, j \in 1..N : s[i] = s[j] => i = j
    BY <2>2, EnumeratedOnce
  <2> HIDE DEF s, N
  <2>4. NoKey \in Keys /\ \A i \in 1..N : NthKey[i] \in Keys
    BY <2>3, NthKeys DEF NoKey, Keys
  <2>5. Placed
    <3>1. \A x \in Initial : (CHOOSE i \in DOMAIN s : s[i] = x) \in 1..N
      BY <2>3
    <3>2. Order
      BY <2>1, <2>4, <3>1 DEF Order
    <3> QED BY <2>1, <3>2 DEF Placed, PlacedAsAsked
  <2>6. Shown
    <3>1. /\ shown \in [1..N -> Entries]
          /\ \A i \in 1..N : shown[i].id = s[i]
      BY <2>1, <2>2, <2>3, <2>4 DEF Entries
    <3>2. shown \in Seq(Entries) /\ DOMAIN shown = 1..N
      BY <2>3, <3>1
    <3>3. shown \in Lists
      BY <2>3, <3>1, <3>2 DEF Lists, EachOnce
    <3> QED BY <2>1, <3>3 DEF Shown
  <2>7. \A f \in Files : Unplaced(f)
    BY <2>1, WorkspaceAssumption DEF Unplaced
  <2> QED BY <2>5, <2>6, <2>7 DEF ListInv
<1>2. ListInv => PlacedAsAsked
  BY DEF ListInv, Placed
<1> QED BY <1>1, <1>2, UploadInvHolds, NextKeepsListInv, PTL DEF Spec
=============================================================================
