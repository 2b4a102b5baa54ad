-------------------------- MODULE PageBudgetProofs --------------------------
(***************************************************************************)
(* What pruning the first-page budget does to its stamps, whatever they    *)
(* say and whatever the clock reads.                                       *)
(***************************************************************************)
EXTENDS PageBudget, TLAPS, WellFoundedInduction, SequenceTheorems

\* prune drops a front of the array, all of it out of the window, and nothing else.
LEMMA FirstKeptIs ==
  ASSUME NEW s \in Seq(Nat), NEW t \in Nat
  PROVE  /\ FirstKept(s, t) \in 1..Len(s) + 1
         /\ \A j \in 1..FirstKept(s, t) - 1 : HasLeft(s[j], t)
         /\ FirstKept(s, t) <= Len(s) => ~HasLeft(s[FirstKept(s, t)], t)
<1> DEFINE T == {i \in 1..Len(s) + 1 : i <= Len(s) => ~HasLeft(s[i], t)}
<1>1. T \subseteq Nat /\ Len(s) + 1 \in T
  BY SMT
<1>2. \E x \in T : \A y \in T : <<y, x>> \notin OpToRel(<, Nat)
  BY <1>1, NatLessThanWellFounded, WFMin
<1>3. PICK x \in T : \A y \in T : ~(y < x)
  BY <1>1, <1>2 DEF OpToRel
<1>4. \A j \in 1..x - 1 : HasLeft(s[j], t)
  BY <1>3, SMT
<1>5. \E i \in 1..Len(s) + 1 :
        /\ \A j \in 1..i - 1 : HasLeft(s[j], t)
        /\ i <= Len(s) => ~HasLeft(s[i], t)
  BY <1>3, <1>4
<1> QED
  BY <1>5 DEF FirstKept

\* The same, of what is left: a suffix, with every unit dropped out of the window.
LEMMA PrunedIs ==
  ASSUME NEW s \in Seq(Nat), NEW t \in Nat
  PROVE  \E k \in 0..Len(s) :
           /\ Pruned(s, t) \in Seq(Nat)
           /\ Len(Pruned(s, t)) = Len(s) - k
           /\ \A j \in 1..k : s[j] <= t - PageBudgetWindow
           /\ \A i \in 1..Len(s) - k : Pruned(s, t)[i] = s[k + i]
<1> DEFINE k == FirstKept(s, t) - 1
<1>1. FirstKept(s, t) \in 1..Len(s) + 1 /\ \A j \in 1..FirstKept(s, t) - 1 : HasLeft(s[j], t)
  BY FirstKeptIs
<1>2. k \in 0..Len(s) /\ k + 1 = FirstKept(s, t) /\ \A j \in 1..k : s[j] <= t - PageBudgetWindow
  BY <1>1 DEF HasLeft
<1>3. Pruned(s, t) = SubSeq(s, k + 1, Len(s))
  BY <1>2 DEF Pruned
<1> HIDE DEF k
<1>4. /\ SubSeq(s, k + 1, Len(s)) \in Seq(Nat)
      /\ Len(SubSeq(s, k + 1, Len(s))) = Len(s) - k
      /\ \A i \in 1..Len(s) - k : SubSeq(s, k + 1, Len(s))[i] = s[k + i]
  BY <1>2
<1> QED
  BY <1>2, <1>3, <1>4

\* A prune invents no stamp, and takes what it takes from the array's length.
LEMMA PrunedKeepsStamps ==
  ASSUME NEW S \in SUBSET Nat, NEW s \in Seq(S), NEW t \in Nat
  PROVE  Pruned(s, t) \in Seq(S) /\ Len(Pruned(s, t)) <= Len(s)
<1>1. s \in Seq(Nat)
  <2>1. Len(s) \in Nat /\ s = [i \in 1..Len(s) |-> s[i]] /\ \A i \in 1..Len(s) : s[i] \in S
    BY LenProperties, ElementOfSeq
  <2>2. \A i \in 1..Len(s) : s[i] \in Nat
    BY <2>1
  <2> QED BY <2>1, <2>2, SeqDef
<1>2. PICK k \in 0..Len(s) :
        /\ Pruned(s, t) \in Seq(Nat)
        /\ Len(Pruned(s, t)) = Len(s) - k
        /\ \A i \in 1..Len(s) - k : Pruned(s, t)[i] = s[k + i]
  BY <1>1, PrunedIs
<1> DEFINE d == Pruned(s, t)
<1> HIDE DEF d
<1>3. d \in Seq(Nat) /\ Len(d) = Len(s) - k /\ Len(s) \in Nat /\ \A i \in 1..Len(s) - k : d[i] = s[k + i]
  BY <1>1, <1>2, LenProperties DEF d
<1>4. \A i \in 1..Len(d) : d[i] \in S
  BY <1>3, ElementOfSeq
<1>5. d \in Seq(S)
  <2>1. Len(d) \in Nat /\ d = [i \in 1..Len(d) |-> d[i]]
    BY <1>3, LenProperties
  <2> QED BY <1>4, <2>1, SeqDef
<1> QED BY <1>3, <1>5 DEF d

=============================================================================
