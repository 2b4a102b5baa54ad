-------------------------- MODULE BudgetClockProofs --------------------------
(***************************************************************************)
(* That the first-page budget bounds a flood in real time, for every       *)
(* budget, window and clock: theorems of BudgetClock.                      *)
(***************************************************************************)
EXTENDS BudgetClock, PageBudgetProofs

\* A unit the array no longer holds.
Gone == Len(pages) - Len(dispatched)

\* The array is the newest of the pages, by the clock that stamped them.
NewestKept ==
  /\ Len(dispatched) <= Len(pages)
  /\ \A i \in 1..Len(dispatched) : dispatched[i] = pages[Gone + i].wall

Sized == Len(dispatched) <= MaxPagesPerWindow

\* The clock never runs ahead of real time, so what it calls a window is at least one.
NeverAhead ==
  \A i \in 1..Len(pages) :
    pages[i].real <= up /\ now - pages[i].wall <= up - pages[i].real

\* What was dropped really is a window old.
GoneIsOld == \A i \in 1..Gone : up - pages[i].real >= PageBudgetWindow

IInv == TypeOK /\ NewestKept /\ Sized /\ NeverAhead /\ GoneIsOld /\ FloodIsBounded

-----------------------------------------------------------------------------

\* A window by a clock that never runs ahead is one in real time.
LEMMA OldByEither ==
  ASSUME NEW wall \in Nat, NEW real \in Nat, NEW t \in Nat, NEW u \in Nat, NEW w \in Nat,
         wall <= t - w, t - wall <= u - real
  PROVE  u - real >= w
OBVIOUS

\* What a prune leaves satisfies the invariant in place of what it pruned.
LEMMA PruneKeeps ==
  ASSUME IInv
  PROVE  LET d == Pruned(dispatched, now)
             gone == Len(pages) - Len(d)
         IN  /\ d \in Seq(Nat)
             /\ Len(d) <= Len(dispatched)
             /\ gone \in 0..Len(pages)
             /\ \A i \in 1..Len(d) : d[i] = pages[gone + i].wall
             /\ \A i \in 1..gone : up - pages[i].real >= PageBudgetWindow
<1> DEFINE d == Pruned(dispatched, now)
<1>0. /\ dispatched \in Seq(Nat) /\ now \in Nat /\ up \in Nat
      /\ pages \in Seq([wall : Nat, real : Nat])
      /\ Len(dispatched) \in Nat /\ Len(pages) \in Nat /\ Len(dispatched) <= Len(pages)
      /\ PageBudgetWindow \in Nat
  BY BudgetAssumption DEF IInv, TypeOK, NewestKept
<1>1. PICK k \in 0..Len(dispatched) :
        /\ d \in Seq(Nat)
        /\ Len(d) = Len(dispatched) - k
        /\ \A j \in 1..k : dispatched[j] <= now - PageBudgetWindow
        /\ \A i \in 1..Len(dispatched) - k : d[i] = dispatched[k + i]
  BY <1>0, PrunedIs
<1> HIDE DEF d
<1>2. Len(pages) - Len(d) = Gone + k /\ Gone + k \in 0..Len(pages) /\ Gone \in Nat
  BY <1>0, <1>1 DEF Gone
<1>3. ASSUME NEW i \in 1..Len(d) PROVE d[i] = pages[Gone + k + i].wall
  <2>1. k + i \in 1..Len(dispatched) /\ Gone + (k + i) = Gone + k + i
    BY <1>0, <1>1, <1>2
  <2>2. dispatched[k + i] = pages[Gone + (k + i)].wall
    BY <2>1 DEF IInv, NewestKept
  <2> QED
    BY <1>1, <2>1, <2>2
<1>4. ASSUME NEW i \in 1..Gone + k PROVE up - pages[i].real >= PageBudgetWindow
  <2>1. CASE i <= Gone
    BY <1>2, <2>1 DEF IInv, GoneIsOld
  <2>2. CASE i > Gone
    <3> DEFINE j == i - Gone
    <3>1. j \in 1..k /\ j \in 1..Len(dispatched) /\ i \in 1..Len(pages) /\ Gone + j = i
      BY <1>0, <1>1, <1>2, <2>2
    <3>2. pages[i].wall <= now - PageBudgetWindow
      BY <1>1, <3>1 DEF IInv, NewestKept
    <3>3. now - pages[i].wall <= up - pages[i].real
      BY <3>1 DEF IInv, NeverAhead
    <3>4. pages[i] \in [wall : Nat, real : Nat]
      BY <1>0, <3>1, ElementOfSeq
    <3>5. pages[i].wall \in Nat /\ pages[i].real \in Nat
      BY <3>4
    <3>6. now \in Nat /\ up \in Nat /\ PageBudgetWindow \in Nat
      BY <1>0
    <3> QED
      BY <3>2, <3>3, <3>5, <3>6, OldByEither
  <2> QED
    BY <1>2, <2>1, <2>2
<1>5. /\ d \in Seq(Nat)
      /\ Len(d) <= Len(dispatched)
      /\ Len(pages) - Len(d) \in 0..Len(pages)
      /\ \A i \in 1..Len(d) : d[i] = pages[Len(pages) - Len(d) + i].wall
      /\ \A i \in 1..Len(pages) - Len(d) : up - pages[i].real >= PageBudgetWindow
  <2>1. Len(d) <= Len(dispatched)
    BY <1>0, <1>1
  <2> QED
    BY <1>1, <1>2, <1>3, <1>4, <2>1
<1> QED
  BY <1>5 DEF d

-----------------------------------------------------------------------------

LEMMA InitIInv == Init => IInv
<1> SUFFICES ASSUME Init PROVE IInv
  OBVIOUS
<1>1. pages = <<>> /\ dispatched = <<>> /\ Len(pages) = 0 /\ Len(dispatched) = 0
  BY DEF Init
<1> QED
  BY <1>1, BudgetAssumption
     DEF Init, IInv, TypeOK, NewestKept, Gone, Sized, NeverAhead, GoneIsOld, FloodIsBounded

\* A unit taken from a pruned array with room in it.
LEMMA TakeKeeps == ASSUME IInv, Take, MayTake(dispatched, now) PROVE IInv'
<1> DEFINE d == Pruned(dispatched, now)
           gone == Len(pages) - Len(d)
           pg == [wall |-> now, real |-> up]
<1>1. /\ d \in Seq(Nat)
      /\ gone \in 0..Len(pages)
      /\ \A i \in 1..Len(d) : d[i] = pages[gone + i].wall
      /\ \A i \in 1..gone : up - pages[i].real >= PageBudgetWindow
  BY PruneKeeps
<1>2. dispatched' = Append(d, now) /\ pages' = Append(pages, pg) /\ now' = now /\ up' = up
  BY DEF Take, Taken
<1>3. Len(d) < MaxPagesPerWindow
  BY DEF MayTake
<1> HIDE DEF d
<1>4. /\ now \in Nat /\ up \in Nat /\ stepBacks \in Nat
      /\ pages \in Seq([wall : Nat, real : Nat]) /\ Len(pages) \in Nat /\ Len(d) \in Nat
      /\ MaxPagesPerWindow \in Nat /\ PageBudgetWindow \in Nat
  BY <1>1, BudgetAssumption DEF IInv, TypeOK
<1>5. /\ Len(dispatched') = Len(d) + 1
      /\ \A i \in 1..Len(d) : dispatched'[i] = d[i]
      /\ dispatched'[Len(d) + 1] = now
  BY <1>1, <1>2, <1>4
<1>6. /\ Len(pages') = Len(pages) + 1
      /\ \A i \in 1..Len(pages) : pages'[i] = pages[i]
      /\ pages'[Len(pages) + 1] = pg
  BY <1>2, <1>4
<1>7. Gone' = gone
  BY <1>4, <1>5, <1>6 DEF Gone
<1>8. TypeOK'
  BY <1>1, <1>2, <1>4 DEF Take, TypeOK
<1>9. NewestKept'
  <2>1. Len(dispatched') <= Len(pages')
    BY <1>1, <1>4, <1>5, <1>6
  <2>2. ASSUME NEW i \in 1..Len(d) PROVE dispatched'[i] = pages'[gone + i].wall
    <3>1. gone + i \in 1..Len(pages)
      BY <1>1, <1>4
    <3> QED
      BY <1>1, <1>5, <1>6, <3>1
  <2>3. dispatched'[Len(d) + 1] = pages'[gone + (Len(d) + 1)].wall
    <3>1. gone + (Len(d) + 1) = Len(pages) + 1
      BY <1>1, <1>4
    <3> QED
      BY <1>5, <1>6, <3>1
  <2> HIDE DEF gone
  <2> QED
    BY <1>4, <1>5, <1>7, <2>1, <2>2, <2>3 DEF NewestKept
<1>10. Sized'
  BY <1>3, <1>4, <1>5 DEF Sized
<1>11. NeverAhead'
  <2>1. ASSUME NEW i \in 1..Len(pages)
        PROVE  pages'[i].real <= up' /\ now' - pages'[i].wall <= up' - pages'[i].real
    BY <1>2, <1>6 DEF IInv, NeverAhead
  <2>2. pg.real <= up' /\ now' - pg.wall <= up' - pg.real
    BY <1>2, <1>4
  <2> QED
    BY <1>4, <1>6, <2>1, <2>2 DEF NeverAhead
<1>12. GoneIsOld'
  <2>1. \A i \in 1..gone : i \in 1..Len(pages)
    BY <1>1, <1>4
  <2> HIDE DEF gone
  <2> QED
    BY <1>1, <1>2, <1>6, <1>7, <2>1 DEF GoneIsOld
<1>13. FloodIsBounded'
  <2> SUFFICES ASSUME NEW i \in 1..Len(pages'), i + MaxPagesPerWindow <= Len(pages')
               PROVE  pages'[i + MaxPagesPerWindow].real - pages'[i].real >= PageBudgetWindow
    BY DEF FloodIsBounded
  <2>1. i \in 1..Len(pages) /\ pages'[i] = pages[i]
    BY <1>4, <1>6, BudgetAssumption
  <2>2. CASE i + MaxPagesPerWindow <= Len(pages)
    <3>1. i + MaxPagesPerWindow \in 1..Len(pages)
      BY <1>4, <2>1, <2>2
    <3> QED
      BY <1>6, <2>1, <2>2, <3>1 DEF IInv, FloodIsBounded
  <2>3. CASE i + MaxPagesPerWindow = Len(pages) + 1
    <3>1. i \in 1..gone
      BY <1>3, <1>4, <2>1, <2>3
    <3>2. pages'[i + MaxPagesPerWindow].real = up
      BY <1>6, <2>3
    <3> QED
      BY <1>1, <2>1, <3>1, <3>2
  <2>4. i + MaxPagesPerWindow <= Len(pages) \/ i + MaxPagesPerWindow = Len(pages) + 1
    <3>1. /\ i \in Nat /\ MaxPagesPerWindow \in Nat /\ Len(pages) \in Nat
          /\ Len(pages') = Len(pages) + 1
      BY <1>4, <1>6, <2>1
    <3> QED
      BY <3>1
  <2> QED
    BY <2>2, <2>3, <2>4
<1> QED
  BY <1>8, <1>9, <1>10, <1>11, <1>12, <1>13 DEF IInv

\* A refused unit, or a question: the array is pruned and nothing is sent.
LEMMA PruneStep ==
  ASSUME IInv, dispatched' = Pruned(dispatched, now), UNCHANGED <<now, up, pages, stepBacks>>
  PROVE  IInv'
<1> DEFINE d == Pruned(dispatched, now)
           gone == Len(pages) - Len(d)
<1>1. /\ d \in Seq(Nat)
      /\ Len(d) <= Len(dispatched)
      /\ gone \in 0..Len(pages)
      /\ \A i \in 1..Len(d) : d[i] = pages[gone + i].wall
      /\ \A i \in 1..gone : up - pages[i].real >= PageBudgetWindow
  BY PruneKeeps
<1> HIDE DEF d
<1>2. dispatched' = d /\ pages' = pages /\ now' = now /\ up' = up /\ stepBacks' = stepBacks
  BY DEF d
<1>3. Gone' = gone
  BY <1>2 DEF Gone
<1>4. TypeOK' /\ NeverAhead' /\ FloodIsBounded'
  BY <1>1, <1>2 DEF IInv, TypeOK, NeverAhead, FloodIsBounded
<1>5. Len(d) \in Nat /\ Len(dispatched) \in Nat /\ Len(pages) \in Nat /\ MaxPagesPerWindow \in Nat
  BY <1>1, BudgetAssumption DEF IInv, TypeOK
<1>6. Sized'
  BY <1>1, <1>2, <1>5 DEF IInv, Sized
<1>7. NewestKept'
  BY <1>1, <1>2, <1>3, <1>5 DEF NewestKept
<1>8. GoneIsOld'
  BY <1>1, <1>2, <1>3 DEF GoneIsOld
<1> QED
  BY <1>4, <1>6, <1>7, <1>8 DEF IInv

\* Real time that has passed is not taken back, and the clock gains nothing on it.
LEMMA LaterStill ==
  ASSUME NEW wall \in Nat, NEW real \in Nat, NEW t \in Nat, NEW t1 \in Nat, NEW u \in Nat,
         NEW u1 \in Nat, real <= u, t - wall <= u - real, u <= u1, t1 - t <= u1 - u
  PROVE  real <= u1 /\ t1 - wall <= u1 - real
  OBVIOUS

LEMMA EarlierGainsNothing ==
  ASSUME NEW t \in Nat, NEW t1 \in Nat, NEW u \in Nat, t1 <= t
  PROVE  t1 - t <= u - u
  OBVIOUS

\* A step of the clock that gains nothing on real time.
LEMMA ClockStep ==
  ASSUME IInv, up' \in Nat, now' \in Nat, stepBacks' \in Nat,
         dispatched' = dispatched, pages' = pages,
         up <= up', now' - now <= up' - up
  PROVE  IInv'
<1>1. TypeOK' /\ NewestKept' /\ Sized' /\ FloodIsBounded'
  BY DEF IInv, TypeOK, NewestKept, Gone, Sized, FloodIsBounded
<1>2. ASSUME NEW i \in 1..Len(pages)
      PROVE  pages[i].wall \in Nat /\ pages[i].real \in Nat
  <2>1. pages[i] \in [wall : Nat, real : Nat]
    BY ElementOfSeq DEF IInv, TypeOK
  <2> QED
    BY <2>1
<1>3. NeverAhead'
  <2> SUFFICES ASSUME NEW i \in 1..Len(pages)
               PROVE  pages[i].real <= up' /\ now' - pages[i].wall <= up' - pages[i].real
    BY DEF NeverAhead
  <2>1. pages[i].real <= up /\ now - pages[i].wall <= up - pages[i].real
    BY DEF IInv, NeverAhead
  <2>2. pages[i].wall \in Nat /\ pages[i].real \in Nat
    BY <1>2
  <2>3. up \in Nat /\ now \in Nat
    BY DEF IInv, TypeOK
  <2> QED
    BY <2>1, <2>2, <2>3, LaterStill
<1>4. GoneIsOld'
  <2> SUFFICES ASSUME NEW i \in 1..Gone PROVE up' - pages[i].real >= PageBudgetWindow
    BY DEF GoneIsOld, Gone
  <2>1. up - pages[i].real >= PageBudgetWindow
    BY DEF IInv, GoneIsOld
  <2>2. i \in 1..Len(pages)
    BY DEF IInv, NewestKept, Gone, TypeOK
  <2>3. pages[i].real \in Nat /\ PageBudgetWindow \in Nat
    BY <1>2, <2>2, BudgetAssumption
  <2>4. up \in Nat
    BY DEF IInv, TypeOK
  <2> QED
    BY <2>1, <2>3, <2>4
<1> QED
  BY <1>1, <1>3, <1>4 DEF IInv

LEMMA NextIInv == IInv /\ [Next]_vars => IInv'
<1> SUFFICES ASSUME IInv, [Next]_vars PROVE IInv'
  OBVIOUS
<1>1. CASE Take
  <2>1. CASE MayTake(dispatched, now)
    BY <1>1, <2>1, TakeKeeps
  <2>2. CASE ~MayTake(dispatched, now)
    BY <1>1, <2>2, PruneStep DEF Take
  <2> QED
    BY <2>1, <2>2
<1>2. CASE Ask
  BY <1>2, PruneStep DEF Ask
<1>3. CASE Tick
  BY <1>3, ClockStep DEF Tick, IInv, TypeOK
<1>4. CASE StepBack
  <2>1. up \in Nat /\ now \in Nat /\ stepBacks \in Nat
    BY DEF IInv, TypeOK
  <2>2. now' \in Nat /\ now' <= now /\ stepBacks' = stepBacks + 1 /\ up' = up
    BY <1>4, <2>1 DEF StepBack
  <2>3. up' \in Nat /\ stepBacks' \in Nat /\ up <= up'
    BY <2>1, <2>2
  <2>4. dispatched' = dispatched /\ pages' = pages
    BY <1>4 DEF StepBack
  <2>5. now' - now <= up' - up
    BY <2>1, <2>2, EarlierGainsNothing
  <2> QED
    BY <2>2, <2>3, <2>4, <2>5, ClockStep
<1>5. CASE UNCHANGED vars
  BY <1>5 DEF vars, IInv, TypeOK, NewestKept, Gone, Sized, NeverAhead, GoneIsOld, FloodIsBounded
<1> QED
  BY <1>1, <1>2, <1>3, <1>4, <1>5 DEF Next

\* Every reachable state satisfies the inductive invariant.
THEOREM Invariance == Spec => []IInv
  BY InitIInv, NextIInv, PTL DEF Spec

\* The stamps and the history keep their types (budget.ts:32-59).
THEOREM TypeCorrect == Spec => []TypeOK
<1>1. IInv => TypeOK
  BY DEF IInv
<1> QED
  BY <1>1, Invariance, PTL

\* For any budget, window and sequence of corrections backwards, no window of real time
\* holds more pages than the budget (budget.ts:38-59).
THEOREM FloodBounded == Spec => []FloodIsBounded
<1>1. IInv => FloodIsBounded
  BY DEF IInv
<1> QED
  BY <1>1, Invariance, PTL

=============================================================================
