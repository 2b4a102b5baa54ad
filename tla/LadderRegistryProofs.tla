------------------------ MODULE LadderRegistryProofs ------------------------
(***************************************************************************)
(* One emergency, one ladder, for any operators, attempts and windows.     *)
(* The inductive invariant is the conjunction of the run's invariants:     *)
(* OneLivePerOperator alone is not inductive with respect to the aliases,  *)
(* and AliasesResolve needs TypeOK to know that a ladder with a state is   *)
(* not Absent.                                                             *)
(***************************************************************************)
EXTENDS LadderRegistry, TLAPS

Entry == LadderRecord \cup {Absent}

\* A ladder that has just opened is a ladder, acknowledged by nobody.
LEMMA StartLadderType ==
  ASSUME NEW r \in BOOLEAN, NEW c \in BOOLEAN, NEW t \in Nat
  PROVE  /\ StartLadder(r, c, t) \in LadderRecord
         /\ StartLadder(r, c, t) # Absent
         /\ StartLadder(r, c, t).state # "acknowledged"
BY DEF StartLadder, LadderRecord, LadderState, LiveStates, Absent

\* What one tick may do to one entry: it never revives, answers or drops a ladder.
LEMMA AdvanceLadderFacts ==
  ASSUME NEW l \in Entry, NEW t \in Nat
  PROVE  /\ AdvanceLadder(l, t) \in Entry
         /\ AdvanceLadder(l, t) = Absent <=> l = Absent
         /\ IsLive(AdvanceLadder(l, t)) => IsLive(l) /\ AdvanceLadder(l, t).since <= t
         /\ ~IsLive(l) => AdvanceLadder(l, t) = l
         /\ IsLive(l) => AdvanceLadder(l, t).state # "acknowledged"
         /\ l.state = "contact" => AdvanceLadder(l, t).state # "paging"
<1>1. CASE l = Absent
  BY <1>1 DEF AdvanceLadder, Absent, IsLive, LiveStates, Entry
<1>2. CASE l \in LadderRecord
  <2>1. CASE ~IsLive(l)
    BY <1>2, <2>1 DEF AdvanceLadder, Absent, IsLive, LiveStates, Entry, LadderRecord, LadderState
  <2>2. CASE IsLive(l) /\ t < l.since
    <3>1. AdvanceLadder(l, t) = [l EXCEPT !.since = t]
      BY <2>2 DEF AdvanceLadder
    <3>2. [l EXCEPT !.since = t] \in LadderRecord
      BY <1>2 DEF LadderRecord
    <3> QED BY <1>2, <2>2, <3>1, <3>2 DEF Absent, IsLive, LiveStates, Entry, LadderRecord, LadderState
  <2>3. CASE IsLive(l) /\ ~(t < l.since) /\ WindowClosed(l, t)
    <3> DEFINE s == IF l.state = "paging" /\ l.contact THEN "contact" ELSE "exhausted"
    <3> DEFINE m == [l EXCEPT !.state = s, !.since = t]
    <3>1. AdvanceLadder(l, t) = m
      BY <2>3 DEF AdvanceLadder
    <3>2. s \in {"contact", "exhausted"} /\ (l.state = "contact" => s = "exhausted")
      OBVIOUS
    <3>3. m \in LadderRecord /\ m.state = s /\ m.since = t
      BY <1>2, <3>2 DEF LadderRecord, LadderState, LiveStates
    <3> HIDE DEF s, m
    <3> QED BY <1>2, <2>3, <3>1, <3>2, <3>3
            DEF Absent, IsLive, LiveStates, Entry, LadderRecord, LadderState
  <2>4. CASE IsLive(l) /\ ~(t < l.since) /\ ~WindowClosed(l, t)
    BY <1>2, <2>4 DEF AdvanceLadder, Absent, IsLive, LiveStates, Entry, LadderRecord, LadderState
  <2> QED BY <2>1, <2>2, <2>3, <2>4
<1> QED BY <1>1, <1>2 DEF Entry

\* What one answer may do to one entry.
LEMMA AcknowledgeLadderFacts ==
  ASSUME NEW l \in LadderRecord, NEW by \in Authors, NEW t \in Nat
  PROVE  /\ AcknowledgeLadder(l, by, t) \in LadderRecord
         /\ IsLive(AcknowledgeLadder(l, by, t)) => IsLive(l)
         /\ \/ AcknowledgeLadder(l, by, t) = l
            \/ /\ AcknowledgeLadder(l, by, t).state = "acknowledged"
               /\ AcknowledgeLadder(l, by, t).by \in Humans
         /\ l.state = "acknowledged" => AcknowledgeLadder(l, by, t) = l
BY LadderAssumption DEF AcknowledgeLadder, LadderRecord, LadderState, LiveStates, IsLive

\* A ladder in the registry is not Absent.
LEMMA RecordsArePresent == ASSUME NEW l \in LadderRecord PROVE l # Absent
BY DEF LadderRecord, LadderState, LiveStates, Absent

IInv == TypeOK /\ OneLivePerOperator /\ AliasesResolve /\ OnlyHumansAcknowledge

LEMMA InitIInv == Init => IInv
BY LadderAssumption
   DEF Init, IInv, TypeOK, OneLivePerOperator, AliasesResolve, OnlyHumansAcknowledge,
       Absent, IsLive, LiveStates

\* An attempt that arrives: known, joined to the one live ladder, or started.
LEMMA OpenIInv ==
  ASSUME IInv, NEW a \in Attempts, NEW r \in BOOLEAN, NEW c \in BOOLEAN, Open(a, r, c)
  PROVE  IInv'
<1> DEFINE l == StartLadder(r, c, now)
<1>1. l \in LadderRecord /\ l # Absent /\ l.state # "acknowledged"
  BY StartLadderType DEF IInv, TypeOK
<1>2. CASE Known(ladders, joined, a)
  <2>1. ladders' = ladders /\ joined' = joined /\ now' = now /\ stepBacks' = stepBacks
    BY <1>2 DEF Open, OpenedLadders, OpenedJoined, Starts, Joins
  <2> QED BY <2>1 DEF IInv, TypeOK, OneLivePerOperator, AliasesResolve, OnlyHumansAcknowledge
<1>3. CASE Joins(ladders, joined, a)
  <2>1. PICK b \in LiveFor(ladders, Sender[a]) : joined' = [joined EXCEPT ![a] = b]
    BY <1>3 DEF Open, OpenedJoined, Joins
  <2>2. ladders' = ladders /\ now' = now /\ stepBacks' = stepBacks
    BY <1>3 DEF Open, OpenedLadders, Starts, Joins
  <2>3. b \in Attempts /\ Sender[b] = Sender[a] /\ ladders[b] # Absent
    BY <2>1 DEF LiveFor, IsLive, LiveStates, Absent
  <2>4. ladders[a] = Absent
    BY <1>3 DEF Joins, Known, Canonical, IInv, AliasesResolve
  <2>5. TypeOK' /\ OneLivePerOperator' /\ OnlyHumansAcknowledge'
    BY <2>1, <2>2, <2>3 DEF IInv, TypeOK, OneLivePerOperator, OnlyHumansAcknowledge
  <2>6. AliasesResolve'
    BY <2>1, <2>2, <2>3, <2>4 DEF IInv, TypeOK, AliasesResolve
  <2> QED BY <2>5, <2>6 DEF IInv
<1>4. CASE Starts(ladders, joined, a)
  <2>1. ladders' = [ladders EXCEPT ![a] = l]
    BY <1>4 DEF Open, OpenedLadders
  <2>2. joined' = joined /\ now' = now /\ stepBacks' = stepBacks
    BY <1>4 DEF Open, OpenedJoined, Starts, Joins
  <2>3. \A b \in Attempts : Sender[b] = Sender[a] => ~IsLive(ladders[b])
    BY <1>4 DEF Starts, LiveFor
  <2>4. joined[a] = NoAttempt
    BY <1>4 DEF Starts, Known, Canonical, IInv, AliasesResolve
  <2>5. TypeOK'
    BY <1>1, <2>1, <2>2 DEF IInv, TypeOK
  <2>6. OneLivePerOperator'
    BY <2>1, <2>2, <2>3 DEF IInv, TypeOK, OneLivePerOperator
  <2>7. AliasesResolve'
    BY <1>1, <2>1, <2>2, <2>4 DEF IInv, TypeOK, AliasesResolve
  <2>8. OnlyHumansAcknowledge'
    BY <1>1, <2>1, <2>2 DEF IInv, TypeOK, OnlyHumansAcknowledge
  <2> QED BY <2>5, <2>6, <2>7, <2>8 DEF IInv
<1> QED BY <1>2, <1>3, <1>4 DEF Joins, Starts

\* What the sweep leaves of each entry.
LEMMA SweepEntry ==
  ASSUME TypeOK, Sweep, NEW a \in Attempts
  PROVE  \/ Reapable(ladders[a], now) /\ ladders'[a] = Absent
         \/ ~Reapable(ladders[a], now) /\ ladders'[a] = AdvanceLadder(ladders[a], now)
BY DEF Sweep, TickedAll, Reaped, AdvanceLadder, Absent, IsLive, LiveStates

LEMMA SweepIInv == ASSUME IInv, Sweep PROVE IInv'
<1> USE DEF IInv
<1>1. \A a \in Attempts : ladders[a] \in Entry /\ now \in Nat
  BY DEF TypeOK, Entry
<1>2. \A a \in Attempts :
        /\ ladders'[a] \in Entry
        /\ IsLive(ladders'[a]) => IsLive(ladders[a])
        /\ ladders[a] = Absent => ladders'[a] = Absent
        /\ ~Reapable(ladders[a], now) /\ ladders[a] # Absent => ladders'[a] # Absent
        /\ ladders'[a].state = "acknowledged" => ladders'[a] = ladders[a]
  <2> SUFFICES ASSUME NEW a \in Attempts
               PROVE  /\ ladders'[a] \in Entry
                      /\ IsLive(ladders'[a]) => IsLive(ladders[a])
                      /\ ladders[a] = Absent => ladders'[a] = Absent
                      /\ ~Reapable(ladders[a], now) /\ ladders[a] # Absent => ladders'[a] # Absent
                      /\ ladders'[a].state = "acknowledged" => ladders'[a] = ladders[a]
    OBVIOUS
  <2>1. CASE ladders'[a] = Absent /\ Reapable(ladders[a], now)
    BY <2>1 DEF Entry, Absent, IsLive, LiveStates
  <2>2. CASE ladders'[a] = AdvanceLadder(ladders[a], now)
    BY <1>1, <2>2, AdvanceLadderFacts
  <2> QED BY <2>1, <2>2, SweepEntry
<1>3. joined' = [b \in Attempts |-> IF joined[b] # NoAttempt /\ Reapable(ladders[Canonical(joined, b)], now)
                                    THEN NoAttempt ELSE joined[b]]
  BY DEF Sweep, ReapedJoined
<1>4. \A a \in Attempts :
        joined'[a] # NoAttempt => joined'[a] = joined[a] /\ ~Reapable(ladders[joined[a]], now)
  BY <1>3 DEF Canonical
<1>5. TypeOK'
  <2>1. ladders' \in [Attempts -> Entry]
    BY <1>2 DEF Sweep, TickedAll
  <2>2. joined' \in [Attempts -> Attempts \cup {NoAttempt}]
    BY <1>3 DEF TypeOK
  <2> QED BY <2>1, <2>2 DEF Sweep, TypeOK, Entry
<1>6. OneLivePerOperator'
  BY <1>2 DEF OneLivePerOperator
<1>7. AliasesResolve'
  BY <1>2, <1>4 DEF AliasesResolve, TypeOK
<1>8. OnlyHumansAcknowledge'
  BY <1>2 DEF OnlyHumansAcknowledge
<1> QED BY <1>5, <1>6, <1>7, <1>8

LEMMA AcknowledgeIInv ==
  ASSUME IInv, NEW a \in Attempts, NEW by \in Authors, Acknowledge(a, by)
  PROVE  IInv'
<1> DEFINE c == Canonical(joined, a)
<1>1. c \in Attempts
  BY DEF IInv, TypeOK, Canonical
<1>2. ladders[c] \in LadderRecord
  BY <1>1 DEF Acknowledge, Known, IInv, TypeOK
<1> DEFINE l == AcknowledgeLadder(ladders[c], by, now)
<1>3. /\ ladders' = [ladders EXCEPT ![c] = l]
      /\ joined' = joined /\ now' = now /\ stepBacks' = stepBacks
  BY DEF Acknowledge
<1>4. /\ l \in LadderRecord
      /\ IsLive(l) => IsLive(ladders[c])
      /\ \/ l = ladders[c]
         \/ l.state = "acknowledged" /\ l.by \in Humans
  <2>1. now \in Nat
    BY DEF IInv, TypeOK
  <2> HIDE DEF c
  <2> QED BY <1>2, <2>1, AcknowledgeLadderFacts
<1>5. l # Absent /\ ladders[c] # Absent
  BY <1>2, <1>4, RecordsArePresent
<1> HIDE DEF l
<1>6. TypeOK'
  BY <1>1, <1>3, <1>4 DEF IInv, TypeOK
<1>7. OneLivePerOperator'
  BY <1>1, <1>3, <1>4 DEF IInv, TypeOK, OneLivePerOperator
<1>8. AliasesResolve'
  BY <1>1, <1>3, <1>5 DEF IInv, TypeOK, AliasesResolve
<1>9. OnlyHumansAcknowledge'
  BY <1>1, <1>3, <1>4 DEF IInv, TypeOK, OnlyHumansAcknowledge
<1> QED BY <1>6, <1>7, <1>8, <1>9 DEF IInv

\* The clock touches no ladder.
LEMMA ClockIInv == ASSUME IInv, Tick \/ StepBack \/ UNCHANGED vars PROVE IInv'
<1>1. UNCHANGED <<ladders, joined>> /\ now' \in Nat /\ stepBacks' \in Nat
  BY RegistryAssumption DEF IInv, TypeOK, Tick, StepBack, vars
<1> QED BY <1>1 DEF IInv, TypeOK, OneLivePerOperator, AliasesResolve, OnlyHumansAcknowledge

LEMMA NextIInv == IInv /\ [Next]_vars => IInv'
BY OpenIInv, SweepIInv, AcknowledgeIInv, ClockIInv DEF Next

\* What every state of the registry satisfies, for any attempts, people and windows.
THEOREM Invariance == Spec => []IInv
<1>1. IInv /\ [Next]_vars => IInv'
  BY NextIInv
<1> QED BY InitIInv, <1>1, PTL DEF Spec

\* Type correctness of the registry.
THEOREM TypeCorrect == Spec => []TypeOK
BY Invariance, PTL DEF IInv

\* One emergency, one ladder: no operator ever has two running (escalation.ts:182-212).
THEOREM OneLadderPerEmergency == Spec => []OneLivePerOperator
BY Invariance, PTL DEF IInv

\* Every alias names a ladder of the same operator that is still there (escalation.ts:216).
THEOREM AliasesSound == Spec => []AliasesResolve
BY Invariance, PTL DEF IInv

\* Nobody but a human ever stops a ladder (escalation.ts:140-151).
THEOREM HumansOnly == Spec => []OnlyHumansAcknowledge
BY Invariance, PTL DEF IInv

-----------------------------------------------------------------------------
(* The action properties, from the same invariant. *)

LEMMA OpenMovesOn ==
  ASSUME IInv, NEW x \in Attempts, NEW r \in BOOLEAN, NEW c \in BOOLEAN, Open(x, r, c)
  PROVE  LadderOnlyMovesOn
<1>1. \A a \in Attempts : ladders[a] # Absent => ladders'[a] = ladders[a]
  BY DEF Open, OpenedLadders, Starts, Known, Canonical, IInv, TypeOK, AliasesResolve
<1>2. \A a \in Attempts : ladders[a].state # "absent" => ladders[a] # Absent
  BY DEF Absent
<1> QED BY <1>1, <1>2 DEF LadderOnlyMovesOn, IsLive, LiveStates, Absent

LEMMA SweepMovesOn == ASSUME IInv, Sweep PROVE LadderOnlyMovesOn
<1> SUFFICES ASSUME NEW a \in Attempts
             PROVE  /\ IsLive(ladders[a]) => ladders'[a] # Absent
                    /\ ladders[a].state = "contact" => ladders'[a].state # "paging"
                    /\ ladders[a].state = "exhausted" =>
                         ladders'[a] \in {ladders[a], Absent} \/ ladders'[a].state = "acknowledged"
                    /\ ladders[a].state = "acknowledged" => ladders'[a] \in {ladders[a], Absent}
  BY DEF LadderOnlyMovesOn
<1>1. ladders[a] \in Entry /\ now \in Nat
  BY DEF IInv, TypeOK, Entry
<1>2. CASE Reapable(ladders[a], now) /\ ladders'[a] = Absent
  BY <1>2 DEF Reapable, IsTerminal, IsLive, LiveStates
<1>3. CASE ladders'[a] = AdvanceLadder(ladders[a], now)
  <2>1. ladders[a].state \in {"exhausted", "acknowledged"} => ~IsLive(ladders[a])
    BY DEF IsLive, LiveStates
  <2>2. IsLive(ladders[a]) => ladders[a] # Absent
    BY DEF IsLive, LiveStates, Absent
  <2> QED BY <1>1, <1>3, <2>1, <2>2, AdvanceLadderFacts
<1> QED BY <1>2, <1>3, SweepEntry DEF IInv

LEMMA AcknowledgeMovesOn ==
  ASSUME IInv, NEW x \in Attempts, NEW by \in Authors, Acknowledge(x, by)
  PROVE  LadderOnlyMovesOn
<1> DEFINE c == Canonical(joined, x)
<1>1. c \in Attempts /\ now \in Nat
  BY DEF IInv, TypeOK, Canonical
<1>2. ladders[c] \in LadderRecord
  BY <1>1 DEF Acknowledge, Known, IInv, TypeOK
<1> DEFINE l == AcknowledgeLadder(ladders[c], by, now)
<1>3. ladders' = [ladders EXCEPT ![c] = l]
  BY DEF Acknowledge
<1> HIDE DEF c
<1>4. /\ l \in LadderRecord
      /\ \/ l = ladders[c]
         \/ l.state = "acknowledged" /\ l.by \in Humans
      /\ ladders[c].state = "acknowledged" => l = ladders[c]
  BY <1>1, <1>2, AcknowledgeLadderFacts
<1>5. l # Absent
  BY <1>4, RecordsArePresent
<1> HIDE DEF l
<1>6. \A a \in Attempts : ladders'[a] = IF a = c THEN l ELSE ladders[a]
  BY <1>1, <1>3 DEF IInv, TypeOK
<1>7. \A a \in Attempts : IsLive(ladders[a]) => ladders[a] # Absent
  BY DEF IsLive, LiveStates, Absent
<1> QED BY <1>4, <1>5, <1>6, <1>7 DEF LadderOnlyMovesOn

LEMMA ClockMovesOn ==
  ASSUME Tick \/ StepBack \/ UNCHANGED vars PROVE LadderOnlyMovesOn
<1>1. ladders' = ladders
  BY DEF Tick, StepBack, vars
<1> QED BY <1>1 DEF LadderOnlyMovesOn, IsLive, LiveStates, Absent

\* A running ladder is never dropped, an answer is never taken back, and an exhausted
\* ladder only becomes answered or forgotten (escalation.ts:290-294).
THEOREM LaddersOnlyMoveOn == Spec => OnlyMovesOn
<1>1. IInv /\ [Next]_vars => [LadderOnlyMovesOn]_vars
  BY OpenMovesOn, SweepMovesOn, AcknowledgeMovesOn, ClockMovesOn DEF Next
<1> QED BY <1>1, Invariance, PTL DEF Spec, OnlyMovesOn

\* A late answer never stops another ladder than the one its id was shown for, as long
\* as that one exists (escalation.ts:211-212).
THEOREM AnswersFindTheirLadder == Spec => AckFindsItsLadder
<1>1. ASSUME IInv, [Next]_vars PROVE [IdKeepsItsLadder]_vars
  <2>1. ASSUME NEW x \in Attempts, NEW r \in BOOLEAN, NEW c \in BOOLEAN, Open(x, r, c)
        PROVE  IdKeepsItsLadder
    <3>1. \A a \in Attempts : Known(ladders, joined, a) => joined'[a] = joined[a]
      BY <1>1, <2>1 DEF Open, OpenedJoined, Joins, IInv, TypeOK
    <3> QED BY <3>1 DEF IdKeepsItsLadder, Canonical
  <2>2. ASSUME Sweep PROVE IdKeepsItsLadder
    <3> SUFFICES ASSUME NEW a \in Attempts, Known(ladders, joined, a),
                        ladders'[Canonical(joined, a)] # Absent
                 PROVE  Canonical(joined', a) = Canonical(joined, a)
      BY DEF IdKeepsItsLadder
    <3>1. Canonical(joined, a) \in Attempts
      BY <1>1 DEF IInv, TypeOK, Canonical
    <3>2. ~Reapable(ladders[Canonical(joined, a)], now)
      BY <1>1, <2>2, <3>1, SweepEntry DEF IInv
    <3>3. joined'[a] = joined[a]
      BY <2>2, <3>2 DEF Sweep, ReapedJoined
    <3> QED BY <3>3 DEF Canonical
  <2>3. ASSUME NEW x \in Attempts, NEW by \in Authors, Acknowledge(x, by)
        PROVE  IdKeepsItsLadder
    BY <2>3 DEF Acknowledge, IdKeepsItsLadder, Canonical
  <2>4. ASSUME Tick \/ StepBack PROVE IdKeepsItsLadder
    BY <2>4 DEF Tick, StepBack, IdKeepsItsLadder, Canonical
  <2> QED BY <1>1, <2>1, <2>2, <2>3, <2>4 DEF Next
<1> QED BY <1>1, Invariance, PTL DEF Spec, AckFindsItsLadder

\* A clock correction costs at most one window (escalation.ts:110-123).
THEOREM AtMostOneWindow == Spec => OneWindowAtMost
<1>1. ASSUME IInv, Sweep, NEW a \in Attempts, IsLive(ladders'[a])
      PROVE  ladders'[a].since <= now
  <2>1. ladders[a] \in Entry /\ now \in Nat
    BY <1>1 DEF IInv, TypeOK, Entry
  <2>2. ladders'[a] # Absent
    BY <1>1 DEF IsLive, LiveStates, Absent
  <2>3. ladders'[a] = AdvanceLadder(ladders[a], now)
    BY <1>1, <2>2, SweepEntry DEF IInv
  <2> QED BY <1>1, <2>1, <2>3, AdvanceLadderFacts
<1>2. IInv => (Sweep => \A a \in Attempts : IsLive(ladders'[a]) => ladders'[a].since <= now)
  BY <1>1
<1> QED BY <1>2, Invariance, PTL DEF OneWindowAtMost

=============================================================================
