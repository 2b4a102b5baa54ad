--------------------------- MODULE ExecutorProofs ---------------------------
(***************************************************************************)
(* What the escalation executor promises, for any roster, operators,       *)
(* attempts, windows and budget, and however often its clock is corrected  *)
(* or its process dies.                                                    *)
(***************************************************************************)
EXTENDS Executor, PageBudgetProofs, FiniteSetTheorems

Stamps == 0..MaxClock
Entry == LadderRecord \cup {Absent}

-----------------------------------------------------------------------------
(* What the operators of the model return. *)

\* The assumptions, as the proofs use them.
LEMMA Assumed ==
  /\ None \notin Attempts /\ None \notin Humans /\ None \notin Nat
  /\ None \notin Hold /\ None \notin Page /\ None \notin Resend
  /\ NoAttempt \notin Attempts
  /\ Sender \in [Attempts -> Operators]
  /\ People = Humans /\ Humans \subseteq Authors
  /\ Pushable \subseteq People
  /\ Expires \in [People -> Int]
  /\ PagingSeconds \in Nat \ {0} /\ DefaultPaging \in Nat \ {0}
  /\ AckHoldsSeconds \in Nat \ {0} /\ RetentionSeconds \in Nat \ {0}
  /\ RepageCeiling \in Nat \ {0} /\ RepageCeilingSeconds \in Nat \ {0}
  /\ RepeatPageTtl \in Nat \ {0}
  /\ MaxClock \in Nat /\ MaxStepBacks \in Nat /\ MaxRestarts \in Nat
BY ExecutorAssumption, LadderAssumption DEF People

LEMMA RosterIsPeople ==
  ASSUME NEW t \in Int
  PROVE  RosterAt(t) \subseteq People /\ RosterAt(t) \cap Pushable \in SUBSET People
BY DEF RosterAt

\* A ladder that has just opened is a ladder, and pages when anybody is pageable.
LEMMA StartLadderFacts ==
  ASSUME NEW r \in BOOLEAN, NEW t \in Nat
  PROVE  /\ StartLadder(r, FALSE, t) \in LadderRecord
         /\ StartLadder(r, FALSE, t).state = "paging" <=> r
BY DEF StartLadder, LadderRecord, LadderState, LiveStates

\* A ladder in the registry is not Absent, and nothing absent is live.
LEMMA RecordsArePresent ==
  /\ \A l \in LadderRecord : l # Absent
  /\ ~IsLive(Absent) /\ Absent.state # "paging"
BY DEF LadderRecord, LadderState, LiveStates, Absent, IsLive

\* One tick of one entry drops nothing, and starts nothing paging.
LEMMA AdvanceLadderFacts ==
  ASSUME NEW l \in Entry, NEW t \in Nat
  PROVE  /\ AdvanceLadder(l, t) \in Entry
         /\ AdvanceLadder(l, t) = Absent <=> l = Absent
         /\ AdvanceLadder(l, t).state = "paging" => l.state = "paging"
<1>1. CASE l = Absent
  BY <1>1 DEF AdvanceLadder, Absent, IsLive, LiveStates, Entry
<1>2. CASE l \in LadderRecord
  <2>1. CASE ~IsLive(l)
    BY <1>2, <2>1 DEF AdvanceLadder, Absent, Entry, LadderRecord, LadderState, LiveStates
  <2>2. CASE IsLive(l) /\ t < l.since
    <3>1. AdvanceLadder(l, t) = [l EXCEPT !.since = t]
      BY <2>2 DEF AdvanceLadder
    <3>2. [l EXCEPT !.since = t] \in LadderRecord
      BY <1>2 DEF LadderRecord
    <3> QED BY <1>2, <3>1, <3>2, RecordsArePresent DEF Entry, LadderRecord
  <2>3. CASE IsLive(l) /\ ~(t < l.since) /\ WindowClosed(l, t)
    <3> DEFINE s == IF l.state = "paging" /\ l.contact THEN "contact" ELSE "exhausted"
    <3> DEFINE m == [l EXCEPT !.state = s, !.since = t]
    <3>1. AdvanceLadder(l, t) = m
      BY <2>3 DEF AdvanceLadder
    <3>2. m \in LadderRecord /\ m.state # "paging"
      BY <1>2 DEF LadderRecord, LadderState, LiveStates
    <3> HIDE DEF s, m
    <3> QED BY <1>2, <3>1, <3>2, RecordsArePresent DEF Entry
  <2>4. CASE IsLive(l) /\ ~(t < l.since) /\ ~WindowClosed(l, t)
    BY <1>2, <2>4 DEF AdvanceLadder, Absent, Entry, LadderRecord, LadderState, LiveStates
  <2> QED BY <2>1, <2>2, <2>3, <2>4
<1> QED BY <1>1, <1>2 DEF Entry

\* The budget's array holds readings of the clock, pruned or with a unit taken.
LEMMA BudgetTyped ==
  ASSUME TypeOK
  PROVE  /\ Pruned(budget, now) \in Seq(Stamps)
         /\ Taken(budget, now) \in Seq(Stamps)
         /\ Remaining(budget, now) \in Nat
<1>1. budget \in Seq(Stamps) /\ now \in Stamps /\ now \in Nat /\ Stamps \in SUBSET Nat
  BY Assumed DEF TypeOK, Stamps
<1>2. Pruned(budget, now) \in Seq(Stamps)
  BY <1>1, PrunedKeepsStamps
<1> DEFINE d == Pruned(budget, now)
<1> HIDE DEF d
<1>3. d \in Seq(Stamps) /\ Len(d) \in Nat
  BY <1>2, LenProperties DEF d
<1>4. Append(d, now) \in Seq(Stamps)
  BY <1>1, <1>3
<1>5. MaxPagesPerWindow \in Nat
  BY BudgetAssumption
<1>6. (IF MaxPagesPerWindow - Len(d) >= 0 THEN MaxPagesPerWindow - Len(d) ELSE 0) \in Nat
  BY <1>3, <1>5
<1> QED BY <1>2, <1>4, <1>6 DEF d, Taken, Remaining

\* takePending is a sequence of attempts with everybody in it who waits, and nobody else.
LEMMA TakenPendingFacts ==
  ASSUME NEW op, NEW p, NEW others \in TakenPending(op, p), IsFiniteSet(seen), seen \subseteq Attempts,
         \A o \in Operators : pending[<<p, o>>] \in seen \cup {NoAttempt}
  PROVE  /\ others \in Seq(Attempts)
         /\ \A i \in 1..Len(others) : \E o \in Operators \ {op} :
              others[i] = pending[<<p, o>>] /\ pending[<<p, o>>] # NoAttempt
         /\ \A o \in Operators \ {op} :
              pending[<<p, o>>] # NoAttempt /\ Standing(pending[<<p, o>>], now) =>
                \E i \in 1..Len(others) : others[i] = pending[<<p, o>>]
<1> DEFINE O == {x \in Operators \ {op} : pending[<<p, x>>] # NoAttempt /\ Standing(pending[<<p, x>>], now)}
           S == {pending[<<p, o>>] : o \in O}
           n == Cardinality(S)
<1>1. S \subseteq seen
  OBVIOUS
<1>2. IsFiniteSet(S) /\ n \in Nat
  BY <1>1, FS_Subset, FS_CardinalityType
<1>3. others \in {f \in [1..n -> S] : \A i, j \in 1..n : i # j => f[i] # f[j]}
  BY DEF TakenPending, SetToSeqs
<1>4. \A i \in 1..n : others[i] \in S /\ others[i] \in Attempts
  BY <1>1, <1>3
<1> HIDE DEF n
<1>5. others \in Seq(Attempts) /\ Len(others) = n
  <2>1. others = [i \in 1..n |-> others[i]]
    BY <1>3
  <2> QED BY <1>2, <1>4, <2>1
<1>6. \A x \in S : \E i \in 1..n : others[i] = x
  <2>1. others \in Injection(1..n, S)
    BY <1>3 DEF Injection, IsInjective
  <2>2. Cardinality(1..n) = n
    BY <1>2, FS_Interval
  <2>3. others \in Surjection(1..n, S)
    <3>1. Cardinality(1..n) = Cardinality(S)
      BY <2>2 DEF n
    <3> QED BY <1>2, <2>1, <3>1, FS_Injection
  <2> QED BY <2>3 DEF Surjection
<1>7. \A i \in 1..Len(others) : others[i] \in S
  BY <1>4, <1>5
<1>8. \A x \in S : \E i \in 1..Len(others) : others[i] = x
  BY <1>5, <1>6
<1> QED BY <1>5, <1>7, <1>8

\* Opening a ladder for an attempt: it starts, joins the live one or changes nothing, and
\* where it starts and pages, the page is out or the budget is spent.
LEMMA OpenLadderTyped ==
  ASSUME TypeOK, NEW a \in Attempts, NEW charged \in BOOLEAN, OpenLadder(a, charged)
  PROVE  /\ ladders' \in [Attempts -> Entry]
         /\ joined' \in [Attempts -> Attempts \cup {NoAttempt}]
         /\ running' \in [Attempts -> SUBSET People]
         /\ notes' \in [Attempts -> {"none", "spent", "failed", "partial"}]
         /\ budget' \in Seq(Stamps)
<1> DEFINE r == PageableNow(RosterAt(now)) # {}
           l == StartLadder(r, FALSE, now)
<1>1. now \in Nat /\ r \in BOOLEAN
  BY Assumed DEF TypeOK
<1>2. l \in LadderRecord
  BY <1>1, StartLadderFacts
<1>3. ladders' = OpenedLadders(ladders, joined, a, l)
  BY DEF OpenLadder
<1> HIDE DEF l
<1>4. ladders' \in [Attempts -> Entry]
  BY <1>2, <1>3 DEF OpenedLadders, TypeOK, Entry
<1>5. joined' \in [Attempts -> Attempts \cup {NoAttempt}]
  <2>1. joined' = OpenedJoined(ladders, joined, a)
    BY DEF OpenLadder
  <2>2. CASE Joins(ladders, joined, a)
    <3>1. (CHOOSE b \in LiveFor(ladders, Sender[a]) : TRUE) \in Attempts
      BY <2>2 DEF Joins, LiveFor
    <3> QED BY <2>1, <2>2, <3>1 DEF OpenedJoined, TypeOK
  <2> QED BY <2>1, <2>2 DEF OpenedJoined, TypeOK
<1>6. running' \in [Attempts -> SUBSET People]
  <2>1. RosterAt(now) \cap Pushable \in SUBSET People
    BY <1>1, RosterIsPeople
  <2>2. running' = running \/ running' = [running EXCEPT ![a] = RosterAt(now) \cap Pushable]
    BY DEF OpenLadder
  <2> QED BY <2>1, <2>2 DEF TypeOK
<1>7. notes' \in [Attempts -> {"none", "spent", "failed", "partial"}]
  <2>1. notes' = notes \/ notes' = [notes EXCEPT ![a] = "spent"]
    BY DEF OpenLadder
  <2> QED BY <2>1 DEF TypeOK
<1>8. budget' \in Seq(Stamps)
  <2>1. budget' \in {Taken(budget, now), Pruned(budget, now), budget}
    BY DEF OpenLadder
  <2> QED BY <2>1, BudgetTyped DEF TypeOK, Stamps
<1> QED BY <1>4, <1>5, <1>6, <1>7, <1>8

LEMMA EndHoldTyped ==
  ASSUME TypeOK, NEW h \in Hold, EndHold(h)
  PROVE  /\ held' \in [Operators -> Hold \cup {None}]
         /\ pending' \in [People \X Operators -> Attempts \cup {NoAttempt}]
BY DEF EndHold, TypeOK

LEMMA StartResendTyped ==
  ASSUME TypeOK, NEW a \in Attempts, NEW h \in Hold, StartResend(a, h)
  PROVE  resend' \in [Attempts -> Resend \cup {None}]
<1> DEFINE r == [hold |-> h, stage |-> "first", taken |-> FALSE, reached |-> FALSE]
<1>1. r \in Resend
  BY DEF Resend
<1>2. resend' = [resend EXCEPT ![a] = r]
  BY DEF StartResend
<1> HIDE DEF r
<1> QED BY <1>1, <1>2 DEF TypeOK, Resend

LEMMA TextTyped ==
  ASSUME TypeOK, NEW h PROVE BudgetAfterText(h) \in Seq(Stamps)
BY BudgetTyped DEF BudgetAfterText, TypeOK, Stamps

\* What an attempt answered from a hold may rely on.
LEMMA AnsweredHold ==
  ASSUME TypeOK, NEW a \in Attempts, AnsweredFromHold(Sender[a])
  PROVE  /\ Sender[a] \in Operators
         /\ held[Sender[a]] \in Hold /\ held[Sender[a]].by \in People
         /\ now \in Nat /\ held[Sender[a]].at \in Nat
BY Assumed DEF AnsweredFromHold, TypeOK, Hold

LEMMA RecentlyStartedTyped ==
  ASSUME TypeOK, NEW p \in People, NEW t \in Nat
  PROVE  RecentlyStarted(p, t) \in SUBSET Page /\ RecentlyStarted(p, t) \subseteq started[p]
BY DEF RecentlyStarted, TypeOK

-----------------------------------------------------------------------------
(* The invariant the rest stands on.                                       *)

\* An attempt this process has not been given has left no trace in it.
Untouched(a) ==
  /\ ladders[a] = Absent /\ joined[a] = NoAttempt
  /\ heldAttempt[a] = None /\ pageNamed[a] = <<>>
  /\ running[a] = {} /\ resend[a] = None /\ repeat[a] = None
  /\ recorded[a] = 0

OnlyTheSeen ==
  /\ IsFiniteSet(seen)
  /\ \A a \in Attempts \ seen : Untouched(a)
  /\ \A k \in People \X Operators : pending[k] \in seen \cup {NoAttempt}

\* What a first send achieved is known when it has settled.
FirstIsUntaken == \A a \in Attempts : resend[a] # None /\ resend[a].stage = "first" => ~resend[a].taken

Core == TypeOK /\ OnlyTheSeen /\ FirstIsUntaken /\ RecordedOnce

-----------------------------------------------------------------------------
(* Types, action by action. *)

LEMMA OpenOrJoinTyped == ASSUME TypeOK, NEW a \in Attempts, OpenOrJoin(a) PROVE TypeOK'
<1>1. OpenLadder(a, FALSE) /\ seen' = seen \cup {a}
  BY DEF OpenOrJoin, Arrives
<1>2. /\ ladders' \in [Attempts -> Entry]
      /\ joined' \in [Attempts -> Attempts \cup {NoAttempt}]
      /\ running' \in [Attempts -> SUBSET People]
      /\ notes' \in [Attempts -> {"none", "spent", "failed", "partial"}]
      /\ budget' \in Seq(Stamps)
  BY <1>1, OpenLadderTyped
<1>3. held' \in [Operators -> Hold \cup {None}]
  BY DEF OpenOrJoin, TypeOK
<1> QED BY <1>1, <1>2, <1>3 DEF OpenOrJoin, TypeOK, Entry, Stamps, clockVars, pageVars

LEMMA AnswerAndWaitTyped == ASSUME TypeOK, NEW a \in Attempts, AnswerAndWait(a) PROVE TypeOK'
<1> DEFINE op == Sender[a]
           h == held[op]
<1>1. op \in Operators /\ h \in Hold /\ h.by \in People
  BY AnsweredHold DEF AnswerAndWait
<1>2. seen' = seen \cup {a} /\ StartResend(a, h) /\ budget' = BudgetAfterText(h)
  BY DEF AnswerAndWait, Arrives
<1>3. resend' \in [Attempts -> Resend \cup {None}]
  BY <1>1, <1>2, StartResendTyped
<1>4. budget' \in Seq(Stamps)
  BY <1>2, TextTyped
<1>5. heldAttempt' \in [Attempts -> Hold \cup {None}]
  BY <1>1 DEF AnswerAndWait, TypeOK
<1>6. pending' \in [People \X Operators -> Attempts \cup {NoAttempt}]
  BY <1>1 DEF AnswerAndWait, TypeOK
<1> HIDE DEF h, op
<1> QED BY <1>2, <1>3, <1>4, <1>5, <1>6
        DEF AnswerAndWait, TypeOK, Resend, Stamps, clockVars, ladderVars

LEMMA AnswerAndWidenTyped == ASSUME TypeOK, NEW a \in Attempts, AnswerAndWiden(a) PROVE TypeOK'
<1> DEFINE op == Sender[a]
           h == held[op]
<1>1. op \in Operators /\ h \in Hold /\ h.by \in People /\ now \in Nat
  BY AnsweredHold DEF AnswerAndWiden
<1>2. seen' = seen \cup {a} /\ StartResend(a, h) /\ EndHold(h) /\ OpenLadder(a, TRUE)
  BY DEF AnswerAndWiden, Arrives
<1>3. resend' \in [Attempts -> Resend \cup {None}]
  BY <1>1, <1>2, StartResendTyped
<1>4. /\ ladders' \in [Attempts -> Entry]
      /\ joined' \in [Attempts -> Attempts \cup {NoAttempt}]
      /\ running' \in [Attempts -> SUBSET People]
      /\ notes' \in [Attempts -> {"none", "spent", "failed", "partial"}]
      /\ budget' \in Seq(Stamps)
  BY <1>2, OpenLadderTyped
<1>5. /\ held' \in [Operators -> Hold \cup {None}]
      /\ pending' \in [People \X Operators -> Attempts \cup {NoAttempt}]
  BY <1>1, <1>2, EndHoldTyped
<1>6. heldAttempt' \in [Attempts -> Hold \cup {None}]
  BY <1>1 DEF AnswerAndWiden, TypeOK
<1>7. started' \in [People -> SUBSET Page]
  BY <1>1, RecentlyStartedTyped DEF AnswerAndWiden, TypeOK
<1>8. widened' \in [Operators -> (0..MaxClock) \cup {None}]
  BY <1>1 DEF AnswerAndWiden, TypeOK
<1>9. widenings' \in [Operators -> SUBSET Page]
  <2>1. [at |-> now, page |-> a] \in Page
    BY <1>1 DEF Page
  <2>2. widenings' = [widenings EXCEPT ![op] = @ \cup {[at |-> now, page |-> a]}]
    BY DEF AnswerAndWiden
  <2> QED BY <1>1, <2>1, <2>2 DEF TypeOK
<1> HIDE DEF h, op
<1> QED BY <1>2, <1>3, <1>4, <1>5, <1>6, <1>7, <1>8, <1>9
        DEF AnswerAndWiden, TypeOK, Resend, Entry, Stamps, clockVars

LEMMA AnswerAndEscalateTyped == ASSUME TypeOK, NEW a \in Attempts, AnswerAndEscalate(a) PROVE TypeOK'
<1> DEFINE op == Sender[a]
           h == held[op]
<1>1. op \in Operators /\ h \in Hold /\ h.by \in People /\ now \in Nat
  BY AnsweredHold DEF AnswerAndEscalate
<1>2. seen' = seen \cup {a} /\ StartResend(a, h) /\ EndHold(h) /\ OpenLadder(a, FALSE)
  BY DEF AnswerAndEscalate, Arrives
<1>3. resend' \in [Attempts -> Resend \cup {None}]
  BY <1>1, <1>2, StartResendTyped
<1>4. /\ ladders' \in [Attempts -> Entry]
      /\ joined' \in [Attempts -> Attempts \cup {NoAttempt}]
      /\ running' \in [Attempts -> SUBSET People]
      /\ notes' \in [Attempts -> {"none", "spent", "failed", "partial"}]
      /\ budget' \in Seq(Stamps)
  BY <1>2, OpenLadderTyped
<1>5. /\ held' \in [Operators -> Hold \cup {None}]
      /\ pending' \in [People \X Operators -> Attempts \cup {NoAttempt}]
  BY <1>1, <1>2, EndHoldTyped
<1>6. heldAttempt' \in [Attempts -> Hold \cup {None}]
  BY <1>1 DEF AnswerAndEscalate, TypeOK
<1>7. started' \in [People -> SUBSET Page]
  <2>1. started' = started \/ started' = [started EXCEPT ![h.by] = RecentlyStarted(h.by, now)]
    BY DEF AnswerAndEscalate
  <2>2. RecentlyStarted(h.by, now) \in SUBSET Page
    BY <1>1, RecentlyStartedTyped
  <2> QED BY <1>1, <2>1, <2>2 DEF TypeOK
<1> HIDE DEF h, op
<1> QED BY <1>2, <1>3, <1>4, <1>5, <1>6, <1>7
        DEF AnswerAndEscalate, TypeOK, Resend, Entry, Stamps, clockVars

LEMMA AnswerAndRepageTyped ==
  ASSUME TypeOK, OnlyTheSeen, NEW a \in Attempts, AnswerAndRepage(a) PROVE TypeOK'
<1> DEFINE op == Sender[a]
           h == held[op]
           p == h.by
           pg == [at |-> now, page |-> a]
<1>1. op \in Operators /\ h \in Hold /\ p \in People /\ now \in Nat /\ pg \in Page
  BY AnsweredHold DEF AnswerAndRepage, Page
<1>2. seen' = seen \cup {a} /\ StartResend(a, h)
  BY DEF AnswerAndRepage, Arrives
<1>3. resend' \in [Attempts -> Resend \cup {None}]
  BY <1>1, <1>2, StartResendTyped
<1>4. heldAttempt' \in [Attempts -> Hold \cup {None}] /\ repeat' \in [Attempts -> Hold \cup {None}]
  BY <1>1 DEF AnswerAndRepage, TypeOK
<1>5. PICK others \in TakenPending(op, p) :
        /\ pageNamed' = [pageNamed EXCEPT ![a] = <<a>> \o others]
        /\ repaged' = [k \in DOMAIN repaged |->
             IF k[2] = p /\ k[1] \in {Sender[(<<a>> \o others)[i]] : i \in 1..Len(<<a>> \o others)}
             THEN pg ELSE repaged[k]]
  BY DEF AnswerAndRepage
<1>6. others \in Seq(Attempts)
  <2>1. \A o \in Operators : pending[<<p, o>>] \in seen \cup {NoAttempt}
    BY <1>1 DEF OnlyTheSeen
  <2> QED BY <2>1, TakenPendingFacts DEF OnlyTheSeen, TypeOK
<1> HIDE DEF pg, p, h, op
<1>7. pageNamed' \in [Attempts -> Seq(Attempts)]
  <2>1. <<a>> \o others \in Seq(Attempts)
    BY <1>6
  <2> QED BY <1>5, <2>1 DEF TypeOK
<1>8. repaged' \in [OperatorPeople -> Page \cup {None}]
  BY <1>1, <1>5 DEF TypeOK
<1>9. pending' \in [People \X Operators -> Attempts \cup {NoAttempt}]
  BY DEF AnswerAndRepage, TypeOK
<1>10. lastPage' \in [People -> Page \cup {None}]
  BY <1>1 DEF AnswerAndRepage, TypeOK, pg, p, h, op
<1>11. started' \in [People -> SUBSET Page]
  <2>1. started' = [started EXCEPT ![p] = RecentlyStarted(p, now) \cup {pg}]
    BY DEF AnswerAndRepage, pg, p, h, op
  <2> QED BY <1>1, <2>1, RecentlyStartedTyped DEF TypeOK
<1>12. carried' \in [OperatorPeople -> SUBSET Page]
  <2>1. carried' = [carried EXCEPT ![<<op, p>>] = @ \cup {pg}]
    BY DEF AnswerAndRepage, pg, p, h, op
  <2> QED BY <1>1, <2>1 DEF TypeOK, OperatorPeople
<1>13. budget' \in Seq(Stamps)
  <2>1. budget' \in {Pruned(budget, now), budget}
    BY DEF AnswerAndRepage
  <2> QED BY <2>1, BudgetTyped DEF TypeOK, Stamps
<1> QED BY <1>2, <1>3, <1>4, <1>7, <1>8, <1>9, <1>10, <1>11, <1>12, <1>13
        DEF AnswerAndRepage, TypeOK, Resend, Stamps, clockVars, ladderVars

LEMMA FirstPageReturnsTyped ==
  ASSUME TypeOK, NEW a \in Attempts, NEW dispatched, FirstPageReturns(a, dispatched) PROVE TypeOK'
<1>1. running' \in [Attempts -> SUBSET People]
  BY DEF FirstPageReturns, TypeOK
<1>2. woken' \in [Attempts -> SUBSET People]
  <2>1. dispatched \in SUBSET People
    BY DEF FirstPageReturns, TypeOK
  <2>2. woken' = woken \/ woken' = [woken EXCEPT ![a] = dispatched]
    BY DEF FirstPageReturns
  <2> QED BY <2>1, <2>2 DEF TypeOK
<1>3. notes' \in [Attempts -> {"none", "spent", "failed", "partial"}]
  <2>1. \/ notes' = notes
        \/ notes' = [notes EXCEPT ![a] = "failed"]
        \/ notes' = [notes EXCEPT ![a] = "partial"]
    BY DEF FirstPageReturns
  <2> QED BY <2>1 DEF TypeOK
<1> QED BY <1>1, <1>2, <1>3 DEF FirstPageReturns, TypeOK, clockVars, pageVars

\* Whoever still waits on a hold hears that one of its sends got through.
LEMMA ReachedTyped ==
  ASSUME NEW r \in [Attempts -> Resend \cup {None}], NEW h
  PROVE  /\ Reached(r, h) \in [Attempts -> Resend \cup {None}]
         /\ \A b \in Attempts :
              /\ Reached(r, h)[b] = None <=> r[b] = None
              /\ r[b] # None => /\ Reached(r, h)[b].stage = r[b].stage
                                /\ Reached(r, h)[b].taken = r[b].taken
                                /\ Reached(r, h)[b].hold = r[b].hold
<1> SUFFICES ASSUME NEW b \in Attempts
             PROVE  /\ Reached(r, h)[b] \in Resend \cup {None}
                    /\ Reached(r, h)[b] = None <=> r[b] = None
                    /\ r[b] # None => /\ Reached(r, h)[b].stage = r[b].stage
                                      /\ Reached(r, h)[b].taken = r[b].taken
                                      /\ Reached(r, h)[b].hold = r[b].hold
  BY DEF Reached
<1>1. CASE r[b] # None /\ r[b].hold = h
  <2> DEFINE e == [r[b] EXCEPT !.reached = TRUE]
  <2>1. Reached(r, h)[b] = e
    BY <1>1 DEF Reached
  <2>2. e \in Resend /\ e # None /\ e.stage = r[b].stage /\ e.taken = r[b].taken /\ e.hold = r[b].hold
    <3>1. r[b] \in Resend
      BY <1>1
    <3>2. e \in Resend /\ e.stage = r[b].stage /\ e.taken = r[b].taken /\ e.hold = r[b].hold
      BY <3>1 DEF Resend
    <3> QED BY <3>2, <1>1, Assumed
  <2> QED BY <1>1, <2>1, <2>2
<1>2. CASE ~(r[b] # None /\ r[b].hold = h)
  BY <1>2 DEF Reached
<1> QED BY <1>1, <1>2

\* An answer between its two sends, its stage and what was taken of it changed.
LEMMA ResendStaged ==
  ASSUME NEW e \in Resend, NEW s \in {"first", "waiting", "second"}, NEW took \in BOOLEAN
  PROVE  /\ [e EXCEPT !.stage = s] \in Resend
         /\ [[e EXCEPT !.stage = s] EXCEPT !.taken = took] \in Resend
         /\ [e EXCEPT !.stage = s].stage = s /\ [e EXCEPT !.stage = s].taken = e.taken
         /\ [e EXCEPT !.stage = s].hold = e.hold
         /\ [[e EXCEPT !.stage = s] EXCEPT !.taken = took].stage = s
         /\ [[e EXCEPT !.stage = s] EXCEPT !.taken = took].taken = took
         /\ [[e EXCEPT !.stage = s] EXCEPT !.taken = took].hold = e.hold
BY DEF Resend

LEMMA FirstSendSettlesTyped ==
  ASSUME TypeOK, RecordedOnce, NEW a \in Attempts, NEW took \in BOOLEAN, FirstSendSettles(a, took)
  PROVE  TypeOK'
<1> DEFINE r == [resend EXCEPT ![a].stage = "waiting", ![a].taken = took]
<1>1. r \in [Attempts -> Resend \cup {None}]
  <2> DEFINE e == [[resend[a] EXCEPT !.stage = "waiting"] EXCEPT !.taken = took]
  <2>1. resend \in [Attempts -> Resend \cup {None}] /\ resend[a] \in Resend
    BY DEF FirstSendSettles, TypeOK
  <2>2. e \in Resend
    BY <2>1, ResendStaged
  <2>3. r = [resend EXCEPT ![a] = e]
    BY <2>1
  <2> HIDE DEF e, r
  <2> QED BY <2>1, <2>2, <2>3
<1>2. resend' \in [Attempts -> Resend \cup {None}]
  <2>1. resend' \in {r, Reached(r, r[a].hold)}
    BY DEF FirstSendSettles
  <2> HIDE DEF r
  <2> QED BY <1>1, <2>1, ReachedTyped
<1>3. recorded' \in [Attempts -> 0..2]
  BY DEF FirstSendSettles, TypeOK, RecordedOnce
<1> QED BY <1>2, <1>3 DEF FirstSendSettles, TypeOK, clockVars, ladderVars, pageVars

LEMMA SecondSendStartsTyped ==
  ASSUME TypeOK, NEW a \in Attempts, SecondSendStarts(a) PROVE TypeOK'
<1>1. resend' \in [Attempts -> Resend \cup {None}]
  <2> DEFINE e == [resend[a] EXCEPT !.stage = "second"]
  <2>1. resend \in [Attempts -> Resend \cup {None}] /\ resend[a] \in Resend
    BY DEF SecondSendStarts, TypeOK
  <2>2. e \in Resend
    BY <2>1, ResendStaged
  <2>3. resend' = [resend EXCEPT ![a] = e]
    BY <2>1 DEF SecondSendStarts
  <2> HIDE DEF e
  <2> QED BY <2>1, <2>2, <2>3
<1>2. budget' \in Seq(Stamps)
  BY TextTyped DEF SecondSendStarts
<1> QED BY <1>1, <1>2 DEF SecondSendStarts, TypeOK, Stamps, clockVars, ladderVars, pageVars

LEMMA SecondSendNeverGoesTyped ==
  ASSUME TypeOK, RecordedOnce, NEW a \in Attempts, SecondSendNeverGoes(a) PROVE TypeOK'
<1>1. resend' \in [Attempts -> Resend \cup {None}]
  BY DEF SecondSendNeverGoes, TypeOK
<1>2. recorded' \in [Attempts -> 0..2]
  BY DEF SecondSendNeverGoes, TypeOK, RecordedOnce
<1> QED BY <1>1, <1>2 DEF SecondSendNeverGoes, TypeOK, clockVars, ladderVars, pageVars

LEMMA SecondSendSettlesTyped ==
  ASSUME TypeOK, RecordedOnce, NEW a \in Attempts, NEW took \in BOOLEAN, SecondSendSettles(a, took)
  PROVE  TypeOK'
<1> DEFINE rest == [resend EXCEPT ![a] = None]
<1>1. rest \in [Attempts -> Resend \cup {None}]
  BY DEF TypeOK
<1>2. resend' \in [Attempts -> Resend \cup {None}]
  <2>1. resend' \in {rest, Reached(rest, resend[a].hold)}
    BY DEF SecondSendSettles
  <2> HIDE DEF rest
  <2> QED BY <1>1, <2>1, ReachedTyped
<1>3. recorded' \in [Attempts -> 0..2]
  BY DEF SecondSendSettles, TypeOK, RecordedOnce
<1>4. held' \in [Operators -> Hold \cup {None}]
  <2>1. held' = held \/ held' = [held EXCEPT ![Sender[a]] = None]
    BY DEF SecondSendSettles
  <2> QED BY <2>1 DEF TypeOK
<1> QED BY <1>2, <1>3, <1>4 DEF SecondSendSettles, TypeOK, clockVars, ladderVars, pageVars

LEMMA RepeatPageWorksTyped ==
  ASSUME TypeOK, NEW a \in Attempts, RepeatPageWorks(a) PROVE TypeOK'
<1>1. repeat' \in [Attempts -> Hold \cup {None}]
  BY DEF RepeatPageWorks, TypeOK
<1> QED BY <1>1 DEF RepeatPageWorks, TypeOK, clockVars, ladderVars

LEMMA RepeatPageFailsTyped ==
  ASSUME TypeOK, NEW a \in Attempts, RepeatPageFails(a) PROVE TypeOK'
<1> DEFINE h == repeat[a]
           op == Sender[a]
<1>1. h \in Hold /\ h.by \in People /\ op \in Operators
  BY Assumed DEF RepeatPageFails, TypeOK, Hold
<1>2. EndHold(h) /\ OpenLadder(a, FALSE)
  BY DEF RepeatPageFails
<1>3. /\ ladders' \in [Attempts -> Entry]
      /\ joined' \in [Attempts -> Attempts \cup {NoAttempt}]
      /\ running' \in [Attempts -> SUBSET People]
      /\ notes' \in [Attempts -> {"none", "spent", "failed", "partial"}]
      /\ budget' \in Seq(Stamps)
  BY <1>2, OpenLadderTyped
<1>4. /\ held' \in [Operators -> Hold \cup {None}]
      /\ pending' \in [People \X Operators -> Attempts \cup {NoAttempt}]
  BY <1>1, <1>2, EndHoldTyped
<1>5. repeat' \in [Attempts -> Hold \cup {None}] /\ repaged' \in [OperatorPeople -> Page \cup {None}]
  BY DEF RepeatPageFails, TypeOK
<1>6. lastPage' \in [People -> Page \cup {None}]
  <2>1. lastPage' = lastPage \/ lastPage' = [lastPage EXCEPT ![h.by] = None]
    BY DEF RepeatPageFails
  <2> QED BY <2>1 DEF TypeOK
<1>7. carried' \in [OperatorPeople -> SUBSET Page]
  <2>1. carried' = [carried EXCEPT ![<<op, h.by>>] = {pg \in @ : pg.page # a}]
    BY DEF RepeatPageFails
  <2> QED BY <2>1 DEF TypeOK
<1> QED BY <1>3, <1>4, <1>5, <1>6, <1>7
        DEF RepeatPageFails, TypeOK, Entry, Stamps, clockVars

\* The ladder an id finds, and what an acknowledgement of it may do.
LEMMA AcknowledgeFacts ==
  ASSUME TypeOK, NEW p \in People, NEW a \in Attempts, Acknowledge(p, a),
         NEW c, c = Canonical(joined, a)
  PROVE  /\ c \in Attempts /\ ladders[c] \in LadderRecord
         /\ ladders' = [ladders EXCEPT ![c] = AcknowledgeLadder(ladders[c], p, now)]
         /\ AcknowledgeLadder(ladders[c], p, now) \in LadderRecord
         /\ AcknowledgeLadder(ladders[c], p, now).state = "acknowledged"
<1>1. c \in Attempts
  BY DEF Canonical, TypeOK
<1>2. ladders[c] # Absent /\ AcknowledgeLadder(ladders[c], p, now) # ladders[c]
  BY DEF Acknowledge, Known
<1>3. ladders[c] \in LadderRecord /\ now \in Nat
  BY <1>1, <1>2, Assumed DEF TypeOK
<1> DEFINE m == [ladders[c] EXCEPT !.state = "acknowledged", !.since = now, !.by = p]
<1>4. AcknowledgeLadder(ladders[c], p, now) = m
  BY <1>2 DEF AcknowledgeLadder
<1>5. m \in LadderRecord /\ m.state = "acknowledged"
  BY <1>3, Assumed DEF LadderRecord, LadderState
<1> QED BY <1>1, <1>3, <1>4, <1>5 DEF Acknowledge

LEMMA AcknowledgeTyped ==
  ASSUME TypeOK, NEW p \in People, NEW a \in Attempts, Acknowledge(p, a) PROVE TypeOK'
<1> DEFINE c == Canonical(joined, a)
<1>1. /\ c \in Attempts
      /\ ladders' = [ladders EXCEPT ![c] = AcknowledgeLadder(ladders[c], p, now)]
      /\ AcknowledgeLadder(ladders[c], p, now) \in LadderRecord
  BY AcknowledgeFacts
<1>2. /\ held' = [held EXCEPT ![Sender[c]] = [ladder |-> c, by |-> p, at |-> now]]
      /\ notes' = [notes EXCEPT ![c] = "none"] /\ woken' = [woken EXCEPT ![c] = {}]
  BY DEF Acknowledge
<1> HIDE DEF c
<1>3. ladders' \in [Attempts -> LadderRecord \cup {Absent}]
  BY <1>1 DEF TypeOK
<1>4. held' \in [Operators -> Hold \cup {None}]
  <2>1. [ladder |-> c, by |-> p, at |-> now] \in Hold
    BY <1>1, Assumed DEF Hold, TypeOK
  <2> QED BY <1>2, <2>1 DEF TypeOK
<1>5. /\ notes' \in [Attempts -> {"none", "spent", "failed", "partial"}]
      /\ woken' \in [Attempts -> SUBSET People]
  BY <1>2 DEF TypeOK
<1> QED BY <1>3, <1>4, <1>5 DEF Acknowledge, TypeOK, clockVars, pageVars

\* What a wake does: the holds it may end, it ends; where nothing runs, it opens.
LEMMA WakeFacts ==
  ASSUME TypeOK, NEW p \in People, NEW a \in Attempts, WakeOthers(p, a)
  PROVE  \E ended, joins \in SUBSET Attempts :
           LET others == RosterAt(now) \ {p}
               opens == {b \in ended : Starts(ladders, joined, b)}
               l == StartLadder(PageableNow(RosterAt(now)) # {}, FALSE, now)
           IN  /\ \A b \in ended : Standing(b, now) /\ NoLiveLadder(Sender[b])
               /\ \A b \in joins : Standing(b, now)
               /\ ended # {} => others \cap Pushable # {}
               /\ held' = [o \in Operators |-> IF \E b \in ended : Sender[b] = o THEN None ELSE held[o]]
               /\ pending' = [k \in DOMAIN pending |->
                    IF \E b \in ended : heldAttempt[b].by = k[1] /\ Sender[b] = k[2] THEN NoAttempt
                    ELSE pending[k]]
               /\ ladders' = [b \in Attempts |-> IF b \in opens THEN l ELSE ladders[b]]
               /\ joined' = [b \in Attempts |->
                    IF b \in joins THEN OpenedJoined(ladders, joined, b)[b] ELSE joined[b]]
               /\ running' = [b \in Attempts |-> IF b \in opens THEN others \cap Pushable ELSE running[b]]
               /\ budget' \in Seq(Stamps)
<1> DEFINE ids == IF pageNamed[a] = <<>> THEN <<a>> ELSE pageNamed[a]
           standing == {i \in 1..Len(ids) : Standing(ids[i], now)}
           asked == {i \in standing : NoLiveLadder(Sender[ids[i]])}
           joins == {ids[i] : i \in standing \ asked}
           others == RosterAt(now) \ {p}
           able == PageableNow(others) # {}
           wide == {i \in asked : able /\ Cardinality({j \in asked : j < i}) < Remaining(budget, now)}
           ended == {ids[i] : i \in wide}
           opens == {b \in ended : Starts(ladders, joined, b)}
           l == StartLadder(PageableNow(RosterAt(now)) # {}, FALSE, now)
<1>1. ids \in Seq(Attempts)
  BY DEF TypeOK
<1>2. /\ held' = [o \in Operators |-> IF \E b \in ended : Sender[b] = o THEN None ELSE held[o]]
      /\ pending' = [k \in DOMAIN pending |->
           IF \E b \in ended : heldAttempt[b].by = k[1] /\ Sender[b] = k[2] THEN NoAttempt
           ELSE pending[k]]
      /\ ladders' = [b \in Attempts |-> IF b \in opens THEN l ELSE ladders[b]]
      /\ joined' = [b \in Attempts |->
           IF b \in joins THEN OpenedJoined(ladders, joined, b)[b] ELSE joined[b]]
      /\ running' = [b \in Attempts |-> IF b \in opens THEN others \cap Pushable ELSE running[b]]
  BY DEF WakeOthers
<1>3. budget' \in {Pruned(budget, now) \o [i \in 1..Cardinality(wide) |-> now], budget}
  BY DEF WakeOthers
<1> HIDE DEF ids
<1>4. wide \subseteq 1..Len(ids) /\ standing \subseteq 1..Len(ids) /\ Len(ids) \in Nat
  BY <1>1, LenProperties
<1>5. \A i \in 1..Len(ids) : ids[i] \in Attempts
  BY <1>1, ElementOfSeq
<1>6. ended \in SUBSET Attempts /\ joins \in SUBSET Attempts
  BY <1>4, <1>5
<1>7. \A b \in ended : Standing(b, now) /\ NoLiveLadder(Sender[b])
  OBVIOUS
<1>8. \A b \in joins : Standing(b, now)
  OBVIOUS
<1>9. ended # {} => others \cap Pushable # {}
  BY DEF PageableNow
<1>10. budget' \in Seq(Stamps)
  <2>1. IsFiniteSet(1..Len(ids))
    BY <1>4, FS_Interval
  <2>2. IsFiniteSet(wide)
    BY <1>4, <2>1, FS_Subset
  <2> DEFINE n == Cardinality(wide)
  <2>3. n \in Nat
    BY <2>2, FS_CardinalityType
  <2>4. budget' \in {Pruned(budget, now) \o [i \in 1..n |-> now], budget}
    BY <1>3
  <2> HIDE DEF n
  <2>5. now \in Stamps /\ budget \in Seq(Stamps)
    BY DEF TypeOK, Stamps
  <2>6. [i \in 1..n |-> now] \in Seq(Stamps)
    BY <2>3, <2>5
  <2>7. Pruned(budget, now) \o [i \in 1..n |-> now] \in Seq(Stamps)
    BY <2>6, BudgetTyped, ConcatProperties
  <2> QED BY <2>4, <2>5, <2>7
<1> HIDE DEF wide, standing, asked, others, able, ended, joins, l
<1> QED BY <1>2, <1>6, <1>7, <1>8, <1>9, <1>10 DEF others, l

LEMMA WakeOthersTyped ==
  ASSUME TypeOK, NEW p \in People, NEW a \in Attempts, WakeOthers(p, a) PROVE TypeOK'
<1> DEFINE others == RosterAt(now) \ {p}
           l == StartLadder(PageableNow(RosterAt(now)) # {}, FALSE, now)
<1>1. PICK ended \in SUBSET Attempts, joins \in SUBSET Attempts :
        /\ held' = [o \in Operators |-> IF \E b \in ended : Sender[b] = o THEN None ELSE held[o]]
        /\ pending' = [k \in DOMAIN pending |->
             IF \E b \in ended : heldAttempt[b].by = k[1] /\ Sender[b] = k[2] THEN NoAttempt
             ELSE pending[k]]
        /\ ladders' = [b \in Attempts |->
             IF b \in {c \in ended : Starts(ladders, joined, c)} THEN l ELSE ladders[b]]
        /\ joined' = [b \in Attempts |->
             IF b \in joins THEN OpenedJoined(ladders, joined, b)[b] ELSE joined[b]]
        /\ running' = [b \in Attempts |->
             IF b \in {c \in ended : Starts(ladders, joined, c)} THEN others \cap Pushable ELSE running[b]]
        /\ budget' \in Seq(Stamps)
  BY WakeFacts
<1>2. l \in LadderRecord /\ others \cap Pushable \in SUBSET People
  <2> DEFINE r == PageableNow(RosterAt(now)) # {}
  <2>1. now \in Nat /\ r \in BOOLEAN
    BY Assumed DEF TypeOK
  <2> HIDE DEF r
  <2>2. l \in LadderRecord
    BY <2>1, StartLadderFacts DEF r
  <2>3. RosterAt(now) \subseteq People
    BY <2>1, RosterIsPeople
  <2> QED BY <2>2, <2>3
<1> HIDE DEF l, others
<1>3. held' \in [Operators -> Hold \cup {None}]
  BY <1>1 DEF TypeOK
<1>4. pending' \in [People \X Operators -> Attempts \cup {NoAttempt}]
  BY <1>1 DEF TypeOK
<1>5. ladders' \in [Attempts -> LadderRecord \cup {Absent}] /\ running' \in [Attempts -> SUBSET People]
  BY <1>1, <1>2 DEF TypeOK
<1>6. joined' \in [Attempts -> Attempts \cup {NoAttempt}]
  <2>1. ASSUME NEW b \in Attempts PROVE OpenedJoined(ladders, joined, b)[b] \in Attempts \cup {NoAttempt}
    <3>1. CASE Joins(ladders, joined, b)
      <4>1. (CHOOSE c \in LiveFor(ladders, Sender[b]) : TRUE) \in Attempts
        BY <3>1 DEF Joins, LiveFor
      <4> QED BY <3>1, <4>1 DEF OpenedJoined, TypeOK
    <3>2. CASE ~Joins(ladders, joined, b)
      BY <3>2 DEF OpenedJoined, TypeOK
    <3> QED BY <3>1, <3>2
  <2> QED BY <1>1, <2>1 DEF TypeOK
<1> QED BY <1>1, <1>3, <1>4, <1>5, <1>6 DEF WakeOthers, TypeOK, Stamps, clockVars

LEMMA SweepTyped == ASSUME TypeOK, Sweep PROVE TypeOK'
<1>0. now \in Nat /\ now \in 0..MaxClock
  BY Assumed DEF TypeOK
<1>1. ladders' \in [Attempts -> LadderRecord \cup {Absent}]
  <2>1. ladders' = TickedAll(Reaped(ladders, now), now)
    BY DEF Sweep
  <2>2. \A b \in Attempts : Reaped(ladders, now)[b] \in Entry
    BY DEF Reaped, TypeOK, Entry
  <2>3. \A b \in Attempts : AdvanceLadder(Reaped(ladders, now)[b], now) \in Entry
    BY <1>0, <2>2, AdvanceLadderFacts
  <2> QED BY <2>1, <2>3 DEF TickedAll, Entry
<1>2. joined' \in [Attempts -> Attempts \cup {NoAttempt}]
  BY DEF Sweep, ReapedJoined, TypeOK
<1>3. /\ notes' \in [Attempts -> {"none", "spent", "failed", "partial"}]
      /\ woken' \in [Attempts -> SUBSET People]
      /\ held' \in [Operators -> Hold \cup {None}]
  BY DEF Sweep, TypeOK
<1>4. /\ repaged' \in [OperatorPeople -> Page \cup {None}]
      /\ lastPage' \in [People -> Page \cup {None}]
  BY DEF Sweep, TypeOK
<1>5. started' \in [People -> SUBSET Page]
  <2>1. \A p \in People : RecentlyStarted(p, now) \in SUBSET Page
    BY <1>0, RecentlyStartedTyped
  <2> QED BY <2>1 DEF Sweep
<1>6. /\ pending' \in [People \X Operators -> Attempts \cup {NoAttempt}]
      /\ widened' \in [Operators -> (0..MaxClock) \cup {None}]
  BY DEF Sweep, TypeOK
<1>7. /\ heldAttempt' \in [Attempts -> Hold \cup {None}]
      /\ pageNamed' \in [Attempts -> Seq(Attempts)]
  BY DEF Sweep, TypeOK
<1> QED BY <1>1, <1>2, <1>3, <1>4, <1>5, <1>6, <1>7 DEF Sweep, TypeOK

LEMMA TickTyped == ASSUME TypeOK, Tick PROVE TypeOK'
<1>1. now' \in 0..MaxClock /\ sweepDue' \in BOOLEAN
  BY Assumed DEF Tick, TypeOK
<1> QED BY <1>1 DEF Tick, TypeOK, ladderVars, pageVars

LEMMA StepBackTyped == ASSUME TypeOK, StepBack PROVE TypeOK'
<1>1. now' \in 0..MaxClock /\ sweepDue' \in BOOLEAN /\ stepBacks' \in 0..MaxStepBacks
  BY Assumed DEF StepBack, TypeOK
<1>2. carried' \in [OperatorPeople -> SUBSET Page] /\ widenings' \in [Operators -> SUBSET Page]
  BY DEF StepBack, Each
<1> QED BY <1>1, <1>2 DEF StepBack, TypeOK, ladderVars

LEMMA RestartTyped == ASSUME TypeOK, Restart PROVE TypeOK'
<1>1. restarts' \in 0..MaxRestarts /\ now' = now /\ sweepDue' = sweepDue /\ stepBacks' = stepBacks
  BY Assumed DEF Restart, TypeOK
<1> QED BY <1>1 DEF Restart, TypeOK, Each

LEMMA InitTyped == ASSUME Init PROVE TypeOK
<1>1. /\ now \in 0..MaxClock /\ sweepDue \in BOOLEAN
      /\ stepBacks \in 0..MaxStepBacks /\ restarts \in 0..MaxRestarts
      /\ budget \in Seq(0..MaxClock) /\ seen \subseteq Attempts
  <2>1. <<>> \in Seq(0..MaxClock)
    BY EmptySeq
  <2>2. now = 0 /\ stepBacks = 0 /\ restarts = 0 /\ seen = {} /\ budget = <<>>
    BY DEF Init
  <2>3. sweepDue \in BOOLEAN
    BY DEF Init
  <2>4. now \in 0..MaxClock /\ stepBacks \in 0..MaxStepBacks /\ restarts \in 0..MaxRestarts
    BY Assumed, <2>2
  <2> QED BY <2>1, <2>2, <2>3, <2>4
<1> QED BY <1>1 DEF Init, Idle, TypeOK, Each

-----------------------------------------------------------------------------
(* What has not been delivered is untouched, and what was answered is in   *)
(* the log once.                                                           *)

\* Opening a ladder for one attempt touches no other's entries.
LEMMA OpenLadderElsewhere ==
  ASSUME TypeOK, NEW a \in Attempts, NEW charged \in BOOLEAN, OpenLadder(a, charged),
         NEW b \in Attempts \ {a}
  PROVE  /\ ladders'[b] = ladders[b] /\ joined'[b] = joined[b]
         /\ running'[b] = running[b] /\ notes'[b] = notes[b]
<1>1. ladders'[b] = ladders[b]
  BY DEF OpenLadder, OpenedLadders, TypeOK
<1>2. joined'[b] = joined[b]
  BY DEF OpenLadder, OpenedJoined, TypeOK
<1>3. running'[b] = running[b]
  <2>1. running' = running \/ running' = [running EXCEPT ![a] = RosterAt(now) \cap Pushable]
    BY DEF OpenLadder
  <2> QED BY <2>1 DEF TypeOK
<1>4. notes'[b] = notes[b]
  <2>1. notes' = notes \/ notes' = [notes EXCEPT ![a] = "spent"]
    BY DEF OpenLadder
  <2> QED BY <2>1 DEF TypeOK
<1> QED BY <1>1, <1>2, <1>3, <1>4

\* One more attempt is delivered, and nothing is written but under its own id.
LEMMA DeliveredOne ==
  ASSUME TypeOK, OnlyTheSeen, NEW a \in Attempts, seen' = seen \cup {a},
         \A b \in Attempts \ {a} :
           /\ ladders'[b] = ladders[b] /\ joined'[b] = joined[b]
           /\ heldAttempt'[b] = heldAttempt[b] /\ pageNamed'[b] = pageNamed[b]
           /\ running'[b] = running[b] /\ resend'[b] = resend[b] /\ repeat'[b] = repeat[b]
           /\ recorded'[b] = recorded[b],
         \A k \in People \X Operators : pending'[k] \in {pending[k], NoAttempt, a}
  PROVE  OnlyTheSeen'
<1>1. IsFiniteSet(seen')
  BY FS_AddElement DEF OnlyTheSeen
<1>2. ASSUME NEW b \in Attempts \ seen' PROVE Untouched(b)'
  BY DEF OnlyTheSeen, Untouched
<1>3. \A k \in People \X Operators : pending'[k] \in seen' \cup {NoAttempt}
  BY DEF OnlyTheSeen
<1> QED BY <1>1, <1>2, <1>3 DEF OnlyTheSeen

\* Nothing is delivered, and what is written is written under ids that were.
LEMMA DeliveredNone ==
  ASSUME TypeOK, OnlyTheSeen, seen' = seen,
         \A b \in Attempts \ seen : Untouched(b)',
         \A k \in People \X Operators : pending'[k] \in {pending[k], NoAttempt}
  PROVE  OnlyTheSeen'
BY DEF OnlyTheSeen

LEMMA DeliverOnlyTheSeen ==
  ASSUME TypeOK, OnlyTheSeen, NEW a \in Attempts, Deliver(a) PROVE OnlyTheSeen'
<1>1. CASE OpenOrJoin(a)
  <2>1. OpenLadder(a, FALSE) /\ seen' = seen \cup {a}
    BY <1>1 DEF OpenOrJoin, Arrives
  <2>2. UNCHANGED <<heldAttempt, pageNamed, resend, repeat, recorded, pending>>
    BY <1>1 DEF OpenOrJoin, pageVars
  <2> QED BY <2>1, <2>2, OpenLadderElsewhere, DeliveredOne
<1>2. CASE AnswerAndWait(a)
  <2>1. /\ seen' = seen \cup {a} /\ StartResend(a, held[Sender[a]])
        /\ heldAttempt' = [heldAttempt EXCEPT ![a] = held[Sender[a]]]
        /\ pending' = [pending EXCEPT ![<<held[Sender[a]].by, Sender[a]>>] = a]
        /\ UNCHANGED <<ladders, joined, running, pageNamed, repeat, recorded>>
    BY <1>2 DEF AnswerAndWait, Arrives, ladderVars
  <2>2. \A b \in Attempts \ {a} : heldAttempt'[b] = heldAttempt[b] /\ resend'[b] = resend[b]
    BY <2>1 DEF StartResend, TypeOK
  <2>3. \A k \in People \X Operators : pending'[k] \in {pending[k], NoAttempt, a}
    BY <2>1 DEF TypeOK
  <2> QED BY <2>1, <2>2, <2>3, DeliveredOne
<1>3. CASE AnswerAndWiden(a) \/ AnswerAndEscalate(a)
  <2>1. PICK charged \in BOOLEAN :
        /\ seen' = seen \cup {a} /\ StartResend(a, held[Sender[a]])
        /\ heldAttempt' = [heldAttempt EXCEPT ![a] = held[Sender[a]]]
        /\ EndHold(held[Sender[a]]) /\ OpenLadder(a, charged)
        /\ UNCHANGED <<pageNamed, repeat, recorded>>
    BY <1>3 DEF AnswerAndWiden, AnswerAndEscalate, Arrives
  <2>2. \A b \in Attempts \ {a} : heldAttempt'[b] = heldAttempt[b] /\ resend'[b] = resend[b]
    BY <2>1 DEF StartResend, TypeOK
  <2>3. \A k \in People \X Operators : pending'[k] \in {pending[k], NoAttempt, a}
    BY <2>1 DEF EndHold, TypeOK
  <2> QED BY <2>1, <2>2, <2>3, OpenLadderElsewhere, DeliveredOne
<1>4. CASE AnswerAndRepage(a)
  <2>1. PICK named :
        /\ seen' = seen \cup {a} /\ StartResend(a, held[Sender[a]])
        /\ heldAttempt' = [heldAttempt EXCEPT ![a] = held[Sender[a]]]
        /\ pageNamed' = [pageNamed EXCEPT ![a] = named]
        /\ repeat' = [repeat EXCEPT ![a] = held[Sender[a]]]
        /\ UNCHANGED <<ladders, joined, running, recorded>>
    BY <1>4 DEF AnswerAndRepage, Arrives, ladderVars
  <2>2. \A b \in Attempts \ {a} :
           /\ heldAttempt'[b] = heldAttempt[b] /\ resend'[b] = resend[b]
           /\ pageNamed'[b] = pageNamed[b] /\ repeat'[b] = repeat[b]
    BY <2>1 DEF StartResend, TypeOK
  <2>3. \A k \in People \X Operators : pending'[k] \in {pending[k], NoAttempt, a}
    BY <1>4 DEF AnswerAndRepage, TypeOK
  <2> QED BY <2>1, <2>2, <2>3, DeliveredOne
<1> QED BY <1>1, <1>2, <1>3, <1>4 DEF Deliver

LEMMA SettleOnlyTheSeen ==
  ASSUME TypeOK, OnlyTheSeen, NEW a \in Attempts, Settle(a) PROVE OnlyTheSeen'
<1>0. \A b \in Attempts \ seen : Untouched(b)
  BY DEF OnlyTheSeen
<1>1. ASSUME NEW dispatched, FirstPageReturns(a, dispatched) PROVE OnlyTheSeen'
  <2>1. \A b \in Attempts : running[b] = {} => running'[b] = {}
    BY <1>1 DEF FirstPageReturns, TypeOK
  <2>2. UNCHANGED <<seen, ladders, joined, heldAttempt, pageNamed, resend, repeat, recorded, pending>>
    BY <1>1 DEF FirstPageReturns, pageVars
  <2>3. \A b \in Attempts \ seen : Untouched(b)'
    BY <1>0, <2>1, <2>2 DEF Untouched
  <2> QED BY <2>2, <2>3, DeliveredNone
<1>2. ASSUME NEW took \in BOOLEAN, FirstSendSettles(a, took) \/ SecondSendSettles(a, took)
      PROVE  OnlyTheSeen'
  <2>1. UNCHANGED <<seen, ladders, joined, heldAttempt, pageNamed, running, repeat, pending>>
    BY <1>2 DEF FirstSendSettles, SecondSendSettles, ladderVars, pageVars
  <2>2. a \in seen
    BY <1>0, <1>2 DEF FirstSendSettles, SecondSendSettles, Untouched
  <2>3. PICK r, h : /\ r = [resend EXCEPT ![a] = r[a]] /\ r[a] \in Resend \cup {None}
                    /\ resend' \in {r, Reached(r, h)}
    <3>1. CASE FirstSendSettles(a, took)
      <4> DEFINE e == [[resend[a] EXCEPT !.stage = "waiting"] EXCEPT !.taken = took]
                 r == [resend EXCEPT ![a] = e]
      <4>1. resend[a] \in Resend
        BY <3>1 DEF FirstSendSettles, TypeOK
      <4>2. e \in Resend
        BY <4>1, ResendStaged
      <4>3. resend' \in {r, Reached(r, r[a].hold)}
        <5>1. r = [resend EXCEPT ![a].stage = "waiting", ![a].taken = took]
          BY DEF TypeOK
        <5> HIDE DEF r
        <5> QED BY <3>1, <5>1 DEF FirstSendSettles
      <4> HIDE DEF e
      <4>4. r = [resend EXCEPT ![a] = r[a]] /\ r[a] = e
        BY DEF TypeOK
      <4> QED BY <4>2, <4>3, <4>4
    <3>2. CASE SecondSendSettles(a, took)
      <4> DEFINE r == [resend EXCEPT ![a] = None]
      <4>1. resend' \in {r, Reached(r, resend[a].hold)}
        BY <3>2 DEF SecondSendSettles
      <4>2. r = [resend EXCEPT ![a] = r[a]] /\ r[a] = None
        BY DEF TypeOK
      <4> QED BY <4>1, <4>2
    <3> QED BY <1>2, <3>1, <3>2
  <2>4. r \in [Attempts -> Resend \cup {None}] /\ \A b \in Attempts \ {a} : r[b] = resend[b]
    BY <2>3 DEF TypeOK
  <2>5. \A b \in Attempts : Reached(r, h)[b] = None <=> r[b] = None
    BY <2>4, ReachedTyped
  <2>6. \A b \in Attempts \ {a} : resend[b] = None => resend'[b] = None
    BY <2>3, <2>4, <2>5
  <2>7. \A b \in Attempts \ {a} : recorded'[b] = recorded[b]
    BY <1>2 DEF FirstSendSettles, SecondSendSettles, TypeOK
  <2>8. \A b \in Attempts \ seen : Untouched(b)'
    BY <1>0, <2>1, <2>2, <2>6, <2>7 DEF Untouched
  <2> QED BY <2>1, <2>8, DeliveredNone
<1>3. CASE SecondSendStarts(a) \/ SecondSendNeverGoes(a)
  <2>1. UNCHANGED <<seen, ladders, joined, heldAttempt, pageNamed, running, repeat, pending>>
    BY <1>3 DEF SecondSendStarts, SecondSendNeverGoes, ladderVars, pageVars
  <2>2. a \in seen
    BY <1>0, <1>3 DEF SecondSendStarts, SecondSendNeverGoes, Untouched
  <2>3. \A b \in Attempts \ {a} : resend'[b] = resend[b] /\ recorded'[b] = recorded[b]
    BY <1>3 DEF SecondSendStarts, SecondSendNeverGoes, TypeOK
  <2>4. \A b \in Attempts \ seen : Untouched(b)'
    BY <1>0, <2>1, <2>2, <2>3 DEF Untouched
  <2> QED BY <2>1, <2>4, DeliveredNone
<1>4. CASE RepeatPageWorks(a)
  <2>1. UNCHANGED <<seen, ladders, joined, heldAttempt, pageNamed, running, resend, recorded, pending>>
    BY <1>4 DEF RepeatPageWorks, ladderVars
  <2>2. \A b \in Attempts : repeat[b] = None => repeat'[b] = None
    BY <1>4 DEF RepeatPageWorks, TypeOK
  <2>3. \A b \in Attempts \ seen : Untouched(b)'
    BY <1>0, <2>1, <2>2 DEF Untouched
  <2> QED BY <2>1, <2>3, DeliveredNone
<1>5. CASE RepeatPageFails(a)
  <2>1. /\ UNCHANGED <<seen, heldAttempt, pageNamed, resend, recorded>>
        /\ OpenLadder(a, FALSE) /\ EndHold(repeat[a])
        /\ repeat' = [repeat EXCEPT ![a] = None] /\ repeat[a] # None
    BY <1>5 DEF RepeatPageFails
  <2>2. a \in seen
    BY <1>0, <2>1 DEF Untouched
  <2>3. \A b \in Attempts \ {a} : repeat'[b] = repeat[b]
    BY <2>1 DEF TypeOK
  <2>4. \A b \in Attempts \ seen : Untouched(b)'
    <3>1. \A b \in Attempts \ {a} :
             ladders'[b] = ladders[b] /\ joined'[b] = joined[b] /\ running'[b] = running[b]
      BY <2>1, OpenLadderElsewhere
    <3> QED BY <1>0, <2>1, <2>2, <2>3, <3>1 DEF Untouched
  <2>5. \A k \in People \X Operators : pending'[k] \in {pending[k], NoAttempt}
    BY <2>1 DEF EndHold, TypeOK
  <2> QED BY <2>1, <2>4, <2>5, DeliveredNone
<1> QED BY <1>1, <1>2, <1>3, <1>4, <1>5, ExecutorAssumption DEF Settle

LEMMA AcknowledgeOnlyTheSeen ==
  ASSUME TypeOK, OnlyTheSeen, NEW p \in People, NEW a \in Attempts, Acknowledge(p, a)
  PROVE  OnlyTheSeen'
<1> DEFINE c == Canonical(joined, a)
<1>1. /\ c \in Attempts /\ ladders[c] \in LadderRecord
      /\ ladders' = [ladders EXCEPT ![c] = AcknowledgeLadder(ladders[c], p, now)]
  BY AcknowledgeFacts
<1> HIDE DEF c
<1>2. UNCHANGED <<seen, joined, heldAttempt, pageNamed, running, resend, repeat, recorded, pending>>
  BY DEF Acknowledge, pageVars
<1>3. ladders[c] # Absent
  BY <1>1, RecordsArePresent
<1>4. \A b \in Attempts \ seen : b # c
  BY <1>3 DEF OnlyTheSeen, Untouched
<1>5. \A b \in Attempts \ seen : ladders'[b] = ladders[b]
  BY <1>1, <1>4 DEF TypeOK
<1>6. \A b \in Attempts \ seen : Untouched(b)'
  BY <1>2, <1>5 DEF OnlyTheSeen, Untouched
<1> QED BY <1>2, <1>6, DeliveredNone

LEMMA WakeOthersOnlyTheSeen ==
  ASSUME TypeOK, OnlyTheSeen, NEW p \in People, NEW a \in Attempts, WakeOthers(p, a)
  PROVE  OnlyTheSeen'
<1> DEFINE woke == (RosterAt(now) \ {p}) \cap Pushable
           l == StartLadder(PageableNow(RosterAt(now)) # {}, FALSE, now)
<1>1. PICK ended \in SUBSET Attempts, joins \in SUBSET Attempts :
        /\ \A b \in ended \cup joins : Standing(b, now)
        /\ pending' = [k \in DOMAIN pending |->
             IF \E b \in ended : heldAttempt[b].by = k[1] /\ Sender[b] = k[2] THEN NoAttempt
             ELSE pending[k]]
        /\ ladders' = [b \in Attempts |->
             IF b \in {c \in ended : Starts(ladders, joined, c)} THEN l ELSE ladders[b]]
        /\ joined' = [b \in Attempts |->
             IF b \in joins THEN OpenedJoined(ladders, joined, b)[b] ELSE joined[b]]
        /\ running' = [b \in Attempts |->
             IF b \in {c \in ended : Starts(ladders, joined, c)} THEN woke ELSE running[b]]
  BY WakeFacts
<1> HIDE DEF woke, l
<1>2. UNCHANGED <<seen, heldAttempt, pageNamed, resend, repeat, recorded>>
  BY DEF WakeOthers
<1>3. \A b \in Attempts \ seen : b \notin ended /\ b \notin joins
  BY <1>1 DEF Standing, OnlyTheSeen, Untouched
<1>4. \A b \in Attempts \ seen :
        ladders'[b] = ladders[b] /\ joined'[b] = joined[b] /\ running'[b] = running[b]
  BY <1>1, <1>3
<1>5. \A b \in Attempts \ seen : Untouched(b)'
  BY <1>2, <1>4 DEF OnlyTheSeen, Untouched
<1>6. \A k \in People \X Operators : pending'[k] \in {pending[k], NoAttempt}
  BY <1>1 DEF TypeOK
<1> QED BY <1>2, <1>5, <1>6, DeliveredNone

\* What a sweep may do to one ladder: drop a finished one, and start nothing.
LEMMA SweptLadder ==
  ASSUME TypeOK, Sweep, NEW b \in Attempts
  PROVE  /\ ladders[b] = Absent => ladders'[b] = Absent
         /\ ladders'[b] = Absent => ladders[b] = Absent \/ Reapable(ladders[b], now)
         /\ ladders'[b].state = "paging" => ladders[b].state = "paging"
<1> DEFINE l == Reaped(ladders, now)[b]
<1>1. now \in Nat /\ ladders'[b] = AdvanceLadder(l, now)
  BY Assumed DEF Sweep, TickedAll, TypeOK
<1>2. l = IF Reapable(ladders[b], now) THEN Absent ELSE ladders[b]
  BY DEF Reaped
<1> HIDE DEF l
<1>3. ladders[b] \in Entry
  BY DEF TypeOK, Entry
<1>4. l \in Entry
  BY <1>2, <1>3 DEF Entry
<1>5. /\ AdvanceLadder(l, now) = Absent <=> l = Absent
      /\ AdvanceLadder(l, now).state = "paging" => l.state = "paging"
  BY <1>1, <1>4, AdvanceLadderFacts
<1>6. l.state = "paging" => ladders[b].state = "paging"
  BY <1>2, RecordsArePresent
<1> QED BY <1>1, <1>2, <1>5, <1>6

LEMMA SweepOnlyTheSeen == ASSUME TypeOK, OnlyTheSeen, Sweep PROVE OnlyTheSeen'
<1>1. UNCHANGED <<seen, running, resend, repeat, recorded>>
  BY DEF Sweep
<1>2. \A b \in Attempts : ladders[b] = Absent => ladders'[b] = Absent
  BY SweptLadder
<1>3. \A b \in Attempts : /\ joined[b] = NoAttempt => joined'[b] = NoAttempt
                          /\ heldAttempt[b] = None => heldAttempt'[b] = None
                          /\ pageNamed[b] = <<>> => pageNamed'[b] = <<>>
  BY DEF Sweep, ReapedJoined
<1>4. \A k \in People \X Operators : pending'[k] \in {pending[k], NoAttempt}
  BY DEF Sweep, TypeOK
<1>5. \A b \in Attempts \ seen : Untouched(b)'
  BY <1>1, <1>2, <1>3 DEF OnlyTheSeen, Untouched
<1> QED BY <1>1, <1>4, <1>5, DeliveredNone

LEMMA ClockOnlyTheSeen == ASSUME TypeOK, OnlyTheSeen, Tick \/ StepBack PROVE OnlyTheSeen'
<1>1. UNCHANGED <<seen, ladders, joined, heldAttempt, pageNamed, running, resend, repeat, recorded, pending>>
  BY DEF Tick, StepBack, ladderVars, pageVars
<1> QED BY <1>1 DEF OnlyTheSeen, Untouched

LEMMA RestartOnlyTheSeen == ASSUME Restart PROVE OnlyTheSeen'
BY FS_EmptySet DEF Restart, OnlyTheSeen, Untouched, Each

-----------------------------------------------------------------------------
Recording == FirstIsUntaken /\ RecordedOnce

LEMMA AnswerRecords ==
  ASSUME TypeOK, OnlyTheSeen, Recording, NEW a \in Attempts \ seen, NEW h \in Hold,
         heldAttempt' = [heldAttempt EXCEPT ![a] = h], StartResend(a, h), recorded' = recorded
  PROVE  Recording'
<1>1. recorded[a] = 0
  BY DEF OnlyTheSeen, Untouched
<1> DEFINE e == [hold |-> h, stage |-> "first", taken |-> FALSE, reached |-> FALSE]
<1>2. resend' = [resend EXCEPT ![a] = e] /\ e \in Resend /\ e # None /\ ~e.taken
  <2>1. e \in Resend /\ ~e.taken
    BY DEF Resend
  <2>2. resend' = [resend EXCEPT ![a] = e]
    BY DEF StartResend
  <2> QED BY <2>1, <2>2, Assumed
<1> HIDE DEF e
<1>3. resend'[a] = e /\ \A b \in Attempts \ {a} : resend'[b] = resend[b] /\ heldAttempt'[b] = heldAttempt[b]
  BY <1>2 DEF TypeOK
<1>4. FirstIsUntaken'
  BY <1>2, <1>3 DEF Recording, FirstIsUntaken
<1>5. RecordedOnce'
  BY <1>1, <1>2, <1>3 DEF Recording, RecordedOnce, OwesRecord
<1> QED BY <1>4, <1>5 DEF Recording

LEMMA RecordingStays ==
  ASSUME Recording, UNCHANGED <<resend, recorded, heldAttempt>> PROVE Recording'
BY DEF Recording, FirstIsUntaken, RecordedOnce, OwesRecord

\* One answer moved on, and was entered in the log if that was when it settled.
LEMMA OneMovedOn ==
  ASSUME TypeOK, Recording, NEW a \in Attempts, NEW r \in [Attempts -> Resend \cup {None}],
         NEW h, resend[a] # None, resend' \in {r, Reached(r, h)},
         \A b \in Attempts \ {a} : r[b] = resend[b] /\ recorded'[b] = recorded[b],
         heldAttempt' = heldAttempt,
         r[a] # None => r[a].stage # "first",
         r[a] # None /\ ~r[a].taken => recorded'[a] = 0,
         ~(r[a] # None /\ ~r[a].taken) =>
           recorded'[a] <= 1 /\ (heldAttempt[a] # None => recorded'[a] = 1)
  PROVE  Recording'
<1>1. \A b \in Attempts : /\ resend'[b] = None <=> r[b] = None
                          /\ r[b] # None => /\ resend'[b].stage = r[b].stage
                                            /\ resend'[b].taken = r[b].taken
  BY ReachedTyped
<1>2. \A b \in Attempts : OwesRecord(b)' <=> (r[b] # None /\ ~r[b].taken)
  BY <1>1 DEF OwesRecord
<1>3. FirstIsUntaken'
  BY <1>1 DEF Recording, FirstIsUntaken
<1>4. RecordedOnce'
  BY <1>2 DEF Recording, RecordedOnce, OwesRecord
<1> QED BY <1>3, <1>4 DEF Recording

LEMMA SendsRecord ==
  ASSUME TypeOK, Recording, NEW a \in Attempts,
         \/ \E took \in BOOLEAN : FirstSendSettles(a, took) \/ SecondSendSettles(a, took)
         \/ SecondSendStarts(a)
         \/ SecondSendNeverGoes(a)
  PROVE  Recording'
<1>0. /\ heldAttempt' = heldAttempt /\ resend[a] # None /\ resend[a] \in Resend
      /\ recorded[a] \in Nat /\ recorded[a] <= 1
      /\ ~resend[a].taken => recorded[a] = 0
      /\ resend[a].taken /\ heldAttempt[a] # None => recorded[a] = 1
      /\ resend[a].stage = "first" => ~resend[a].taken
  <2>1. heldAttempt' = heldAttempt /\ resend[a] # None
    BY DEF FirstSendSettles, SecondSendSettles, SecondSendStarts, SecondSendNeverGoes, pageVars
  <2>2. resend[a] \in Resend
    BY <2>1 DEF TypeOK
  <2>3. recorded[a] \in Nat
    <3>1. recorded \in [Attempts -> 0..2]
      BY DEF TypeOK
    <3> QED BY <3>1
  <2> QED BY <2>1, <2>2, <2>3 DEF Recording, RecordedOnce, OwesRecord, FirstIsUntaken
<1>1. ASSUME NEW took \in BOOLEAN, FirstSendSettles(a, took) PROVE Recording'
  <2> DEFINE e == [[resend[a] EXCEPT !.stage = "waiting"] EXCEPT !.taken = took]
             r == [resend EXCEPT ![a] = e]
  <2>1. e \in Resend /\ e # None /\ e.stage = "waiting" /\ e.taken = took
    <3>1. resend[a] \in Resend /\ "waiting" \in {"first", "waiting", "second"}
      BY <1>0
    <3>2. e \in Resend /\ e.stage = "waiting" /\ e.taken = took
      BY <3>1 DEF Resend
    <3> QED BY <3>2, Assumed
  <2>2. resend' \in {r, Reached(r, r[a].hold)}
    <3>1. r = [resend EXCEPT ![a].stage = "waiting", ![a].taken = took]
      BY DEF TypeOK
    <3> HIDE DEF r
    <3> QED BY <1>1, <3>1 DEF FirstSendSettles
  <2>3. recorded' = [recorded EXCEPT ![a] = IF took THEN recorded[a] + 1 ELSE recorded[a]]
    BY <1>1 DEF FirstSendSettles
  <2>4. recorded[a] = 0
    BY <1>0, <1>1 DEF FirstSendSettles
  <2> HIDE DEF e
  <2>5. /\ r \in [Attempts -> Resend \cup {None}] /\ r[a] = e
        /\ \A b \in Attempts \ {a} : r[b] = resend[b] /\ recorded'[b] = recorded[b]
    BY <2>1, <2>3 DEF TypeOK
  <2>6. recorded'[a] = IF took THEN 1 ELSE 0
    BY <2>3, <2>4 DEF TypeOK
  <2> HIDE DEF r
  <2> QED BY <1>0, <2>1, <2>2, <2>5, <2>6, OneMovedOn
<1>2. ASSUME NEW took \in BOOLEAN, SecondSendSettles(a, took) PROVE Recording'
  <2> DEFINE r == [resend EXCEPT ![a] = None]
  <2>1. resend' \in {r, Reached(r, resend[a].hold)}
    BY <1>2 DEF SecondSendSettles
  <2>2. recorded' = [recorded EXCEPT ![a] = IF resend[a].taken THEN recorded[a] ELSE recorded[a] + 1]
    BY <1>2 DEF SecondSendSettles
  <2>3. /\ r \in [Attempts -> Resend \cup {None}] /\ r[a] = None
        /\ \A b \in Attempts \ {a} : r[b] = resend[b] /\ recorded'[b] = recorded[b]
    BY <2>2 DEF TypeOK
  <2>4. recorded'[a] <= 1 /\ (heldAttempt[a] # None => recorded'[a] = 1)
    BY <1>0, <2>2 DEF TypeOK
  <2> HIDE DEF r
  <2> QED BY <1>0, <2>1, <2>3, <2>4, OneMovedOn
<1>3. CASE SecondSendStarts(a)
  <2> DEFINE e == [resend[a] EXCEPT !.stage = "second"]
  <2>1. e \in Resend /\ e # None /\ e.stage = "second" /\ e.taken = resend[a].taken
    <3>1. e \in Resend /\ e.stage = "second" /\ e.taken = resend[a].taken
      BY <1>0, ResendStaged
    <3> QED BY <3>1, Assumed
  <2>2. resend' = [resend EXCEPT ![a] = e] /\ recorded' = recorded
    BY <1>3 DEF SecondSendStarts, TypeOK
  <2> HIDE DEF e
  <2>3. resend' \in [Attempts -> Resend \cup {None}] /\ resend'[a] = e
    BY <2>1, <2>2 DEF TypeOK
  <2>4. \A b \in Attempts \ {a} : resend'[b] = resend[b] /\ recorded'[b] = recorded[b]
    BY <2>2 DEF TypeOK
  <2> DEFINE r == resend'
  <2>5. /\ r \in [Attempts -> Resend \cup {None}] /\ resend' \in {r, Reached(r, None)} /\ r[a] = e
        /\ \A b \in Attempts \ {a} : r[b] = resend[b] /\ recorded'[b] = recorded[b]
    BY <2>3, <2>4
  <2> HIDE DEF r
  <2> QED BY <1>0, <2>1, <2>2, <2>5, OneMovedOn
<1>4. CASE SecondSendNeverGoes(a)
  <2> DEFINE r == [resend EXCEPT ![a] = None]
  <2>1. resend' = r
    BY <1>4 DEF SecondSendNeverGoes
  <2>2. recorded' = [recorded EXCEPT ![a] = IF resend[a].taken THEN recorded[a] ELSE recorded[a] + 1]
    BY <1>4 DEF SecondSendNeverGoes
  <2>3. /\ r \in [Attempts -> Resend \cup {None}] /\ r[a] = None
        /\ \A b \in Attempts \ {a} : r[b] = resend[b] /\ recorded'[b] = recorded[b]
    BY <2>2 DEF TypeOK
  <2>4. recorded'[a] <= 1 /\ (heldAttempt[a] # None => recorded'[a] = 1)
    BY <1>0, <2>2 DEF TypeOK
  <2> HIDE DEF r
  <2> QED BY <1>0, <2>1, <2>3, <2>4, OneMovedOn
<1> QED BY <1>1, <1>2, <1>3, <1>4

LEMMA DeliverRecords ==
  ASSUME TypeOK, OnlyTheSeen, Recording, NEW a \in Attempts, Deliver(a) PROVE Recording'
<1>1. CASE OpenOrJoin(a)
  BY <1>1, RecordingStays DEF OpenOrJoin, pageVars
<1>2. CASE \/ AnswerAndWait(a) \/ AnswerAndWiden(a)
           \/ AnswerAndEscalate(a) \/ AnswerAndRepage(a)
  <2> DEFINE h == held[Sender[a]]
  <2>1. /\ a \notin seen /\ AnsweredFromHold(Sender[a])
        /\ heldAttempt' = [heldAttempt EXCEPT ![a] = h] /\ StartResend(a, h)
        /\ recorded' = recorded
    BY <1>2 DEF AnswerAndWait, AnswerAndWiden, AnswerAndEscalate, AnswerAndRepage, Arrives
  <2>2. h \in Hold
    BY <2>1, AnsweredHold
  <2> HIDE DEF h
  <2> QED BY <2>1, <2>2, AnswerRecords
<1> QED BY <1>1, <1>2 DEF Deliver

LEMMA SettleRecords ==
  ASSUME TypeOK, Recording, NEW a \in Attempts, Settle(a) PROVE Recording'
<1>1. CASE \E failed \in SUBSET FailingChannels : FirstPageReturns(a, running[a] \ failed)
  BY <1>1, RecordingStays DEF FirstPageReturns, pageVars
<1>2. CASE \/ \E took \in SendOutcomes : FirstSendSettles(a, took) \/ SecondSendSettles(a, took)
           \/ SecondSendStarts(a)
           \/ SecondSendNeverGoes(a)
  BY <1>2, SendsRecord, ExecutorAssumption
<1>3. CASE RepeatPageWorks(a) \/ RepeatPageFails(a)
  BY <1>3, RecordingStays DEF RepeatPageWorks, RepeatPageFails
<1> QED BY <1>1, <1>2, <1>3 DEF Settle

LEMMA SweepRecords == ASSUME TypeOK, Recording, Sweep PROVE Recording'
<1>1. /\ UNCHANGED <<resend, recorded>>
      /\ \A a \in Attempts : heldAttempt'[a] # None => heldAttempt[a] # None
  BY DEF Sweep
<1> QED BY <1>1 DEF Recording, FirstIsUntaken, RecordedOnce, OwesRecord

LEMMA RestartRecords == ASSUME Restart PROVE Recording'
BY DEF Restart, Recording, FirstIsUntaken, RecordedOnce, OwesRecord, Each

LEMMA InitIsCore == ASSUME Init PROVE Core
<1>1. OnlyTheSeen
  BY FS_EmptySet DEF Init, Idle, OnlyTheSeen, Untouched, Each
<1>2. FirstIsUntaken /\ RecordedOnce
  BY DEF Init, Idle, FirstIsUntaken, RecordedOnce, OwesRecord, Each
<1> QED BY <1>1, <1>2, InitTyped DEF Core

\* Every action keeps the core, one step an action.
LEMMA CoreIsInductive == ASSUME Core, [Next]_vars PROVE Core'
<1> USE DEF Core
<1>1. ASSUME NEW a \in Attempts, Deliver(a) PROVE Core'
  <2>1. TypeOK'
    BY <1>1, OpenOrJoinTyped, AnswerAndWaitTyped, AnswerAndWidenTyped, AnswerAndEscalateTyped,
       AnswerAndRepageTyped DEF Deliver
  <2>2. OnlyTheSeen' /\ Recording'
    BY <1>1, DeliverOnlyTheSeen, DeliverRecords DEF Recording
  <2> QED BY <2>1, <2>2 DEF Recording
<1>2. ASSUME NEW a \in Attempts, Settle(a) PROVE Core'
  <2>1. TypeOK'
    <3>1. ASSUME NEW took \in BOOLEAN, FirstSendSettles(a, took) \/ SecondSendSettles(a, took)
          PROVE  TypeOK'
      BY <3>1, FirstSendSettlesTyped, SecondSendSettlesTyped
    <3>2. ASSUME \E failed \in SUBSET FailingChannels : FirstPageReturns(a, running[a] \ failed)
          PROVE  TypeOK'
      BY <3>2, FirstPageReturnsTyped
    <3> QED BY <1>2, <3>1, <3>2, SecondSendStartsTyped, SecondSendNeverGoesTyped,
               RepeatPageWorksTyped, RepeatPageFailsTyped, ExecutorAssumption DEF Settle
  <2>2. OnlyTheSeen' /\ Recording'
    BY <1>2, SettleOnlyTheSeen, SettleRecords DEF Recording
  <2> QED BY <2>1, <2>2 DEF Recording
<1>3. ASSUME NEW p \in People, NEW a \in Attempts, Acknowledge(p, a) PROVE Core'
  <2>1. Recording'
    BY <1>3, RecordingStays DEF Acknowledge, pageVars, Recording
  <2> QED BY <1>3, <2>1, AcknowledgeTyped, AcknowledgeOnlyTheSeen DEF Recording
<1>4. ASSUME NEW p \in People, NEW a \in Attempts, WakeOthers(p, a) PROVE Core'
  <2>1. Recording'
    BY <1>4, RecordingStays DEF WakeOthers, Recording
  <2> QED BY <1>4, <2>1, WakeOthersTyped, WakeOthersOnlyTheSeen DEF Recording
<1>5. CASE Sweep
  BY <1>5, SweepTyped, SweepOnlyTheSeen, SweepRecords DEF Recording
<1>6. CASE Tick \/ StepBack
  <2>1. Recording'
    BY <1>6, RecordingStays DEF Tick, StepBack, pageVars, Recording
  <2> QED BY <1>6, <2>1, TickTyped, StepBackTyped, ClockOnlyTheSeen DEF Recording
<1>7. CASE Restart
  BY <1>7, RestartTyped, RestartOnlyTheSeen, RestartRecords DEF Recording
<1>8. CASE UNCHANGED vars
  BY <1>8 DEF vars, clockVars, ladderVars, pageVars, TypeOK, OnlyTheSeen, Untouched,
              FirstIsUntaken, RecordedOnce, OwesRecord
<1> QED BY <1>1, <1>2, <1>3, <1>4, <1>5, <1>6, <1>7, <1>8 DEF Next

\* What every state of the executor satisfies.
THEOREM Invariance == Spec => []Core
<1>1. Init => Core
  BY InitIsCore
<1>2. Core /\ [Next]_vars => Core'
  BY CoreIsInductive
<1> QED BY <1>1, <1>2, PTL DEF Spec

\* Whatever arrives, in whatever order, every variable keeps its type.
THEOREM TypeCorrect == Spec => []TypeOK
BY Invariance, PTL DEF Core

\* Every attempt answered from a hold is in the accountability log once: an answer owes its
\* entry until one of its sends settles, and pays it whether its second send goes or not.
THEOREM AnsweredIsRecorded == Spec => []RecordedOnce
BY Invariance, PTL DEF Core

-----------------------------------------------------------------------------
(* Holds, and what is kept under them, are about the operator they name.   *)

TheirOwn ==
  /\ \A o \in Operators : held[o] # None => Sender[held[o].ladder] = o
  /\ \A a \in Attempts :
       /\ heldAttempt[a] # None => Sender[heldAttempt[a].ladder] = Sender[a]
       /\ repeat[a] # None => Sender[repeat[a].ladder] = Sender[a]
       /\ resend[a] # None => Sender[resend[a].hold.ladder] = Sender[a]
  /\ \A p \in People, o \in Operators :
       pending[<<p, o>>] # NoAttempt => Sender[pending[<<p, o>>]] = o

\* Whatever is only dropped was about its own operator.
LEMMA OwnStays ==
  ASSUME TypeOK, TheirOwn,
         \A o \in Operators : held'[o] \in {held[o], None},
         \A a \in Attempts : /\ heldAttempt'[a] \in {heldAttempt[a], None}
                             /\ repeat'[a] \in {repeat[a], None},
         \A a \in Attempts : resend'[a] # None =>
           resend[a] # None /\ resend'[a].hold = resend[a].hold,
         \A k \in People \X Operators : pending'[k] \in {pending[k], NoAttempt}
  PROVE  TheirOwn'
<1>1. \A o \in Operators : held'[o] # None => Sender[held'[o].ladder] = o
  BY DEF TheirOwn
<1>2. \A a \in Attempts :
        /\ heldAttempt'[a] # None => Sender[heldAttempt'[a].ladder] = Sender[a]
        /\ repeat'[a] # None => Sender[repeat'[a].ladder] = Sender[a]
  BY DEF TheirOwn
<1>3. \A a \in Attempts : resend'[a] # None => Sender[resend'[a].hold.ladder] = Sender[a]
  BY DEF TheirOwn
<1>4. \A p \in People, o \in Operators :
        pending'[<<p, o>>] # NoAttempt => Sender[pending'[<<p, o>>]] = o
  BY DEF TheirOwn
<1> QED BY <1>1, <1>2, <1>3, <1>4 DEF TheirOwn

\* An attempt answered from its operator's hold is kept under that hold.
LEMMA OwnAnswer ==
  ASSUME TypeOK, TheirOwn, NEW a \in Attempts, NEW h \in Hold, h = held[Sender[a]], h # None,
         \A o \in Operators : held'[o] \in {held[o], None},
         heldAttempt' = [heldAttempt EXCEPT ![a] = h], StartResend(a, h),
         repeat' = repeat \/ repeat' = [repeat EXCEPT ![a] = h],
         \A k \in People \X Operators :
           pending'[k] \in {pending[k], NoAttempt} \/ (pending'[k] = a /\ k[2] = Sender[a])
  PROVE  TheirOwn'
<1>0. Sender[a] \in Operators /\ Sender[h.ladder] = Sender[a]
  BY Assumed DEF TheirOwn
<1>1. \A o \in Operators : held'[o] # None => Sender[held'[o].ladder] = o
  BY DEF TheirOwn
<1>2. \A b \in Attempts : heldAttempt'[b] # None => Sender[heldAttempt'[b].ladder] = Sender[b]
  BY <1>0 DEF TheirOwn, TypeOK
<1>3. \A b \in Attempts : repeat'[b] # None => Sender[repeat'[b].ladder] = Sender[b]
  BY <1>0 DEF TheirOwn, TypeOK
<1>4. \A b \in Attempts : resend'[b] # None => Sender[resend'[b].hold.ladder] = Sender[b]
  BY <1>0 DEF TheirOwn, TypeOK, StartResend
<1>5. \A p \in People, o \in Operators :
        pending'[<<p, o>>] # NoAttempt => Sender[pending'[<<p, o>>]] = o
  BY DEF TheirOwn
<1> QED BY <1>1, <1>2, <1>3, <1>4, <1>5 DEF TheirOwn

LEMMA DeliverTheirOwn ==
  ASSUME TypeOK, TheirOwn, NEW a \in Attempts, Deliver(a) PROVE TheirOwn'
<1> DEFINE op == Sender[a]
           h == held[op]
<1>1. CASE OpenOrJoin(a)
  <2>1. /\ \A o \in Operators : held'[o] \in {held[o], None}
        /\ UNCHANGED <<heldAttempt, repeat, resend, pending>>
    BY <1>1 DEF OpenOrJoin, pageVars, TypeOK
  <2> QED BY <2>1, OwnStays
<1>2. CASE AnswerAndWait(a) \/ AnswerAndWiden(a) \/ AnswerAndEscalate(a) \/ AnswerAndRepage(a)
  <2>1. /\ AnsweredFromHold(op)
        /\ heldAttempt' = [heldAttempt EXCEPT ![a] = h] /\ StartResend(a, h)
    BY <1>2 DEF AnswerAndWait, AnswerAndWiden, AnswerAndEscalate, AnswerAndRepage
  <2>2. h \in Hold /\ h # None
    BY <2>1, AnsweredHold DEF AnsweredFromHold
  <2>3. repeat' = repeat \/ repeat' = [repeat EXCEPT ![a] = h]
    BY <1>2 DEF AnswerAndWait, AnswerAndWiden, AnswerAndEscalate, AnswerAndRepage
  <2>4. CASE AnswerAndWait(a)
    <3>1. /\ UNCHANGED held
          /\ pending' = [pending EXCEPT ![<<h.by, op>>] = a]
      BY <2>4 DEF AnswerAndWait
    <3>2. \A k \in People \X Operators :
            pending'[k] \in {pending[k], NoAttempt} \/ (pending'[k] = a /\ k[2] = op)
      BY <3>1 DEF TypeOK
    <3> HIDE DEF h
    <3> QED BY <2>1, <2>2, <2>3, <3>1, <3>2, OwnAnswer DEF h
  <2>5. CASE AnswerAndWiden(a) \/ AnswerAndEscalate(a)
    <3>1. EndHold(h)
      BY <2>5 DEF AnswerAndWiden, AnswerAndEscalate
    <3>2. /\ \A o \in Operators : held'[o] \in {held[o], None}
          /\ \A k \in People \X Operators : pending'[k] \in {pending[k], NoAttempt}
      BY <3>1 DEF EndHold, TypeOK
    <3> HIDE DEF h
    <3> QED BY <2>1, <2>2, <2>3, <3>2, OwnAnswer DEF h
  <2>6. CASE AnswerAndRepage(a)
    <3>1. /\ UNCHANGED held
          /\ \A k \in People \X Operators : pending'[k] \in {pending[k], NoAttempt}
      BY <2>6 DEF AnswerAndRepage, TypeOK
    <3> HIDE DEF h
    <3> QED BY <2>1, <2>2, <2>3, <3>1, OwnAnswer DEF h
  <2> QED BY <1>2, <2>4, <2>5, <2>6
<1> QED BY <1>1, <1>2 DEF Deliver

\* A send settles, and every answer keeps the hold it was made under.
LEMMA SettleHolds ==
  ASSUME TypeOK, NEW a \in Attempts, Settle(a)
  PROVE  /\ \A b \in Attempts : resend'[b] # None =>
              resend[b] # None /\ resend'[b].hold = resend[b].hold
         /\ \A o \in Operators : held'[o] \in {held[o], None}
<1>1. CASE \/ \E failed \in SUBSET FailingChannels : FirstPageReturns(a, running[a] \ failed)
           \/ RepeatPageWorks(a)
  BY <1>1 DEF FirstPageReturns, RepeatPageWorks
<1>2. CASE RepeatPageFails(a)
  BY <1>2 DEF RepeatPageFails, EndHold, TypeOK
<1>3. ASSUME NEW took \in BOOLEAN, FirstSendSettles(a, took) \/ SecondSendSettles(a, took)
      PROVE  \A b \in Attempts : resend'[b] # None =>
               resend[b] # None /\ resend'[b].hold = resend[b].hold
  <2>1. PICK r \in [Attempts -> Resend \cup {None}], h \in Hold :
          /\ resend' \in {r, Reached(r, h)}
          /\ \A b \in Attempts : r[b] # None => resend[b] # None /\ r[b].hold = resend[b].hold
    <3>1. CASE FirstSendSettles(a, took)
      <4> DEFINE e == [[resend[a] EXCEPT !.stage = "waiting"] EXCEPT !.taken = took]
                 r == [resend EXCEPT ![a] = e]
      <4>1. resend[a] # None /\ resend[a] \in Resend
        BY <3>1 DEF FirstSendSettles, TypeOK
      <4>2. e \in Resend /\ e.hold = resend[a].hold /\ e.hold \in Hold
        BY <4>1 DEF Resend
      <4>3. resend' \in {r, Reached(r, r[a].hold)}
        <5>1. r = [resend EXCEPT ![a].stage = "waiting", ![a].taken = took]
          BY DEF TypeOK
        <5> HIDE DEF r
        <5> QED BY <3>1, <5>1 DEF FirstSendSettles
      <4> HIDE DEF e
      <4>4. r \in [Attempts -> Resend \cup {None}] /\
            \A b \in Attempts : r[b] # None => resend[b] # None /\ r[b].hold = resend[b].hold
        BY <4>1, <4>2 DEF TypeOK
      <4>5. r[a].hold \in Hold
        BY <4>2 DEF TypeOK
      <4> HIDE DEF r
      <4> QED BY <4>3, <4>4, <4>5
    <3>2. CASE SecondSendSettles(a, took)
      <4> DEFINE r == [resend EXCEPT ![a] = None]
      <4>1. resend' \in {r, Reached(r, resend[a].hold)}
        BY <3>2 DEF SecondSendSettles
      <4>2. r \in [Attempts -> Resend \cup {None}] /\
            \A b \in Attempts : r[b] # None => resend[b] # None /\ r[b].hold = resend[b].hold
        BY DEF TypeOK
      <4>3. resend[a].hold \in Hold
        BY <3>2 DEF SecondSendSettles, TypeOK, Resend
      <4> HIDE DEF r
      <4> QED BY <4>1, <4>2, <4>3
    <3> QED BY <1>3, <3>1, <3>2
  <2>2. \A b \in Attempts : /\ Reached(r, h)[b] = None <=> r[b] = None
                            /\ r[b] # None => Reached(r, h)[b].hold = r[b].hold
    BY ReachedTyped
  <2> QED BY <2>1, <2>2
<1>4. ASSUME NEW took \in BOOLEAN, FirstSendSettles(a, took) \/ SecondSendSettles(a, took)
      PROVE  \A o \in Operators : held'[o] \in {held[o], None}
  BY <1>4 DEF FirstSendSettles, SecondSendSettles, TypeOK
<1>5. CASE SecondSendStarts(a) \/ SecondSendNeverGoes(a)
  <2>1. held' = held
    BY <1>5 DEF SecondSendStarts, SecondSendNeverGoes
  <2>2. CASE SecondSendStarts(a)
    <3> DEFINE e == [resend[a] EXCEPT !.stage = "second"]
    <3>1. resend[a] # None /\ resend[a] \in Resend
      BY <2>2 DEF SecondSendStarts, TypeOK
    <3>2. e.hold = resend[a].hold
      BY <3>1, ResendStaged
    <3>3. resend' = [resend EXCEPT ![a] = e]
      BY <2>2 DEF SecondSendStarts, TypeOK
    <3> HIDE DEF e
    <3> QED BY <2>1, <3>1, <3>2, <3>3 DEF TypeOK
  <2>3. CASE SecondSendNeverGoes(a)
    BY <2>1, <2>3 DEF SecondSendNeverGoes, TypeOK
  <2> QED BY <1>5, <2>2, <2>3
<1> QED BY <1>1, <1>2, <1>3, <1>4, <1>5, ExecutorAssumption DEF Settle

LEMMA SettleTheirOwn ==
  ASSUME TypeOK, TheirOwn, NEW a \in Attempts, Settle(a) PROVE TheirOwn'
<1>1. /\ \A b \in Attempts : resend'[b] # None =>
           resend[b] # None /\ resend'[b].hold = resend[b].hold
      /\ \A o \in Operators : held'[o] \in {held[o], None}
  BY SettleHolds
<1>2. \A b \in Attempts : heldAttempt'[b] = heldAttempt[b] /\ repeat'[b] \in {repeat[b], None}
  <2>1. heldAttempt' = heldAttempt /\ (repeat' = repeat \/ repeat' = [repeat EXCEPT ![a] = None])
    BY DEF Settle, FirstPageReturns, FirstSendSettles, SecondSendSettles, SecondSendStarts,
           SecondSendNeverGoes, RepeatPageWorks, RepeatPageFails, pageVars
  <2> QED BY <2>1 DEF TypeOK
<1>3. \A k \in People \X Operators : pending'[k] \in {pending[k], NoAttempt}
  <2>1. pending' = pending \/ EndHold(repeat[a])
    BY DEF Settle, FirstPageReturns, FirstSendSettles, SecondSendSettles, SecondSendStarts,
           SecondSendNeverGoes, RepeatPageWorks, RepeatPageFails, pageVars
  <2> QED BY <2>1 DEF EndHold, TypeOK
<1> QED BY <1>1, <1>2, <1>3, OwnStays

LEMMA AcknowledgeTheirOwn ==
  ASSUME TypeOK, TheirOwn, NEW p \in People, NEW a \in Attempts, Acknowledge(p, a)
  PROVE  TheirOwn'
<1> DEFINE c == Canonical(joined, a)
<1>1. c \in Attempts
  BY DEF Canonical, TypeOK
<1>2. /\ held' = [held EXCEPT ![Sender[c]] = [ladder |-> c, by |-> p, at |-> now]]
      /\ UNCHANGED <<heldAttempt, repeat, resend, pending>>
  BY DEF Acknowledge, pageVars
<1> HIDE DEF c
<1>3. \A o \in Operators : held'[o] # None => Sender[held'[o].ladder] = o
  BY <1>1, <1>2 DEF TheirOwn, TypeOK
<1> QED BY <1>2, <1>3 DEF TheirOwn

LEMMA OthersTheirOwn ==
  ASSUME TypeOK, TheirOwn,
         \/ \E p \in People, a \in Attempts : WakeOthers(p, a)
         \/ Sweep
         \/ Tick
         \/ StepBack
         \/ UNCHANGED vars
  PROVE  TheirOwn'
<1>1. ASSUME NEW p \in People, NEW a \in Attempts, WakeOthers(p, a) PROVE TheirOwn'
  <2>1. UNCHANGED <<resend, repeat, heldAttempt>>
    BY <1>1 DEF WakeOthers
  <2>2. PICK ended \in SUBSET Attempts :
          /\ held' = [o \in Operators |-> IF \E b \in ended : Sender[b] = o THEN None ELSE held[o]]
          /\ pending' = [k \in DOMAIN pending |->
               IF \E b \in ended : heldAttempt[b].by = k[1] /\ Sender[b] = k[2] THEN NoAttempt
               ELSE pending[k]]
    BY <1>1, WakeFacts
  <2>3. /\ \A o \in Operators : held'[o] \in {held[o], None}
        /\ \A k \in People \X Operators : pending'[k] \in {pending[k], NoAttempt}
    BY <2>2 DEF TypeOK
  <2> QED BY <2>1, <2>3, OwnStays
<1>2. CASE Sweep
  <2>1. /\ UNCHANGED <<resend, repeat>>
        /\ \A o \in Operators : held'[o] \in {held[o], None}
        /\ \A a \in Attempts : heldAttempt'[a] \in {heldAttempt[a], None}
    BY <1>2 DEF Sweep
  <2>2. \A k \in People \X Operators : pending'[k] \in {pending[k], NoAttempt}
    BY <1>2 DEF Sweep, TypeOK
  <2> QED BY <2>1, <2>2, OwnStays
<1>3. CASE Tick \/ StepBack \/ UNCHANGED vars
  <2>1. UNCHANGED <<held, heldAttempt, repeat, resend, pending>>
    BY <1>3 DEF Tick, StepBack, vars, pageVars
  <2> QED BY <2>1, OwnStays
<1> QED BY <1>1, <1>2, <1>3

LEMMA OwnIsInductive == ASSUME Core, TheirOwn, [Next]_vars PROVE TheirOwn'
<1>1. TypeOK
  BY DEF Core
<1>2. CASE Restart
  BY <1>2 DEF Restart, TheirOwn, Each
<1> QED BY <1>1, <1>2, DeliverTheirOwn, SettleTheirOwn, AcknowledgeTheirOwn, OthersTheirOwn DEF Next

LEMMA AlwaysTheirOwn == Spec => [](Core /\ TheirOwn)
<1>1. Init => Core /\ TheirOwn
  <2>1. Init => TheirOwn
    BY Assumed DEF Init, Idle, TheirOwn, Each
  <2> QED BY <2>1, InitIsCore
<1>2. Core /\ TheirOwn /\ [Next]_vars => (Core /\ TheirOwn)'
  BY CoreIsInductive, OwnIsInductive
<1> QED BY <1>1, <1>2, PTL DEF Spec

-----------------------------------------------------------------------------
(* What a step may never do.                                               *)

LEMMA OnlyThisOpens ==
  ASSUME TypeOK, NEW a \in Attempts, NEW charged \in BOOLEAN, OpenLadder(a, charged),
         NEW b \in Attempts, ladders[b] = Absent, ladders'[b] # Absent
  PROVE  b = a /\ NoLiveLadder(Sender[a])
<1>1. b = a
  BY OpenLadderElsewhere
<1>2. Starts(ladders, joined, a)
  BY <1>1 DEF OpenLadder, OpenedLadders
<1> QED BY <1>1, <1>2 DEF Starts, NoLiveLadder

LEMMA OpensAsTheHoldEnds ==
  ASSUME TypeOK, TheirOwn, Next, NEW b \in Attempts, ladders[b] = Absent, ladders'[b] # Absent
  PROVE  held'[Sender[b]] = None \/ APageFails
<1>0. Sender[b] \in Operators
  BY Assumed
<1>1. ASSUME NEW a \in Attempts, OpenOrJoin(a) PROVE held'[Sender[b]] = None
  <2>1. b = a /\ NoLiveLadder(Sender[a])
    BY <1>1, OnlyThisOpens DEF OpenOrJoin
  <2>2. held[Sender[a]] = None \/ ~Holding(held[Sender[a]], now)
    BY <1>1, <2>1 DEF OpenOrJoin, AnsweredFromHold
  <2> QED BY <1>0, <1>1, <2>1, <2>2 DEF OpenOrJoin, TypeOK
<1>2. ASSUME NEW a \in Attempts, AnswerAndWiden(a) \/ AnswerAndEscalate(a)
      PROVE  held'[Sender[b]] = None
  <2>1. /\ EndHold(held[Sender[a]]) /\ held[Sender[a]] # None
        /\ OpenLadder(a, TRUE) \/ OpenLadder(a, FALSE)
    BY <1>2 DEF AnswerAndWiden, AnswerAndEscalate, AnsweredFromHold
  <2>2. b = a
    BY <2>1, OnlyThisOpens
  <2>3. Sender[held[Sender[a]].ladder] = Sender[a]
    BY <1>0, <2>1, <2>2 DEF TheirOwn
  <2> QED BY <1>0, <2>1, <2>2, <2>3 DEF EndHold, TypeOK
<1>3. ASSUME NEW a \in Attempts, AnswerAndWait(a) \/ AnswerAndRepage(a) PROVE FALSE
  BY <1>3 DEF AnswerAndWait, AnswerAndRepage, ladderVars
<1>4. ASSUME NEW a \in Attempts, Settle(a) PROVE APageFails
  <2>1. CASE RepeatPageFails(a)
    BY <2>1 DEF RepeatPageFails, APageFails, TypeOK
  <2>2. CASE ~RepeatPageFails(a)
    BY <1>4, <2>2 DEF Settle, FirstPageReturns, FirstSendSettles, SecondSendSettles,
                      SecondSendStarts, SecondSendNeverGoes, RepeatPageWorks, ladderVars
  <2> QED BY <2>1, <2>2
<1>5. ASSUME NEW p \in People, NEW a \in Attempts, Acknowledge(p, a) PROVE FALSE
  <2> DEFINE c == Canonical(joined, a)
  <2>1. ladders[c] \in LadderRecord /\ ladders' = [ladders EXCEPT ![c] = AcknowledgeLadder(ladders[c], p, now)]
    BY <1>5, AcknowledgeFacts
  <2> HIDE DEF c
  <2> QED BY <2>1, RecordsArePresent DEF TypeOK
<1>6. ASSUME NEW p \in People, NEW a \in Attempts, WakeOthers(p, a)
      PROVE  held'[Sender[b]] = None
  <2>1. PICK ended \in SUBSET Attempts, l \in {StartLadder(PageableNow(RosterAt(now)) # {}, FALSE, now)} :
          /\ held' = [o \in Operators |-> IF \E c \in ended : Sender[c] = o THEN None ELSE held[o]]
          /\ ladders' = [c \in Attempts |->
               IF c \in {d \in ended : Starts(ladders, joined, d)} THEN l ELSE ladders[c]]
    BY <1>6, WakeFacts
  <2> QED BY <1>0, <2>1
<1>7. CASE Sweep
  BY <1>7, SweptLadder
<1>8. CASE Tick \/ StepBack
  BY <1>8 DEF Tick, StepBack, ladderVars
<1>9. CASE Restart
  BY <1>9 DEF Restart, Each
<1> QED BY <1>1, <1>2, <1>3, <1>4, <1>5, <1>6, <1>7, <1>8, <1>9 DEF Next, Deliver

\* No ladder opens for an operator an acknowledgement stands for, unless the page that
\* was holding it has just failed: what opens the ladder ends the hold in the same step,
\* for any number of operators, answers and clock corrections.
THEOREM HoldKeepsLadderShut == Spec => NoLadderBehindAHold
<1>1. Core /\ TheirOwn /\ [Next]_vars =>
        \A a \in Attempts :
          ladders[a] = Absent /\ ladders'[a] # Absent =>
            \/ held'[Sender[a]] = None
            \/ ~Holding(held'[Sender[a]], now)
            \/ APageFails
  BY OpensAsTheHoldEnds DEF Core, vars, ladderVars
<1> QED BY <1>1, AlwaysTheirOwn, PTL DEF Spec, NoLadderBehindAHold

\* A widening less than a window ago is the one remembered of its operator: nothing before
\* the window is out may forget it, and nothing else may be stamped over it.
WideningsRemembered ==
  \A o \in Operators : \A w \in widenings[o] :
    w.at <= now /\ (now - w.at < AckHoldsSeconds => widened[o] = w.at)

LEMMA WideningFacts ==
  ASSUME TypeOK, NEW o \in Operators
  PROVE  /\ now \in Nat /\ AckHoldsSeconds \in Nat \ {0}
         /\ widened[o] # None => widened[o] \in Nat
         /\ \A w \in widenings[o] : w \in Page /\ w.at \in Nat
BY Assumed DEF TypeOK, Page

\* A widening finds every earlier one a window old.
LEMMA OnlyAfterTheWindow ==
  ASSUME TypeOK, WideningsRemembered, NEW a \in Attempts, AnswerAndWiden(a),
         NEW w \in widenings[Sender[a]]
  PROVE  w.at + AckHoldsSeconds <= now
<1> DEFINE o == Sender[a]
<1>1. o \in Operators
  BY Assumed
<1> HIDE DEF o
<1>2. /\ now \in Nat /\ AckHoldsSeconds \in Nat \ {0}
      /\ widened[o] # None => widened[o] \in Nat
      /\ w.at \in Nat
  BY <1>1, WideningFacts DEF o
<1>3. WidensIn(o, now) = 0
  BY DEF AnswerAndWiden, SilenceWidens, o
<1>4. widened[o] = None \/ widened[o] > now \/ widened[o] + AckHoldsSeconds <= now
  BY <1>2, <1>3 DEF WidensIn, MaxOf
<1>5. w.at <= now /\ (now - w.at < AckHoldsSeconds => widened[o] = w.at)
  BY <1>1 DEF WideningsRemembered, o
<1>6. None \notin Nat
  BY Assumed
<1> QED BY <1>2, <1>4, <1>5, <1>6

LEMMA WidenedOnce ==
  ASSUME TypeOK, WideningsRemembered, WidensOncePerWindow, NEW a \in Attempts, AnswerAndWiden(a)
  PROVE  (WideningsRemembered /\ WidensOncePerWindow)'
<1> DEFINE op == Sender[a]
           new == [at |-> now, page |-> a]
<1>1. /\ op \in Operators /\ now' = now
      /\ widened' = [widened EXCEPT ![op] = now]
      /\ widenings' = [widenings EXCEPT ![op] = @ \cup {new}]
  BY Assumed DEF AnswerAndWiden, clockVars
<1>2. widened \in [Operators -> (0..MaxClock) \cup {None}] /\ widenings \in [Operators -> SUBSET Page]
  BY DEF TypeOK
<1>3. ASSUME NEW w \in widenings[op] PROVE w.at + AckHoldsSeconds <= now
  BY <1>3, OnlyAfterTheWindow
<1>4. new.at = now
  OBVIOUS
<1> HIDE DEF op, new
<1>5. now \in Nat /\ AckHoldsSeconds \in Nat \ {0}
  BY <1>1, WideningFacts
<1>6. ASSUME NEW o \in Operators, NEW w \in widenings'[o]
      PROVE  w.at <= now /\ (now - w.at < AckHoldsSeconds => widened'[o] = w.at)
  <2>1. CASE o # op
    <3>1. w \in widenings[o] /\ widened'[o] = widened[o]
      BY <1>1, <1>2, <1>6, <2>1
    <3> QED BY <3>1 DEF WideningsRemembered
  <2>2. CASE o = op /\ w = new
    BY <1>1, <1>2, <1>4, <1>5, <2>2
  <2>3. CASE o = op /\ w \in widenings[op]
    <3>1. w.at \in Nat /\ w.at + AckHoldsSeconds <= now
      BY <1>1, <1>3, <2>3, WideningFacts
    <3> QED BY <1>5, <3>1
  <2> QED BY <1>1, <1>2, <1>6, <2>1, <2>2, <2>3
<1>7. ASSUME NEW o \in Operators, NEW w \in widenings'[o], NEW other \in widenings'[o], w # other
      PROVE  w.at - other.at >= AckHoldsSeconds \/ other.at - w.at >= AckHoldsSeconds
  <2>1. CASE w \in widenings[o] /\ other \in widenings[o]
    BY <1>7, <2>1 DEF WidensOncePerWindow
  <2>2. CASE o = op /\ w = new /\ other \in widenings[op]
    <3>1. other.at \in Nat /\ other.at + AckHoldsSeconds <= now
      BY <1>1, <1>3, <2>2, WideningFacts
    <3> QED BY <1>4, <1>5, <2>2, <3>1
  <2>3. CASE o = op /\ other = new /\ w \in widenings[op]
    <3>1. w.at \in Nat /\ w.at + AckHoldsSeconds <= now
      BY <1>1, <1>3, <2>3, WideningFacts
    <3> QED BY <1>4, <1>5, <2>3, <3>1
  <2> QED BY <1>1, <1>2, <1>7, <2>1, <2>2, <2>3
<1> QED BY <1>1, <1>6, <1>7 DEF WideningsRemembered, WidensOncePerWindow

LEMMA WideningsStay ==
  ASSUME TypeOK, WideningsRemembered, WidensOncePerWindow, [Next]_vars
  PROVE  (WideningsRemembered /\ WidensOncePerWindow)'
<1>1. UNCHANGED <<now, widened, widenings>> => (WideningsRemembered /\ WidensOncePerWindow)'
  BY DEF WideningsRemembered, WidensOncePerWindow
<1>2. ASSUME NEW a \in Attempts, Deliver(a) PROVE (WideningsRemembered /\ WidensOncePerWindow)'
  <2>1. CASE AnswerAndWiden(a)
    BY <2>1, WidenedOnce
  <2>2. CASE ~AnswerAndWiden(a)
    <3>1. UNCHANGED <<now, widened, widenings>>
      BY <1>2, <2>2 DEF Deliver, OpenOrJoin, AnswerAndWait, AnswerAndEscalate, AnswerAndRepage,
                        clockVars, pageVars
    <3> QED BY <1>1, <3>1
  <2> QED BY <2>1, <2>2
<1>3. ASSUME NEW a \in Attempts, Settle(a) PROVE UNCHANGED <<now, widened, widenings>>
  BY <1>3 DEF Settle, FirstPageReturns, FirstSendSettles, SecondSendSettles, SecondSendStarts,
              SecondSendNeverGoes, RepeatPageWorks, RepeatPageFails, clockVars, pageVars
<1>4. ASSUME NEW p \in People, NEW a \in Attempts, Acknowledge(p, a) \/ WakeOthers(p, a)
      PROVE  UNCHANGED <<now, widened, widenings>>
  BY <1>4 DEF Acknowledge, WakeOthers, clockVars, pageVars
<1>5. CASE Sweep
  <2>1. /\ UNCHANGED <<now, widenings>>
        /\ \A o \in Operators : widened'[o] = IF WidensIn(o, now) = 0 THEN None ELSE widened[o]
    BY <1>5 DEF Sweep
  <2>2. ASSUME NEW o \in Operators, NEW w \in widenings[o], now - w.at < AckHoldsSeconds
        PROVE  widened'[o] = w.at
    <3>1. /\ now \in Nat /\ AckHoldsSeconds \in Nat \ {0} /\ w.at \in Nat
          /\ w.at <= now /\ widened[o] = w.at /\ widened[o] # None
      BY <2>2, WideningFacts, Assumed DEF WideningsRemembered
    <3>2. WidensIn(o, now) # 0
      BY <2>2, <3>1 DEF WidensIn, MaxOf
    <3> QED BY <2>1, <3>1, <3>2
  <2> QED BY <2>1, <2>2 DEF WideningsRemembered, WidensOncePerWindow
<1>6. CASE Tick
  <2>1. now' = now + 1 /\ UNCHANGED <<widened, widenings>>
    BY <1>6 DEF Tick, pageVars
  <2>2. ASSUME NEW o \in Operators, NEW w \in widenings[o]
        PROVE  w.at <= now + 1 /\ ((now + 1) - w.at < AckHoldsSeconds => widened[o] = w.at)
    <3>1. /\ now \in Nat /\ AckHoldsSeconds \in Nat /\ w.at \in Nat
          /\ w.at <= now /\ (now - w.at < AckHoldsSeconds => widened[o] = w.at)
      BY WideningFacts DEF WideningsRemembered
    <3> QED BY <3>1
  <2> QED BY <2>1, <2>2 DEF WideningsRemembered, WidensOncePerWindow
<1>7. CASE StepBack \/ Restart
  BY <1>7 DEF StepBack, Restart, Each, WideningsRemembered, WidensOncePerWindow
<1>8. CASE UNCHANGED vars
  BY <1>1, <1>8 DEF vars, clockVars, pageVars
<1> QED BY <1>1, <1>2, <1>3, <1>4, <1>5, <1>6, <1>7, <1>8 DEF Next

\* Silence widens about one operator at most once in the window an acknowledgement holds
\* for, whoever holds them by then, however many attempts come in one second and whenever
\* the sweep runs.
THEOREM OneWidening == Spec => []WidensOncePerWindow
<1>1. Init => WideningsRemembered /\ WidensOncePerWindow
  BY DEF Init, Idle, Each, WideningsRemembered, WidensOncePerWindow
<1>2. TypeOK /\ WideningsRemembered /\ WidensOncePerWindow /\ [Next]_vars
        => (WideningsRemembered /\ WidensOncePerWindow)'
  BY WideningsStay
<1> QED BY <1>1, <1>2, TypeCorrect, PTL DEF Spec

\* Whoever stops waiting is named on the page that has just started, or has lost their hold.
LEMMA StopsWaitingNamed ==
  ASSUME TypeOK, OnlyTheSeen, TheirOwn, Next,
         NEW p \in People, NEW o \in Operators, StopsWaiting(p, o)
  PROVE  NamedNow(o) \/ held'[o] # held[o] \/ APageFails
<1> DEFINE b == pending[<<p, o>>]
<1>0. /\ b # NoAttempt /\ b \in Attempts /\ Sender[b] = o /\ Standing(b, now)
      /\ held[o] # None /\ heldAttempt[b] = held[o]
      /\ pending'[<<p, o>>] = NoAttempt
  <2>1. b # NoAttempt /\ b \in Attempts /\ Standing(b, now) /\ pending'[<<p, o>>] = NoAttempt
    BY DEF StopsWaiting, TypeOK
  <2>2. Sender[b] = o
    BY <2>1 DEF TheirOwn
  <2> QED BY <2>1, <2>2 DEF Standing
<1>1. ASSUME NEW a \in Attempts, OpenOrJoin(a) \/ AnswerAndWait(a) PROVE FALSE
  <2>1. CASE OpenOrJoin(a)
    BY <1>0, <2>1 DEF OpenOrJoin, pageVars
  <2>2. CASE AnswerAndWait(a)
    <3>1. \A k \in People \X Operators : pending'[k] \in {pending[k], a}
      BY <2>2 DEF AnswerAndWait, TypeOK
    <3> QED BY <1>0, <3>1, Assumed
  <2> QED BY <1>1, <2>1, <2>2
<1>2. ASSUME NEW a \in Attempts, AnswerAndWiden(a) \/ AnswerAndEscalate(a)
      PROVE  held'[o] # held[o]
  <2>1. EndHold(held[Sender[a]]) /\ held[Sender[a]] # None /\ Sender[a] \in Operators
    BY <1>2, Assumed DEF AnswerAndWiden, AnswerAndEscalate, AnsweredFromHold
  <2>2. Sender[held[Sender[a]].ladder] = Sender[a]
    BY <2>1 DEF TheirOwn
  <2>3. Sender[a] = o
    BY <1>0, <2>1, <2>2 DEF EndHold, TypeOK
  <2> QED BY <1>0, <2>1, <2>2, <2>3 DEF EndHold, TypeOK
<1>3. ASSUME NEW a \in Attempts, AnswerAndRepage(a) PROVE NamedNow(o)
  <2> DEFINE op == Sender[a]
             q == held[op].by
  <2>1. /\ op \in Operators /\ q \in People /\ a \notin seen
        /\ pending' = [k \in DOMAIN pending |-> IF k[1] = q THEN NoAttempt ELSE pending[k]]
    BY <1>3, AnsweredHold DEF AnswerAndRepage, Arrives
  <2>2. PICK others \in TakenPending(op, q) : pageNamed' = [pageNamed EXCEPT ![a] = <<a>> \o others]
    BY <1>3 DEF AnswerAndRepage
  <2> HIDE DEF q, op
  <2>3. q = p
    BY <1>0, <2>1 DEF TypeOK
  <2>4. /\ others \in Seq(Attempts)
        /\ \A x \in Operators \ {op} :
             pending[<<q, x>>] # NoAttempt /\ Standing(pending[<<q, x>>], now) =>
               \E i \in 1..Len(others) : others[i] = pending[<<q, x>>]
    <3>1. \A x \in Operators : pending[<<q, x>>] \in seen \cup {NoAttempt}
      BY <2>1 DEF OnlyTheSeen
    <3> QED BY <3>1, TakenPendingFacts DEF OnlyTheSeen, TypeOK
  <2>5. pageNamed'[a] = <<a>> \o others /\ pageNamed[a] = <<>>
    BY <2>1, <2>2 DEF TypeOK, OnlyTheSeen, Untouched
  <2> DEFINE named == <<a>> \o others
  <2>6. /\ Len(named) = Len(others) + 1 /\ Len(others) \in Nat /\ named[1] = a /\ named # <<>>
        /\ \A i \in 1..Len(others) : named[i + 1] = others[i]
    BY <2>4
  <2>7. \E i \in 1..Len(named) : Sender[named[i]] = o
    <3>1. CASE op = o
      <4>1. 1 \in 1..Len(named) /\ Sender[named[1]] = o
        BY <2>6, <3>1 DEF op
      <4> QED BY <4>1
    <3>2. CASE op # o
      <4>1. PICK i \in 1..Len(others) : others[i] = b
        BY <1>0, <2>3, <2>4, <3>2
      <4>2. i + 1 \in 1..Len(named) /\ Sender[named[i + 1]] = o
        BY <1>0, <2>6, <4>1
      <4> QED BY <4>2
    <3> QED BY <3>1, <3>2
  <2> HIDE DEF named
  <2> QED BY <2>5, <2>6, <2>7 DEF named, NamedNow
<1>4. ASSUME NEW a \in Attempts, Settle(a) PROVE APageFails
  <2>1. CASE RepeatPageFails(a)
    BY <2>1 DEF RepeatPageFails, APageFails, TypeOK
  <2>2. CASE ~RepeatPageFails(a)
    BY <1>0, <1>4, <2>2 DEF Settle, FirstPageReturns, FirstSendSettles, SecondSendSettles,
                      SecondSendStarts, SecondSendNeverGoes, RepeatPageWorks, pageVars
  <2> QED BY <2>1, <2>2
<1>5. ASSUME NEW q \in People, NEW a \in Attempts, Acknowledge(q, a) PROVE FALSE
  BY <1>0, <1>5 DEF Acknowledge, pageVars
<1>6. ASSUME NEW q \in People, NEW a \in Attempts, WakeOthers(q, a) PROVE held'[o] # held[o]
  <2>1. PICK ended \in SUBSET Attempts :
          /\ held' = [x \in Operators |-> IF \E c \in ended : Sender[c] = x THEN None ELSE held[x]]
          /\ pending' = [k \in DOMAIN pending |->
               IF \E c \in ended : heldAttempt[c].by = k[1] /\ Sender[c] = k[2] THEN NoAttempt
               ELSE pending[k]]
    BY <1>6, WakeFacts
  <2>2. \E c \in ended : Sender[c] = o
    BY <1>0, <2>1 DEF TypeOK
  <2> QED BY <1>0, <2>1, <2>2
<1>7. CASE Sweep
  BY <1>0, <1>7 DEF Sweep, TypeOK
<1>8. CASE Tick \/ StepBack
  BY <1>0, <1>8 DEF Tick, StepBack, pageVars
<1>9. CASE Restart
  BY <1>0, <1>9 DEF Restart, Each
<1> QED BY <1>1, <1>2, <1>3, <1>4, <1>5, <1>6, <1>7, <1>8, <1>9 DEF Next, Deliver

\* An operator whose phone called inside an interval is named on the person's next page, or
\* their hold has ended, unless a page fails at that moment: for any number of operators
\* waiting on one person.
THEOREM WaitersAreNamed == Spec => NobodyForgottenUnlessAPageFails
<1>1. Core /\ TheirOwn /\ [Next]_vars =>
        \A p \in People, o \in Operators :
          StopsWaiting(p, o) => NamedNow(o) \/ held'[o] # held[o] \/ APageFails
  BY StopsWaitingNamed DEF Core, vars, pageVars, StopsWaiting
<1> QED BY <1>1, AlwaysTheirOwn, PTL DEF Spec, NobodyForgottenUnlessAPageFails

-----------------------------------------------------------------------------
(* What an operator is told while a ladder pages.                          *)

AliasesKnown == \A a \in Attempts : joined[a] # NoAttempt => ladders[joined[a]] # Absent
QuietUnlessPaging ==
  \A a \in Attempts : ladders[a].state # "paging" => notes[a] = "none" /\ woken[a] = {}
Said == AliasesKnown /\ QuietUnlessPaging /\ PagingIsSoWhenSaid

\* What the timing of the code rules out: a first page's commands are killed after
\* thirty seconds, and a ladder is dropped ladder_retention_seconds after it finished.
CommandsEndFirst == \A a \in Attempts : running[a] # {} => ladders[a] # Absent

LEMMA OpenedAlias ==
  ASSUME TypeOK, NEW a \in Attempts, NEW b \in Attempts
  PROVE  \/ OpenedJoined(ladders, joined, a)[b] = joined[b]
         \/ /\ b = a
            /\ OpenedJoined(ladders, joined, a)[b] \in Attempts
            /\ ladders[OpenedJoined(ladders, joined, a)[b]] # Absent
<1> DEFINE live == LiveFor(ladders, Sender[a])
           c == CHOOSE x \in live : TRUE
<1>1. CASE Joins(ladders, joined, a)
  <2>1. c \in live
    BY <1>1 DEF Joins
  <2>2. c \in Attempts /\ ladders[c] # Absent
    BY <2>1, RecordsArePresent DEF LiveFor
  <2>3. OpenedJoined(ladders, joined, a) = [joined EXCEPT ![a] = c]
    BY <1>1 DEF OpenedJoined
  <2> HIDE DEF c
  <2> QED BY <2>2, <2>3 DEF TypeOK
<1>2. CASE ~Joins(ladders, joined, a)
  BY <1>2 DEF OpenedJoined
<1> QED BY <1>1, <1>2

LEMMA AliasesStay ==
  ASSUME TypeOK, AliasesKnown,
         \A b \in Attempts : \/ joined'[b] \in {joined[b], NoAttempt}
                             \/ joined'[b] \in Attempts /\ ladders[joined'[b]] # Absent,
         \A b \in Attempts : ladders[b] # Absent => ladders'[b] # Absent
  PROVE  AliasesKnown'
BY DEF AliasesKnown, TypeOK

\* Only an attempt with no ladder starts one.
LEMMA StartsFromNothing ==
  ASSUME TypeOK, AliasesKnown, NEW a \in Attempts, Starts(ladders, joined, a)
  PROVE  ladders[a] = Absent
BY DEF Starts, Known, Canonical, AliasesKnown

\* A ladder that opens is one, and pages when anybody can be paged.
LEMMA OpeningFacts ==
  ASSUME TypeOK
  PROVE  LET l == StartLadder(PageableNow(RosterAt(now)) # {}, FALSE, now)
         IN  /\ l \in LadderRecord /\ l # Absent
             /\ l.state = "paging" <=> RosterAt(now) \cap Pushable # {}
<1> DEFINE r == PageableNow(RosterAt(now)) # {}
<1>1. now \in Nat /\ r \in BOOLEAN /\ (r <=> RosterAt(now) \cap Pushable # {})
  BY Assumed DEF TypeOK, PageableNow
<1> HIDE DEF r
<1>2. /\ StartLadder(r, FALSE, now) \in LadderRecord
      /\ StartLadder(r, FALSE, now).state = "paging" <=> r
  BY <1>1, StartLadderFacts
<1> QED BY <1>1, <1>2, RecordsArePresent DEF r

LEMMA OpenedAliases ==
  ASSUME TypeOK, AliasesKnown, NEW a \in Attempts, NEW charged \in BOOLEAN, OpenLadder(a, charged)
  PROVE  AliasesKnown'
<1> DEFINE l == StartLadder(PageableNow(RosterAt(now)) # {}, FALSE, now)
<1>1. l # Absent
  BY OpeningFacts
<1>2. /\ ladders' = OpenedLadders(ladders, joined, a, l)
      /\ joined' = OpenedJoined(ladders, joined, a)
  BY DEF OpenLadder
<1> HIDE DEF l
<1>3. \A b \in Attempts : ladders[b] # Absent => ladders'[b] # Absent
  BY <1>1, <1>2 DEF OpenedLadders, TypeOK
<1>4. \A b \in Attempts : \/ joined'[b] = joined[b]
                          \/ joined'[b] \in Attempts /\ ladders[joined'[b]] # Absent
  BY <1>2, OpenedAlias
<1> QED BY <1>3, <1>4, AliasesStay

LEMMA AcknowledgedAliases ==
  ASSUME TypeOK, AliasesKnown, NEW p \in People, NEW a \in Attempts, Acknowledge(p, a)
  PROVE  AliasesKnown'
<1> DEFINE c == Canonical(joined, a)
           l == AcknowledgeLadder(ladders[c], p, now)
<1>1. c \in Attempts /\ l \in LadderRecord /\ ladders' = [ladders EXCEPT ![c] = l]
  BY AcknowledgeFacts
<1>2. joined' = joined
  BY DEF Acknowledge
<1> HIDE DEF c, l
<1>3. \A b \in Attempts : ladders[b] # Absent => ladders'[b] # Absent
  BY <1>1, RecordsArePresent DEF TypeOK
<1> QED BY <1>2, <1>3, AliasesStay

LEMMA WokenAliases ==
  ASSUME TypeOK, AliasesKnown, NEW p \in People, NEW a \in Attempts, WakeOthers(p, a)
  PROVE  AliasesKnown'
<1> DEFINE l == StartLadder(PageableNow(RosterAt(now)) # {}, FALSE, now)
<1>1. PICK ended \in SUBSET Attempts, joins \in SUBSET Attempts :
        /\ ladders' = [b \in Attempts |->
             IF b \in {c \in ended : Starts(ladders, joined, c)} THEN l ELSE ladders[b]]
        /\ joined' = [b \in Attempts |->
             IF b \in joins THEN OpenedJoined(ladders, joined, b)[b] ELSE joined[b]]
        /\ running' = [b \in Attempts |->
             IF b \in {c \in ended : Starts(ladders, joined, c)} THEN (RosterAt(now) \ {p}) \cap Pushable
             ELSE running[b]]
  BY WakeFacts
<1>2. l # Absent
  BY OpeningFacts
<1> HIDE DEF l
<1>3. \A b \in Attempts : ladders[b] # Absent => ladders'[b] # Absent
  BY <1>1, <1>2
<1>4. \A b \in Attempts : \/ joined'[b] = joined[b]
                          \/ joined'[b] \in Attempts /\ ladders[joined'[b]] # Absent
  BY <1>1, OpenedAlias
<1> QED BY <1>3, <1>4, AliasesStay

LEMMA SweptAliases == ASSUME TypeOK, AliasesKnown, Sweep PROVE AliasesKnown'
<1> SUFFICES ASSUME NEW a \in Attempts, joined'[a] # NoAttempt PROVE ladders'[joined'[a]] # Absent
  BY DEF AliasesKnown
<1>1. joined'[a] = joined[a] /\ ~Reapable(ladders[joined[a]], now)
  BY DEF Sweep, ReapedJoined, Canonical
<1>2. joined[a] \in Attempts /\ ladders[joined[a]] # Absent
  BY <1>1 DEF AliasesKnown, TypeOK
<1> QED BY <1>1, <1>2, SweptLadder

\* An alias outlives its ladder in no action: what drops the one drops the other.
LEMMA AliasesAreInductive == ASSUME TypeOK, AliasesKnown, [Next]_vars PROVE AliasesKnown'
<1>1. ASSUME NEW a \in Attempts, Deliver(a) \/ RepeatPageFails(a) PROVE AliasesKnown'
  <2>1. CASE OpenLadder(a, TRUE) \/ OpenLadder(a, FALSE)
    BY <2>1, OpenedAliases
  <2>2. CASE UNCHANGED <<ladders, joined>>
    BY <2>2 DEF AliasesKnown
  <2> QED BY <1>1, <2>1, <2>2 DEF Deliver, OpenOrJoin, AnswerAndWait, AnswerAndWiden,
                                  AnswerAndEscalate, AnswerAndRepage, RepeatPageFails, ladderVars
<1>2. ASSUME NEW a \in Attempts, Settle(a), ~RepeatPageFails(a) PROVE UNCHANGED <<ladders, joined>>
  BY <1>2 DEF Settle, FirstPageReturns, FirstSendSettles, SecondSendSettles, SecondSendStarts,
              SecondSendNeverGoes, RepeatPageWorks, ladderVars
<1>3. CASE Tick \/ StepBack \/ UNCHANGED vars
  BY <1>3 DEF Tick, StepBack, vars, ladderVars, AliasesKnown
<1>4. CASE Restart
  BY <1>4 DEF Restart, Each, AliasesKnown
<1>5. UNCHANGED <<ladders, joined>> => AliasesKnown'
  BY DEF AliasesKnown
<1> QED BY <1>1, <1>2, <1>3, <1>4, <1>5, AcknowledgedAliases, WokenAliases, SweptAliases DEF Next

\* A ladder that opens is paged for, or it is said that it was not.
LEMMA OpenedSaid ==
  ASSUME TypeOK, Said, NEW a \in Attempts, NEW charged \in BOOLEAN, OpenLadder(a, charged),
         running[a] # {} => ladders[a] # Absent, woken' = woken
  PROVE  Said'
<1> DEFINE l == StartLadder(PageableNow(RosterAt(now)) # {}, FALSE, now)
<1>0. AliasesKnown /\ QuietUnlessPaging /\ PagingIsSoWhenSaid
  BY DEF Said
<1>1. /\ l \in LadderRecord /\ l # Absent
      /\ l.state = "paging" => RosterAt(now) \cap Pushable # {}
  <2> DEFINE r == PageableNow(RosterAt(now)) # {}
  <2>1. now \in Nat /\ r \in BOOLEAN /\ (r => RosterAt(now) \cap Pushable # {})
    BY Assumed DEF TypeOK, PageableNow
  <2> HIDE DEF r
  <2>2. StartLadder(r, FALSE, now) \in LadderRecord /\ (StartLadder(r, FALSE, now).state = "paging" => r)
    BY <2>1, StartLadderFacts
  <2> QED BY <2>1, <2>2, RecordsArePresent DEF r
<1> HIDE DEF l
<1>2. /\ ladders' = OpenedLadders(ladders, joined, a, l)
      /\ joined' = OpenedJoined(ladders, joined, a)
  BY DEF OpenLadder, l
<1>3. AliasesKnown'
  BY <1>0, OpenedAliases
<1>4. ASSUME NEW b \in Attempts \ {a}
      PROVE  ladders'[b] = ladders[b] /\ running'[b] = running[b] /\ notes'[b] = notes[b]
  BY OpenLadderElsewhere
<1>5. CASE ~Starts(ladders, joined, a)
  <2>1. UNCHANGED <<ladders, running, notes>>
    BY <1>2, <1>5 DEF OpenLadder, OpenedLadders
  <2> QED BY <1>0, <1>3, <2>1 DEF Said, QuietUnlessPaging, PagingIsSoWhenSaid
<1>6. CASE Starts(ladders, joined, a)
  <2>1. ladders[a] = Absent /\ running[a] = {}
    BY <1>0, <1>6, StartsFromNothing
  <2>2. notes[a] = "none" /\ woken[a] = {}
    BY <1>0, <2>1, RecordsArePresent DEF QuietUnlessPaging
  <2>3. ladders'[a] = l
    BY <1>2, <1>6 DEF OpenedLadders, TypeOK
  <2> DEFINE unit == charged \/ Remaining(budget, now) > 0
             woke == RosterAt(now) \cap Pushable
  <2>4. /\ running'[a] = IF l.state = "paging" /\ unit THEN woke ELSE running[a]
        /\ notes'[a] = IF l.state = "paging" /\ ~unit THEN "spent" ELSE notes[a]
    <3>1. /\ running' = IF l.state = "paging" /\ unit THEN [running EXCEPT ![a] = woke] ELSE running
          /\ notes' = IF l.state = "paging" /\ ~unit THEN [notes EXCEPT ![a] = "spent"] ELSE notes
      BY <1>6 DEF OpenLadder, l
    <3> QED BY <3>1 DEF TypeOK
  <2>5. l.state = "paging" => woke # {}
    BY <1>1
  <2> HIDE DEF unit, woke
  <2>6. QuietUnlessPaging'
    BY <1>0, <1>4, <2>2, <2>3, <2>4 DEF QuietUnlessPaging
  <2>7. PagingIsSoWhenSaid'
    BY <1>0, <1>4, <2>1, <2>2, <2>3, <2>4, <2>5 DEF PagingIsSoWhenSaid
  <2> QED BY <1>3, <2>6, <2>7 DEF Said
<1> QED BY <1>5, <1>6

LEMMA SaidStays ==
  ASSUME Said, UNCHANGED <<ladders, joined, running, notes, woken>> PROVE Said'
BY DEF Said, AliasesKnown, QuietUnlessPaging, PagingIsSoWhenSaid

LEMMA DeliverSaid ==
  ASSUME TypeOK, OnlyTheSeen, Said, NEW a \in Attempts, Deliver(a) PROVE Said'
<1>1. running[a] = {}
  BY DEF OnlyTheSeen, Untouched, Deliver, OpenOrJoin, AnswerAndWait, AnswerAndWiden,
         AnswerAndEscalate, AnswerAndRepage, Arrives
<1>2. CASE OpenOrJoin(a) \/ AnswerAndWiden(a) \/ AnswerAndEscalate(a)
  BY <1>1, <1>2, OpenedSaid DEF OpenOrJoin, AnswerAndWiden, AnswerAndEscalate
<1>3. CASE AnswerAndWait(a) \/ AnswerAndRepage(a)
  BY <1>3, SaidStays DEF AnswerAndWait, AnswerAndRepage, ladderVars
<1> QED BY <1>2, <1>3 DEF Deliver

LEMMA FirstPageSaid ==
  ASSUME TypeOK, Said, NEW a \in Attempts, NEW dispatched, FirstPageReturns(a, dispatched)
  PROVE  Said'
<1>0. AliasesKnown /\ QuietUnlessPaging /\ PagingIsSoWhenSaid
  BY DEF Said
<1>1. UNCHANGED <<ladders, joined>> /\ running[a] # {}
  BY DEF FirstPageReturns
<1>2. AliasesKnown'
  BY <1>0, <1>1 DEF AliasesKnown
<1>3. running'[a] = {} /\ \A b \in Attempts \ {a} : running'[b] = running[b]
  BY DEF FirstPageReturns, TypeOK
<1>4. CASE ladders[a].state = "paging"
  <2>1. /\ woken' = [woken EXCEPT ![a] = dispatched]
        /\ notes' = IF dispatched = running[a] THEN notes
                    ELSE [notes EXCEPT ![a] = IF dispatched = {} THEN "failed" ELSE "partial"]
    BY <1>4 DEF FirstPageReturns
  <2>2. \A b \in Attempts \ {a} : woken'[b] = woken[b] /\ notes'[b] = notes[b]
    BY <2>1 DEF TypeOK
  <2>3. /\ woken'[a] = dispatched
        /\ notes'[a] = IF dispatched = running[a] THEN notes[a]
                       ELSE IF dispatched = {} THEN "failed" ELSE "partial"
    BY <2>1 DEF TypeOK
  <2>4. notes[a] \notin {"spent", "failed"}
    BY <1>0, <1>1, <1>4 DEF PagingIsSoWhenSaid
  <2>5. QuietUnlessPaging'
    BY <1>0, <1>1, <1>4, <2>2 DEF QuietUnlessPaging
  <2>6. PagingIsSoWhenSaid'
    BY <1>0, <1>1, <1>3, <2>2, <2>3, <2>4 DEF PagingIsSoWhenSaid
  <2> QED BY <1>2, <2>5, <2>6 DEF Said
<1>5. CASE ladders[a].state # "paging"
  <2>1. UNCHANGED <<woken, notes>>
    BY <1>5 DEF FirstPageReturns
  <2> QED BY <1>0, <1>1, <1>2, <1>3, <1>5, <2>1 DEF Said, QuietUnlessPaging, PagingIsSoWhenSaid
<1> QED BY <1>4, <1>5

LEMMA SettleSaid ==
  ASSUME TypeOK, Said, CommandsEndFirst, NEW a \in Attempts, Settle(a) PROVE Said'
<1>1. CASE \E failed \in SUBSET FailingChannels : FirstPageReturns(a, running[a] \ failed)
  BY <1>1, FirstPageSaid
<1>2. CASE RepeatPageFails(a)
  BY <1>2, OpenedSaid DEF RepeatPageFails, CommandsEndFirst
<1>3. CASE ~RepeatPageFails(a) /\
           ~\E failed \in SUBSET FailingChannels : FirstPageReturns(a, running[a] \ failed)
  BY <1>3, SaidStays DEF Settle, FirstSendSettles, SecondSendSettles, SecondSendStarts,
                         SecondSendNeverGoes, RepeatPageWorks, ladderVars
<1> QED BY <1>1, <1>2, <1>3

LEMMA AcknowledgeSaid ==
  ASSUME TypeOK, Said, NEW p \in People, NEW a \in Attempts, Acknowledge(p, a) PROVE Said'
<1> DEFINE c == Canonical(joined, a)
           l == AcknowledgeLadder(ladders[c], p, now)
<1>1. /\ c \in Attempts /\ l \in LadderRecord /\ l.state = "acknowledged"
      /\ ladders' = [ladders EXCEPT ![c] = l]
  BY AcknowledgeFacts
<1>2. /\ notes' = [notes EXCEPT ![c] = "none"] /\ woken' = [woken EXCEPT ![c] = {}]
      /\ UNCHANGED <<joined, running>>
  BY DEF Acknowledge
<1> HIDE DEF c, l
<1>3. /\ ladders'[c] = l /\ notes'[c] = "none" /\ woken'[c] = {}
      /\ \A b \in Attempts \ {c} :
           ladders'[b] = ladders[b] /\ notes'[b] = notes[b] /\ woken'[b] = woken[b]
  BY <1>1, <1>2 DEF TypeOK
<1>4. AliasesKnown'
  BY AcknowledgedAliases DEF Said
<1> QED BY <1>1, <1>2, <1>3, <1>4 DEF Said, QuietUnlessPaging, PagingIsSoWhenSaid

LEMMA WakeOthersSaid ==
  ASSUME TypeOK, Said, NEW p \in People, NEW a \in Attempts, WakeOthers(p, a) PROVE Said'
<1> DEFINE others == RosterAt(now) \ {p}
           woke == others \cap Pushable
           l == StartLadder(PageableNow(RosterAt(now)) # {}, FALSE, now)
<1>0. AliasesKnown /\ QuietUnlessPaging /\ PagingIsSoWhenSaid
  BY DEF Said
<1>1. PICK ended \in SUBSET Attempts, joins \in SUBSET Attempts :
        /\ ended # {} => woke # {}
        /\ ladders' = [b \in Attempts |->
             IF b \in {c \in ended : Starts(ladders, joined, c)} THEN l ELSE ladders[b]]
        /\ joined' = [b \in Attempts |->
             IF b \in joins THEN OpenedJoined(ladders, joined, b)[b] ELSE joined[b]]
        /\ running' = [b \in Attempts |->
             IF b \in {c \in ended : Starts(ladders, joined, c)} THEN woke ELSE running[b]]
  BY WakeFacts
<1>2. l # Absent
  <2> DEFINE r == PageableNow(RosterAt(now)) # {}
  <2>1. now \in Nat /\ r \in BOOLEAN
    BY Assumed DEF TypeOK
  <2> HIDE DEF r
  <2>2. StartLadder(r, FALSE, now) \in LadderRecord
    BY <2>1, StartLadderFacts
  <2> QED BY <2>2, RecordsArePresent DEF r
<1> HIDE DEF woke, l
<1>3. UNCHANGED <<notes, woken>>
  BY DEF WakeOthers
<1>4. AliasesKnown'
  BY <1>0, WokenAliases
<1>5. ASSUME NEW b \in Attempts
      PROVE  \/ ladders'[b] = ladders[b] /\ running'[b] = running[b]
             \/ running'[b] # {} /\ notes[b] = "none" /\ woken[b] = {}
  <2>1. CASE b \in ended /\ Starts(ladders, joined, b)
    <3>1. ladders[b] = Absent
      BY <1>0, <2>1, StartsFromNothing
    <3> QED BY <1>0, <1>1, <2>1, <3>1, RecordsArePresent DEF QuietUnlessPaging
  <2> QED BY <1>1, <2>1
<1>6. QuietUnlessPaging' /\ PagingIsSoWhenSaid'
  BY <1>0, <1>3, <1>5 DEF QuietUnlessPaging, PagingIsSoWhenSaid
<1> QED BY <1>4, <1>6 DEF Said

LEMMA SweepSaid == ASSUME TypeOK, Said, Sweep PROVE Said'
<1>1. /\ running' = running
      /\ notes' = [a \in Attempts |-> IF ladders'[a].state = "paging" THEN notes[a] ELSE "none"]
      /\ woken' = [a \in Attempts |-> IF ladders'[a].state = "paging" THEN woken[a] ELSE {}]
      /\ joined' = ReapedJoined(ladders, joined, now)
  BY DEF Sweep
<1>2. \A a \in Attempts : ladders'[a].state = "paging" => ladders[a].state = "paging"
  BY SweptLadder
<1>3. AliasesKnown'
  BY SweptAliases DEF Said
<1>4. QuietUnlessPaging' /\ PagingIsSoWhenSaid'
  BY <1>1, <1>2 DEF Said, QuietUnlessPaging, PagingIsSoWhenSaid
<1> QED BY <1>3, <1>4 DEF Said

LEMMA SaidIsInductive == ASSUME Core, Said, CommandsEndFirst, [Next]_vars PROVE Said'
<1>1. CASE Tick \/ StepBack \/ UNCHANGED vars
  <2>1. UNCHANGED <<ladders, joined, running, notes, woken>>
    BY <1>1 DEF Tick, StepBack, vars, ladderVars
  <2> QED BY <2>1, SaidStays
<1>2. CASE Restart
  BY <1>2, RecordsArePresent DEF Restart, Each, Said, AliasesKnown, QuietUnlessPaging, PagingIsSoWhenSaid
<1> QED BY <1>1, <1>2, DeliverSaid, SettleSaid, AcknowledgeSaid, WakeOthersSaid, SweepSaid
        DEF Core, Next

\* While a ladder pages, its operator is never told of a page that did not go out, nor that
\* nobody was woken when somebody was, as long as commands end before their ladder is dropped.
THEOREM PagingIsTrue == Spec /\ []CommandsEndFirst => []PagingIsSoWhenSaid
<1>1. Init => Core /\ Said
  <2>1. Init => Said
    BY RecordsArePresent DEF Init, Idle, Each, Said, AliasesKnown, QuietUnlessPaging, PagingIsSoWhenSaid
  <2> QED BY <2>1, InitIsCore
<1>2. Core /\ Said /\ CommandsEndFirst /\ [Next]_vars => (Core /\ Said)'
  BY CoreIsInductive, SaidIsInductive
<1>3. Said => PagingIsSoWhenSaid
  BY DEF Said
<1> QED BY <1>1, <1>2, <1>3, PTL DEF Spec

-----------------------------------------------------------------------------
(* How often one person is paged again.                                    *)

\* No more stamps are kept of anybody than the ceiling allows, and every repeat page that
\* still counts is among them.
Counted ==
  \A p \in People :
    /\ IsFiniteSet(started[p]) /\ Cardinality(started[p]) <= RepageCeiling
    /\ \A o \in Operators : \A pg \in carried[<<o, p>>] :
         pg.at <= now /\ (now - pg.at < RepageCeilingSeconds => pg \in started[p])

LEMMA CarriedPages ==
  ASSUME TypeOK, NEW k \in OperatorPeople, NEW pg \in carried[k]
  PROVE  pg \in Page /\ pg.at \in Nat /\ pg.page \in Attempts
<1>1. pg \in Page
  BY DEF TypeOK
<1> QED BY <1>1 DEF Page

LEMMA RecentStaysCounted ==
  ASSUME TypeOK, Counted, NEW p \in People
  PROVE  /\ IsFiniteSet(RecentlyStarted(p, now))
         /\ Cardinality(RecentlyStarted(p, now)) <= Cardinality(started[p])
         /\ \A o \in Operators : \A pg \in carried[<<o, p>>] :
              now - pg.at < RepageCeilingSeconds => pg \in RecentlyStarted(p, now)
<1>1. RecentlyStarted(p, now) \subseteq started[p]
  BY DEF RecentlyStarted
<1>2. IsFiniteSet(started[p])
  BY DEF Counted
<1>3. ASSUME NEW o \in Operators, NEW pg \in carried[<<o, p>>], now - pg.at < RepageCeilingSeconds
      PROVE  pg \in RecentlyStarted(p, now)
  BY <1>3 DEF Counted, RecentlyStarted
<1> QED BY <1>1, <1>2, <1>3, FS_Subset

\* Stamps that no longer count are dropped, and pages that woke nobody are not counted.
LEMMA CountedStays ==
  ASSUME TypeOK, Counted, now' = now,
         \A p \in People : started'[p] \in {started[p], RecentlyStarted(p, now)},
         \A k \in OperatorPeople : carried'[k] \subseteq carried[k]
  PROVE  Counted'
<1> SUFFICES ASSUME NEW p \in People
             PROVE  /\ IsFiniteSet(started'[p]) /\ Cardinality(started'[p]) <= RepageCeiling
                    /\ \A o \in Operators : \A pg \in carried'[<<o, p>>] :
                         pg.at <= now /\ (now - pg.at < RepageCeilingSeconds => pg \in started'[p])
  BY DEF Counted
<1>1. IsFiniteSet(started[p]) /\ Cardinality(started[p]) <= RepageCeiling
  BY DEF Counted
<1>2. Cardinality(started[p]) \in Nat /\ Cardinality(RecentlyStarted(p, now)) \in Nat
  BY <1>1, RecentStaysCounted, FS_CardinalityType
<1>3. IsFiniteSet(started'[p]) /\ Cardinality(started'[p]) <= RepageCeiling
  BY <1>1, <1>2, RecentStaysCounted, Assumed
<1>4. ASSUME NEW o \in Operators, NEW pg \in carried'[<<o, p>>]
      PROVE  pg.at <= now /\ (now - pg.at < RepageCeilingSeconds => pg \in started'[p])
  <2>1. <<o, p>> \in OperatorPeople
    BY DEF OperatorPeople
  <2>2. pg \in carried[<<o, p>>]
    BY <1>4, <2>1
  <2>3. pg.at <= now /\ (now - pg.at < RepageCeilingSeconds =>
          pg \in started[p] /\ pg \in RecentlyStarted(p, now))
    BY <2>2, RecentStaysCounted DEF Counted
  <2> QED BY <2>3
<1> QED BY <1>3, <1>4

LEMMA RepageCounted ==
  ASSUME TypeOK, Counted, NEW a \in Attempts, AnswerAndRepage(a) PROVE Counted'
<1> DEFINE op == Sender[a]
           q == held[op].by
           pg == [at |-> now, page |-> a]
           kept == RecentlyStarted(q, now)
<1>1. op \in Operators /\ q \in People /\ now \in Nat
  BY AnsweredHold DEF AnswerAndRepage
<1>2. /\ started' = [started EXCEPT ![q] = kept \cup {pg}]
      /\ carried' = [carried EXCEPT ![<<op, q>>] = @ \cup {pg}]
      /\ now' = now /\ ~AtCeiling(q, now)
  BY DEF AnswerAndRepage, clockVars, CannotPage
<1>3. pg.at = now
  OBVIOUS
<1> HIDE DEF pg, q, op
<1>4. IsFiniteSet(kept) /\ Cardinality(kept) \in Nat /\ Cardinality(kept) < RepageCeiling
  <2>1. IsFiniteSet(kept)
    BY <1>1, RecentStaysCounted
  <2>2. Cardinality(kept) \in Nat
    BY <2>1, FS_CardinalityType
  <2> QED BY <1>2, <2>1, <2>2, Assumed DEF AtCeiling
<1>5. IsFiniteSet(kept \cup {pg}) /\ Cardinality(kept \cup {pg}) <= RepageCeiling
  <2>1. /\ IsFiniteSet(kept \cup {pg})
        /\ Cardinality(kept \cup {pg}) \in {Cardinality(kept), Cardinality(kept) + 1}
    BY <1>4, FS_AddElement
  <2> QED BY <1>4, <2>1, Assumed
<1>6. \A o \in Operators : \A x \in carried[<<o, q>>] :
        now - x.at < RepageCeilingSeconds => x \in kept
  BY <1>1, RecentStaysCounted
<1> HIDE DEF kept
<1>7. started'[q] = kept \cup {pg} /\ \A p \in People \ {q} : started'[p] = started[p]
  BY <1>1, <1>2 DEF TypeOK
<1>8. \A p \in People, o \in Operators :
        carried'[<<o, p>>] \subseteq carried[<<o, p>>] \cup (IF p = q THEN {pg} ELSE {})
  BY <1>2 DEF TypeOK, OperatorPeople
<1>9. ASSUME NEW p \in People, NEW o \in Operators, NEW x \in carried'[<<o, p>>]
      PROVE  x.at <= now /\ (now - x.at < RepageCeilingSeconds => x \in started'[p])
  <2>1. CASE x = pg /\ p = q
    BY <1>1, <1>3, <1>7, <2>1
  <2>2. CASE x \in carried[<<o, p>>]
    BY <1>6, <1>7, <2>2 DEF Counted
  <2> QED BY <1>8, <1>9, <2>1, <2>2
<1>10. \A p \in People : IsFiniteSet(started'[p]) /\ Cardinality(started'[p]) <= RepageCeiling
  BY <1>5, <1>7 DEF Counted
<1> QED BY <1>2, <1>9, <1>10 DEF Counted

\* Nothing but a repeat page, the clock or a restart adds to what is remembered of pages.
LEMMA PagesOnlyGo ==
  ASSUME TypeOK, Next, ~\E a \in Attempts : AnswerAndRepage(a), ~Tick, ~StepBack, ~Restart
  PROVE  /\ now' = now
         /\ \A p \in People : started'[p] \in {started[p], RecentlyStarted(p, now)}
         /\ \A k \in OperatorPeople : carried'[k] \subseteq carried[k]
<1>1. ASSUME NEW a \in Attempts, Deliver(a)
      PROVE  /\ now' = now /\ carried' = carried
             /\ \/ started' = started
                \/ started' = [started EXCEPT ![held[Sender[a]].by] =
                                 RecentlyStarted(held[Sender[a]].by, now)]
  BY <1>1 DEF Deliver, OpenOrJoin, AnswerAndWait, AnswerAndWiden, AnswerAndEscalate, clockVars, pageVars
<1>2. ASSUME NEW a \in Attempts, Settle(a)
      PROVE  /\ now' = now /\ started' = started
             /\ \A k \in OperatorPeople : carried'[k] \subseteq carried[k]
  <2>1. CASE RepeatPageFails(a)
    <3>1. /\ now' = now /\ started' = started
          /\ carried' = [carried EXCEPT ![<<Sender[a], repeat[a].by>>] = {pg \in @ : pg.page # a}]
      BY <2>1 DEF RepeatPageFails, clockVars
    <3>2. \A k \in OperatorPeople : carried'[k] \subseteq carried[k]
      BY <3>1 DEF TypeOK
    <3> QED BY <3>1, <3>2
  <2>2. CASE ~RepeatPageFails(a)
    BY <1>2, <2>2 DEF Settle, FirstPageReturns, FirstSendSettles, SecondSendSettles,
                      SecondSendStarts, SecondSendNeverGoes, RepeatPageWorks, clockVars, pageVars
  <2> QED BY <2>1, <2>2
<1>3. ASSUME NEW p \in People, NEW a \in Attempts, Acknowledge(p, a) \/ WakeOthers(p, a)
      PROVE  UNCHANGED <<now, started, carried>>
  BY <1>3 DEF Acknowledge, WakeOthers, clockVars, pageVars
<1>4. CASE Sweep
  BY <1>4 DEF Sweep
<1>5. ASSUME NEW a \in Attempts, Deliver(a), NEW p \in People
      PROVE  started'[p] \in {started[p], RecentlyStarted(p, now)}
  BY <1>1, <1>5 DEF TypeOK
<1> QED BY <1>1, <1>2, <1>3, <1>4, <1>5 DEF Next

LEMMA CountedIsInductive == ASSUME Core, Counted, [Next]_vars PROVE Counted'
<1>0. TypeOK
  BY DEF Core
<1>1. ASSUME NEW a \in Attempts, AnswerAndRepage(a) PROVE Counted'
  BY <1>0, <1>1, RepageCounted
<1>2. CASE Tick
  <2>1. now' = now + 1 /\ UNCHANGED <<started, carried>>
    BY <1>2 DEF Tick, pageVars
  <2>2. ASSUME NEW p \in People, NEW o \in Operators, NEW pg \in carried'[<<o, p>>]
        PROVE  pg.at <= now' /\ (now' - pg.at < RepageCeilingSeconds => pg \in started'[p])
    <3>1. pg \in carried[<<o, p>>] /\ <<o, p>> \in OperatorPeople
      BY <2>1, <2>2 DEF OperatorPeople
    <3>2. pg.at \in Nat /\ now \in Nat /\ RepageCeilingSeconds \in Nat
      BY <1>0, <3>1, CarriedPages, Assumed DEF TypeOK
    <3>3. pg.at <= now /\ (now - pg.at < RepageCeilingSeconds => pg \in started[p])
      BY <3>1 DEF Counted
    <3> QED BY <2>1, <3>2, <3>3
  <2>3. \A p \in People : IsFiniteSet(started'[p]) /\ Cardinality(started'[p]) <= RepageCeiling
    BY <2>1 DEF Counted
  <2> QED BY <2>2, <2>3 DEF Counted
<1>3. CASE StepBack
  BY <1>3 DEF StepBack, Counted, Each, OperatorPeople
<1>4. CASE Restart
  BY <1>4, FS_EmptySet, Assumed DEF Restart, Counted, Each, OperatorPeople
<1>5. CASE Next /\ ~(\E a \in Attempts : AnswerAndRepage(a)) /\ ~Tick /\ ~StepBack /\ ~Restart
  BY <1>0, <1>5, PagesOnlyGo, CountedStays
<1>6. CASE UNCHANGED vars
  BY <1>0, <1>6, CountedStays DEF vars, clockVars, pageVars
<1> QED BY <1>1, <1>2, <1>3, <1>4, <1>5, <1>6

LEMMA CountedBounds == ASSUME TypeOK, Counted PROVE CeilingHolds
<1> SUFFICES ASSUME NEW p \in People
             PROVE  Cardinality({pg \in UNION {carried[<<o, p>>] : o \in Operators} :
                      now - pg.at < RepageCeilingSeconds}) <= RepageCeiling
  BY DEF CeilingHolds
<1> DEFINE S == {pg \in UNION {carried[<<o, p>>] : o \in Operators} :
                   now - pg.at < RepageCeilingSeconds}
<1>1. S \subseteq started[p]
  BY DEF Counted
<1>2. IsFiniteSet(started[p]) /\ Cardinality(started[p]) <= RepageCeiling
  BY DEF Counted
<1> HIDE DEF S
<1>3. Cardinality(S) <= Cardinality(started[p]) /\ Cardinality(S) \in Nat /\ Cardinality(started[p]) \in Nat
  BY <1>1, <1>2, FS_Subset, FS_CardinalityType
<1>4. Cardinality(S) <= RepageCeiling
  BY <1>2, <1>3, Assumed
<1> QED BY <1>4 DEF S

\* However many operators one person holds, and whatever is swept, answered or fails in
\* between, they are paged again no more than REPAGE_CEILING times in an hour.
THEOREM CeilingIsKept == Spec => []CeilingHolds
<1>1. Init => Core /\ Counted
  <2>1. Init => Counted
    BY FS_EmptySet, Assumed DEF Init, Idle, Each, Counted, OperatorPeople
  <2> QED BY <2>1, InitIsCore
<1>2. Core /\ Counted /\ [Next]_vars => (Core /\ Counted)'
  BY CoreIsInductive, CountedIsInductive
<1>3. Core /\ Counted => CeilingHolds
  BY CountedBounds DEF Core
<1> QED BY <1>1, <1>2, <1>3, PTL DEF Spec

-----------------------------------------------------------------------------
(* How soon one person is paged again about one operator.                  *)

\* The last page kept about an operator was an attempt's of this process, and while its
\* commands run it is the page of the person it is kept for.
KnownPages ==
  \A k \in OperatorPeople : repaged[k] # None =>
    /\ repaged[k].page \in seen
    /\ repeat[repaged[k].page] # None => repeat[repaged[k].page].by = k[2]

\* A page inside the interval is remembered, by its own stamp or by a later one; by its own
\* if the stamp is of a page this operator's own attempt started.
Remembered ==
  \A k \in OperatorPeople : \A pg \in carried[k] :
    /\ pg.at <= now
    /\ now - pg.at < RepageWindow =>
         /\ repaged[k] # None /\ pg.at <= repaged[k].at /\ repaged[k].at <= now
         /\ Sender[repaged[k].page] = k[1] => repaged[k] = pg

Spaced == KnownPages /\ Remembered /\ RepageIntervalHolds

\* A page that fails was about one operator alone: it named nobody else who was waiting.
FailsAlone ==
  \A a \in Attempts : RepeatPageFails(a) =>
    \A k \in OperatorPeople : repaged[k] # None /\ repaged[k].page = a => k[1] = Sender[a]

LEMMA WindowFacts ==
  /\ RepageWindow \in Nat
  /\ MaxOf(RepageWindow, AckHoldsSeconds) \in Nat
  /\ RepageWindow <= MaxOf(RepageWindow, AckHoldsSeconds)
BY Assumed DEF RepageWindow, MaxOf

LEMMA RepagedTyped ==
  ASSUME TypeOK, NEW k \in OperatorPeople, repaged[k] # None
  PROVE  repaged[k] \in Page /\ repaged[k].at \in Nat /\ repaged[k].page \in Attempts
<1>1. repaged[k] \in Page
  BY DEF TypeOK
<1> QED BY <1>1 DEF Page

\* Only stamps nothing depends on are dropped.
LEMMA SpacedStays ==
  ASSUME TypeOK, Spaced, now' = now, seen' = seen \/ (\E a \in Attempts : seen' = seen \cup {a}),
         \A k \in OperatorPeople : carried'[k] \subseteq carried[k],
         \A b \in Attempts : repeat'[b] \in {repeat[b], None},
         \A k \in OperatorPeople :
           \/ repaged'[k] = repaged[k]
           \/ repaged'[k] = None /\ \A pg \in carried'[k] : ~(now - pg.at < RepageWindow)
  PROVE  Spaced'
<1>1. KnownPages'
  <2> SUFFICES ASSUME NEW k \in OperatorPeople, repaged'[k] # None
               PROVE  /\ repaged'[k].page \in seen'
                      /\ repeat'[repaged'[k].page] # None => repeat'[repaged'[k].page].by = k[2]
    BY DEF KnownPages
  <2>1. repaged'[k] = repaged[k] /\ repaged[k].page \in Attempts
    BY RepagedTyped
  <2> QED BY <2>1 DEF Spaced, KnownPages
<1>2. Remembered'
  BY DEF Spaced, Remembered
<1>3. RepageIntervalHolds'
  BY DEF Spaced, RepageIntervalHolds
<1> QED BY <1>1, <1>2, <1>3 DEF Spaced

LEMMA RepageSpaced ==
  ASSUME TypeOK, OnlyTheSeen, Spaced, NEW a \in Attempts, AnswerAndRepage(a) PROVE Spaced'
<1> DEFINE op == Sender[a]
           q == held[op].by
           pg == [at |-> now, page |-> a]
           k0 == <<op, q>>
<1>1. op \in Operators /\ q \in People /\ now \in Nat /\ a \notin seen
  BY AnsweredHold DEF AnswerAndRepage, Arrives
<1>2. /\ carried' = [carried EXCEPT ![k0] = @ \cup {pg}]
      /\ repeat' = [repeat EXCEPT ![a] = held[op]]
      /\ now' = now /\ seen' = seen \cup {a} /\ ~WaitsFor(op, q, now)
  BY DEF AnswerAndRepage, Arrives, clockVars
<1>3. PICK ops : op \in ops /\ repaged' = [k \in DOMAIN repaged |->
                   IF k[2] = q /\ k[1] \in ops THEN pg ELSE repaged[k]]
  <2>1. PICK others \in TakenPending(op, q) :
          repaged' = [k \in DOMAIN repaged |->
            IF k[2] = q /\ k[1] \in {Sender[(<<a>> \o others)[i]] : i \in 1..Len(<<a>> \o others)}
            THEN pg ELSE repaged[k]]
    BY DEF AnswerAndRepage
  <2>2. others \in Seq(Attempts)
    <3>1. \A o \in Operators : pending[<<q, o>>] \in seen \cup {NoAttempt}
      BY <1>1 DEF OnlyTheSeen
    <3> QED BY <3>1, TakenPendingFacts DEF OnlyTheSeen, TypeOK
  <2>3. 1 \in 1..Len(<<a>> \o others) /\ (<<a>> \o others)[1] = a
    BY <2>2
  <2>4. op \in {Sender[(<<a>> \o others)[i]] : i \in 1..Len(<<a>> \o others)}
    BY <2>3
  <2> QED BY <2>1, <2>4
<1>4. pg.at = now /\ pg.page = a /\ pg # None /\ pg \in Page
  <2>1. pg \in Page /\ pg.at = now /\ pg.page = a
    BY <1>1 DEF Page
  <2> QED BY <2>1, Assumed
<1>5. k0 \in OperatorPeople /\ k0[1] = op /\ k0[2] = q
  BY <1>1 DEF OperatorPeople
<1>6. \A k \in OperatorPeople : k[1] = op /\ k[2] = q => k = k0
  BY DEF OperatorPeople
<1>7. held[op].by = q
  OBVIOUS
<1> HIDE DEF pg, k0, q
<1>8. /\ carried'[k0] = carried[k0] \cup {pg}
      /\ \A k \in OperatorPeople \ {k0} : carried'[k] = carried[k]
  BY <1>2, <1>5 DEF TypeOK
<1>9. /\ repaged'[k0] = pg
      /\ \A k \in OperatorPeople : \/ repaged'[k] = repaged[k]
                                   \/ repaged'[k] = pg /\ k[2] = q
  BY <1>3, <1>5 DEF TypeOK
<1>10. \A x \in carried[k0] : now - x.at >= RepageWindow /\ x.at <= now
  <2> SUFFICES ASSUME NEW x \in carried[k0] PROVE now - x.at >= RepageWindow /\ x.at <= now
    OBVIOUS
  <2>1. x.at \in Nat /\ x.at <= now
    BY <1>5, CarriedPages DEF Spaced, Remembered
  <2>2. ASSUME now - x.at < RepageWindow PROVE FALSE
    <3>1. repaged[k0] # None /\ x.at <= repaged[k0].at /\ repaged[k0].at <= now
      BY <1>5, <2>2 DEF Spaced, Remembered
    <3>2. repaged[k0].at \in Nat
      BY <1>5, <3>1, RepagedTyped
    <3>3. LastRepage(op, q, now) = repaged[k0]
      BY <3>1, <3>2, <1>1 DEF LastRepage, StandsFor, k0
    <3>4. ~(repaged[k0].at + RepageWindow > now)
      BY <1>2, <3>1, <3>3 DEF WaitsFor
    <3> QED BY <1>1, <2>1, <2>2, <3>1, <3>2, <3>4, WindowFacts
  <2> QED BY <1>1, <2>1, <2>2, WindowFacts
<1>11. KnownPages'
  <2> SUFFICES ASSUME NEW k \in OperatorPeople, repaged'[k] # None
               PROVE  /\ repaged'[k].page \in seen'
                      /\ repeat'[repaged'[k].page] # None => repeat'[repaged'[k].page].by = k[2]
    BY DEF KnownPages
  <2>1. CASE repaged'[k] = pg /\ k[2] = q
    BY <1>2, <1>4, <1>7, <2>1 DEF TypeOK
  <2>2. CASE repaged'[k] = repaged[k]
    <3>1. repaged[k].page \in seen /\ repaged[k].page \in Attempts /\ repaged[k].page # a
      BY <1>1, <2>2, RepagedTyped DEF Spaced, KnownPages
    <3>2. repeat'[repaged[k].page] = repeat[repaged[k].page]
      BY <1>2, <3>1 DEF TypeOK
    <3> QED BY <1>2, <2>2, <3>1, <3>2 DEF Spaced, KnownPages
  <2> QED BY <1>9, <2>1, <2>2
<1>12. Remembered'
  <2> SUFFICES ASSUME NEW k \in OperatorPeople, NEW x \in carried'[k]
               PROVE  /\ x.at <= now
                      /\ now - x.at < RepageWindow =>
                           /\ repaged'[k] # None /\ x.at <= repaged'[k].at /\ repaged'[k].at <= now
                           /\ Sender[repaged'[k].page] = k[1] => repaged'[k] = x
    BY <1>2 DEF Remembered
  <2>1. CASE k = k0 /\ x = pg
    BY <1>1, <1>4, <1>9, <2>1
  <2>2. CASE k = k0 /\ x \in carried[k0]
    <3>1. x.at \in Nat
      BY <1>5, <2>2, CarriedPages
    <3> QED BY <1>1, <1>10, <2>2, <3>1, WindowFacts
  <2>3. CASE k # k0
    <3>1. x \in carried[k] /\ x.at \in Nat
      BY <1>8, <2>3, CarriedPages
    <3>2. CASE repaged'[k] = repaged[k]
      BY <3>1, <3>2 DEF Spaced, Remembered
    <3>3. CASE repaged'[k] = pg /\ k[2] = q
      <4>1. k[1] # op
        BY <1>6, <2>3, <3>3
      <4>2. x.at <= now
        BY <3>1 DEF Spaced, Remembered
      <4> QED BY <1>1, <1>4, <3>1, <3>3, <4>1, <4>2
    <3> QED BY <1>9, <3>2, <3>3
  <2> QED BY <1>8, <2>1, <2>2, <2>3
<1>13. RepageIntervalHolds'
  <2> SUFFICES ASSUME NEW k \in OperatorPeople, NEW x \in carried'[k], NEW y \in carried'[k], x # y
               PROVE  x.at - y.at >= RepageWindow \/ y.at - x.at >= RepageWindow
    BY DEF RepageIntervalHolds
  <2>1. CASE x \in carried[k] /\ y \in carried[k]
    BY <2>1 DEF Spaced, RepageIntervalHolds
  <2>2. CASE k = k0 /\ (x = pg \/ y = pg)
    BY <1>4, <1>8, <1>10, <2>2
  <2> QED BY <1>8, <2>1, <2>2
<1> QED BY <1>11, <1>12, <1>13 DEF Spaced

LEMMA SweepSpaced == ASSUME TypeOK, Spaced, Sweep PROVE Spaced'
<1> DEFINE kept == MaxOf(RepageWindow, AckHoldsSeconds)
<1>1. /\ UNCHANGED <<now, seen, repeat, carried>>
      /\ repaged' = [k \in DOMAIN repaged |->
           IF repaged[k] # None /\ now >= repaged[k].at /\ now - repaged[k].at < kept
           THEN repaged[k] ELSE None]
  BY DEF Sweep
<1>2. kept \in Nat /\ RepageWindow \in Nat /\ RepageWindow <= kept /\ now \in Nat
  BY WindowFacts, Assumed DEF TypeOK
<1> HIDE DEF kept
<1>3. ASSUME NEW k \in OperatorPeople, repaged'[k] # repaged[k],
             NEW pg \in carried[k], now - pg.at < RepageWindow
      PROVE  FALSE
  <2>1. repaged[k] # None /\ pg.at <= repaged[k].at /\ repaged[k].at <= now
    BY <1>3 DEF Spaced, Remembered
  <2>2. pg.at \in Nat /\ repaged[k].at \in Nat
    BY <2>1, CarriedPages, RepagedTyped
  <2>3. now >= repaged[k].at /\ now - repaged[k].at < kept
    BY <1>2, <1>3, <2>1, <2>2
  <2> QED BY <1>1, <1>3, <2>1, <2>3 DEF TypeOK
<1>4. \A k \in OperatorPeople : repaged'[k] \in {repaged[k], None}
  BY <1>1 DEF TypeOK
<1> QED BY <1>1, <1>3, <1>4, SpacedStays

LEMMA FailureSpaced ==
  ASSUME TypeOK, Spaced, FailsAlone, NEW a \in Attempts, RepeatPageFails(a) PROVE Spaced'
<1> DEFINE q == repeat[a].by
           k0 == <<Sender[a], q>>
<1>1. /\ repeat[a] # None /\ repeat' = [repeat EXCEPT ![a] = None] /\ now' = now /\ seen' = seen
      /\ repaged' = [k \in DOMAIN repaged |->
           IF repaged[k] # None /\ repaged[k].page = a THEN None ELSE repaged[k]]
      /\ carried' = [carried EXCEPT ![k0] = {pg \in @ : pg.page # a}]
  BY DEF RepeatPageFails, clockVars
<1>2. \A k \in OperatorPeople : repaged[k] # None /\ repaged[k].page = a => k = k0
  BY <1>1 DEF FailsAlone, Spaced, KnownPages, OperatorPeople
<1>3. k0 \in OperatorPeople /\ k0[1] = Sender[a]
  <2>1. q \in People
    BY <1>1 DEF TypeOK, Hold
  <2> QED BY <2>1, Assumed DEF OperatorPeople
<1> HIDE DEF k0, q
<1>4. /\ \A k \in OperatorPeople : carried'[k] \subseteq carried[k]
      /\ carried'[k0] = {pg \in carried[k0] : pg.page # a}
  BY <1>1, <1>3 DEF TypeOK
<1>5. ASSUME NEW k \in OperatorPeople, repaged'[k] # repaged[k]
      PROVE  repaged'[k] = None /\ \A pg \in carried'[k] : ~(now - pg.at < RepageWindow)
  <2>1. repaged[k] # None /\ repaged[k].page = a /\ repaged'[k] = None
    BY <1>1, <1>5 DEF TypeOK
  <2>2. k = k0
    BY <1>2, <2>1
  <2>3. ASSUME NEW pg \in carried'[k], now - pg.at < RepageWindow PROVE FALSE
    <3>1. pg \in carried[k] /\ pg.page # a
      BY <1>4, <2>2, <2>3
    <3>2. repaged[k] = pg
      BY <1>3, <2>1, <2>2, <2>3, <3>1 DEF Spaced, Remembered
    <3> QED BY <2>1, <3>1, <3>2
  <2> QED BY <2>1, <2>3
<1>6. \A b \in Attempts : repeat'[b] \in {repeat[b], None}
  BY <1>1 DEF TypeOK
<1> QED BY <1>1, <1>4, <1>5, <1>6, SpacedStays

LEMMA TickSpaced == ASSUME TypeOK, Spaced, Tick PROVE Spaced'
<1>1. now' = now + 1 /\ UNCHANGED <<seen, repeat, repaged, carried>>
  BY DEF Tick, pageVars
<1>2. ASSUME NEW k \in OperatorPeople, NEW pg \in carried[k]
      PROVE  /\ pg.at <= now + 1
             /\ (now + 1) - pg.at < RepageWindow =>
                  /\ repaged[k] # None /\ pg.at <= repaged[k].at /\ repaged[k].at <= now + 1
                  /\ Sender[repaged[k].page] = k[1] => repaged[k] = pg
  <2>1. pg.at \in Nat /\ now \in Nat /\ RepageWindow \in Nat
    BY CarriedPages, WindowFacts, Assumed DEF TypeOK
  <2>2. repaged[k] # None => repaged[k].at \in Nat
    BY RepagedTyped
  <2>3. /\ pg.at <= now
        /\ now - pg.at < RepageWindow =>
             /\ repaged[k] # None /\ pg.at <= repaged[k].at /\ repaged[k].at <= now
             /\ Sender[repaged[k].page] = k[1] => repaged[k] = pg
    BY DEF Spaced, Remembered
  <2>4. (now + 1) - pg.at < RepageWindow => now - pg.at < RepageWindow
    BY <2>1
  <2>5. pg.at <= now + 1 /\ (repaged[k] # None /\ repaged[k].at <= now => repaged[k].at <= now + 1)
    BY <2>1, <2>2, <2>3
  <2> QED BY <2>3, <2>4, <2>5
<1>3. Remembered'
  <2> SUFFICES ASSUME NEW k \in OperatorPeople, NEW pg \in carried'[k]
               PROVE  /\ pg.at <= now'
                      /\ now' - pg.at < RepageWindow =>
                           /\ repaged'[k] # None /\ pg.at <= repaged'[k].at /\ repaged'[k].at <= now'
                           /\ Sender[repaged'[k].page] = k[1] => repaged'[k] = pg
    BY DEF Remembered
  <2> DEFINE t == now + 1
             r == repaged[k]
  <2>1. pg \in carried[k] /\ repaged'[k] = r /\ now' = t
    BY <1>1
  <2>2. /\ pg.at <= t
        /\ t - pg.at < RepageWindow =>
             /\ r # None /\ pg.at <= r.at /\ r.at <= t
             /\ Sender[r.page] = k[1] => r = pg
    BY <1>2, <2>1
  <2> HIDE DEF t, r
  <2> QED BY <2>1, <2>2
<1> QED BY <1>1, <1>3 DEF Spaced, KnownPages, RepageIntervalHolds

LEMMA SpacedIsInductive == ASSUME Core, Spaced, [Next]_vars, [FailsAlone]_vars PROVE Spaced'
<1>0. TypeOK /\ OnlyTheSeen
  BY DEF Core
<1>1. CASE UNCHANGED vars
  <2>1. UNCHANGED <<now, seen, repeat, repaged, carried>>
    BY <1>1 DEF vars, clockVars, pageVars
  <2> QED BY <1>0, <2>1, SpacedStays
<1>2. ASSUME NEW a \in Attempts, OpenOrJoin(a) \/ AnswerAndWait(a) \/ AnswerAndWiden(a) \/ AnswerAndEscalate(a)
      PROVE  Spaced'
  <2>1. UNCHANGED <<now, repeat, repaged, carried>> /\ seen' = seen \cup {a}
    BY <1>2 DEF OpenOrJoin, AnswerAndWait, AnswerAndWiden, AnswerAndEscalate, Arrives, clockVars, pageVars
  <2> QED BY <1>0, <2>1, SpacedStays
<1>3. ASSUME NEW a \in Attempts, RepeatPageFails(a), ~UNCHANGED vars PROVE Spaced'
  BY <1>0, <1>3, FailureSpaced
<1>4. ASSUME NEW a \in Attempts, Settle(a), ~RepeatPageFails(a) PROVE Spaced'
  <2>1. UNCHANGED <<now, seen, repaged, carried>>
    BY <1>4 DEF Settle, FirstPageReturns, FirstSendSettles, SecondSendSettles, SecondSendStarts,
                SecondSendNeverGoes, RepeatPageWorks, clockVars, pageVars
  <2>2. repeat' = repeat \/ repeat' = [repeat EXCEPT ![a] = None]
    BY <1>4 DEF Settle, FirstPageReturns, FirstSendSettles, SecondSendSettles, SecondSendStarts,
                SecondSendNeverGoes, RepeatPageWorks, pageVars
  <2>3. \A b \in Attempts : repeat'[b] \in {repeat[b], None}
    BY <1>0, <2>2 DEF TypeOK
  <2> QED BY <1>0, <2>1, <2>3, SpacedStays
<1>5. ASSUME NEW p \in People, NEW a \in Attempts, Acknowledge(p, a) \/ WakeOthers(p, a) PROVE Spaced'
  <2>1. UNCHANGED <<now, seen, repeat, repaged, carried>>
    BY <1>5 DEF Acknowledge, WakeOthers, clockVars, pageVars
  <2> QED BY <1>0, <2>1, SpacedStays
<1>6. CASE StepBack
  <2>1. UNCHANGED <<seen, repeat, repaged>> /\ carried' = Each(OperatorPeople, {})
    BY <1>6 DEF StepBack
  <2> QED BY <2>1 DEF Spaced, KnownPages, Remembered, RepageIntervalHolds, Each
<1>7. CASE Restart
  BY <1>7 DEF Restart, Spaced, KnownPages, Remembered, RepageIntervalHolds, Each
<1> QED BY <1>0, <1>1, <1>2, <1>3, <1>4, <1>5, <1>6, <1>7, RepageSpaced, SweepSpaced, TickSpaced
        DEF Next, Deliver, Settle

\* One person is never paged twice about one operator inside the re-page interval, however
\* acknowledgements, holds and ladders change between, unless a page that also named
\* somebody else fails: that one takes back the stamp of an earlier page that worked.
THEOREM IntervalIsKept == Spec /\ [][FailsAlone]_vars => []RepageIntervalHolds
<1>1. Init => Core /\ Spaced
  <2>1. Init => Spaced
    BY DEF Init, Idle, Each, Spaced, KnownPages, Remembered, RepageIntervalHolds
  <2> QED BY <2>1, InitIsCore
<1>2. Core /\ Spaced /\ [Next]_vars /\ [FailsAlone]_vars => (Core /\ Spaced)'
  BY CoreIsInductive, SpacedIsInductive
<1>3. Spaced => RepageIntervalHolds
  BY DEF Spaced
<1> QED BY <1>1, <1>2, <1>3, PTL DEF Spec

-----------------------------------------------------------------------------
(* What a held acknowledgement tells the operator.                         *)

\* When no widening is stamped ahead of the clock, the seconds the text names are the
\* seconds until an attempt is treated as new.
LEMMA TextIsTrue ==
  ASSUME TypeOK, NEW o \in Operators, HoldSpeaks(o), widened[o] # None => widened[o] <= now
  PROVE  LET said == now + AsNewIn(o, now)
         IN  /\ TreatedAsNew(o, said)
             /\ \A t \in now .. said - 1 : ~TreatedAsNew(o, t)
<1> DEFINE h == held[o]
           p == h.by
           about == LastRepage(o, p, now)
           theirs == LastPersonPage(p, now)
           left == h.at + AckHoldsSeconds - now
           s == AsNewIn(o, now)
<1>1. /\ h # None /\ h \in Hold /\ h.at \in Nat /\ p \in People /\ now \in Nat
      /\ AckHoldsSeconds \in Nat \ {0} /\ RepageWindow \in Nat
      /\ now >= h.at /\ now - h.at < AckHoldsSeconds
  <2>1. h \in Hold
    BY DEF HoldSpeaks, TypeOK
  <2> QED BY <2>1, WindowFacts, Assumed DEF HoldSpeaks, Holding, TypeOK, Hold
<1>2. /\ left \in Nat /\ left # 0
      /\ MaxOf(0, AckHoldsSeconds - MaxOf(0, now - h.at)) = left
  BY <1>1 DEF MaxOf
<1>3. \A t \in Nat : t >= now => (Holding(h, t) <=> t < now + left)
  BY <1>1 DEF Holding
<1>4. CASE about = None \/ ~CanWiden(p, now)
  <2>1. s = left
    BY <1>2, <1>4 DEF AsNewIn
  <2>2. \A t : TreatedAsNew(o, t) <=> ~Holding(h, t)
    BY <1>4 DEF TreatedAsNew
  <2> HIDE DEF s, left, h, p, about, theirs
  <2>3. \A t \in now .. (now + left) - 1 : t \in Nat /\ t >= now /\ t < now + left
    BY <1>1, <1>2
  <2>4. now + left \in Nat /\ now + left >= now /\ ~(now + left < now + left)
    BY <1>1, <1>2
  <2> QED BY <1>3, <2>1, <2>2, <2>3, <2>4 DEF s
<1>5. CASE about # None /\ CanWiden(p, now)
  <2> DEFINE u == MaxOf(about.at, IF theirs = None THEN about.at ELSE theirs.at) + RepageWindow
             v == IF widened[o] = None THEN 0 ELSE widened[o] + AckHoldsSeconds
  <2>1. /\ about.at \in Nat
        /\ theirs # None => theirs.at \in Nat
        /\ theirs # None <=> lastPage[p] # None /\ lastPage[p].at <= now
        /\ theirs # None => theirs = lastPage[p]
    <3>1. lastPage[p] # None => lastPage[p] \in Page /\ lastPage[p].at \in Nat
      BY <1>1 DEF TypeOK, Page
    <3>2. <<o, p>> \in OperatorPeople
      BY <1>1 DEF OperatorPeople
    <3>3. about = repaged[<<o, p>>] /\ repaged[<<o, p>>] # None
      BY <1>5 DEF LastRepage, StandsFor
    <3>4. about.at \in Nat
      BY <3>2, <3>3, RepagedTyped
    <3> QED BY <1>1, <3>1, <3>4 DEF LastPersonPage, StandsFor
  <2>2. widened[o] # None => widened[o] \in Nat /\ widened[o] <= now
    BY Assumed DEF TypeOK
  <2>3. u \in Int /\ v \in Int
    BY <1>1, <2>1, <2>2 DEF MaxOf
  <2>4. /\ \A t \in Nat : t >= now => (WidensIn(o, t) = 0 <=> v <= t)
        /\ WidensIn(o, now) = IF v <= now THEN 0 ELSE v - now
    BY <1>1, <2>2 DEF WidensIn, MaxOf
  <2>5. \A t \in Nat : u <= t <=>
          about.at + RepageWindow <= t /\ (theirs # None => theirs.at + RepageWindow <= t)
    BY <1>1, <2>1 DEF MaxOf
  <2>6. s = IF v <= now THEN MaxOf(0, MinOf(left, u - now))
            ELSE MinOf(left, MaxOf(v - now, u - now))
    <3> DEFINE w == WidensIn(o, now)
               raw == MaxOf(0, AckHoldsSeconds - MaxOf(0, now - h.at))
               next == MaxOf(about.at, IF theirs = None THEN about.at ELSE theirs.at) + RepageWindow - now
    <3>1. s = IF about = None THEN raw
              ELSE IF ~CanWiden(p, now) THEN raw
              ELSE IF w = 0 THEN MaxOf(0, MinOf(raw, next))
              ELSE MinOf(raw, MaxOf(w, next))
      BY DEF AsNewIn
    <3>2. next = u - now
      BY <1>1, <2>1 DEF MaxOf
    <3>3. raw = left
      BY <1>2
    <3> HIDE DEF u, v, s, left, raw, next, about, p
    <3>4. s = IF w = 0 THEN MaxOf(0, MinOf(left, u - now)) ELSE MinOf(left, MaxOf(w, u - now))
      BY <1>5, <3>1, <3>2, <3>3
    <3>5. (v <= now <=> w = 0) /\ (~(v <= now) => w = v - now)
      BY <1>1, <2>3, <2>4
    <3> QED BY <3>4, <3>5
  <2>7. \A t \in Nat : t >= now => (TreatedAsNew(o, t) <=> t >= now + left \/ (u <= t /\ v <= t))
    <3> SUFFICES ASSUME NEW t \in Nat, t >= now
                 PROVE  TreatedAsNew(o, t) <=> t >= now + left \/ (u <= t /\ v <= t)
      OBVIOUS
    <3>1. TreatedAsNew(o, t) <=> \/ ~Holding(h, t)
                                 \/ /\ about.at + RepageWindow <= t
                                    /\ theirs # None => theirs.at + RepageWindow <= t
                                    /\ WidensIn(o, t) = 0
      BY <1>5, <2>1 DEF TreatedAsNew
    <3> HIDE DEF u, v, left, h, p, about, theirs
    <3>2. ~Holding(h, t) <=> t >= now + left
      BY <1>1, <1>2, <1>3
    <3> QED BY <2>4, <2>5, <3>1, <3>2
  <2> HIDE DEF u, v, s, left, h, p, about, theirs
  <2>8. /\ s \in Nat
        /\ s >= left \/ (u <= now + s /\ v <= now + s)
        /\ \A t \in now .. (now + s) - 1 : t < now + left /\ (t < u \/ t < v)
    <3>1. CASE v <= now
      BY <1>1, <1>2, <2>3, <2>6, <3>1 DEF MaxOf, MinOf
    <3>2. CASE ~(v <= now)
      BY <1>1, <1>2, <2>3, <2>6, <3>2 DEF MaxOf, MinOf
    <3> QED BY <3>1, <3>2
  <2>9. TreatedAsNew(o, now + s)
    <3>1. now + s \in Nat /\ now + s >= now /\ (s >= left => now + s >= now + left)
      BY <1>1, <1>2, <2>8
    <3> QED BY <2>7, <2>8, <3>1
  <2>10. ASSUME NEW t \in now .. (now + s) - 1 PROVE ~TreatedAsNew(o, t)
    <3>1. t \in Nat /\ t >= now /\ ~(t >= now + left) /\ ~(u <= t /\ v <= t)
      BY <1>1, <1>2, <2>3, <2>8
    <3> QED BY <2>7, <3>1
  <2> QED BY <2>9, <2>10 DEF s
<1> QED BY <1>4, <1>5

WideningsPast == stepBacks = 0 => \A o \in Operators : widened[o] # None => widened[o] <= now

LEMMA WideningsStayPast ==
  ASSUME Core, WideningsPast, [Next]_vars PROVE WideningsPast'
<1>0. TypeOK /\ stepBacks \in Nat /\ now \in Nat
      /\ \A o \in Operators : widened[o] # None => widened[o] \in Nat
  BY Assumed DEF Core, TypeOK
<1>1. ASSUME NEW a \in Attempts, Deliver(a) PROVE WideningsPast'
  <2>1. /\ UNCHANGED <<now, stepBacks>>
        /\ widened' = widened \/ widened' = [widened EXCEPT ![Sender[a]] = now]
    BY <1>1 DEF Deliver, OpenOrJoin, AnswerAndWait, AnswerAndWiden, AnswerAndEscalate,
                AnswerAndRepage, clockVars, pageVars
  <2>2. \A o \in Operators : widened'[o] \in {widened[o], now}
    BY <1>0, <2>1 DEF TypeOK
  <2> QED BY <1>0, <2>1, <2>2 DEF WideningsPast
<1>2. ASSUME NEW a \in Attempts, Settle(a) PROVE UNCHANGED <<now, stepBacks, widened>>
  BY <1>2 DEF Settle, FirstPageReturns, FirstSendSettles, SecondSendSettles, SecondSendStarts,
              SecondSendNeverGoes, RepeatPageWorks, RepeatPageFails, clockVars, pageVars
<1>3. ASSUME NEW p \in People, NEW a \in Attempts, Acknowledge(p, a) \/ WakeOthers(p, a)
      PROVE  UNCHANGED <<now, stepBacks, widened>>
  BY <1>3 DEF Acknowledge, WakeOthers, clockVars, pageVars
<1>4. CASE Sweep
  BY <1>4 DEF Sweep, WideningsPast
<1>5. CASE Tick
  <2>1. now' = now + 1 /\ UNCHANGED <<stepBacks, widened>>
    BY <1>5 DEF Tick, pageVars
  <2>2. ASSUME NEW o \in Operators, widened[o] # None, widened[o] <= now PROVE widened[o] <= now + 1
    BY <1>0, <2>2
  <2> QED BY <2>1, <2>2 DEF WideningsPast
<1>6. CASE StepBack
  BY <1>0, <1>6 DEF StepBack, WideningsPast
<1>7. CASE Restart
  BY <1>7 DEF Restart, Each, WideningsPast
<1>8. UNCHANGED <<now, stepBacks, widened>> => WideningsPast'
  BY DEF WideningsPast
<1>9. CASE UNCHANGED vars
  BY <1>8, <1>9 DEF vars, clockVars, pageVars
<1> QED BY <1>1, <1>2, <1>3, <1>4, <1>5, <1>6, <1>7, <1>8, <1>9 DEF Next

\* Unless the clock has been corrected backwards, what an operator is told of a hold is so:
\* at the second the text names an attempt is treated as new, and none sooner.
THEOREM HeldTextHolds == Spec => [](stepBacks = 0 => HeldTextIsTrue)
<1>1. Init => Core /\ WideningsPast
  <2>1. Init => WideningsPast
    BY DEF Init, Idle, Each, WideningsPast
  <2> QED BY <2>1, InitIsCore
<1>2. Core /\ WideningsPast /\ [Next]_vars => (Core /\ WideningsPast)'
  BY CoreIsInductive, WideningsStayPast
<1>3. Core /\ WideningsPast => (stepBacks = 0 => HeldTextIsTrue)
  BY TextIsTrue DEF Core, WideningsPast, HeldTextIsTrue
<1> QED BY <1>1, <1>2, <1>3, PTL DEF Spec


-----------------------------------------------------------------------------
(* A hold widens, or changes nothing.                                      *)

\* A hold is not stamped ahead of the clock, and one made at this second stands on the
\* ladder it answered.
Fresh(h) ==
  /\ h.at <= now
  /\ h.at = now => ladders[h.ladder].state = "acknowledged" /\ ladders[h.ladder].since = now
HoldsAreFresh ==
  /\ \A o \in Operators : held[o] # None => Fresh(held[o])
  /\ \A a \in Attempts : heldAttempt[a] # None => Fresh(heldAttempt[a])

\* An attempt answered from the hold that still stands has opened no ladder.
UnopenedWhileHeld ==
  \A a \in Attempts : heldAttempt[a] # None /\ held[Sender[a]] = heldAttempt[a] => ladders[a] = Absent

\* A repeat page goes out under the hold its attempt was answered from.
RepeatIsAnswered ==
  \A a \in Attempts : repeat[a] # None /\ heldAttempt[a] # None => repeat[a] = heldAttempt[a]

Held == AliasesKnown /\ HoldsAreFresh /\ UnopenedWhileHeld /\ RepeatIsAnswered

\* Holds end, attempts are answered from the ones that stand, and what was acknowledged at
\* this second stays so.
LEMMA FreshStays ==
  ASSUME TypeOK, HoldsAreFresh, now' = now,
         \A o \in Operators : held'[o] \in {held[o], None},
         \A a \in Attempts : heldAttempt'[a] \in {heldAttempt[a], None, held[Sender[a]]},
         \A a \in Attempts : ladders[a].state = "acknowledged" /\ ladders[a].since = now =>
           ladders'[a] = ladders[a]
  PROVE  HoldsAreFresh'
<1>1. \A h \in Hold : Fresh(h) =>
        /\ h.at <= now'
        /\ h.at = now' => ladders'[h.ladder].state = "acknowledged" /\ ladders'[h.ladder].since = now'
  BY DEF Fresh, Hold
<1>2. /\ \A o \in Operators : held[o] # None => held[o] \in Hold
      /\ \A a \in Attempts : heldAttempt[a] # None => heldAttempt[a] \in Hold
      /\ \A a \in Attempts : Sender[a] \in Operators
  BY Assumed DEF TypeOK
<1>3. ASSUME NEW o \in Operators, held'[o] # None PROVE Fresh(held[o])'
  BY <1>1, <1>2, <1>3 DEF HoldsAreFresh, Fresh
<1>4. ASSUME NEW a \in Attempts, heldAttempt'[a] # None PROVE Fresh(heldAttempt[a])'
  BY <1>1, <1>2, <1>4 DEF HoldsAreFresh, Fresh
<1> QED BY <1>3, <1>4 DEF HoldsAreFresh

\* What opens a ladder for an attempt ends the hold it was answered from.
LEMMA UnopenedStays ==
  ASSUME TypeOK, UnopenedWhileHeld,
         \A o \in Operators : held'[o] \in {held[o], None},
         \A a \in Attempts : \/ heldAttempt'[a] \in {heldAttempt[a], None}
                             \/ ladders'[a] = Absent
                             \/ held'[Sender[a]] = None,
         \A a \in Attempts : ladders[a] = Absent =>
           \/ ladders'[a] = Absent
           \/ held'[Sender[a]] = None
           \/ held'[Sender[a]] # heldAttempt'[a]
  PROVE  UnopenedWhileHeld'
<1> SUFFICES ASSUME NEW a \in Attempts, heldAttempt'[a] # None, held'[Sender[a]] = heldAttempt'[a],
                    ladders'[a] # Absent
             PROVE  FALSE
  BY DEF UnopenedWhileHeld
<1>1. Sender[a] \in Operators
  BY Assumed
<1>2. held'[Sender[a]] = held[Sender[a]] /\ heldAttempt'[a] = heldAttempt[a]
  BY <1>1
<1> QED BY <1>2 DEF UnopenedWhileHeld

\* Opening a ladder leaves an acknowledged one alone.
LEMMA OpenedKeepsAcknowledged ==
  ASSUME TypeOK, AliasesKnown, NEW a \in Attempts, NEW charged \in BOOLEAN, OpenLadder(a, charged),
         NEW b \in Attempts, ladders[b].state = "acknowledged"
  PROVE  ladders'[b] = ladders[b]
<1>1. CASE b # a
  BY <1>1, OpenLadderElsewhere
<1>2. CASE b = a
  <2>1. ~Starts(ladders, joined, a)
    BY <1>2, StartsFromNothing DEF Absent
  <2> QED BY <2>1 DEF OpenLadder, OpenedLadders
<1> QED BY <1>1, <1>2

LEMMA DeliverHeld ==
  ASSUME Core, TheirOwn, Held, NEW a \in Attempts, Deliver(a) PROVE Held'
<1> DEFINE op == Sender[a]
           h == held[op]
<1>0. TypeOK /\ AliasesKnown /\ HoldsAreFresh /\ UnopenedWhileHeld /\ RepeatIsAnswered
  BY DEF Core, Held
<1>1. op \in Operators /\ ladders[a] = Absent /\ heldAttempt[a] = None /\ repeat[a] = None
  <2>1. a \notin seen
    BY DEF Deliver, OpenOrJoin, AnswerAndWait, AnswerAndWiden, AnswerAndEscalate, AnswerAndRepage,
           Arrives
  <2> QED BY <2>1, Assumed DEF Core, OnlyTheSeen, Untouched
<1>2. AliasesKnown'
  <2>1. Next
    BY DEF Next
  <2> QED BY <1>0, <2>1, AliasesAreInductive
<1>3. now' = now
  BY DEF Deliver, OpenOrJoin, AnswerAndWait, AnswerAndWiden, AnswerAndEscalate, AnswerAndRepage,
         clockVars
<1>4. CASE OpenOrJoin(a)
  <2>1. /\ OpenLadder(a, FALSE) /\ UNCHANGED <<heldAttempt, repeat>>
        /\ \A o \in Operators : held'[o] \in {held[o], None}
    BY <1>0, <1>4 DEF OpenOrJoin, pageVars, TypeOK
  <2>2. HoldsAreFresh'
    BY <1>0, <1>3, <2>1, OpenedKeepsAcknowledged, FreshStays
  <2>3. \A b \in Attempts \ {a} : ladders'[b] = ladders[b]
    BY <1>0, <2>1, OpenLadderElsewhere
  <2>4. UnopenedWhileHeld'
    BY <1>0, <1>1, <2>1, <2>3, UnopenedStays
  <2> QED BY <1>0, <1>2, <2>1, <2>2, <2>4 DEF Held, RepeatIsAnswered
<1>5. CASE AnswerAndWait(a) \/ AnswerAndRepage(a)
  <2>1. /\ UNCHANGED <<ladders, held>> /\ heldAttempt' = [heldAttempt EXCEPT ![a] = h]
        /\ repeat' = repeat \/ repeat' = [repeat EXCEPT ![a] = h]
    BY <1>5 DEF AnswerAndWait, AnswerAndRepage, ladderVars
  <2> HIDE DEF h
  <2>2. \A b \in Attempts : heldAttempt'[b] = IF b = a THEN h ELSE heldAttempt[b]
    BY <1>0, <2>1 DEF TypeOK
  <2>3. HoldsAreFresh'
    BY <1>0, <1>3, <2>1, <2>2, FreshStays DEF h
  <2>4. UnopenedWhileHeld'
    BY <1>0, <1>1, <2>1, <2>2, UnopenedStays
  <2>5. RepeatIsAnswered'
    BY <1>0, <1>1, <2>1, <2>2 DEF RepeatIsAnswered, TypeOK
  <2> QED BY <1>2, <2>3, <2>4, <2>5 DEF Held
<1>6. CASE AnswerAndWiden(a) \/ AnswerAndEscalate(a)
  <2>1. /\ EndHold(h) /\ repeat' = repeat /\ heldAttempt' = [heldAttempt EXCEPT ![a] = h]
        /\ h # None /\ (OpenLadder(a, TRUE) \/ OpenLadder(a, FALSE))
    BY <1>6 DEF AnswerAndWiden, AnswerAndEscalate, AnsweredFromHold
  <2>2. held' = [held EXCEPT ![op] = None]
    BY <1>1, <2>1 DEF EndHold, TheirOwn
  <2>3. \A b \in Attempts : ladders[b].state = "acknowledged" => ladders'[b] = ladders[b]
    BY <1>0, <2>1, OpenedKeepsAcknowledged
  <2>4. \A b \in Attempts \ {a} : ladders'[b] = ladders[b]
    BY <1>0, <2>1, OpenLadderElsewhere
  <2> HIDE DEF h
  <2>5. /\ \A b \in Attempts : heldAttempt'[b] = IF b = a THEN h ELSE heldAttempt[b]
        /\ \A o \in Operators : held'[o] = IF o = op THEN None ELSE held[o]
    BY <1>0, <1>1, <2>1, <2>2 DEF TypeOK
  <2>6. HoldsAreFresh'
    BY <1>0, <1>3, <2>3, <2>5, FreshStays DEF h
  <2>7. UnopenedWhileHeld'
    BY <1>0, <1>1, <2>4, <2>5, UnopenedStays
  <2>8. RepeatIsAnswered'
    BY <1>0, <1>1, <2>1, <2>5 DEF RepeatIsAnswered
  <2> QED BY <1>2, <2>6, <2>7, <2>8 DEF Held
<1> QED BY <1>4, <1>5, <1>6 DEF Deliver

LEMMA SettleHeld ==
  ASSUME Core, TheirOwn, Held, NEW a \in Attempts, Settle(a) PROVE Held'
<1>0. TypeOK /\ AliasesKnown /\ HoldsAreFresh /\ UnopenedWhileHeld /\ RepeatIsAnswered
  BY DEF Core, Held
<1>1. AliasesKnown'
  <2>1. Next
    BY DEF Next
  <2> QED BY <1>0, <2>1, AliasesAreInductive
<1>2. \A o \in Operators : held'[o] \in {held[o], None}
  BY <1>0, SettleHolds
<1>3. /\ now' = now /\ heldAttempt' = heldAttempt
      /\ repeat' = repeat \/ repeat' = [repeat EXCEPT ![a] = None]
  BY DEF Settle, FirstPageReturns, FirstSendSettles, SecondSendSettles, SecondSendStarts,
         SecondSendNeverGoes, RepeatPageWorks, RepeatPageFails, pageVars, clockVars
<1>4. RepeatIsAnswered'
  BY <1>0, <1>3 DEF RepeatIsAnswered, TypeOK
<1>5. CASE ~RepeatPageFails(a)
  <2>1. ladders' = ladders
    BY <1>5 DEF Settle, FirstPageReturns, FirstSendSettles, SecondSendSettles, SecondSendStarts,
                SecondSendNeverGoes, RepeatPageWorks, ladderVars
  <2>2. HoldsAreFresh' /\ UnopenedWhileHeld'
    BY <1>0, <1>2, <1>3, <2>1, FreshStays, UnopenedStays
  <2> QED BY <1>1, <1>4, <2>2 DEF Held
<1>6. CASE RepeatPageFails(a)
  <2> DEFINE h == repeat[a]
  <2>1. /\ OpenLadder(a, FALSE) /\ EndHold(h) /\ h # None
    BY <1>6 DEF RepeatPageFails
  <2>2. \A b \in Attempts : ladders[b].state = "acknowledged" => ladders'[b] = ladders[b]
    BY <1>0, <2>1, OpenedKeepsAcknowledged
  <2>3. \A b \in Attempts \ {a} : ladders'[b] = ladders[b]
    BY <1>0, <2>1, OpenLadderElsewhere
  <2>4. held'[Sender[a]] = None \/ held'[Sender[a]] # h
    <3>1. Sender[h.ladder] = Sender[a] /\ Sender[a] \in Operators
      BY <2>1, Assumed DEF TheirOwn
    <3> QED BY <1>0, <2>1, <3>1 DEF EndHold, TypeOK
  <2>5. held'[Sender[a]] = None \/ held'[Sender[a]] # heldAttempt'[a]
    BY <1>0, <1>3, <2>1, <2>4 DEF RepeatIsAnswered
  <2> HIDE DEF h
  <2>6. HoldsAreFresh'
    BY <1>0, <1>2, <1>3, <2>2, FreshStays
  <2>7. UnopenedWhileHeld'
    BY <1>0, <1>2, <1>3, <2>3, <2>5, UnopenedStays
  <2> QED BY <1>1, <1>4, <2>6, <2>7 DEF Held
<1> QED BY <1>5, <1>6

\* A new acknowledgement is none of the holds anything was answered from: those made at this
\* second are on ladders that are acknowledged already.
LEMMA AcknowledgeHeld ==
  ASSUME Core, TheirOwn, Held, NEW p \in People, NEW a \in Attempts, Acknowledge(p, a)
  PROVE  Held'
<1> DEFINE c == Canonical(joined, a)
           l == AcknowledgeLadder(ladders[c], p, now)
           g == [ladder |-> c, by |-> p, at |-> now]
<1>0. TypeOK /\ AliasesKnown /\ HoldsAreFresh /\ UnopenedWhileHeld /\ RepeatIsAnswered
  BY DEF Core, Held
<1>1. /\ c \in Attempts /\ ladders[c] \in LadderRecord /\ l \in LadderRecord
      /\ ladders' = [ladders EXCEPT ![c] = l] /\ l.state = "acknowledged"
  BY <1>0, AcknowledgeFacts
<1>2. /\ held' = [held EXCEPT ![Sender[c]] = g] /\ l # ladders[c]
      /\ UNCHANGED <<now, heldAttempt, repeat>>
  BY DEF Acknowledge, pageVars, clockVars
<1>3. ladders[c].state # "acknowledged" /\ l.since = now
  BY <1>1, <1>2 DEF AcknowledgeLadder, LadderRecord
<1>4. g.ladder = c /\ g.at = now /\ g # None /\ now \in Nat
  <2>1. g \in Hold /\ now \in Nat
    BY <1>0, <1>1, Assumed DEF Hold, TypeOK
  <2> QED BY <2>1, Assumed
<1>5. AliasesKnown'
  BY <1>0, AcknowledgedAliases
<1> HIDE DEF c, l, g
<1>6. HoldsAreFresh'
  <2>1. \A h \in Hold : Fresh(h) =>
          /\ h.at <= now'
          /\ h.at = now' => ladders'[h.ladder].state = "acknowledged" /\ ladders'[h.ladder].since = now'
    BY <1>0, <1>1, <1>2, <1>3 DEF Fresh, Hold, TypeOK
  <2>2. ASSUME NEW o \in Operators, held'[o] # None PROVE Fresh(held[o])'
    <3>1. CASE held'[o] = g
      BY <1>0, <1>1, <1>2, <1>3, <1>4, <3>1 DEF Fresh, TypeOK
    <3>2. CASE held'[o] # g
      <4>1. held'[o] = held[o] /\ held[o] \in Hold
        BY <1>0, <1>2, <2>2, <3>2 DEF TypeOK
      <4> QED BY <1>0, <2>1, <2>2, <4>1 DEF HoldsAreFresh, Fresh
    <3> QED BY <3>1, <3>2
  <2>3. ASSUME NEW b \in Attempts, heldAttempt'[b] # None PROVE Fresh(heldAttempt[b])'
    <3>1. heldAttempt'[b] = heldAttempt[b] /\ heldAttempt[b] \in Hold
      BY <1>0, <1>2, <2>3 DEF TypeOK
    <3> QED BY <1>0, <2>1, <2>3, <3>1 DEF HoldsAreFresh, Fresh
  <2> QED BY <2>2, <2>3 DEF HoldsAreFresh
<1>7. UnopenedWhileHeld'
  <2> SUFFICES ASSUME NEW b \in Attempts, heldAttempt'[b] # None, held'[Sender[b]] = heldAttempt'[b]
               PROVE  ladders'[b] = Absent
    BY DEF UnopenedWhileHeld
  <2>1. heldAttempt[b] # g
    BY <1>0, <1>2, <1>3, <1>4 DEF HoldsAreFresh, Fresh
  <2>2. held'[Sender[b]] = held[Sender[b]]
    BY <1>0, <1>2, <2>1, Assumed DEF TypeOK
  <2>3. ladders[b] = Absent
    BY <1>0, <1>2, <2>2 DEF UnopenedWhileHeld
  <2>4. b # c
    BY <1>1, <2>3, RecordsArePresent
  <2> QED BY <1>0, <1>1, <2>3, <2>4 DEF TypeOK
<1> QED BY <1>0, <1>2, <1>5, <1>6, <1>7 DEF Held, RepeatIsAnswered

\* A wake ends every hold it opens a ladder behind.
LEMMA WakeHeld ==
  ASSUME Core, TheirOwn, Held, NEW p \in People, NEW a \in Attempts, WakeOthers(p, a)
  PROVE  Held'
<1> DEFINE l == StartLadder(PageableNow(RosterAt(now)) # {}, FALSE, now)
           woke == (RosterAt(now) \ {p}) \cap Pushable
<1>0. TypeOK /\ AliasesKnown /\ HoldsAreFresh /\ UnopenedWhileHeld /\ RepeatIsAnswered
  BY DEF Core, Held
<1>1. PICK ended \in SUBSET Attempts :
        /\ held' = [o \in Operators |-> IF \E b \in ended : Sender[b] = o THEN None ELSE held[o]]
        /\ ladders' = [b \in Attempts |->
             IF b \in {c \in ended : Starts(ladders, joined, c)} THEN l ELSE ladders[b]]
        /\ running' = [b \in Attempts |->
             IF b \in {c \in ended : Starts(ladders, joined, c)} THEN woke ELSE running[b]]
  BY <1>0, WakeFacts
<1>2. UNCHANGED <<now, heldAttempt, repeat>>
  BY DEF WakeOthers, clockVars
<1>3. AliasesKnown'
  BY <1>0, WokenAliases
<1> HIDE DEF l, woke
<1>4. \A o \in Operators : held'[o] \in {held[o], None}
  BY <1>1
<1>5. \A b \in Attempts : ladders[b].state = "acknowledged" => ladders'[b] = ladders[b]
  BY <1>0, <1>1, StartsFromNothing DEF Absent
<1>6. \A b \in Attempts : ladders'[b] = ladders[b] \/ held'[Sender[b]] = None
  BY <1>1, Assumed
<1>7. HoldsAreFresh'
  BY <1>0, <1>2, <1>4, <1>5, FreshStays
<1>8. UnopenedWhileHeld'
  BY <1>0, <1>2, <1>4, <1>6, UnopenedStays
<1> QED BY <1>0, <1>2, <1>3, <1>7, <1>8 DEF Held, RepeatIsAnswered

LEMMA SweepHeld == ASSUME Core, TheirOwn, Held, Sweep PROVE Held'
<1>0. TypeOK /\ AliasesKnown /\ HoldsAreFresh /\ UnopenedWhileHeld /\ RepeatIsAnswered
  BY DEF Core, Held
<1>1. /\ UNCHANGED <<now, repeat>>
      /\ \A o \in Operators : held'[o] \in {held[o], None}
      /\ \A b \in Attempts : heldAttempt'[b] \in {heldAttempt[b], None}
  BY DEF Sweep
<1>2. ASSUME NEW b \in Attempts, ladders[b].state = "acknowledged", ladders[b].since = now
      PROVE  ladders'[b] = ladders[b]
  <2>1. now \in Nat /\ RetentionSeconds \in Nat \ {0}
    BY <1>0, Assumed DEF TypeOK
  <2>2. ~Reapable(ladders[b], now) /\ ~IsLive(ladders[b])
    BY <1>2, <2>1 DEF Reapable, IsLive, LiveStates
  <2> QED BY <2>2 DEF Sweep, TickedAll, Reaped, AdvanceLadder
<1>3. HoldsAreFresh'
  BY <1>0, <1>1, <1>2, FreshStays
<1>4. UnopenedWhileHeld'
  BY <1>0, <1>1, SweptLadder, UnopenedStays
<1> QED BY <1>0, <1>1, <1>3, <1>4, SweptAliases DEF Held, RepeatIsAnswered

\* While the clock has not been corrected backwards, every action keeps what holds rest on.
LEMMA HeldIsInductive ==
  ASSUME Core, TheirOwn, Held, stepBacks = 0, stepBacks' = 0, [Next]_vars PROVE Held'
<1>0. TypeOK /\ AliasesKnown /\ HoldsAreFresh /\ UnopenedWhileHeld /\ RepeatIsAnswered
  BY DEF Core, Held
<1>1. CASE Tick
  <2>1. /\ now' = now + 1 /\ UNCHANGED <<held, heldAttempt, ladders, joined, repeat>>
    BY <1>1 DEF Tick, ladderVars, pageVars
  <2>2. now \in Nat /\ \A h \in Hold : h.at \in Nat
    BY <1>0, Assumed DEF TypeOK, Hold
  <2>3. \A h \in Hold : Fresh(h) => h.at < now'
    BY <2>1, <2>2 DEF Fresh
  <2>4. \A h \in Hold : h.at < now' => h.at <= now' /\ h.at # now'
    BY <2>1, <2>2
  <2>5. HoldsAreFresh'
    BY <1>0, <2>1, <2>3, <2>4 DEF HoldsAreFresh, Fresh, TypeOK
  <2> QED BY <1>0, <2>1, <2>5 DEF Held, AliasesKnown, UnopenedWhileHeld, RepeatIsAnswered
<1>2. CASE StepBack
  BY <1>2 DEF StepBack
<1>3. CASE Restart
  BY <1>3 DEF Restart, Each, Held, AliasesKnown, HoldsAreFresh, UnopenedWhileHeld, RepeatIsAnswered
<1>4. CASE UNCHANGED vars
  BY <1>0, <1>4 DEF vars, clockVars, ladderVars, pageVars, Held, AliasesKnown, HoldsAreFresh, Fresh,
              UnopenedWhileHeld, RepeatIsAnswered
<1> QED BY <1>1, <1>2, <1>3, <1>4, DeliverHeld, SettleHeld, AcknowledgeHeld, WakeHeld, SweepHeld
        DEF Next

\* A hold that stands gives way to a page of the roster, to a person out of reach, to two
\* sends that reached nobody, or to a ladder its attempt joined before.
LEMMA GivesWayTo ==
  ASSUME Core, TheirOwn, Held, Next, NEW o \in Operators, GivesWay(o)
  PROVE  \/ RosterPaged(o) \/ HolderUnreachable(held[o]) \/ OperatorUntold(held[o])
         \/ AlreadyJoined(o)
<1>0. /\ TypeOK /\ AliasesKnown /\ UnopenedWhileHeld
      /\ held[o] # None /\ Holding(held[o], now) /\ held'[o] = None /\ restarts' = restarts
  BY DEF Core, Held, GivesWay
<1>1. ASSUME NEW a \in Attempts, OpenOrJoin(a) PROVE FALSE
  BY <1>0, <1>1 DEF OpenOrJoin, TypeOK
<1>2. ASSUME NEW a \in Attempts, AnswerAndWait(a) \/ AnswerAndRepage(a) PROVE FALSE
  BY <1>0, <1>2 DEF AnswerAndWait, AnswerAndRepage
<1>3. ASSUME NEW a \in Attempts, AnswerAndWiden(a) \/ AnswerAndEscalate(a)
      PROVE  o = Sender[a]
  <2>1. EndHold(held[Sender[a]]) /\ held[Sender[a]] # None /\ Sender[a] \in Operators
    BY <1>3, Assumed DEF AnswerAndWiden, AnswerAndEscalate, AnsweredFromHold
  <2>2. Sender[held[Sender[a]].ladder] = Sender[a]
    BY <2>1 DEF TheirOwn
  <2> QED BY <1>0, <2>1, <2>2 DEF EndHold, TypeOK
<1>4. ASSUME NEW a \in Attempts, AnswerAndWiden(a) PROVE RosterPaged(o)
  <2> DEFINE l == StartLadder(PageableNow(RosterAt(now)) # {}, FALSE, now)
             woke == RosterAt(now) \cap Pushable
  <2>1. o = Sender[a]
    BY <1>3, <1>4
  <2>2. ladders[a] = Absent /\ joined[a] = NoAttempt
    BY <1>4 DEF AnswerAndWiden, Arrives, Core, OnlyTheSeen, Untouched
  <2>3. Starts(ladders, joined, a)
    BY <1>4, <2>2 DEF AnswerAndWiden, AnsweredFromHold, NoLiveLadder, Starts, Known, Canonical
  <2>4. woke # {}
    BY <1>4 DEF AnswerAndWiden, SilenceWidens, OthersPageable, PageableNow
  <2>5. l.state = "paging"
    BY <1>0, <2>4, OpeningFacts
  <2>6. ladders' = [ladders EXCEPT ![a] = l] /\ running' = [running EXCEPT ![a] = woke]
    BY <1>4, <2>3, <2>5 DEF AnswerAndWiden, OpenLadder, OpenedLadders
  <2> HIDE DEF l, woke
  <2>7. IsLive(ladders'[a]) /\ running'[a] # {}
    BY <1>0, <2>4, <2>5, <2>6 DEF IsLive, LiveStates, TypeOK
  <2> QED BY <2>1, <2>7 DEF RosterPaged
<1>5. ASSUME NEW a \in Attempts, AnswerAndEscalate(a) PROVE HolderUnreachable(held[o])
  <2>1. o = Sender[a]
    BY <1>3, <1>5
  <2> QED BY <1>5, <2>1 DEF AnswerAndEscalate, HolderUnreachable
<1>6. ASSUME NEW a \in Attempts, Settle(a)
      PROVE  HolderUnreachable(held[o]) \/ OperatorUntold(held[o])
  <2>1. ASSUME NEW took \in BOOLEAN, SecondSendSettles(a, took) PROVE OperatorUntold(held[o])
    <3>1. /\ ~took /\ ~resend[a].taken /\ ~resend[a].reached /\ resend[a] # None
          /\ held[Sender[a]] = resend[a].hold /\ o = Sender[a]
      BY <1>0, <2>1 DEF SecondSendSettles, TypeOK
    <3>2. resend'[a] = None
      BY <1>0, <2>1, <3>1 DEF SecondSendSettles, TypeOK
    <3> QED BY <3>1, <3>2 DEF OperatorUntold
  <2>2. CASE RepeatPageFails(a)
    <3>1. EndHold(repeat[a]) /\ repeat[a] # None /\ repeat' = [repeat EXCEPT ![a] = None]
      BY <2>2 DEF RepeatPageFails
    <3>2. held[o] = repeat[a]
      BY <1>0, <3>1 DEF EndHold, TypeOK
    <3>3. repeat'[a] = None
      BY <1>0, <3>1 DEF TypeOK
    <3> QED BY <3>1, <3>2, <3>3 DEF HolderUnreachable
  <2>3. CASE \/ \E failed \in SUBSET FailingChannels : FirstPageReturns(a, running[a] \ failed)
             \/ SecondSendStarts(a) \/ SecondSendNeverGoes(a) \/ RepeatPageWorks(a)
             \/ \E took \in SendOutcomes : FirstSendSettles(a, took)
    BY <1>0, <2>3 DEF FirstPageReturns, SecondSendStarts, SecondSendNeverGoes, RepeatPageWorks,
                      FirstSendSettles
  <2> QED BY <1>6, <2>1, <2>2, <2>3, ExecutorAssumption DEF Settle
<1>7. ASSUME NEW p \in People, NEW a \in Attempts, Acknowledge(p, a) PROVE FALSE
  <2> DEFINE c == Canonical(joined, a)
             g == [ladder |-> c, by |-> p, at |-> now]
  <2>1. held' = [held EXCEPT ![Sender[c]] = g]
    BY <1>7 DEF Acknowledge
  <2>2. g # None
    <3>1. c \in Attempts /\ now \in Nat
      BY <1>0, Assumed DEF Canonical, TypeOK
    <3> QED BY <3>1, Assumed DEF Hold
  <2> HIDE DEF g
  <2> QED BY <1>0, <2>1, <2>2 DEF TypeOK
<1>8. ASSUME NEW p \in People, NEW a \in Attempts, WakeOthers(p, a)
      PROVE  RosterPaged(o) \/ AlreadyJoined(o)
  <2> DEFINE l == StartLadder(PageableNow(RosterAt(now)) # {}, FALSE, now)
             woke == (RosterAt(now) \ {p}) \cap Pushable
  <2>1. PICK ended \in SUBSET Attempts :
          /\ \A b \in ended : Standing(b, now) /\ NoLiveLadder(Sender[b])
          /\ ended # {} => woke # {}
          /\ held' = [x \in Operators |-> IF \E b \in ended : Sender[b] = x THEN None ELSE held[x]]
          /\ ladders' = [b \in Attempts |->
               IF b \in {c \in ended : Starts(ladders, joined, c)} THEN l ELSE ladders[b]]
          /\ running' = [b \in Attempts |->
               IF b \in {c \in ended : Starts(ladders, joined, c)} THEN woke ELSE running[b]]
    BY <1>0, <1>8, WakeFacts
  <2>2. woke # {} => l.state = "paging"
    BY <1>0, OpeningFacts
  <2> HIDE DEF l, woke
  <2>3. PICK b \in ended : Sender[b] = o
    BY <1>0, <2>1
  <2>4. CASE Starts(ladders, joined, b)
    <3>1. IsLive(ladders'[b]) /\ running'[b] # {}
      BY <2>1, <2>2, <2>3, <2>4 DEF IsLive, LiveStates
    <3> QED BY <2>3, <3>1 DEF RosterPaged
  <2>5. CASE ~Starts(ladders, joined, b)
    <3>1. Known(ladders, joined, b)
      BY <2>1, <2>3, <2>5 DEF Starts, NoLiveLadder
    <3>2. ladders[b] = Absent
      BY <2>1, <2>3 DEF Standing, UnopenedWhileHeld, Held
    <3>3. joined[b] # NoAttempt
      BY <3>1, <3>2 DEF Known, Canonical
    <3> QED BY <2>1, <2>3, <3>3 DEF AlreadyJoined
  <2> QED BY <2>4, <2>5
<1>9. CASE Sweep
  BY <1>0, <1>9 DEF Sweep
<1>10. CASE Tick \/ StepBack
  BY <1>0, <1>10 DEF Tick, StepBack
<1>11. CASE Restart
  <2>1. restarts' = restarts + 1 /\ restarts \in Nat
    BY <1>0, <1>11, Assumed DEF Restart, TypeOK
  <2> QED BY <1>0, <2>1
<1> QED BY <1>1, <1>2, <1>4, <1>5, <1>6, <1>7, <1>8, <1>9, <1>10, <1>11 DEF Next, Deliver

\* While the clock has not been corrected backwards, a hold gives way only to a page that
\* goes to somebody, to a person who cannot be paged, to two sends that reached nobody, or
\* to a ladder the attempt had joined: it widens, or it changes nothing.
THEOREM HoldWidensOrNothing == Spec /\ [](stepBacks = 0) => WidensOrNothingUnlessJoined
<1> DEFINE K == Core /\ TheirOwn /\ Held
           S == stepBacks = 0
           A == \A o \in Operators : GivesWay(o) =>
                  \/ RosterPaged(o) \/ HolderUnreachable(held[o]) \/ OperatorUntold(held[o])
                  \/ AlreadyJoined(o)
<1>1. Init => K
  <2>1. Init => Held /\ TheirOwn
    BY Assumed DEF Init, Idle, Each, TheirOwn, Held, AliasesKnown, HoldsAreFresh,
                   UnopenedWhileHeld, RepeatIsAnswered
  <2> QED BY <2>1, InitIsCore
<1>2. K /\ S /\ S' /\ [Next]_vars => K'
  BY CoreIsInductive, OwnIsInductive, HeldIsInductive
<1>3. K /\ [Next]_vars => [A]_vars
  BY GivesWayTo
<1>4. WidensOrNothingUnlessJoined <=> [][A]_vars
  BY DEF WidensOrNothingUnlessJoined
<1> HIDE DEF K, S, A
<1>5. Spec /\ []S => []K
  BY <1>1, <1>2, PTL DEF Spec
<1>6. Spec /\ []K => [][A]_vars
  BY <1>3, PTL DEF Spec
<1> QED BY <1>4, <1>5, <1>6, PTL DEF S

=============================================================================
