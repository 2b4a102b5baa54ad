------------------------------ MODULE Executor ------------------------------
(***************************************************************************)
(* The escalation executor: packages/watchtower/src/escalation/executor.ts *)
(* with the first-page budget of budget.ts.                                *)
(*                                                                         *)
(* One process, one event loop.  A handler runs to its first await as one  *)
(* step; what it awaits (a publish, a page command, a timer) is in flight  *)
(* in `running', `resend' and `repeat', and its continuation is an action  *)
(* of its own, so anything may happen between the two.  setTimeout does    *)
(* not follow the wall clock, so an in-flight step may settle at any       *)
(* reading of it.                                                          *)
(***************************************************************************)
EXTENDS Ladder, PageBudget, SequencesExt, FiniteSets

CONSTANTS
  None,                \* undefined: no entry in a map
  Pushable,            \* people whose roster entry has a channel with a command
  Expires,             \* when each person's on-call declaration expires
  CreatedAt,           \* what each attempt's phone stamped on it
  StaleAfterSeconds,   \* STALE_AFTER_SECONDS
  DefaultPaging,       \* DEFAULT_WINDOWS.pagingSeconds
  AckHoldsSeconds,     \* ack_holds_seconds
  RepageCeiling, RepageCeilingSeconds,
  RepeatPageTtl,       \* REPEAT_PAGE_TTL_SECONDS
  SendOutcomes,        \* bound: whether a send may be taken, refused, or either
  FailingChannels,     \* bound: people whose page command may fail
  MaxInFlight,         \* bound: attempts with a step in flight when another arrives
  MaxCarriedOver,      \* bound: attempts with a step in flight when the clock ticks
  MaxClock, MaxStepBacks, MaxRestarts   \* bounds

People == Humans    \* the on-call roster: every entry has a key and a callsign

\* A held acknowledgement, a repeat page, and what has become of an answer's two sends.
Hold == [ladder : Attempts, by : People, at : Nat]
Page == [at : Nat, page : Attempts]
Resend == [hold : Hold, stage : {"first", "waiting", "second"}, taken : BOOLEAN, reached : BOOLEAN]

ASSUME ExecutorAssumption ==
  /\ None \notin Attempts \cup Humans \cup Nat \cup Hold \cup Page \cup Resend
  /\ Pushable \subseteq Humans /\ FailingChannels \subseteq Humans
  /\ Expires \in [Humans -> Int] /\ CreatedAt \in [Attempts -> Int]
  /\ {StaleAfterSeconds, DefaultPaging, AckHoldsSeconds, RepageCeiling, RepageCeilingSeconds,
      RepeatPageTtl} \subseteq Nat \ {0}
  /\ SendOutcomes \subseteq BOOLEAN
  /\ {MaxInFlight, MaxCarriedOver, MaxClock, MaxStepBacks, MaxRestarts} \subseteq Nat

MaxOf(x, y) == IF x >= y THEN x ELSE y
MinOf(x, y) == IF x <= y THEN x ELSE y

OperatorPeople == Operators \X People

\* ageWindowSeconds, repageWindowSeconds
AgeWindow == MaxOf(PagingSeconds, StaleAfterSeconds)
RepageWindow == MaxOf(PagingSeconds, DefaultPaging)

VARIABLES
  now, ladders, joined,
  seen,         \* RelayListener.seen: attempts delivered to this process
  held,         \* heldAcks: operator -> the acknowledgement held for them
  repaged,      \* operator, person -> the last page to that person about them
  lastPage,     \* persons[p].last
  started,      \* persons[p].started, each stamp with the attempt whose page it was
  widened,      \* operator -> when a hold about them last widened
  pending,      \* person, operator -> the attempt their next page must name
  heldAttempt,  \* attempt -> the hold it was answered from
  pageNamed,    \* attempt a repeat page carried -> every attempt it named
  budget,       \* pageBudget.dispatched
  notes,        \* what is said of a paging ladder beyond its state: spent, failed, partial
  running,      \* ladder -> people whose first-page commands have not returned
  resend,       \* attempt -> its held acknowledgement's two sends
  repeat,       \* attempt -> the hold its repeat page was sent under, commands not returned
  sweepDue,     \* the one-second sweep has not run at this reading of the clock
  stepBacks, restarts,
  woken,        \* history: paging ladder -> people a page command exited zero for
  recorded,     \* history: attempt -> `acked' entries in the accountability log
  carried,      \* history: operator, person -> their repeat pages but those that failed
  widenings     \* history: operator -> the attempts silence widened at, and when

ladderVars == <<ladders, joined, notes, running>>
pageVars == <<repaged, lastPage, started, widened, pending, heldAttempt, pageNamed, repeat, carried,
              widenings>>
clockVars == <<now, sweepDue, stepBacks, restarts>>
vars == <<clockVars, ladderVars, pageVars, seen, held, budget, resend, woken, recorded>>

TypeOK ==
  /\ now \in 0..MaxClock /\ sweepDue \in BOOLEAN /\ stepBacks \in 0..MaxStepBacks /\ restarts \in 0..MaxRestarts
  /\ ladders \in [Attempts -> LadderRecord \cup {Absent}]
  /\ joined \in [Attempts -> Attempts \cup {NoAttempt}]
  /\ seen \subseteq Attempts
  /\ held \in [Operators -> Hold \cup {None}]
  /\ repaged \in [OperatorPeople -> Page \cup {None}]
  /\ lastPage \in [People -> Page \cup {None}]
  /\ started \in [People -> SUBSET Page]
  /\ widened \in [Operators -> (0..MaxClock) \cup {None}]
  /\ pending \in [People \X Operators -> Attempts \cup {NoAttempt}]
  /\ heldAttempt \in [Attempts -> Hold \cup {None}]
  /\ pageNamed \in [Attempts -> Seq(Attempts)]
  /\ budget \in Seq(0..MaxClock)
  /\ notes \in [Attempts -> {"none", "spent", "failed", "partial"}]
  /\ running \in [Attempts -> SUBSET People]
  /\ resend \in [Attempts -> Resend \cup {None}]
  /\ repeat \in [Attempts -> Hold \cup {None}]
  /\ woken \in [Attempts -> SUBSET People]
  /\ recorded \in [Attempts -> 0..2]
  /\ carried \in [OperatorPeople -> SUBSET Page]
  /\ widenings \in [Operators -> SUBSET Page]

Each(S, v) == [x \in S |-> v]

\* Nothing in flight, nobody paged again, nothing remembered.
Idle ==
  /\ joined = Each(Attempts, NoAttempt)
  /\ repaged = Each(OperatorPeople, None) /\ carried = Each(OperatorPeople, {})
  /\ lastPage = Each(People, None) /\ started = Each(People, {})
  /\ widened = Each(Operators, None) /\ widenings = Each(Operators, {})
  /\ pending = Each(People \X Operators, NoAttempt)
  /\ heldAttempt = Each(Attempts, None) /\ pageNamed = Each(Attempts, <<>>)
  /\ notes = Each(Attempts, "none") /\ woken = Each(Attempts, {}) /\ recorded = Each(Attempts, 0)
  /\ running = Each(Attempts, {}) /\ resend = Each(Attempts, None) /\ repeat = Each(Attempts, None)

Init ==
  /\ now = 0 /\ sweepDue = FALSE /\ stepBacks = 0 /\ restarts = 0
  /\ ladders = Each(Attempts, Absent) /\ held = Each(Operators, None)
  /\ seen = {} /\ budget = <<>>
  /\ Idle

-----------------------------------------------------------------------------
(* The roster, the budget and the intervals, as the code reads them. *)

RosterAt(t) == {p \in People : Expires[p] > t}

\* pageableNow: a roster of consoles alone is an empty roster.
PageableNow(roster) == IF roster \cap Pushable # {} THEN roster ELSE {}

OthersPageable(p, t) == PageableNow(RosterAt(t) \ {p}) # {}

Holding(h, t) == t >= h.at /\ t - h.at < AckHoldsSeconds

\* Slip: any hold that stands for the operator will do.
Standing_AnyHold(a, t) ==
  LET op == Sender[a]
  IN  heldAttempt[a] # None /\ held[op] # None /\ Holding(held[op], t)

\* standing: the hold the attempt was answered from is the one that still stands.
Standing(a, t) ==
  LET h == heldAttempt[a] IN h # None /\ held[Sender[a]] = h /\ Holding(h, t)

\* One stamped ahead of the clock stands for nothing.
StandsFor(pg, t) == IF pg # None /\ t >= pg.at THEN pg ELSE None

\* Slip: a new acknowledgement starts the interval over.
LastRepage_PerHold(op, p, t) ==
  LET pg == StandsFor(repaged[<<op, p>>], t)
  IN  IF pg # None /\ held[op] # None /\ pg.at <= held[op].at THEN None ELSE pg

LastRepage(op, p, t) == StandsFor(repaged[<<op, p>>], t)
LastPersonPage(p, t) == StandsFor(lastPage[p], t)

\* Slip: nothing remembers that a hold widened.
WidensIn_Never(op, t) == 0

WidensIn(op, t) ==
  IF widened[op] = None \/ widened[op] > t THEN 0
  ELSE MaxOf(0, widened[op] + AckHoldsSeconds - t)

RecentlyStarted(p, t) == {pg \in started[p] : pg.at <= t /\ t - pg.at < RepageCeilingSeconds}

\* Slip: one page too many.
AtCeiling_OneMore(p, t) == Cardinality(RecentlyStarted(p, t)) > RepageCeiling

AtCeiling(p, t) == Cardinality(RecentlyStarted(p, t)) >= RepageCeiling

\* An attempt inside this operator's interval, or the person's own, pages nobody; the
\* first page about an operator waits for neither.
WaitsFor(op, p, t) ==
  LET about == LastRepage(op, p, t)
      theirs == LastPersonPage(p, t)
  IN  about # None /\ \/ about.at + RepageWindow > t
                      \/ theirs # None /\ theirs.at + RepageWindow > t

\* Off the roster, console-only, or at the ceiling.
CannotPage(p, t) == p \notin RosterAt(t) \cap Pushable \/ AtCeiling(p, t)

\* Silence widens, or is refused and changes nothing.
SilenceWidens(op, p, t) ==
  /\ ~CannotPage(p, t)
  /\ LastRepage(op, p, t) # None
  /\ WidensIn(op, t) = 0
  /\ OthersPageable(p, t)
  /\ Remaining(budget, t) > 0

\* heldText: in how many seconds the operator is told an attempt is treated as new.
CanWiden(p, t) == OthersPageable(p, t) /\ Remaining(budget, t) > 0

\* Slip: the once-per-window rule is not in the sentence.
AsNewIn_NoWindow(op, t) ==
  LET h == held[op]
      left == MaxOf(0, AckHoldsSeconds - MaxOf(0, t - h.at))
      about == LastRepage(op, h.by, t)
  IN  IF about = None \/ ~CanWiden(h.by, t) THEN left
      ELSE MaxOf(0, MinOf(left, about.at + RepageWindow - t))

AsNewIn(op, t) ==
  LET h == held[op]
      left == MaxOf(0, AckHoldsSeconds - MaxOf(0, t - h.at))
      about == LastRepage(op, h.by, t)
      theirs == LastPersonPage(h.by, t)
      next == MaxOf(about.at, IF theirs = None THEN about.at ELSE theirs.at) + RepageWindow - t
  IN  IF about = None THEN left
      ELSE IF ~CanWiden(h.by, t) THEN left
      ELSE IF WidensIn(op, t) = 0 THEN MaxOf(0, MinOf(left, next))
      ELSE MinOf(left, MaxOf(WidensIn(op, t), next))

\* Saying it asks the budget what remains, which prunes it.
BudgetAfterText(h) ==
  IF /\ LastRepage(Sender[h.ladder], h.by, now) # None
     /\ OthersPageable(h.by, now)
  THEN Pruned(budget, now) ELSE budget

-----------------------------------------------------------------------------
(* Opening a ladder. *)

\* openLadder + opening + run to its first await.  A ladder that pages takes a unit of the
\* budget before anything is said, unless the caller has (`charged').  The report and the
\* page commands are one stage in flight: nothing is read between the two.
OpenLadder(a, charged) ==
  LET l == StartLadder(PageableNow(RosterAt(now)) # {}, FALSE, now)
      pages == Starts(ladders, joined, a) /\ l.state = "paging"
      unit == charged \/ Remaining(budget, now) > 0
  IN  /\ ladders' = OpenedLadders(ladders, joined, a, l)
      /\ joined' = OpenedJoined(ladders, joined, a)
      /\ running' = IF pages /\ unit THEN [running EXCEPT ![a] = RosterAt(now) \cap Pushable] ELSE running
      /\ notes' = IF pages /\ ~unit THEN [notes EXCEPT ![a] = "spent"] ELSE notes
      /\ budget' = IF charged \/ (pages /\ unit) THEN Taken(budget, now)
                   ELSE IF pages THEN Pruned(budget, now) ELSE budget

\* resendAck to its first await: the answer again, naming this attempt.
StartResend(a, h) ==
  resend' = [resend EXCEPT ![a] =
    [hold |-> h, stage |-> "first", taken |-> FALSE, reached |-> FALSE]]

\* Slips: the pending entry is blanked rather than deleted; the hold is left standing.
EndHold_Blanks(h) ==
  LET op == Sender[h.ladder]
  IN  /\ held' = IF held[op] = h THEN [held EXCEPT ![op] = None] ELSE held
      /\ pending' = [pending EXCEPT ![<<h.by, op>>] = None]
EndHold_Stands(h) ==
  /\ held' = held
  /\ pending' = [pending EXCEPT ![<<h.by, Sender[h.ladder]>>] = NoAttempt]

\* unpaged: the hold ends, if it is still this one, and the attempt is escalated as new.
EndHold(h) ==
  LET op == Sender[h.ladder]
  IN  /\ held' = IF held[op] = h THEN [held EXCEPT ![op] = None] ELSE held
      /\ pending' = [pending EXCEPT ![<<h.by, op>>] = NoAttempt]

-----------------------------------------------------------------------------
(* A 20911 arrives: onEvent, handleDistress, answerHeld. *)

\* The attempts with a command, a send or a timer of theirs outstanding.
InFlight == {a \in Attempts : running[a] # {} \/ resend[a] # None \/ repeat[a] # None}

\* Delivered once per process, stamped near enough to this clock.
Arrives(a) ==
  /\ a \notin seen
  /\ Cardinality(InFlight) <= MaxInFlight
  /\ now - CreatedAt[a] <= AgeWindow /\ CreatedAt[a] - now <= AgeWindow
  /\ seen' = seen \cup {a}

NoLiveLadder(op) == LiveFor(ladders, op) = {}
AnsweredFromHold(op) ==
  held[op] # None /\ Holding(held[op], now) /\ NoLiveLadder(op)

\* No hold, an expired one (dropped here), or a live ladder in front of it.
OpenOrJoin(a) ==
  LET op == Sender[a] IN
  /\ Arrives(a)
  /\ ~AnsweredFromHold(op)
  /\ held' = IF held[op] # None /\ ~Holding(held[op], now)
             THEN [held EXCEPT ![op] = None] ELSE held
  /\ OpenLadder(a, FALSE)
  /\ UNCHANGED <<clockVars, pageVars, resend, woken, recorded>>

\* Inside an interval: the answer again, and the next page names this operator.
AnswerAndWait(a) ==
  LET op == Sender[a]
      h == held[op]
  IN  /\ Arrives(a)
      /\ AnsweredFromHold(op)
      /\ WaitsFor(op, h.by, now)
      /\ heldAttempt' = [heldAttempt EXCEPT ![a] = h]
      /\ pending' = [pending EXCEPT ![<<h.by, op>>] = a]
      /\ StartResend(a, h)
      /\ budget' = BudgetAfterText(h)
      /\ UNCHANGED <<clockVars, ladderVars, held, repaged, lastPage, started, widened, pageNamed,
                     repeat, carried, widenings, woken, recorded>>

\* Past both intervals and still sending: the roster, charged before the hold is touched.
AnswerAndWiden(a) ==
  LET op == Sender[a]
      h == held[op]
  IN  /\ Arrives(a)
      /\ AnsweredFromHold(op)
      /\ ~WaitsFor(op, h.by, now)
      /\ SilenceWidens(op, h.by, now)
      /\ heldAttempt' = [heldAttempt EXCEPT ![a] = h]
      /\ widened' = [widened EXCEPT ![op] = now]
      /\ started' = [started EXCEPT ![h.by] = RecentlyStarted(h.by, now)]
      /\ EndHold(h)
      /\ OpenLadder(a, TRUE)
      /\ StartResend(a, h)
      /\ widenings' = [widenings EXCEPT ![op] = @ \cup {[at |-> now, page |-> a]}]
      /\ UNCHANGED <<clockVars, repaged, lastPage, pageNamed, repeat, carried, woken, recorded>>

\* Somebody who cannot be paged again is holding nothing.
AnswerAndEscalate(a) ==
  LET op == Sender[a]
      h == held[op]
  IN  /\ Arrives(a)
      /\ AnsweredFromHold(op)
      /\ ~WaitsFor(op, h.by, now)
      /\ CannotPage(h.by, now)
      /\ heldAttempt' = [heldAttempt EXCEPT ![a] = h]
      /\ started' = IF h.by \in RosterAt(now) \cap Pushable
                    THEN [started EXCEPT ![h.by] = RecentlyStarted(h.by, now)] ELSE started
      /\ EndHold(h)
      /\ OpenLadder(a, FALSE)
      /\ StartResend(a, h)
      /\ UNCHANGED <<clockVars, repaged, lastPage, widened, pageNamed, repeat, carried, widenings, woken, recorded>>

\* Slip: the next page names its own operator and forgets the rest.
TakenPending_Nobody(op, p) == {<<>>}

\* takePending: every other operator this person holds who has sent since their last page,
\* in the order they were set down, which nothing here keeps.
TakenPending(op, p) ==
  SetToSeqs({pending[<<p, o>>] : o \in {x \in Operators \ {op} :
    pending[<<p, x>>] # NoAttempt /\ Standing(pending[<<p, x>>], now)}})

AnswerAndRepage(a) ==
  LET op == Sender[a]
      h == held[op]
      p == h.by
      pg == [at |-> now, page |-> a]
  IN  /\ Arrives(a)
      /\ AnsweredFromHold(op)
      /\ ~WaitsFor(op, p, now)
      /\ ~CannotPage(p, now)
      /\ ~SilenceWidens(op, p, now)
      /\ heldAttempt' = [heldAttempt EXCEPT ![a] = h]
      /\ \E others \in TakenPending(op, p) :
           LET named == <<a>> \o others
               ops == {Sender[named[i]] : i \in 1..Len(named)}
           IN  /\ pageNamed' = [pageNamed EXCEPT ![a] = named]
               /\ repaged' = [k \in DOMAIN repaged |->
                    IF k[2] = p /\ k[1] \in ops THEN pg ELSE repaged[k]]
      /\ pending' = [k \in DOMAIN pending |-> IF k[1] = p THEN NoAttempt ELSE pending[k]]
      /\ lastPage' = [lastPage EXCEPT ![p] = pg]
      /\ started' = [started EXCEPT ![p] = RecentlyStarted(p, now) \cup {pg}]
      /\ carried' = [carried EXCEPT ![<<op, p>>] = @ \cup {pg}]
      /\ repeat' = [repeat EXCEPT ![a] = h]
      /\ StartResend(a, h)
      /\ budget' = IF OthersPageable(p, now) THEN Pruned(budget, now) ELSE budget
      /\ UNCHANGED <<clockVars, ladderVars, held, widened, widenings, woken, recorded>>

-----------------------------------------------------------------------------
(* What was in flight comes back. *)

\* Slip: the commands are not looked at.
FirstPageReturns_Unsaid(a, dispatched) ==
  /\ running[a] # {}
  /\ running' = [running EXCEPT ![a] = {}]
  /\ woken' = IF ladders[a].state = "paging" THEN [woken EXCEPT ![a] = dispatched] ELSE woken
  /\ UNCHANGED <<clockVars, ladders, joined, notes, pageVars, seen, held, budget, resend, recorded>>

\* run, after the page commands: what only this process knows is said while it matters.
FirstPageReturns(a, dispatched) ==
  /\ running[a] # {}
  /\ dispatched \subseteq running[a]
  /\ running' = [running EXCEPT ![a] = {}]
  /\ IF ladders[a].state = "paging"
     THEN /\ woken' = [woken EXCEPT ![a] = dispatched]
          /\ notes' = IF dispatched = running[a] THEN notes
                      ELSE [notes EXCEPT ![a] = IF dispatched = {} THEN "failed" ELSE "partial"]
     ELSE UNCHANGED <<woken, notes>>
  /\ UNCHANGED <<clockVars, ladders, joined, pageVars, seen, held, budget, resend, recorded>>

\* A send of hold h got through: every attempt still waiting on h may stop worrying.
Reached(r, h) ==
  [b \in Attempts |-> IF r[b] # None /\ r[b].hold = h THEN [r[b] EXCEPT !.reached = TRUE] ELSE r[b]]

FirstSendSettles(a, took) ==
  /\ resend[a] # None /\ resend[a].stage = "first"
  /\ LET r == [resend EXCEPT ![a].stage = "waiting", ![a].taken = took]
     IN  resend' = IF took THEN Reached(r, r[a].hold) ELSE r
  /\ recorded' = [recorded EXCEPT ![a] = IF took THEN @ + 1 ELSE @]
  /\ UNCHANGED <<clockVars, ladderVars, pageVars, seen, held, budget, woken>>

\* RESEND_AGAIN_SECONDS later: only while the same hold stands.
SecondSendStarts(a) ==
  /\ resend[a] # None /\ resend[a].stage = "waiting"
  /\ held[Sender[a]] = resend[a].hold
  /\ resend' = [resend EXCEPT ![a].stage = "second"]
  /\ budget' = BudgetAfterText(resend[a].hold)
  /\ UNCHANGED <<clockVars, ladderVars, pageVars, seen, held, woken, recorded>>

\* Slip: a second send that never went leaves no entry.
SecondSendNeverGoes_Unrecorded(a) ==
  /\ resend[a] # None /\ resend[a].stage = "waiting"
  /\ held[Sender[a]] # resend[a].hold
  /\ resend' = [resend EXCEPT ![a] = None]
  /\ UNCHANGED <<clockVars, ladderVars, pageVars, seen, held, budget, woken, recorded>>

\* The hold ended, or a newer answer replaced it.
SecondSendNeverGoes(a) ==
  /\ resend[a] # None /\ resend[a].stage = "waiting"
  /\ held[Sender[a]] # resend[a].hold
  /\ resend' = [resend EXCEPT ![a] = None]
  /\ recorded' = [recorded EXCEPT ![a] = IF resend[a].taken THEN @ ELSE @ + 1]
  /\ UNCHANGED <<clockVars, ladderVars, pageVars, seen, held, budget, woken>>

\* Told nothing, twice, and nothing since: held for nobody.
SecondSendSettles(a, took) ==
  LET r == resend[a]
      op == Sender[a]
  IN  /\ r # None /\ r.stage = "second"
      /\ resend' = LET rest == [resend EXCEPT ![a] = None]
                   IN  IF took THEN Reached(rest, r.hold) ELSE rest
      /\ recorded' = [recorded EXCEPT ![a] = IF r.taken THEN @ ELSE @ + 1]
      /\ held' = IF ~took /\ ~r.taken /\ ~r.reached /\ held[op] = r.hold
                 THEN [held EXCEPT ![op] = None] ELSE held
      /\ UNCHANGED <<clockVars, ladderVars, pageVars, seen, budget, woken>>

\* answerHeld, after the repeat page: the first send has settled by then.
FirstSendOver(a) == resend[a] # None => resend[a].stage # "first"

RepeatPageWorks(a) ==
  /\ repeat[a] # None
  /\ FirstSendOver(a)
  /\ repeat' = [repeat EXCEPT ![a] = None]
  /\ UNCHANGED <<clockVars, ladderVars, seen, held, budget, resend, woken, recorded, repaged,
                 lastPage, started, widened, pending, heldAttempt, pageNamed, carried, widenings>>

\* Every channel failed: it holds back no page after it, and the attempt is escalated.
RepeatPageFails(a) ==
  LET h == repeat[a]
      op == Sender[a]
  IN  /\ repeat[a] # None
      /\ h.by \in FailingChannels
      /\ FirstSendOver(a)
      /\ repeat' = [repeat EXCEPT ![a] = None]
      /\ repaged' = [k \in DOMAIN repaged |->
           IF repaged[k] # None /\ repaged[k].page = a THEN None ELSE repaged[k]]
      /\ lastPage' = IF lastPage[h.by] # None /\ lastPage[h.by].page = a
                     THEN [lastPage EXCEPT ![h.by] = None] ELSE lastPage
      /\ carried' = [carried EXCEPT ![<<op, h.by>>] = {pg \in @ : pg.page # a}]
      /\ EndHold(h)
      /\ OpenLadder(a, FALSE)
      /\ UNCHANGED <<clockVars, seen, resend, woken, recorded, started, widened, heldAttempt, pageNamed,
                     widenings>>

-----------------------------------------------------------------------------
(* What people send. *)

\* handleAck: anybody on the roster, expired or not, about any id that finds a ladder.
Acknowledge(p, a) ==
  LET c == Canonical(joined, a)
      l == AcknowledgeLadder(ladders[c], p, now)
  IN  /\ Known(ladders, joined, a)
      /\ l # ladders[c]
      /\ ladders' = [ladders EXCEPT ![c] = l]
      /\ held' = [held EXCEPT ![Sender[c]] = [ladder |-> c, by |-> p, at |-> now]]
      /\ notes' = [notes EXCEPT ![c] = "none"]
      /\ woken' = [woken EXCEPT ![c] = {}]
      /\ UNCHANGED <<clockVars, joined, running, pageVars, seen, budget, resend, recorded>>

\* handleWake: every hold the page named is decided, and ended, before anything is sent.
WakeOthers(p, a) ==
  LET ids == IF pageNamed[a] = <<>> THEN <<a>> ELSE pageNamed[a]
      standing == {i \in 1..Len(ids) : Standing(ids[i], now)}
      asked == {i \in standing : NoLiveLadder(Sender[ids[i]])}
      joins == {ids[i] : i \in standing \ asked}
      others == RosterAt(now) \ {p}
      able == PageableNow(others) # {}
      wide == {i \in asked : able /\ Cardinality({j \in asked : j < i}) < Remaining(budget, now)}
      ended == {ids[i] : i \in wide}
      opens == {b \in ended : Starts(ladders, joined, b)}
      l == StartLadder(PageableNow(RosterAt(now)) # {}, FALSE, now)
  IN  /\ p \in RosterAt(now)
      /\ heldAttempt[a] # None
      /\ standing # {}
      /\ held' = [o \in Operators |-> IF \E b \in ended : Sender[b] = o THEN None ELSE held[o]]
      /\ pending' = [k \in DOMAIN pending |->
           IF \E b \in ended : heldAttempt[b].by = k[1] /\ Sender[b] = k[2] THEN NoAttempt
           ELSE pending[k]]
      /\ ladders' = [b \in Attempts |-> IF b \in opens THEN l ELSE ladders[b]]
      /\ joined' = [b \in Attempts |->
           IF b \in joins THEN OpenedJoined(ladders, joined, b)[b] ELSE joined[b]]
      /\ running' = [b \in Attempts |-> IF b \in opens THEN others \cap Pushable ELSE running[b]]
      /\ budget' = IF able /\ asked # {}
                   THEN Pruned(budget, now) \o [i \in 1..Cardinality(wide) |-> now] ELSE budget
      /\ UNCHANGED <<clockVars, notes, seen, resend, woken, recorded, repaged, lastPage, started,
                     widened, heldAttempt, pageNamed, repeat, carried, widenings>>

-----------------------------------------------------------------------------
(* The sweep, the clock and the process. *)

Sweep ==
  LET kept == MaxOf(RepageWindow, AckHoldsSeconds)
      keptAttempts == AckHoldsSeconds + MaxOf(RepeatPageTtl, RetentionSeconds)
      fresh(pg) == pg # None /\ now >= pg.at /\ now - pg.at < kept
      left == Reaped(ladders, now)
      standing(k) == pending[k] # NoAttempt /\ Standing(pending[k], now)
      remembered(a) == /\ heldAttempt[a] # None
                       /\ now >= heldAttempt[a].at
                       /\ now - heldAttempt[a].at < keptAttempts
  IN  /\ ladders' = TickedAll(left, now)
      /\ joined' = ReapedJoined(ladders, joined, now)
      /\ notes' = [a \in Attempts |-> IF ladders'[a].state = "paging" THEN notes[a] ELSE "none"]
      /\ woken' = [a \in Attempts |-> IF ladders'[a].state = "paging" THEN woken[a] ELSE {}]
      /\ sweepDue' = FALSE
      /\ held' = [o \in Operators |-> IF held[o] # None /\ ~Holding(held[o], now) THEN None ELSE held[o]]
      /\ repaged' = [k \in DOMAIN repaged |-> IF fresh(repaged[k]) THEN repaged[k] ELSE None]
      /\ lastPage' = [p \in People |-> IF fresh(lastPage[p]) THEN lastPage[p] ELSE None]
      /\ started' = [p \in People |-> RecentlyStarted(p, now)]
      /\ pending' = [k \in DOMAIN pending |-> IF standing(k) THEN pending[k] ELSE NoAttempt]
      /\ widened' = [o \in Operators |-> IF WidensIn(o, now) = 0 THEN None ELSE widened[o]]
      /\ heldAttempt' = [a \in Attempts |-> IF remembered(a) THEN heldAttempt[a] ELSE None]
      /\ pageNamed' = [a \in Attempts |-> IF remembered(a) THEN pageNamed[a] ELSE <<>>]
      /\ UNCHANGED <<now, stepBacks, restarts, running, seen, budget, resend, repeat, recorded, carried,
                     widenings>>

\* A tick stands for minutes; the sweep runs every second, a command has thirty and a second
\* send comes after ten.
Tick ==
  /\ now < MaxClock /\ ~sweepDue
  /\ Cardinality(InFlight) <= MaxCarriedOver
  /\ now' = now + 1 /\ sweepDue' = TRUE
  /\ UNCHANGED <<stepBacks, restarts, ladderVars, pageVars, seen, held, budget, resend, woken, recorded>>

\* The clock is corrected backwards: what the history measured before that is void.
StepBack ==
  /\ stepBacks < MaxStepBacks
  /\ stepBacks' = stepBacks + 1
  /\ now' \in {t \in 0..MaxClock : t < now} /\ sweepDue' = TRUE
  /\ carried' = Each(OperatorPeople, {}) /\ widenings' = Each(Operators, {})
  /\ UNCHANGED <<restarts, ladderVars, seen, held, budget, resend, woken, recorded, repaged,
                 lastPage, started, widened, pending, heldAttempt, pageNamed, repeat>>

\* The process dies and starts again with nothing: neither a ladder, a hold nor a step in
\* flight outlives it.  The log does, but its entries are another process's.
Restart ==
  /\ restarts < MaxRestarts
  /\ restarts' = restarts + 1
  /\ ladders' = Each(Attempts, Absent) /\ held' = Each(Operators, None)
  /\ seen' = {} /\ budget' = <<>>
  /\ joined' = Each(Attempts, NoAttempt)
  /\ repaged' = Each(OperatorPeople, None) /\ carried' = Each(OperatorPeople, {})
  /\ lastPage' = Each(People, None) /\ started' = Each(People, {})
  /\ widened' = Each(Operators, None) /\ widenings' = Each(Operators, {})
  /\ pending' = Each(People \X Operators, NoAttempt)
  /\ heldAttempt' = Each(Attempts, None) /\ pageNamed' = Each(Attempts, <<>>)
  /\ notes' = Each(Attempts, "none") /\ woken' = Each(Attempts, {}) /\ recorded' = Each(Attempts, 0)
  /\ running' = Each(Attempts, {}) /\ resend' = Each(Attempts, None) /\ repeat' = Each(Attempts, None)
  /\ UNCHANGED <<now, sweepDue, stepBacks>>

Deliver(a) ==
  \/ OpenOrJoin(a)
  \/ AnswerAndWait(a)
  \/ AnswerAndWiden(a)
  \/ AnswerAndEscalate(a)
  \/ AnswerAndRepage(a)

Settle(a) ==
  \/ \E failed \in SUBSET FailingChannels : FirstPageReturns(a, running[a] \ failed)
  \/ \E took \in SendOutcomes : FirstSendSettles(a, took) \/ SecondSendSettles(a, took)
  \/ SecondSendStarts(a)
  \/ SecondSendNeverGoes(a)
  \/ RepeatPageWorks(a)
  \/ RepeatPageFails(a)

Next ==
  \/ \E a \in Attempts : Deliver(a) \/ Settle(a)
  \/ \E p \in People, a \in Attempts : Acknowledge(p, a) \/ WakeOthers(p, a)
  \/ Sweep
  \/ Tick
  \/ StepBack
  \/ Restart

Spec == Init /\ [][Next]_vars

-----------------------------------------------------------------------------
(* Properties *)

\* While a ladder pages, what its operator is told of it is so: unless they were told that
\* nobody was woken, or that somebody could not be reached, the commands are still running
\* or every one of them exited zero, and "nobody has been woken" means nobody was
\* (executor.ts:1093-1162; escalation.spec.md, failure modes 2 and 3).
PagingIsSoWhenSaid ==
  \A a \in Attempts : ladders[a].state = "paging" =>
    /\ notes[a] = "none" => running[a] # {} \/ woken[a] # {}
    /\ notes[a] \in {"spent", "failed"} => woken[a] = {} /\ running[a] = {}
    /\ notes[a] = "partial" => woken[a] # {}

\* Every attempt answered from a hold is in the accountability log once: not before either
\* send settled, never twice, and not lost when the hold ends between its two sends
\* (executor.ts:720-728).
OwesRecord(a) == resend[a] # None /\ ~resend[a].taken
RecordedOnce ==
  \A a \in Attempts :
    /\ recorded[a] <= 1
    /\ OwesRecord(a) => recorded[a] = 0
    /\ heldAttempt[a] # None /\ ~OwesRecord(a) => recorded[a] = 1

\* However the hold, the acknowledgement and the ladders between them change, one person is
\* never paged twice about one operator inside the re-page interval (executor.ts:138-152,
\* 359-369).  With several operators to one person there is an exception: a page that fails
\* having named another of them deletes that operator's stamp, though an earlier page of
\* theirs worked (1319-1323; see FailsAlone in ExecutorProofs).
RepageIntervalHolds ==
  \A k \in OperatorPeople : \A pg, other \in carried[k] :
    pg # other => pg.at - other.at >= RepageWindow \/ other.at - pg.at >= RepageWindow

\* Pages about all the operators a person holds count together: nobody is paged again more
\* than REPAGE_CEILING times in an hour (executor.ts:154-165, 890-897).
CeilingHolds ==
  \A p \in People :
    Cardinality({pg \in UNION {carried[<<o, p>>] : o \in Operators} :
      now - pg.at < RepageCeilingSeconds}) <= RepageCeiling

\* An operator who sent inside an interval is not forgotten: they stop waiting for the
\* person's next page only by being named on it, or by their hold ending
\* (executor.ts:385-398, 904-909).
StopsWaiting(p, o) ==
  LET b == pending[<<p, o>>]
  IN  b # NoAttempt /\ Standing(b, now) /\ pending'[<<p, o>>] = NoAttempt
NamedNow(o) == \E a \in Attempts : /\ pageNamed'[a] # pageNamed[a]
                                   /\ \E i \in 1..Len(pageNamed'[a]) : Sender[pageNamed'[a][i]] = o
NobodyForgotten ==
  [][\A p \in People, o \in Operators :
       StopsWaiting(p, o) => NamedNow(o) \/ held'[o] # held[o]]_vars

\* The same, but for an operator one of whose repeat pages fails at that moment.
APageFails == \E a \in Attempts : repeat[a] # None /\ repeat'[a] = None
NobodyForgottenUnlessAPageFails ==
  [][\A p \in People, o \in Operators :
       StopsWaiting(p, o) => NamedNow(o) \/ held'[o] # held[o] \/ APageFails]_vars

\* What a held acknowledgement tells the operator agrees with what the next attempt would
\* get: at the moment it names an attempt is treated as new, and none sooner widens
\* (heldText, executor.ts:784-832, against answerHeld, executor.ts:1205-1274).
HoldSpeaks(o) ==
  /\ held[o] # None
  /\ Holding(held[o], now)
  /\ NoLiveLadder(o)
TreatedAsNew(o, t) ==
  LET p == held[o].by
      about == LastRepage(o, p, now)
  IN  \/ ~Holding(held[o], t)
      \/ /\ about # None
         /\ about.at + RepageWindow <= t
         /\ lastPage[p] # None /\ lastPage[p].at <= now => lastPage[p].at + RepageWindow <= t
         /\ CanWiden(p, now)
         /\ WidensIn(o, t) = 0
HeldTextIsTrue ==
  \A o \in Operators : HoldSpeaks(o) =>
    LET said == now + AsNewIn(o, now)
    IN  /\ TreatedAsNew(o, said)
        /\ \A t \in now .. said - 1 : ~TreatedAsNew(o, t)

RosterPaged(o) == \E b \in Attempts : /\ Sender[b] = o
                                      /\ IsLive(ladders'[b])
                                      /\ running'[b] # {}
HolderUnreachable(h) ==
  \/ CannotPage(h.by, now)
  \/ \E a \in Attempts : repeat[a] # None /\ repeat[a] = h /\ repeat'[a] = None
OperatorUntold(h) ==
  \E a \in Attempts : /\ resend[a] # None /\ resend[a].hold = h
                      /\ ~resend[a].taken /\ ~resend[a].reached /\ resend'[a] = None
GivesWay(o) ==
  /\ held[o] # None
  /\ Holding(held[o], now)
  /\ held'[o] = None
  /\ restarts' = restarts

\* A hold gives way only to a page that goes to somebody, to a person who could not be
\* paged, or to two sends that reached nobody: it widens, or it changes nothing
\* (escalation.spec.md:306, :353; executor.ts:1713-1719), but for an attempt that
\* already joined a ladder while its hold stood (1824-1833).
AlreadyJoined(o) == \E a \in Attempts : Sender[a] = o /\ Standing(a, now) /\ joined[a] # NoAttempt
WidensOrNothingUnlessJoined ==
  [][\A o \in Operators : GivesWay(o) =>
       \/ RosterPaged(o) \/ HolderUnreachable(held[o]) \/ OperatorUntold(held[o])
       \/ AlreadyJoined(o)]_vars

\* While an acknowledgement stands for an operator no ladder opens for them: whatever opens
\* one ends the hold in the same step.  A repeat page of an earlier hold that fails is the
\* exception (escalation.spec.md:255-257; executor.ts:1359-1363).
NoLadderBehindAHold ==
  [][\A a \in Attempts :
       ladders[a] = Absent /\ ladders'[a] # Absent =>
         \/ held'[Sender[a]] = None
         \/ ~Holding(held'[Sender[a]], now)
         \/ APageFails]_vars

\* Silence widens about one operator once per window: however the hold, the holder, the
\* ladders and the repeat pages change between two attempts, and in whichever order the
\* sweep, the acknowledgements and the pages come, a first page to the whole roster is not
\* spent on them twice within it, two attempts of one second included (executor.ts:375-384,
\* 1244-1256). `widenings' holds those since the clock was last corrected backwards.
WidensOncePerWindow ==
  \A o \in Operators : \A w, other \in widenings[o] :
    w # other => w.at - other.at >= AckHoldsSeconds \/ other.at - w.at >= AckHoldsSeconds

=============================================================================
