----------------------------- MODULE BudgetClock -----------------------------
(***************************************************************************)
(* The first-page budget under the clock it is given.  `now' is the wall   *)
(* clock, which is sometimes corrected backwards; `up' is the time that    *)
(* really passes, which nothing in the code reads.                         *)
(***************************************************************************)
EXTENDS PageBudget

CONSTANTS
  MaxUp,         \* bound: seconds modelled
  MaxStepBacks   \* bound: clock corrections

ASSUME ClockAssumption == MaxUp \in Nat /\ MaxStepBacks \in Nat

VARIABLES
  now,          \* Math.floor(Date.now() / 1000), from the first second modelled
  up,           \* seconds since then
  dispatched,   \* pageBudget.dispatched
  pages,        \* history: when each unit was taken: the clock's reading, and really
  stepBacks

vars == <<now, up, dispatched, pages, stepBacks>>

TypeOK ==
  /\ now \in Nat /\ up \in Nat /\ stepBacks \in Nat
  /\ dispatched \in Seq(Nat)
  /\ pages \in Seq([wall : Nat, real : Nat])

Init == now = 0 /\ up = 0 /\ dispatched = <<>> /\ pages = <<>> /\ stepBacks = 0

\* take(now): a ladder that would page asks for a unit.
Take ==
  /\ IF MayTake(dispatched, now)
     THEN /\ dispatched' = Taken(dispatched, now)
          /\ pages' = Append(pages, [wall |-> now, real |-> up])
     ELSE /\ dispatched' = Pruned(dispatched, now)
          /\ UNCHANGED pages
  /\ UNCHANGED <<now, up, stepBacks>>

\* remaining(now): asked by a held acknowledgement's text; it prunes too.
Ask ==
  /\ dispatched' = Pruned(dispatched, now)
  /\ UNCHANGED <<now, up, pages, stepBacks>>

Tick ==
  /\ up < MaxUp
  /\ now' = now + 1 /\ up' = up + 1
  /\ UNCHANGED <<dispatched, pages, stepBacks>>

StepBack ==
  /\ stepBacks < MaxStepBacks
  /\ stepBacks' = stepBacks + 1
  /\ now' \in 0..now
  /\ UNCHANGED <<up, dispatched, pages>>

Next == Take \/ Ask \/ Tick \/ StepBack

Spec == Init /\ [][Next]_vars

-----------------------------------------------------------------------------
(* Properties *)

\* However many ladders open, no window of real time holds more pages than the budget,
\* though the clock is corrected backwards under it (escalation.spec.md, Paging budget;
\* budget.ts:38-59).
FloodIsBounded ==
  \A i \in 1..Len(pages) :
    i + MaxPagesPerWindow <= Len(pages) =>
      pages[i + MaxPagesPerWindow].real - pages[i].real >= PageBudgetWindow

=============================================================================
