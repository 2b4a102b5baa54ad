----------------------------- MODULE PageBudget -----------------------------
(***************************************************************************)
(* The first-page budget: packages/watchtower/src/escalation/budget.ts.    *)
(* `dispatched' is the closure's array of stamps, as a value.              *)
(***************************************************************************)
EXTENDS Integers, Sequences

CONSTANTS
  MaxPagesPerWindow,   \* max_pages_per_window
  PageBudgetWindow     \* page_budget_window_seconds

ASSUME BudgetAssumption ==
  /\ MaxPagesPerWindow \in Nat \ {0}
  /\ PageBudgetWindow \in Nat \ {0}

\* Slip: the cutoff is the end of the window rather than its start.
HasLeft_Early(stamp, t) == stamp <= t

HasLeft(stamp, t) == stamp <= t - PageBudgetWindow

\* prune: from the front, while the oldest has left the window.  What stands behind a
\* stamp that has not is kept, whatever it says.
FirstKept(dispatched, t) ==
  CHOOSE i \in 1..Len(dispatched) + 1 :
    /\ \A j \in 1..i - 1 : HasLeft(dispatched[j], t)
    /\ i <= Len(dispatched) => ~HasLeft(dispatched[i], t)

Pruned(dispatched, t) == SubSeq(dispatched, FirstKept(dispatched, t), Len(dispatched))

\* remaining
Remaining(dispatched, t) ==
  LET left == MaxPagesPerWindow - Len(Pruned(dispatched, t)) IN IF left >= 0 THEN left ELSE 0

\* Slip: the unit is stamped with the cutoff.
Taken_Cutoff(dispatched, t) == Append(Pruned(dispatched, t), t - PageBudgetWindow)

\* take: refused at the limit, else stamped at the back.
MayTake(dispatched, t) == Len(Pruned(dispatched, t)) < MaxPagesPerWindow
Taken(dispatched, t) == Append(Pruned(dispatched, t), t)

=============================================================================
