------------------------------- MODULE Ladder -------------------------------
(***************************************************************************)
(* The escalation ladder as values: packages/core/src/escalation.ts.       *)
(*                                                                         *)
(* A ladder belongs to the Distress attempt that opened it, so its         *)
(* operator is the sender of that attempt.  The registry is a pair of      *)
(* total functions over attempts: `ladders' (Absent where the map has no   *)
(* entry) and `joined' (NoAttempt where a retry has no alias).  Every      *)
(* operator here is pure and takes the clock as an argument, as the        *)
(* TypeScript does; the modules that extend this one own the state.        *)
(***************************************************************************)
EXTENDS Integers

CONSTANTS
  Operators,         \* keys that send Distress
  Attempts,          \* ids of 20911 events: a phone signs a fresh one per attempt
  Sender,            \* the operator that signed each attempt
  Authors,           \* whoever may be named in an acknowledgement
  Humans,            \* the authors whose kind is human
  NoAuthor,          \* acknowledgedBy: null
  NoAttempt,         \* no entry in the alias map
  PagingSeconds,     \* LadderWindows.pagingSeconds
  ContactSeconds,    \* LadderWindows.contactSeconds
  RetentionSeconds   \* ladder_retention_seconds

ASSUME LadderAssumption ==
  /\ Sender \in [Attempts -> Operators]
  /\ Humans \subseteq Authors
  /\ NoAuthor \notin Authors
  /\ NoAttempt \notin Attempts
  /\ PagingSeconds \in Nat \ {0}
  /\ ContactSeconds \in Nat \ {0}
  /\ RetentionSeconds \in Nat \ {0}

LiveStates == {"paging", "contact"}
LadderState == LiveStates \cup {"exhausted", "acknowledged"}

\* `paged', the roster's names, is wording: only whether it is empty matters,
\* and that only when the ladder opens.
LadderRecord ==
  [state   : LadderState,
   since   : Nat,
   contact : BOOLEAN,
   by      : Authors \cup {NoAuthor}]

Absent == [state |-> "absent", since |-> 0, contact |-> FALSE, by |-> NoAuthor]

IsLive(l) == l.state \in LiveStates
IsTerminal(l) == l.state \in {"exhausted", "acknowledged"}

(***************************************************************************)
(* One ladder.                                                             *)
(***************************************************************************)

\* startLadder: an empty pageable roster never waits out a paging window.
StartLadder(reachable, contact, now) ==
  [state   |-> IF reachable THEN "paging" ELSE IF contact THEN "contact" ELSE "exhausted",
   since   |-> now,
   contact |-> contact,
   by      |-> NoAuthor]

\* Slip: the contact window never closes.
WindowClosed_OnlyPaging(l, now) == l.state = "paging" /\ now - l.since >= PagingSeconds

WindowClosed(l, now) ==
  \/ l.state = "paging" /\ now - l.since >= PagingSeconds
  \/ l.state = "contact" /\ now - l.since >= ContactSeconds

\* Slip: a stepped-back clock is left to catch up by itself.
AdvanceLadder_NoReanchor(l, now) ==
  IF IsLive(l) /\ WindowClosed(l, now)
  THEN [l EXCEPT !.state = IF @ = "paging" /\ l.contact THEN "contact" ELSE "exhausted",
                 !.since = now]
  ELSE l

\* advanceLadder: a clock that stepped back re-anchors the window.
AdvanceLadder(l, now) ==
  IF ~IsLive(l) THEN l
  ELSE IF now < l.since THEN [l EXCEPT !.since = now]
  ELSE IF WindowClosed(l, now)
  THEN [l EXCEPT !.state = IF @ = "paging" /\ l.contact THEN "contact" ELSE "exhausted",
                 !.since = now]
  ELSE l

\* Slip: anything that answers stops the ladder, an agent included.
AcknowledgeLadder_Anyone(l, by, now) ==
  IF l.state # "acknowledged"
  THEN [l EXCEPT !.state = "acknowledged", !.since = now, !.by = by]
  ELSE l

\* acknowledge: only a human, at most once, a late answer to an exhausted one included.
AcknowledgeLadder(l, by, now) ==
  IF by \in Humans /\ l.state # "acknowledged"
  THEN [l EXCEPT !.state = "acknowledged", !.since = now, !.by = by]
  ELSE l

(***************************************************************************)
(* The registry: one emergency, one ladder.                                *)
(***************************************************************************)

Canonical(js, a) == IF js[a] = NoAttempt THEN a ELSE js[a]

Known(ls, js, a) == ls[Canonical(js, a)] # Absent

\* liveFor, as the set of ladders it would look through.
LiveFor(ls, op) == {b \in Attempts : Sender[b] = op /\ IsLive(ls[b])}

\* The three outcomes of LadderRegistry.open: known, joined to a live ladder, started.
Starts(ls, js, a) == ~Known(ls, js, a) /\ LiveFor(ls, Sender[a]) = {}
Joins(ls, js, a) == ~Known(ls, js, a) /\ LiveFor(ls, Sender[a]) # {}

\* Slips: keyed on the event id alone; a redelivery of a finished ladder's own id is
\* taken for a retry; the alias holds the ladder rather than its id.
OpenedLadders_PerEvent(ls, js, a, l) == IF ~Known(ls, js, a) THEN [ls EXCEPT ![a] = l] ELSE ls
OpenedJoined_EvenKnown(ls, js, a) ==
  IF LiveFor(ls, Sender[a]) \ {a} # {}
  THEN [js EXCEPT ![a] = CHOOSE b \in LiveFor(ls, Sender[a]) \ {a} : TRUE]
  ELSE js

OpenedJoined_StoresLadder(ls, js, a) ==
  IF Joins(ls, js, a)
  THEN [js EXCEPT ![a] = ls[CHOOSE b \in LiveFor(ls, Sender[a]) : TRUE]]
  ELSE js

OpenedLadders(ls, js, a, l) == IF Starts(ls, js, a) THEN [ls EXCEPT ![a] = l] ELSE ls
OpenedJoined(ls, js, a) ==
  IF Joins(ls, js, a)
  THEN [js EXCEPT ![a] = CHOOSE b \in LiveFor(ls, Sender[a]) : TRUE]
  ELSE js

TickedAll(ls, now) == [b \in Attempts |-> AdvanceLadder(ls[b], now)]

\* What tickAll returns: the ladders whose state moved, a re-anchored one not among them.
Transitions(ls, now) == {b \in Attempts : AdvanceLadder(ls[b], now).state # ls[b].state}

\* Slips: any old ladder is dropped, running or not; the aliases are left behind.
Reapable_AnyState(l, now) == l # Absent /\ now - l.since >= RetentionSeconds
ReapedJoined_Kept(ls, js, now) == js

Reapable(l, now) == IsTerminal(l) /\ now - l.since >= RetentionSeconds
Reaped(ls, now) == [b \in Attempts |-> IF Reapable(ls[b], now) THEN Absent ELSE ls[b]]
ReapedJoined(ls, js, now) ==
  [b \in Attempts |-> IF js[b] # NoAttempt /\ Reapable(ls[Canonical(js, b)], now)
                      THEN NoAttempt ELSE js[b]]

=============================================================================
