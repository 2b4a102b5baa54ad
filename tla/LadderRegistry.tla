--------------------------- MODULE LadderRegistry ---------------------------
(***************************************************************************)
(* The ladder registry driven as the watchtower drives it: attempts open   *)
(* or join ladders, a one-second sweep reaps and ticks, people answer, and *)
(* the wall clock runs and is sometimes corrected backwards.               *)
(*                                                                         *)
(* escalation.ts exports the registry; executor.ts calls open on a 20911,  *)
(* acknowledge on a distress-ack, and reap then tickAll in its sweep.      *)
(***************************************************************************)
EXTENDS Ladder

CONSTANTS
  MaxClock,      \* bound: the last second modelled
  LastOpen,      \* bound: no ladder opens after this second
  SweepLag,      \* how far the clock may run past an overdue sweep
  MaxStepBacks   \* bound: clock corrections

ASSUME RegistryAssumption ==
  /\ MaxClock \in Nat /\ LastOpen \in Nat /\ SweepLag \in Nat /\ MaxStepBacks \in Nat

VARIABLES
  now,        \* Math.floor(Date.now() / 1000)
  ladders,    \* LadderRegistry.ladders
  joined,     \* LadderRegistry.joined
  stepBacks   \* clock corrections so far

vars == <<now, ladders, joined, stepBacks>>

TypeOK ==
  /\ now \in Nat
  /\ ladders \in [Attempts -> LadderRecord \cup {Absent}]
  /\ joined \in [Attempts -> Attempts \cup {NoAttempt}]
  /\ stepBacks \in Nat

Init ==
  /\ now = 0
  /\ ladders = [a \in Attempts |-> Absent]
  /\ joined = [a \in Attempts |-> NoAttempt]
  /\ stepBacks = 0

\* A 20911, new or redelivered, with whatever the roster offers at that moment.
Open(a, reachable, contact) ==
  /\ now <= LastOpen
  /\ ladders' = OpenedLadders(ladders, joined, a, StartLadder(reachable, contact, now))
  /\ joined' = OpenedJoined(ladders, joined, a)
  /\ UNCHANGED <<now, stepBacks>>

\* The executor's sweep: reap first, then tick what is left.
Sweep ==
  /\ ladders' = TickedAll(Reaped(ladders, now), now)
  /\ joined' = ReapedJoined(ladders, joined, now)
  /\ UNCHANGED <<now, stepBacks>>

\* An acknowledgement naming any id the responder was shown, through the alias.
Acknowledge(a, by) ==
  /\ Known(ladders, joined, a)
  /\ ladders' = [ladders EXCEPT ![Canonical(joined, a)] = AcknowledgeLadder(@, by, now)]
  /\ UNCHANGED <<now, joined, stepBacks>>

\* The sweep is a one-second interval: it may lag, by SweepLag at most.
NotOverdue ==
  \A a \in Attempts :
    /\ ladders[a].state = "paging" => now - ladders[a].since < PagingSeconds + SweepLag
    /\ ladders[a].state = "contact" => now - ladders[a].since < ContactSeconds + SweepLag

Tick ==
  /\ now < MaxClock
  /\ NotOverdue
  /\ now' = now + 1
  /\ UNCHANGED <<ladders, joined, stepBacks>>

StepBack ==
  /\ stepBacks < MaxStepBacks
  /\ stepBacks' = stepBacks + 1
  /\ now' \in {t \in 0..MaxClock : t < now}
  /\ UNCHANGED <<ladders, joined>>

Next ==
  \/ \E a \in Attempts, reachable, contact \in BOOLEAN : Open(a, reachable, contact)
  \/ Sweep
  \/ \E a \in Attempts, by \in Authors : Acknowledge(a, by)
  \/ Tick
  \/ StepBack

Spec == Init /\ [][Next]_vars

\* The interval keeps firing and time keeps passing; nobody has to answer.
FairSpec == Spec /\ WF_vars(Sweep) /\ WF_vars(Tick)

-----------------------------------------------------------------------------
(* Properties *)

\* One emergency, one ladder: an operator never has two ladders running, whatever
\* order retries, answers, reaping and clock corrections come in (escalation.ts:182-212).
OneLivePerOperator ==
  \A a, b \in Attempts :
    IsLive(ladders[a]) /\ IsLive(ladders[b]) /\ Sender[a] = Sender[b] => a = b

\* A retry's alias names a ladder that is still there, of the same operator, and a
\* retry that joined one never has a ladder of its own (escalation.ts:216, 242-246, 303-306).
AliasesResolve ==
  \A a \in Attempts :
    joined[a] # NoAttempt =>
      /\ ladders[joined[a]] # Absent
      /\ Sender[joined[a]] = Sender[a]
      /\ ladders[a] = Absent

\* Nobody but a human ever stops a ladder (escalation.ts:140-151).
OnlyHumansAcknowledge ==
  \A a \in Attempts : ladders[a].state = "acknowledged" => ladders[a].by \in Humans

\* A running ladder is never dropped, an answer is never taken back, and an
\* exhausted ladder only ever becomes answered or forgotten (escalation.ts:290-294).
LadderOnlyMovesOn ==
  \A a \in Attempts :
    /\ IsLive(ladders[a]) => ladders'[a] # Absent
    /\ ladders[a].state = "contact" => ladders'[a].state # "paging"
    /\ ladders[a].state = "exhausted" =>
         ladders'[a] \in {ladders[a], Absent} \/ ladders'[a].state = "acknowledged"
    /\ ladders[a].state = "acknowledged" => ladders'[a] \in {ladders[a], Absent}
OnlyMovesOn == [][LadderOnlyMovesOn]_vars

\* An id a responder was shown keeps resolving to the same ladder for as long as that
\* ladder exists, so a late answer never stops a different one (escalation.ts:211-212).
IdKeepsItsLadder ==
  \A a \in Attempts :
    /\ Known(ladders, joined, a)
    /\ ladders'[Canonical(joined, a)] # Absent
    => Canonical(joined', a) = Canonical(joined, a)
AckFindsItsLadder == [][IdKeepsItsLadder]_vars

\* A clock correction costs the operator one window and never the size of the jump: a
\* sweep leaves no running ladder stamped ahead of the clock (escalation.ts:110-123).
OneWindowAtMost ==
  [][Sweep => \A a \in Attempts : IsLive(ladders'[a]) => ladders'[a].since <= now]_vars

\* Every ladder ends, in a human or in "nobody is coming", though nobody answers and
\* the clock is corrected backwards under it (escalation.ts:110-123).
LadderEnds == \A a \in Attempts : IsLive(ladders[a]) ~> ~IsLive(ladders[a])

=============================================================================
