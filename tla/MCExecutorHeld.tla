--------------------------- MODULE MCExecutorHeld ---------------------------
\* From the moment wren has acknowledged a1: one operator whose phone keeps sending.
EXTENDS Executor

CONSTANTS ash, a1, a2, a3, a4, wren, raven

MCOperators == {ash}
MCAttempts == {a1, a2, a3, a4}
MCSender == [a \in MCAttempts |-> ash]
MCPeople == {wren, raven}
MCOnlyWren == {wren}
MCExpires == (wren :> 3 @@ raven :> 9)
MCCreatedAt == (a1 :> 0 @@ a2 :> 0 @@ a3 :> 2 @@ a4 :> 3)

\* Every attempt inside one re-page interval: all arrive at 0, the last second they are not stale.
MCAtOnce == [a \in MCAttempts |-> -1]

\* a1 opened a ladder at 0, its page went out, and wren answered it.
HeldInit ==
  /\ now = 0 /\ sweepDue = FALSE /\ stepBacks = 0 /\ restarts = 0
  /\ ladders = [a \in Attempts |-> IF a = a1 THEN AcknowledgeLadder(StartLadder(TRUE, FALSE, 0), wren, 0)
                                   ELSE Absent]
  /\ held = [o \in Operators |-> [ladder |-> a1, by |-> wren, at |-> 0]]
  /\ seen = {a1}
  /\ budget = <<0>>
  /\ Idle

HeldSpec == HeldInit /\ [][Next]_vars

=============================================================================
