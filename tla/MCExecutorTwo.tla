---------------------------- MODULE MCExecutorTwo ---------------------------
\* From the moment wren has acknowledged two operators, both of whose phones keep sending.
EXTENDS Executor

CONSTANTS ash, birch, a1, a2, a3, b1, b2, wren, raven

MCOperators == {ash, birch}
MCAttempts == {a1, a2, a3, b1, b2}
MCSender == [a \in MCAttempts |-> IF a \in {b1, b2} THEN birch ELSE ash]
MCPeople == {wren, raven}
MCOnlyWren == {wren}
MCExpires == (wren :> 9 @@ raven :> 2)
MCCreatedAt == (a1 :> 0 @@ a2 :> 0 @@ a3 :> 2 @@ b1 :> 0 @@ b2 :> 1)

\* a1 and b1 opened ladders at 0, their pages went out, and wren answered both.
HeldInit ==
  /\ now = 0 /\ sweepDue = FALSE /\ stepBacks = 0 /\ restarts = 0
  /\ ladders = [a \in Attempts |-> IF a \in {a1, b1} THEN AcknowledgeLadder(StartLadder(TRUE, FALSE, 0), wren, 0)
                                   ELSE Absent]
  /\ held = [o \in Operators |-> [ladder |-> IF o = ash THEN a1 ELSE b1, by |-> wren, at |-> 0]]
  /\ seen = {a1, b1}
  /\ budget = <<0, 0>>
  /\ Idle

HeldSpec == HeldInit /\ [][Next]_vars

=============================================================================
