----------------------------- MODULE MCExecutor -----------------------------
\* One operator whose phone keeps sending, and two people on call with channels.
EXTENDS Executor

CONSTANTS ash, a1, a2, wren, raven

MCOperators == {ash}
MCAttempts == {a1, a2}
MCSender == [a \in MCAttempts |-> ash]
MCPeople == {wren, raven}
MCExpires == (wren :> 2 @@ raven :> 9)
MCCreatedAt == (a1 :> 0 @@ a2 :> 1)

=============================================================================
