-------------------------- MODULE MCLadderRegistry --------------------------
\* Two operators, one of them retrying under fresh ids; one human and one agent.
EXTENDS LadderRegistry

CONSTANTS op1, op2, a1, a2, b1, wren, agent

MCOperators == {op1, op2}
MCAttempts == {a1, a2, b1}
MCSender == [a \in MCAttempts |-> IF a = b1 THEN op2 ELSE op1]
MCAuthors == {wren, agent}
MCHumans == {wren}

=============================================================================
