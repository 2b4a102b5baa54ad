----------------------------- MODULE MCDistress -----------------------------
(***************************************************************************)
(* Two relays, one piece of trouble, one response in flight and another    *)
(* behind it. The places: a watch on both relays, and the phone has yet to *)
(* find the one that takes anything; a relay that takes the attempt and    *)
(* refuses the subscription beside one that does the opposite; a watch on  *)
(* a relay that takes nothing, and the phone told so, beside one that      *)
(* takes the attempt; and one where no relay takes anything.               *)
(***************************************************************************)
EXTENDS Distress

CONSTANTS r1, r2

Both == {r1, r2}

MCPlaces ==
    {[serves |-> Both, takes |-> {r2}, box |-> Both, given |-> {r1}, knows |-> TRUE],
     [serves |-> {r1}, takes |-> {r2}, box |-> Both, given |-> Both, knows |-> FALSE],
     [serves |-> Both, takes |-> {r1}, box |-> {r2}, given |-> {r1}, knows |-> TRUE],
     [serves |-> {r2}, takes |-> {}, box |-> {r2}, given |-> {r1}, knows |-> TRUE]}
=============================================================================
