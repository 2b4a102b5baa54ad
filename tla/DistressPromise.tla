-------------------------- MODULE DistressPromise --------------------------
(***************************************************************************)
(* What the phone promises whoever presses Distress (transport.ts, "Sends  *)
(* Distress and keeps sending until a human acknowledges it"): it calls    *)
(* until they stand down or a person has answered this Distress, and ends  *)
(* for no other reason but one. An answer to an earlier Distress names the *)
(* attempt it is given to; where the executor then opens a ladder for that *)
(* attempt, the phone may take the answer for one to this Distress.        *)
(***************************************************************************)
VARIABLES
    call,     \* "calling", "acknowledged", "misread" or "cancelled"
    person,   \* a person has answered a ladder this Distress is part of
    crossed   \* an attempt answered for an earlier Distress was escalated too

Init == call = "calling" /\ person = FALSE /\ crossed = FALSE

PersonAnswers == person' = TRUE /\ UNCHANGED <<call, crossed>>
Escalated == crossed' = TRUE /\ UNCHANGED <<call, person>>
Acknowledged == call = "calling" /\ person /\ call' = "acknowledged" /\ UNCHANGED <<person, crossed>>
Misread == call = "calling" /\ crossed /\ call' = "misread" /\ UNCHANGED <<person, crossed>>
StandDown == call = "calling" /\ call' = "cancelled" /\ UNCHANGED <<person, crossed>>

Next == PersonAnswers \/ Escalated \/ Acknowledged \/ Misread \/ StandDown

Spec == Init /\ [][Next]_<<call, person, crossed>>
=============================================================================
