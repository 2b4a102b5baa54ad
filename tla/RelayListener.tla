--------------------------- MODULE RelayListener ---------------------------
(***************************************************************************)
(* watchtower/src/shared/relay-listener.ts: one subscription per relay,    *)
(* each of which heals itself. A slot is                                   *)
(*   "off"       never opened, or let go of by stop()                      *)
(*   "opened"    connecting, or subscribed and not answered, silent or not *)
(*   "answered"  a real EOSE or an event came back: listening              *)
(*   "closed"    closed or failed, and a retry is armed                    *)
(***************************************************************************)
CONSTANT Relays

VARIABLE slot

SlotStates == {"off", "opened", "answered", "closed"}

\* listening(): the relays whose subscription is open and was answered.
Listening(s) == {r \in Relays : s[r] = "answered"}

Moves(r, from, to) == slot[r] \in from /\ slot' = [slot EXCEPT ![r] = to]

\* start() opens every slot at once.
Started == slot' = [r \in Relays |-> "opened"]

\* stop() clears the retries and closes what is open.
Stopped == slot' = [r \in Relays |-> "off"]

\* The retry timer fires: a new subscription, the closed one behind it.
Reopens(r) == Moves(r, {"closed"}, "opened")

\* An EOSE or an event.
Answers(r) == Moves(r, {"opened"}, "answered")

\* The connection never came, or went, or the relay closed the subscription.
Goes(r) == Moves(r, {"opened", "answered"}, "closed")
=============================================================================
