------------------------------ MODULE Distress ------------------------------
(***************************************************************************)
(* The phone that sends a Distress until a person acknowledges it:         *)
(* sendDistressUntilAcknowledged (core/src/transport.ts), beside the       *)
(* escalation executor that answers it, over relays that keep nothing.     *)
(*                                                                         *)
(* The phone tells ids apart by whether it sent them (`sent') and whether  *)
(* the executor has named them in a report of a ladder (`laddered'). An id *)
(* is "mine", sent by this run; "old", of the ladder an earlier run of the *)
(* same operator may have left there; or "again", one attempt of this run  *)
(* that the executor answers from a hold on the old ladder and may then    *)
(* escalate too. Nothing tells one "mine" from another: the only answer to *)
(* name one beside an id that is not ours is the one it was given itself.  *)
(*                                                                         *)
(* The watch names its executor, so closure is attributed. Timers fire at  *)
(* any time, and in the end. Once a person's answer is latched every wait  *)
(* ends at once, so latching it and returning it are one step; so are a    *)
(* stop and the loop that sees it.                                         *)
(***************************************************************************)
EXTENDS Integers, FiniteSets

CONSTANTS
    Relays,
    Places,      \* what the relays are like: those that answer a subscription,
                 \* those that take a write, those the executor is on, those the
                 \* phone is given first, and whether it is told where the watch
                 \* has been heard (watchStateAgeMs)
    MaxAir,      \* responses in flight at once, before one that follows another
    MaxTrouble   \* how many times something goes wrong that need not

ASSUME DistressAssumption ==
    /\ Places \subseteq [serves : SUBSET Relays, takes : SUBSET Relays,
                         box : SUBSET Relays, given : SUBSET Relays, knows : BOOLEAN]
    /\ MaxTrouble \in Nat /\ MaxAir \in Nat \ {0}

VARIABLES
    pc,           \* "sending", "window", "backoff", "acknowledged", "cancelled"
    targets,      \* where this Distress goes: it only widens
    out, took,    \* relays the attempt is still with, and those that took it
    entry,        \* the listener on each relay
    captured,     \* listeners that had been answered as the window began, still open
    answeredNow,  \* something answered since this attempt began
    laddered,     \* of the ids that may be named beside another, those a ladder's report named
    hearing,      \* what was last said about listening
    verdict,      \* what was said of this attempt's window
    copies,       \* relays carrying an attempt the executor has not had
    ladder,       \* the operator's ladder: [of, state]
    hold,         \* the ladder whose acknowledgement is held, or "none"
    owed,         \* an attempt a hold has answered and that may be escalated yet
    air,          \* responses on their way to the phone: [msg, on]
    place,        \* the one of Places this is
    person,       \* ghost: a person answered a ladder this run is part of
    crossed,      \* ghost: "again" was given an answer to an earlier run, then escalated
    closedOn,     \* ghost: what the answer that ended the call named
    passed,       \* ghost: relays an answer went by on, this window, unheard
    trouble

phone == <<pc, targets, out, took, entry, captured, answeredNow, laddered, hearing, verdict,
           closedOn>>
box == <<ladder, hold, owed, person, crossed>>
vars == <<phone, box, copies, air, place, passed, trouble>>

Running == pc \in {"sending", "window", "backoff"}

\* A ladder is of this run, of an earlier one, or of an earlier one that an
\* attempt of this run has joined.
Opened == {"mine", "again", "old", "joined"}
Id(of) == IF of = "joined" THEN "old" ELSE of
NoLadder == [of |-> "none", state |-> "none"]

Messages == [kind : {"person", "node"}, by : {"executor", "watch"},
             names : SUBSET {"mine", "again", "old"}]

Troubled == trouble < MaxTrouble /\ trouble' = trouble + 1

-----------------------------------------------------------------------------
(* What the phone says about its listening.                                *)

Open(e) == e \in {"opening", "deaf", "silent", "answered"}

\* Slip: said once, and never taken back.
Said_Once(es) ==
    IF hearing # "unknown" THEN hearing
    ELSE IF \E r \in Relays : es[r] = "answered" THEN "somewhere"
    ELSE IF \E r \in Relays : es[r] \in {"opening", "deaf"} THEN hearing
    ELSE "nowhere"

\* changed(): nothing is said while some relay may still answer.
Said(es) ==
    IF \E r \in Relays : es[r] = "answered" THEN "somewhere"
    ELSE IF \E r \in Relays : es[r] \in {"opening", "deaf"} THEN hearing
    ELSE "nowhere"

\* Slip: the window keeps the relay, not the listener it had there.
Moves_KeepsRelay(r, to) ==
    /\ Running
    /\ entry' = [entry EXCEPT ![r] = to]
    /\ hearing' = Said(entry')
    /\ UNCHANGED captured
    /\ air' = IF to # "closed" THEN air
              ELSE {a \in {[a EXCEPT !.on = @ \ {r}] : a \in air} : a.on # {}}
    /\ UNCHANGED <<pc, targets, out, took, answeredNow, laddered, verdict, closedOn,
                   copies, box, place, passed>>

\* A listener moves; what was on its way by it is gone with it.
Moves(r, to) ==
    /\ Running
    /\ entry' = [entry EXCEPT ![r] = to]
    /\ hearing' = Said(entry')
    /\ captured' = IF to = "closed" THEN captured \ {r} ELSE captured
    /\ air' = IF to # "closed" THEN air
              ELSE {a \in {[a EXCEPT !.on = @ \ {r}] : a \in air} : a.on # {}}
    /\ UNCHANGED <<pc, targets, out, took, answeredNow, laddered, verdict, closedOn,
                   copies, box, place, passed>>

\* A real end-of-stored-events, or an event.
RelayServes(r) ==
    /\ entry[r] \in {"opening", "silent"} /\ r \in place.serves
    /\ Moves(r, "answered") /\ UNCHANGED trouble

RelayRefuses(r) ==
    /\ entry[r] = "opening" /\ r \notin place.serves
    /\ Moves(r, "closed") /\ UNCHANGED trouble

\* The request is dropped without a word, or the connection goes.
RelayIgnores(r) == entry[r] = "opening" /\ Moves(r, "deaf") /\ Troubled
Lost(r) == Open(entry[r]) /\ Moves(r, "closed") /\ Troubled

GoesSilent(r) == entry[r] = "deaf" /\ Moves(r, "silent") /\ UNCHANGED trouble

\* reopenLater
Reopens(r) == entry[r] = "closed" /\ Moves(r, "opening") /\ UNCHANGED trouble

-----------------------------------------------------------------------------
(* The loop.                                                               *)

\* Slip: only what closed is asked again.
Relistened_Closed(where) ==
    [r \in Relays |-> IF r \in where /\ entry[r] \in {"none", "closed"} THEN "opening"
                      ELSE entry[r]]

\* A relay first named now, and relisten: wherever this phone is not
\* listening, it asks again.
Relistened(where) ==
    [r \in Relays |-> IF r \in where /\ entry[r] \in {"none", "closed", "silent"}
                      THEN "opening" ELSE entry[r]]

Attempt ==
    /\ pc = "backoff"
    /\ targets' \in {targets, Relays}
    /\ pc' = "sending" /\ out' = targets' /\ took' = {}
    /\ answeredNow' = FALSE /\ verdict' = "none"
    /\ entry' = Relistened(targets')
    /\ hearing' = Said(entry')
    /\ UNCHANGED <<captured, laddered, closedOn, box, copies, air, place, passed, trouble>>

\* A relay says OK. The first begins the window.
Takes(r) ==
    /\ Running /\ r \in out /\ r \in place.takes
    /\ out' = out \ {r} /\ took' = took \cup {r}
    /\ copies' = copies \cup ({r} \cap place.box)
    /\ IF pc = "sending"
       THEN /\ pc' = "window"
            /\ captured' = {q \in Relays : entry[q] = "answered"}
            /\ passed' = {}
       ELSE UNCHANGED <<pc, captured, passed>>
    /\ UNCHANGED <<targets, entry, answeredNow, laddered, hearing, verdict, closedOn, box,
                   air, place, trouble>>

\* Slip: an attempt no relay takes is waited on for good.
Fails_Waits(r) ==
    /\ Running /\ r \in out
    /\ out' = out \ {r}
    /\ \/ r \notin place.takes /\ UNCHANGED <<copies, trouble>>
       \/ Troubled /\ copies' \in {copies, copies \cup ({r} \cap place.box)}
    /\ UNCHANGED pc
    /\ UNCHANGED <<targets, took, entry, captured, answeredNow, laddered, hearing,
                   verdict, closedOn, box, air, place, passed>>

\* It refuses, or is not reached, or says nothing in time, and then may have it.
Fails(r) ==
    /\ Running /\ r \in out
    /\ out' = out \ {r}
    /\ \/ r \notin place.takes /\ UNCHANGED <<copies, trouble>>
       \/ Troubled /\ copies' \in {copies, copies \cup ({r} \cap place.box)}
    /\ pc' = IF pc = "sending" /\ out' = {} THEN "backoff" ELSE pc
    /\ UNCHANGED <<targets, took, entry, captured, answeredNow, laddered, hearing,
                   verdict, closedOn, box, air, place, passed>>

\* answerable(took)
Where == IF place.knows THEN place.box ELSE took

\* Slip: only where it listens as the window ends counts.
WindowEnds_ListensNow ==
    /\ pc = "window" /\ pc' = "backoff"
    /\ verdict' = IF answeredNow THEN "answered"
                  ELSE IF {r \in Relays : entry[r] = "answered"} \cap Where # {} THEN "no-answer" ELSE "could-not-hear"
    /\ captured' = {} /\ passed' = {}
    /\ UNCHANGED <<targets, out, took, entry, answeredNow, laddered, hearing, closedOn,
                   box, copies, air, place, trouble>>

\* Said of the attempt whose window ran out.
WindowEnds ==
    /\ pc = "window" /\ pc' = "backoff"
    /\ verdict' = IF answeredNow THEN "answered"
                  ELSE IF captured \cap Where # {} THEN "no-answer" ELSE "could-not-hear"
    /\ captured' = {} /\ passed' = {}
    /\ UNCHANGED <<targets, out, took, entry, answeredNow, laddered, hearing, closedOn,
                   box, copies, air, place, trouble>>

\* silence: every listener is let go, and nothing it says is heard.
Silence ==
    /\ entry' = [r \in Relays |-> IF entry[r] = "none" THEN "none" ELSE "closed"]
    /\ captured' = {} /\ air' = {}

\* The operator stands down.
Stop ==
    /\ Running /\ pc' = "cancelled" /\ Silence
    /\ UNCHANGED <<targets, out, took, answeredNow, laddered, hearing, verdict, closedOn,
                   box, copies, place, passed, trouble>>

-----------------------------------------------------------------------------
(* heard(): one response, from one relay.                                  *)

Ours == {"mine", "again"} \cup laddered

\* Slip: one id of this Distress among those it names is enough.
Closes_NamesOne(m) ==
    /\ m.kind = "person" /\ m.by = "executor"
    /\ m.names \cap Ours # {}

\* A person's answer to this Distress, that this phone can attribute: every id
\* it names is this Distress's, or one is a ladder the watch said it is part of.
Closes(m) ==
    /\ m.kind = "person" /\ m.by = "executor"
    /\ m.names \subseteq Ours \/ m.names \cap laddered # {}

\* Whoever runs the ladder says which ladder this run is in.
Laddered(m) ==
    IF m.kind = "node" /\ m.by = "executor" THEN m.names \ {"mine"} ELSE {}

Hear(a, r) ==
    /\ Running /\ a \in air /\ r \in a.on
    /\ \/ /\ a.msg.names \cap Ours = {}
          /\ air' = (air \ {a}) \cup (IF a.on = {r} THEN {} ELSE {[a EXCEPT !.on = @ \ {r}]})
          /\ UNCHANGED <<pc, answeredNow, laddered, entry, captured, closedOn>>
       \/ /\ a.msg.names \cap Ours # {} /\ Closes(a.msg)
          /\ pc' = "acknowledged" /\ closedOn' = a.msg.names /\ Silence
          /\ UNCHANGED <<answeredNow, laddered>>
       \/ /\ a.msg.names \cap Ours # {} /\ ~Closes(a.msg)
          /\ air' = air \ {a} /\ answeredNow' = TRUE
          /\ laddered' = laddered \cup Laddered(a.msg)
          /\ UNCHANGED <<pc, entry, captured, closedOn>>
    /\ UNCHANGED <<targets, out, took, hearing, verdict, box, copies, place, passed, trouble>>

-----------------------------------------------------------------------------
(* The executor.                                                           *)

\* A response goes out where the executor is, once, and is kept by nobody.
Says(m) ==
    LET on == {r \in place.box : entry[r] = "answered"}
    IN  /\ air' = IF on = {} THEN air ELSE air \cup {[msg |-> m, on |-> on]}
        /\ passed' = IF pc = "window" THEN passed \cup (place.box \ on) ELSE passed

\* The bound on what is in flight: one more where a report follows the answer.
Room == Cardinality(air) < MaxAir
RoomBehindAnAnswer == Cardinality(air) <= MaxAir

Message(kind, ids) == [kind |-> kind, by |-> "executor", names |-> ids]

Live == ladder.state = "live"

\* openLadder, where one is live: the attempt joins it, and is told where it is.
Joins(id) ==
    /\ ladder' = IF ladder.of = "old" THEN [ladder EXCEPT !.of = "joined"] ELSE ladder
    /\ Says(Message("node", {id, Id(ladder.of)}))

\* openLadder, where none is.
Opens(id) ==
    /\ ladder' = [of |-> id, state |-> "live"]
    /\ Says(Message("node", {id}))

\* handleDistress: a live ladder is joined, a hold answers, or a ladder opens.
Arrives ==
    /\ Running /\ Room /\ copies # {} /\ copies' = {}
    /\ \/ Live /\ Joins("mine") /\ UNCHANGED owed
       \/ ~Live /\ hold = "none" /\ Opens("mine") /\ UNCHANGED owed
       \/ /\ ~Live /\ hold # "none" /\ UNCHANGED ladder
          /\ \E id \in {"mine"} \cup (IF hold = "old" /\ owed = "none" THEN {"again"} ELSE {}) :
               /\ Says(Message("person", {id, Id(hold)}))
               /\ owed' = IF hold = "old" /\ id = "mine" THEN owed ELSE id
    /\ UNCHANGED <<phone, hold, person, crossed, place, trouble>>

\* unpaged, and handleWake: an attempt a hold has answered is escalated as new,
\* and the hold ends, unless it was replaced, or a wake finds a ladder running.
Escalates ==
    /\ Running /\ RoomBehindAnAnswer /\ owed # "none" /\ owed' = "none"
    /\ hold' \in {"none", hold}
    /\ owed = "again" /\ hold' = "old" => Live
    /\ IF Live THEN Joins(owed) ELSE Opens(owed)
    /\ crossed' = (crossed \/ owed = "again")
    /\ UNCHANGED <<phone, person, copies, place, trouble>>

\* handleAck: a person answers a ladder, an exhausted one included.
Answers ==
    /\ Running /\ Room /\ ladder # NoLadder
    /\ hold' = ladder.of
    /\ person' = (person \/ ladder.of # "old")
    /\ ladder' = NoLadder
    /\ Says(Message("person", {Id(ladder.of)}))
    /\ UNCHANGED <<phone, owed, crossed, copies, place, trouble>>

RunsOut ==
    /\ Running /\ Room /\ Live
    /\ ladder' = [ladder EXCEPT !.state = "exhausted"]
    /\ Says(Message("node", {Id(ladder.of)}))
    /\ UNCHANGED <<phone, hold, owed, person, crossed, copies, place, trouble>>

HoldEnds ==
    /\ Running /\ hold # "none" /\ hold' = "none"
    /\ UNCHANGED <<phone, ladder, owed, person, crossed, copies, air, place, passed, trouble>>

Restarts ==
    /\ Running /\ <<ladder, hold, owed>> # <<NoLadder, "none", "none">> /\ Troubled
    /\ ladder' = NoLadder /\ hold' = "none" /\ owed' = "none"
    /\ UNCHANGED <<phone, person, crossed, copies, air, place, passed>>

\* Whoever holds the watch key can sign a response too, naming all there is.
WatchKeySays ==
    /\ Running /\ Room /\ Troubled
    /\ \E kind \in {"person", "node"} :
         Says([kind |-> kind, by |-> "watch", names |-> {"mine", "old"}])
    /\ UNCHANGED <<phone, box, copies, place>>

-----------------------------------------------------------------------------
Init ==
    /\ place \in Places
    /\ pc = "sending" /\ targets = place.given /\ out = targets /\ took = {}
    /\ entry = [r \in Relays |-> IF r \in targets THEN "opening" ELSE "none"] /\ captured = {}
    /\ answeredNow = FALSE /\ laddered = {} /\ closedOn = {}
    /\ hearing = "unknown" /\ verdict = "none"
    /\ copies = {} /\ air = {} /\ passed = {} /\ trouble = 0
    /\ owed = "none" /\ person = FALSE /\ crossed = FALSE
    /\ \/ ladder \in {NoLadder, [of |-> "old", state |-> "live"]} /\ hold = "none"
       \/ ladder = NoLadder /\ hold = "old"

PhoneNext ==
    \/ Attempt \/ WindowEnds \/ Stop
    \/ \E r \in Relays : Takes(r) \/ Fails(r)
    \/ \E r \in Relays : RelayServes(r) \/ RelayRefuses(r) \/ RelayIgnores(r)
    \/ \E r \in Relays : Lost(r) \/ GoesSilent(r) \/ Reopens(r)
    \/ \E a \in air : \E r \in a.on : Hear(a, r)

BoxNext == Arrives \/ Escalates \/ Answers \/ RunsOut \/ HoldEnds \/ Restarts \/ WatchKeySays

Next == PhoneNext \/ BoxNext

Spec == Init /\ [][Next]_vars

\* The publish to a relay settles; its listener moves on by an answer or by a
\* timer. No two alternatives of either are enabled at once.
Settles(r) == Takes(r) \/ (r \notin place.takes /\ Fails(r))
MovesOn(r) ==
    \/ entry[r] = "opening" /\ RelayServes(r)
    \/ RelayRefuses(r) \/ GoesSilent(r) \/ Reopens(r)

\* Timers fire, a publish settles, a relay that serves answers, and what is
\* in flight arrives. Nothing makes a person answer or the operator stop.
Fairness ==
    /\ WF_vars(Attempt \/ WindowEnds) /\ WF_vars(Arrives)
    /\ \A r \in Relays : WF_vars(Settles(r)) /\ WF_vars(MovesOn(r))
    /\ WF_vars(\E a \in air : \E r \in a.on : Hear(a, r))

FairSpec == Spec /\ Fairness

-----------------------------------------------------------------------------
\* Every variable has its type, and a window counts only listeners still open.
TypeOK ==
    /\ pc \in {"sending", "window", "backoff", "acknowledged", "cancelled"}
    /\ \A s \in {targets, out, took, copies, passed} : s \subseteq Relays
    /\ captured \subseteq {r \in targets : entry[r] = "answered"}
    /\ entry \in [Relays -> {"none", "opening", "deaf", "silent", "answered", "closed"}]
    /\ {answeredNow, person, crossed} \subseteq BOOLEAN
    /\ laddered \subseteq {"again", "old"} /\ closedOn \subseteq {"mine", "again", "old"}
    /\ hearing \in {"unknown", "nowhere", "somewhere"}
    /\ verdict \in {"none", "answered", "no-answer", "could-not-hear"}
    /\ ladder \in [of : Opened, state : {"live", "exhausted"}] \cup {NoLadder}
    /\ hold \in Opened \cup {"none"} /\ owed \in {"none", "mine", "again"}
    /\ air \subseteq [msg : Messages, on : (SUBSET Relays) \ {{}}]
    /\ place \in Places /\ trouble \in 0 .. MaxTrouble

\* The phone says a person has it only when one has answered a ladder this
\* Distress is part of: what it keeps two ids for ("only when the second is
\* here, or in `laddered' below, did they answer this one").
AcknowledgedByAPerson == pc = "acknowledged" => person

\* What the call is to whoever pressed Distress. It was misread when no person
\* had answered this Distress, and what ended it names an attempt of its own
\* beside the earlier Distress it answers.
Promise == INSTANCE DistressPromise WITH
    call <- IF Running THEN "calling"
            ELSE IF pc = "acknowledged" /\ ~person /\ closedOn = {"again", "old"}
                 THEN "misread" ELSE pc

\* The phone stops only when told to, or when a person has answered a ladder
\* this Distress is part of, with one exception: never for a node's message,
\* never for one signed by another key, and for an answer to an earlier
\* Distress only where the attempt it was given to was then escalated too.
KeepsItsPromise == Promise!Spec

\* `no answer' is never said where an answer went by on every relay where one
\* would come.
NoAnswerIsTrue ==
    [][verdict' = "no-answer" /\ verdict # "no-answer" => ~(Where \subseteq passed)]_vars

\* What was last said about listening is true: `nowhere' where nothing answers,
\* `somewhere' only while something does or may yet.
HearingSaidIsTrue ==
    Running =>
      /\ hearing = "nowhere" => \A r \in Relays : entry[r] # "answered"
      /\ hearing = "somewhere" => \E r \in Relays : entry[r] \in {"answered", "opening", "deaf"}

\* Every attempt comes to the point where the operator is told nobody answers.
ComesToTell == []<>(pc = "backoff" \/ ~Running)

\* A relay both are on takes what is sent there, and one serves what is read.
Reachable ==
    /\ targets \cap place.box \cap place.takes # {}
    /\ targets \cap place.box \cap place.serves # {}

\* A person's answer to this run's ladder, while the executor holds it, is
\* learned by the phone whatever was lost on the way: the phone sends again,
\* and the executor answers every attempt.
AnswerIsLearned ==
    <>[](Reachable /\ hold \in {"mine", "again"} /\ ~Live) => <>(~Running)
=============================================================================
