------------------------------ MODULE Hearing -------------------------------
(***************************************************************************)
(* The watch is advertised only where the box can hear a Distress: the     *)
(* escalation executor writes where it hears to a file, at once when that  *)
(* changes and every thirty seconds (executor.ts, shared/hearing.ts), and  *)
(* the daemon, another process, publishes the watch state only on relays   *)
(* it hears on and the file says the executor does (daemon/watchtower.ts). *)
(*                                                                         *)
(* One tick is thirty seconds. Ages are kept instead of times, by the wall *)
(* clock, which may be corrected backwards; `unheard' is real.             *)
(***************************************************************************)
EXTENDS Integers, FiniteSets, RelayListener

CONSTANTS
    MaxAge,       \* HEARING_MAX_AGE_SECONDS, in ticks
    StepBy,       \* how far one correction of the clock goes
    MaxTrouble    \* corrections and failed writes together

ASSUME HearingAssumption == {MaxAge, StepBy, MaxTrouble} \subseteq Nat

VARIABLES
    ex,           \* the executor process: "up", "stopped" or "dead"
    queued,       \* hearingQueued: a write is queued as a microtask
    sinceWrite,   \* the clock less hearingAt
    failed,       \* hearingFailed: the last write failed
    file,         \* the relays the hearing file says are heard; none, and
                  \* old, before there is one
    fileAge,      \* the clock less the time in the file
    mine,         \* relays the daemon's own listener is answered on
    announcedOn,  \* the targets when they last changed
    publishing, publishAgain,
    going,        \* the relays the publish in flight went to
    owed,         \* ghost: relays that joined and no publish has started since
    unheard,      \* ghost: real ticks since the executor heard on each relay
    steps, faults \* corrections of the clock, and writes that failed

executor == <<ex, slot, queued, sinceWrite, failed, file, fileAge>>
daemon == <<mine, announcedOn, publishing, publishAgain, going, owed>>
vars == <<executor, daemon, unheard, steps, faults>>

Troubled == steps + faults < MaxTrouble

\* As far back as the clock ever goes, and where the ages kept stop.
FarthestBack == StepBy * MaxTrouble
OldestAge == MaxAge + FarthestBack + 1

Init ==
    /\ ex = "dead" /\ slot = [r \in Relays |-> "off"]
    /\ queued = FALSE /\ sinceWrite = 0 /\ failed = FALSE
    /\ file = {} /\ fileAge = OldestAge
    /\ mine = {} /\ announcedOn = {} /\ publishing = FALSE /\ publishAgain = FALSE
    /\ going = {} /\ owed = FALSE
    /\ unheard = [r \in Relays |-> OldestAge]
    /\ steps = 0 /\ faults = 0

-----------------------------------------------------------------------------
\* writeHearingNow: a new file in place of the old one, or a failure that
\* leaves the old one and is tried again at the next beat.
Write(hears) ==
    /\ sinceWrite' = 0
    /\ \/ /\ file' = hears /\ fileAge' = 0 /\ failed' = FALSE
          /\ UNCHANGED faults
       \/ /\ Troubled /\ faults' = faults + 1
          /\ failed' = TRUE
          /\ UNCHANGED <<file, fileAge>>

\* start(): the listener first, and a file that says it hears nowhere yet.
Start ==
    /\ ex = "dead" /\ ex' = "up"
    /\ Started
    /\ Write({})
    /\ queued' = FALSE
    /\ UNCHANGED <<daemon, unheard, steps>>

Hears == Listening(slot)

\* Slip: only where it comes to hear is a change written.
ListenerStep_Up(r) ==
    /\ ex = "up"
    /\ Reopens(r) \/ Answers(r) \/ Goes(r)
    /\ queued' = (queued \/ Listening(slot') \ Hears # {})
    /\ unheard' = [unheard EXCEPT ![r] = IF slot'[r] = "answered" THEN 0 ELSE @]
    /\ UNCHANGED <<ex, sinceWrite, failed, file, fileAge, daemon, steps, faults>>

\* A slot moves; hearingChanged queues one write where that changes where it
\* listens. The first verdict on a relay queues one too, whichever it is.
ListenerStep(r) ==
    /\ ex = "up"
    /\ \/ /\ Reopens(r)
          /\ UNCHANGED queued
       \/ /\ Answers(r) \/ Goes(r)
          /\ IF Listening(slot') # Hears THEN queued' = TRUE
             ELSE queued' \in {queued, TRUE}
    /\ unheard' = [unheard EXCEPT ![r] = IF slot'[r] = "answered" THEN 0 ELSE @]
    /\ UNCHANGED <<ex, sinceWrite, failed, file, fileAge, daemon, steps, faults>>

\* The microtask: nothing is written once the executor has stopped.
Flush ==
    /\ queued /\ queued' = FALSE
    /\ IF ex = "up" THEN Write(Hears)
       ELSE UNCHANGED <<sinceWrite, failed, file, fileAge, faults>>
    /\ UNCHANGED <<ex, slot, daemon, unheard, steps>>

\* Slip: the beat is due a tick later.
BeatDue_Late == ex = "up" /\ (sinceWrite >= 2 \/ sinceWrite < 0)

\* hearingBeat: due a tick after the last write, and where the clock says the
\* last write is still to come.
BeatDue == ex = "up" /\ (sinceWrite >= 1 \/ sinceWrite < 0)

\* Slip: a beat writes only what is new.
Beat_OnChange ==
    /\ BeatDue
    /\ IF file # Hears THEN Write(Hears)
       ELSE /\ sinceWrite' = 0
            /\ UNCHANGED <<failed, file, fileAge, faults>>
    /\ UNCHANGED <<ex, slot, queued, daemon, unheard, steps>>

Beat ==
    /\ BeatDue
    /\ Write(Hears)
    /\ UNCHANGED <<ex, slot, queued, daemon, unheard, steps>>

\* stop(): said before the subscriptions close.
Stop ==
    /\ ex = "up" /\ ex' = "stopped"
    /\ Write({})
    /\ Stopped
    /\ UNCHANGED <<queued, daemon, unheard, steps>>

Dies ==
    /\ ex # "dead" /\ ex' = "dead"
    /\ Stopped /\ queued' = FALSE
    /\ UNCHANGED <<sinceWrite, failed, file, fileAge, daemon, unheard, steps, faults>>

-----------------------------------------------------------------------------
\* Slip: only a file dated ahead is refused.
Believed_AtAnyAge == fileAge >= -MaxAge

\* readHearing: no file, one too old or one dated ahead hears nowhere.
Believed == fileAge <= MaxAge /\ fileAge >= -MaxAge
FileHears == IF Believed THEN file ELSE {}

\* publishTargets
Targets == mine \cap FileHears

\* publishWatchStateOnce: where it goes is read as it goes.
Publish(where) ==
    /\ publishing' = TRUE /\ publishAgain' = FALSE
    /\ going' = where /\ owed' = FALSE

\* Slip: what is asked for during a publish is not asked for again.
PublishWatchState_Once(where, joined) ==
    IF publishing
    THEN /\ owed' = (owed \/ joined)
         /\ UNCHANGED <<publishing, publishAgain, going>>
    ELSE Publish(where)

\* publishWatchState: one at a time, and once more if asked for meanwhile.
PublishWatchState(where, joined) ==
    IF publishing
    THEN /\ publishAgain' = TRUE
         /\ owed' = (owed \/ joined)
         /\ UNCHANGED <<publishing, going>>
    ELSE Publish(where)

\* targetsChanged, given what the daemon's listener now hears on.
TargetsChanged(heard) ==
    LET targets == heard \cap FileHears
        fresh == targets \ announcedOn
    IN  /\ announcedOn' = targets
        /\ IF fresh = {} THEN UNCHANGED <<publishing, publishAgain, going, owed>>
           ELSE PublishWatchState(targets, TRUE)

DaemonListens(r) ==
    /\ mine' = IF r \in mine THEN mine \ {r} ELSE mine \cup {r}
    /\ TargetsChanged(mine')
    /\ UNCHANGED <<executor, unheard, steps, faults>>

Poll ==
    /\ TargetsChanged(mine)
    /\ UNCHANGED <<executor, mine, unheard, steps, faults>>

Heartbeat ==
    /\ PublishWatchState(Targets, FALSE)
    /\ UNCHANGED <<executor, mine, announcedOn, unheard, steps, faults>>

\* Every relay has answered the publish, or timed out.
Settle ==
    /\ publishing
    /\ IF publishAgain THEN Publish(Targets)
       ELSE /\ publishing' = FALSE
            /\ going' = {}
            /\ UNCHANGED <<publishAgain, owed>>
    /\ UNCHANGED <<executor, mine, announcedOn, unheard, steps, faults>>

-----------------------------------------------------------------------------
\* A sweep comes every second and a microtask before anything else, so no
\* tick passes over either.
Tick ==
    /\ ~BeatDue /\ ~queued
    /\ fileAge' = IF fileAge < OldestAge THEN fileAge + 1 ELSE fileAge
    /\ sinceWrite' = IF ex = "up" THEN sinceWrite + 1 ELSE sinceWrite
    /\ unheard' = [r \in Relays |->
                     IF r \in Hears THEN 0
                     ELSE IF unheard[r] < OldestAge THEN unheard[r] + 1 ELSE OldestAge]
    /\ UNCHANGED <<ex, slot, queued, failed, file, daemon, steps, faults>>

StepBack ==
    /\ Troubled /\ steps' = steps + 1
    /\ fileAge' = fileAge - StepBy
    /\ sinceWrite' = sinceWrite - StepBy
    /\ UNCHANGED <<ex, slot, queued, failed, file, daemon, unheard, faults>>

Next ==
    \/ Start \/ Flush \/ Beat \/ Stop \/ Dies
    \/ \E r \in Relays : ListenerStep(r)
    \/ \E r \in Relays : DaemonListens(r)
    \/ Poll \/ Heartbeat \/ Settle
    \/ Tick \/ StepBack

Spec == Init /\ [][Next]_vars

\* Timers and microtasks run, and a publish settles: pool.publish times out.
Fairness ==
    /\ WF_vars(Flush) /\ WF_vars(Beat) /\ WF_vars(Tick)
    /\ WF_vars(Heartbeat) /\ WF_vars(Settle)

FairSpec == Spec /\ Fairness

-----------------------------------------------------------------------------
\* Every variable has its type.
TypeOK ==
    /\ ex \in {"up", "stopped", "dead"} /\ slot \in [Relays -> SlotStates]
    /\ queued \in BOOLEAN /\ failed \in BOOLEAN
    /\ sinceWrite \in -FarthestBack .. 1
    /\ file \subseteq Relays
    /\ fileAge \in -FarthestBack .. OldestAge
    /\ \A s \in {mine, announcedOn, going} : s \subseteq Relays
    /\ {publishing, publishAgain, owed} \subseteq BOOLEAN
    /\ unheard \in [Relays -> 0 .. OldestAge]
    /\ steps \in 0 .. MaxTrouble /\ faults \in 0 .. MaxTrouble - steps

\* The watch is advertised on a relay only if the executor heard there within
\* the age a file is believed at: a dead or deaf executor is advertised no
\* longer than that, and as much longer as the clock was moved back.
AdvertisedOnlyWhereHeard ==
    [][\A r \in going' \ going : unheard[r] <= MaxAge + StepBy * steps]_vars

\* What is on disk is where a running executor hears, or that it has stopped,
\* unless a write failed or one is queued: a change is never left unwritten
\* and a write queued before a stop never undoes it.
FileIsTrue ==
    ex # "dead" /\ ~queued /\ ~failed => file = (IF ex = "up" THEN Hears ELSE {})

\* A relay that joins while a publish is in flight is published to when that
\* one settles, not at the next heartbeat.
JoiningNeverWaitsForTheBeat == owed => publishing /\ publishAgain

\* Where both processes go on hearing, the watch goes on being advertised.
AdvertisedWhereBothHear ==
    \A r \in Relays :
        <>[](ex = "up" /\ slot[r] = "answered" /\ r \in mine) => []<>(r \in going)
=============================================================================
