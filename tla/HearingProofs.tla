---------------------------- MODULE HearingProofs ----------------------------
(***************************************************************************)
(* The hearing file and the publishing of the watch, for any relays, any   *)
(* ages and any trouble. AdvertisedOnlyWhereHeard rests on what a file     *)
(* means as it ages: it was true when written, so a relay in it has not    *)
(* been unheard for longer than the file is old, and as much more as the   *)
(* clock has been moved back since.                                        *)
(***************************************************************************)
EXTENDS Hearing, TLAPS

\* How far the clock has been moved back.
Drift == StepBy * steps

Drifted == sinceWrite >= -Drift /\ fileAge >= -Drift

\* A relay the executor hears on is heard now, and one the file names was heard
\* when the file was written.
HeardNow == \A r \in Hears : unheard[r] = 0
FileAged == \A r \in file : unheard[r] <= fileAge + Drift

\* What a stop wrote, a write queued before it does not replace.
StopIsSaid == ex = "stopped" /\ ~failed => file = {}

Clocks == TypeOK /\ Drifted /\ HeardNow /\ FileAged

Files == FileIsTrue /\ StopIsSaid

-----------------------------------------------------------------------------
LEMMA DriftFacts ==
  ASSUME TypeOK
  PROVE  /\ Drift \in Nat /\ Drift <= FarthestBack
         /\ OldestAge \in Nat /\ MaxAge \in Nat /\ StepBy \in Nat
         /\ FarthestBack \in Nat /\ OldestAge = MaxAge + FarthestBack + 1
<1>1. MaxAge \in Nat /\ StepBy \in Nat /\ MaxTrouble \in Nat
  BY HearingAssumption
<1>2. steps \in Nat /\ steps <= MaxTrouble
  BY <1>1 DEF TypeOK
<1>3. \A a, s, t \in Nat : a * s \in Nat /\ (s <= t => a * s <= a * t)
  OBVIOUS
<1> QED BY <1>1, <1>2, <1>3 DEF Drift, OldestAge, FarthestBack

\* A correction of the clock moves it back by StepBy.
LEMMA DriftGrows ==
  ASSUME TypeOK, steps' = steps + 1
  PROVE  Drift' = Drift + StepBy
<1>1. MaxAge \in Nat /\ StepBy \in Nat /\ MaxTrouble \in Nat
  BY HearingAssumption
<1>2. steps \in Nat
  BY <1>1 DEF TypeOK
<1>3. \A a, s \in Nat : a * (s + 1) = a * s + a
  OBVIOUS
<1> QED BY <1>1, <1>2, <1>3 DEF Drift

\* A write is of what is heard now, or leaves the file as it was.
LEMMA WriteFacts ==
  ASSUME Clocks, NEW hears \in SUBSET Relays, Write(hears), UNCHANGED <<steps, unheard>>,
         \A r \in hears : unheard[r] = 0
  PROVE  /\ sinceWrite' = 0 /\ sinceWrite' >= -Drift'
         /\ failed' \in BOOLEAN /\ file' \subseteq Relays
         /\ fileAge' \in -FarthestBack .. OldestAge /\ fileAge' >= -Drift'
         /\ faults' \in 0 .. MaxTrouble - steps'
         /\ FileAged'
         /\ ~failed' => file' = hears
<1> USE DEF Clocks
<1>1. Drift' = Drift
  BY DEF Drift
<1>2. Drift \in Nat /\ FarthestBack \in Nat /\ OldestAge \in Nat /\ MaxTrouble \in Nat
  BY DriftFacts, HearingAssumption
<1>3. unheard \in [Relays -> 0 .. OldestAge]
  BY DEF TypeOK
<1>4. CASE file' = hears /\ fileAge' = 0 /\ failed' = FALSE /\ UNCHANGED faults
  <2>1. FileAged'
    BY <1>1, <1>2, <1>4 DEF FileAged
  <2>2. fileAge' \in -FarthestBack .. OldestAge /\ fileAge' >= -Drift' /\ sinceWrite' = 0
    BY <1>1, <1>2, <1>4 DEF Write
  <2>3. faults' \in 0 .. MaxTrouble - steps' /\ failed' \in BOOLEAN
    BY <1>4 DEF TypeOK
  <2> QED BY <1>1, <1>2, <1>4, <2>1, <2>2, <2>3
<1>5. CASE Troubled /\ faults' = faults + 1 /\ failed' = TRUE /\ UNCHANGED <<file, fileAge>>
  <2>1. FileAged'
    BY <1>1, <1>5 DEF FileAged
  <2>2. faults' \in 0 .. MaxTrouble - steps'
    BY <1>2, <1>5 DEF Troubled, TypeOK
  <2> QED BY <1>1, <1>2, <1>5, <2>1, <2>2 DEF Write, TypeOK, Drifted
<1> QED BY <1>4, <1>5 DEF Write

-----------------------------------------------------------------------------
LEMMA InitClocks == Init => Clocks /\ Files /\ JoiningNeverWaitsForTheBeat
<1> SUFFICES ASSUME Init PROVE Clocks /\ Files /\ JoiningNeverWaitsForTheBeat
  OBVIOUS
<1>1. MaxAge \in Nat /\ StepBy \in Nat /\ MaxTrouble \in Nat /\ FarthestBack \in Nat
  BY HearingAssumption DEF FarthestBack
<1>2. OldestAge \in Nat /\ Drift = 0
  BY <1>1 DEF OldestAge, Drift, Init
<1>3. TypeOK
  <2>1. slot \in [Relays -> SlotStates] /\ unheard \in [Relays -> 0 .. OldestAge]
    BY <1>2 DEF Init, SlotStates
  <2>2. sinceWrite \in -FarthestBack .. 1 /\ fileAge \in -FarthestBack .. OldestAge
    BY <1>1, <1>2 DEF Init
  <2>3. steps \in 0 .. MaxTrouble /\ faults \in 0 .. MaxTrouble - steps
    BY <1>1 DEF Init
  <2> QED BY <2>1, <2>2, <2>3 DEF Init, TypeOK
<1>4. Drifted /\ FileAged
  BY <1>2 DEF Init, Drifted, FileAged
<1>5. HeardNow
  BY DEF Init, HeardNow, Hears, Listening
<1> QED BY <1>3, <1>4, <1>5 DEF Clocks, Files, FileIsTrue, StopIsSaid, JoiningNeverWaitsForTheBeat, Init

LEMMA HearsType == Hears \subseteq Relays
BY DEF Hears, Listening

\* A listener that starts or stops hears nowhere yet, or no longer.
LEMMA RestartedHearsNothing ==
  ASSUME Started \/ Stopped
  PROVE  slot' \in [Relays -> SlotStates] /\ Hears' = {}
BY DEF Started, Stopped, Hears, Listening, SlotStates

\* Steps of the executor.
LEMMA StartIsSafe ==
  ASSUME Clocks, Files, Start
  PROVE  Clocks' /\ Files'
<1>1. /\ UNCHANGED <<mine, announcedOn, publishing, publishAgain, going, owed, unheard, steps>>
      /\ Started /\ Write({}) /\ ex' = "up" /\ queued' = FALSE
  BY DEF Start, daemon
<1>2. Hears' = {} /\ slot' \in [Relays -> SlotStates]
  BY <1>1, RestartedHearsNothing
<1>3. /\ sinceWrite' = 0 /\ sinceWrite' >= -Drift' /\ failed' \in BOOLEAN /\ file' \subseteq Relays
      /\ fileAge' \in -FarthestBack .. OldestAge /\ fileAge' >= -Drift'
      /\ faults' \in 0 .. MaxTrouble - steps' /\ FileAged' /\ (~failed' => file' = {})
  BY <1>1, WriteFacts
<1>4. FarthestBack \in Nat
  BY DriftFacts DEF Clocks
<1>5. Clocks'
  <2>1. queued' \in BOOLEAN /\ unheard' = unheard
    BY <1>1
  <2>2. TypeOK'
    BY <1>1, <1>2, <1>3, <1>4, <2>1 DEF Clocks, TypeOK
  <2> QED BY <1>2, <1>3, <2>2 DEF Clocks, Drifted, HeardNow
<1> QED BY <1>1, <1>2, <1>3, <1>5 DEF Files, FileIsTrue, StopIsSaid

LEMMA StopIsSafe ==
  ASSUME Clocks, Files, Stop
  PROVE  Clocks' /\ Files'
<1>1. /\ UNCHANGED <<queued, mine, announcedOn, publishing, publishAgain, going, owed, unheard, steps>>
      /\ Stopped /\ Write({}) /\ ex' = "stopped"
  BY DEF Stop, daemon
<1>2. Hears' = {} /\ slot' \in [Relays -> SlotStates] /\ queued' \in BOOLEAN
  BY <1>1, RestartedHearsNothing DEF Clocks, TypeOK
<1>3. /\ sinceWrite' = 0 /\ sinceWrite' >= -Drift' /\ failed' \in BOOLEAN /\ file' \subseteq Relays
      /\ fileAge' \in -FarthestBack .. OldestAge /\ fileAge' >= -Drift'
      /\ faults' \in 0 .. MaxTrouble - steps' /\ FileAged' /\ (~failed' => file' = {})
  BY <1>1, WriteFacts
<1>4. FarthestBack \in Nat
  BY DriftFacts DEF Clocks
<1>5. Clocks'
  BY <1>1, <1>2, <1>3, <1>4 DEF Clocks, TypeOK, Drifted, HeardNow
<1> QED BY <1>1, <1>3, <1>5 DEF Files, FileIsTrue, StopIsSaid

\* A write of what is heard now, from a queue or from a beat.
LEMMA RewriteIsSafe ==
  ASSUME Clocks, Files, Write(Hears), ex = "up", queued' \in BOOLEAN,
         UNCHANGED <<ex, slot, mine, announcedOn, publishing, publishAgain, going, owed,
                     unheard, steps>>
  PROVE  Clocks' /\ Files'
<1>1. Hears \subseteq Relays /\ Hears' = Hears /\ \A r \in Hears : unheard[r] = 0
  BY HearsType DEF Hears, Listening, Clocks, HeardNow
<1>2. /\ sinceWrite' = 0 /\ sinceWrite' >= -Drift' /\ failed' \in BOOLEAN /\ file' \subseteq Relays
      /\ fileAge' \in -FarthestBack .. OldestAge /\ fileAge' >= -Drift'
      /\ faults' \in 0 .. MaxTrouble - steps' /\ FileAged' /\ (~failed' => file' = Hears)
  BY <1>1, WriteFacts
<1>3. FarthestBack \in Nat
  BY DriftFacts DEF Clocks
<1>4. Clocks'
  BY <1>1, <1>2, <1>3 DEF Clocks, TypeOK, Drifted, HeardNow
<1> QED BY <1>1, <1>2, <1>4 DEF Files, FileIsTrue, StopIsSaid

\* What is queued after a stop writes nothing.
LEMMA FlushIsSafe ==
  ASSUME Clocks, Files, Flush
  PROVE  Clocks' /\ Files'
<1>1. CASE ex = "up"
  BY <1>1, RewriteIsSafe DEF Flush, daemon
<1>2. CASE ex # "up"
  <2>1. /\ UNCHANGED <<ex, slot, mine, announcedOn, publishing, publishAgain, going, owed,
                       unheard, steps, sinceWrite, failed, file, fileAge, faults>>
        /\ queued' = FALSE
    BY <1>2 DEF Flush, daemon
  <2>2. Clocks'
    BY <2>1 DEF Clocks, TypeOK, Drifted, Drift, HeardNow, FileAged, Hears, Listening
  <2> QED BY <1>2, <2>1, <2>2 DEF Files, FileIsTrue, StopIsSaid, Clocks, TypeOK
<1> QED BY <1>1, <1>2

LEMMA BeatIsSafe ==
  ASSUME Clocks, Files, Beat
  PROVE  Clocks' /\ Files'
<1>1. queued' \in BOOLEAN
  BY DEF Beat, Clocks, TypeOK
<1> QED BY <1>1, RewriteIsSafe DEF Beat, BeatDue, daemon

LEMMA DiesIsSafe ==
  ASSUME Clocks, Files, Dies
  PROVE  Clocks' /\ Files'
<1>1. /\ UNCHANGED <<sinceWrite, failed, file, fileAge, mine, announcedOn, publishing,
                     publishAgain, going, owed, unheard, steps, faults>>
      /\ Stopped /\ ex' = "dead" /\ queued' = FALSE
  BY DEF Dies, daemon
<1>2. Hears' = {} /\ slot' \in [Relays -> SlotStates]
  BY <1>1, RestartedHearsNothing
<1>3. Clocks'
  BY <1>1, <1>2 DEF Clocks, TypeOK, Drifted, Drift, HeardNow, FileAged
<1> QED BY <1>1, <1>3 DEF Files, FileIsTrue, StopIsSaid

\* A slot that moves and changes where the executor hears queues a write.
LEMMA ListenerStepIsSafe ==
  ASSUME Clocks, Files, NEW r \in Relays, ListenerStep(r)
  PROVE  Clocks' /\ Files'
<1>1. /\ UNCHANGED <<ex, sinceWrite, failed, file, fileAge, mine, announcedOn, publishing,
                     publishAgain, going, owed, steps, faults>>
      /\ unheard' = [unheard EXCEPT ![r] = IF slot'[r] = "answered" THEN 0 ELSE @]
      /\ ex = "up"
  BY DEF ListenerStep, daemon
<1>2. slot \in [Relays -> SlotStates] /\ unheard \in [Relays -> 0 .. OldestAge] /\ OldestAge \in Nat
  BY DriftFacts DEF Clocks, TypeOK
<1>3. PICK from \in SUBSET SlotStates, to \in SlotStates : Moves(r, from, to)
  BY DEF ListenerStep, Reopens, Answers, Goes, SlotStates
<1>4. slot' \in [Relays -> SlotStates] /\ \A q \in Relays : q # r => slot'[q] = slot[q]
  BY <1>2, <1>3 DEF Moves
<1>5. unheard' \in [Relays -> 0 .. OldestAge] /\ \A q \in Relays : unheard'[q] <= unheard[q]
  BY <1>1, <1>2
<1>6. HeardNow'
  BY <1>1, <1>2, <1>4 DEF Clocks, HeardNow, Hears, Listening
<1>7. Drift' = Drift /\ Drift \in Nat
  BY <1>1, DriftFacts DEF Drift, Clocks
<1>8. FileAged'
  <2> SUFFICES ASSUME NEW q \in file' PROVE unheard'[q] <= fileAge' + Drift'
    BY DEF FileAged
  <2>1. q \in file /\ q \in Relays /\ fileAge \in Int
    BY <1>1 DEF Clocks, TypeOK
  <2>2. unheard[q] <= fileAge + Drift /\ unheard'[q] <= unheard[q]
    BY <1>5, <2>1 DEF Clocks, FileAged
  <2>3. unheard[q] \in Int /\ unheard'[q] \in Int
    BY <1>2, <1>5, <2>1
  <2> QED BY <1>1, <1>7, <2>1, <2>2, <2>3
<1>9. queued' \in BOOLEAN /\ (Hears' # Hears => queued') /\ (queued => queued')
  <2>1. CASE Reopens(r)
    <3>1. Hears' = Hears
      BY <1>2, <2>1 DEF Reopens, Moves, Hears, Listening
    <3>2. ~Answers(r) /\ ~Goes(r)
      BY <1>2, <2>1 DEF Reopens, Answers, Goes, Moves
    <3>3. queued' = queued
      BY <3>2 DEF ListenerStep
    <3> QED BY <3>1, <3>3 DEF Clocks, TypeOK
  <2>2. CASE ~Reopens(r)
    BY <2>2 DEF ListenerStep, Hears, Clocks, TypeOK
  <2> QED BY <2>1, <2>2
<1>10. Clocks'
  BY <1>1, <1>4, <1>5, <1>6, <1>7, <1>8, <1>9 DEF Clocks, TypeOK, Drifted
<1> QED BY <1>1, <1>9, <1>10 DEF Files, FileIsTrue, StopIsSaid

-----------------------------------------------------------------------------
\* Steps of the daemon leave the executor alone.
Daemon == (\E r \in Relays : DaemonListens(r)) \/ Poll \/ Heartbeat \/ Settle

\* What a publish begun now may touch, and where it may go.
Asked ==
    /\ publishing' \in BOOLEAN /\ publishAgain' \in BOOLEAN /\ owed' \in BOOLEAN
    /\ JoiningNeverWaitsForTheBeat'
    /\ going' \subseteq going \cup FileHears /\ going' \subseteq Relays

LEMMA PublishWatchStateFacts ==
  ASSUME TypeOK, JoiningNeverWaitsForTheBeat, NEW where \in SUBSET (FileHears \cap Relays),
         NEW joined \in BOOLEAN, PublishWatchState(where, joined)
  PROVE  Asked
BY DEF PublishWatchState, Publish, Asked, JoiningNeverWaitsForTheBeat, TypeOK

LEMMA TargetsChangedFacts ==
  ASSUME TypeOK, JoiningNeverWaitsForTheBeat, NEW heard \in SUBSET Relays, TargetsChanged(heard)
  PROVE  Asked /\ announcedOn' \subseteq Relays
<1> DEFINE targets == heard \cap FileHears
<1>1. targets \in SUBSET (FileHears \cap Relays) /\ announcedOn' = targets
  BY DEF TargetsChanged
<1>2. CASE targets \ announcedOn = {}
  BY <1>1, <1>2 DEF TargetsChanged, Asked, JoiningNeverWaitsForTheBeat, TypeOK
<1>3. CASE targets \ announcedOn # {}
  <2>1. PublishWatchState(targets, TRUE)
    BY <1>3 DEF TargetsChanged
  <2> QED BY <1>1, <2>1, PublishWatchStateFacts
<1> QED BY <1>2, <1>3

LEMMA DaemonFacts ==
  ASSUME TypeOK, JoiningNeverWaitsForTheBeat, Daemon
  PROVE  /\ Asked /\ mine' \subseteq Relays /\ announcedOn' \subseteq Relays
         /\ UNCHANGED <<executor, unheard, steps, faults>>
<1>0. mine \subseteq Relays /\ announcedOn \subseteq Relays /\ Targets \in SUBSET (FileHears \cap Relays)
  BY DEF TypeOK, Targets
<1>1. ASSUME NEW r \in Relays, DaemonListens(r)
      PROVE  Asked /\ mine' \subseteq Relays /\ announcedOn' \subseteq Relays
  <2>1. mine' \in SUBSET Relays /\ TargetsChanged(mine')
    BY <1>0, <1>1 DEF DaemonListens
  <2> QED BY <2>1, TargetsChangedFacts
<1>2. ASSUME Poll PROVE Asked /\ mine' \subseteq Relays /\ announcedOn' \subseteq Relays
  BY <1>0, <1>2, TargetsChangedFacts DEF Poll
<1>3. ASSUME Heartbeat PROVE Asked /\ mine' \subseteq Relays /\ announcedOn' \subseteq Relays
  BY <1>0, <1>3, PublishWatchStateFacts DEF Heartbeat
<1>4. ASSUME Settle PROVE Asked /\ mine' \subseteq Relays /\ announcedOn' \subseteq Relays
  BY <1>0, <1>4 DEF Settle, Publish, Asked, JoiningNeverWaitsForTheBeat, TypeOK
<1>5. UNCHANGED <<executor, unheard, steps, faults>>
  BY DEF Daemon, DaemonListens, Poll, Heartbeat, Settle
<1> QED BY <1>1, <1>2, <1>3, <1>4, <1>5 DEF Daemon

LEMMA DaemonIsSafe ==
  ASSUME Clocks, Files, JoiningNeverWaitsForTheBeat, Daemon
  PROVE  Clocks' /\ Files'
<1>1. /\ publishing' \in BOOLEAN /\ publishAgain' \in BOOLEAN /\ owed' \in BOOLEAN
      /\ going' \subseteq Relays /\ mine' \subseteq Relays /\ announcedOn' \subseteq Relays
      /\ UNCHANGED <<executor, unheard, steps, faults>>
  BY DaemonFacts DEF Clocks, Asked
<1>2. UNCHANGED <<ex, slot, queued, sinceWrite, failed, file, fileAge>>
  BY <1>1 DEF executor
<1>3. Clocks'
  BY <1>1, <1>2 DEF Clocks, TypeOK, Drifted, Drift, HeardNow, FileAged, Hears, Listening
<1> QED BY <1>2, <1>3 DEF Files, FileIsTrue, StopIsSaid, Hears, Listening

-----------------------------------------------------------------------------
\* A tick ages the file and what is not heard alike; both stop at OldestAge.
LEMMA TickIsSafe ==
  ASSUME Clocks, Files, Tick
  PROVE  Clocks' /\ Files'
<1>1. UNCHANGED <<ex, slot, queued, failed, file, mine, announcedOn, publishing, publishAgain,
                  going, owed, steps, faults>> /\ Hears' = Hears
  BY DEF Tick, daemon, Hears, Listening
<1>2. /\ Drift \in Nat /\ Drift' = Drift /\ OldestAge \in Nat
      /\ FarthestBack \in Nat /\ Drift <= FarthestBack
  BY <1>1, DriftFacts DEF Drift, Clocks
<1>3. fileAge \in Int /\ fileAge <= OldestAge /\ fileAge >= -Drift /\ sinceWrite \in Int
      /\ sinceWrite >= -Drift
  BY <1>2 DEF Clocks, TypeOK, Drifted
<1>4. /\ fileAge' = (IF fileAge < OldestAge THEN fileAge + 1 ELSE fileAge)
      /\ fileAge' \in -FarthestBack .. OldestAge /\ fileAge' >= -Drift'
  BY <1>2, <1>3 DEF Tick
<1>5. sinceWrite' \in -FarthestBack .. 1 /\ sinceWrite' >= -Drift'
  BY <1>2, <1>3 DEF Tick, BeatDue, Clocks, TypeOK
<1>6. unheard \in [Relays -> 0 .. OldestAge]
  BY DEF Clocks, TypeOK
<1>7. unheard' = [r \in Relays |->
                     IF r \in Hears THEN 0
                     ELSE IF unheard[r] < OldestAge THEN unheard[r] + 1 ELSE OldestAge]
  BY DEF Tick
<1>8. unheard' \in [Relays -> 0 .. OldestAge] /\ HeardNow'
  BY <1>1, <1>2, <1>6, <1>7, HearsType DEF HeardNow
<1>9. FileAged'
  <2> SUFFICES ASSUME NEW q \in file' PROVE unheard'[q] <= fileAge' + Drift'
    BY DEF FileAged
  <2>1. q \in file /\ q \in Relays /\ unheard[q] <= fileAge + Drift
    BY <1>1 DEF Clocks, TypeOK, FileAged
  <2>2. unheard[q] \in 0 .. OldestAge
    BY <1>6, <2>1
  <2>3. CASE q \in Hears
    <3>1. unheard'[q] = 0
      BY <1>7, <2>1, <2>3
    <3> QED BY <1>2, <1>4, <3>1
  <2>4. CASE q \notin Hears
    <3>1. unheard'[q] = IF unheard[q] < OldestAge THEN unheard[q] + 1 ELSE OldestAge
      BY <1>7, <2>1, <2>4
    <3>2. CASE fileAge < OldestAge
      BY <1>2, <1>3, <1>4, <2>1, <2>2, <3>1, <3>2
    <3>3. CASE fileAge = OldestAge
      BY <1>2, <1>4, <2>2, <3>1, <3>3
    <3> QED BY <1>2, <1>3, <3>2, <3>3
  <2> QED BY <2>3, <2>4
<1>10. Clocks'
  BY <1>1, <1>4, <1>5, <1>8, <1>9 DEF Clocks, TypeOK, Drifted
<1> QED BY <1>1, <1>10 DEF Files, FileIsTrue, StopIsSaid

\* A correction of the clock moves every age back by as much.
LEMMA StepBackIsSafe ==
  ASSUME Clocks, Files, StepBack
  PROVE  Clocks' /\ Files'
<1>1. /\ UNCHANGED <<ex, slot, queued, failed, file, mine, announcedOn, publishing, publishAgain,
                     going, owed, unheard, faults>>
      /\ Hears' = Hears /\ fileAge' = fileAge - StepBy /\ sinceWrite' = sinceWrite - StepBy
      /\ steps' = steps + 1 /\ steps + faults < MaxTrouble
  BY DEF StepBack, Troubled, daemon, Hears, Listening
<1>2. /\ Drift \in Nat /\ StepBy \in Nat /\ FarthestBack \in Nat /\ OldestAge \in Nat
      /\ MaxTrouble \in Nat /\ Drift' = Drift + StepBy
  BY <1>1, DriftFacts, DriftGrows, HearingAssumption DEF Clocks
<1>3. steps' \in 0 .. MaxTrouble /\ faults' \in 0 .. MaxTrouble - steps'
  BY <1>1, <1>2 DEF Clocks, TypeOK
<1>4. Drift' <= FarthestBack
  <2>1. \A a, m, n \in Nat : m <= n => a * m <= a * n
    OBVIOUS
  <2>2. Drift' = StepBy * steps' /\ FarthestBack = StepBy * MaxTrouble
    BY <1>1 DEF Drift, FarthestBack
  <2>3. steps' \in Nat /\ steps' <= MaxTrouble
    BY <1>2, <1>3
  <2> QED BY <1>2, <2>1, <2>2, <2>3
<1>5. Drifted'
  BY <1>1, <1>2 DEF Clocks, Drifted, TypeOK
<1>6. sinceWrite' \in -FarthestBack .. 1 /\ fileAge' \in -FarthestBack .. OldestAge
  BY <1>1, <1>2, <1>4, <1>5 DEF Clocks, Drifted, TypeOK
<1>7. TypeOK'
  BY <1>1, <1>3, <1>6 DEF Clocks, TypeOK
<1>8. HeardNow'
  BY <1>1 DEF Clocks, HeardNow
<1>9. FileAged'
  <2> SUFFICES ASSUME NEW q \in file' PROVE unheard'[q] <= fileAge' + Drift'
    BY DEF FileAged
  <2>1. q \in file /\ unheard[q] <= fileAge + Drift /\ fileAge \in Int
    BY <1>1 DEF Clocks, TypeOK, FileAged
  <2> QED BY <1>1, <1>2, <2>1
<1> QED BY <1>1, <1>5, <1>7, <1>8, <1>9 DEF Clocks, Files, FileIsTrue, StopIsSaid

-----------------------------------------------------------------------------
HearingInv == Clocks /\ Files /\ JoiningNeverWaitsForTheBeat

Executor == (\E r \in Relays : ListenerStep(r)) \/ Start \/ Flush \/ Beat \/ Stop \/ Dies

LEMMA NextSplits == Next => Executor \/ Daemon \/ Tick \/ StepBack
BY DEF Next, Executor, Daemon

\* Only the daemon touches what it publishes.
LEMMA OthersPublishNothing ==
  ASSUME Executor \/ Tick \/ StepBack \/ UNCHANGED vars
  PROVE  UNCHANGED <<publishing, publishAgain, owed, going>>
BY DEF Executor, ListenerStep, Start, Flush, Beat, Stop, Dies, Tick, StepBack, daemon, vars

LEMMA NextIsSafe == HearingInv /\ [Next]_vars => HearingInv'
<1> SUFFICES ASSUME HearingInv, [Next]_vars PROVE HearingInv'
  OBVIOUS
<1>1. CASE Executor
  BY <1>1, ListenerStepIsSafe, StartIsSafe, FlushIsSafe, BeatIsSafe, StopIsSafe, DiesIsSafe,
     OthersPublishNothing DEF Executor, HearingInv, JoiningNeverWaitsForTheBeat
<1>2. CASE Daemon
  <2>1. Clocks' /\ Files'
    BY <1>2, DaemonIsSafe DEF HearingInv
  <2>2. JoiningNeverWaitsForTheBeat'
    BY <1>2, DaemonFacts DEF HearingInv, Clocks, Asked
  <2> QED BY <2>1, <2>2 DEF HearingInv
<1>3. CASE Tick \/ StepBack
  BY <1>3, TickIsSafe, StepBackIsSafe, OthersPublishNothing
     DEF HearingInv, JoiningNeverWaitsForTheBeat
<1>4. CASE UNCHANGED vars
  BY <1>4 DEF vars, executor, daemon, HearingInv, Clocks, TypeOK, Drifted, Drift, HeardNow, FileAged,
              Hears, Listening, Files, FileIsTrue, StopIsSaid, JoiningNeverWaitsForTheBeat
<1> QED BY <1>1, <1>2, <1>3, <1>4, NextSplits

LEMMA HearingInvHolds == Spec => []HearingInv
<1>1. Init => HearingInv
  BY InitClocks DEF HearingInv
<1> QED BY <1>1, NextIsSafe, PTL DEF Spec

\* Every variable has its type, the ages among them: no correction of the clock
\* takes one past the bounds they are kept within.
THEOREM TypeCorrect == Spec => []TypeOK
<1>1. HearingInv => TypeOK
  BY DEF HearingInv, Clocks
<1> QED BY <1>1, HearingInvHolds, PTL

\* The file says where a running executor hears, or that it has stopped,
\* unless a write failed or is queued.
THEOREM FileStaysTrue == Spec => []FileIsTrue
<1>1. HearingInv => FileIsTrue
  BY DEF HearingInv, Files
<1> QED BY <1>1, HearingInvHolds, PTL

\* A relay that joins during a publish is published to when that one settles.
THEOREM JoiningNeverWaits == Spec => []JoiningNeverWaitsForTheBeat
<1>1. HearingInv => JoiningNeverWaitsForTheBeat
  BY DEF HearingInv
<1> QED BY <1>1, HearingInvHolds, PTL

\* The watch is advertised nowhere the executor has not heard within the age a
\* file is believed at, and as much longer as the clock was moved back.
THEOREM AdvertisedIsHeard == Spec => AdvertisedOnlyWhereHeard
<1>1. HearingInv /\ [Next]_vars =>
        [\A r \in going' \ going : unheard[r] <= MaxAge + StepBy * steps]_vars
  <2> SUFFICES ASSUME HearingInv, Next, NEW r \in going' \ going
               PROVE  unheard[r] <= MaxAge + Drift
    BY DEF Drift
  <2>1. Daemon
    BY NextSplits, OthersPublishNothing
  <2>2. r \in FileHears
    BY <2>1, DaemonFacts DEF HearingInv, Clocks, Asked
  <2>3. r \in file /\ fileAge <= MaxAge
    BY <2>2 DEF FileHears, Believed
  <2>4. r \in Relays /\ unheard[r] <= fileAge + Drift /\ fileAge \in Int /\ Drift \in Nat /\ MaxAge \in Nat
    BY <2>3, DriftFacts DEF HearingInv, Clocks, TypeOK, FileAged
  <2>5. unheard[r] \in Nat
    BY <2>4, DriftFacts DEF HearingInv, Clocks, TypeOK
  <2> QED BY <2>3, <2>4, <2>5
<1> QED BY <1>1, HearingInvHolds, PTL DEF Spec, AdvertisedOnlyWhereHeard
=============================================================================
