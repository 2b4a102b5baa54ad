------------------------- MODULE AccountabilityLog -------------------------
(***************************************************************************)
(* watchtower/src/shared/accountability.ts: a hash chain in a file, and    *)
(* the start of the chain and every break ever seen in a second file, kept *)
(* by a process that may crash between any two writes and within one.      *)
(*                                                                         *)
(* `lines` is the log file, one entry or one unreadable line per element;  *)
(* `tail` says that it does not end in a newline, so that the next write   *)
(* lands on its last line.                                                 *)
(***************************************************************************)
EXTENDS HashChain, FiniteSets

CONSTANTS MaxEntries,   \* entries ever recorded
          MaxTime,      \* the clock runs from 0 to MaxTime
          Retention,    \* how long an entry is kept
          MaxStops,     \* crashes
          MaxFaults     \* writes the disk cuts short, refuses or fails to sync

ASSUME LogAssumption ==
    /\ {MaxEntries, MaxTime, MaxStops, MaxFaults} \subseteq Nat
    /\ Retention \in Nat

VARIABLES
    clock,
    lines, tail,        \* the log file
    meta,               \* the meta file: [torn, startsAt, breaks]
    proc,               \* "down", "opened", "renamed", "up", "unrecorded"
    mem, memMeta,       \* what the running process holds
    recorded,           \* ghost: ids of entries whose record() returned
    expired,            \* ghost: ids a rotation dropped
    damaged,            \* ghost: a write or its sync failed, or a rotation did
    faults,             \* ghost: writes the disk cut short, refused or did not sync
    stops,              \* crashes so far
    used                \* ids used so far

disk == <<lines, tail, meta>>
process == <<proc, mem, memMeta>>
ghosts == <<recorded, expired, damaged, faults, stops, used>>
vars == <<clock, disk, process, ghosts>>

Torn == Entry(-1, -1, 0)

NoMeta == [torn |-> FALSE, startsAt |-> Genesis, breaks |-> FALSE]

Ids(log) == {log[i].id : i \in DOMAIN log}

Init ==
    /\ clock = 0
    /\ lines = <<>> /\ tail = FALSE
    /\ meta = NoMeta
    /\ proc = "down" /\ mem = <<>> /\ memMeta = NoMeta
    /\ recorded = {} /\ expired = {} /\ damaged = FALSE /\ faults = 0
    /\ stops = 0 /\ used = 0

-----------------------------------------------------------------------------
\* readEntries: up to the first line that will not parse.
FirstTorn == {i \in DOMAIN lines : lines[i] = Torn}
Readable ==
    IF FirstTorn = {} THEN lines
    ELSE SubSeq(lines, 1, (CHOOSE i \in FirstTorn : \A j \in FirstTorn : i <= j) - 1)

\* open's check: the chain verifies from the declared start, and was read whole.
\* Slip: checks only the entries it read.
Intact_AsRead == VerifyChain(Readable, meta.startsAt)

Intact == VerifyChain(Readable, meta.startsAt) /\ FirstTorn = {}

\* Slip: the file is opened to be written over.
Written_Over(line) == <<line>>

\* What a write does to the file: its own line, or the one it lands on.
Written(line) ==
    IF tail THEN [lines EXCEPT ![Len(lines)] = Torn] ELSE Append(lines, line)

Stopped ==
    /\ proc' = "down" /\ mem' = <<>> /\ memMeta' = NoMeta
    /\ stops < MaxStops /\ stops' = stops + 1

-----------------------------------------------------------------------------
\* open at boot. A meta file that does not parse throws out of it, and the
\* process runs unrecorded; a broken chain is declared in the meta file.
Open ==
    /\ proc = "down" /\ ~meta.torn
    /\ mem' = Readable
    /\ memMeta' = [meta EXCEPT !.breaks = @ \/ ~Intact]
    /\ meta' = memMeta'
    /\ proc' = "opened"
    /\ UNCHANGED <<clock, lines, tail, ghosts>>

OpenThrows ==
    /\ proc = "down" /\ meta.torn
    /\ proc' = "unrecorded"
    /\ UNCHANGED <<clock, disk, mem, memMeta, ghosts>>

\* A crash as writeMeta has truncated the file and not yet written it.
CrashInMeta ==
    /\ \/ proc = "down" /\ ~meta.torn /\ ~Intact
       \/ proc = "renamed"
    /\ meta' = [NoMeta EXCEPT !.torn = TRUE]
    /\ damaged' = TRUE
    /\ Stopped
    /\ UNCHANGED <<clock, lines, tail, recorded, expired, faults, used>>

\* rotate, after open: the first entry inside retention becomes the first
\* kept, unless there is none or it already is the first.
Young == {i \in DOMAIN mem : mem[i].at >= clock - Retention}
FirstKept == CHOOSE i \in Young : \A j \in Young : i <= j
Rotates == Young # {} /\ FirstKept > 1
Kept == SubSeq(mem, FirstKept, Len(mem))

NothingToRotate ==
    /\ proc = "opened" /\ ~Rotates
    /\ proc' = "up"
    /\ UNCHANGED <<clock, disk, mem, memMeta, ghosts>>

\* Slip: the start is the first kept entry, not the one before it.
RotateRename_Start ==
    /\ proc = "opened" /\ Rotates
    /\ lines' = Kept /\ tail' = FALSE
    /\ mem' = Kept
    /\ memMeta' = [memMeta EXCEPT !.startsAt = Kept[1].id]
    /\ expired' = expired \cup Ids(SubSeq(mem, 1, FirstKept - 1))
    /\ proc' = "renamed"
    /\ UNCHANGED <<clock, meta, recorded, damaged, faults, stops, used>>

\* The file is replaced by a rename; the new start is in memory only.
RotateRename ==
    /\ proc = "opened" /\ Rotates
    /\ lines' = Kept /\ tail' = FALSE
    /\ mem' = Kept
    /\ memMeta' = [memMeta EXCEPT !.startsAt = mem[FirstKept - 1].id]
    /\ expired' = expired \cup Ids(SubSeq(mem, 1, FirstKept - 1))
    /\ proc' = "renamed"
    /\ UNCHANGED <<clock, meta, recorded, damaged, faults, stops, used>>

RotateMeta ==
    /\ proc = "renamed"
    /\ meta' = memMeta
    /\ proc' = "up"
    /\ UNCHANGED <<clock, lines, tail, mem, memMeta, ghosts>>

\* A disk too full to take the temporary file, or the meta file once the log
\* was renamed: both are caught, and the process goes on recording.
RotateFails ==
    /\ faults < MaxFaults
    /\ \/ proc = "opened" /\ Rotates /\ UNCHANGED <<meta, damaged>>
       \/ /\ proc = "renamed"
          /\ meta' = [NoMeta EXCEPT !.torn = TRUE]
          /\ damaged' = TRUE
    /\ proc' = "up" /\ faults' = faults + 1
    /\ UNCHANGED <<clock, lines, tail, mem, memMeta, recorded, expired, stops, used>>

-----------------------------------------------------------------------------
\* record(): the line is written and synced, and only then in memory.
Next1 == AppendEntry(mem, used + 1, clock)
Line == Next1[Len(Next1)]

MayRecord == proc = "up" /\ used < MaxEntries /\ used' = used + 1

Record ==
    /\ MayRecord
    /\ lines' = Written(Line) /\ tail' = FALSE
    /\ mem' = Next1
    /\ recorded' = recorded \cup {Line.id}
    /\ UNCHANGED <<clock, meta, proc, memMeta, expired, damaged, faults, stops>>

\* A line cut short: part of it, or all of it but the newline.
CutShort ==
    /\ faults < MaxFaults /\ faults' = faults + 1
    /\ damaged' = TRUE
    /\ \E line \in {Torn, Line} : lines' = Written(line)
    /\ tail' = TRUE

\* The process dies having written all of the line, some of it, or none.
CrashInRecord ==
    /\ MayRecord
    /\ \/ lines' = Written(Line) /\ tail' = FALSE /\ UNCHANGED <<damaged, faults>>
       \/ CutShort
    /\ Stopped
    /\ UNCHANGED <<clock, meta, recorded, expired>>

\* The write throws on a full disk, part of the line written: memory is as it was.
RecordThrows ==
    /\ MayRecord /\ CutShort
    /\ UNCHANGED <<clock, meta, process, recorded, expired, stops>>

\* The whole line is written and its sync throws: it stays in the file, memory is
\* as it was, and the next entry is chained from the one before it.
RecordUnsynced ==
    /\ MayRecord
    /\ faults < MaxFaults /\ faults' = faults + 1
    /\ lines' = Written(Line) /\ tail' = FALSE
    /\ damaged' = TRUE
    /\ UNCHANGED <<clock, meta, process, recorded, expired, stops>>

\* A disk that fills within the line: writeSync reports fewer bytes than it
\* was given, nothing looks at how many, and the entry counts as recorded.
RecordShort ==
    /\ MayRecord /\ CutShort
    /\ mem' = Next1
    /\ recorded' = recorded \cup {Line.id}
    /\ UNCHANGED <<clock, meta, proc, memMeta, expired, stops>>

Crash ==
    /\ proc # "down"
    /\ Stopped
    /\ damaged' = (damaged \/ proc = "renamed")
    /\ UNCHANGED <<clock, disk, recorded, expired, faults, used>>

Tick ==
    /\ clock < MaxTime /\ clock' = clock + 1
    /\ UNCHANGED <<disk, process, ghosts>>

Next ==
    \/ Open \/ OpenThrows \/ CrashInMeta
    \/ NothingToRotate \/ RotateRename \/ RotateMeta \/ RotateFails
    \/ Record \/ CrashInRecord \/ RecordThrows \/ RecordUnsynced \/ RecordShort
    \/ Crash \/ Tick

Spec == Init /\ [][Next]_vars

-----------------------------------------------------------------------------
\* The log never accuses itself for nothing: a break is declared only where the
\* disk cut a write short or failed to sync one, or a crash or the disk came
\* between the rename of a rotation and the writing of the new start.
BreakMeansDamage == memMeta.breaks \/ meta.breaks => damaged

\* An entry whose record() returned is what the next start reads: a crash
\* between whole writes loses nothing, and where the disk failed a write, a
\* process that records without every entry recorded has said so on disk.
RecordedIsKept ==
    /\ faults = 0 => recorded \subseteq Ids(Readable) \cup expired
    /\ proc = "up" /\ ~meta.torn /\ recorded \ (Ids(mem) \cup expired) # {} => meta.breaks

\* What can be read back from the disk is an append-only log whose tail a
\* damaged write may cost.
Promise == INSTANCE AppendOnlyLog WITH log <- Readable, damaged <- damaged
ReadsAsAppendOnly == Promise!Spec
=============================================================================
