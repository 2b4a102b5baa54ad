----------------------------- MODULE LogReview -----------------------------
(***************************************************************************)
(* An accountability log with those who read it: the daemon publishes a    *)
(* commitment to it with every heartbeat (watchtower/src/daemon), a        *)
(* terminal keeps the roots it saw and says when two cannot both be true   *)
(* (core/src/merkle.ts, web/src/lib/terminal/roots.ts), and an operator    *)
(* reviews an entry by its proof against a root.                           *)
(***************************************************************************)
EXTENDS AccountabilityLog, MerkleTree

CONSTANTS RootsKept,    \* ROOTS_KEPT
          MaxLeaves,    \* trees up to this size are checked whatever the log
          MaxBeats      \* heartbeats published that differ from the one before

ASSUME ReviewAssumption ==
    /\ RootsKept \in Nat \ {0}
    /\ {MaxLeaves, MaxBeats} \subseteq Nat

VARIABLES beats,        \* the heartbeats published, oldest first: [root, at]
          newest,       \* the second of the newest one this connection brought
          latest,       \* ghost: the last one published of those ever read
          lagged,       \* ghost: one was read after a later one
          seen,         \* the roots the terminal keeps, oldest first
          alarms        \* what it has said

readers == <<newest, latest, lagged, seen, alarms>>
reviewVars == <<vars, beats, readers>>

\* Nothing has come over this connection; a heartbeat that commits to no log.
Unread == -1
NoRoot == [root |-> <<"none">>, size |-> -1]

ReviewInit ==
    /\ Init
    /\ beats = <<>> /\ newest = Unread /\ latest = 0 /\ lagged = FALSE
    /\ seen = <<>> /\ alarms = {}

LogStep == Next /\ UNCHANGED <<beats, readers>>

Published(root) ==
    LET beat == [root |-> root, at |-> clock]
    IN  /\ beats # <<>> => Last(beats) # beat
        /\ Len(beats) < MaxBeats
        /\ beats' = Append(beats, beat)
        /\ UNCHANGED <<vars, readers>>

\* A heartbeat of a daemon whose log is open carries its root, computed anew.
Heartbeat == proc = "up" /\ Published(MerkleRoot(mem))

\* One of a daemon that runs unrecorded carries none.
HeartbeatWithoutLog == proc = "unrecorded" /\ Published(NoRoot)

\* Every relay serves its own last copy and may have missed the later ones, so
\* that any heartbeat may be read, unless this connection has brought one of a
\* later second; of two of one second the lower id decides, so either may be
\* the newer. How old a heartbeat may be before it reads as Dark is left out.
Read(i) ==
    LET root == beats[i].root
    IN  /\ beats[i].at >= newest
        /\ newest' = beats[i].at
        /\ latest' = (IF i > latest THEN i ELSE latest)
        /\ lagged' = (lagged \/ i < latest)
        /\ \/ /\ root = NoRoot
              /\ alarms' = alarms \cup (IF seen = <<>> THEN {} ELSE {"stopped"})
              /\ UNCHANGED seen
           \/ /\ root # NoRoot
              /\ seen' = Observed(seen, root, RootsKept)
              /\ alarms' = alarms \cup Alarm(seen, root)
        /\ UNCHANGED <<vars, beats>>

\* A screen that starts the watch again opens a connection that has brought
\* nothing yet; the roots seen are kept.
Connect ==
    /\ newest # Unread
    /\ newest' = Unread
    /\ UNCHANGED <<vars, beats, latest, lagged, seen, alarms>>

ReviewNext ==
    \/ LogStep \/ Heartbeat \/ HeartbeatWithoutLog
    \/ \E i \in DOMAIN beats : Read(i)
    \/ Connect

ReviewSpec == ReviewInit /\ [][ReviewNext]_reviewVars

-----------------------------------------------------------------------------
\* Every entry's proof verifies against the root, and for no other entry.
ProofsVerify(log) ==
    \A i, j \in DOMAIN log :
        VerifyInclusion(log[j], InclusionProof(log, i - 1), MerkleRoot(log)) <=> i = j

LeavesVerify ==
    \A n \in 0 .. MaxLeaves : ProofsVerify([i \in 1 .. n |-> Entry(i, i - 1, 0)])

\* An operator handed an entry and its proof finds it in the tree the watch
\* committed to, whatever was lost or rotated out before, and no entry passes
\* with another's proof.
ReviewVerifies == LeavesVerify /\ ProofsVerify(mem)

\* The terminal accuses nobody without a cause: of a watch whose log was never
\* damaged nor rotated it says neither that it diverged nor, unless it read an
\* older heartbeat after a later one, that it shrank, however often the watch
\* crashes; and only damage stops a watch committing to its log.
AlarmHasACause ==
    /\ "diverged" \in alarms => damaged \/ expired # {}
    /\ "shrank" \in alarms => damaged \/ expired # {} \/ lagged
    /\ "stopped" \in alarms => damaged
=============================================================================
