----------------------------- MODULE HashChain -----------------------------
(***************************************************************************)
(* core/src/log.ts: the hash chain the accountability logs are kept as.    *)
(* An entry's hash commits to its content and to the entry before it; here *)
(* it is the entry's id, unique per appended entry, and `prev` is the id   *)
(* of the entry it was chained from, Genesis for the first.                *)
(***************************************************************************)
EXTENDS Integers, Sequences

Genesis == 0

Entry(id, prev, at) == [id |-> id, prev |-> prev, at |-> at]

\* The id a next entry is chained from.
LastHash(log) == IF log = <<>> THEN Genesis ELSE log[Len(log)].id

AppendEntry(log, id, at) == Append(log, Entry(id, LastHash(log), at))

\* Each entry follows the one before it, whatever the first one follows.
Contiguous(log) == \A i \in 2 .. Len(log) : log[i].prev = log[i - 1].id

\* verifyChain: contiguous, and the first entry follows the declared start.
VerifyChain(log, startsAt) ==
    /\ log # <<>> => log[1].prev = startsAt
    /\ Contiguous(log)
=============================================================================
