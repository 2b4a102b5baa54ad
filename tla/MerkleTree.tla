---------------------------- MODULE MerkleTree -----------------------------
(***************************************************************************)
(* core/src/merkle.ts: the tree a log is committed to with (RFC 6962), the *)
(* proof that one entry is in it, and what a reader of roots notices. A    *)
(* hash is the term it was made from, so two are equal only if what they   *)
(* commit to is.                                                           *)
(***************************************************************************)
EXTENDS Integers, Sequences, SequencesExt

HashLeaf(entry) == <<"leaf", entry.id>>
HashNode(l, r) == <<"node", l, r>>
EmptyTree == <<"empty">>

\* The largest power of two strictly below n, for n > 1.
Split(n) ==
    LET grown[k \in 1 .. n] == IF 2 * k < n THEN grown[2 * k] ELSE k
    IN  grown[1]

\* The hashes of the slices of a log, by length n and the i entries before it.
Subtrees(log) ==
    LET hash[n \in 0 .. Len(log)] == [i \in 0 .. Len(log) - n |->
          CASE n = 0 -> EmptyTree
            [] n = 1 -> HashLeaf(log[i + 1])
            [] OTHER -> HashNode(hash[Split(n)][i], hash[n - Split(n)][i + Split(n)])]
    IN  hash

TreeHash(log) == Subtrees(log)[Len(log)][0]

\* Sibling hashes, leaf upwards, of the entry at `index`, counted from zero: in
\* each slice that holds it.
AuditPaths(index, log) ==
    LET hash == Subtrees(log)
        path[n \in 0 .. Len(log)] == [i \in 0 .. Len(log) - n |->
          CASE n <= 1 -> <<>>
            [] n > 1 /\ index < i + Split(n) ->
                 Append(path[Split(n)][i], hash[n - Split(n)][i + Split(n)])
            [] OTHER -> Append(path[n - Split(n)][i + Split(n)], hash[Split(n)][i])]
    IN  path

AuditPath(index, log) == AuditPaths(index, log)[Len(log)][0]

MerkleRoot(log) == [root |-> TreeHash(log), size |-> Len(log)]

InclusionProof(log, index) ==
    [index |-> index, size |-> Len(log), path |-> AuditPath(index, log)]

\* Slip: one bit is dropped at a time.
SkipLeft_Nothing(fn, sn) == [fn |-> fn, sn |-> sn]

\* Both indices lose their low bits until fn is odd or zero.
SkipLeft(fn, sn) ==
    LET shifted[f \in 0 .. fn] == [s \in 0 .. sn |->
            IF f = 0 \/ f % 2 = 1 THEN [fn |-> f, sn |-> s] ELSE shifted[f \div 2][s \div 2]]
    IN  shifted[fn][sn]

\* One sibling of the audit path: the hash so far and the two indices.
Climb(at, sibling) ==
    LET fromLeft == at.fn % 2 = 1 \/ at.fn = at.sn
        skipped == IF fromLeft THEN SkipLeft(at.fn, at.sn) ELSE [fn |-> at.fn, sn |-> at.sn]
    IN  IF at.sn = 0 THEN [at EXCEPT !.ok = FALSE]
        ELSE [r |-> IF fromLeft THEN HashNode(sibling, at.r) ELSE HashNode(at.r, sibling),
              fn |-> skipped.fn \div 2, sn |-> skipped.sn \div 2, ok |-> at.ok]

Climbed(start, path) ==
    LET at[n \in 0 .. Len(path)] == IF n = 0 THEN start ELSE Climb(at[n - 1], path[n])
    IN  at[Len(path)]

VerifyInclusion(entry, proof, root) ==
    LET top == Climbed([r |-> HashLeaf(entry), fn |-> proof.index, sn |-> proof.size - 1, ok |-> TRUE],
                       proof.path)
    IN  /\ proof.size = root.size
        /\ proof.index \in 0 .. proof.size - 1
        /\ top.ok /\ top.sn = 0 /\ top.r = root.root

-----------------------------------------------------------------------------
\* observeRoot: what is kept of the roots seen, and what is said of a new one.
SameAs(a, b) == a.root = b.root /\ a.size = b.size

Restated(seen, incoming) == seen # <<>> /\ SameAs(Last(seen), incoming)

\* Slip: any kept root of another tree.
Diverges_AnySize(seen, incoming) == \E i \in DOMAIN seen : seen[i].root # incoming.root

\* The first kept root of the same size is of another tree.
Diverges(seen, incoming) ==
    \E i \in DOMAIN seen :
        /\ seen[i].size = incoming.size /\ seen[i].root # incoming.root
        /\ \A j \in 1 .. i - 1 : seen[j].size # incoming.size

Observed(seen, incoming, kept) ==
    IF Restated(seen, incoming) THEN seen
    ELSE LET next == Append(seen, incoming)
         IN  SubSeq(next, IF Len(next) > kept THEN Len(next) - kept + 1 ELSE 1, Len(next))

Alarm(seen, incoming) ==
    IF seen = <<>> \/ Restated(seen, incoming) THEN {}
    ELSE IF Diverges(seen, incoming) THEN {"diverged"}
    ELSE IF incoming.size < Last(seen).size THEN {"shrank"}
    ELSE {}
=============================================================================
