----------------------------- MODULE UnitChain -----------------------------
(***************************************************************************)
(* core/src/units/chain.ts: the order of a unit's acts, from parent links  *)
(* alone. An act is its place in the sequence it arrived in, and an id is  *)
(* compared as that place is. An id is a hash, so any order of the places  *)
(* may be that of the ids; two are read, ascending and descending          *)
(* (`desc').                                                               *)
(***************************************************************************)
EXTENDS Integers, Sequences, FiniteSets, Functions

\* What the first acts name as their parent.
Root == 0

\* ancestorsOf an act that names `prev': its parents arrived before it.
Ancestors(anc, prev) == prev \cup UNION {anc[p] : p \in prev \ {Root}}

Concurrent(anc, a, b) == a # b /\ b \notin anc[a] /\ a \notin anc[b]

\* What is placed when: parents inside `ids' first, then the smallest by class,
\* then by id. A parent outside `ids' counts as placed.
Precedes(class, desc, a, b) ==
    class[a] < class[b] \/ (class[a] = class[b] /\ IF desc THEN a > b ELSE a < b)

Linearize(ids, prevs, class, desc) ==
    LET ready(left) == {id \in left : prevs[id] \cap left = {}}
        first(left) == CHOOSE a \in ready(left) :
                           \A b \in ready(left) \ {a} : Precedes(class, desc, a, b)
        placed[n \in 0 .. Cardinality(ids)] ==
            IF n = 0 THEN <<>>
            ELSE Append(placed[n - 1], first(ids \ Range(placed[n - 1])))
    IN  placed[Cardinality(ids)]
=============================================================================
