--------------------------- MODULE UnitGovernance ---------------------------
(***************************************************************************)
(* core/src/units/governance.ts: a phone that holds a growing set of a     *)
(* unit's signed acts and reads from them who is in the unit and who holds *)
(* its offices (evaluate). Any key may author an act on any state it likes *)
(* to name, whatever has been built since, and a second signature may come *)
(* long after the act. The unit starts from a co-signed checkpoint, so     *)
(* with members, officers and a term under way.                            *)
(*                                                                         *)
(* Acts arrive in one order per set, `Canonical', endings last: a reading  *)
(* is of the set. The ids are hashes, the same on every phone, and which   *)
(* of two is the smaller is chance: `readings' reads the set for two of    *)
(* the ways the hashing may come out, ids that ascend in the order of      *)
(* arrival and ids that descend.                                           *)
(***************************************************************************)
EXTENDS UnitCrossing

CONSTANTS
    Units,        \* by name, a unit and what may be done in it: [state, menu,
                  \* size: how many acts, late: second signatures that come later]
    MaxParents    \* MAX_PARENTS

\* A statement as it is signed; ids and keys are numbers.
Act == [t : {"remove", "leave", "result", "recall", "vacate", "open", "petition", "admit"},
        by : Nat, cos : SUBSET Nat, key : Nat, office : Offices \cup {"none"}, readmits : Nat,
        vote : Nat, signers : SUBSET Nat, prev : SUBSET Nat]

\* A unit starts with a roster that fits its room, and with officers out of it.
ASSUME GovernanceAssumption ==
    /\ MaxParents \in Nat
    /\ \A u \in Range(Units) :
         /\ {u.size, u.late} \subseteq Nat /\ u.menu \subseteq Act
         /\ LET o == u.state.offices
            IN  /\ u.state = UnitState(u.state.members, o["co"], o["xo"])
                /\ IsFiniteSet(u.state.members) /\ Cardinality(u.state.members) <= Room
                /\ o \in OfficesAmong(u.state.members)
                /\ o["co"].holder = o["xo"].holder => o["co"].holder = NoKey

VARIABLES unit,       \* the name of the unit
          acts,       \* the acts held, an act's id being its place
          readings,   \* what is read of them: [FALSE |-> where ids ascend, TRUE |-> descend]
          follow,     \* the removal this phone follows in a split, or Root
          late        \* ghost: second signatures that came late

vars == <<unit, acts, readings, follow, late>>

-----------------------------------------------------------------------------
(* runFrom: each act is read after its parents, against its own ancestors. *)

Seen(before) == [ids |-> DOMAIN before.v, v |-> before.v, branch |-> before.branch]

\* ancestryStatus
Status(x, state, c) ==
    IF OnBranch(c, x.prev) THEN Inherit(c, x.prev)
    ELSE IF IsAllowed(x, state) THEN Stands
    ELSE IF AllVoid(c, x.prev) THEN "built-on-void" ELSE "not-allowed"

Seconds(x, state, c) == IF OnBranch(c, x.prev) THEN {} ELSE SecondSigners(x, state)

Memo(x, before) ==
    [before |-> before,
     status |-> Status(x, before.state, Seen(before)),
     seconds |-> Seconds(x, before.state, Seen(before))]

NotRead(h) == [before |-> [state |-> h.base, v |-> <<>>, branch |-> {}, splits |-> {}],
               status |-> "held", seconds |-> {}]

\* Slip: what names an act that waits for its second signature does not wait.
Known_Held(h, x) == x.prev \subseteq {Root} \cup 1 .. Len(h.memo)

\* An act held gives nothing a place to stand: what names it waits with it.
Known(h, x) == x.prev \subseteq {Root} \cup h.active

\* Alone only in a unit of two, removing the other.
Complete(x, state) ==
    ~NeedsCosign(x.t) \/ x.cos # {} \/ (x.t = "remove" /\ Cardinality(state.members) = 2)

Memoed(h, id, memo) ==
    IF Known(h, h.acts[id]) /\ Complete(h.acts[id], memo.before.state)
    THEN [h EXCEPT !.memo = Append(@, memo), !.active = @ \cup {id}]
    ELSE [h EXCEPT !.memo = Append(@, NotRead(h))]

ReadAct(h, id) ==
    LET x == h.acts[id]
        g == [h EXCEPT !.anc = Append(@, Ancestors(@, x.prev))]
    IN  Memoed(g, id, Memo(x, Fold(g, g.anc[id] \cap g.active)))

Unfolded(base, as, desc, side) ==
    [base |-> base, acts |-> as, anc |-> <<>>,
     desc |-> desc, follow |-> side, memo |-> <<>>, active |-> {}, fold |-> <<>>]

\* A state in full, not as the computation that led to it.
Plain(f) == [x \in DOMAIN f |-> f[x]]
InFull(st) ==
    [st EXCEPT !.runs = Plain(@), !.holding = Plain(@), !.readmitted = Plain(@), !.closed = Plain(@)]

ReadAs(h, fold) ==
    [anc |-> h.anc, active |-> h.active, state |-> InFull(fold.state),
     standing |-> {id \in h.active : fold.v[id] = Stands},
     sides |-> {pair[1] : pair \in fold.splits}, seconded |-> {id \in h.active : h.memo[id].seconds # {}},
     allowed |-> \A id \in h.active : h.memo[id].status = Stands]

Finished(h) == ReadAs(h, Fold(h, h.active))

\* Every act read in turn.
History(base, as, desc, side) ==
    LET read[n \in 0 .. Len(as)] ==
            IF n = 0 THEN Unfolded(base, as, desc, side) ELSE ReadAct(read[n - 1], n)
    IN  read[Len(as)]

Reading(base, as, desc, side) == Finished(History(base, as, desc, side))

Read(as, side) == [desc \in BOOLEAN |-> Reading(Units[unit].state, as, desc, side)]

-----------------------------------------------------------------------------
\* One order per set of acts: what does not stand on the last act is no smaller.
Rank(x) ==
    LET kind == CASE x.t = "admit" -> 0 [] x.t \in {"open", "petition"} -> 1
                  [] x.t \in {"result", "recall"} -> 2 [] x.t = "remove" -> 3
                  [] x.t = "vacate" -> 4 [] x.t = "leave" -> 5
    IN  10 * kind + x.by

Canonical(x) == acts # <<>> => Len(acts) \in x.prev \/ Rank(x) >= Rank(acts[Len(acts)])

\* Parents: some acts, none an ancestor of another.
Parents ==
    {{Root}} \cup {p \in SUBSET (1 .. Len(acts)) :
        /\ p # {} /\ Cardinality(p) <= MaxParents
        /\ \A a, b \in p : a \notin readings[FALSE].anc[b]}

\* The vote an act posts the outcome of: one for its office, open where it stands.
VotesFor(b) ==
    IF b.t \notin {"result", "recall"} THEN {Root}
    ELSE {id \in DOMAIN acts : acts[id].t \in {"open", "petition"} /\ acts[id].office = b.office}

\* Any key authors an act on any state; only what its ancestors allow is kept.
Author(b, prev, vote, cos) ==
    LET x == [b EXCEPT !.prev = prev, !.vote = vote, !.cos = cos]
    IN  /\ Len(acts) < Units[unit].size /\ Canonical(x)
        /\ acts' = Append(acts, x)
        /\ readings' = Read(acts', follow)
        /\ readings'[FALSE].allowed
        /\ UNCHANGED <<unit, follow>>

Authored ==
    \E b \in Units[unit].menu : \E prev \in Parents : \E vote \in VotesFor(b) :
        \/ Author(b, prev, vote, b.cos) /\ UNCHANGED late
        \/ b.cos # {} /\ late < Units[unit].late /\ late' = late + 1 /\ Author(b, prev, vote, {})

\* The second signature comes, however late.
CoSigned ==
    \E id \in DOMAIN acts : \E b \in Units[unit].menu :
        /\ NeedsCosign(acts[id].t) /\ acts[id].cos = {}
        /\ b.cos # {} /\ [acts[id] EXCEPT !.prev = {}, !.vote = Root] = [b EXCEPT !.cos = {}]
        /\ acts' = [acts EXCEPT ![id].cos = b.cos]
        /\ readings' = Read(acts', follow)
        /\ UNCHANGED <<unit, follow, late>>

\* A person chooses the side of a split this phone follows.
Follow ==
    \E side \in readings[FALSE].sides :
        /\ follow = Root /\ follow' = side
        /\ readings' = Read(acts, follow')
        /\ UNCHANGED <<unit, acts, late>>

Init ==
    /\ unit \in DOMAIN Units /\ acts = <<>> /\ follow = Root /\ late = 0
    /\ readings = Read(<<>>, Root)

Next == Authored \/ CoSigned \/ Follow

Spec == Init /\ [][Next]_vars

-----------------------------------------------------------------------------
State(desc) == readings[desc].state
Standing(desc) == readings[desc].standing

\* A key readmitted in a removed holder's place does not vote while the old key
\* still does, so one place never counts twice (governance.ts:487-492). It does
\* where the new key was elected to the other office and then removed from it.
CountedTwice(st) ==
    {old \in DOMAIN st.readmitted : {old, st.readmitted[old]} \subseteq ElectorateOf(st)}
OnePlaceOneVote == \A desc \in BOOLEAN : CountedTwice(State(desc)) = {}

\* Whatever order the acts of a crossed history arrive in, the unit read from
\* them is one: its officers are members, nobody holds both offices, no key is
\* both in and out, the members never pass the room, and the electorate passes
\* it only by the places that count twice.
UnitIsSound ==
    \A desc \in BOOLEAN :
        LET st == State(desc) IN
        /\ \A o \in Offices : st.offices[o].holder \in st.members \cup {NoKey}
        /\ st.offices["co"].holder = st.offices["xo"].holder => st.offices["co"].holder = NoKey
        /\ Cardinality(st.members) <= Room
        /\ Cardinality(ElectorateOf(st)) <= Room + Cardinality(CountedTwice(st))
        /\ st.members \cap st.removed = {} /\ DOMAIN st.holding \subseteq st.removed

\* What stood and no longer does; and what has just begun to be read.
Fell(desc) == Standing(desc) \ Standing(desc)'
New(desc) == readings'[desc].active \ readings[desc].active
OneUnit(desc) == readings[desc].sides = {} /\ readings'[desc].sides = {}

\* A vote whose opener opened another beside it: both are void until one settles,
\* and again where what settled it falls.
OpenedTwice(desc, id) ==
    \E b \in readings[desc].active : /\ SameVote(acts[b], acts[id])
                                     /\ Concurrent(readings[desc].anc, b, id)

\* The holder a petition was against no longer holds the office.
Ousted(desc, pet) == State(desc)'.offices[acts[pet].office].holder # acts[pet].key

Left(desc, key) == \E e \in New(desc) : acts'[e].t = "leave" /\ acts'[e].by = key

\* What a vote was built on fell with it: the admission that let a key in, or an
\* ending, which made room for the vote.
Ground(desc, id) == readings[desc].anc[id] \cap Fell(desc)
NotLetIn(desc, id, key) == \E a \in Ground(desc, id) : acts[a].t = "admit" /\ acts[a].key = key
NotEnded(desc, id) == \E a \in Ground(desc, id) : acts[a].t \in {"vacate", "leave"}


\* A leave that arrives beside another of the same key: they void each other, the
\* key is in the unit again, and in the room an admission after the first took.
LeavesTwice(desc, y) ==
    \E e \in New(desc), l \in Fell(desc) :
        /\ acts'[e].t = "leave" /\ acts[l].t = "leave" /\ acts'[e].by = acts[l].by
        /\ Concurrent(readings'[desc].anc, e, l)
        /\ acts[y].t = "admit" /\ acts[l].by \in State(desc)'.members

\* A vote that stands ended the office of one who signed an act beside it.
Deposed(desc, y) ==
    LET h == History(Units[unit].state, acts, desc, follow)
    IN  \E d \in Standing(desc) :
          /\ acts[d].t \in {"result", "recall"} /\ Concurrent(readings[desc].anc, d, y)
          /\ \E k \in {acts[y].by} \cup h.memo[y].seconds : EndsTenure(h, d, k)


\* Votes open before a step and after it, and who may settle them.
SameElectorates(desc) ==
    \A run \in DOMAIN State(desc).runs \cap DOMAIN State(desc)'.runs :
        State(desc).runs[run].electorate = State(desc)'.runs[run].electorate

\* The electorate of a vote is frozen at the state the vote names
\* (governance.ts:111): nothing that arrives later changes who may settle it
\* while it is open. It is changed where an officer removed the other member of
\* a unit of two alone, and that removal, already read and built on, is
\* co-signed afterwards.
FrozenAtTheStateNamed == [][follow' = follow => \A desc \in BOOLEAN : SameElectorates(desc)]_vars

\* Nothing else that arrives does: no act, whatever it names and voids, and no
\* second signature an act was waiting for. (To follow a side of a split does:
\* a vote built on both sides is then read as built on one.)
ElectoratesStayFrozen ==
    [][follow' = follow =>
         \A desc \in BOOLEAN :
           (\A id \in readings[desc].active : acts'[id] = acts[id]) => SameElectorates(desc)]_vars
=============================================================================
