---------------------------- MODULE UnitCrossing ----------------------------
(***************************************************************************)
(* core/src/units/governance.ts, runFrom and foldSet: which of a unit's    *)
(* acts stand, and what they leave. Acts valid by their own ancestry are   *)
(* crossed by the rules R10 and R0 to R6, in that order, once each; what   *)
(* stood on an act just voided is judged again; the effects of what is     *)
(* left apply in one linear order.                                         *)
(*                                                                         *)
(* A history `h' is the acts, the side of a split this phone follows, and, *)
(* for every act read so far, its ancestors and its `memo': the fold of    *)
(* its ancestors, whether it stands on it, and who its second signers are; *)
(* inside a fold, `fold' is what the folds of fewer acts gave.             *)
(***************************************************************************)
EXTENDS UnitChain, UnitRules, FiniteSetsExt

Stands == "stands"

StateOf(h, id) == h.memo[id].before.state
\* Of the second signers that would do, the one that counts.
Chosen(h, id) == IF h.memo[id].seconds = {} THEN {} ELSE {Min(h.memo[id].seconds)}
SignersOf(h, id) == {h.acts[id].by} \cup Chosen(h, id)
Conc(h, a, b) == Concurrent(h.anc, a, b)

\* The acts read that an act had not seen, and that had not seen it.
Beside(h, id) == {a \in DOMAIN h.anc : Conc(h, a, id)}

\* A fold in progress: the acts folded, in order, what each reads as, and those
\* that are void for lying on one side of a split.
Live(c) == {id \in c.ids : c.v[id] = Stands}
Strike(c, S, reason) == [c EXCEPT !.v = [id \in c.ids |-> IF id \in S THEN reason ELSE @[id]]]

AllVoid(c, prev) == \A p \in prev : p \in c.ids /\ c.v[p] # Stands
OnBranch(c, prev) == AllVoid(c, prev) /\ prev \cap c.branch # {}
Inherit(c, prev) ==
    IF \E p \in prev : p \in c.ids /\ c.v[p] = "split-not-followed" THEN "split-not-followed"
    ELSE "built-on-void"

RemovedBy(x) == IF x.t = "remove" THEN {x.key} ELSE IF x.t = "leave" THEN {x.by} ELSE {}

\* Acts that decide one thing: a copy of a vote is not a second vote.
OutcomeOf(x) == IF x.t \in {"result", "recall"} THEN <<x.t, x.vote, x.key>> ELSE <<>>
Copies(h, live, a) ==
    {b \in live : b = a \/ (OutcomeOf(h.acts[a]) # <<>> /\ OutcomeOf(h.acts[b]) = OutcomeOf(h.acts[a]))}

\* Whether x was built knowing what a decided: only its own author chose that.
Knew(h, live, x, a) == Copies(h, live, a) \cap h.anc[x] # {}

-----------------------------------------------------------------------------
\* An ancestor that stood in its own ancestry, and is among those void here.
Undermined(h, c, id, among) ==
    \E a \in h.anc[id] \cap among : h.memo[id].before.v[a] = Stands

HoldsOn(h, c, id) ==
    IsAllowed(h.acts[id], h.fold[h.anc[id] \cap Live(c)].state)

Rejudged(h, c, id) ==
    IF OnBranch(c, h.acts[id].prev)
    THEN [Strike(c, {id}, Inherit(c, h.acts[id].prev)) EXCEPT !.branch = @ \cup {id}]
    ELSE IF Undermined(h, c, id, c.ids \ Live(c)) /\ ~HoldsOn(h, c, id)
         THEN Strike(c, {id}, "built-on-void") ELSE c

Marked(h, c, id) ==
    IF c.v[id] # Stands /\ OnBranch(c, h.acts[id].prev) THEN [c EXCEPT !.branch = @ \cup {id}] ELSE c

Judged(h, c, id) == IF c.v[id] # Stands THEN c ELSE Rejudged(h, c, id)

MarkBranch(h, c) ==
    LET marked[n \in 0 .. Len(c.order)] ==
            IF n = 0 THEN c ELSE Marked(h, marked[n - 1], c.order[n])
    IN  marked[Len(c.order)]

JudgeInOrder(h, c) ==
    LET judged[n \in 0 .. Len(c.order)] ==
            IF n = 0 THEN MarkBranch(h, c) ELSE Judged(h, judged[n - 1], c.order[n])
    IN  judged[Len(c.order)]

Revised(c, done) == [c EXCEPT !.v = done.v, !.branch = done.branch]

Cascade(h, c) ==
    IF Live(c) = c.ids THEN c ELSE Revised(c, JudgeInOrder(h, c))

-----------------------------------------------------------------------------
\* R10: an ending that carries one key is void if that key authored a co-signed
\* act beside it, standing on something the ending did not see.
OneKey(h, id) ==
    h.acts[id].t \in {"vacate", "leave"} \/ (h.acts[id].t = "remove" /\ Chosen(h, id) = {})

Saw(h, live, x, y) == h.anc[y] \cap live \subseteq h.anc[x]

R10(h, c) ==
    LET live == Live(c)
        cosigned == {y \in live : Chosen(h, y) # {}}
    IN  Strike(c, {x \in live : /\ OneKey(h, x)
                                /\ \E y \in cosigned \ {x} :
                                      /\ h.acts[y].by = h.acts[x].by
                                      /\ Conc(h, x, y) /\ ~Saw(h, live, x, y)},
               "ending-crossed")

\* R0: two concurrent removals, each of a signer of the other. Where somebody
\* outside both has built on one side only, the other is void.
Opposed(h, a, b) ==
    /\ Conc(h, a, b)
    /\ RemovedBy(h.acts[a]) \cap SignersOf(h, b) # {}
    /\ RemovedBy(h.acts[b]) \cap SignersOf(h, a) # {}

BuiltOn(h, live, a, b) ==
    \E d \in live \ {a, b} :
        /\ a \in h.anc[d] /\ b \notin h.anc[d]
        /\ ~(SignersOf(h, d) \subseteq SignersOf(h, a) \cup SignersOf(h, b))

R0(h, c) ==
    LET live == Live(c)
        removals == {id \in live : h.acts[id].t = "remove"}
        pairs == {q \in removals \X removals : q[1] # q[2] /\ Opposed(h, q[1], q[2])}
        lost == {p[2] : p \in {q \in pairs : BuiltOn(h, live, q[1], q[2])
                                             /\ ~BuiltOn(h, live, q[2], q[1])}}
        split == {q \in pairs : BuiltOn(h, live, q[1], q[2]) <=> BuiltOn(h, live, q[2], q[1])}
        notFollowed == {p[2] : p \in {q \in split : q[1] = h.follow}}
        neither == {p[1] : p \in {q \in split : h.follow \notin {q[1], q[2]}}} \ {h.follow}
        struck == Strike(Strike(Strike(c, neither, "split"), notFollowed, "split-not-followed"),
                         lost, "removal-wins")
    IN  [struck EXCEPT !.branch = @ \cup ((neither \cup notFollowed) \ lost),
                       !.splits = split]

\* R1: one vote per opener; one that has settled keeps its outcome.
SameVote(x, y) ==
    x.t = y.t /\ x.by = y.by /\ x.office = y.office /\ (x.t = "petition" => x.key = y.key)

R1(h, c) ==
    LET live == Live(c)
        settled == {h.acts[a].vote : a \in {b \in live : h.acts[b].t \in {"result", "recall"}}}
        votes == {id \in live : h.acts[id].t \in {"open", "petition"}}
    IN  Strike(c, {a \in votes \ settled :
                      \E b \in votes : Conc(h, a, b) /\ SameVote(h.acts[a], h.acts[b])},
               "crossed-opens")

\* R2: concurrent results for one office naming two winners, neither built
\* knowing the other, and a winner of both offices at once.
OfficeOf(h, id) == StateOf(h, id).runs[h.acts[id].vote].office

R2(h, c) ==
    LET live == Live(c)
        results == {id \in live : h.acts[id].t = "result"}
        rivals == {q \in results \X results :
                      /\ Conc(h, q[1], q[2])
                      /\ ~Knew(h, live, q[1], q[2]) /\ ~Knew(h, live, q[2], q[1])}
        crossed == {p[1] : p \in {q \in rivals : OfficeOf(h, q[1]) = OfficeOf(h, q[2])
                                               /\ h.acts[q[1]].key # h.acts[q[2]].key}}
        both == {p[1] : p \in {q \in rivals : OfficeOf(h, q[1]) = "xo" /\ OfficeOf(h, q[2]) = "co"
                                              /\ h.acts[q[1]].key = h.acts[q[2]].key}}
    IN  Strike(Strike(c, both, "office-conflict"), crossed, "crossed-results")


\* R3: a removal never defeats a result it was not built knowing.
R3(h, c) ==
    LET live == Live(c)
    IN  Strike(c, {x \in live : /\ h.acts[x].t = "remove"
                                /\ \E r \in live : /\ h.acts[r].t = "result"
                                                   /\ h.acts[r].key = h.acts[x].key
                                                   /\ Conc(h, x, r) /\ ~Knew(h, live, x, r)},
               "vote-protection")

\* R4: a change of command ends the authority it took, unless somebody who did
\* not sign the act built a copy of the change on it.
AfterOf(h, id) ==
    LET before == StateOf(h, id)
        done == Apply(before, h.acts[id], id, before, Beside(h, id))
    IN  IF done.ok THEN done.state ELSE before

EndsTenure(h, id, key) == IsOfficer(StateOf(h, id), key) /\ ~IsOfficer(AfterOf(h, id), key)

R4(h, c) ==
    LET live == Live(c)
        changes == {id \in live : h.acts[id].t \in {"result", "recall", "vacate"}}
        signers(y) == {h.acts[y].by} \cup h.memo[y].seconds
        vouched(d, y) == \E b \in Copies(h, live, d) :
                            h.acts[b].by \notin signers(y) /\ y \in h.anc[b]
        holders(y) == {k \in signers(y) : IsOfficer(StateOf(h, y), k)}
        ended(y) == holders(y) # {} /\ \A k \in holders(y) :
                        \E d \in changes : /\ Conc(h, d, y) /\ EndsTenure(h, d, k)
                                           /\ ~vouched(d, y)
    IN  Strike(c, {y \in live : /\ h.acts[y].t \in {"admit", "remove"}
                                /\ NeedsAuthority(h.acts[y], StateOf(h, y)) /\ ended(y)},
               "office-ended")

Votes == {"open", "petition", "result", "recall"}


\* A leave is one key: it takes out what it authored, never what it co-signed.
TakesOut(h, x, y, k, cosigner) ==
    /\ x # y /\ Conc(h, x, y) /\ k \in RemovedBy(h.acts[x])
    /\ ~(cosigner /\ h.acts[x].t = "leave")

\* R5: removal wins over what it crosses, except over a vote.
R5(h, c) ==
    LET live == Live(c)
        removals == {id \in live : h.acts[id].t \in {"remove", "leave"}}
        out(y, k, cosigner) == \E x \in removals : TakesOut(h, x, y, k, cosigner)
    IN  Strike(c, {y \in live :
                      /\ h.acts[y].t \notin Votes
                      /\ \/ out(y, h.acts[y].by, FALSE)
                         \/ /\ h.memo[y].seconds # {}
                            /\ \A k \in h.memo[y].seconds : out(y, k, TRUE)},
               "removal-wins")

\* R6: concurrent admissions that together pass the room, and concurrent
\* readmissions of one leader by members using the open election, all fall.
R6(h, c) ==
    LET live == Live(c)
        joins == {id \in live : h.acts[id].t = "admit"}
        beside(a) == {b \in joins : b = a \/ Conc(h, a, b)}
        leader(a) == IF IsOfficer(StateOf(h, a), h.acts[a].by) THEN NoKey ELSE h.acts[a].readmits
        fresh(a) == {h.acts[b].key : b \in beside(a)} \ StateOf(h, a).members
        freed(a) == {h.acts[b].readmits : b \in beside(a)} \cap
                       (DOMAIN StateOf(h, a).holding \ DOMAIN StateOf(h, a).readmitted)
    IN  Strike(c, {a \in joins :
                      \/ leader(a) # NoKey /\ \E b \in beside(a) \ {a} : leader(b) = leader(a)
                      \/ SeatsTaken(StateOf(h, a), NoKey) - Cardinality(freed(a))
                           + Cardinality(fresh(a)) > Room},
               "crossed-admissions")

-----------------------------------------------------------------------------
\* 6c. Effects. A crossed result closes its run contested; an act an effect
\* voided takes with it what no longer holds without it.
Contested(st, run, id) ==
    IF run \in DOMAIN st.runs \/ run \notin DOMAIN st.closed
    THEN [st EXCEPT !.runs = Drop(@, {run}), !.closed = Put(@, run, [winner |-> NoKey, by |-> id])]
    ELSE st

Effect(h, e, id) ==
    LET x == h.acts[id]
        c == e.c
        done == Apply(e.state, x, id, StateOf(h, id), Beside(h, id))
    IN  CASE c.v[id] = "crossed-results" -> [e EXCEPT !.state = Contested(@, x.vote, id)]
          [] c.v[id] \notin {Stands, "crossed-results"} -> e
          [] c.v[id] = Stands /\ OnBranch(c, x.prev) ->
               [e EXCEPT !.c = [Strike(c, {id}, Inherit(c, x.prev)) EXCEPT !.branch = @ \cup {id}]]
          [] OTHER ->
               IF \/ e.late # {} /\ Undermined(h, c, id, e.late) /\ ~HoldsOn(h, c, id)
                  \/ ~done.ok
               THEN [e EXCEPT !.c = Strike(c, {id}, "built-on-void"), !.late = @ \cup {id}]
               ELSE [e EXCEPT !.state = done.state]

Unread(h, ids) ==
    [ids |-> ids,
     order |-> Linearize(ids, [id \in ids |-> h.acts[id].prev],
                         [id \in ids |-> Class(h.acts[id].t)], h.desc),
     v |-> [id \in ids |-> h.memo[id].status],
     branch |-> {}, splits |-> {}]

\* Acts void in their own ancestry are crossed by nothing; then one rule after
\* another, and after each what no longer holds without what it voided.
SidesCrossed(h, c) == Cascade(h, R0(h, Cascade(h, R10(h, Cascade(h, c)))))
VotesCrossed(h, c) == Cascade(h, R3(h, Cascade(h, R2(h, Cascade(h, R1(h, c))))))
RosterCrossed(h, c) == Cascade(h, R6(h, Cascade(h, R5(h, Cascade(h, R4(h, c))))))
Crossed(h, c) == RosterCrossed(h, VotesCrossed(h, SidesCrossed(h, c)))

Effects(h, ids, c) ==
    LET after[n \in 0 .. Cardinality(ids)] ==
            IF n = 0 THEN [c |-> c, state |-> h.base, late |-> {}]
            ELSE Effect(h, after[n - 1], c.order[n])
    IN  after[Cardinality(ids)]

Folded(e) == [state |-> e.state, v |-> e.c.v, branch |-> e.c.branch, splits |-> e.c.splits]

\* foldSet of `ids', with `fold' for what a fold inside it needs of fewer acts.
FoldWith(h, fold, ids) ==
    LET g == [h EXCEPT !.fold = fold]
    IN  Folded(Effects(g, ids, Crossed(g, Unread(g, ids))))

Fold(h, ids) ==
    LET fold[some \in SUBSET ids] == FoldWith(h, fold, some)
    IN  FoldWith(h, fold, ids)
=============================================================================
