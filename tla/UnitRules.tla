----------------------------- MODULE UnitRules -----------------------------
(***************************************************************************)
(* core/src/units/governance.ts: the state of a Led unit, what each act    *)
(* may do on the state its own ancestors produce (checkWith), and what it  *)
(* does to the state it is applied to (applyAct).                          *)
(*                                                                         *)
(* Only whether the table allows an act is kept, not which of its reasons  *)
(* refuses it. Every act is dated at one time, past the thirty days of the *)
(* terms the unit begins with: an office's `phase' says whether its term   *)
(* is over by then, and a term that begins is "young". Results carry       *)
(* exactly the endorsements their frozen electorate takes, and so are not  *)
(* told apart by them; a recall's signers are kept, for what they may do   *)
(* next. Callsigns, the re-founding of a unit and the cap on a CO's terms  *)
(* are left out.                                                           *)
(***************************************************************************)
EXTENDS Integers, FiniteSets, Functions

CONSTANTS Room,       \* charter.room
          Threshold   \* thresholdOf: "majority" or "two-thirds"

ASSUME RulesAssumption == Room \in Nat /\ Threshold \in {"majority", "two-thirds"}

NoKey == 0

Offices == {"co", "xo"}

Office(holder, acting, n, phase) == [holder |-> holder, acting |-> acting, n |-> n, phase |-> phase]

\* The offices of a unit whose members are `keys'.
OfficesAmong(keys) ==
    [Offices -> [holder : keys \cup {NoKey}, acting : BOOLEAN, n : Nat, phase : {"young", "old", "over"}]]

\* State: `offices' is co and xo, and a map of the code is a function.
UnitState(members, co, xo) ==
    [members |-> members, removed |-> {}, offices |-> [co |-> co, xo |-> xo], runs |-> <<>>,
     petitioned |-> {}, recalled |-> {}, holding |-> <<>>, readmitted |-> <<>>, closed |-> <<>>]

Put(f, x, y) == [z \in DOMAIN f \cup {x} |-> IF z = x THEN y ELSE f[z]]
Drop(f, S) == [z \in DOMAIN f \ S |-> f[z]]

Holds(st, key) == {o \in Offices : st.offices[o].holder = key}
IsOfficer(st, key) == Holds(st, key) # {}

ThresholdOf(m) ==
    LET t == IF Threshold = "majority" THEN (m \div 2) + 1 ELSE (2 * m + 2) \div 3
    IN  IF t < 1 THEN 1 ELSE t

-----------------------------------------------------------------------------
\* The offices a removal leaves unfilled: an acting CO left the XO post to act.
LeftUnfilled(st, key) ==
    LET o == st.offices
    IN  Holds(st, key) \cup
        (IF o["co"].holder = key /\ o["co"].acting /\ o["xo"].holder = NoKey THEN {"xo"} ELSE {})

\* The members, and every removed holder whose office no result has filled; a
\* key readmitted in a holder's place does not vote.
ElectorateOf(st) == (st.members \ Range(st.readmitted)) \cup DOMAIN st.holding

\* A readmitted key shares its holder's place, or takes it.
SeatsTaken(st, readmits) ==
    LET shared == {old \in DOMAIN st.readmitted :
                      old \in DOMAIN st.holding /\ st.readmitted[old] \in st.members}
        freed == {old \in {readmits} : old \in DOMAIN st.holding \ DOMAIN st.readmitted}
    IN  Cardinality(st.members) + Cardinality(DOMAIN st.holding)
          - Cardinality(shared) - Cardinality(freed)

ElectionsIn(st) == {id \in DOMAIN st.runs : st.runs[id].kind # "petition"}
PetitionsIn(st) == {id \in DOMAIN st.runs : st.runs[id].kind = "petition"}

Electable(st, office) ==
    LET o == st.offices[office]
    IN  o.holder = NoKey \/ (office = "co" /\ o.acting) \/ o.phase = "over"

ReadmitOpen(st, key) ==
    key \in DOMAIN st.holding /\ \E run \in ElectionsIn(st) : st.runs[run].office \in st.holding[key]

NeedsCosign(t) == t \in {"admit", "remove"}

Class(t) ==
    CASE t \in {"remove", "leave"} -> 0
      [] t = "result" -> 1
      [] t = "recall" -> 2
      [] t = "vacate" -> 3
      [] t \in {"open", "petition"} -> 4
      [] t = "admit" -> 5

-----------------------------------------------------------------------------
(* checkWith: is act x, signed by `signers', allowed on the state `va'?    *)

MayAdmit(x, signers, va) ==
    /\ Cardinality(signers) = 2 /\ signers \subseteq va.members
    /\ x.key \notin va.members \cup va.removed
    /\ x.readmits # NoKey =>
         x.readmits \in va.removed \ DOMAIN va.readmitted /\ x.readmits # x.key
    /\ IsOfficer(va, x.by) \/ (x.readmits # NoKey /\ ReadmitOpen(va, x.readmits))
    /\ SeatsTaken(va, x.readmits) < Room

MayRemove(x, signers, va) ==
    /\ x.key \in va.members /\ {x.key} # va.members
    /\ signers \subseteq va.members \ {x.key}
    /\ Cardinality(signers) = 2 \/ Cardinality(va.members) = 2
    /\ IsOfficer(va, x.key) \/ IsOfficer(va, x.by)
    /\ ~\E r \in va.recalled :
          r.key \in signers /\ va.offices[r.office].n = r.n /\ x.key \in r.signers

MayOpen(x, va) ==
    /\ x.by \in va.members /\ Electable(va, x.office)
    /\ \A run \in ElectionsIn(va) : va.runs[run].office # x.office

MayPetition(x, va) ==
    LET o == va.offices[x.office]
    IN  /\ x.by \in va.members \cap ElectorateOf(va)
        /\ x.by # x.key /\ o.holder = x.key /\ o.n >= 1
        /\ o.phase # "young"
        /\ <<x.office, x.key, o.n>> \notin va.petitioned

MayResult(x, va) ==
    /\ x.vote \in ElectionsIn(va)
    /\ x.by \in va.members \cup va.runs[x.vote].electorate
    /\ x.key \in va.members
    /\ ~(va.runs[x.vote].office = "xo" /\ va.offices["co"].holder = x.key
           /\ ~va.offices["co"].acting)

MayRecall(x, va) ==
    /\ x.vote \in PetitionsIn(va)
    /\ LET pet == va.runs[x.vote]
       IN  /\ x.by \in va.members \cup pet.electorate
           /\ pet.opener \in x.signers /\ x.signers \subseteq pet.electorate
           /\ Cardinality(x.signers) = ThresholdOf(Cardinality(pet.electorate))

Allows(x, signers, va) ==
    CASE x.t = "admit" -> MayAdmit(x, signers, va)
      [] x.t = "remove" -> MayRemove(x, signers, va)
      [] x.t = "leave" -> x.by \in va.members
      [] x.t = "vacate" -> x.by = va.offices[x.office].holder
      [] x.t = "open" -> MayOpen(x, va)
      [] x.t = "petition" -> MayPetition(x, va)
      [] x.t = "result" -> MayResult(x, va)
      [] x.t = "recall" -> MayRecall(x, va)

\* checkAct: the second signers that would do, and whether it is allowed with
\* the one that counts, or alone.
SecondSigners(x, va) == {c \in x.cos : NeedsCosign(x.t) /\ Allows(x, {x.by, c}, va)}
IsAllowed(x, va) == SecondSigners(x, va) # {} \/ Allows(x, {x.by}, va)

\* Whether y was valid only because a position holder signed it.
NeedsAuthority(y, va) ==
    \/ y.t = "admit" /\ ~(y.readmits # NoKey /\ ReadmitOpen(va, y.readmits))
    \/ y.t = "remove" /\ ~IsOfficer(va, y.key)

-----------------------------------------------------------------------------
(* applyAct, on an accumulating state `st'; "stands" or the act is void.   *)

Done(st) == [state |-> st, ok |-> TRUE]
Void(st) == [state |-> st, ok |-> FALSE]

\* settle: a petition whose subject has lost the office it is against closes.
Settle(st) ==
    LET moot == {id \in PetitionsIn(st) :
                    st.offices[st.runs[id].office].holder # st.runs[id].subject}
    IN  [st EXCEPT !.runs = Drop(@, moot),
                   !.closed = [id \in DOMAIN @ \cup moot |->
                                 IF id \in DOMAIN @ THEN @[id] ELSE [winner |-> NoKey, by |-> id]]]

Vacant(office) == [office EXCEPT !.holder = NoKey, !.acting = FALSE]

\* A CO leaves the office to the XO, acting or not; an XO leaves it empty.
Succeed(st, key, acting) ==
    LET o == st.offices
    IN  IF o["co"].holder = key
        THEN [st EXCEPT !.offices =
                [co |-> [o["co"] EXCEPT !.holder = o["xo"].holder,
                                        !.acting = acting /\ o["xo"].holder # NoKey],
                 xo |-> Vacant(o["xo"])]]
        ELSE IF o["xo"].holder = key THEN [st EXCEPT !.offices["xo"] = Vacant(@)]
        ELSE st

DropMember(st, key) ==
    IF key \notin st.members THEN st
    ELSE Settle(Succeed([st EXCEPT !.members = @ \ {key}, !.removed = @ \cup {key}], key, TRUE))

ApplyRemove(st, x, va) ==
    LET was == LeftUnfilled(va, x.key)
        held == IF x.key \in DOMAIN st.holding THEN st.holding[x.key] ELSE {}
    IN  IF x.key \notin st.members THEN Done(st)
        ELSE Done(DropMember(IF was = {} THEN st
                             ELSE [st EXCEPT !.holding = Put(@, x.key, held \cup was)], x.key))

ApplyVacate(st, x) ==
    IF IsOfficer(st, x.by) THEN Done(Settle(Succeed(st, x.by, TRUE))) ELSE Done(st)

\* The winner takes the office; the runs for it close, and what was held of it
\* by removed keys is filled.
TakesOffice(st, run, id, key) ==
    LET o == st.offices
        off == o[run.office]
        held == [k \in DOMAIN st.holding |-> st.holding[k] \ {run.office}]
        filled == {k \in DOMAIN held : held[k] = {}}
        over == {r \in ElectionsIn(st) : st.runs[r].office = run.office}
    IN  [st EXCEPT
            !.offices = [f \in Offices |->
                IF f # run.office THEN IF o[f].holder = key THEN Vacant(o[f]) ELSE o[f]
                ELSE IF run.kind = "end" THEN Office(key, FALSE, off.n + 1, "young")
                ELSE Office(key, FALSE, off.n, off.phase)],
            !.runs = Drop(@, over),
            !.closed = [r \in DOMAIN @ \cup over |->
                          IF r \in over THEN [winner |-> key, by |-> id] ELSE @[r]],
            !.holding = Drop(held, filled),
            !.readmitted = Drop(@, filled)]

\* Slip: who won is not looked for again among the members.
MayTake_AsPosted(st, run, key) ==
    ~(run.office = "xo" /\ st.offices["co"].holder = key /\ ~st.offices["co"].acting)

\* What of a result is judged again when it takes effect.
MayTake(st, run, key) ==
    /\ key \in st.members
    /\ ~(run.office = "xo" /\ st.offices["co"].holder = key /\ ~st.offices["co"].acting)

ApplyResult(st, x, id, beside) ==
    IF x.vote \notin DOMAIN st.runs
    THEN IF /\ x.vote \in DOMAIN st.closed /\ st.closed[x.vote].winner = x.key
            /\ st.closed[x.vote].by \in beside
         THEN Done(st) ELSE Void(st)
    ELSE IF MayTake(st, st.runs[x.vote], x.key)
    THEN Done(Settle(TakesOffice(st, st.runs[x.vote], id, x.key)))
    ELSE Void(st)

\* The XO serves out a recalled CO's term as CO, not acting.
ApplyRecall(st, x, id, beside) ==
    IF x.vote \notin DOMAIN st.runs
    THEN IF x.vote \in DOMAIN st.closed /\ st.closed[x.vote].by \in beside THEN Done(st) ELSE Void(st)
    ELSE LET pet == st.runs[x.vote]
             after == Succeed(st, pet.subject, FALSE)
         IN  Done(Settle([after EXCEPT
                 !.recalled = @ \cup {[key |-> pet.subject, office |-> pet.office,
                                       n |-> st.offices[pet.office].n, signers |-> x.signers]},
                 !.runs = Drop(@, {x.vote}),
                 !.closed = Put(@, x.vote, [winner |-> pet.subject, by |-> id])]))

Run(kind, x, subject, electorate) ==
    [kind |-> kind, office |-> x.office, subject |-> subject, opener |-> x.by,
     electorate |-> electorate]

\* An electorate is frozen at the state the act names, `va'.
ApplyOpen(st, x, id, va) ==
    IF ~Electable(st, x.office) THEN Void(st)
    ELSE Done([st EXCEPT !.runs = Put(@, id,
                 Run(IF va.offices[x.office].phase = "over" THEN "end" ELSE "fill",
                     x, NoKey, ElectorateOf(va)))])

ApplyPetition(st, x, id, va) ==
    LET cur == st.offices[x.office]
        n == va.offices[x.office].n
    IN  IF cur.holder # x.key \/ cur.n # n THEN Void(st)
        ELSE Done([st EXCEPT
                !.runs = Put(@, id, Run("petition", x, x.key, ElectorateOf(va) \ {x.key})),
                !.petitioned = @ \cup {<<x.office, x.key, n>>}])

ApplyAdmit(st, x) ==
    IF x.key \in st.members THEN Done(st)
    ELSE IF x.key \in st.removed \/ SeatsTaken(st, x.readmits) >= Room THEN Void(st)
    ELSE Done([st EXCEPT !.members = @ \cup {x.key},
                         !.readmitted = IF x.readmits \in DOMAIN st.holding \ DOMAIN @
                                        THEN Put(@, x.readmits, x.key) ELSE @])

Apply(st, x, id, va, beside) ==
    CASE x.t = "remove" -> ApplyRemove(st, x, va)
      [] x.t = "leave" -> Done(DropMember(st, x.by))
      [] x.t = "result" -> ApplyResult(st, x, id, beside)
      [] x.t = "recall" -> ApplyRecall(st, x, id, beside)
      [] x.t = "vacate" -> ApplyVacate(st, x)
      [] x.t = "open" -> ApplyOpen(st, x, id, va)
      [] x.t = "petition" -> ApplyPetition(st, x, id, va)
      [] OTHER -> ApplyAdmit(st, x)   \* admit
=============================================================================
