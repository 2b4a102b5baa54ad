------------------------------- MODULE MCUnit -------------------------------
\* Small Led units, and what may be done in each.
EXTENDS UnitGovernance

Body(t, by) == [t |-> t, by |-> by, cos |-> {}, key |-> NoKey, office |-> "none",
                readmits |-> NoKey, vote |-> Root, signers |-> {}, prev |-> {}]
Admission(by, cos, key, readmits) == [Body("admit", by) EXCEPT !.cos = cos, !.key = key, !.readmits = readmits]
Removal(by, cos, key) == [Body("remove", by) EXCEPT !.cos = cos, !.key = key]
Leave(by) == Body("leave", by)
Vacate(by, office) == [Body("vacate", by) EXCEPT !.office = office]
OpenFor(by, office) == [Body("open", by) EXCEPT !.office = office]
Petition(by, office, key) == [Body("petition", by) EXCEPT !.office = office, !.key = key]
Result(by, office, key) == [Body("result", by) EXCEPT !.office = office, !.key = key]
Recall(by, office, signers) == [Body("recall", by) EXCEPT !.office = office, !.signers = signers]

Led(phase) == UnitState({1, 2, 3, 4}, Office(1, FALSE, 1, phase), Office(2, FALSE, 1, phase))

Full == UnitState({1, 2, 3, 4, 7}, Office(1, FALSE, 1, "old"), Office(2, FALSE, 1, "old"))

Endings == [state |-> Led("old"), size |-> 3, late |-> 1, menu |->
    {Admission(1, {3}, 5, NoKey), Admission(1, {2}, 6, NoKey),
     Removal(1, {3}, 4), Removal(3, {4}, 2), Removal(2, {4}, 3), Removal(4, {3}, 1),
     Vacate(1, "co"), Vacate(2, "xo"), Leave(1), Leave(3), Petition(3, "co", 1)}]

Elections == [state |-> Led("over"), size |-> 4, late |-> 0, menu |->
    {OpenFor(3, "co"), Result(3, "co", 3), Result(4, "co", 2), OpenFor(4, "xo"), Result(4, "xo", 3),
     Removal(1, {2}, 3), Removal(4, {3}, 1), Vacate(1, "co"), Leave(3)}]

Recalls == [state |-> Led("old"), size |-> 4, late |-> 0, menu |->
    {Petition(3, "co", 1), Recall(3, "co", {3, 4}), Recall(4, "co", {2, 3}), Removal(1, {2}, 3),
     Removal(2, {4}, 3), Admission(1, {4}, 5, NoKey), OpenFor(4, "xo"), Result(4, "xo", 3), Vacate(2, "xo"), Leave(2)}]

Readmissions == [state |-> Led("old"), size |-> 5, late |-> 0, menu |->
    {Removal(3, {4}, 1), Removal(4, {3}, 2), OpenFor(3, "co"), Admission(3, {4}, 5, 2),
     Admission(4, {3}, 6, 2), Result(3, "co", 5)}]

StandIns == [state |-> Full, size |-> 5, late |-> 0, menu |->
    {Removal(3, {4}, 1), Admission(2, {3}, 5, 1), OpenFor(3, "xo"), Result(4, "xo", 5), Removal(3, {4}, 5)}]

\* A CO under petition is recalled, removed and leaves, all beside each other.
Ousting == [state |-> Led("old"), size |-> 4, late |-> 0, menu |->
    {Petition(3, "co", 1), Recall(3, "co", {3, 4}), Removal(3, {4}, 1), Leave(1), Vacate(1, "co")}]

\* One key opens two elections beside each other, and one of them settles.
TwoOpens == [state |-> Led("over"), size |-> 5, late |-> 0, menu |->
    {OpenFor(3, "xo"), Vacate(1, "co"), Result(4, "xo", 1), Removal(1, {3}, 4)}]

\* A key that has signed admissions leaves twice.
Returns == [state |-> Led("old"), size |-> 5, late |-> 0, menu |->
    {Admission(1, {3}, 5, NoKey), Admission(1, {2}, 6, NoKey), Admission(2, {4}, 6, NoKey), Leave(1)}]

\* The co-signer of an admission is removed beside it, after who it let in has
\* opened a vote, won one or had one settled.
LetInAside == [state |-> Led("over"), size |-> 4, late |-> 0, menu |->
    {Admission(1, {3}, 5, NoKey), OpenFor(3, "xo"), OpenFor(5, "xo"), Result(4, "xo", 4), Result(4, "xo", 5),
     Petition(5, "co", 1), Recall(4, "co", {3, 4, 5}), Removal(1, {4}, 3), Removal(2, {4}, 3)}]

\* Both officers sign a removal; a result ends the office of one, and the other vacates.
BothEnd == [state |-> Led("over"), size |-> 4, late |-> 0, menu |->
    {OpenFor(3, "co"), Result(3, "co", 3), Removal(1, {2}, 4), Vacate(2, "xo")}]

Three == UnitState({1, 2, 3}, Office(1, FALSE, 1, "over"), Office(3, FALSE, 1, "over"))

Alone == [state |-> Three, size |-> 4, late |-> 1, menu |->
    {Removal(2, {1}, 3), Removal(1, {3}, 2), Leave(2), OpenFor(1, "co")}]

MCUnits == [endings |-> Endings, elections |-> Elections, recalls |-> Recalls,
            readmissions |-> Readmissions, standins |-> StandIns,
            ousting |-> Ousting, opens |-> TwoOpens, returns |-> Returns, aside |-> LetInAside, both |-> BothEnd]
MCStandIns == [standins |-> StandIns]
MCAlone == [alone |-> Alone]
=============================================================================
