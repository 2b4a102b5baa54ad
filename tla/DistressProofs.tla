--------------------------- MODULE DistressProofs ---------------------------
(***************************************************************************)
(* The phone keeps its promise over any relays, any number of responses in *)
(* flight and any amount of trouble: every Distress implements             *)
(* DistressPromise. What has to be carried along is which ladder an answer *)
(* is to: an earlier run's ladder, once this run has joined it or has been *)
(* told of it, is never answered without a person having answered this run *)
(* too, and until then no person's answer to it is under way. An attempt   *)
(* answered for an earlier Distress is named in a ladder's report only     *)
(* once it has been escalated, which is the promise's one exception.       *)
(***************************************************************************)
EXTENDS Distress, TLAPS

\* A person's answer the phone can attribute, and a message from whoever runs
\* the ladder that this run is in the earlier one.
Human(m) == m.kind = "person" /\ m.by = "executor"
NamesBoth(m) ==
    m.kind = "node" /\ m.by = "executor" /\ "old" \in m.names /\ m.names # {"old"}

\* This run and the earlier one are one ladder, as somebody knows or will.
Told == "old" \in laddered \/ ladder.of = "joined" \/ \E a \in air : NamesBoth(a.msg)

\* The attempt a hold on the earlier ladder answered is part of a ladder.
NamesAgain(m) == m.kind = "node" /\ m.by = "executor" /\ "again" \in m.names
AgainTold == "again" \in laddered \/ ladder.of = "again" \/ \E a \in air : NamesAgain(a.msg)

Flight == [msg : Messages, on : SUBSET Relays]

Types ==
    /\ air \subseteq Flight /\ laddered \subseteq {"again", "old"}
    /\ ladder \in [of : Opened, state : {"live", "exhausted"}] \cup {NoLadder}
    /\ hold \in Opened \cup {"none"} /\ owed \in {"none", "mine", "again"}
    /\ place.box \subseteq Relays /\ person \in BOOLEAN /\ crossed \in BOOLEAN

\* What is held for this run a person said of it.
HoldIsPerson == hold \in {"mine", "again", "joined"} => person

\* An answer in flight that names this run only is a person's.
MineIsPerson == \A a \in air : Human(a.msg) /\ "old" \notin a.msg.names => person

\* The earlier run's ladder, not joined, has been answered by nobody.
OldIsOpen == ladder.of = "old" => hold = "none" /\ \A a \in air : ~Human(a.msg)

\* Once the two runs are one, so is an answer to either.
ToldIsPerson ==
    Told => /\ ladder.of # "old" /\ hold # "old"
            /\ \A a \in air : Human(a.msg) /\ "old" \in a.msg.names => person

\* Only an escalation puts the attempt so answered into a ladder.
AgainIsCrossed == AgainTold => crossed

\* A held answer names the attempt it is given to and the ladder it is of.
NamesTwo == \A a \in air : Human(a.msg) => a.msg.names # {"mine", "again", "old"}

IInv == /\ Types /\ HoldIsPerson /\ MineIsPerson /\ OldIsOpen /\ ToldIsPerson
        /\ AgainIsCrossed /\ NamesTwo

-----------------------------------------------------------------------------
\* A new Distress finds the executor idle, on an earlier ladder or holding one.
LEMMA InitIInv == Init => IInv
<1>1. ASSUME Init PROVE place.box \subseteq Relays
  BY <1>1, DistressAssumption DEF Init
<1>2. Init => Types
  <2>1. [of |-> "old", state |-> "live"] \in [of : Opened, state : {"live", "exhausted"}]
    BY DEF Opened
  <2> QED BY <1>1, <2>1 DEF Init, Types, Opened
<1>3. ASSUME Init PROVE HoldIsPerson /\ MineIsPerson /\ OldIsOpen /\ NamesTwo
  BY <1>3 DEF Init, HoldIsPerson, MineIsPerson, OldIsOpen, NoLadder, NamesTwo
<1>4. ASSUME Init PROVE ~Told /\ ~AgainTold
  BY <1>4 DEF Init, Told, AgainTold, NoLadder
<1> QED BY <1>2, <1>3, <1>4 DEF IInv, ToldIsPerson, AgainIsCrossed

\* What loses responses, and changes neither the executor nor what is known of
\* its ladder, disturbs nothing.
LEMMA LosingIsSafe ==
  ASSUME IInv, UNCHANGED <<ladder, box, place>>, laddered' \subseteq {"again", "old"},
         "old" \in laddered' => Told, "again" \in laddered' => AgainTold,
         air' \subseteq Flight,
         \A b \in air' : \E a \in air : a.msg = b.msg
  PROVE  IInv'
<1>0. UNCHANGED <<ladder, hold, owed, person, crossed, place>>
  BY DEF box
<1>1. Types'
  BY <1>0 DEF IInv, Types
<1>2. HoldIsPerson' /\ MineIsPerson' /\ OldIsOpen' /\ NamesTwo'
  BY <1>0 DEF IInv, HoldIsPerson, MineIsPerson, OldIsOpen, NamesTwo
<1>3. (Told' => Told) /\ (AgainTold' => AgainTold)
  BY <1>0 DEF Told, AgainTold
<1>4. ToldIsPerson' /\ AgainIsCrossed'
  BY <1>0, <1>3 DEF IInv, ToldIsPerson, AgainIsCrossed
<1> QED BY <1>1, <1>2, <1>4 DEF IInv

\* A listener that moves takes with it what was on its way by it.
LEMMA MovesIsSafe ==
  ASSUME IInv, NEW r \in Relays, NEW to, Moves(r, to)
  PROVE  IInv' /\ Running' /\ UNCHANGED <<person, crossed>>
<1>1. air \subseteq Flight
  BY DEF IInv, Types
<1>2. \A a \in air : [a EXCEPT !.on = @ \ {r}] \in Flight /\ [a EXCEPT !.on = @ \ {r}].msg = a.msg
  BY <1>1 DEF Flight
<1>3. air' \subseteq Flight /\ \A b \in air' : \E a \in air : a.msg = b.msg
  BY <1>1, <1>2 DEF Moves
<1>4. UNCHANGED <<ladder, box, place, laddered, pc>>
  BY DEF Moves, box
<1>5. /\ laddered' \subseteq {"again", "old"}
      /\ "old" \in laddered' => Told
      /\ "again" \in laddered' => AgainTold
  BY <1>4 DEF Told, AgainTold, IInv, Types
<1>6. IInv'
  BY <1>3, <1>4, <1>5, LosingIsSafe
<1> QED BY <1>4, <1>6 DEF Moves, Running, box

\* What is heard of the ladders this run is in is so.
LEMMA LadderedIsSo ==
  ASSUME IInv, NEW a \in air, a.msg \in Messages, a.msg.names \cap Ours # {}
  PROVE  /\ laddered \cup Laddered(a.msg) \subseteq {"again", "old"}
         /\ "old" \in laddered \cup Laddered(a.msg) => Told
         /\ "again" \in laddered \cup Laddered(a.msg) => AgainTold
<1>1. laddered \subseteq {"again", "old"} /\ a.msg.names \subseteq {"mine", "again", "old"}
  BY DEF IInv, Types, Messages
<1>2. laddered \cup Laddered(a.msg) \subseteq {"again", "old"}
  BY <1>1 DEF Laddered
<1>3. ASSUME "old" \in Laddered(a.msg), "old" \notin laddered PROVE Told
  <2>1. a.msg.kind = "node" /\ a.msg.by = "executor" /\ "old" \in a.msg.names
    BY <1>3 DEF Laddered
  <2>2. a.msg.names # {"old"}
    BY <1>1, <1>3 DEF Ours
  <2> QED BY <2>1, <2>2 DEF Told, NamesBoth
<1>4. ASSUME "again" \in Laddered(a.msg) PROVE AgainTold
  BY <1>4 DEF Laddered, AgainTold, NamesAgain
<1> QED BY <1>2, <1>3, <1>4 DEF Told, AgainTold

\* What ends the call is a person's answer to it, or one given to an attempt
\* that was escalated too.
LEMMA ClosesFacts ==
  ASSUME IInv, NEW a \in air, a.msg \in Messages, Closes(a.msg)
  PROVE  person \/ (crossed /\ a.msg.names = {"again", "old"})
<1>1. Human(a.msg)
  BY DEF Closes, Human
<1>2. a.msg.names \subseteq {"mine", "again", "old"} /\ laddered \subseteq {"again", "old"}
  BY DEF Messages, IInv, Types
<1>3. CASE "old" \notin a.msg.names
  BY <1>1, <1>3 DEF IInv, MineIsPerson
<1>4. CASE "old" \in a.msg.names /\ "old" \in laddered
  BY <1>1, <1>4 DEF IInv, ToldIsPerson, Told
<1>5. CASE "old" \in a.msg.names /\ "old" \notin laddered
  <2>1. a.msg.names \cap laddered # {}
    BY <1>5 DEF Closes, Ours
  <2>2. "again" \in a.msg.names /\ "again" \in laddered
    BY <1>2, <1>5, <2>1
  <2>3. crossed
    BY <2>2 DEF IInv, AgainIsCrossed, AgainTold
  <2>4. a.msg.names # {"mine", "again", "old"}
    BY <1>1 DEF IInv, NamesTwo
  <2>5. a.msg.names = {"again", "old"}
    BY <1>2, <1>5, <2>2, <2>4
  <2> QED BY <2>3, <2>5
<1> QED BY <1>3, <1>4, <1>5

\* Hearing an answer tells the phone nothing that is not so.
LEMMA HearIsSafe ==
  ASSUME IInv, NEW a \in air, NEW r \in a.on, Hear(a, r)
  PROVE  /\ IInv' /\ UNCHANGED <<person, crossed>>
         /\ \/ UNCHANGED pc
            \/ /\ pc' = "acknowledged" /\ closedOn' = a.msg.names
               /\ person \/ (crossed /\ a.msg.names = {"again", "old"})
<1>1. a \in Flight /\ air \subseteq Flight /\ a.msg \in Messages
  BY DEF IInv, Types, Flight
<1>2. [a EXCEPT !.on = @ \ {r}] \in Flight /\ [a EXCEPT !.on = @ \ {r}].msg = a.msg
  BY <1>1 DEF Flight
<1>3. air' \subseteq Flight /\ \A b \in air' : \E c \in air : c.msg = b.msg
  BY <1>1, <1>2 DEF Hear, Silence
<1>4. UNCHANGED <<ladder, box, place>>
  BY DEF Hear, box
<1>5. laddered' = laddered \/ (laddered' = laddered \cup Laddered(a.msg) /\ a.msg.names \cap Ours # {})
  BY DEF Hear
<1>6. /\ laddered' \subseteq {"again", "old"}
      /\ "old" \in laddered' => Told
      /\ "again" \in laddered' => AgainTold
  <2>1. CASE laddered' = laddered
    BY <2>1 DEF Told, AgainTold, IInv, Types
  <2>2. CASE laddered' = laddered \cup Laddered(a.msg) /\ a.msg.names \cap Ours # {}
    BY <1>1, <2>2, LadderedIsSo
  <2> QED BY <1>5, <2>1, <2>2
<1>7. IInv'
  BY <1>3, <1>4, <1>6, LosingIsSafe
<1>8. UNCHANGED pc \/ (pc' = "acknowledged" /\ closedOn' = a.msg.names /\ Closes(a.msg))
  BY DEF Hear
<1>9. Closes(a.msg) => person \/ (crossed /\ a.msg.names = {"again", "old"})
  BY <1>1, ClosesFacts
<1> QED BY <1>4, <1>7, <1>8, <1>9 DEF box

\* What the executor says is in flight, or nobody hears it.
LEMMA SaysFacts ==
  ASSUME IInv, NEW m \in Messages, Says(m)
  PROVE  /\ air' \subseteq Flight
         /\ \A b \in air' : b.msg = m \/ \E a \in air : a.msg = b.msg
<1> DEFINE on == {r \in place.box : entry[r] = "answered"}
<1>1. air \subseteq Flight /\ on \subseteq Relays
  BY DEF IInv, Types
<1>2. [msg |-> m, on |-> on] \in Flight
  BY <1>1 DEF Flight
<1> QED BY <1>1, <1>2 DEF Says

LEMMA MessageType ==
  ASSUME NEW kind \in {"person", "node"}, NEW ids \in SUBSET {"mine", "again", "old"}
  PROVE  Message(kind, ids) \in Messages
BY DEF Message, Messages

\* An attempt that joins a live ladder makes it this run's, and says so.
LEMMA JoinsIsSafe ==
  ASSUME IInv, NEW id \in {"mine", "again"}, Live, Joins(id),
         hold' \in {"none", hold}, owed' \in {"none", "mine", "again"}, crossed' \in BOOLEAN,
         crossed \/ id = "again" => crossed',
         UNCHANGED <<person, place, laddered>>
  PROVE  IInv'
<1> DEFINE m == Message("node", {id, Id(ladder.of)})
<1>0. Types /\ Says(m) /\ ladder' = IF ladder.of = "old" THEN [ladder EXCEPT !.of = "joined"] ELSE ladder
  BY DEF IInv, Joins
<1>1. ladder \in [of : Opened, state : {"live", "exhausted"}]
  BY <1>0 DEF Types, Live, NoLadder
<1>2. m \in Messages /\ ~Human(m)
  BY <1>1, MessageType DEF Id, Human, Message, Opened
<1>3. air' \subseteq Flight /\ \A b \in air' : b.msg = m \/ \E a \in air : a.msg = b.msg
  BY <1>0, <1>2, SaysFacts
<1>4. /\ ladder'.of # "old" /\ ladder' \in [of : Opened, state : {"live", "exhausted"}]
      /\ ladder'.of = ladder.of \/ (ladder.of = "old" /\ ladder'.of = "joined")
  BY <1>0, <1>1 DEF Opened
<1>5. Types' /\ HoldIsPerson' /\ MineIsPerson' /\ OldIsOpen' /\ NamesTwo'
  BY <1>0, <1>2, <1>3, <1>4
     DEF IInv, Types, HoldIsPerson, MineIsPerson, OldIsOpen, NamesTwo
<1>6. ToldIsPerson'
  <2>1. CASE ladder.of = "old"
    BY <1>2, <1>3, <1>4, <2>1 DEF IInv, OldIsOpen, ToldIsPerson
  <2>2. CASE ladder.of = "joined"
    BY <1>2, <1>3, <1>4, <2>2 DEF IInv, ToldIsPerson, Told
  <2>3. CASE ladder.of \in {"mine", "again"}
    <3>1. ~NamesBoth(m) /\ ladder' = ladder
      BY <1>0, <2>3 DEF NamesBoth, Message, Id
    <3>2. Told' => Told
      BY <1>3, <3>1 DEF Told
    <3> QED BY <1>2, <1>3, <1>4, <3>2 DEF IInv, ToldIsPerson
  <2> QED BY <1>1, <2>1, <2>2, <2>3 DEF Opened
<1>7. AgainIsCrossed'
  <2>1. NamesAgain(m) => id = "again" \/ ladder.of = "again"
    BY <1>1 DEF NamesAgain, Message, Id, Opened
  <2>2. AgainTold' => AgainTold \/ id = "again"
    BY <1>3, <1>4, <2>1 DEF AgainTold
  <2> QED BY <2>2 DEF IInv, AgainIsCrossed
<1> QED BY <1>5, <1>6, <1>7 DEF IInv

\* A ladder that opens is this run's, and says so.
LEMMA OpensIsSafe ==
  ASSUME IInv, NEW id \in {"mine", "again"}, Opens(id),
         hold' \in {"none", hold}, owed' \in {"none", "mine", "again"}, crossed' \in BOOLEAN,
         crossed \/ id = "again" => crossed',
         UNCHANGED <<person, place, laddered>>
  PROVE  IInv'
<1> DEFINE m == Message("node", {id})
<1>0. Types /\ Says(m) /\ ladder' = [of |-> id, state |-> "live"]
  BY DEF IInv, Opens
<1>1. m \in Messages /\ ~NamesBoth(m) /\ ~Human(m)
  BY MessageType DEF NamesBoth, Human, Message
<1>2. air' \subseteq Flight /\ \A b \in air' : b.msg = m \/ \E a \in air : a.msg = b.msg
  BY <1>0, <1>1, SaysFacts
<1>3. ladder' \in [of : Opened, state : {"live", "exhausted"}] /\ ladder'.of = id
  BY <1>0 DEF Opened
<1>4. Types' /\ HoldIsPerson' /\ MineIsPerson' /\ OldIsOpen' /\ NamesTwo'
  BY <1>0, <1>1, <1>2, <1>3
     DEF IInv, Types, HoldIsPerson, MineIsPerson, OldIsOpen, NamesTwo
<1>5. Told' => Told
  BY <1>1, <1>2, <1>3 DEF Told
<1>6. ToldIsPerson'
  BY <1>1, <1>2, <1>3, <1>5 DEF IInv, ToldIsPerson
<1>7. AgainTold' => AgainTold \/ id = "again"
  BY <1>2, <1>3 DEF AgainTold, NamesAgain, Message
<1>8. AgainIsCrossed'
  BY <1>7 DEF IInv, AgainIsCrossed
<1> QED BY <1>4, <1>6, <1>8 DEF IInv

\* A hold answers an attempt with what a person said of the ladder it is of.
LEMMA HeldIsSafe ==
  ASSUME IInv, NEW id \in {"mine", "again"}, hold # "none", id = "again" => hold = "old",
         Says(Message("person", {id, Id(hold)})), owed' \in {"none", "mine", "again"},
         UNCHANGED <<ladder, hold, person, crossed, place, laddered>>
  PROVE  IInv'
<1> DEFINE m == Message("person", {id, Id(hold)})
<1>0. Types /\ Says(m) /\ hold \in Opened
  BY DEF IInv, Types
<1>1. m \in Messages /\ ~NamesBoth(m) /\ ~NamesAgain(m)
  BY <1>0, MessageType DEF Id, NamesBoth, NamesAgain, Message, Opened
<1>2. air' \subseteq Flight /\ \A b \in air' : b.msg = m \/ \E a \in air : a.msg = b.msg
  BY <1>0, <1>1, SaysFacts
<1>3. "old" \notin m.names => hold \in {"mine", "again"}
  BY <1>0 DEF Opened, Id, Message
<1>4. hold # "old" => person
  BY <1>0 DEF IInv, HoldIsPerson, Opened
<1>5. m.names # {"mine", "again", "old"}
  BY <1>0 DEF Message, Id, Opened
<1>6. Types' /\ HoldIsPerson' /\ MineIsPerson' /\ OldIsOpen' /\ NamesTwo'
  BY <1>0, <1>2, <1>3, <1>4, <1>5
     DEF IInv, Types, HoldIsPerson, MineIsPerson, OldIsOpen, NamesTwo
<1>7. (Told' => Told) /\ (AgainTold' => AgainTold)
  BY <1>1, <1>2 DEF Told, AgainTold
<1>8. ToldIsPerson' /\ AgainIsCrossed'
  BY <1>2, <1>4, <1>7 DEF IInv, ToldIsPerson, AgainIsCrossed
<1> QED BY <1>6, <1>8 DEF IInv

\* An attempt joins a live ladder, opens one, or is answered from a hold.
LEMMA ArrivesIsSafe ==
  ASSUME IInv, Arrives
  PROVE  IInv'
<1>0. /\ UNCHANGED <<hold, person, crossed, place, laddered>>
      /\ crossed \in BOOLEAN /\ owed \in {"none", "mine", "again"}
  BY DEF Arrives, phone, IInv, Types
<1>1. CASE Live /\ Joins("mine") /\ UNCHANGED owed
  BY <1>0, <1>1, JoinsIsSafe
<1>2. CASE Opens("mine") /\ UNCHANGED owed
  BY <1>0, <1>2, OpensIsSafe
<1>3. CASE /\ hold # "none" /\ UNCHANGED ladder
           /\ \E id \in {"mine"} \cup (IF hold = "old" /\ owed = "none" THEN {"again"} ELSE {}) :
                /\ Says(Message("person", {id, Id(hold)}))
                /\ owed' = IF hold = "old" /\ id = "mine" THEN owed ELSE id
  <2>1. PICK id \in {"mine", "again"} :
          /\ id = "again" => hold = "old"
          /\ Says(Message("person", {id, Id(hold)}))
          /\ owed' \in {owed, id}
    BY <1>3
  <2>2. owed' \in {"none", "mine", "again"}
    BY <1>0, <2>1
  <2> QED BY <1>0, <1>3, <2>1, <2>2, HeldIsSafe
<1> QED BY <1>1, <1>2, <1>3 DEF Arrives

\* An attempt a hold has answered joins a ladder or opens one.
LEMMA EscalatesIsSafe ==
  ASSUME IInv, Escalates
  PROVE  IInv'
<1>0. /\ UNCHANGED <<person, place, laddered>> /\ hold' \in {"none", hold}
      /\ owed \in {"mine", "again"} /\ owed' = "none"
      /\ crossed' \in BOOLEAN /\ (crossed \/ owed = "again" => crossed')
  BY DEF Escalates, phone, IInv, Types
<1>1. CASE Live /\ Joins(owed)
  BY <1>0, <1>1, JoinsIsSafe
<1>2. CASE Opens(owed)
  BY <1>0, <1>2, OpensIsSafe
<1> QED BY <1>1, <1>2 DEF Escalates

\* A person answers a ladder, and what is said names that ladder only.
LEMMA AnswersIsSafe ==
  ASSUME IInv, Answers
  PROVE  IInv'
<1> DEFINE m == Message("person", {Id(ladder.of)})
<1>1. /\ hold' = ladder.of /\ person' = (person \/ ladder.of # "old") /\ ladder' = NoLadder
      /\ UNCHANGED <<place, laddered, owed, crossed>> /\ Says(m) /\ Types /\ ladder.of \in Opened
  BY DEF Answers, phone, IInv, Types
<1>2. m \in Messages /\ ~NamesBoth(m) /\ ~NamesAgain(m) /\ m.names # {"mine", "again", "old"}
  BY <1>1, MessageType DEF NamesBoth, NamesAgain, Message, Id, Opened
<1>3. air' \subseteq Flight /\ \A b \in air' : b.msg = m \/ \E a \in air : a.msg = b.msg
  BY <1>1, <1>2, SaysFacts
<1>4. person' \in BOOLEAN
  BY <1>1 DEF Types
<1>5. Types' /\ NamesTwo'
  BY <1>1, <1>2, <1>3, <1>4 DEF IInv, Types, NoLadder, NamesTwo
<1>6. HoldIsPerson' /\ OldIsOpen'
  BY <1>1 DEF HoldIsPerson, OldIsOpen, NoLadder
<1>7. MineIsPerson'
  <2>1. "old" \notin m.names => person'
    BY <1>1 DEF Message, Id
  <2> QED BY <1>1, <1>3, <2>1 DEF IInv, MineIsPerson
<1>8. (Told' => Told) /\ (AgainTold' => AgainTold)
  BY <1>1, <1>2, <1>3 DEF Told, AgainTold, NoLadder
<1>9. ToldIsPerson' /\ AgainIsCrossed'
  BY <1>1, <1>3, <1>8 DEF IInv, ToldIsPerson, AgainIsCrossed, NoLadder
<1> QED BY <1>5, <1>6, <1>7, <1>9 DEF IInv

\* A ladder that runs out says so to whom it is of.
LEMMA RunsOutIsSafe ==
  ASSUME IInv, RunsOut
  PROVE  IInv'
<1> DEFINE m == Message("node", {Id(ladder.of)})
<1>1. /\ UNCHANGED <<hold, owed, person, crossed, place, laddered>> /\ Says(m) /\ Types
      /\ ladder \in [of : Opened, state : {"live", "exhausted"}]
      /\ ladder' = [ladder EXCEPT !.state = "exhausted"]
  BY DEF RunsOut, phone, IInv, Types, Live, NoLadder
<1>2. ladder' \in [of : Opened, state : {"live", "exhausted"}] /\ ladder'.of = ladder.of
  BY <1>1
<1>3. m \in Messages /\ ~NamesBoth(m) /\ ~Human(m) /\ (NamesAgain(m) => ladder.of = "again")
  BY <1>1, MessageType DEF NamesBoth, NamesAgain, Human, Message, Id, Opened
<1>4. air' \subseteq Flight /\ \A b \in air' : b.msg = m \/ \E a \in air : a.msg = b.msg
  BY <1>1, <1>3, SaysFacts
<1>5. Types' /\ HoldIsPerson' /\ MineIsPerson' /\ OldIsOpen' /\ NamesTwo'
  BY <1>1, <1>2, <1>3, <1>4
     DEF IInv, Types, HoldIsPerson, MineIsPerson, OldIsOpen, NamesTwo
<1>6. (Told' => Told) /\ (AgainTold' => AgainTold)
  BY <1>1, <1>2, <1>3, <1>4 DEF Told, AgainTold
<1>7. ToldIsPerson' /\ AgainIsCrossed'
  BY <1>1, <1>2, <1>3, <1>4, <1>6 DEF IInv, ToldIsPerson, AgainIsCrossed
<1> QED BY <1>5, <1>7 DEF IInv

\* What the executor forgets, it answers no longer.
LEMMA ForgettingIsSafe ==
  ASSUME IInv, HoldEnds \/ Restarts
  PROVE  IInv'
<1>1. /\ UNCHANGED <<person, crossed, place, laddered, air>> /\ hold' = "none"
      /\ ladder' \in {ladder, NoLadder} /\ owed' \in {owed, "none"}
  BY DEF HoldEnds, Restarts, phone
<1>2. Types' /\ HoldIsPerson' /\ MineIsPerson' /\ OldIsOpen' /\ NamesTwo'
  BY <1>1 DEF IInv, Types, HoldIsPerson, MineIsPerson, OldIsOpen, NoLadder, NamesTwo
<1>3. (Told' => Told) /\ (AgainTold' => AgainTold)
  BY <1>1 DEF Told, AgainTold, NoLadder
<1>4. ToldIsPerson' /\ AgainIsCrossed'
  BY <1>1, <1>3 DEF IInv, ToldIsPerson, AgainIsCrossed, NoLadder
<1> QED BY <1>2, <1>4 DEF IInv

\* What the watch's own key signs is nobody's answer.
LEMMA WatchKeyIsSafe ==
  ASSUME IInv, WatchKeySays
  PROVE  IInv'
<1>1. PICK kind \in {"person", "node"} :
        Says([kind |-> kind, by |-> "watch", names |-> {"mine", "old"}])
  BY DEF WatchKeySays
<1> DEFINE m == [kind |-> kind, by |-> "watch", names |-> {"mine", "old"}]
<1>2. UNCHANGED <<ladder, hold, owed, person, crossed, place, laddered>>
  BY DEF WatchKeySays, phone, box
<1>3. m \in Messages /\ ~Human(m) /\ ~NamesBoth(m) /\ ~NamesAgain(m)
  BY DEF Human, NamesBoth, NamesAgain, Messages
<1>4. air' \subseteq Flight /\ \A b \in air' : b.msg = m \/ \E a \in air : a.msg = b.msg
  BY <1>1, <1>3, SaysFacts
<1>5. Types' /\ HoldIsPerson' /\ MineIsPerson' /\ OldIsOpen' /\ NamesTwo'
  BY <1>2, <1>3, <1>4
     DEF IInv, Types, HoldIsPerson, MineIsPerson, OldIsOpen, NamesTwo
<1>6. (Told' => Told) /\ (AgainTold' => AgainTold)
  BY <1>2, <1>3, <1>4 DEF Told, AgainTold
<1>7. ToldIsPerson' /\ AgainIsCrossed'
  BY <1>2, <1>3, <1>4, <1>6 DEF IInv, ToldIsPerson, AgainIsCrossed
<1> QED BY <1>5, <1>7 DEF IInv

-----------------------------------------------------------------------------
\* Steps of the phone that leave the executor and what is in flight alone.
Loop == Attempt \/ WindowEnds \/ Stop \/ \E r \in Relays : Takes(r) \/ Fails(r)
Listens ==
    \E r \in Relays : \/ RelayServes(r) \/ RelayRefuses(r) \/ RelayIgnores(r)
                      \/ Lost(r) \/ GoesSilent(r) \/ Reopens(r)

LEMMA LoopIsSafe ==
  ASSUME IInv, Loop
  PROVE  /\ IInv' /\ UNCHANGED <<person, crossed>>
         /\ Running /\ (Running' \/ pc' = "cancelled")
<1>1. UNCHANGED <<ladder, box, place, laddered>> /\ air' \in {air, {}}
  BY DEF Loop, Attempt, WindowEnds, Stop, Silence, Takes, Fails, box
<1>2. /\ laddered' \subseteq {"again", "old"} /\ air' \subseteq Flight
      /\ "old" \in laddered' => Told
      /\ "again" \in laddered' => AgainTold
      /\ \A b \in air' : \E a \in air : a.msg = b.msg
  BY <1>1 DEF IInv, Types, Told, AgainTold
<1>3. IInv'
  BY <1>1, <1>2, LosingIsSafe
<1>4. Running /\ (Running' \/ pc' = "cancelled")
  BY DEF Loop, Attempt, WindowEnds, Stop, Takes, Fails, Running
<1> QED BY <1>1, <1>3, <1>4 DEF box

LEMMA ListensIsSafe ==
  ASSUME IInv, Listens
  PROVE  IInv' /\ Running /\ Running' /\ UNCHANGED <<person, crossed>>
<1>1. PICK r \in Relays, to \in {"answered", "closed", "deaf", "silent", "opening"} : Moves(r, to)
  BY DEF Listens, RelayServes, RelayRefuses, RelayIgnores, Lost, GoesSilent, Reopens
<1> QED BY <1>1, MovesIsSafe DEF Moves

\* What a step of Next is, as far as the promise goes.
LEMMA StepFacts ==
  ASSUME IInv, Next
  PROVE  /\ IInv' /\ Running
         /\ \/ Running' /\ UNCHANGED <<person, crossed>>
            \/ Running' /\ (person' \/ UNCHANGED person) /\ UNCHANGED crossed
            \/ Running' /\ UNCHANGED person /\ (crossed' \/ UNCHANGED crossed)
            \/ pc' = "cancelled" /\ UNCHANGED <<person, crossed>>
            \/ pc' = "acknowledged" /\ person /\ UNCHANGED <<person, crossed>>
            \/ /\ pc' = "acknowledged" /\ closedOn' = {"again", "old"} /\ crossed
               /\ UNCHANGED <<person, crossed>>
<1>0. person \in BOOLEAN /\ crossed \in BOOLEAN
  BY DEF IInv, Types
<1>1. CASE Loop
  BY <1>1, LoopIsSafe
<1>2. CASE Listens
  BY <1>2, ListensIsSafe
<1>3. CASE \E a \in air : \E r \in a.on : Hear(a, r)
  <2>1. PICK a \in air : \E r \in a.on : Hear(a, r)
    BY <1>3
  <2>2. Running /\ (UNCHANGED pc => Running')
    BY <2>1 DEF Hear, Running
  <2>3. /\ IInv' /\ UNCHANGED <<person, crossed>>
        /\ \/ UNCHANGED pc
           \/ /\ pc' = "acknowledged" /\ closedOn' = a.msg.names
              /\ person \/ (crossed /\ a.msg.names = {"again", "old"})
    BY <2>1, HearIsSafe
  <2> QED BY <2>2, <2>3
<1>4. CASE Arrives
  BY <1>4, ArrivesIsSafe DEF Arrives, phone, Running
<1>5. CASE Escalates
  <2>1. Running /\ Running' /\ UNCHANGED person /\ crossed' = (crossed \/ owed = "again")
    BY <1>5 DEF Escalates, phone, Running
  <2>2. crossed' \/ UNCHANGED crossed
    BY <1>0, <2>1
  <2> QED BY <1>5, <2>1, <2>2, EscalatesIsSafe
<1>6. CASE Answers
  <2>1. /\ Running /\ Running' /\ UNCHANGED crossed
        /\ person' = (person \/ ladder.of # "old")
    BY <1>6 DEF Answers, phone, Running
  <2>2. person' \/ UNCHANGED person
    BY <1>0, <2>1
  <2> QED BY <1>6, <2>1, <2>2, AnswersIsSafe
<1>7. CASE RunsOut
  BY <1>7, RunsOutIsSafe DEF RunsOut, phone, Running
<1>8. CASE HoldEnds \/ Restarts
  BY <1>8, ForgettingIsSafe DEF HoldEnds, Restarts, phone, Running
<1>9. CASE WatchKeySays
  BY <1>9, WatchKeyIsSafe DEF WatchKeySays, phone, box, Running
<1> QED BY <1>1, <1>2, <1>3, <1>4, <1>5, <1>6, <1>7, <1>8, <1>9
        DEF Next, PhoneNext, BoxNext, Loop, Listens

LEMMA StutterIsSafe == IInv /\ UNCHANGED vars => IInv'
BY DEF vars, phone, box, IInv, Types, HoldIsPerson, MineIsPerson, OldIsOpen, ToldIsPerson, Told,
       AgainIsCrossed, AgainTold, NamesTwo

\* What is known of the executor's ladder is so, whatever is lost or repeated.
THEOREM InvariantHolds == Spec => []IInv
<1>1. IInv /\ [Next]_vars => IInv'
  BY StepFacts, StutterIsSafe
<1> QED BY <1>1, InitIInv, PTL DEF Spec

\* A Distress ends because its operator stands down, or because a person has
\* answered a ladder it is part of, or else on an answer to an earlier Distress
\* given to an attempt that was escalated too, for any relays and any trouble:
\* the phone implements DistressPromise.
THEOREM DistressKeepsItsPromise == Spec => KeepsItsPromise
<1> DEFINE call == IF Running THEN "calling"
                   ELSE IF pc = "acknowledged" /\ ~person /\ closedOn = {"again", "old"}
                        THEN "misread" ELSE pc
<1>1. Init => Promise!Init
  BY DEF Init, Promise!Init, Running
<1>2. IInv /\ [Next]_vars => [Promise!Next]_<<call, person, crossed>>
  <2> SUFFICES ASSUME IInv, [Next]_vars
               PROVE  [Promise!Next]_<<call, person, crossed>>
    OBVIOUS
  <2>1. CASE UNCHANGED vars
    BY <2>1 DEF vars, phone, box, Running
  <2>2. CASE Next
    <3>1. person \in BOOLEAN /\ crossed \in BOOLEAN /\ Running /\ call = "calling"
      BY <2>2, StepFacts DEF IInv, Types
    <3>2. CASE Running'
      <4>1. call' = "calling"
        BY <3>2
      <4> QED BY <2>2, <3>1, <3>2, <4>1, StepFacts
              DEF Running, Promise!Next, Promise!PersonAnswers, Promise!Escalated, IInv, Types
    <3>3. CASE pc' = "cancelled" /\ UNCHANGED <<person, crossed>>
      BY <3>1, <3>3 DEF Running, Promise!Next, Promise!StandDown
    <3>4. CASE pc' = "acknowledged" /\ person /\ UNCHANGED <<person, crossed>>
      BY <3>1, <3>4 DEF Running, Promise!Next, Promise!Acknowledged
    <3>5. CASE /\ pc' = "acknowledged" /\ closedOn' = {"again", "old"} /\ crossed
               /\ UNCHANGED <<person, crossed>>
      BY <3>1, <3>5
         DEF Running, Promise!Next, Promise!Acknowledged, Promise!Misread
    <3> QED BY <2>2, <3>2, <3>3, <3>4, <3>5, StepFacts
  <2> QED BY <2>1, <2>2
<1> QED BY <1>1, <1>2, InvariantHolds, PTL DEF Spec, KeepsItsPromise, Promise!Spec

-----------------------------------------------------------------------------
\* What is said about listening follows from what the listeners are.
LEMMA SaidIsTrue ==
  ASSUME HearingSaidIsTrue, Running, hearing' = Said(entry')
  PROVE  HearingSaidIsTrue'
<1>1. CASE \E r \in Relays : entry'[r] = "answered"
  BY <1>1 DEF Said, HearingSaidIsTrue
<1>2. CASE ~\E r \in Relays : entry'[r] \in {"answered", "opening", "deaf"}
  BY <1>2 DEF Said, HearingSaidIsTrue
<1>3. CASE /\ ~\E r \in Relays : entry'[r] = "answered"
           /\ \E r \in Relays : entry'[r] \in {"opening", "deaf"}
  BY <1>3 DEF Said, HearingSaidIsTrue
<1> QED BY <1>1, <1>2, <1>3

\* `Hearing nowhere' and `hearing somewhere' are true for as long as they stand.
THEOREM HearingStaysTrue == Spec => []HearingSaidIsTrue
<1>1. Init => HearingSaidIsTrue
  BY DEF Init, HearingSaidIsTrue
<1>2. HearingSaidIsTrue /\ [Next]_vars => HearingSaidIsTrue'
  <2> SUFFICES ASSUME HearingSaidIsTrue, [Next]_vars PROVE HearingSaidIsTrue'
    OBVIOUS
  <2>1. CASE Listens
    <3>1. PICK r \in Relays, to \in {"answered", "closed", "deaf", "silent", "opening"} : Moves(r, to)
      BY <2>1 DEF Listens, RelayServes, RelayRefuses, RelayIgnores, Lost, GoesSilent, Reopens
    <3> QED BY <3>1, SaidIsTrue DEF Moves
  <2>2. CASE Attempt
    BY <2>2, SaidIsTrue DEF Attempt, Running
  <2>3. CASE /\ UNCHANGED <<entry, hearing>>
             /\ Running' => Running
    BY <2>3 DEF HearingSaidIsTrue
  <2>4. CASE WindowEnds \/ (\E r \in Relays : Takes(r) \/ Fails(r))
    BY <2>3, <2>4 DEF WindowEnds, Takes, Fails, Running
  <2>5. CASE Stop \/ \E a \in air : \E r \in a.on : Hear(a, r)
    <3>1. ~Running' \/ (UNCHANGED <<entry, hearing>> /\ (Running' => Running))
      BY <2>5 DEF Stop, Hear, Running
    <3> QED BY <2>3, <3>1 DEF HearingSaidIsTrue
  <2>6. CASE BoxNext
    BY <2>3, <2>6 DEF BoxNext, Arrives, Escalates, Answers, RunsOut, HoldEnds, Restarts, WatchKeySays, phone, Running
  <2>7. CASE UNCHANGED vars
    BY <2>3, <2>7 DEF vars, phone, Running
  <2> QED BY <2>1, <2>2, <2>4, <2>5, <2>6, <2>7 DEF Next, PhoneNext, Listens
<1> QED BY <1>1, <1>2, PTL DEF Spec

-----------------------------------------------------------------------------
\* A listener is opened only where this Distress goes.
ListensAtTargets == \A r \in Relays : entry[r] # "none" => r \in targets

Typed == TypeOK /\ ListensAtTargets

States == {"none", "opening", "deaf", "silent", "answered", "closed"}

LEMMA InitTyped == Init => Typed
<1> SUFFICES ASSUME Init PROVE Typed
  OBVIOUS
<1>1. place.given \subseteq Relays /\ place \in Places
  BY DistressAssumption DEF Init
<1>2. trouble \in 0 .. MaxTrouble
  BY DistressAssumption DEF Init
<1>3. ladder \in [of : Opened, state : {"live", "exhausted"}] \cup {NoLadder}
      /\ hold \in Opened \cup {"none"}
  BY DEF Init, Opened
<1>4. entry \in [Relays -> States] /\ ListensAtTargets
  BY <1>1 DEF Init, States, ListensAtTargets
<1> QED BY <1>1, <1>2, <1>3, <1>4 DEF Init, Typed, TypeOK, States

LEMMA TroubledType ==
  ASSUME TypeOK, Troubled
  PROVE  trouble' \in 0 .. MaxTrouble
BY DistressAssumption DEF Troubled, TypeOK

\* What moves is a listener at a target, and the window keeps none that closed.
LEMMA MovesTyped ==
  ASSUME Typed, NEW r \in Relays, NEW to \in States \ {"none"}, Moves(r, to),
         entry[r] # "none", entry[r] = "answered" => to = "closed",
         trouble' \in 0 .. MaxTrouble
  PROVE  Typed'
<1>1. entry \in [Relays -> States] /\ entry' = [entry EXCEPT ![r] = to]
  BY DEF Typed, TypeOK, Moves, States
<1>2. entry' \in [Relays -> States] /\ ListensAtTargets'
  BY <1>1 DEF Typed, ListensAtTargets, Moves
<1>3. captured' \subseteq {q \in targets' : entry'[q] = "answered"}
  BY <1>1 DEF Typed, TypeOK, Moves, States
<1>4. air' \subseteq [msg : Messages, on : (SUBSET Relays) \ {{}}]
  <2>1. \A a \in air : /\ a \in [msg : Messages, on : (SUBSET Relays) \ {{}}]
                       /\ [a EXCEPT !.on = @ \ {r}] \in [msg : Messages, on : SUBSET Relays]
    BY DEF Typed, TypeOK
  <2>2. \A b \in [msg : Messages, on : SUBSET Relays] :
          b.on # {} => b \in [msg : Messages, on : (SUBSET Relays) \ {{}}]
    OBVIOUS
  <2> QED BY <2>1, <2>2 DEF Moves
<1>5. hearing' \in {"unknown", "nowhere", "somewhere"}
  BY DEF Typed, TypeOK, Moves, Said
<1> QED BY <1>2, <1>3, <1>4, <1>5 DEF Typed, TypeOK, Moves, States, box

LEMMA ListensTyped ==
  ASSUME Typed, Listens
  PROVE  Typed'
<1>1. PICK r \in Relays : \/ RelayServes(r) \/ RelayRefuses(r) \/ RelayIgnores(r)
                          \/ Lost(r) \/ GoesSilent(r) \/ Reopens(r)
  BY DEF Listens
<1>2. TypeOK /\ trouble \in 0 .. MaxTrouble
  BY DEF Typed, TypeOK
<1>3. trouble' \in 0 .. MaxTrouble
  BY <1>1, <1>2, TroubledType
     DEF RelayServes, RelayRefuses, RelayIgnores, Lost, GoesSilent, Reopens
<1>4. CASE RelayServes(r)
  BY <1>3, <1>4, MovesTyped DEF RelayServes, States
<1>5. CASE RelayRefuses(r) \/ RelayIgnores(r)
  BY <1>3, <1>5, MovesTyped DEF RelayRefuses, RelayIgnores, States
<1>6. CASE Lost(r)
  BY <1>3, <1>6, MovesTyped DEF Lost, Open, States
<1>7. CASE GoesSilent(r) \/ Reopens(r)
  BY <1>3, <1>7, MovesTyped DEF GoesSilent, Reopens, States
<1> QED BY <1>1, <1>4, <1>5, <1>6, <1>7

\* Another attempt opens what is not listening, and closes nothing.
LEMMA AttemptTyped ==
  ASSUME Typed, Attempt
  PROVE  Typed'
<1>1. targets' \subseteq Relays /\ targets \subseteq targets'
  BY DEF Attempt, Typed, TypeOK
<1>2. entry' = [r \in Relays |-> IF r \in targets' /\ entry[r] \in {"none", "closed", "silent"}
                                 THEN "opening" ELSE entry[r]]
  BY DEF Attempt, Relistened
<1>3. entry' \in [Relays -> States] /\ ListensAtTargets'
  BY <1>1, <1>2 DEF Typed, TypeOK, ListensAtTargets, States
<1>4. captured' \subseteq {r \in targets' : entry'[r] = "answered"}
  BY <1>1, <1>2 DEF Attempt, Typed, TypeOK
<1>5. hearing' \in {"unknown", "nowhere", "somewhere"}
  BY DEF Typed, TypeOK, Attempt, Said
<1> QED BY <1>1, <1>3, <1>4, <1>5 DEF Attempt, Typed, TypeOK, States, box

\* Letting go of every listener leaves none the window counts, and none elsewhere.
LEMMA SilenceTyped ==
  ASSUME Typed, Silence, UNCHANGED targets
  PROVE  entry' \in [Relays -> States] /\ ListensAtTargets' /\ captured' = {} /\ air' = {}
BY DEF Typed, TypeOK, Silence, ListensAtTargets, States

LEMMA LoopTyped ==
  ASSUME Typed, Loop
  PROVE  Typed'
<1>1. CASE Attempt
  BY <1>1, AttemptTyped
<1>2. CASE WindowEnds
  BY <1>2 DEF WindowEnds, Typed, TypeOK, ListensAtTargets, box
<1>3. CASE Stop
  BY <1>3, SilenceTyped DEF Stop, Typed, TypeOK, ListensAtTargets, States, box
<1>4. ASSUME NEW r \in Relays, Takes(r) PROVE Typed'
  <2>1. captured' \subseteq {q \in targets : entry[q] = "answered"}
    BY <1>4 DEF Takes, Typed, TypeOK, ListensAtTargets
  <2>2. UNCHANGED <<targets, entry, answeredNow, laddered, hearing, verdict, closedOn, ladder, hold,
                    owed, person, crossed, air, place, trouble>>
    BY <1>4 DEF Takes, box
  <2> QED BY <1>4, <2>1, <2>2 DEF Takes, Typed, TypeOK, ListensAtTargets
<1>5. ASSUME NEW r \in Relays, Fails(r) PROVE Typed'
  <2>1. trouble' \in 0 .. MaxTrouble /\ copies' \subseteq Relays
    BY <1>5, TroubledType DEF Fails, Typed, TypeOK
  <2>2. UNCHANGED <<targets, took, entry, captured, answeredNow, laddered, hearing, verdict, closedOn,
                    ladder, hold, owed, person, crossed, air, place, passed>>
    BY <1>5 DEF Fails, box
  <2> QED BY <1>5, <2>1, <2>2 DEF Fails, Typed, TypeOK, ListensAtTargets
<1> QED BY <1>1, <1>2, <1>3, <1>4, <1>5 DEF Loop

LEMMA HearTyped ==
  ASSUME Typed, NEW a \in air, NEW r \in a.on, Hear(a, r)
  PROVE  Typed'
<1> DEFINE InAir == [msg : Messages, on : (SUBSET Relays) \ {{}}]
<1>1. a \in InAir /\ air \subseteq InAir
  BY DEF Typed, TypeOK
<1>2. a.on # {r} => [a EXCEPT !.on = @ \ {r}] \in InAir
  BY <1>1
<1>3. CASE Silence /\ pc' = "acknowledged" /\ closedOn' = a.msg.names
  <2>1. UNCHANGED <<targets, out, took, answeredNow, laddered, hearing, verdict, box, copies, place, passed, trouble>>
    BY <1>3 DEF Hear, Running
  <2>2. closedOn' \subseteq {"mine", "again", "old"}
    BY <1>1, <1>3 DEF Messages
  <2> QED BY <1>3, <2>1, <2>2, SilenceTyped DEF Typed, TypeOK, ListensAtTargets, States, box
<1>4. CASE UNCHANGED <<pc, entry, captured, closedOn>>
  <2>1. air' \subseteq InAir
    BY <1>1, <1>2, <1>4 DEF Hear, Silence
  <2>2. answeredNow' \in BOOLEAN /\ laddered' \subseteq {"again", "old"}
    BY <1>1, <1>4 DEF Hear, Laddered, Messages, Typed, TypeOK
  <2> QED BY <1>4, <2>1, <2>2 DEF Hear, Typed, TypeOK, ListensAtTargets, box
<1> QED BY <1>3, <1>4 DEF Hear

\* What goes out is a message, on relays the phone has a listener on.
LEMMA SaysTyped ==
  ASSUME Typed, NEW m \in Messages, Says(m)
  PROVE  air' \subseteq [msg : Messages, on : (SUBSET Relays) \ {{}}] /\ passed' \subseteq Relays
<1> DEFINE on == {r \in place.box : entry[r] = "answered"}
<1>1. place.box \subseteq Relays
  BY DistressAssumption DEF Typed, TypeOK
<1>2. on # {} => [msg |-> m, on |-> on] \in [msg : Messages, on : (SUBSET Relays) \ {{}}]
  BY <1>1
<1> QED BY <1>1, <1>2 DEF Says, Typed, TypeOK

LEMMA BoxTyped ==
  ASSUME Typed, BoxNext
  PROVE  Typed'
<1>0. ladder \in [of : Opened, state : {"live", "exhausted"}] \cup {NoLadder}
      /\ hold \in Opened \cup {"none"} /\ owed \in {"none", "mine", "again"}
  BY DEF Typed, TypeOK
<1>1. ASSUME Arrives PROVE Typed'
  <2>0. Live => ladder.of \in Opened
    BY <1>0 DEF Live, NoLadder
  <2>1. PICK m \in Messages : Says(m)
    <3>1. CASE Live /\ Joins("mine")
      BY <2>0, <3>1, MessageType DEF Joins, Id, Opened
    <3>2. CASE Opens("mine")
      BY <3>2, MessageType DEF Opens
    <3>3. CASE hold # "none" /\ \E id \in {"mine", "again"} : Says(Message("person", {id, Id(hold)}))
      BY <1>0, <3>3, MessageType DEF Id, Opened
    <3> QED BY <1>1, <3>1, <3>2, <3>3 DEF Arrives
  <2>2. air' \subseteq [msg : Messages, on : (SUBSET Relays) \ {{}}] /\ passed' \subseteq Relays
    BY <2>1, SaysTyped
  <2>3. ladder' \in [of : Opened, state : {"live", "exhausted"}] \cup {NoLadder}
    BY <1>0, <1>1 DEF Arrives, Joins, Opens, Opened, Live, NoLadder
  <2>4. owed' \in {"none", "mine", "again"}
    BY <1>0, <1>1 DEF Arrives
  <2> QED BY <1>1, <2>2, <2>3, <2>4 DEF Arrives, phone, Typed, TypeOK, ListensAtTargets
<1>7. ASSUME Escalates PROVE Typed'
  <2>0. Live => ladder.of \in Opened
    BY <1>0 DEF Live, NoLadder
  <2>1. PICK m \in Messages : Says(m)
    <3>1. CASE Live /\ Joins(owed)
      BY <1>0, <1>7, <2>0, <3>1, MessageType DEF Joins, Id, Opened, Escalates
    <3>2. CASE Opens(owed)
      BY <1>0, <1>7, <3>2, MessageType DEF Opens, Escalates
    <3> QED BY <1>7, <3>1, <3>2 DEF Escalates
  <2>2. air' \subseteq [msg : Messages, on : (SUBSET Relays) \ {{}}] /\ passed' \subseteq Relays
    BY <2>1, SaysTyped
  <2>3. ladder' \in [of : Opened, state : {"live", "exhausted"}] \cup {NoLadder}
    BY <1>0, <1>7 DEF Escalates, Joins, Opens, Opened, Live, NoLadder
  <2>4. hold' \in Opened \cup {"none"} /\ owed' = "none" /\ crossed' \in BOOLEAN
    BY <1>0, <1>7 DEF Escalates, Typed, TypeOK
  <2> QED BY <1>7, <2>2, <2>3, <2>4 DEF Escalates, phone, Typed, TypeOK, ListensAtTargets
<1>2. ASSUME Answers PROVE Typed'
  <2>1. Message("person", {Id(ladder.of)}) \in Messages
    BY <1>0, <1>2, MessageType DEF Answers, Id, Opened
  <2>2. air' \subseteq [msg : Messages, on : (SUBSET Relays) \ {{}}] /\ passed' \subseteq Relays
    BY <1>2, <2>1, SaysTyped DEF Answers
  <2>3. ladder.of \in Opened /\ person' \in BOOLEAN
    BY <1>0, <1>2 DEF Answers, Typed, TypeOK
  <2> QED BY <1>2, <2>2, <2>3 DEF Answers, phone, Typed, TypeOK, ListensAtTargets
<1>3. ASSUME RunsOut PROVE Typed'
  <2>1. Message("node", {Id(ladder.of)}) \in Messages
    BY <1>0, <1>3, MessageType DEF RunsOut, Live, NoLadder, Id, Opened
  <2>2. air' \subseteq [msg : Messages, on : (SUBSET Relays) \ {{}}] /\ passed' \subseteq Relays
    BY <1>3, <2>1, SaysTyped DEF RunsOut
  <2>3. ladder' \in [of : Opened, state : {"live", "exhausted"}]
    BY <1>0, <1>3 DEF RunsOut, Live, NoLadder
  <2> QED BY <1>3, <2>2, <2>3 DEF RunsOut, phone, Typed, TypeOK, ListensAtTargets
<1>4. ASSUME HoldEnds PROVE Typed'
  BY <1>4 DEF HoldEnds, phone, Typed, TypeOK, ListensAtTargets
<1>5. ASSUME Restarts PROVE Typed'
  <2>1. trouble' \in 0 .. MaxTrouble
    BY <1>5, TroubledType DEF Restarts, Typed
  <2> QED BY <1>5, <2>1 DEF Restarts, phone, Typed, TypeOK, ListensAtTargets
<1>6. ASSUME WatchKeySays PROVE Typed'
  <2>1. trouble' \in 0 .. MaxTrouble
    BY <1>6, TroubledType DEF WatchKeySays, Typed
  <2>2. air' \subseteq [msg : Messages, on : (SUBSET Relays) \ {{}}] /\ passed' \subseteq Relays
    BY <1>6, SaysTyped DEF WatchKeySays, Messages
  <2> QED BY <1>6, <2>1, <2>2 DEF WatchKeySays, phone, box, Typed, TypeOK, ListensAtTargets
<1> QED BY <1>1, <1>2, <1>3, <1>4, <1>5, <1>6, <1>7 DEF BoxNext

LEMMA NextTyped == Typed /\ [Next]_vars => Typed'
<1> SUFFICES ASSUME Typed, [Next]_vars PROVE Typed'
  OBVIOUS
<1>1. CASE UNCHANGED vars
  BY <1>1 DEF vars, phone, box, Typed, TypeOK, ListensAtTargets
<1>2. CASE Next
  BY <1>2, LoopTyped, ListensTyped, HearTyped, BoxTyped DEF Next, PhoneNext, Loop, Listens
<1> QED BY <1>1, <1>2

\* Every variable has its type, and a window counts only listeners that are
\* still open, at relays this Distress goes to.
THEOREM TypeCorrect == Spec => []TypeOK
<1>1. Typed => TypeOK
  BY DEF Typed
<1> QED BY <1>1, InitTyped, NextTyped, PTL DEF Spec

-----------------------------------------------------------------------------
\* No answer has gone by unheard on a relay the window still counts: a listener
\* it counts was answered when the window began, and has been ever since.
NothingMissed == captured \cap passed = {}

\* What is said misses only relays without an answered listener.
LEMMA SaysMissesNoneCounted ==
  ASSUME Typed, NothingMissed, NEW m, Says(m), UNCHANGED captured
  PROVE  NothingMissed'
<1>1. \A r \in captured : entry[r] = "answered"
  BY DEF Typed, TypeOK
<1> QED BY <1>1 DEF Says, NothingMissed

LEMMA NextMissesNothing == Typed /\ NothingMissed /\ [Next]_vars => NothingMissed'
<1> SUFFICES ASSUME Typed, NothingMissed, [Next]_vars PROVE NothingMissed'
  OBVIOUS
<1>1. CASE Listens
  <2>1. PICK r \in Relays, to \in {"answered", "closed", "deaf", "silent", "opening"} : Moves(r, to)
    BY <1>1 DEF Listens, RelayServes, RelayRefuses, RelayIgnores, Lost, GoesSilent, Reopens
  <2>2. captured' \subseteq captured /\ UNCHANGED passed
    BY <2>1 DEF Moves
  <2> QED BY <2>2 DEF NothingMissed
<1>2. CASE Attempt \/ Stop \/ (\E r \in Relays : Fails(r)) \/ (\E a \in air : \E r \in a.on : Hear(a, r))
  BY <1>2 DEF Attempt, Stop, Silence, Fails, Hear, NothingMissed
<1>3. CASE WindowEnds \/ \E r \in Relays : Takes(r)
  BY <1>3 DEF WindowEnds, Takes, NothingMissed
<1>4. CASE Arrives
  <2>1. \E m : Says(m) /\ UNCHANGED captured
    BY <1>4 DEF Arrives, Joins, Opens, phone
  <2> QED BY <2>1, SaysMissesNoneCounted
<1>7. CASE Escalates
  <2>1. \E m : Says(m) /\ UNCHANGED captured
    BY <1>7 DEF Escalates, Joins, Opens, phone
  <2> QED BY <2>1, SaysMissesNoneCounted
<1>5. CASE Answers \/ RunsOut \/ WatchKeySays
  <2>1. \E m : Says(m) /\ UNCHANGED captured
    BY <1>5 DEF Answers, RunsOut, WatchKeySays, phone
  <2> QED BY <2>1, SaysMissesNoneCounted
<1>6. CASE HoldEnds \/ Restarts \/ UNCHANGED vars
  BY <1>6 DEF HoldEnds, Restarts, vars, phone, NothingMissed
<1> QED BY <1>1, <1>2, <1>3, <1>4, <1>5, <1>6, <1>7 DEF Next, PhoneNext, BoxNext, Listens

\* Nobody is told `no answer' by a window in which an answer went by unheard on
\* every relay where one would come, for any relays and any trouble.
THEOREM NoAnswerStaysTrue == Spec => NoAnswerIsTrue
<1>1. Init => NothingMissed
  BY DEF Init, NothingMissed
<1>2. ASSUME NothingMissed, [Next]_vars, verdict' = "no-answer", verdict # "no-answer"
      PROVE  ~(Where \subseteq passed)
  <2>1. CASE WindowEnds
    <3>1. captured \cap Where # {}
      BY <1>2, <2>1 DEF WindowEnds
    <3> QED BY <1>2, <3>1 DEF NothingMissed
  <2>2. CASE Attempt
    BY <1>2, <2>2 DEF Attempt
  <2>3. CASE UNCHANGED verdict
    BY <1>2, <2>3
  <2>4. CASE Listens
    <3>1. UNCHANGED verdict
      BY <2>4 DEF Listens, RelayServes, RelayRefuses, RelayIgnores, Lost, GoesSilent, Reopens, Moves
    <3> QED BY <2>3, <3>1
  <2>5. CASE Stop \/ (\E r \in Relays : Takes(r) \/ Fails(r)) \/ (\E a \in air : \E r \in a.on : Hear(a, r))
    BY <2>3, <2>5 DEF Stop, Takes, Fails, Hear
  <2>6. CASE BoxNext \/ UNCHANGED vars
    BY <2>3, <2>6 DEF BoxNext, Arrives, Escalates, Answers, RunsOut, HoldEnds, Restarts, WatchKeySays, vars, phone
  <2> QED BY <1>2, <2>1, <2>2, <2>4, <2>5, <2>6 DEF Next, PhoneNext, Listens
<1>3. NothingMissed /\ [Next]_vars =>
        [verdict' = "no-answer" /\ verdict # "no-answer" => ~(Where \subseteq passed)]_vars
  BY <1>2
<1> QED BY <1>1, <1>3, InitTyped, NextTyped, NextMissesNothing, PTL DEF Spec, NoAnswerIsTrue
=============================================================================
