----------------------------- MODULE UnitProofs -----------------------------
(***************************************************************************)
(* What a unit read from its acts is, for any charter, roster and acts,    *)
(* whatever state each act names and however they cross.                   *)
(***************************************************************************)
EXTENDS UnitGovernance, TLAPS, FiniteSetTheorems, SequenceTheorems, WellFoundedInduction

-----------------------------------------------------------------------------
(* Places in the room.  M are the members, R the keys removed, H the       *)
(* removed holders still counted, and for[old] is the key readmitted in    *)
(* the place of `old'.                                                     *)

\* Holders who share their place with the key readmitted in it.
Shared(M, for) == {old \in DOMAIN for : for[old] \in M}

\* Holders whose stand-in is a counted holder too, nobody standing in for that one.
Doubled(H, for) == {old \in DOMAIN for : for[old] \in H \ DOMAIN for}

\* The members fit the room, and with the holders pass it by the places doubled.
Fits(M, H, for) ==
  /\ Cardinality(M) <= Room
  /\ Cardinality(M) + Cardinality(H)
       <= Room + Cardinality(Shared(M, for)) + Cardinality(Doubled(H, for))

Roster(M, R, H, for) ==
  /\ IsFiniteSet(M) /\ IsFiniteSet(H)
  /\ M \cap R = {} /\ H \subseteq R /\ DOMAIN for \subseteq H
  /\ \A old \in DOMAIN for : for[old] \in M \cup R
  /\ \A a, b \in DOMAIN for : for[a] = for[b] => a = b

LEMMA RoomIsNat == Room \in Nat
BY RulesAssumption

\* An injection keeps the number of elements.
LEMMA ImageCardinality ==
  ASSUME NEW f, NEW S, IsFiniteSet(S), \A a, b \in S : f[a] = f[b] => a = b
  PROVE  LET T == {f[a] : a \in S}
         IN  IsFiniteSet(T) /\ Cardinality(T) = Cardinality(S)
<1> DEFINE T == {f[a] : a \in S}
           g == [a \in S |-> f[a]]
<1>1. g \in [S -> T] /\ (\A a, b \in S : g[a] = g[b] => a = b) /\ (\A t \in T : \E a \in S : g[a] = t)
  OBVIOUS
<1>2. g \in Bijection(S, T)
  BY <1>1 DEF Bijection, Injection, Surjection, IsInjective
<1>3. ExistsBijection(S, T)
  BY <1>2 DEF ExistsBijection
<1> HIDE DEF T
<1>4. IsFiniteSet(T) /\ Cardinality(T) = Cardinality(S)
  BY <1>3, FS_Bijection
<1> QED BY <1>4 DEF T

\* An element fewer.
LEMMA OneLess ==
  ASSUME NEW S, NEW x, IsFiniteSet(S)
  PROVE  /\ IsFiniteSet(S \ {x}) /\ Cardinality(S) \in Nat /\ Cardinality(S \ {x}) \in Nat
         /\ Cardinality(S \ {x}) >= Cardinality(S) - 1
         /\ x \in S => Cardinality(S \ {x}) = Cardinality(S) - 1
<1>1. IsFiniteSet(S \ {x}) /\ Cardinality(S) \in Nat
  BY FS_RemoveElement, FS_CardinalityType
<1>2. Cardinality(S \ {x}) = IF x \in S THEN Cardinality(S) - 1 ELSE Cardinality(S)
  BY FS_RemoveElement
<1>3. Cardinality(S \ {x}) \in Nat
  BY <1>1, FS_CardinalityType
<1> QED BY <1>1, <1>2, <1>3

\* An element more.
LEMMA OneMore ==
  ASSUME NEW S, NEW x, IsFiniteSet(S), x \notin S
  PROVE  /\ IsFiniteSet(S \cup {x}) /\ Cardinality(S) \in Nat
         /\ Cardinality(S \cup {x}) = Cardinality(S) + 1
<1>1. IsFiniteSet(S \cup {x}) /\ Cardinality(S) \in Nat
  BY FS_AddElement, FS_CardinalityType
<1>2. Cardinality(S \cup {x}) = IF x \in S THEN Cardinality(S) ELSE Cardinality(S) + 1
  BY FS_AddElement
<1> QED BY <1>1, <1>2

\* Disjoint sets count apart.
LEMMA CountApart ==
  ASSUME NEW A, NEW B, IsFiniteSet(A), IsFiniteSet(B), A \cap B = {}
  PROVE  IsFiniteSet(A \cup B) /\ Cardinality(A \cup B) = Cardinality(A) + Cardinality(B)
<1>1. Cardinality(A) \in Nat /\ Cardinality(B) \in Nat
  BY FS_CardinalityType
<1>2. Cardinality(A \cap B) = 0
  BY FS_EmptySet
<1>3. /\ IsFiniteSet(A \cup B)
      /\ Cardinality(A \cup B) = Cardinality(A) + Cardinality(B) - Cardinality(A \cap B)
  BY FS_Union
<1> QED BY <1>1, <1>2, <1>3

\* The parts of a roster are finite.
LEMMA RosterFinite ==
  ASSUME NEW M, NEW R, NEW H, NEW for, Roster(M, R, H, for)
  PROVE  /\ IsFiniteSet(DOMAIN for) /\ IsFiniteSet(Shared(M, for)) /\ IsFiniteSet(Doubled(H, for))
         /\ Shared(M, for) \cap Doubled(H, for) = {}
         /\ {Cardinality(M), Cardinality(H), Cardinality(Shared(M, for)), Cardinality(Doubled(H, for))}
              \subseteq Nat
<1>1. IsFiniteSet(M) /\ IsFiniteSet(H) /\ IsFiniteSet(DOMAIN for)
  BY FS_Subset DEF Roster
<1>2. Shared(M, for) \in SUBSET DOMAIN for /\ Doubled(H, for) \in SUBSET DOMAIN for
  BY DEF Shared, Doubled
<1>3. IsFiniteSet(Shared(M, for)) /\ IsFiniteSet(Doubled(H, for))
  BY <1>1, <1>2, FS_Subset
<1>4. Shared(M, for) \cap Doubled(H, for) = {}
  BY DEF Shared, Doubled, Roster
<1> QED BY <1>1, <1>3, <1>4, FS_CardinalityType

\* A member who leaves, or whose removal leaves no office unfilled, frees a place.
LEMMA MemberGoes ==
  ASSUME NEW M, NEW R, NEW H, NEW for, Roster(M, R, H, for), Fits(M, H, for), NEW k \in M
  PROVE  Roster(M \ {k}, R \cup {k}, H, for) /\ Fits(M \ {k}, H, for)
<1>1. Roster(M \ {k}, R \cup {k}, H, for) /\ Cardinality(M \ {k}) = Cardinality(M) - 1
  BY FS_RemoveElement DEF Roster
<1>2. Cardinality(Shared(M \ {k}, for)) >= Cardinality(Shared(M, for)) - 1
  <2>1. CASE \E old \in DOMAIN for : for[old] = k
    <3>1. PICK old \in DOMAIN for : for[old] = k
      BY <2>1
    <3>2. Shared(M \ {k}, for) = Shared(M, for) \ {old}
      BY <3>1 DEF Shared, Roster
    <3> QED BY <3>2, RosterFinite, OneLess
  <2>2. CASE ~\E old \in DOMAIN for : for[old] = k
    <3>1. Shared(M \ {k}, for) = Shared(M, for)
      BY <2>2 DEF Shared
    <3> QED BY <3>1, RosterFinite
  <2> QED BY <2>1, <2>2
<1>3. Cardinality(Shared(M \ {k}, for)) \in Nat
  BY <1>1, RosterFinite
<1> QED BY <1>1, <1>2, <1>3, RosterFinite, RoomIsNat DEF Fits

\* A removed officer is still counted: their place stays taken, and where they stood in for
\* another counted holder, that place is now doubled.
LEMMA HolderGoes ==
  ASSUME NEW M, NEW R, NEW H, NEW for, Roster(M, R, H, for), Fits(M, H, for), NEW k \in M
  PROVE  Roster(M \ {k}, R \cup {k}, H \cup {k}, for) /\ Fits(M \ {k}, H \cup {k}, for)
<1>1. k \notin H /\ k \notin DOMAIN for
  BY DEF Roster
<1>2. /\ Roster(M \ {k}, R \cup {k}, H \cup {k}, for)
      /\ Cardinality(M \ {k}) = Cardinality(M) - 1 /\ Cardinality(H \cup {k}) = Cardinality(H) + 1
  BY <1>1, FS_RemoveElement, FS_AddElement DEF Roster
<1> DEFINE S == Shared(M, for)
           T == Shared(M \ {k}, for)
           D == Doubled(H, for)
           E == Doubled(H \cup {k}, for)
<1>3. /\ IsFiniteSet(S) /\ IsFiniteSet(T) /\ IsFiniteSet(D) /\ IsFiniteSet(E)
      /\ Cardinality(S) \in Nat /\ Cardinality(T) \in Nat
      /\ Cardinality(D) \in Nat /\ Cardinality(E) \in Nat
  BY <1>2, RosterFinite
<1>4. Cardinality(T) + Cardinality(E) >= Cardinality(S) + Cardinality(D)
  <2>1. CASE \E old \in DOMAIN for : for[old] = k
    <3>1. PICK old \in DOMAIN for : for[old] = k
      BY <2>1
    <3>2. T = S \ {old}
      BY <3>1 DEF Shared, Roster
    <3>3. old \notin D /\ E = D \cup {old}
      BY <1>1, <3>1 DEF Doubled, Roster
    <3>4. Cardinality(T) >= Cardinality(S) - 1 /\ Cardinality(E) = Cardinality(D) + 1
      BY <1>3, <3>2, <3>3, OneLess, OneMore
    <3> QED BY <1>3, <3>4
  <2>2. CASE ~\E old \in DOMAIN for : for[old] = k
    <3>1. T = S /\ E = D
      BY <2>2 DEF Shared, Doubled
    <3> QED BY <1>3, <3>1
  <2> QED BY <2>1, <2>2
<1>5. /\ Cardinality(M) \in Nat /\ Cardinality(H) \in Nat
      /\ Cardinality(M) <= Room
      /\ Cardinality(M) + Cardinality(H) <= Room + Cardinality(S) + Cardinality(D)
  BY RosterFinite DEF Fits
<1> HIDE DEF S, T, D, E
<1>6. /\ Cardinality(M) - 1 <= Room
      /\ (Cardinality(M) - 1) + (Cardinality(H) + 1) <= Room + Cardinality(T) + Cardinality(E)
  BY <1>3, <1>4, <1>5, RoomIsNat
<1> QED BY <1>2, <1>6 DEF Fits, T, E

\* An admission finds a place, or takes the place of the holder it readmits.
LEMMA MemberJoins ==
  ASSUME NEW M, NEW R, NEW H, NEW for, Roster(M, R, H, for), Fits(M, H, for),
         NEW k, k \notin M \cup R,
         Cardinality(M) + Cardinality(H) - Cardinality(Shared(M, for)) < Room
  PROVE  Roster(M \cup {k}, R, H, for) /\ Fits(M \cup {k}, H, for)
<1>1. Roster(M \cup {k}, R, H, for) /\ Cardinality(M \cup {k}) = Cardinality(M) + 1
  BY FS_AddElement DEF Roster
<1>2. Shared(M \cup {k}, for) = Shared(M, for)
  BY DEF Shared, Roster
<1>3. Cardinality(Shared(M, for)) <= Cardinality(H)
  <2>1. Shared(M, for) \in SUBSET H /\ IsFiniteSet(H)
    BY DEF Shared, Roster
  <2> QED BY <2>1, FS_Subset
<1> QED BY <1>1, <1>2, <1>3, RosterFinite, RoomIsNat DEF Fits

\* A key readmitted in a holder's place takes that place, and shares it.
LEMMA MemberReadmits ==
  ASSUME NEW M, NEW R, NEW H, NEW for, Roster(M, R, H, for), Fits(M, H, for),
         NEW k, k \notin M \cup R, NEW r \in H \ DOMAIN for,
         Cardinality(M) + Cardinality(H) - Cardinality(Shared(M, for)) - 1 < Room
  PROVE  /\ Roster(M \cup {k}, R, H, Put(for, r, k))
         /\ Fits(M \cup {k}, H, Put(for, r, k))
<1> DEFINE then == Put(for, r, k)
           S == Shared(M, for)
           T == Shared(M \cup {k}, then)
<1>1. DOMAIN then = DOMAIN for \cup {r} /\ then[r] = k /\ \A old \in DOMAIN for : then[old] = for[old]
  BY DEF Put
<1> HIDE DEF then
<1>2. IsFiniteSet(M \cup {k}) /\ Cardinality(M \cup {k}) = Cardinality(M) + 1 /\ Cardinality(M) \in Nat
  BY OneMore DEF Roster
<1>3. Roster(M \cup {k}, R, H, then)
  <2>1. \A old \in DOMAIN for : then[old] \in M \cup R /\ then[old] # k
    BY <1>1 DEF Roster
  <2>2. \A a, b \in DOMAIN then : then[a] = then[b] => a = b
    BY <1>1, <2>1 DEF Roster
  <2>3. \A old \in DOMAIN then : then[old] \in (M \cup {k}) \cup R
    BY <1>1, <2>1
  <2>4. (M \cup {k}) \cap R = {} /\ DOMAIN then \subseteq H
    BY <1>1 DEF Roster
  <2> QED BY <1>2, <2>2, <2>3, <2>4 DEF Roster
<1>4. IsFiniteSet(S) /\ Cardinality(T) = Cardinality(S) + 1 /\ Cardinality(S) + 1 <= Cardinality(H)
  <2>1. IsFiniteSet(S) /\ IsFiniteSet(H) /\ r \notin S
    <3>1. r \notin S /\ IsFiniteSet(H)
      BY DEF Shared, Roster
    <3> QED BY <3>1, RosterFinite
  <2>2. T = S \cup {r}
    <3>1. \A old \in DOMAIN for : then[old] \in M \cup {k} <=> for[old] \in M
      BY <1>1 DEF Roster
    <3> QED BY <1>1, <3>1 DEF Shared
  <2>3. S \cup {r} \in SUBSET H
    BY DEF Shared, Roster
  <2>4. Cardinality(S \cup {r}) = Cardinality(S) + 1
    BY <2>1, OneMore
  <2>5. Cardinality(S \cup {r}) <= Cardinality(H)
    BY <2>1, <2>3, FS_Subset
  <2> QED BY <2>1, <2>2, <2>4, <2>5
<1>5. {Cardinality(H), Cardinality(S), Cardinality(T), Cardinality(Doubled(H, then))} \subseteq Nat
  BY <1>3, RosterFinite
<1>6. Cardinality(M) + Cardinality(H) - Cardinality(S) - 1 < Room
  OBVIOUS
<1> HIDE DEF S, T
<1>7. /\ Cardinality(M) + 1 <= Room
      /\ Cardinality(M) + 1 + Cardinality(H)
           <= Room + Cardinality(T) + Cardinality(Doubled(H, then))
  BY <1>2, <1>4, <1>5, <1>6, RoomIsNat
<1>8. Fits(M \cup {k}, H, then)
  BY <1>2, <1>7 DEF Fits, T
<1> QED BY <1>3, <1>8 DEF then

\* Holders whose offices a result has filled are counted no more: each gives up
\* a place, and spoils at most one that was shared or doubled.
LEMMA HoldersFilled ==
  ASSUME NEW M, NEW R, NEW H, NEW for, Roster(M, R, H, for), Fits(M, H, for), NEW F \in SUBSET H
  PROVE  Roster(M, R, H \ F, Drop(for, F)) /\ Fits(M, H \ F, Drop(for, F))
<1> DEFINE then == Drop(for, F)
           S == Shared(M, for)
           T == Shared(M, then)
           D == Doubled(H, for)
           E == Doubled(H \ F, then)
           L1 == {old \in D : for[old] \in F}
           L2 == (D \cap F) \ L1
           P == {for[old] : old \in L1}
<1>1. DOMAIN then = DOMAIN for \ F /\ \A old \in DOMAIN then : then[old] = for[old]
  BY DEF Drop
<1> HIDE DEF then
<1>2. IsFiniteSet(F) /\ IsFiniteSet(H \ F) /\ Cardinality(H \ F) = Cardinality(H) - Cardinality(F)
  <2>1. IsFiniteSet(H) /\ H \cap F = F
    BY DEF Roster
  <2>2. IsFiniteSet(F)
    BY <2>1, FS_Subset
  <2>3. IsFiniteSet(H \ F) /\ Cardinality(H \ F) = Cardinality(H) - Cardinality(H \cap F)
    BY <2>1, FS_Difference
  <2> QED BY <2>1, <2>2, <2>3
<1>3. Roster(M, R, H \ F, then)
  BY <1>1, <1>2 DEF Roster
<1>4. /\ IsFiniteSet(S) /\ IsFiniteSet(D)
      /\ {Cardinality(M), Cardinality(H), Cardinality(S), Cardinality(D)} \subseteq Nat
  BY RosterFinite
<1>5. IsFiniteSet(T) /\ IsFiniteSet(E) /\ {Cardinality(T), Cardinality(E)} \subseteq Nat
  BY <1>3, RosterFinite
<1>6. T = S \ F
  BY <1>1 DEF Shared
<1>7. E = D \ (L1 \cup L2)
  <2>1. \A old \in DOMAIN for \ F : for[old] \in (H \ F) \ DOMAIN then <=> for[old] \in (H \ DOMAIN for) \ F
    BY <1>1
  <2> QED BY <1>1, <2>1 DEF Doubled
<1>8. Cardinality(T) = Cardinality(S) - Cardinality(S \cap F) /\ IsFiniteSet(S \cap F)
  BY <1>4, <1>6, FS_Difference, FS_Intersection
<1>9. IsFiniteSet(L1) /\ IsFiniteSet(L2) /\ L1 \cap L2 = {} /\ D \cap (L1 \cup L2) = L1 \cup L2
  BY <1>4, FS_Subset
<1>10. /\ Cardinality(E) = Cardinality(D) - (Cardinality(L1) + Cardinality(L2))
       /\ Cardinality(L1) \in Nat /\ Cardinality(L2) \in Nat
  <2>1. Cardinality(E) = Cardinality(D) - Cardinality(D \cap (L1 \cup L2))
    BY <1>4, <1>7, FS_Difference
  <2>2. Cardinality(L1 \cup L2) = Cardinality(L1) + Cardinality(L2)
    BY <1>9, CountApart
  <2> QED BY <1>9, <2>1, <2>2, FS_CardinalityType
<1>11. IsFiniteSet(P) /\ Cardinality(P) = Cardinality(L1) /\ P \subseteq F \ DOMAIN for
  <2>1. \A a, b \in L1 : for[a] = for[b] => a = b
    BY DEF Doubled, Roster
  <2>2. P \subseteq F \ DOMAIN for
    BY DEF Doubled
  <2> HIDE DEF L1
  <2> QED BY <1>9, <2>1, <2>2, ImageCardinality
<1>12. L2 \subseteq F \cap DOMAIN for /\ S \cap F \subseteq F \cap DOMAIN for /\ L2 \cap (S \cap F) = {}
  BY RosterFinite DEF Doubled, Shared
<1> HIDE DEF S, T, D, E, L1, L2, P
<1>13. Cardinality(L1) + Cardinality(L2) + Cardinality(S \cap F) <= Cardinality(F)
  <2>1. IsFiniteSet(L2 \cup (S \cap F))
        /\ Cardinality(L2 \cup (S \cap F)) = Cardinality(L2) + Cardinality(S \cap F)
    BY <1>8, <1>9, <1>12, CountApart
  <2>2. P \cap (L2 \cup (S \cap F)) = {} /\ P \cup (L2 \cup (S \cap F)) \in SUBSET F
    BY <1>11, <1>12
  <2>3. Cardinality(P \cup (L2 \cup (S \cap F))) = Cardinality(P) + Cardinality(L2 \cup (S \cap F))
    BY <1>11, <2>1, <2>2, CountApart
  <2>4. Cardinality(P \cup (L2 \cup (S \cap F))) <= Cardinality(F)
    BY <1>2, <2>2, FS_Subset
  <2> QED BY <1>8, <1>10, <1>11, <2>1, <2>3, <2>4, FS_CardinalityType
<1>14. Cardinality(M) <= Room /\ Cardinality(M) + Cardinality(H) <= Room + Cardinality(S) + Cardinality(D)
  BY DEF Fits, S, D
<1>15. Cardinality(F) \in Nat /\ Cardinality(S \cap F) \in Nat
  BY <1>2, <1>8, FS_CardinalityType
<1>16. Cardinality(M) + Cardinality(H \ F) <= Room + Cardinality(T) + Cardinality(E)
  BY <1>2, <1>4, <1>8, <1>10, <1>13, <1>14, <1>15, RoomIsNat
<1> QED BY <1>3, <1>14, <1>16 DEF Fits, T, E, then

\* Who may vote: no more than the room, but for the places counted twice.
LEMMA ElectorateFits ==
  ASSUME NEW M, NEW R, NEW H, NEW for, Roster(M, R, H, for), Fits(M, H, for),
         NEW E, E = (M \ Range(for)) \cup H,
         NEW W \in SUBSET DOMAIN for, Doubled(H, for) \subseteq W
  PROVE  IsFiniteSet(E) /\ Cardinality(E) <= Room + Cardinality(W)
<1> DEFINE S == Shared(M, for)
           P == {for[old] : old \in S}
<1>1. IsFiniteSet(M) /\ IsFiniteSet(H) /\ IsFiniteSet(S)
  BY RosterFinite DEF Roster
<1>2. IsFiniteSet(P) /\ Cardinality(P) = Cardinality(S)
  <2>1. \A a, b \in S : for[a] = for[b] => a = b
    BY DEF Shared, Roster
  <2> HIDE DEF S
  <2> QED BY <1>1, <2>1, ImageCardinality
<1>3. M \cap Range(for) = P
  BY DEF Shared, Range
<1>4. IsFiniteSet(M \ Range(for)) /\ Cardinality(M \ Range(for)) = Cardinality(M) - Cardinality(P)
  BY <1>1, <1>3, FS_Difference
<1>5. (M \ Range(for)) \cap H = {}
  BY DEF Roster
<1>6. IsFiniteSet(E) /\ Cardinality(E) = Cardinality(M) - Cardinality(P) + Cardinality(H)
  BY <1>1, <1>4, <1>5, CountApart
<1>7. Cardinality(Doubled(H, for)) <= Cardinality(W) /\ Cardinality(W) \in Nat
  BY RosterFinite, FS_Subset, FS_CardinalityType
<1>8. /\ Cardinality(M) + Cardinality(H) <= Room + Cardinality(S) + Cardinality(Doubled(H, for))
      /\ {Cardinality(M), Cardinality(H), Cardinality(S), Cardinality(Doubled(H, for))} \subseteq Nat
  BY RosterFinite DEF Fits
<1> QED BY <1>2, <1>6, <1>7, <1>8, RoomIsNat

-----------------------------------------------------------------------------
(* The rules keep a state sound, whatever act applies, allowed or not, and  *)
(* whatever state it names.                                                *)

\* A state of the unit: the offices among the members, nobody in both, and a
\* roster that fits the room.
Sound(st) ==
  /\ {"members", "removed", "offices", "holding", "readmitted"} \subseteq DOMAIN st
  /\ st.offices \in OfficesAmong(st.members)
  /\ st.offices["co"].holder = st.offices["xo"].holder => st.offices["co"].holder = NoKey
  /\ Roster(st.members, st.removed, DOMAIN st.holding, st.readmitted)
  /\ Fits(st.members, DOMAIN st.holding, st.readmitted)

\* Soundness is of these five alone.
LEMMA SoundAlike ==
  ASSUME NEW st, Sound(st), NEW to, DOMAIN to = DOMAIN st,
         to.members = st.members, to.removed = st.removed, to.offices = st.offices,
         DOMAIN to.holding = DOMAIN st.holding, to.readmitted = st.readmitted
  PROVE  Sound(to)
BY DEF Sound

\* settle touches the votes alone.
LEMMA SettleKeeps ==
  ASSUME NEW st, Sound(st)
  PROVE  Sound(Settle(st))
<1> DEFINE to == Settle(st)
<1>1. /\ DOMAIN to = DOMAIN st
      /\ to.members = st.members /\ to.removed = st.removed /\ to.offices = st.offices
      /\ to.holding = st.holding /\ to.readmitted = st.readmitted
  BY DEF Settle, Sound
<1> HIDE DEF to
<1>2. Sound(to)
  BY <1>1, SoundAlike
<1> QED BY <1>2 DEF to

\* Succeed moves holders between the offices, and adds none: whoever it ends
\* holds no office after it.
LEMMA SuccessionMoves ==
  ASSUME NEW M, NEW st, "offices" \in DOMAIN st, st.offices \in OfficesAmong(M),
         st.offices["co"].holder = st.offices["xo"].holder => st.offices["co"].holder = NoKey,
         NEW key, NEW acting \in BOOLEAN
  PROVE  LET to == Succeed(st, key, acting)
         IN  /\ DOMAIN to = DOMAIN st
             /\ \A f \in DOMAIN st \ {"offices"} : to[f] = st[f]
             /\ to.offices \in OfficesAmong(M \ {key})
             /\ to.offices["co"].holder = to.offices["xo"].holder => to.offices["co"].holder = NoKey
<1> DEFINE o == st.offices
           to == Succeed(st, key, acting)
           post(k) == [holder : k \cup {NoKey}, acting : BOOLEAN, n : Nat, phase : {"young", "old", "over"}]
<1>1. /\ o \in [Offices -> post(M)] /\ o["co"] \in post(M) /\ o["xo"] \in post(M)
      /\ Vacant(o["xo"]) \in post(M \ {key}) /\ Vacant(o["xo"]).holder = NoKey
  BY DEF OfficesAmong, Offices, Vacant
<1>2. CASE o["co"].holder = key
  <2> DEFINE co == [o["co"] EXCEPT !.holder = o["xo"].holder, !.acting = acting /\ o["xo"].holder # NoKey]
  <2>1. co \in post(M \ {key}) /\ co.holder = o["xo"].holder
    BY <1>1, <1>2
  <2>2. to = [st EXCEPT !.offices = [co |-> co, xo |-> Vacant(o["xo"])]]
    BY <1>2 DEF Succeed
  <2> HIDE DEF co, to, post
  <2>3. /\ DOMAIN to = DOMAIN st /\ \A f \in DOMAIN st \ {"offices"} : to[f] = st[f]
        /\ to.offices = [co |-> co, xo |-> Vacant(o["xo"])]
    BY <2>2
  <2>4. to.offices \in [Offices -> post(M \ {key})]
    BY <1>1, <2>1, <2>3 DEF Offices
  <2> QED BY <1>1, <2>1, <2>3, <2>4 DEF to, post, OfficesAmong
<1>3. CASE o["co"].holder # key /\ o["xo"].holder = key
  <2>1. to = [st EXCEPT !.offices = [o EXCEPT !["xo"] = Vacant(o["xo"])]]
    BY <1>3 DEF Succeed
  <2>2. o["co"] \in post(M \ {key})
    BY <1>1, <1>3
  <2> HIDE DEF to, post
  <2>3. /\ DOMAIN to = DOMAIN st /\ \A f \in DOMAIN st \ {"offices"} : to[f] = st[f]
        /\ to.offices = [o EXCEPT !["xo"] = Vacant(o["xo"])]
    BY <2>1
  <2>4. to.offices \in [Offices -> post(M \ {key})] /\ to.offices["xo"].holder = NoKey
    BY <1>1, <2>2, <2>3 DEF Offices
  <2> QED BY <2>3, <2>4 DEF to, post, OfficesAmong
<1>4. CASE o["co"].holder # key /\ o["xo"].holder # key
  <2>1. to = st
    BY <1>4 DEF Succeed
  <2>2. o["co"] \in post(M \ {key}) /\ o["xo"] \in post(M \ {key})
    BY <1>1, <1>4
  <2> HIDE DEF to, post
  <2>3. o \in [Offices -> post(M \ {key})]
    BY <1>1, <2>2 DEF Offices
  <2> QED BY <2>1, <2>3 DEF to, post, OfficesAmong
<1> QED BY <1>2, <1>3, <1>4

LEMMA OfficesOfMore ==
  ASSUME NEW M, NEW N, M \subseteq N, NEW o \in OfficesAmong(M)
  PROVE  o \in OfficesAmong(N)
<1> DEFINE post(k) == [holder : k \cup {NoKey}, acting : BOOLEAN, n : Nat, phase : {"young", "old", "over"}]
<1>1. post(M) \subseteq post(N)
  OBVIOUS
<1> HIDE DEF post
<1>2. o \in [Offices -> post(M)]
  BY DEF OfficesAmong, post
<1>3. o \in [Offices -> post(N)]
  BY <1>1, <1>2
<1> QED BY <1>3 DEF OfficesAmong, post

LEMMA SuccessionKeeps ==
  ASSUME NEW st, Sound(st), NEW key, NEW acting \in BOOLEAN
  PROVE  Sound(Succeed(st, key, acting))
<1> DEFINE to == Succeed(st, key, acting)
<1>1. /\ DOMAIN to = DOMAIN st
      /\ \A f \in DOMAIN st \ {"offices"} : to[f] = st[f]
      /\ to.offices \in OfficesAmong(st.members \ {key})
      /\ to.offices["co"].holder = to.offices["xo"].holder => to.offices["co"].holder = NoKey
  BY SuccessionMoves DEF Sound
<1> HIDE DEF to
<1>2. /\ to.members = st.members /\ to.removed = st.removed /\ to.holding = st.holding
      /\ to.readmitted = st.readmitted
  BY <1>1 DEF Sound
<1>3. to.offices \in OfficesAmong(st.members)
  BY <1>1, OfficesOfMore
<1>4. Sound(to)
  BY <1>1, <1>2, <1>3 DEF Sound
<1> QED BY <1>4 DEF to

\* A member goes: out of the roster and of every office.
LEMMA DropKeeps ==
  ASSUME NEW st, Sound(st), NEW key
  PROVE  Sound(DropMember(st, key))
<1>1. CASE key \notin st.members
  BY <1>1 DEF DropMember
<1>2. CASE key \in st.members
  <2> DEFINE gone == [st EXCEPT !.members = @ \ {key}, !.removed = @ \cup {key}]
             to == Succeed(gone, key, TRUE)
  <2>1. /\ DOMAIN gone = DOMAIN st
        /\ gone.members = st.members \ {key} /\ gone.removed = st.removed \cup {key}
        /\ \A f \in DOMAIN st \ {"members", "removed"} : gone[f] = st[f]
    BY DEF Sound
  <2> HIDE DEF gone
  <2>2. /\ gone.offices = st.offices /\ gone.holding = st.holding /\ gone.readmitted = st.readmitted
        /\ {"members", "removed", "offices", "holding", "readmitted"} \subseteq DOMAIN gone
    BY <2>1 DEF Sound
  <2>3. /\ st.offices \in OfficesAmong(st.members)
        /\ st.offices["co"].holder = st.offices["xo"].holder => st.offices["co"].holder = NoKey
    BY DEF Sound
  <2> DEFINE Moved(then) ==
             /\ DOMAIN then = DOMAIN gone
             /\ \A f \in DOMAIN gone \ {"offices"} : then[f] = gone[f]
             /\ then.offices \in OfficesAmong(st.members \ {key})
             /\ then.offices["co"].holder = then.offices["xo"].holder => then.offices["co"].holder = NoKey
  <2>8. \A acting \in BOOLEAN : Moved(Succeed(gone, key, acting))
    BY <2>2, <2>3, SuccessionMoves
  <2>4. Moved(to)
    <3> HIDE DEF Moved
    <3> QED BY <2>8
  <2> HIDE DEF to
  <2>5. /\ to.members = st.members \ {key} /\ to.removed = st.removed \cup {key}
        /\ to.holding = st.holding /\ to.readmitted = st.readmitted
    BY <2>1, <2>2, <2>4
  <2>6. /\ Roster(to.members, to.removed, DOMAIN to.holding, to.readmitted)
        /\ Fits(to.members, DOMAIN to.holding, to.readmitted)
    BY <1>2, <2>5, MemberGoes DEF Sound
  <2>7. Sound(to)
    BY <2>2, <2>4, <2>5, <2>6 DEF Sound
  <2> QED BY <1>2, <2>7, SettleKeeps DEF DropMember, gone, to
<1> QED BY <1>1, <1>2

\* A holder goes, and is counted until the office is filled.
LEMMA DropHolderKeeps ==
  ASSUME NEW st, Sound(st), NEW key \in st.members, NEW offices
  PROVE  Sound(DropMember([st EXCEPT !.holding = Put(@, key, offices)], key))
<1> DEFINE held == [st EXCEPT !.holding = Put(@, key, offices)]
           gone == [held EXCEPT !.members = @ \ {key}, !.removed = @ \cup {key}]
           to == Succeed(gone, key, TRUE)
<1>1. /\ DOMAIN held = DOMAIN st /\ DOMAIN held.holding = DOMAIN st.holding \cup {key}
      /\ \A f \in DOMAIN st \ {"holding"} : held[f] = st[f]
  BY DEF Sound, Put
<1> HIDE DEF held
<1>2. /\ DOMAIN gone = DOMAIN held
      /\ gone.members = held.members \ {key} /\ gone.removed = held.removed \cup {key}
      /\ \A f \in DOMAIN held \ {"members", "removed"} : gone[f] = held[f]
  BY <1>1 DEF Sound
<1> HIDE DEF gone
<1>3. /\ gone.offices = st.offices /\ gone.readmitted = st.readmitted
      /\ gone.members = st.members \ {key} /\ gone.removed = st.removed \cup {key}
      /\ DOMAIN gone.holding = DOMAIN st.holding \cup {key}
      /\ {"members", "removed", "offices", "holding", "readmitted"} \subseteq DOMAIN gone
  BY <1>1, <1>2 DEF Sound
<1>4. /\ st.offices \in OfficesAmong(st.members)
      /\ st.offices["co"].holder = st.offices["xo"].holder => st.offices["co"].holder = NoKey
  BY DEF Sound
<1> DEFINE Moved(then) ==
             /\ DOMAIN then = DOMAIN gone
             /\ \A f \in DOMAIN gone \ {"offices"} : then[f] = gone[f]
             /\ then.offices \in OfficesAmong(st.members \ {key})
             /\ then.offices["co"].holder = then.offices["xo"].holder => then.offices["co"].holder = NoKey
<1>10. \A acting \in BOOLEAN : Moved(Succeed(gone, key, acting))
  BY <1>3, <1>4, SuccessionMoves
<1>5. Moved(to)
  <2> HIDE DEF Moved
  <2> QED BY <1>10
<1> HIDE DEF to
<1>6. /\ to.members = st.members \ {key} /\ to.removed = st.removed \cup {key}
      /\ DOMAIN to.holding = DOMAIN st.holding \cup {key} /\ to.readmitted = st.readmitted
  BY <1>3, <1>5
<1>7. /\ Roster(to.members, to.removed, DOMAIN to.holding, to.readmitted)
      /\ Fits(to.members, DOMAIN to.holding, to.readmitted)
  BY <1>6, HolderGoes DEF Sound
<1>8. Sound(to)
  BY <1>3, <1>5, <1>6, <1>7 DEF Sound
<1>9. key \in held.members
  BY <1>1 DEF Sound
<1> QED BY <1>8, <1>9, SettleKeeps DEF DropMember, held, gone, to

\* A result fills an office from the members, and the holders of it are counted no more.
LEMMA TakingKeeps ==
  ASSUME NEW st, Sound(st), NEW run, NEW id, NEW key, MayTake(st, run, key)
  PROVE  Sound(TakesOffice(st, run, id, key))
<1> DEFINE o == st.offices
           to == TakesOffice(st, run, id, key)
           held == [k \in DOMAIN st.holding |-> st.holding[k] \ {run.office}]
           filled == {k \in DOMAIN held : held[k] = {}}
           post == [holder : st.members \cup {NoKey}, acting : BOOLEAN, n : Nat, phase : {"young", "old", "over"}]
           then(f) == IF f # run.office THEN IF o[f].holder = key THEN Vacant(o[f]) ELSE o[f]
                      ELSE IF run.kind = "end" THEN Office(key, FALSE, o[run.office].n + 1, "young")
                      ELSE Office(key, FALSE, o[run.office].n, o[run.office].phase)
<1>1. /\ DOMAIN to = DOMAIN st
      /\ to.members = st.members /\ to.removed = st.removed
      /\ to.offices = [f \in Offices |-> then(f)]
      /\ to.holding = Drop(held, filled) /\ to.readmitted = Drop(st.readmitted, filled)
  BY DEF TakesOffice, Sound
<1> HIDE DEF to
<1>2. filled \in SUBSET DOMAIN st.holding /\ DOMAIN to.holding = DOMAIN st.holding \ filled
  BY <1>1 DEF Drop
<1> HIDE DEF filled, held
<1>3. /\ Roster(to.members, to.removed, DOMAIN to.holding, to.readmitted)
      /\ Fits(to.members, DOMAIN to.holding, to.readmitted)
  BY <1>1, <1>2, HoldersFilled DEF Sound
<1>4. o \in [Offices -> post] /\ key \in st.members
  BY DEF Sound, OfficesAmong, MayTake
<1>5. \A f \in Offices : then(f) \in post
  <2> SUFFICES ASSUME NEW f \in Offices
               PROVE  then(f) \in post
    OBVIOUS
  <2>1. o[f] \in post
    BY <1>4
  <2>2. Vacant(o[f]) \in post
    BY <2>1 DEF Vacant
  <2>3. ASSUME f = run.office
        PROVE  then(f) \in post
    <3>1. o[run.office].n \in Nat /\ o[run.office].phase \in {"young", "old", "over"}
      BY <2>1, <2>3
    <3>2. /\ Office(key, FALSE, o[run.office].n + 1, "young") \in post
          /\ Office(key, FALSE, o[run.office].n, o[run.office].phase) \in post
      BY <1>4, <3>1 DEF Office
    <3> HIDE DEF post
    <3> QED BY <2>3, <3>2
  <2> HIDE DEF post
  <2> QED BY <2>1, <2>2, <2>3
<1>6. to.offices \in [Offices -> post]
  <2> HIDE DEF then, post
  <2> QED BY <1>1, <1>5
<1>7. to.offices["co"] = then("co") /\ to.offices["xo"] = then("xo")
  BY <1>1 DEF Offices
<1>8. to.offices["co"].holder = to.offices["xo"].holder => to.offices["co"].holder = NoKey
  <2>1. /\ o["co"] \in post /\ o["xo"] \in post
        /\ o["co"].holder = o["xo"].holder => o["co"].holder = NoKey
    BY <1>4 DEF Offices, Sound
  <2>2. \A f \in Offices : /\ Vacant(o[f]).holder = NoKey
                           /\ f = run.office => then(f).holder = key
                           /\ f # run.office => then(f).holder = IF o[f].holder = key THEN NoKey ELSE o[f].holder
    BY <1>4 DEF Vacant, Office
  <2> HIDE DEF then, post
  <2> QED BY <1>7, <2>1, <2>2 DEF Offices
<1>9. to.offices \in OfficesAmong(to.members)
  BY <1>1, <1>6 DEF OfficesAmong
<1>10. {"members", "removed", "offices", "holding", "readmitted"} \subseteq DOMAIN to
  BY <1>1 DEF Sound
<1>11. Sound(to)
  BY <1>3, <1>8, <1>9, <1>10 DEF Sound
<1> QED BY <1>11 DEF to

\* The place an admission finds is counted as the roster counts it.
LEMMA SeatsOfRoster ==
  ASSUME NEW st, Sound(st), NEW r
  PROVE  SeatsTaken(st, r) =
           Cardinality(st.members) + Cardinality(DOMAIN st.holding)
             - Cardinality(Shared(st.members, st.readmitted))
             - (IF r \in DOMAIN st.holding \ DOMAIN st.readmitted THEN 1 ELSE 0)
<1> DEFINE shared == {old \in DOMAIN st.readmitted :
                        old \in DOMAIN st.holding /\ st.readmitted[old] \in st.members}
           freed == {old \in {r} : old \in DOMAIN st.holding \ DOMAIN st.readmitted}
<1>1. shared = Shared(st.members, st.readmitted)
  BY DEF Sound, Roster, Shared
<1>2. Cardinality(freed) = IF r \in DOMAIN st.holding \ DOMAIN st.readmitted THEN 1 ELSE 0
  <2>1. CASE r \in DOMAIN st.holding \ DOMAIN st.readmitted
    <3>1. freed = {r}
      BY <2>1
    <3> HIDE DEF freed
    <3> QED BY <2>1, <3>1, FS_Singleton
  <2>2. CASE r \notin DOMAIN st.holding \ DOMAIN st.readmitted
    <3>1. freed = {}
      BY <2>2
    <3> HIDE DEF freed
    <3> QED BY <2>2, <3>1, FS_EmptySet
  <2> QED BY <2>1, <2>2
<1>3. SeatsTaken(st, r) = Cardinality(st.members) + Cardinality(DOMAIN st.holding)
                            - Cardinality(shared) - Cardinality(freed)
  BY DEF SeatsTaken
<1> HIDE DEF shared, freed
<1> QED BY <1>1, <1>2, <1>3

\* An admission takes a place there is.
LEMMA AdmissionKeeps ==
  ASSUME NEW st, Sound(st), NEW x
  PROVE  Sound(ApplyAdmit(st, x).state)
<1>1. CASE \/ x.key \in st.members \/ x.key \in st.removed
           \/ ~(SeatsTaken(st, x.readmits) < Room)
  <2>1. ApplyAdmit(st, x).state = st
    <3>1. SeatsTaken(st, x.readmits) \in Int
      <4>1. /\ Roster(st.members, st.removed, DOMAIN st.holding, st.readmitted)
        BY DEF Sound
      <4> QED BY <4>1, SeatsOfRoster, RosterFinite
    <3> QED BY <1>1, <3>1, RoomIsNat DEF ApplyAdmit, Done, Void
  <2> QED BY <2>1
<1>2. CASE /\ x.key \notin st.members /\ x.key \notin st.removed
           /\ SeatsTaken(st, x.readmits) < Room
  <2> DEFINE M == st.members
             H == DOMAIN st.holding
             for == st.readmitted
             to == ApplyAdmit(st, x).state
             joined == IF x.readmits \in H \ DOMAIN for THEN Put(for, x.readmits, x.key) ELSE for
  <2>1. /\ Roster(M, st.removed, H, for) /\ Fits(M, H, for)
        /\ st.offices \in OfficesAmong(M)
        /\ st.offices["co"].holder = st.offices["xo"].holder => st.offices["co"].holder = NoKey
        /\ {"members", "removed", "offices", "holding", "readmitted"} \subseteq DOMAIN st
    BY DEF Sound
  <2>2. /\ Cardinality(M) \in Nat /\ Cardinality(H) \in Nat /\ Cardinality(Shared(M, for)) \in Nat
    BY <2>1, RosterFinite
  <2>3. ~(SeatsTaken(st, x.readmits) >= Room)
    BY <1>2, <2>2, SeatsOfRoster, RoomIsNat
  <2>4. to = [st EXCEPT !.members = M \cup {x.key}, !.readmitted = joined]
    BY <1>2, <2>3 DEF ApplyAdmit, Done
  <2>5. Roster(M \cup {x.key}, st.removed, H, joined) /\ Fits(M \cup {x.key}, H, joined)
    <3> HIDE DEF M, H, for
    <3>1. CASE x.readmits \in H \ DOMAIN for
      <4>1. Cardinality(M) + Cardinality(H) - Cardinality(Shared(M, for)) - 1 < Room
        BY <1>2, <3>1, SeatsOfRoster DEF M, H, for
      <4>2. x.key \notin M \cup st.removed
        BY <1>2 DEF M
      <4> QED BY <2>1, <3>1, <4>1, <4>2, MemberReadmits
    <3>2. CASE x.readmits \notin H \ DOMAIN for
      <4>1. Cardinality(M) + Cardinality(H) - Cardinality(Shared(M, for)) < Room
        BY <1>2, <2>2, <3>2, SeatsOfRoster DEF M, H, for
      <4>2. x.key \notin M \cup st.removed
        BY <1>2 DEF M
      <4> QED BY <2>1, <3>2, <4>1, <4>2, MemberJoins
    <3> QED BY <3>1, <3>2
  <2>6. st.offices \in OfficesAmong(M \cup {x.key})
    BY <2>1, OfficesOfMore
  <2> HIDE DEF joined, to
  <2>7. /\ DOMAIN to = DOMAIN st
        /\ to.members = M \cup {x.key} /\ to.readmitted = joined
        /\ to.removed = st.removed /\ to.offices = st.offices /\ to.holding = st.holding
    BY <2>1, <2>4
  <2>8. Sound(to)
    BY <2>1, <2>5, <2>6, <2>7 DEF Sound
  <2> QED BY <2>8 DEF to
<1> QED BY <1>1, <1>2

\* Nothing of what applyAct does makes a sound state unsound.
LEMMA ApplyingKeeps ==
  ASSUME NEW st, Sound(st), NEW x, NEW id, NEW va, NEW beside
  PROVE  Sound(Apply(st, x, id, va, beside).state)
<1>1. Sound(ApplyRemove(st, x, va).state)
  <2> DEFINE was == LeftUnfilled(va, x.key)
             held == IF x.key \in DOMAIN st.holding THEN st.holding[x.key] ELSE {}
  <2>1. CASE x.key \notin st.members
    BY <2>1 DEF ApplyRemove, Done
  <2>2. CASE x.key \in st.members /\ was = {}
    BY <2>2, DropKeeps DEF ApplyRemove, Done
  <2>3. CASE x.key \in st.members /\ was # {}
    <3>1. ApplyRemove(st, x, va).state
            = DropMember([st EXCEPT !.holding = Put(@, x.key, held \cup was)], x.key)
      BY <2>3 DEF ApplyRemove, Done
    <3> HIDE DEF was, held
    <3> QED BY <2>3, <3>1, DropHolderKeeps
  <2> QED BY <2>1, <2>2, <2>3
<1>2. Sound(Done(DropMember(st, x.by)).state)
  BY DropKeeps DEF Done
<1>3. Sound(ApplyVacate(st, x).state)
  <2>1. \A acting \in BOOLEAN : Sound(Settle(Succeed(st, x.by, acting)))
    BY SuccessionKeeps, SettleKeeps
  <2>2. ApplyVacate(st, x).state \in {st, Settle(Succeed(st, x.by, TRUE))}
    BY DEF ApplyVacate, Done
  <2> QED BY <2>1, <2>2
<1>4. Sound(ApplyResult(st, x, id, beside).state)
  <2>1. CASE x.vote \in DOMAIN st.runs /\ MayTake(st, st.runs[x.vote], x.key)
    <3>1. ApplyResult(st, x, id, beside).state
            = Settle(TakesOffice(st, st.runs[x.vote], id, x.key))
      BY <2>1 DEF ApplyResult, Done
    <3> QED BY <2>1, <3>1, TakingKeeps, SettleKeeps
  <2>2. CASE ~(x.vote \in DOMAIN st.runs /\ MayTake(st, st.runs[x.vote], x.key))
    <3>1. ApplyResult(st, x, id, beside).state = st
      BY <2>2 DEF ApplyResult, Done, Void
    <3> QED BY <3>1
  <2> QED BY <2>1, <2>2
<1>5. Sound(ApplyRecall(st, x, id, beside).state)
  <2> DEFINE pet == st.runs[x.vote]
             after == Succeed(st, pet.subject, FALSE)
             to == [after EXCEPT
                      !.recalled = @ \cup {[key |-> pet.subject, office |-> pet.office,
                                            n |-> st.offices[pet.office].n, signers |-> x.signers]},
                      !.runs = Drop(@, {x.vote}),
                      !.closed = Put(@, x.vote, [winner |-> pet.subject, by |-> id])]
  <2>1. CASE x.vote \notin DOMAIN st.runs
    <3>1. ApplyRecall(st, x, id, beside).state = st
      BY <2>1 DEF ApplyRecall, Done, Void
    <3> QED BY <3>1
  <2>2. CASE x.vote \in DOMAIN st.runs
    <3>1. ApplyRecall(st, x, id, beside).state = Settle(to)
      BY <2>2 DEF ApplyRecall, Done
    <3>2. \A acting \in BOOLEAN : Sound(Succeed(st, pet.subject, acting))
      BY SuccessionKeeps
    <3>3. Sound(after)
      BY <3>2
    <3> HIDE DEF after
    <3>4. /\ DOMAIN to = DOMAIN after /\ to.members = after.members /\ to.removed = after.removed
          /\ to.offices = after.offices /\ to.holding = after.holding
          /\ to.readmitted = after.readmitted
      BY <3>3 DEF Sound
    <3> HIDE DEF to
    <3>5. Sound(to)
      BY <3>3, <3>4, SoundAlike
    <3> QED BY <3>1, <3>5, SettleKeeps
  <2> QED BY <2>1, <2>2
<1>6. Sound(ApplyOpen(st, x, id, va).state)
  <2> DEFINE to == ApplyOpen(st, x, id, va).state
  <2>1. /\ DOMAIN to = DOMAIN st /\ to.members = st.members /\ to.removed = st.removed
        /\ to.offices = st.offices /\ to.holding = st.holding /\ to.readmitted = st.readmitted
    BY DEF ApplyOpen, Done, Void, Sound
  <2> HIDE DEF to
  <2>2. Sound(to)
    BY <2>1, SoundAlike
  <2> QED BY <2>2 DEF to
<1>7. Sound(ApplyPetition(st, x, id, va).state)
  <2> DEFINE to == ApplyPetition(st, x, id, va).state
  <2>1. /\ DOMAIN to = DOMAIN st /\ to.members = st.members /\ to.removed = st.removed
        /\ to.offices = st.offices /\ to.holding = st.holding /\ to.readmitted = st.readmitted
    BY DEF ApplyPetition, Done, Void, Sound
  <2> HIDE DEF to
  <2>2. Sound(to)
    BY <2>1, SoundAlike
  <2> QED BY <2>2 DEF to
<1>8. Sound(ApplyAdmit(st, x).state)
  BY AdmissionKeeps
<1> QED BY <1>1, <1>2, <1>3, <1>4, <1>5, <1>6, <1>7, <1>8 DEF Apply

\* A crossed result closes its vote, and touches nothing else.
LEMMA ContestKeeps ==
  ASSUME NEW st, Sound(st), NEW run, NEW id
  PROVE  Sound(Contested(st, run, id))
<1> DEFINE to == Contested(st, run, id)
<1>1. /\ DOMAIN to = DOMAIN st /\ to.members = st.members /\ to.removed = st.removed
      /\ to.offices = st.offices /\ to.holding = st.holding /\ to.readmitted = st.readmitted
  BY DEF Contested, Sound
<1> HIDE DEF to
<1>2. Sound(to)
  BY <1>1, SoundAlike
<1> QED BY <1>2 DEF to

\* So with every effect in turn.
LEMMA EffectKeeps ==
  ASSUME NEW h, NEW e, "state" \in DOMAIN e, Sound(e.state), NEW id
  PROVE  "state" \in DOMAIN Effect(h, e, id) /\ Sound(Effect(h, e, id).state)
<1> DEFINE x == h.acts[id]
           done == Apply(e.state, x, id, StateOf(h, id), Beside(h, id))
           voided == Contested(e.state, x.vote, id)
           to == Effect(h, e, id)
<1>1. /\ DOMAIN to = DOMAIN e
      /\ to.state \in {e.state, voided, done.state}
  <2> HIDE DEF done
  <2>1. \/ to = [e EXCEPT !.state = voided]
        \/ to = e
        \/ to = [e EXCEPT !.state = done.state]
        \/ DOMAIN to = DOMAIN e /\ to.state = e.state
    BY DEF Effect, done
  <2> HIDE DEF to, voided
  <2> QED BY <2>1
<1>2. Sound(done.state)
  BY ApplyingKeeps
<1>3. Sound(voided)
  BY ContestKeeps
<1> HIDE DEF to, done, voided
<1>4. "state" \in DOMAIN to /\ Sound(to.state)
  BY <1>1, <1>2, <1>3
<1> QED BY <1>4 DEF to

-----------------------------------------------------------------------------
(* A fold applies effects one after another; a reading reads act by act.    *)

LEMMA ThereIsAFirst ==
  ASSUME NEW S \in SUBSET Nat, S # {}
  PROVE  \E i \in S : \A j \in S : i <= j
<1>1. \E i \in S : \A j \in S : <<j, i>> \notin OpToRel(<, Nat)
  BY NatLessThanWellFounded, WFMin
<1>2. PICK i \in S : \A j \in S : ~(j < i)
  BY <1>1 DEF OpToRel
<1> QED BY <1>2

\* g is what the effects leave one after another, and what the acts read as.
AfterEach(h, c, N, g) ==
  g = [n \in 0 .. N |-> IF n = 0 THEN [c |-> c, state |-> h.base, late |-> {}]
                        ELSE Effect(h, g[n - 1], c.order[n])]
ReadEach(base, as, desc, side, N, g) ==
  g = [n \in 0 .. N |-> IF n = 0 THEN Unfolded(base, as, desc, side) ELSE ReadAct(g[n - 1], n)]

\* The recursion of Effects has a solution, found one effect at a time.
LEMMA EffectsInTurn ==
  ASSUME NEW h, NEW c, NEW N \in Nat
  PROVE  \E g : AfterEach(h, c, N, g)
<1> DEFINE first == [c |-> c, state |-> h.base, late |-> {}]
           next(e, n) == Effect(h, e, c.order[n])
           solves(g, m) == g = [n \in 0 .. m |-> IF n = 0 THEN first ELSE next(g[n - 1], n)]
           unsolved == {m \in 0 .. N : \A g : ~solves(g, m)}
<1>1. SUFFICES \E g : solves(g, N)
  BY DEF AfterEach
<1> HIDE DEF first, next
<1>2. solves([n \in 0 .. 0 |-> first], 0)
  OBVIOUS
<1>3. ASSUME NEW m \in 1 .. N, NEW g, solves(g, m - 1)
      PROVE  \E f : solves(f, m)
  <2> DEFINE g2 == [n \in 0 .. m |-> IF n < m THEN g[n] ELSE next(g[m - 1], m)]
  <2>1. solves(g2, m)
    <3>1. \A n \in 0 .. m : g2[n] = IF n = 0 THEN first ELSE next(g2[n - 1], n)
      <4> SUFFICES ASSUME NEW n \in 0 .. m
                   PROVE  g2[n] = IF n = 0 THEN first ELSE next(g2[n - 1], n)
        OBVIOUS
      <4>1. CASE n < m
        <5>1. n \in 0 .. m - 1 /\ (n # 0 => n - 1 \in 0 .. m - 1)
          BY <4>1
        <5>2. g[n] = IF n = 0 THEN first ELSE next(g[n - 1], n)
          BY <1>3, <5>1
        <5>3. g2[n] = g[n] /\ (n # 0 => g2[n - 1] = g[n - 1])
          BY <4>1, <5>1
        <5> QED BY <5>2, <5>3
      <4>2. CASE n = m
        BY <4>2
      <4> QED BY <4>1, <4>2
    <3> QED BY <3>1
  <2> QED BY <2>1
<1> HIDE DEF solves
<1>4. unsolved = {}
  <2>1. ASSUME NEW m \in unsolved, \A j \in unsolved : m <= j
        PROVE  FALSE
    <3>1. m \in 1 .. N /\ m - 1 \in 0 .. N /\ m - 1 \notin unsolved
      BY <1>2, <2>1
    <3>2. PICK g : solves(g, m - 1)
      BY <3>1
    <3> QED BY <1>3, <2>1, <3>1, <3>2
  <2>2. unsolved \in SUBSET Nat
    OBVIOUS
  <2> HIDE DEF unsolved
  <2> QED BY <2>1, <2>2, ThereIsAFirst
<1>5. N \in 0 .. N
  OBVIOUS
<1> QED BY <1>4, <1>5

\* The state a fold leaves, of any acts crossed in any way.
LEMMA EffectsKeep ==
  ASSUME NEW h, Sound(h.base), NEW ids, IsFiniteSet(ids), NEW c
  PROVE  Sound(Effects(h, ids, c).state)
<1> DEFINE N == Cardinality(ids)
           first == [c |-> c, state |-> h.base, late |-> {}]
           after == CHOOSE g : AfterEach(h, c, N, g)
<1>1. N \in Nat
  BY FS_CardinalityType
<1>2. Effects(h, ids, c) = after[N]
  BY DEF Effects, AfterEach
<1> HIDE DEF N
<1>3. \E g : AfterEach(h, c, N, g)
  BY <1>1, EffectsInTurn
<1>4. AfterEach(h, c, N, after)
  BY <1>3
<1> HIDE DEF after
<1>5. after[0] = first /\ \A n \in 1 .. N : after[n] = Effect(h, after[n - 1], c.order[n])
  <2> HIDE DEF first
  <2>1. after = [n \in 0 .. N |-> IF n = 0 THEN first ELSE Effect(h, after[n - 1], c.order[n])]
    BY <1>4 DEF AfterEach, first
  <2>2. \A n \in 0 .. N : after[n] = IF n = 0 THEN first ELSE Effect(h, after[n - 1], c.order[n])
    BY <2>1
  <2> QED BY <1>1, <2>2
<1> DEFINE fine(n) == "state" \in DOMAIN after[n] /\ Sound(after[n].state)
           unsound == {n \in 0 .. N : ~fine(n)}
<1>6. fine(0)
  BY <1>5
<1>7. ASSUME NEW n \in 1 .. N, fine(n - 1)
      PROVE  fine(n)
  BY <1>5, <1>7, EffectKeeps
<1> HIDE DEF fine
<1>8. ASSUME NEW n \in unsound, \A m \in unsound : n <= m
      PROVE  FALSE
  <2>1. n \in 1 .. N /\ n - 1 \in 0 .. N /\ n - 1 \notin unsound
    BY <1>1, <1>6, <1>8
  <2> QED BY <1>7, <1>8, <2>1
<1>9. unsound \in SUBSET Nat /\ (unsound = {} => fine(N))
  BY <1>1
<1> HIDE DEF unsound
<1>10. fine(N)
  BY <1>8, <1>9, ThereIsAFirst
<1> QED BY <1>2, <1>10 DEF fine

LEMMA FoldKeeps ==
  ASSUME NEW h, "base" \in DOMAIN h, Sound(h.base), NEW ids, IsFiniteSet(ids)
  PROVE  Sound(Fold(h, ids).state)
<1>1. ASSUME NEW fold
      PROVE  Sound(FoldWith(h, fold, ids).state)
  <2> DEFINE g == [h EXCEPT !.fold = fold]
  <2>1. Sound(g.base)
    OBVIOUS
  <2> HIDE DEF g
  <2>2. Sound(Effects(g, ids, Crossed(g, Unread(g, ids))).state)
    BY <2>1, EffectsKeep
  <2> QED BY <2>2 DEF FoldWith, Folded, g
<1> QED BY <1>1 DEF Fold

\* One act more is read.
LEMMA ReadingOn ==
  ASSUME NEW h, {"base", "active"} \subseteq DOMAIN h, NEW id
  PROVE  LET to == ReadAct(h, id)
         IN  /\ {"base", "active"} \subseteq DOMAIN to
             /\ to.base = h.base /\ to.active \subseteq h.active \cup {id}
BY DEF ReadAct, Memoed

\* The recursion of Reading has a solution, found one act at a time.
LEMMA ReadingInTurn ==
  ASSUME NEW base, NEW as, NEW desc, NEW side, NEW N \in Nat
  PROVE  \E g : ReadEach(base, as, desc, side, N, g)
<1> DEFINE first == Unfolded(base, as, desc, side)
           next(h, n) == ReadAct(h, n)
           solves(g, m) == g = [n \in 0 .. m |-> IF n = 0 THEN first ELSE next(g[n - 1], n)]
           unsolved == {m \in 0 .. N : \A g : ~solves(g, m)}
<1>1. SUFFICES \E g : solves(g, N)
  BY DEF ReadEach
<1> HIDE DEF first, next
<1>2. solves([n \in 0 .. 0 |-> first], 0)
  OBVIOUS
<1>3. ASSUME NEW m \in 1 .. N, NEW g, solves(g, m - 1)
      PROVE  \E f : solves(f, m)
  <2> DEFINE g2 == [n \in 0 .. m |-> IF n < m THEN g[n] ELSE next(g[m - 1], m)]
  <2>1. solves(g2, m)
    <3>1. \A n \in 0 .. m : g2[n] = IF n = 0 THEN first ELSE next(g2[n - 1], n)
      <4> SUFFICES ASSUME NEW n \in 0 .. m
                   PROVE  g2[n] = IF n = 0 THEN first ELSE next(g2[n - 1], n)
        OBVIOUS
      <4>1. CASE n < m
        <5>1. n \in 0 .. m - 1 /\ (n # 0 => n - 1 \in 0 .. m - 1)
          BY <4>1
        <5>2. g[n] = IF n = 0 THEN first ELSE next(g[n - 1], n)
          BY <1>3, <5>1
        <5>3. g2[n] = g[n] /\ (n # 0 => g2[n - 1] = g[n - 1])
          BY <4>1, <5>1
        <5> QED BY <5>2, <5>3
      <4>2. CASE n = m
        BY <4>2
      <4> QED BY <4>1, <4>2
    <3> QED BY <3>1
  <2> QED BY <2>1
<1> HIDE DEF solves
<1>4. unsolved = {}
  <2>1. ASSUME NEW m \in unsolved, \A j \in unsolved : m <= j
        PROVE  FALSE
    <3>1. m \in 1 .. N /\ m - 1 \in 0 .. N /\ m - 1 \notin unsolved
      BY <1>2, <2>1
    <3>2. PICK g : solves(g, m - 1)
      BY <3>1
    <3> QED BY <1>3, <2>1, <3>1, <3>2
  <2>2. unsolved \in SUBSET Nat
    OBVIOUS
  <2> HIDE DEF unsolved
  <2> QED BY <2>1, <2>2, ThereIsAFirst
<1>5. N \in 0 .. N
  OBVIOUS
<1> QED BY <1>4, <1>5

\* In full, a state is what it was.
LEMMA InFullKeeps ==
  ASSUME NEW st, Sound(st)
  PROVE  Sound(InFull(st))
<1> DEFINE for == Plain(st.readmitted)
           to == InFull(st)
<1>1. DOMAIN for = DOMAIN st.readmitted /\ \A old \in DOMAIN for : for[old] = st.readmitted[old]
  BY DEF Plain
<1> HIDE DEF for
<1>2. /\ DOMAIN to = DOMAIN st /\ to.members = st.members /\ to.removed = st.removed
      /\ to.offices = st.offices /\ DOMAIN to.holding = DOMAIN st.holding /\ to.readmitted = for
  BY DEF InFull, Plain, Sound, for
<1> HIDE DEF to
<1>3. Roster(to.members, to.removed, DOMAIN to.holding, to.readmitted)
  BY <1>1, <1>2 DEF Sound, Roster
<1>4. /\ Shared(to.members, to.readmitted) = Shared(st.members, st.readmitted)
      /\ Doubled(DOMAIN to.holding, to.readmitted) = Doubled(DOMAIN st.holding, st.readmitted)
  BY <1>1, <1>2 DEF Shared, Doubled
<1>5. Fits(to.members, DOMAIN to.holding, to.readmitted)
  BY <1>2, <1>4 DEF Sound, Fits
<1>6. Sound(to)
  BY <1>2, <1>3, <1>5 DEF Sound
<1> QED BY <1>6 DEF to

\* Whatever the acts, however they cross, and whichever way their ids compare.
LEMMA ReadingKeeps ==
  ASSUME NEW base, Sound(base), NEW as \in Seq(Act), NEW desc, NEW side
  PROVE  Sound(Reading(base, as, desc, side).state)
<1> DEFINE N == Len(as)
           first == Unfolded(base, as, desc, side)
           read == CHOOSE g : ReadEach(base, as, desc, side, N, g)
<1>1. N \in Nat
  BY LenProperties
<1>2. Reading(base, as, desc, side) = Finished(read[N])
  BY DEF Reading, History, ReadEach
<1> HIDE DEF N
<1>3. \E g : ReadEach(base, as, desc, side, N, g)
  BY <1>1, ReadingInTurn
<1>4. ReadEach(base, as, desc, side, N, read)
  BY <1>3
<1> HIDE DEF read
<1>5. read[0] = first /\ \A n \in 1 .. N : read[n] = ReadAct(read[n - 1], n)
  <2> HIDE DEF first
  <2>1. read = [n \in 0 .. N |-> IF n = 0 THEN first ELSE ReadAct(read[n - 1], n)]
    BY <1>4 DEF ReadEach, first
  <2>2. \A n \in 0 .. N : read[n] = IF n = 0 THEN first ELSE ReadAct(read[n - 1], n)
    BY <2>1
  <2> QED BY <1>1, <2>2
<1> DEFINE fine(n) == /\ {"base", "active"} \subseteq DOMAIN read[n]
                      /\ read[n].base = base /\ read[n].active \subseteq 1 .. N
           unfit == {n \in 0 .. N : ~fine(n)}
<1>6. fine(0)
  BY <1>5 DEF Unfolded
<1>7. ASSUME NEW n \in 1 .. N, fine(n - 1)
      PROVE  fine(n)
  <2>1. /\ {"base", "active"} \subseteq DOMAIN ReadAct(read[n - 1], n)
        /\ ReadAct(read[n - 1], n).base = read[n - 1].base
        /\ ReadAct(read[n - 1], n).active \subseteq read[n - 1].active \cup {n}
    BY <1>7, ReadingOn
  <2> QED BY <1>5, <1>7, <2>1
<1> HIDE DEF fine
<1>11. ASSUME NEW n \in unfit, \A m \in unfit : n <= m
       PROVE  FALSE
  <2>1. n \in 1 .. N /\ n - 1 \in 0 .. N /\ n - 1 \notin unfit
    BY <1>1, <1>6, <1>11
  <2> QED BY <1>7, <1>11, <2>1
<1>12. unfit \in SUBSET Nat /\ (unfit = {} => fine(N))
  BY <1>1
<1> HIDE DEF unfit
<1>13. fine(N)
  BY <1>11, <1>12, ThereIsAFirst
<1>8. IsFiniteSet(read[N].active)
  <2>1. read[N].active \in SUBSET (1 .. N) /\ IsFiniteSet(1 .. N)
    BY <1>1, <1>13, FS_Interval DEF fine
  <2> QED BY <2>1, FS_Subset
<1>9. Sound(Fold(read[N], read[N].active).state)
  BY <1>8, <1>13, FoldKeeps DEF fine
<1>10. Sound(InFull(Fold(read[N], read[N].active).state))
  BY <1>9, InFullKeeps
<1> QED BY <1>2, <1>10 DEF Finished, ReadAs

-----------------------------------------------------------------------------
(* The specification.                                                      *)

\* The readings are of the acts held, and the acts are statements.
Consistent ==
  /\ unit \in DOMAIN Units
  /\ acts \in Seq(Act)
  /\ readings = Read(acts, follow)

\* The unit a history starts from is sound.
LEMMA FoundedSound ==
  ASSUME NEW u \in Range(Units)
  PROVE  Sound(u.state)
<1> DEFINE st == u.state
           o == st.offices
           founded == UnitState(st.members, o["co"], o["xo"])
<1>1. /\ st = founded
      /\ IsFiniteSet(st.members) /\ Cardinality(st.members) <= Room
      /\ o \in OfficesAmong(st.members)
      /\ o["co"].holder = o["xo"].holder => o["co"].holder = NoKey
  BY GovernanceAssumption
<1>2. /\ {"members", "removed", "offices", "holding", "readmitted"} \subseteq DOMAIN founded
      /\ founded.removed = {} /\ founded.holding = <<>> /\ founded.readmitted = <<>>
  BY DEF UnitState
<1> HIDE DEF founded
<1>3. /\ {"members", "removed", "offices", "holding", "readmitted"} \subseteq DOMAIN st
      /\ st.removed = {} /\ DOMAIN st.holding = {} /\ DOMAIN st.readmitted = {}
  BY <1>1, <1>2
<1>4. Roster(st.members, st.removed, DOMAIN st.holding, st.readmitted)
  BY <1>1, <1>3, FS_EmptySet DEF Roster
<1>5. Shared(st.members, st.readmitted) = {} /\ Doubled(DOMAIN st.holding, st.readmitted) = {}
  BY <1>3 DEF Shared, Doubled
<1>6. Cardinality({}) = 0 /\ Cardinality(st.members) \in Nat
  BY <1>1, FS_EmptySet, FS_CardinalityType
<1>7. Fits(st.members, DOMAIN st.holding, st.readmitted)
  <2>1. /\ Cardinality(DOMAIN st.holding) = 0
        /\ Cardinality(Shared(st.members, st.readmitted)) = 0
        /\ Cardinality(Doubled(DOMAIN st.holding, st.readmitted)) = 0
    <3>1. DOMAIN st.holding = {}
      BY <1>3
    <3> QED BY <1>5, <1>6, <3>1
  <2> QED BY <1>1, <1>6, <2>1, RoomIsNat DEF Fits
<1> QED BY <1>1, <1>3, <1>4, <1>7 DEF Sound

\* An act signed is a statement, whatever it names.
LEMMA SignedAct ==
  ASSUME acts \in Seq(Act), NEW b \in Act, NEW prev \in Parents, NEW vote \in VotesFor(b),
         NEW cos \in SUBSET Nat
  PROVE  [b EXCEPT !.prev = prev, !.vote = vote, !.cos = cos] \in Act
<1>1. DOMAIN acts = 1 .. Len(acts) /\ Len(acts) \in Nat
  BY LenProperties
<1>2. prev \in SUBSET Nat
  <2>1. prev = {0} \/ prev \in SUBSET (1 .. Len(acts))
    BY ZenonT(20) DEF Parents, Root
  <2> QED BY <1>1, <2>1
<1>3. vote \in Nat
  BY <1>1 DEF VotesFor, Root
<1> QED BY <1>2, <1>3 DEF Act

LEMMA StepConsistent ==
  ASSUME Consistent, [Next]_vars
  PROVE  Consistent'
<1> USE DEF Consistent
<1>1. \A b \in Units[unit].menu : b \in Act
  <2>1. Units[unit] \in Range(Units)
    BY DEF Range
  <2> QED BY <2>1, GovernanceAssumption
<1>2. ASSUME NEW b \in Units[unit].menu, NEW prev \in Parents, NEW vote \in VotesFor(b),
             NEW cos \in {b.cos, {}}, Author(b, prev, vote, cos)
      PROVE  Consistent'
  <2> DEFINE x == [b EXCEPT !.prev = prev, !.vote = vote, !.cos = cos]
  <2>1. cos \in SUBSET Nat
    BY <1>1 DEF Act
  <2>2. x \in Act
    BY <1>1, <2>1, SignedAct
  <2> HIDE DEF x
  <2>3. acts' = Append(acts, x) /\ unit' = unit /\ follow' = follow
        /\ readings' = Read(acts', follow)
    BY <1>2 DEF Author, x
  <2>4. acts' \in Seq(Act)
    BY <2>2, <2>3, AppendProperties
  <2> QED BY <2>3, <2>4 DEF Read
<1>3. CASE Authored
  BY <1>2, <1>3 DEF Authored
<1>4. CASE CoSigned
  <2>1. PICK id \in DOMAIN acts, b \in Units[unit].menu :
               /\ acts' = [acts EXCEPT ![id].cos = b.cos]
               /\ readings' = Read(acts', follow) /\ UNCHANGED <<unit, follow, late>>
    BY <1>4 DEF CoSigned
  <2>2. DOMAIN acts = 1 .. Len(acts) /\ Len(acts) \in Nat /\ acts[id] \in Act
    BY LenProperties, ElementOfSeq
  <2>3. [acts[id] EXCEPT !.cos = b.cos] \in Act
    BY <1>1, <2>2 DEF Act
  <2>4. acts' = [acts EXCEPT ![id] = [acts[id] EXCEPT !.cos = b.cos]]
    BY <2>1
  <2>5. acts' \in Seq(Act)
    BY <2>2, <2>3, <2>4, ExceptSeq
  <2> QED BY <2>1, <2>5 DEF Read
<1>5. CASE Follow
  BY <1>5 DEF Follow, Read
<1>6. CASE UNCHANGED vars
  BY <1>6 DEF vars, Read
<1> QED BY <1>3, <1>4, <1>5, <1>6 DEF Next

LEMMA StaysConsistent == Spec => []Consistent
<1>1. Init => Consistent
  BY EmptySeq DEF Init, Consistent
<1>2. Consistent /\ [Next]_vars => Consistent'
  BY StepConsistent
<1> QED BY <1>1, <1>2, PTL DEF Spec

\* A sound state is one whose electorate passes the room by no more than the
\* places that count twice.
LEMMA SoundCounts ==
  ASSUME NEW st, Sound(st)
  PROVE  Cardinality(ElectorateOf(st)) <= Room + Cardinality(CountedTwice(st))
<1> DEFINE M == st.members
           H == DOMAIN st.holding
           for == st.readmitted
           E == ElectorateOf(st)
           W == CountedTwice(st)
<1>1. Roster(M, st.removed, H, for) /\ Fits(M, H, for)
  BY DEF Sound
<1>2. E = (M \ Range(for)) \cup H
  BY DEF ElectorateOf
<1>3. W \in SUBSET DOMAIN for
  BY DEF CountedTwice
<1>4. Doubled(H, for) \subseteq W
  BY <1>1, <1>2 DEF Doubled, CountedTwice, Roster
<1> HIDE DEF M, H, for, E, W
<1>5. Cardinality(E) <= Room + Cardinality(W)
  BY <1>1, <1>2, <1>3, <1>4, ElectorateFits
<1> QED BY <1>5 DEF E, W

\* Whatever acts are signed, on whatever states they name, in whatever order
\* they cross, and however late a second signature comes, the unit every phone
\* reads from them is sound (governance.ts: evaluate).
THEOREM UnitStaysSound == Spec => []UnitIsSound
<1>1. Consistent => UnitIsSound
  <2> SUFFICES ASSUME Consistent, NEW desc \in BOOLEAN
               PROVE  LET st == State(desc) IN
                      /\ \A o \in Offices : st.offices[o].holder \in st.members \cup {NoKey}
                      /\ st.offices["co"].holder = st.offices["xo"].holder => st.offices["co"].holder = NoKey
                      /\ Cardinality(st.members) <= Room
                      /\ Cardinality(ElectorateOf(st)) <= Room + Cardinality(CountedTwice(st))
                      /\ st.members \cap st.removed = {} /\ DOMAIN st.holding \subseteq st.removed
    BY DEF UnitIsSound
  <2> DEFINE st == State(desc)
  <2>1. Sound(Units[unit].state)
    BY FoundedSound DEF Consistent, Range
  <2>2. st = Reading(Units[unit].state, acts, desc, follow).state
    BY DEF Consistent, State, Read
  <2>3. Sound(st)
    BY <2>1, <2>2, ReadingKeeps DEF Consistent
  <2> HIDE DEF st
  <2>4. Cardinality(ElectorateOf(st)) <= Room + Cardinality(CountedTwice(st))
    BY <2>3, SoundCounts
  <2>5. \A o \in Offices : st.offices[o].holder \in st.members \cup {NoKey}
    BY <2>3 DEF Sound, OfficesAmong
  <2>6. /\ st.offices["co"].holder = st.offices["xo"].holder => st.offices["co"].holder = NoKey
        /\ Cardinality(st.members) <= Room
        /\ st.members \cap st.removed = {} /\ DOMAIN st.holding \subseteq st.removed
    BY <2>3 DEF Sound, Roster, Fits
  <2> QED BY <2>4, <2>5, <2>6 DEF st
<1> QED BY <1>1, StaysConsistent, PTL


-----------------------------------------------------------------------------
(* A fold of some acts depends on those acts, and on what each of them was  *)
(* read as on its own ancestry: not on what else is held.                   *)

Fields == {"base", "acts", "anc", "desc", "follow", "memo", "active", "fold"}

\* Two histories in which the acts of S are the same, and were read alike.
Alike(h, k, S) ==
  /\ Fields \subseteq DOMAIN h /\ Fields \subseteq DOMAIN k
  /\ h.base = k.base /\ h.anc = k.anc /\ h.desc = k.desc /\ h.follow = k.follow /\ h.fold = k.fold
  /\ \A id \in S : h.acts[id] = k.acts[id] /\ h.memo[id] = k.memo[id]

LEMMA ActsAlike ==
  ASSUME NEW h, NEW k, NEW S, Alike(h, k, S)
  PROVE  /\ \A id \in S : /\ h.acts[id] = k.acts[id] /\ h.memo[id] = k.memo[id]
                          /\ StateOf(h, id) = StateOf(k, id) /\ Chosen(h, id) = Chosen(k, id)
                          /\ SignersOf(h, id) = SignersOf(k, id)
                          /\ Beside(h, id) = Beside(k, id) /\ OfficeOf(h, id) = OfficeOf(k, id)
         /\ \A a, b : Conc(h, a, b) <=> Conc(k, a, b)
         /\ h.anc = k.anc /\ h.follow = k.follow /\ h.desc = k.desc
<1>1. \A a, b : Conc(h, a, b) <=> Conc(k, a, b)
  BY DEF Alike, Conc
<1>2. \A id \in S : /\ h.acts[id] = k.acts[id] /\ h.memo[id] = k.memo[id]
                    /\ StateOf(h, id) = StateOf(k, id) /\ Chosen(h, id) = Chosen(k, id)
  BY DEF Alike, StateOf, Chosen
<1>3. \A id \in S : SignersOf(h, id) = SignersOf(k, id) /\ OfficeOf(h, id) = OfficeOf(k, id)
  BY <1>2 DEF SignersOf, OfficeOf
<1>4. \A id \in S : Beside(h, id) = Beside(k, id)
  BY <1>1 DEF Beside, Alike
<1> QED BY <1>1, <1>2, <1>3, <1>4 DEF Alike

LEMMA CopiesAlike ==
  ASSUME NEW h, NEW k, NEW S, Alike(h, k, S), NEW live \in SUBSET S
  PROVE  \A a \in live : /\ Copies(h, live, a) = Copies(k, live, a)
                         /\ \A x : Knew(h, live, x, a) <=> Knew(k, live, x, a)
<1>1. \A a \in live : Copies(h, live, a) = Copies(k, live, a)
  BY ActsAlike DEF Copies
<1> QED BY <1>1, ActsAlike DEF Knew

LEMMA R10Alike ==
  ASSUME NEW h, NEW k, NEW S, Alike(h, k, S), NEW c, c.ids \subseteq S
  PROVE  R10(h, c) = R10(k, c)
<1> DEFINE live == Live(c)
           cosigned(g) == {y \in live : Chosen(g, y) # {}}
           struck(g) == {x \in live : /\ OneKey(g, x)
                                      /\ \E y \in cosigned(g) \ {x} :
                                            /\ g.acts[y].by = g.acts[x].by
                                            /\ Conc(g, x, y) /\ ~Saw(g, live, x, y)}
<1>1. live \in SUBSET S
  BY DEF Live
<1>2. cosigned(h) = cosigned(k)
  BY <1>1, ActsAlike
<1>3. \A x \in live : OneKey(h, x) <=> OneKey(k, x)
  BY <1>1, ActsAlike DEF OneKey
<1>4. \A x, y : Saw(h, live, x, y) <=> Saw(k, live, x, y)
  BY ActsAlike DEF Saw
<1>5. struck(h) = struck(k)
  BY <1>1, <1>2, <1>3, <1>4, ActsAlike
<1> QED BY <1>5 DEF R10

LEMMA R0Alike ==
  ASSUME NEW h, NEW k, NEW S, Alike(h, k, S), NEW c, c.ids \subseteq S
  PROVE  R0(h, c) = R0(k, c)
<1> DEFINE live == Live(c)
           removals(g) == {id \in live : g.acts[id].t = "remove"}
           pairs(g) == {q \in removals(g) \X removals(g) : q[1] # q[2] /\ Opposed(g, q[1], q[2])}
<1>1. live \in SUBSET S
  BY DEF Live
<1>2. removals(h) = removals(k) /\ removals(h) \subseteq S
  BY <1>1, ActsAlike
<1>3. \A a, b \in S : Opposed(h, a, b) <=> Opposed(k, a, b)
  BY ActsAlike DEF Opposed
<1>4. \A a, b \in S : BuiltOn(h, live, a, b) <=> BuiltOn(k, live, a, b)
  BY <1>1, ActsAlike DEF BuiltOn
<1>5. pairs(h) = pairs(k) /\ pairs(h) \subseteq S \X S
  BY <1>2, <1>3
<1> HIDE DEF pairs, live
<1> DEFINE lost(g) == {p[2] : p \in {q \in pairs(g) : BuiltOn(g, live, q[1], q[2])
                                                    /\ ~BuiltOn(g, live, q[2], q[1])}}
           split(g) == {q \in pairs(g) : BuiltOn(g, live, q[1], q[2]) <=> BuiltOn(g, live, q[2], q[1])}
           notFollowed(g) == {p[2] : p \in {q \in split(g) : q[1] = g.follow}}
           neither(g) == {p[1] : p \in {q \in split(g) : g.follow \notin {q[1], q[2]}}} \ {g.follow}
<1>6. lost(h) = lost(k)
  BY <1>4, <1>5
<1>7. split(h) = split(k)
  BY <1>4, <1>5
<1>8. notFollowed(h) = notFollowed(k) /\ neither(h) = neither(k)
  BY <1>7, ActsAlike
<1> HIDE DEF lost, split, notFollowed, neither
<1>9. \A g : R0(g, c) =
         [Strike(Strike(Strike(c, neither(g), "split"), notFollowed(g), "split-not-followed"),
                 lost(g), "removal-wins")
            EXCEPT !.branch = @ \cup ((neither(g) \cup notFollowed(g)) \ lost(g)), !.splits = split(g)]
  BY DEF R0, lost, split, notFollowed, neither, pairs, live
<1> QED BY <1>6, <1>7, <1>8, <1>9

LEMMA R1Alike ==
  ASSUME NEW h, NEW k, NEW S, Alike(h, k, S), NEW c, c.ids \subseteq S
  PROVE  R1(h, c) = R1(k, c)
<1> DEFINE live == Live(c)
           settled(g) == {g.acts[a].vote : a \in {b \in live : g.acts[b].t \in {"result", "recall"}}}
           votes(g) == {id \in live : g.acts[id].t \in {"open", "petition"}}
           struck(g) == {a \in votes(g) \ settled(g) :
                            \E b \in votes(g) : Conc(g, a, b) /\ SameVote(g.acts[a], g.acts[b])}
<1>1. live \in SUBSET S
  BY DEF Live
<1>2. settled(h) = settled(k) /\ votes(h) = votes(k)
  BY <1>1, ActsAlike
<1>3. struck(h) = struck(k)
  BY <1>1, <1>2, ActsAlike
<1> QED BY <1>3 DEF R1

LEMMA R2Alike ==
  ASSUME NEW h, NEW k, NEW S, Alike(h, k, S), NEW c, c.ids \subseteq S
  PROVE  R2(h, c) = R2(k, c)
<1> DEFINE live == Live(c)
           results(g) == {id \in live : g.acts[id].t = "result"}
           rivals(g) == {q \in results(g) \X results(g) :
                           /\ Conc(g, q[1], q[2])
                           /\ ~Knew(g, live, q[1], q[2]) /\ ~Knew(g, live, q[2], q[1])}
<1>1. live \in SUBSET S
  BY DEF Live
<1>2. results(h) = results(k)
  BY <1>1, ActsAlike
<1>3. rivals(h) = rivals(k) /\ rivals(h) \subseteq live \X live
  BY <1>1, <1>2, ActsAlike, CopiesAlike
<1> HIDE DEF rivals, live
<1> DEFINE crossed(g) == {p[1] : p \in {q \in rivals(g) : OfficeOf(g, q[1]) = OfficeOf(g, q[2])
                                                        /\ g.acts[q[1]].key # g.acts[q[2]].key}}
           both(g) == {p[1] : p \in {q \in rivals(g) : OfficeOf(g, q[1]) = "xo" /\ OfficeOf(g, q[2]) = "co"
                                                       /\ g.acts[q[1]].key = g.acts[q[2]].key}}
<1>4. \A q \in rivals(h) : q[1] \in S /\ q[2] \in S
  BY <1>1, <1>3
<1>5. crossed(h) = crossed(k)
  BY <1>3, <1>4, ActsAlike
<1>6. both(h) = both(k)
  BY <1>3, <1>4, ActsAlike
<1> HIDE DEF crossed, both
<1>7. \A g : R2(g, c) = Strike(Strike(c, both(g), "office-conflict"), crossed(g), "crossed-results")
  BY DEF R2, crossed, both, rivals, live
<1> QED BY <1>5, <1>6, <1>7

LEMMA R3Alike ==
  ASSUME NEW h, NEW k, NEW S, Alike(h, k, S), NEW c, c.ids \subseteq S
  PROVE  R3(h, c) = R3(k, c)
<1> DEFINE live == Live(c)
           struck(g) == {x \in live : /\ g.acts[x].t = "remove"
                                      /\ \E r \in live : /\ g.acts[r].t = "result"
                                                         /\ g.acts[r].key = g.acts[x].key
                                                         /\ Conc(g, x, r) /\ ~Knew(g, live, x, r)}
<1>1. live \in SUBSET S
  BY DEF Live
<1>2. struck(h) = struck(k)
  BY <1>1, ActsAlike, CopiesAlike
<1> QED BY <1>2 DEF R3

LEMMA TenureAlike ==
  ASSUME NEW h, NEW k, NEW S, Alike(h, k, S)
  PROVE  \A id \in S : \A key : EndsTenure(h, id, key) <=> EndsTenure(k, id, key)
<1>1. \A id \in S : AfterOf(h, id) = AfterOf(k, id)
  BY ActsAlike DEF AfterOf
<1> QED BY <1>1, ActsAlike DEF EndsTenure

LEMMA R4Alike ==
  ASSUME NEW h, NEW k, NEW S, Alike(h, k, S), NEW c, c.ids \subseteq S
  PROVE  R4(h, c) = R4(k, c)
<1> DEFINE live == Live(c)
           changes(g) == {id \in live : g.acts[id].t \in {"result", "recall", "vacate"}}
           signers(g, y) == {g.acts[y].by} \cup g.memo[y].seconds
           vouched(g, d, y) == \E b \in Copies(g, live, d) :
                                  g.acts[b].by \notin signers(g, y) /\ y \in g.anc[b]
           holders(g, y) == {x \in signers(g, y) : IsOfficer(StateOf(g, y), x)}
           ended(g, y) == holders(g, y) # {} /\ \A x \in holders(g, y) :
                              \E d \in changes(g) : /\ Conc(g, d, y) /\ EndsTenure(g, d, x)
                                                    /\ ~vouched(g, d, y)
           struck(g) == {y \in live : /\ g.acts[y].t \in {"admit", "remove"}
                                      /\ NeedsAuthority(g.acts[y], StateOf(g, y)) /\ ended(g, y)}
<1>1. live \in SUBSET S
  BY DEF Live
<1>2. changes(h) = changes(k)
  BY <1>1, ActsAlike
<1>3. \A y \in live : signers(h, y) = signers(k, y)
  BY <1>1, ActsAlike
<1>4. \A y \in live : holders(h, y) = holders(k, y)
  BY <1>1, <1>3, ActsAlike
<1>5. \A d, y \in live : vouched(h, d, y) <=> vouched(k, d, y)
  <2> SUFFICES ASSUME NEW d \in live, NEW y \in live
               PROVE  vouched(h, d, y) <=> vouched(k, d, y)
    OBVIOUS
  <2>1. Copies(h, live, d) = Copies(k, live, d) /\ Copies(h, live, d) \subseteq live
    BY <1>1, CopiesAlike DEF Copies
  <2>2. \A b \in live : h.acts[b] = k.acts[b]
    BY <1>1, ActsAlike
  <2>3. h.anc = k.anc
    BY ActsAlike
  <2>4. signers(h, y) = signers(k, y)
    BY <1>3
  <2> HIDE DEF live, signers
  <2> QED BY <2>1, <2>2, <2>3, <2>4
<1>6. \A y \in live : ended(h, y) <=> ended(k, y)
  <2> SUFFICES ASSUME NEW y \in live
               PROVE  ended(h, y) <=> ended(k, y)
    OBVIOUS
  <2> HIDE DEF vouched, holders
  <2>1. \A x : \A d \in changes(h) : EndsTenure(h, d, x) <=> EndsTenure(k, d, x)
    BY <1>1, TenureAlike
  <2>2. \A d \in changes(h) : vouched(h, d, y) <=> vouched(k, d, y)
    BY <1>5
  <2> HIDE DEF changes
  <2> QED BY <1>2, <1>4, <2>1, <2>2, ActsAlike
<1> HIDE DEF ended
<1>7. struck(h) = struck(k)
  BY <1>1, <1>6, ActsAlike
<1> QED BY <1>7 DEF R4, ended

LEMMA R5Alike ==
  ASSUME NEW h, NEW k, NEW S, Alike(h, k, S), NEW c, c.ids \subseteq S
  PROVE  R5(h, c) = R5(k, c)
<1> DEFINE live == Live(c)
           removals(g) == {id \in live : g.acts[id].t \in {"remove", "leave"}}
           out(g, y, x, cosigner) == \E r \in removals(g) : TakesOut(g, r, y, x, cosigner)
           struck(g) == {y \in live :
                            /\ g.acts[y].t \notin Votes
                            /\ \/ out(g, y, g.acts[y].by, FALSE)
                               \/ /\ g.memo[y].seconds # {}
                                  /\ \A x \in g.memo[y].seconds : out(g, y, x, TRUE)}
<1>1. live \in SUBSET S
  BY DEF Live
<1>2. removals(h) = removals(k)
  BY <1>1, ActsAlike
<1>3. \A r \in live : \A y, x, cosigner : TakesOut(h, r, y, x, cosigner) <=> TakesOut(k, r, y, x, cosigner)
  BY <1>1, ActsAlike DEF TakesOut
<1>4. \A y, x, cosigner : out(h, y, x, cosigner) <=> out(k, y, x, cosigner)
  BY <1>2, <1>3
<1> HIDE DEF out
<1>5. \A y \in live : h.acts[y] = k.acts[y] /\ h.memo[y] = k.memo[y]
  BY <1>1, ActsAlike
<1> HIDE DEF live
<1>6. struck(h) = struck(k)
  BY <1>4, <1>5
<1> QED BY <1>6 DEF R5, out, live

LEMMA R6Alike ==
  ASSUME NEW h, NEW k, NEW S, Alike(h, k, S), NEW c, c.ids \subseteq S
  PROVE  R6(h, c) = R6(k, c)
<1> DEFINE live == Live(c)
           joins(g) == {id \in live : g.acts[id].t = "admit"}
           beside(g, a) == {b \in joins(g) : b = a \/ Conc(g, a, b)}
           leader(g, a) == IF IsOfficer(StateOf(g, a), g.acts[a].by) THEN NoKey ELSE g.acts[a].readmits
           fresh(g, a) == {g.acts[b].key : b \in beside(g, a)} \ StateOf(g, a).members
           freed(g, a) == {g.acts[b].readmits : b \in beside(g, a)} \cap
                             (DOMAIN StateOf(g, a).holding \ DOMAIN StateOf(g, a).readmitted)
           struck(g) == {a \in joins(g) :
                            \/ leader(g, a) # NoKey /\ \E b \in beside(g, a) \ {a} : leader(g, b) = leader(g, a)
                            \/ SeatsTaken(StateOf(g, a), NoKey) - Cardinality(freed(g, a))
                                 + Cardinality(fresh(g, a)) > Room}
<1>1. live \in SUBSET S
  BY DEF Live
<1>2. joins(h) = joins(k) /\ joins(h) \subseteq S
  BY <1>1, ActsAlike
<1>3. \A a : beside(h, a) = beside(k, a) /\ beside(h, a) \subseteq joins(h)
  BY <1>2, ActsAlike
<1>4. \A a \in joins(h) : leader(h, a) = leader(k, a)
  BY <1>2, ActsAlike
<1> HIDE DEF joins, beside
<1>5. \A a \in joins(h) : fresh(h, a) = fresh(k, a) /\ freed(h, a) = freed(k, a)
  BY <1>2, <1>3, ActsAlike
<1> HIDE DEF leader, fresh, freed
<1>6. struck(h) = struck(k)
  BY <1>2, <1>3, <1>4, <1>5, ActsAlike
<1> QED BY <1>6 DEF R6, joins, beside, leader, fresh, freed

\* A fold in progress: of `ids', in `order'.
Crossing(c, ids, order) ==
  {"ids", "order", "v", "branch", "splits"} \subseteq DOMAIN c /\ c.ids = ids /\ c.order = order

MarkEach(h, order, c, g) ==
  g = [n \in 0 .. Len(order) |-> IF n = 0 THEN c ELSE Marked(h, g[n - 1], order[n])]
JudgeEach(h, order, start, g) ==
  g = [n \in 0 .. Len(order) |-> IF n = 0 THEN start ELSE Judged(h, g[n - 1], order[n])]

LEMMA JudgedAlike ==
  ASSUME NEW h, NEW k, NEW S, Alike(h, k, S), NEW c, NEW id \in S
  PROVE  Marked(h, c, id) = Marked(k, c, id) /\ Judged(h, c, id) = Judged(k, c, id)
<1>1. h.acts[id] = k.acts[id] /\ h.memo[id] = k.memo[id] /\ h.anc = k.anc /\ h.fold = k.fold
  BY DEF Alike
<1>2. HoldsOn(h, c, id) <=> HoldsOn(k, c, id)
  BY <1>1 DEF HoldsOn
<1>3. \A among : Undermined(h, c, id, among) <=> Undermined(k, c, id, among)
  BY <1>1 DEF Undermined
<1>4. Rejudged(h, c, id) = Rejudged(k, c, id)
  BY <1>1, <1>2, <1>3 DEF Rejudged
<1> QED BY <1>1, <1>4 DEF Marked, Judged

LEMMA MarkedAlike ==
  ASSUME NEW h, NEW k, NEW S, Alike(h, k, S), NEW c, \A n \in 1 .. Len(c.order) : c.order[n] \in S
  PROVE  MarkBranch(h, c) = MarkBranch(k, c)
<1> DEFINE marks(g) == CHOOSE f : MarkEach(g, c.order, c, f)
<1>1. \A f, n : n \in 0 .. Len(c.order) /\ n # 0 => Marked(h, f[n - 1], c.order[n]) = Marked(k, f[n - 1], c.order[n])
  BY JudgedAlike
<1>2. \A f : MarkEach(h, c.order, c, f) <=> MarkEach(k, c.order, c, f)
  BY <1>1 DEF MarkEach
<1>3. marks(h) = marks(k)
  BY <1>2
<1>4. \A g : MarkBranch(g, c) = marks(g)[Len(c.order)]
  BY DEF MarkBranch, MarkEach
<1> HIDE DEF marks
<1> QED BY <1>3, <1>4

LEMMA JudgingAlike ==
  ASSUME NEW h, NEW k, NEW S, Alike(h, k, S), NEW c, \A n \in 1 .. Len(c.order) : c.order[n] \in S
  PROVE  JudgeInOrder(h, c) = JudgeInOrder(k, c)
<1> DEFINE judges(g) == CHOOSE f : JudgeEach(g, c.order, MarkBranch(g, c), f)
<1>1. \A f, n : n \in 0 .. Len(c.order) /\ n # 0 => Judged(h, f[n - 1], c.order[n]) = Judged(k, f[n - 1], c.order[n])
  BY JudgedAlike
<1>2. MarkBranch(h, c) = MarkBranch(k, c)
  BY MarkedAlike
<1>3. \A f, s : JudgeEach(h, c.order, s, f) <=> JudgeEach(k, c.order, s, f)
  BY <1>1 DEF JudgeEach
<1>4. judges(h) = judges(k)
  BY <1>2, <1>3
<1>5. \A g : JudgeInOrder(g, c) = judges(g)[Len(c.order)]
  BY DEF JudgeInOrder, JudgeEach
<1> HIDE DEF judges
<1> QED BY <1>4, <1>5

LEMMA CascadeAlike ==
  ASSUME NEW h, NEW k, NEW S, Alike(h, k, S), NEW c, \A n \in 1 .. Len(c.order) : c.order[n] \in S
  PROVE  Cascade(h, c) = Cascade(k, c)
<1>1. JudgeInOrder(h, c) = JudgeInOrder(k, c)
  BY JudgingAlike
<1> QED BY <1>1 DEF Cascade

LEMMA StrikeKeeps ==
  ASSUME NEW ids, NEW order, NEW c, Crossing(c, ids, order), NEW struck, NEW reason
  PROVE  Crossing(Strike(c, struck, reason), ids, order)
BY DEF Strike, Crossing

LEMMA CascadeKeeps ==
  ASSUME NEW ids, NEW order, NEW c, Crossing(c, ids, order), NEW h
  PROVE  Crossing(Cascade(h, c), ids, order)
<1>1. \A done : Crossing(Revised(c, done), ids, order)
  BY DEF Revised, Crossing
<1> QED BY <1>1 DEF Cascade

LEMMA RulesKeep ==
  ASSUME NEW ids, NEW order, NEW c, Crossing(c, ids, order), NEW h
  PROVE  /\ Crossing(R10(h, c), ids, order) /\ Crossing(R0(h, c), ids, order)
         /\ Crossing(R1(h, c), ids, order) /\ Crossing(R2(h, c), ids, order)
         /\ Crossing(R3(h, c), ids, order) /\ Crossing(R4(h, c), ids, order)
         /\ Crossing(R5(h, c), ids, order) /\ Crossing(R6(h, c), ids, order)
<1>1. Crossing(R10(h, c), ids, order) /\ Crossing(R1(h, c), ids, order)
  BY StrikeKeeps DEF R10, R1
<1>2. Crossing(R3(h, c), ids, order) /\ Crossing(R4(h, c), ids, order)
  BY StrikeKeeps DEF R3, R4
<1>3. Crossing(R5(h, c), ids, order) /\ Crossing(R6(h, c), ids, order)
  BY StrikeKeeps DEF R5, R6
<1>4. \E s1, s2, r1, r2 : R2(h, c) = Strike(Strike(c, s1, r1), s2, r2)
  BY DEF R2
<1>5. Crossing(R2(h, c), ids, order)
  BY <1>4, StrikeKeeps
<1>6. \E s1, s2, s3, b, p : R0(h, c) =
        [Strike(Strike(Strike(c, s1, "split"), s2, "split-not-followed"), s3, "removal-wins")
           EXCEPT !.branch = b, !.splits = p]
  BY DEF R0
<1>7. Crossing(R0(h, c), ids, order)
  <2>1. PICK s1, s2, s3, b, p : R0(h, c) =
          [Strike(Strike(Strike(c, s1, "split"), s2, "split-not-followed"), s3, "removal-wins")
             EXCEPT !.branch = b, !.splits = p]
    BY <1>6
  <2> DEFINE d == Strike(Strike(Strike(c, s1, "split"), s2, "split-not-followed"), s3, "removal-wins")
  <2>2. Crossing(d, ids, order)
    BY StrikeKeeps
  <2> HIDE DEF d
  <2>3. R0(h, c) = [d EXCEPT !.branch = b, !.splits = p]
    BY <2>1 DEF d
  <2> QED BY <2>2, <2>3 DEF Crossing
<1> QED BY <1>1, <1>2, <1>3, <1>5, <1>7

LEMMA CrossedAlike ==
  ASSUME NEW h, NEW k, NEW S, Alike(h, k, S), NEW ids \in SUBSET S, NEW order,
         \A n \in 1 .. Len(order) : order[n] \in S, NEW c, Crossing(c, ids, order)
  PROVE  Crossed(h, c) = Crossed(k, c) /\ Crossing(Crossed(h, c), ids, order)
<1> DEFINE good(d) == Crossing(d, ids, order)
<1>1. ASSUME NEW d, good(d)
      PROVE  Cascade(h, d) = Cascade(k, d) /\ good(Cascade(h, d))
  BY <1>1, CascadeAlike, CascadeKeeps DEF Crossing
<1>2. ASSUME NEW d, good(d)
      PROVE  d.ids \subseteq S
  BY <1>2 DEF Crossing
<1> HIDE DEF good
<1>3. ASSUME NEW d, good(d)
      PROVE  /\ R10(h, d) = R10(k, d) /\ R0(h, d) = R0(k, d) /\ R1(h, d) = R1(k, d) /\ R2(h, d) = R2(k, d)
             /\ R3(h, d) = R3(k, d) /\ R4(h, d) = R4(k, d) /\ R5(h, d) = R5(k, d) /\ R6(h, d) = R6(k, d)
  BY <1>2, <1>3, R10Alike, R0Alike, R1Alike, R2Alike, R3Alike, R4Alike, R5Alike, R6Alike
<1>4. ASSUME NEW d, good(d)
      PROVE  /\ good(R10(h, d)) /\ good(R0(h, d)) /\ good(R1(h, d)) /\ good(R2(h, d))
             /\ good(R3(h, d)) /\ good(R4(h, d)) /\ good(R5(h, d)) /\ good(R6(h, d))
  BY <1>4, RulesKeep DEF good
<1>5. ASSUME NEW d, good(d)
      PROVE  SidesCrossed(h, d) = SidesCrossed(k, d) /\ good(SidesCrossed(h, d))
  <2>1. Cascade(h, d) = Cascade(k, d) /\ good(Cascade(h, d))
    BY <1>1, <1>5
  <2>2. Cascade(h, R10(h, Cascade(h, d))) = Cascade(k, R10(k, Cascade(k, d)))
           /\ good(Cascade(h, R10(h, Cascade(h, d))))
    BY <1>1, <1>3, <1>4, <2>1
  <2> QED BY <1>1, <1>3, <1>4, <2>2 DEF SidesCrossed
<1>6. ASSUME NEW d, good(d)
      PROVE  VotesCrossed(h, d) = VotesCrossed(k, d) /\ good(VotesCrossed(h, d))
  <2>1. Cascade(h, R1(h, d)) = Cascade(k, R1(k, d)) /\ good(Cascade(h, R1(h, d)))
    BY <1>1, <1>3, <1>4, <1>6
  <2>2. Cascade(h, R2(h, Cascade(h, R1(h, d)))) = Cascade(k, R2(k, Cascade(k, R1(k, d))))
           /\ good(Cascade(h, R2(h, Cascade(h, R1(h, d)))))
    BY <1>1, <1>3, <1>4, <2>1
  <2> QED BY <1>1, <1>3, <1>4, <2>2 DEF VotesCrossed
<1>7. ASSUME NEW d, good(d)
      PROVE  RosterCrossed(h, d) = RosterCrossed(k, d) /\ good(RosterCrossed(h, d))
  <2>1. Cascade(h, R4(h, d)) = Cascade(k, R4(k, d)) /\ good(Cascade(h, R4(h, d)))
    BY <1>1, <1>3, <1>4, <1>7
  <2>2. Cascade(h, R5(h, Cascade(h, R4(h, d)))) = Cascade(k, R5(k, Cascade(k, R4(k, d))))
           /\ good(Cascade(h, R5(h, Cascade(h, R4(h, d)))))
    BY <1>1, <1>3, <1>4, <2>1
  <2> DEFINE d5 == Cascade(h, R5(h, Cascade(h, R4(h, d))))
  <2>3. good(d5) /\ d5 = Cascade(k, R5(k, Cascade(k, R4(k, d))))
    BY <2>2
  <2> HIDE DEF d5
  <2>4. Cascade(h, R6(h, d5)) = Cascade(k, R6(k, d5)) /\ good(Cascade(h, R6(h, d5)))
    BY <1>1, <1>3, <1>4, <2>3
  <2> QED BY <2>3, <2>4 DEF RosterCrossed, d5
<1>8. SidesCrossed(h, c) = SidesCrossed(k, c) /\ good(SidesCrossed(h, c))
  BY <1>5 DEF good
<1>9. VotesCrossed(h, SidesCrossed(h, c)) = VotesCrossed(k, SidesCrossed(k, c))
        /\ good(VotesCrossed(h, SidesCrossed(h, c)))
  BY <1>6, <1>8
<1>10. Crossed(h, c) = Crossed(k, c) /\ good(Crossed(h, c))
  BY <1>7, <1>9 DEF Crossed
<1> QED BY <1>10 DEF good

-----------------------------------------------------------------------------
(* The linear order of acts, each built on earlier ones, places each once.  *)

\* Counting up.
LEMMA NoneIsLeft ==
  ASSUME NEW N \in Nat, NEW S \in SUBSET (0 .. N), 0 \notin S,
         \A m \in 1 .. N : m - 1 \notin S => m \notin S
  PROVE  S = {}
<1>1. ASSUME NEW m \in S, \A j \in S : m <= j
      PROVE  FALSE
  <2>1. m \in 1 .. N /\ m - 1 \notin S
    BY <1>1
  <2> QED BY <1>1, <2>1
<1>2. S \in SUBSET Nat
  OBVIOUS
<1> QED BY <1>1, <1>2, ThereIsAFirst

LEMMA ThereIsALast ==
  ASSUME NEW N \in Nat, NEW S \in SUBSET (0 .. N), S # {}
  PROVE  \E i \in S : \A j \in S : j <= i
<1> DEFINE T == {N - i : i \in S}
<1>1. T \in SUBSET Nat /\ T # {}
  <2>1. \A i \in S : N - i \in Nat
    OBVIOUS
  <2> QED BY <2>1
<1>2. PICK t \in T : \A u \in T : t <= u
  BY <1>1, ThereIsAFirst
<1>3. PICK i \in S : t = N - i
  BY <1>2
<1>4. \A j \in S : N - i <= N - j
  BY <1>2, <1>3
<1> QED BY <1>4

\* Of some acts that are ready, one precedes the others.
LEMMA OnePrecedes ==
  ASSUME NEW N \in Nat, NEW S \in SUBSET (1 .. N), S # {}, NEW class, \A a \in S : class[a] \in Nat,
         NEW desc
  PROVE  \E a \in S : \A b \in S \ {a} : Precedes(class, desc, a, b)
<1> DEFINE classes == {class[a] : a \in S}
<1>1. PICK m \in classes : \A j \in classes : m <= j
  <2>1. classes \in SUBSET Nat /\ classes # {}
    OBVIOUS
  <2> HIDE DEF classes
  <2> QED BY <2>1, ThereIsAFirst
<1> DEFINE tier == {a \in S : class[a] = m}
<1>2. tier # {} /\ tier \in SUBSET (0 .. N) /\ tier \in SUBSET Nat
  <2>1. \E a \in S : class[a] = m
    BY <1>1
  <2>2. S \in SUBSET (0 .. N) /\ S \in SUBSET Nat
    OBVIOUS
  <2> QED BY <2>1, <2>2
<1>3. \A a \in tier : \A b \in S \ tier : class[a] < class[b]
  <2>1. \A b \in S : class[b] \in Nat /\ class[b] \in classes
    OBVIOUS
  <2>2. m \in Nat /\ \A b \in S : m <= class[b]
    BY <1>1, <2>1
  <2> QED BY <2>1, <2>2
<1>4. CASE desc
  <2>1. PICK a \in tier : \A b \in tier : b <= a
    BY <1>2, ThereIsALast
  <2>2. \A b \in tier \ {a} : a > b
    BY <1>2, <2>1
  <2> QED BY <1>3, <1>4, <2>1, <2>2 DEF Precedes
<1>5. CASE ~desc
  <2>1. PICK a \in tier : \A b \in tier : a <= b
    BY <1>2, ThereIsAFirst
  <2>2. \A b \in tier \ {a} : a < b
    BY <1>2, <2>1
  <2> QED BY <1>3, <1>5, <2>1, <2>2 DEF Precedes
<1> QED BY <1>4, <1>5

Ready(prevs, left) == {id \in left : prevs[id] \cap left = {}}
First(prevs, class, desc, left) ==
  CHOOSE a \in Ready(prevs, left) : \A b \in Ready(prevs, left) \ {a} : Precedes(class, desc, a, b)
PlaceEach(ids, prevs, class, desc, N, g) ==
  g = [n \in 0 .. N |-> IF n = 0 THEN <<>>
                        ELSE Append(g[n - 1], First(prevs, class, desc, ids \ Range(g[n - 1])))]

LEMMA FirstIsOne ==
  ASSUME NEW N \in Nat, NEW left \in SUBSET (1 .. N), left # {},
         NEW class, \A a \in left : class[a] \in Nat,
         NEW prevs, \A id \in left : \A p \in prevs[id] \cap left : p < id, NEW desc
  PROVE  First(prevs, class, desc, left) \in left
<1>1. PICK i \in left : \A j \in left : i <= j
  BY ThereIsAFirst
<1>2. prevs[i] \cap left = {}
  <2> SUFFICES ASSUME NEW p \in prevs[i] \cap left
               PROVE  FALSE
    OBVIOUS
  <2>1. p \in left /\ p \in prevs[i] \cap left
    OBVIOUS
  <2>2. p < i /\ i <= p
    BY <1>1, <2>1, Zenon
  <2>3. p \in Nat /\ i \in Nat
    BY <1>1, <2>1
  <2> QED BY <2>2, <2>3
<1>3. Ready(prevs, left) # {} /\ Ready(prevs, left) \in SUBSET left
  BY <1>1, <1>2 DEF Ready
<1>4. \E a \in Ready(prevs, left) : \A b \in Ready(prevs, left) \ {a} : Precedes(class, desc, a, b)
  BY <1>3, OnePrecedes
<1>5. First(prevs, class, desc, left) \in Ready(prevs, left)
  BY <1>4 DEF First
<1> QED BY <1>3, <1>5

\* The recursion of Linearize has a solution, found one place at a time.
LEMMA PlacedInTurn ==
  ASSUME NEW ids, NEW prevs, NEW class, NEW desc, NEW N \in Nat
  PROVE  \E g : PlaceEach(ids, prevs, class, desc, N, g)
<1> DEFINE next(s) == Append(s, First(prevs, class, desc, ids \ Range(s)))
           solves(g, m) == g = [n \in 0 .. m |-> IF n = 0 THEN <<>> ELSE next(g[n - 1])]
           unsolved == {m \in 0 .. N : \A g : ~solves(g, m)}
<1>1. SUFFICES \E g : solves(g, N)
  BY DEF PlaceEach
<1> HIDE DEF next
<1>2. solves([n \in 0 .. 0 |-> <<>>], 0)
  OBVIOUS
<1>3. ASSUME NEW m \in 1 .. N, NEW g, solves(g, m - 1)
      PROVE  \E f : solves(f, m)
  <2> DEFINE g2 == [n \in 0 .. m |-> IF n < m THEN g[n] ELSE next(g[m - 1])]
  <2>1. \A n \in 0 .. m : g2[n] = IF n = 0 THEN <<>> ELSE next(g2[n - 1])
    <3> SUFFICES ASSUME NEW n \in 0 .. m
                 PROVE  g2[n] = IF n = 0 THEN <<>> ELSE next(g2[n - 1])
      OBVIOUS
    <3>1. CASE n < m
      <4>1. n \in 0 .. m - 1 /\ (n # 0 => n - 1 \in 0 .. m - 1)
        BY <3>1
      <4>2. g[n] = IF n = 0 THEN <<>> ELSE next(g[n - 1])
        BY <1>3, <4>1
      <4>3. g2[n] = g[n] /\ (n # 0 => g2[n - 1] = g[n - 1])
        BY <3>1, <4>1
      <4> QED BY <4>2, <4>3
    <3>2. CASE n = m
      BY <3>2
    <3> QED BY <3>1, <3>2
  <2>2. solves(g2, m)
    BY <2>1
  <2> QED BY <2>2
<1> HIDE DEF solves
<1>4. unsolved = {}
  <2>1. 0 \notin unsolved /\ \A m \in 1 .. N : m - 1 \notin unsolved => m \notin unsolved
    BY <1>2, <1>3
  <2>2. unsolved \in SUBSET (0 .. N)
    OBVIOUS
  <2> HIDE DEF unsolved
  <2> QED BY <2>1, <2>2, NoneIsLeft
<1> QED BY <1>4

LEMMA LinearOrder ==
  ASSUME NEW N \in Nat, NEW ids \in SUBSET (1 .. N), NEW class, \A a \in ids : class[a] \in Nat,
         NEW prevs, \A id \in ids : \A p \in prevs[id] \cap ids : p < id, NEW desc
  PROVE  LET order == Linearize(ids, prevs, class, desc)
         IN  Len(order) = Cardinality(ids) /\ \A n \in 1 .. Len(order) : order[n] \in ids
<1> DEFINE C == Cardinality(ids)
           placed == CHOOSE g : PlaceEach(ids, prevs, class, desc, C, g)
<1>1. IsFiniteSet(ids) /\ C \in Nat
  <2>1. IsFiniteSet(1 .. N)
    BY FS_Interval
  <2> QED BY <2>1, FS_Subset, FS_CardinalityType
<1>2. Linearize(ids, prevs, class, desc) = placed[C]
  BY DEF Linearize, PlaceEach, First, Ready
<1>3. PlaceEach(ids, prevs, class, desc, C, placed)
  <2> HIDE DEF C
  <2> QED BY <1>1, PlacedInTurn
<1> HIDE DEF placed, C
<1>4. placed[0] = <<>> /\ \A n \in 1 .. C :
        placed[n] = Append(placed[n - 1], First(prevs, class, desc, ids \ Range(placed[n - 1])))
  <2>1. \A n \in 0 .. C : placed[n] = IF n = 0 THEN <<>> ELSE
          Append(placed[n - 1], First(prevs, class, desc, ids \ Range(placed[n - 1])))
    BY <1>3 DEF PlaceEach
  <2>2. 0 \in 0 .. C /\ \A n \in 1 .. C : n \in 0 .. C /\ n # 0
    BY <1>1
  <2> QED BY <2>1, <2>2, Zenon
<1> DEFINE fine(n) == /\ placed[n] \in Seq(ids) /\ Len(placed[n]) = n
                      /\ IsFiniteSet(Range(placed[n])) /\ Cardinality(Range(placed[n])) <= n
           unfit == {n \in 0 .. C : ~fine(n)}
<1>5. fine(0)
  <2>1. Range(<<>>) = {}
    BY DEF Range
  <2>2. <<>> \in Seq(ids) /\ Len(<<>>) = 0
    BY EmptySeq
  <2>3. IsFiniteSet(Range(<<>>)) /\ Cardinality(Range(<<>>)) <= 0
    <3>1. IsFiniteSet({}) /\ Cardinality({}) = 0
      BY FS_EmptySet
    <3>2. Cardinality({}) <= 0
      BY <3>1
    <3> QED BY <2>1, <3>1, <3>2, Zenon
  <2> QED BY <1>4, <2>2, <2>3, Zenon
<1>6. ASSUME NEW n \in 1 .. C, fine(n - 1)
      PROVE  fine(n)
  <2> DEFINE s == placed[n - 1]
             left == ids \ Range(s)
             x == First(prevs, class, desc, left)
  <2>1. s \in Seq(ids) /\ Len(s) = n - 1 /\ IsFiniteSet(Range(s)) /\ Cardinality(Range(s)) <= n - 1
    BY <1>6
  <2>2. placed[n] = Append(s, x)
    BY <1>4
  <2> HIDE DEF s
  <2>3. Range(s) \subseteq ids
    BY <2>1, ElementOfSeq, LenProperties DEF Range
  <2>4. left # {}
    <3> SUFFICES ASSUME Range(s) = ids
                 PROVE  FALSE
      BY <2>3
    <3> QED BY <1>1, <2>1 DEF C
  <2>5. x \in ids
    <3>1. left \in SUBSET (1 .. N) /\ left \subseteq ids
      OBVIOUS
    <3> HIDE DEF left
    <3>2. x \in left
      BY <2>4, <3>1, FirstIsOne
    <3> QED BY <3>1, <3>2
  <2> HIDE DEF x
  <2>6. Append(s, x) \in Seq(ids) /\ Len(Append(s, x)) = n
    BY <2>1, <2>5, AppendProperties
  <2>7. Range(Append(s, x)) = Range(s) \cup {x}
    <3>1. DOMAIN s = 1 .. Len(s) /\ DOMAIN Append(s, x) = 1 .. Len(s) + 1 /\ Len(s) \in Nat
      BY <2>1, <2>5, <2>6, LenProperties, AppendProperties
    <3>2. \A i \in 1 .. Len(s) : Append(s, x)[i] = s[i]
      BY <2>1, <2>5, AppendProperties
    <3>3. Append(s, x)[Len(s) + 1] = x
      BY <2>1, <2>5, AppendProperties
    <3>4. \A i \in 1 .. Len(s) + 1 : i \in 1 .. Len(s) \/ i = Len(s) + 1
      BY <3>1
    <3>5. \A i \in 1 .. Len(s) : i \in 1 .. Len(s) + 1
      BY <3>1
    <3>6. Len(s) + 1 \in 1 .. Len(s) + 1
      BY <3>1
    <3> QED BY <3>1, <3>2, <3>3, <3>4, <3>5, <3>6 DEF Range
  <2>8. IsFiniteSet(Range(s) \cup {x}) /\ Cardinality(Range(s) \cup {x}) <= n
    <3>1. Cardinality(Range(s)) \in Nat
      BY <2>1, FS_CardinalityType
    <3>2. /\ IsFiniteSet(Range(s) \cup {x})
          /\ Cardinality(Range(s) \cup {x}) =
               IF x \in Range(s) THEN Cardinality(Range(s)) ELSE Cardinality(Range(s)) + 1
      BY <2>1, FS_AddElement
    <3> QED BY <2>1, <3>1, <3>2
  <2> QED BY <2>2, <2>6, <2>7, <2>8
<1> HIDE DEF fine
<1>7. unfit = {}
  <2>1. 0 \notin unfit /\ \A m \in 1 .. C : m - 1 \notin unfit => m \notin unfit
    BY <1>1, <1>5, <1>6
  <2>2. unfit \in SUBSET (0 .. C)
    OBVIOUS
  <2> HIDE DEF unfit
  <2> QED BY <1>1, <2>1, <2>2, NoneIsLeft
<1>8. placed[C] \in Seq(ids) /\ Len(placed[C]) = C
  BY <1>1, <1>7 DEF fine
<1> QED BY <1>2, <1>8, ElementOfSeq DEF C

\* Acts, each built on earlier ones.
Ordered(h, S) == \A id \in S : h.acts[id] \in Act /\ \A p \in h.acts[id].prev : p < id

LEMMA UnreadAlike ==
  ASSUME NEW h, NEW k, NEW S, Alike(h, k, S), NEW ids \in SUBSET S
  PROVE  Unread(h, ids) = Unread(k, ids)
<1> DEFINE prevs(g) == [id \in ids |-> g.acts[id].prev]
           class(g) == [id \in ids |-> Class(g.acts[id].t)]
           v(g) == [id \in ids |-> g.memo[id].status]
<1>1. prevs(h) = prevs(k) /\ class(h) = class(k) /\ v(h) = v(k)
  BY DEF Alike
<1>2. h.desc = k.desc
  BY DEF Alike
<1> HIDE DEF prevs, class, v
<1>3. \A g : Unread(g, ids) = [ids |-> ids, order |-> Linearize(ids, prevs(g), class(g), g.desc),
                              v |-> v(g), branch |-> {}, splits |-> {}]
  BY DEF Unread, prevs, class, v
<1> QED BY <1>1, <1>2, <1>3

LEMMA UnreadOrdered ==
  ASSUME NEW h, NEW N \in Nat, NEW ids \in SUBSET (1 .. N), Ordered(h, ids)
  PROVE  LET c == Unread(h, ids)
         IN  /\ Crossing(c, ids, c.order) /\ Len(c.order) = Cardinality(ids)
             /\ \A n \in 1 .. Len(c.order) : c.order[n] \in ids
<1> DEFINE prevs == [id \in ids |-> h.acts[id].prev]
           class == [id \in ids |-> Class(h.acts[id].t)]
           order == Linearize(ids, prevs, class, h.desc)
<1>1. \A id \in ids : class[id] \in Nat
  BY DEF Ordered, Act, Class
<1>2. \A id \in ids : \A p \in prevs[id] \cap ids : p < id
  BY DEF Ordered
<1> HIDE DEF prevs, class
<1>3. Len(order) = Cardinality(ids) /\ \A n \in 1 .. Len(order) : order[n] \in ids
  BY <1>1, <1>2, LinearOrder
<1> HIDE DEF order
<1>4. Unread(h, ids) = [ids |-> ids, order |-> order, v |-> [id \in ids |-> h.memo[id].status],
                        branch |-> {}, splits |-> {}]
  BY DEF Unread, order, prevs, class
<1> QED BY <1>3, <1>4 DEF Crossing

LEMMA EffectAlike ==
  ASSUME NEW h, NEW k, NEW S, Alike(h, k, S), NEW e, NEW id \in S
  PROVE  Effect(h, e, id) = Effect(k, e, id)
<1>1. /\ h.acts[id] = k.acts[id] /\ h.memo[id] = k.memo[id] /\ StateOf(h, id) = StateOf(k, id)
      /\ Beside(h, id) = Beside(k, id)
  BY ActsAlike
<1>2. h.anc = k.anc /\ h.fold = k.fold
  BY DEF Alike
<1>3. HoldsOn(h, e.c, id) <=> HoldsOn(k, e.c, id)
  BY <1>1, <1>2 DEF HoldsOn
<1>4. Undermined(h, e.c, id, e.late) <=> Undermined(k, e.c, id, e.late)
  BY <1>1, <1>2 DEF Undermined
<1> QED BY <1>1, <1>3, <1>4 DEF Effect

LEMMA EffectsAlike ==
  ASSUME NEW h, NEW k, NEW S, Alike(h, k, S), NEW ids, NEW c, Cardinality(ids) \in Nat,
         \A n \in 1 .. Cardinality(ids) : c.order[n] \in S
  PROVE  Effects(h, ids, c) = Effects(k, ids, c)
<1> DEFINE N == Cardinality(ids)
           after(g) == CHOOSE f : AfterEach(g, c, N, f)
<1>1. \A f, n : n \in 0 .. N /\ n # 0 => Effect(h, f[n - 1], c.order[n]) = Effect(k, f[n - 1], c.order[n])
  BY EffectAlike
<1>2. h.base = k.base
  BY DEF Alike
<1>3. \A f : AfterEach(h, c, N, f) <=> AfterEach(k, c, N, f)
  BY <1>1, <1>2 DEF AfterEach
<1>4. after(h) = after(k)
  BY <1>3
<1> HIDE DEF after
<1>5. \A g : Effects(g, ids, c) = after(g)[N]
  BY DEF Effects, AfterEach, after
<1> QED BY <1>4, <1>5

\* The fold of some acts, whatever else either history holds.
LEMMA FoldAlike ==
  ASSUME NEW h, NEW k, NEW N \in Nat, NEW S \in SUBSET (1 .. N), Alike(h, k, S), Ordered(h, S)
  PROVE  Fold(h, S) = Fold(k, S)
<1>1. ASSUME NEW fold, NEW some \in SUBSET S
      PROVE  FoldWith(h, fold, some) = FoldWith(k, fold, some)
  <2> DEFINE g(x) == [x EXCEPT !.fold = fold]
             c(x) == Unread(g(x), some)
             d(x) == Crossed(g(x), c(x))
             e(x) == Effects(g(x), some, d(x))
  <2>1. Alike(g(h), g(k), S)
    <3>1. \A x : Fields \subseteq DOMAIN x =>
            /\ DOMAIN g(x) = DOMAIN x /\ g(x).base = x.base /\ g(x).acts = x.acts /\ g(x).anc = x.anc
            /\ g(x).desc = x.desc /\ g(x).follow = x.follow /\ g(x).memo = x.memo /\ g(x).fold = fold
      BY DEF Fields
    <3> HIDE DEF g
    <3> QED BY <3>1 DEF Alike
  <2>2. Ordered(g(h), some)
    BY DEF Ordered, Alike, Fields
  <2> HIDE DEF g
  <2>3. c(h) = c(k)
    <3>1. \A ids \in SUBSET S : Unread(g(h), ids) = Unread(g(k), ids)
      BY <2>1, UnreadAlike, Zenon
    <3> QED BY <3>1
  <2>4. /\ Crossing(c(h), some, c(h).order) /\ Len(c(h).order) = Cardinality(some)
        /\ \A n \in 1 .. Len(c(h).order) : c(h).order[n] \in some
    <3>1. some \in SUBSET (1 .. N)
      OBVIOUS
    <3> QED BY <2>2, <3>1, UnreadOrdered, Zenon
  <2>5. Cardinality(some) \in Nat
    <3>1. IsFiniteSet(1 .. N)
      BY FS_Interval
    <3> QED BY <3>1, FS_Subset, FS_CardinalityType
  <2> HIDE DEF c
  <2>6. d(h) = d(k) /\ Crossing(d(h), some, c(h).order)
    <3>1. \A n \in 1 .. Len(c(h).order) : c(h).order[n] \in S
      BY <2>4
    <3>2. Crossed(g(h), c(h)) = Crossed(g(k), c(h)) /\ Crossing(Crossed(g(h), c(h)), some, c(h).order)
      BY <2>1, <2>4, <3>1, CrossedAlike, Zenon
    <3> QED BY <2>3, <3>2
  <2> HIDE DEF d
  <2>7. \A n \in 1 .. Cardinality(some) : d(h).order[n] \in S
    BY <2>4, <2>6 DEF Crossing
  <2>8. e(h) = e(k)
    BY <2>1, <2>5, <2>6, <2>7, EffectsAlike
  <2> HIDE DEF e
  <2>9. \A x : FoldWith(x, fold, some) = Folded(e(x))
    BY DEF FoldWith, e, d, c, g
  <2> QED BY <2>8, <2>9
<1> DEFINE solves(x, f) == f = [some \in SUBSET S |-> FoldWith(x, f, some)]
           fold(x) == CHOOSE f : solves(x, f)
<1>2. \A f : solves(h, f) <=> solves(k, f)
  BY <1>1
<1>3. fold(h) = fold(k)
  BY <1>2
<1> HIDE DEF fold
<1>4. FoldWith(h, fold(h), S) = FoldWith(k, fold(k), S)
  BY <1>1, <1>3
<1>5. \A x : Fold(x, S) = FoldWith(x, fold(x), S)
  BY DEF Fold, fold
<1> QED BY <1>4, <1>5

-----------------------------------------------------------------------------
(* A vote open in a fold is open to those its own state counts.             *)

\* Who may settle a vote that act r opens.
FrozenAt(h, r) ==
  ElectorateOf(StateOf(h, r)) \ IF h.acts[r].t = "petition" THEN {h.acts[r].key} ELSE {}

Frozen(h, ids, st) ==
  /\ "runs" \in DOMAIN st
  /\ \A r \in DOMAIN st.runs : r \in ids /\ st.runs[r].electorate = FrozenAt(h, r)

\* No vote opened, and none changed.
NoMoreRuns(st, to) ==
  /\ "runs" \in DOMAIN to
  /\ DOMAIN to.runs \subseteq DOMAIN st.runs /\ \A r \in DOMAIN to.runs : to.runs[r] = st.runs[r]

LEMMA FewerFrozen ==
  ASSUME NEW h, NEW ids, NEW st, Frozen(h, ids, st), NEW to, NoMoreRuns(st, to)
  PROVE  Frozen(h, ids, to)
BY DEF Frozen, NoMoreRuns

LEMMA DropRuns == ASSUME NEW runs, NEW S
  PROVE DOMAIN Drop(runs, S) \subseteq DOMAIN runs /\ \A r \in DOMAIN Drop(runs, S) : Drop(runs, S)[r] = runs[r]
BY DEF Drop

LEMMA SettleRuns ==
  ASSUME NEW st, "runs" \in DOMAIN st
  PROVE  NoMoreRuns(st, Settle(st))
<1> DEFINE moot == {id \in PetitionsIn(st) : st.offices[st.runs[id].office].holder # st.runs[id].subject}
<1>1. "runs" \in DOMAIN Settle(st) /\ Settle(st).runs = Drop(st.runs, moot)
  BY DEF Settle
<1> HIDE DEF moot
<1> QED BY <1>1, DropRuns DEF NoMoreRuns

LEMMA SucceedRuns ==
  ASSUME NEW st, "runs" \in DOMAIN st, NEW key, NEW acting
  PROVE  "runs" \in DOMAIN Succeed(st, key, acting) /\ Succeed(st, key, acting).runs = st.runs
BY DEF Succeed

LEMMA DropMemberRuns ==
  ASSUME NEW st, "runs" \in DOMAIN st, NEW key
  PROVE  NoMoreRuns(st, DropMember(st, key))
<1> DEFINE gone == [st EXCEPT !.members = @ \ {key}, !.removed = @ \cup {key}]
           led == Succeed(gone, key, TRUE)
<1>1. "runs" \in DOMAIN gone /\ gone.runs = st.runs
  OBVIOUS
<1> HIDE DEF gone
<1>2. "runs" \in DOMAIN led /\ led.runs = st.runs
  BY <1>1, SucceedRuns
<1> HIDE DEF led
<1>3. NoMoreRuns(led, Settle(led))
  BY <1>2, SettleRuns
<1>4. DropMember(st, key) = IF key \notin st.members THEN st ELSE Settle(led)
  BY DEF DropMember, led, gone
<1> QED BY <1>2, <1>3, <1>4 DEF NoMoreRuns

LEMMA TakesRuns ==
  ASSUME NEW st, "runs" \in DOMAIN st, NEW run, NEW id, NEW key
  PROVE  NoMoreRuns(st, TakesOffice(st, run, id, key))
<1> DEFINE over == {r \in ElectionsIn(st) : st.runs[r].office = run.office}
<1>1. "runs" \in DOMAIN TakesOffice(st, run, id, key)
        /\ TakesOffice(st, run, id, key).runs = Drop(st.runs, over)
  BY DEF TakesOffice
<1> HIDE DEF over
<1> QED BY <1>1, DropRuns DEF NoMoreRuns

\* One vote more.
LEMMA OneMoreFrozen ==
  ASSUME NEW h, NEW ids, NEW st, Frozen(h, ids, st), NEW id \in ids, NEW run,
         run.electorate = FrozenAt(h, id), NEW to, "runs" \in DOMAIN to, to.runs = Put(st.runs, id, run)
  PROVE  Frozen(h, ids, to)
BY DEF Frozen, Put

LEMMA ApplyFrozen ==
  ASSUME NEW h, NEW ids, NEW st, Frozen(h, ids, st), NEW id \in ids, NEW beside
  PROVE  Frozen(h, ids, Apply(st, h.acts[id], id, StateOf(h, id), beside).state)
<1> DEFINE x == h.acts[id]
           va == StateOf(h, id)
           to == Apply(st, x, id, va, beside).state
<1>1. "runs" \in DOMAIN st /\ NoMoreRuns(st, st)
  BY DEF Frozen, NoMoreRuns
<1>2. CASE x.t = "remove"
  <2>1. \A k, w : LET s == [st EXCEPT !.holding = Put(@, k, w)]
                  IN  "runs" \in DOMAIN s /\ s.runs = st.runs
    BY <1>1
  <2>2. \A s, k : "runs" \in DOMAIN s /\ s.runs = st.runs => NoMoreRuns(st, DropMember(s, k))
    BY DropMemberRuns DEF NoMoreRuns
  <2>3. ApplyRemove(st, x, va).state = st \/ \E s, k : "runs" \in DOMAIN s /\ s.runs = st.runs
           /\ ApplyRemove(st, x, va).state = DropMember(s, k)
    BY <1>1, <2>1 DEF ApplyRemove, Done
  <2>4. to = ApplyRemove(st, x, va).state
    BY <1>2 DEF Apply
  <2> QED BY <1>1, <2>2, <2>3, <2>4, FewerFrozen
<1>3. CASE x.t = "leave"
  <2>1. to = DropMember(st, x.by)
    BY <1>3 DEF Apply, Done
  <2> QED BY <1>1, <2>1, DropMemberRuns, FewerFrozen
<1>4. CASE x.t = "result"
  <2>1. to = ApplyResult(st, x, id, beside).state
    BY <1>4 DEF Apply
  <2>2. ApplyResult(st, x, id, beside).state = st
          \/ ApplyResult(st, x, id, beside).state = Settle(TakesOffice(st, st.runs[x.vote], id, x.key))
    BY DEF ApplyResult, Done, Void
  <2>3. NoMoreRuns(st, Settle(TakesOffice(st, st.runs[x.vote], id, x.key)))
    BY <1>1, TakesRuns, SettleRuns DEF NoMoreRuns
  <2> QED BY <1>1, <2>1, <2>2, <2>3, FewerFrozen
<1>5. CASE x.t = "recall"
  <2> DEFINE pet == st.runs[x.vote]
             after == Succeed(st, pet.subject, FALSE)
             closed == [after EXCEPT
                 !.recalled = @ \cup {[key |-> pet.subject, office |-> pet.office,
                                       n |-> st.offices[pet.office].n, signers |-> x.signers]},
                 !.runs = Drop(@, {x.vote}),
                 !.closed = Put(@, x.vote, [winner |-> pet.subject, by |-> id])]
  <2>1. to = ApplyRecall(st, x, id, beside).state
    BY <1>5 DEF Apply
  <2>2. "runs" \in DOMAIN after /\ after.runs = st.runs
    BY <1>1, SucceedRuns
  <2>3. ApplyRecall(st, x, id, beside).state = st \/ ApplyRecall(st, x, id, beside).state = Settle(closed)
    BY DEF ApplyRecall, Done, Void
  <2> HIDE DEF after
  <2>4. "runs" \in DOMAIN closed /\ closed.runs = Drop(st.runs, {x.vote})
    BY <2>2
  <2> HIDE DEF closed
  <2>5. NoMoreRuns(st, closed)
    BY <2>4, DropRuns DEF NoMoreRuns
  <2>6. NoMoreRuns(st, Settle(closed))
    BY <2>5, SettleRuns DEF NoMoreRuns
  <2> QED BY <1>1, <2>1, <2>3, <2>6, FewerFrozen
<1>6. CASE x.t = "vacate"
  <2>1. to = ApplyVacate(st, x).state
    BY <1>6 DEF Apply
  <2>2. ApplyVacate(st, x).state = st \/ ApplyVacate(st, x).state = Settle(Succeed(st, x.by, TRUE))
    BY DEF ApplyVacate, Done
  <2>3. NoMoreRuns(st, Settle(Succeed(st, x.by, TRUE)))
    <3> DEFINE led == Succeed(st, x.by, TRUE)
    <3>1. "runs" \in DOMAIN led /\ led.runs = st.runs
      BY <1>1, SucceedRuns
    <3> HIDE DEF led
    <3>2. NoMoreRuns(led, Settle(led))
      BY <3>1, SettleRuns
    <3> QED BY <3>1, <3>2 DEF NoMoreRuns, led
  <2> QED BY <1>1, <2>1, <2>2, <2>3, FewerFrozen
<1>7. CASE x.t = "open"
  <2> DEFINE run == Run(IF va.offices[x.office].phase = "over" THEN "end" ELSE "fill",
                        x, NoKey, ElectorateOf(va))
  <2>1. to = ApplyOpen(st, x, id, va).state
    BY <1>7 DEF Apply
  <2>2. ApplyOpen(st, x, id, va).state = st
          \/ ApplyOpen(st, x, id, va).state = [st EXCEPT !.runs = Put(@, id, run)]
    BY DEF ApplyOpen, Done, Void
  <2>3. run.electorate = FrozenAt(h, id)
    BY <1>7 DEF Run, FrozenAt
  <2> HIDE DEF run
  <2>4. "runs" \in DOMAIN [st EXCEPT !.runs = Put(@, id, run)]
          /\ [st EXCEPT !.runs = Put(@, id, run)].runs = Put(st.runs, id, run)
    BY <1>1
  <2> QED BY <2>1, <2>2, <2>3, <2>4, OneMoreFrozen
<1>8. CASE x.t = "petition"
  <2> DEFINE run == Run("petition", x, x.key, ElectorateOf(va) \ {x.key})
             opened == [st EXCEPT !.runs = Put(@, id, run),
                                  !.petitioned = @ \cup {<<x.office, x.key, va.offices[x.office].n>>}]
  <2>1. to = ApplyPetition(st, x, id, va).state
    BY <1>8 DEF Apply
  <2>2. ApplyPetition(st, x, id, va).state = st \/ ApplyPetition(st, x, id, va).state = opened
    BY DEF ApplyPetition, Done, Void
  <2>3. run.electorate = FrozenAt(h, id)
    BY <1>8 DEF Run, FrozenAt
  <2> HIDE DEF run
  <2>4. "runs" \in DOMAIN opened /\ opened.runs = Put(st.runs, id, run)
    BY <1>1
  <2> HIDE DEF opened
  <2> QED BY <2>1, <2>2, <2>3, <2>4, OneMoreFrozen
<1>9. CASE x.t \notin {"remove", "leave", "result", "recall", "vacate", "open", "petition"}
  <2>1. to = ApplyAdmit(st, x).state
    BY <1>9 DEF Apply
  <2>2. "runs" \in DOMAIN ApplyAdmit(st, x).state /\ ApplyAdmit(st, x).state.runs = st.runs
    BY <1>1 DEF ApplyAdmit, Done, Void
  <2> QED BY <2>1, <2>2 DEF Frozen
<1>10. Frozen(h, ids, to)
  BY <1>2, <1>3, <1>4, <1>5, <1>6, <1>7, <1>8, <1>9
<1> QED BY <1>10

LEMMA ContestFrozen ==
  ASSUME NEW h, NEW ids, NEW st, Frozen(h, ids, st), NEW run, NEW id
  PROVE  Frozen(h, ids, Contested(st, run, id))
<1> DEFINE to == Contested(st, run, id)
<1>1. "runs" \in DOMAIN to /\ (to.runs = st.runs \/ to.runs = Drop(st.runs, {run}))
  BY DEF Contested, Frozen
<1> HIDE DEF to
<1>2. NoMoreRuns(st, to)
  BY <1>1, DropRuns DEF NoMoreRuns
<1> QED BY <1>2, FewerFrozen DEF to

LEMMA EffectFrozen ==
  ASSUME NEW h, NEW ids, NEW e, "state" \in DOMAIN e, Frozen(h, ids, e.state), NEW id \in ids
  PROVE  "state" \in DOMAIN Effect(h, e, id) /\ Frozen(h, ids, Effect(h, e, id).state)
<1> DEFINE x == h.acts[id]
           done == Apply(e.state, x, id, StateOf(h, id), Beside(h, id))
           voided == Contested(e.state, x.vote, id)
           to == Effect(h, e, id)
<1>1. /\ DOMAIN to = DOMAIN e
      /\ to.state \in {e.state, voided, done.state}
  <2> HIDE DEF done
  <2>1. \/ to = [e EXCEPT !.state = voided]
        \/ to = e
        \/ to = [e EXCEPT !.state = done.state]
        \/ DOMAIN to = DOMAIN e /\ to.state = e.state
    BY DEF Effect, done
  <2> HIDE DEF to, voided
  <2> QED BY <2>1
<1>2. Frozen(h, ids, done.state)
  BY ApplyFrozen
<1>3. Frozen(h, ids, voided)
  BY ContestFrozen
<1> HIDE DEF to, done, voided
<1>4. "state" \in DOMAIN to /\ Frozen(h, ids, to.state)
  BY <1>1, <1>2, <1>3
<1> QED BY <1>4 DEF to

\* No vote is open in the state a unit starts from.
LEMMA EffectsFrozen ==
  ASSUME NEW h, "runs" \in DOMAIN h.base, DOMAIN h.base.runs = {}, NEW ids, IsFiniteSet(ids), NEW c,
         \A n \in 1 .. Cardinality(ids) : c.order[n] \in ids
  PROVE  Frozen(h, ids, Effects(h, ids, c).state)
<1> DEFINE N == Cardinality(ids)
           first == [c |-> c, state |-> h.base, late |-> {}]
           after == CHOOSE g : AfterEach(h, c, N, g)
<1>1. N \in Nat
  BY FS_CardinalityType
<1>2. Effects(h, ids, c) = after[N]
  BY DEF Effects, AfterEach
<1>a. \A n \in 1 .. N : c.order[n] \in ids
  OBVIOUS
<1> HIDE DEF N
<1>3. \E g : AfterEach(h, c, N, g)
  BY <1>1, EffectsInTurn
<1>4. AfterEach(h, c, N, after)
  BY <1>3
<1> HIDE DEF after
<1>5. after[0] = first /\ \A n \in 1 .. N : after[n] = Effect(h, after[n - 1], c.order[n])
  <2> HIDE DEF first
  <2>1. after = [n \in 0 .. N |-> IF n = 0 THEN first ELSE Effect(h, after[n - 1], c.order[n])]
    BY <1>4 DEF AfterEach, first
  <2>2. \A n \in 0 .. N : after[n] = IF n = 0 THEN first ELSE Effect(h, after[n - 1], c.order[n])
    BY <2>1
  <2> QED BY <1>1, <2>2
<1> DEFINE fine(n) == "state" \in DOMAIN after[n] /\ Frozen(h, ids, after[n].state)
           unfit == {n \in 0 .. N : ~fine(n)}
<1>6. fine(0)
  BY <1>5 DEF Frozen
<1>7. ASSUME NEW n \in 1 .. N, fine(n - 1)
      PROVE  fine(n)
  BY <1>a, <1>5, <1>7, EffectFrozen
<1> HIDE DEF fine
<1>8. unfit = {}
  <2>1. 0 \notin unfit /\ \A m \in 1 .. N : m - 1 \notin unfit => m \notin unfit
    BY <1>1, <1>6, <1>7
  <2>2. unfit \in SUBSET (0 .. N)
    OBVIOUS
  <2> HIDE DEF unfit
  <2> QED BY <1>1, <2>1, <2>2, NoneIsLeft
<1>9. fine(N)
  BY <1>1, <1>8
<1> QED BY <1>2, <1>9 DEF fine

LEMMA FoldFrozen ==
  ASSUME NEW h, Fields \subseteq DOMAIN h, "runs" \in DOMAIN h.base, DOMAIN h.base.runs = {},
         NEW N \in Nat, NEW ids \in SUBSET (1 .. N), Ordered(h, ids)
  PROVE  Frozen(h, ids, Fold(h, ids).state)
<1>1. IsFiniteSet(ids)
  <2>1. IsFiniteSet(1 .. N)
    BY FS_Interval
  <2> QED BY <2>1, FS_Subset
<1>2. ASSUME NEW fold
      PROVE  Frozen(h, ids, FoldWith(h, fold, ids).state)
  <2> DEFINE g == [h EXCEPT !.fold = fold]
             c == Unread(g, ids)
             d == Crossed(g, c)
  <2>1. /\ Fields \subseteq DOMAIN g /\ g.base = h.base /\ g.acts = h.acts /\ g.memo = h.memo
    BY DEF Fields
  <2> HIDE DEF g
  <2>2. Ordered(g, ids) /\ Alike(g, g, ids)
    BY <2>1 DEF Ordered, Alike
  <2>3. /\ Crossing(c, ids, c.order) /\ Len(c.order) = Cardinality(ids)
        /\ \A n \in 1 .. Len(c.order) : c.order[n] \in ids
    BY <2>2, UnreadOrdered, Zenon
  <2> HIDE DEF c
  <2>4. Crossing(d, ids, c.order)
    <3>1. ids \in SUBSET ids
      OBVIOUS
    <3> QED BY <2>2, <2>3, <3>1, CrossedAlike, Zenon
  <2> HIDE DEF d
  <2>5. \A n \in 1 .. Cardinality(ids) : d.order[n] \in ids
    BY <2>3, <2>4 DEF Crossing
  <2>6. Frozen(g, ids, Effects(g, ids, d).state)
    BY <1>1, <2>1, <2>5, EffectsFrozen
  <2>7. \A r : FrozenAt(g, r) = FrozenAt(h, r)
    BY <2>1 DEF FrozenAt, StateOf
  <2>8. FoldWith(h, fold, ids).state = Effects(g, ids, d).state
    BY DEF FoldWith, Folded, g, c, d
  <2> QED BY <2>6, <2>7, <2>8 DEF Frozen
<1> QED BY <1>2 DEF Fold

-----------------------------------------------------------------------------
(* A phone reads its acts one after another, and an act only after what it  *)
(* names; what it read does not change as more is read.                     *)

\* n things in a row.
Listed(s, n) == Len(s) = n /\ \E S : s \in Seq(S)

\* `t' is `s', of n - 1, and then x.
Grown(s, n, x, t) == Listed(t, n) /\ t[n] = x /\ \A i \in 1 .. n - 1 : t[i] = s[i]

LEMMA OneMoreListed ==
  ASSUME NEW n \in Nat \ {0}, NEW s, Listed(s, n - 1), NEW x
  PROVE  Grown(s, n, x, Append(s, x))
<1>1. PICK S : s \in Seq(S) /\ Len(s) = n - 1
  BY DEF Listed
<1> DEFINE T == S \cup {x}
           m == n - 1
<1>0. m \in Nat /\ m + 1 = n
  OBVIOUS
<1> HIDE DEF m
<1>2. s \in [1 .. m -> S]
  BY <1>1, LenProperties DEF m
<1>3. s \in [1 .. m -> T]
  BY <1>2
<1>4. s \in Seq(T)
  BY <1>0, <1>3, SeqDef
<1>5. x \in T
  OBVIOUS
<1> HIDE DEF T
<1>6. Append(s, x) \in Seq(T) /\ Len(Append(s, x)) = m + 1
        /\ (\A i \in 1 .. Len(s) : Append(s, x)[i] = s[i]) /\ Append(s, x)[Len(s) + 1] = x
  BY <1>0, <1>1, <1>4, <1>5, AppendProperties DEF m
<1> QED BY <1>0, <1>1, <1>6 DEF Listed, Grown, m

\* What a phone has made of its first n acts.
ReadSoFar(base, as, desc, side, n, h) ==
  /\ Fields \subseteq DOMAIN h
  /\ h.base = base /\ h.acts = as /\ h.desc = desc /\ h.follow = side /\ h.fold = <<>>
  /\ Listed(h.anc, n) /\ Listed(h.memo, n)
  /\ h.active \subseteq 1 .. n
  /\ \A a \in h.active : /\ as[a].prev \subseteq {0} \cup h.active /\ \A p \in as[a].prev : p < a
                         /\ h.anc[a] \subseteq {0} \cup h.active

\* A history with the ancestors of its act n, and what that act reads as.
Naming(h, n) == [h EXCEPT !.anc = Append(@, Ancestors(@, h.acts[n].prev))]
MemoOf(h, n) == Memo(h.acts[n], Fold(Naming(h, n), Naming(h, n).anc[n] \cap h.active))

\* What it made of an act stays as more is read.
Extends(h, n, to) ==
  /\ h.active \subseteq to.active /\ to.active \subseteq h.active \cup {n}
  /\ \A i \in 1 .. n - 1 : to.memo[i] = h.memo[i] /\ to.anc[i] = h.anc[i]

\* Act n is read on what was read before it.
ReadNext(base, as, desc, side, n, h, to) ==
  /\ ReadSoFar(base, as, desc, side, n, to) /\ Extends(h, n, to)
  /\ to.anc = Append(h.anc, Ancestors(h.anc, as[n].prev))
  /\ n \in to.active <=> Known(h, as[n]) /\ Complete(as[n], MemoOf(h, n).before.state)
  /\ n \in to.active => to.memo[n] = MemoOf(h, n) /\ to.anc[n] \subseteq {0} \cup h.active

LEMMA OneMoreRead ==
  ASSUME NEW base, NEW as, NEW desc, NEW side, NEW n \in Nat \ {0}, NEW h,
         ReadSoFar(base, as, desc, side, n - 1, h)
  PROVE  ReadNext(base, as, desc, side, n, h, ReadAct(h, n))
<1> DEFINE x == as[n]
           A == Ancestors(h.anc, x.prev)
           g == Naming(h, n)
           m == MemoOf(h, n)
           read == Known(h, x) /\ Complete(x, m.before.state)
           to == ReadAct(h, n)
<1>1. /\ Fields \subseteq DOMAIN h /\ h.acts = as
      /\ Listed(h.anc, n - 1) /\ Listed(h.memo, n - 1) /\ h.active \subseteq 1 .. n - 1
  BY DEF ReadSoFar
<1>2. /\ DOMAIN g = DOMAIN h /\ g.base = h.base /\ g.acts = as /\ g.desc = h.desc /\ g.follow = h.follow
      /\ g.memo = h.memo /\ g.active = h.active /\ g.fold = h.fold /\ g.anc = Append(h.anc, A)
  BY <1>1 DEF Fields, Naming
<1>3. to = Memoed(g, n, m)
  BY <1>1, <1>2 DEF ReadAct, MemoOf, Naming
<1> HIDE DEF g
<1>4. Known(g, x) <=> Known(h, x)
  BY <1>2 DEF Known
<1> HIDE DEF m
<1>5. to = IF read THEN [g EXCEPT !.memo = Append(@, m), !.active = @ \cup {n}]
           ELSE [g EXCEPT !.memo = Append(@, NotRead(g))]
  BY <1>2, <1>3, <1>4 DEF Memoed
<1> DEFINE e == IF read THEN m ELSE NotRead(g)
<1>6. /\ Fields \subseteq DOMAIN to /\ to.base = h.base /\ to.acts = as /\ to.desc = h.desc
      /\ to.follow = h.follow /\ to.fold = h.fold
      /\ to.anc = Append(h.anc, A) /\ to.memo = Append(h.memo, e)
      /\ to.active = h.active \cup IF read THEN {n} ELSE {}
  <2> HIDE DEF read, to, A
  <2>1. CASE read
    BY <1>1, <1>2, <1>5, <2>1 DEF Fields
  <2>2. CASE ~read
    BY <1>1, <1>2, <1>5, <2>2 DEF Fields
  <2> QED BY <2>1, <2>2
<1> HIDE DEF to, e
<1>7. /\ Listed(to.anc, n) /\ to.anc[n] = A /\ \A i \in 1 .. n - 1 : to.anc[i] = h.anc[i]
  <2> HIDE DEF A
  <2>1. Grown(h.anc, n, A, Append(h.anc, A))
    BY <1>1, OneMoreListed
  <2> QED BY <1>6, <2>1 DEF Grown
<1>8. /\ Listed(to.memo, n) /\ to.memo[n] = e /\ \A i \in 1 .. n - 1 : to.memo[i] = h.memo[i]
  <2>1. Grown(h.memo, n, e, Append(h.memo, e))
    BY <1>1, OneMoreListed
  <2> QED BY <1>6, <2>1 DEF Grown
<1>9. n \notin h.active
  BY <1>1
<1>10. n \in to.active <=> read
  BY <1>6, <1>9
<1>11. read => x.prev \subseteq {0} \cup h.active /\ A \subseteq {0} \cup h.active
  <2> SUFFICES ASSUME read
               PROVE  x.prev \subseteq {0} \cup h.active /\ A \subseteq {0} \cup h.active
    OBVIOUS
  <2>1. x.prev \subseteq {0} \cup h.active
    BY DEF Known, Root
  <2>2. \A p \in x.prev \ {0} : p \in h.active /\ h.anc[p] \subseteq {0} \cup h.active
    BY <2>1 DEF ReadSoFar
  <2> QED BY <2>1, <2>2 DEF Ancestors, Root
<1> HIDE DEF A, read
<1>12. Extends(h, n, to)
  BY <1>6, <1>7, <1>8 DEF Extends
<1>13. to.active \subseteq 1 .. n
  BY <1>1, <1>6
<1>14. \A a \in to.active : /\ as[a].prev \subseteq {0} \cup to.active /\ \A p \in as[a].prev : p < a
                            /\ to.anc[a] \subseteq {0} \cup to.active
  <2> SUFFICES ASSUME NEW a \in to.active
               PROVE  /\ as[a].prev \subseteq {0} \cup to.active /\ \A p \in as[a].prev : p < a
                      /\ to.anc[a] \subseteq {0} \cup to.active
    OBVIOUS
  <2>1. CASE a \in h.active
    <3>1. a \in 1 .. n - 1 /\ to.anc[a] = h.anc[a]
      BY <1>1, <1>7, <2>1
    <3>2. /\ as[a].prev \subseteq {0} \cup h.active /\ \A p \in as[a].prev : p < a
          /\ h.anc[a] \subseteq {0} \cup h.active
      BY <2>1 DEF ReadSoFar
    <3> QED BY <1>6, <3>1, <3>2
  <2>2. CASE a = n /\ read
    <3>1. x.prev \subseteq {0} \cup h.active /\ to.anc[n] \subseteq {0} \cup h.active
      BY <1>7, <1>11, <2>2
    <3>2. \A p \in {0} \cup h.active : p < n
      BY <1>1
    <3> QED BY <1>6, <2>2, <3>1, <3>2
  <2> QED BY <1>6, <2>1, <2>2
<1>15. ReadSoFar(base, as, desc, side, n, to)
  <2>1. h.base = base /\ h.desc = desc /\ h.follow = side /\ h.fold = <<>>
    BY DEF ReadSoFar
  <2> QED BY <1>6, <1>7, <1>8, <1>13, <1>14, <2>1 DEF ReadSoFar
<1>16. n \in to.active => to.memo[n] = m /\ to.anc[n] \subseteq {0} \cup h.active
  BY <1>7, <1>8, <1>10, <1>11 DEF e
<1>17. ReadNext(base, as, desc, side, n, h, to)
  BY <1>6, <1>10, <1>12, <1>15, <1>16 DEF ReadNext, m, A, read
<1> QED BY <1>17 DEF to

\* What a history has read, another has too, and alike.
StillRead(h, k) == h.active \subseteq k.active /\ \A id \in h.active : h.memo[id] = k.memo[id]

\* An act reads the same on two phones that have read alike all it stands on.
LEMMA OneMoreAlike ==
  ASSUME NEW base, NEW as \in Seq(Act), NEW as2, NEW desc, NEW side, NEW n \in Nat \ {0},
         NEW h, ReadSoFar(base, as, desc, side, n - 1, h),
         NEW k, ReadSoFar(base, as2, desc, side, n - 1, k),
         n <= Len(as), as2[n].prev = as[n].prev,
         h.anc = k.anc, StillRead(h, k),
         \A id \in ReadAct(h, n).active : as2[id] = as[id]
  PROVE  ReadAct(h, n).anc = ReadAct(k, n).anc /\ StillRead(ReadAct(h, n), ReadAct(k, n))
<1> DEFINE to == ReadAct(h, n)
           to2 == ReadAct(k, n)
           A == Ancestors(h.anc, as[n].prev)
           g == Naming(h, n)
           g2 == Naming(k, n)
           m == MemoOf(h, n)
           m2 == MemoOf(k, n)
<1>1. /\ ReadSoFar(base, as, desc, side, n, to) /\ Extends(h, n, to)
      /\ n \in to.active <=> Known(h, as[n]) /\ Complete(as[n], m.before.state)
      /\ n \in to.active => /\ to.memo[n] = m /\ to.anc[n] \subseteq {0} \cup h.active
      /\ to.anc = Append(h.anc, A)
  <2>1. ReadNext(base, as, desc, side, n, h, to)
    BY OneMoreRead
  <2> QED BY <2>1 DEF ReadNext
<1>2. /\ ReadSoFar(base, as2, desc, side, n, to2) /\ Extends(k, n, to2)
      /\ n \in to2.active <=> Known(k, as2[n]) /\ Complete(as2[n], m2.before.state)
      /\ n \in to2.active => to2.memo[n] = m2
      /\ to2.anc = Append(k.anc, Ancestors(k.anc, as2[n].prev))
  <2>1. ReadNext(base, as2, desc, side, n, k, to2)
    BY OneMoreRead
  <2> QED BY <2>1 DEF ReadNext
<1>3. to.anc = to2.anc
  BY <1>1, <1>2
<1>4. h.active \subseteq 1 .. n - 1 /\ k.active \subseteq 1 .. n - 1
  BY DEF ReadSoFar
<1>5. \A id \in h.active : to.memo[id] = to2.memo[id]
  BY <1>1, <1>2, <1>4 DEF Extends, StillRead
<1> HIDE DEF to, to2
<1>6. CASE n \notin to.active
  <2>1. to.active \subseteq h.active
    BY <1>1, <1>6 DEF Extends
  <2>2. to.active \subseteq to2.active
    BY <1>2, <2>1 DEF Extends, StillRead
  <2> QED BY <1>3, <1>5, <2>1, <2>2 DEF StillRead, to, to2
<1>7. CASE n \in to.active
  <2>1. as2[n] = as[n]
    BY <1>7 DEF to
  <2> DEFINE S == g.anc[n] \cap h.active
  <2>2. /\ Fields \subseteq DOMAIN h /\ h.base = base /\ h.acts = as /\ h.desc = desc /\ h.follow = side
        /\ h.fold = <<>>
        /\ Fields \subseteq DOMAIN k /\ k.base = base /\ k.acts = as2 /\ k.desc = desc /\ k.follow = side
        /\ k.fold = <<>>
    BY DEF ReadSoFar
  <2>3. /\ Fields \subseteq DOMAIN g /\ g.base = base /\ g.acts = as /\ g.desc = desc /\ g.follow = side
        /\ g.memo = h.memo /\ g.fold = <<>> /\ g.anc = Append(h.anc, A)
    BY <2>2 DEF Fields, Naming
  <2>4. /\ Fields \subseteq DOMAIN g2 /\ g2.base = base /\ g2.acts = as2 /\ g2.desc = desc /\ g2.follow = side
        /\ g2.memo = k.memo /\ g2.fold = <<>> /\ g2.anc = Append(h.anc, A)
    BY <2>1, <2>2 DEF Fields, Naming
  <2> HIDE DEF g, g2
  <2>5. g.anc[n] = A
    <3>1. Listed(h.anc, n - 1)
      BY DEF ReadSoFar
    <3> HIDE DEF A
    <3>2. Grown(h.anc, n, A, Append(h.anc, A))
      BY <3>1, OneMoreListed
    <3> QED BY <2>3, <3>2 DEF Grown
  <2>6. A \subseteq {0} \cup h.active
    BY <1>1, <1>7, <2>3, <2>5
  <2>7. g2.anc[n] \cap k.active = S
    <3>1. g2.anc[n] = A
      BY <2>3, <2>4, <2>5
    <3>2. 0 \notin k.active
      BY <1>4
    <3> QED BY <2>5, <2>6, <3>1, <3>2 DEF StillRead
  <2>8. S \in SUBSET (1 .. n - 1) /\ S \subseteq h.active
    BY <1>4
  <2> HIDE DEF S
  <2>9. \A id \in S : as[id] = as2[id] /\ h.memo[id] = k.memo[id]
    <3>1. h.active \subseteq to.active
      BY <1>1 DEF Extends
    <3> QED BY <2>8, <3>1 DEF StillRead, to
  <2>10. Alike(g, g2, S)
    BY <2>3, <2>4, <2>9 DEF Alike
  <2>11. Ordered(g, S)
    <3>1. \A id \in S : as[id] \in Act
      <4>1. Len(as) \in Nat
        BY LenProperties
      <4> DEFINE L == Len(as)
      <4>2. L \in Nat /\ n <= L
        BY <4>1
      <4> HIDE DEF L
      <4>3. \A i \in 1 .. n - 1 : i \in 1 .. L
        BY <4>2
      <4> QED BY <2>8, <4>3, ElementOfSeq DEF L
    <3>2. \A id \in S : \A p \in as[id].prev : p < id
      BY <2>8 DEF ReadSoFar
    <3> QED BY <2>3, <3>1, <3>2 DEF Ordered
  <2>12. Fold(g, S) = Fold(g2, S)
    <3> DEFINE N == n - 1
    <3>1. N \in Nat /\ S \in SUBSET (1 .. N)
      BY <2>8
    <3> HIDE DEF N
    <3> QED BY <2>10, <2>11, <3>1, FoldAlike
  <2>13. m = m2
    <3>1. m = Memo(as[n], Fold(g, S)) /\ m2 = Memo(as2[n], Fold(g2, g2.anc[n] \cap k.active))
      BY <2>2 DEF MemoOf, S, g, g2
    <3> HIDE DEF m, m2
    <3> QED BY <2>1, <2>7, <2>12, <3>1
  <2> HIDE DEF m, m2
  <2>14. Known(k, as2[n])
    BY <1>1, <1>7, <2>1 DEF Known, StillRead
  <2>15. n \in to2.active /\ to2.memo[n] = to.memo[n]
    BY <1>1, <1>2, <1>7, <2>1, <2>13, <2>14
  <2>16. to.active \subseteq h.active \cup {n} /\ h.active \subseteq to2.active
    BY <1>1, <1>2 DEF Extends, StillRead
  <2> QED BY <1>3, <1>5, <2>15, <2>16 DEF StillRead, to, to2
<1> QED BY <1>6, <1>7

\* What a phone makes of its acts, one after another.
ReadUp(base, as, desc, side, read) ==
  /\ \A n \in 0 .. Len(as) : ReadSoFar(base, as, desc, side, n, read[n])
  /\ \A n \in 1 .. Len(as) : read[n] = ReadAct(read[n - 1], n) /\ Extends(read[n - 1], n, read[n])
  /\ read[0] = Unfolded(base, as, desc, side)
  /\ Reading(base, as, desc, side) = Finished(read[Len(as)])

LEMMA ReadingUp ==
  ASSUME NEW base, NEW as \in Seq(Act), NEW desc, NEW side
  PROVE  \E read : ReadUp(base, as, desc, side, read)
<1> DEFINE N == Len(as)
           first == Unfolded(base, as, desc, side)
           read == CHOOSE g : ReadEach(base, as, desc, side, N, g)
<1>1. N \in Nat
  BY LenProperties
<1>2. Reading(base, as, desc, side) = Finished(read[N])
  BY DEF Reading, History, ReadEach
<1> HIDE DEF N
<1>3. \E g : ReadEach(base, as, desc, side, N, g)
  BY <1>1, ReadingInTurn
<1>4. ReadEach(base, as, desc, side, N, read)
  BY <1>3
<1> HIDE DEF read
<1>5. read[0] = first /\ \A n \in 1 .. N : read[n] = ReadAct(read[n - 1], n)
  <2> HIDE DEF first
  <2>1. read = [n \in 0 .. N |-> IF n = 0 THEN first ELSE ReadAct(read[n - 1], n)]
    BY <1>4 DEF ReadEach, first
  <2>2. \A n \in 0 .. N : read[n] = IF n = 0 THEN first ELSE ReadAct(read[n - 1], n)
    BY <2>1
  <2> QED BY <1>1, <2>2
<1> DEFINE fine(n) == ReadSoFar(base, as, desc, side, n, read[n])
           unfit == {n \in 0 .. N : ~fine(n)}
<1>6. fine(0)
  <2>1. Listed(<<>>, 0)
    BY EmptySeq DEF Listed
  <2>2. /\ Fields \subseteq DOMAIN first /\ first.base = base /\ first.acts = as /\ first.desc = desc
        /\ first.follow = side /\ first.fold = <<>> /\ first.anc = <<>> /\ first.memo = <<>>
        /\ first.active = {}
    BY DEF Unfolded, Fields
  <2> HIDE DEF first
  <2> QED BY <1>5, <2>1, <2>2 DEF ReadSoFar
<1>7. ASSUME NEW n \in 1 .. N, fine(n - 1)
      PROVE  fine(n) /\ Extends(read[n - 1], n, read[n])
  <2>1. n \in Nat \ {0} /\ read[n] = ReadAct(read[n - 1], n)
    BY <1>1, <1>5
  <2>2. ReadNext(base, as, desc, side, n, read[n - 1], ReadAct(read[n - 1], n))
    BY <1>7, <2>1, OneMoreRead
  <2> QED BY <2>1, <2>2 DEF ReadNext
<1> HIDE DEF fine
<1>8. unfit = {}
  <2>1. 0 \notin unfit /\ \A m \in 1 .. N : m - 1 \notin unfit => m \notin unfit
    BY <1>1, <1>6, <1>7
  <2>2. unfit \in SUBSET (0 .. N)
    OBVIOUS
  <2> HIDE DEF unfit
  <2> QED BY <1>1, <2>1, <2>2, NoneIsLeft
<1>9. \A n \in 0 .. N : fine(n)
  BY <1>8
<1>10. \A n \in 1 .. N : Extends(read[n - 1], n, read[n])
  <2>1. \A n \in 1 .. N : n - 1 \in 0 .. N
    BY <1>1
  <2> QED BY <1>7, <1>9, <2>1
<1> QED BY <1>2, <1>5, <1>9, <1>10 DEF ReadUp, N, fine

\* What is read stays read.
LEMMA ActiveStays ==
  ASSUME NEW base, NEW as \in Seq(Act), NEW desc, NEW side, NEW read, ReadUp(base, as, desc, side, read)
  PROVE  \A n \in 0 .. Len(as) : read[n].active \subseteq read[Len(as)].active
<1> DEFINE N == Len(as)
           lost == {j \in 0 .. N : ~(read[N - j].active \subseteq read[N].active)}
<1>1. N \in Nat
  BY LenProperties
<1>2. \A n \in 1 .. N : read[n - 1].active \subseteq read[n].active
  BY DEF ReadUp, Extends
<1> HIDE DEF N
<1>3. lost = {}
  <2>1. 0 \notin lost
    BY <1>1
  <2>2. ASSUME NEW m \in 1 .. N, m - 1 \notin lost
        PROVE  m \notin lost
    <3> DEFINE n == N - m + 1
    <3>1. n \in 1 .. N /\ n = N - (m - 1) /\ n - 1 = N - m /\ m - 1 \in 0 .. N
      BY <1>1
    <3>2. read[N - (m - 1)].active \subseteq read[N].active
      BY <2>2, <3>1
    <3> HIDE DEF n
    <3>3. read[n - 1].active \subseteq read[N].active
      BY <1>2, <3>1, <3>2
    <3> QED BY <3>1, <3>3
  <2>3. lost \in SUBSET (0 .. N)
    OBVIOUS
  <2> HIDE DEF lost
  <2> QED BY <1>1, <2>1, <2>2, <2>3, NoneIsLeft
<1>4. ASSUME NEW n \in 0 .. N
      PROVE  read[n].active \subseteq read[N].active
  <2>1. N - n \in 0 .. N /\ N - (N - n) = n
    BY <1>1
  <2> QED BY <1>3, <2>1
<1> QED BY <1>4 DEF N

\* What is held becomes: one act more, or acts signed again.
Grows(as, as2) == Len(as2) \in {Len(as), Len(as) + 1} /\ \A n \in 1 .. Len(as) : as2[n].prev = as[n].prev

\* Of two sets of acts, of which the second holds one more, or an act signed
\* again that the first did not read, the second reads all the first did alike.
LEMMA ReadAlike ==
  ASSUME NEW base, NEW as \in Seq(Act), NEW as2 \in Seq(Act), Grows(as, as2), NEW desc, NEW side,
         NEW read, ReadUp(base, as, desc, side, read),
         NEW read2, ReadUp(base, as2, desc, side, read2),
         \A id \in read[Len(as)].active : as2[id] = as[id]
  PROVE  StillRead(read[Len(as)], read2[Len(as2)])
<1> DEFINE N == Len(as)
           N2 == Len(as2)
           alike(n) == read[n].anc = read2[n].anc /\ StillRead(read[n], read2[n])
           unlike == {n \in 0 .. N : ~alike(n)}
<1>1. N \in Nat /\ N2 \in {N, N + 1}
  BY LenProperties DEF Grows
<1>2. alike(0)
  <2>1. read[0].anc = <<>> /\ read2[0].anc = <<>> /\ read[0].active = {}
    BY DEF ReadUp, Unfolded
  <2> QED BY <2>1 DEF StillRead
<1>3. ASSUME NEW n \in 1 .. N, alike(n - 1)
      PROVE  alike(n)
  <2>1. n \in Nat \ {0} /\ n <= N /\ n - 1 \in 0 .. N /\ n - 1 \in 0 .. N2
        /\ n \in 1 .. N2 /\ n \in 0 .. N
    <3> HIDE DEF N, N2
    <3> QED BY <1>1
  <2>2. /\ ReadSoFar(base, as, desc, side, n - 1, read[n - 1])
        /\ ReadSoFar(base, as2, desc, side, n - 1, read2[n - 1])
        /\ read[n] = ReadAct(read[n - 1], n) /\ read2[n] = ReadAct(read2[n - 1], n)
    BY <2>1 DEF ReadUp
  <2>3. \A id \in ReadAct(read[n - 1], n).active : as2[id] = as[id]
    BY <2>1, <2>2, ActiveStays
  <2>4. as2[n].prev = as[n].prev
    BY DEF Grows
  <2> DEFINE h == read[n - 1]
             k == read2[n - 1]
  <2>5. h.anc = k.anc /\ StillRead(h, k)
    BY <1>3
  <2>6. /\ ReadSoFar(base, as, desc, side, n - 1, h) /\ ReadSoFar(base, as2, desc, side, n - 1, k)
        /\ \A id \in ReadAct(h, n).active : as2[id] = as[id]
    BY <2>2, <2>3
  <2>7. read[n] = ReadAct(h, n) /\ read2[n] = ReadAct(k, n)
    BY <2>2
  <2> HIDE DEF h, k
  <2>8. ReadAct(h, n).anc = ReadAct(k, n).anc /\ StillRead(ReadAct(h, n), ReadAct(k, n))
    BY <2>1, <2>4, <2>5, <2>6, OneMoreAlike
  <2> QED BY <2>7, <2>8
<1> HIDE DEF alike, N, N2
<1>4. unlike = {}
  <2>1. 0 \notin unlike /\ \A m \in 1 .. N : m - 1 \notin unlike => m \notin unlike
    BY <1>1, <1>2, <1>3
  <2>2. unlike \in SUBSET (0 .. N)
    OBVIOUS
  <2> HIDE DEF unlike
  <2> QED BY <1>1, <2>1, <2>2, NoneIsLeft
<1>5. alike(N)
  BY <1>1, <1>4
<1>6. CASE N2 = N
  BY <1>5, <1>6 DEF alike, N, N2
<1>7. CASE N2 = N + 1
  <2>1. N2 \in 1 .. N2 /\ N2 - 1 = N /\ N \in 0 .. N
    BY <1>1, <1>7
  <2>2. Extends(read2[N], N2, read2[N2])
    BY <2>1 DEF ReadUp, N2
  <2>3. read[N].active \subseteq 1 .. N
    BY <2>1 DEF ReadUp, ReadSoFar, N
  <2>4. \A id \in read[N].active : id \in read2[N2].active /\ read2[N2].memo[id] = read2[N].memo[id]
    BY <1>5, <2>1, <2>2, <2>3 DEF Extends, StillRead, alike
  <2> QED BY <1>5, <2>4 DEF StillRead, alike, N, N2
<1> QED BY <1>1, <1>6, <1>7

\* The votes open in what is read, and their electorates.
VotesOf(as, h, r) ==
  /\ r.active = h.active /\ h.acts = as
  /\ \A run \in DOMAIN r.state.runs :
       run \in h.active /\ r.state.runs[run].electorate = FrozenAt(h, run)

LEMMA ReadingFrozen ==
  ASSUME NEW base, "runs" \in DOMAIN base, DOMAIN base.runs = {}, NEW as \in Seq(Act), NEW desc, NEW side,
         NEW read, ReadUp(base, as, desc, side, read)
  PROVE  VotesOf(as, read[Len(as)], Reading(base, as, desc, side))
<1> DEFINE N == Len(as)
           h == read[N]
           st == Fold(h, h.active).state
           r == Reading(base, as, desc, side)
<1>1. N \in Nat
  BY LenProperties
<1> HIDE DEF N
<1>0. N \in 0 .. N
  BY <1>1
<1>2. ReadSoFar(base, as, desc, side, N, h) /\ r = Finished(h)
  BY <1>0 DEF ReadUp, N
<1> HIDE DEF h
<1>3. /\ Fields \subseteq DOMAIN h /\ h.base = base /\ h.acts = as /\ h.active \in SUBSET (1 .. N)
  BY <1>2 DEF ReadSoFar
<1>4. Ordered(h, h.active)
  <2>1. \A id \in h.active : as[id] \in Act
    BY <1>3, ElementOfSeq DEF N
  <2> QED BY <1>2, <1>3, <2>1 DEF Ordered, ReadSoFar
<1>5. Frozen(h, h.active, st)
  BY <1>1, <1>3, <1>4, FoldFrozen
<1>6. r.active = h.active /\ r.state = InFull(st)
  BY <1>2 DEF Finished, ReadAs
<1> HIDE DEF st, r
<1>7. InFull(st).runs = [x \in DOMAIN st.runs |-> st.runs[x]]
  BY <1>5 DEF InFull, Plain, Frozen
<1>8. \A run \in DOMAIN r.state.runs :
        run \in h.active /\ r.state.runs[run].electorate = FrozenAt(h, run)
  BY <1>5, <1>6, <1>7 DEF Frozen
<1> QED BY <1>3, <1>6, <1>8 DEF VotesOf, r, h, N

\* Of two such sets, a vote open in both has one electorate.
LEMMA VotesAlike ==
  ASSUME NEW base, "runs" \in DOMAIN base, DOMAIN base.runs = {}, NEW desc, NEW side,
         NEW as \in Seq(Act), NEW as2 \in Seq(Act), Grows(as, as2),
         \A id \in Reading(base, as, desc, side).active : as2[id] = as[id]
  PROVE  LET st == Reading(base, as, desc, side).state
             st2 == Reading(base, as2, desc, side).state
         IN  \A run \in DOMAIN st.runs \cap DOMAIN st2.runs : st.runs[run].electorate = st2.runs[run].electorate
<1>1. PICK read : ReadUp(base, as, desc, side, read)
  BY ReadingUp
<1>2. PICK read2 : ReadUp(base, as2, desc, side, read2)
  BY ReadingUp
<1> DEFINE h == read[Len(as)]
           k == read2[Len(as2)]
           r == Reading(base, as, desc, side)
           r2 == Reading(base, as2, desc, side)
<1>3. VotesOf(as, h, r)
  BY <1>1, ReadingFrozen
<1>4. VotesOf(as2, k, r2)
  BY <1>2, ReadingFrozen
<1>5. \A id \in h.active : as2[id] = as[id]
  BY <1>3 DEF VotesOf
<1>6. StillRead(h, k)
  BY <1>1, <1>2, <1>5, ReadAlike
<1> HIDE DEF h, k, r, r2
<1>7. \A id \in h.active : FrozenAt(h, id) = FrozenAt(k, id)
  BY <1>3, <1>4, <1>5, <1>6 DEF FrozenAt, StateOf, StillRead, VotesOf
<1>8. \A run \in DOMAIN r.state.runs \cap DOMAIN r2.state.runs :
        r.state.runs[run].electorate = r2.state.runs[run].electorate
  BY <1>3, <1>4, <1>7 DEF VotesOf
<1> QED BY <1>8 DEF r, r2

\* A step leaves what is held, signs one act of it again, or adds one.
LEMMA StepGrows ==
  ASSUME Consistent, Consistent', [Next]_vars
  PROVE  acts \in Seq(Act) /\ acts' \in Seq(Act) /\ unit' = unit /\ Grows(acts, acts')
<1>1. acts \in Seq(Act) /\ acts' \in Seq(Act) /\ Len(acts) \in Nat
  BY LenProperties DEF Consistent
<1>2. CASE Authored
  <2>1. PICK x : acts' = Append(acts, x) /\ unit' = unit
    BY <1>2 DEF Authored, Author
  <2>2. Len(acts') = Len(acts) + 1 /\ \A n \in 1 .. Len(acts) : acts'[n] = acts[n]
    BY <1>1, <2>1, SMT
  <2> QED BY <1>1, <2>1, <2>2 DEF Grows
<1>3. CASE CoSigned
  <2>1. PICK id \in DOMAIN acts, b \in Units[unit].menu :
               acts' = [acts EXCEPT ![id].cos = b.cos] /\ unit' = unit
    BY <1>3 DEF CoSigned
  <2>2. DOMAIN acts = 1 .. Len(acts)
    BY <1>1, LenProperties
  <2>3. \A n \in 1 .. Len(acts) : acts[n] \in Act
    BY <1>1, ElementOfSeq
  <2>4. \A n \in 1 .. Len(acts) : acts'[n].prev = acts[n].prev
    BY <2>1, <2>2, <2>3 DEF Act
  <2>5. DOMAIN acts' = DOMAIN acts
    BY <2>1
  <2>6. Len(acts') = Len(acts)
    BY <1>1, <2>2, <2>5, LenProperties
  <2> QED BY <1>1, <2>1, <2>4, <2>6 DEF Grows
<1>4. CASE Follow
  BY <1>1, <1>4 DEF Follow, Grows
<1>5. CASE UNCHANGED vars
  BY <1>1, <1>5 DEF vars, Grows
<1> QED BY <1>2, <1>3, <1>4, <1>5 DEF Next

\* No vote is open in the state a unit starts from.
LEMMA StartsWithoutVotes ==
  ASSUME Consistent
  PROVE  "runs" \in DOMAIN Units[unit].state /\ DOMAIN Units[unit].state.runs = {}
<1> DEFINE start == Units[unit]
<1>1. start \in Range(Units)
  BY DEF Consistent, Range
<1> HIDE DEF start
<1>2. PICK m, c, x : start.state = UnitState(m, c, x)
  BY <1>1, GovernanceAssumption
<1>3. "runs" \in DOMAIN start.state /\ DOMAIN start.state.runs = {}
  BY <1>2 DEF UnitState
<1> QED BY <1>3 DEF start

\* What is read, and which of it has a second signature, stays so in a step that
\* signs none of it again: what was held lands beside it, never beneath it
\* (governance.ts:49-53, runFrom).
THEOREM ReadStaysRead ==
  Spec => [][follow' = follow =>
               \A desc \in BOOLEAN :
                 (\A id \in readings[desc].active : acts'[id] = acts[id]) =>
                   /\ readings[desc].active \subseteq readings'[desc].active
                   /\ readings[desc].seconded = readings[desc].active \cap readings'[desc].seconded]_vars
<1> DEFINE stays(desc) ==
             /\ readings[desc].active \subseteq readings'[desc].active
             /\ readings[desc].seconded = readings[desc].active \cap readings'[desc].seconded
<1>1. Consistent /\ [Next]_vars =>
        [follow' = follow =>
           \A desc \in BOOLEAN :
             (\A id \in readings[desc].active : acts'[id] = acts[id]) => stays(desc)]_vars
  <2> SUFFICES ASSUME Consistent, Consistent', [Next]_vars, follow' = follow, NEW desc \in BOOLEAN,
                      \A id \in readings[desc].active : acts'[id] = acts[id]
               PROVE  stays(desc)
    BY StepConsistent
  <2> DEFINE base == Units[unit].state
  <2>1. acts \in Seq(Act) /\ acts' \in Seq(Act) /\ unit' = unit /\ Grows(acts, acts')
    BY StepGrows
  <2>2. /\ readings[desc] = Reading(base, acts, desc, follow)
        /\ readings'[desc] = Reading(base, acts', desc, follow)
    BY <2>1 DEF Consistent, Read
  <2>3. PICK read : ReadUp(base, acts, desc, follow, read)
    BY <2>1, ReadingUp
  <2>4. PICK read2 : ReadUp(base, acts', desc, follow, read2)
    BY <2>1, ReadingUp
  <2> DEFINE h == read[Len(acts)]
             k == read2[Len(acts')]
  <2>5. readings[desc] = Finished(h) /\ readings'[desc] = Finished(k)
    BY <2>2, <2>3, <2>4 DEF ReadUp
  <2>6. Finished(h).active = h.active
    BY DEF Finished, ReadAs
  <2>7. StillRead(h, k)
    <3>1. \A id \in h.active : acts'[id] = acts[id]
      BY <2>5, <2>6
    <3> HIDE DEF base
    <3> QED BY <2>1, <2>3, <2>4, <3>1, ReadAlike
  <2> HIDE DEF h, k
  <2> QED BY <2>5, <2>7 DEF StillRead, Finished, ReadAs
<1> QED BY <1>1, StaysConsistent, PTL DEF Spec

\* Whatever arrives, and whatever it names, crosses and voids, nobody else may
\* settle an open vote than those its own state counts, as long as no act
\* already read is signed again (governance.ts: openRun, "the electorate is
\* frozen at the state the vote names").
THEOREM ElectoratesFrozen == Spec => ElectoratesStayFrozen
<1>1. Consistent /\ [Next]_vars =>
        [follow' = follow =>
           \A desc \in BOOLEAN :
             (\A id \in readings[desc].active : acts'[id] = acts[id]) => SameElectorates(desc)]_vars
  <2> SUFFICES ASSUME Consistent, Consistent', [Next]_vars, follow' = follow, NEW desc \in BOOLEAN,
                      \A id \in readings[desc].active : acts'[id] = acts[id]
               PROVE  SameElectorates(desc)
    BY StepConsistent
  <2> DEFINE base == Units[unit].state
  <2>1. "runs" \in DOMAIN base /\ DOMAIN base.runs = {}
    BY StartsWithoutVotes
  <2>2. acts \in Seq(Act) /\ acts' \in Seq(Act) /\ unit' = unit /\ Grows(acts, acts')
    BY StepGrows
  <2>3. /\ readings[desc] = Reading(base, acts, desc, follow)
        /\ readings'[desc] = Reading(base, acts', desc, follow)
    BY <2>2 DEF Consistent, Read
  <2> HIDE DEF base
  <2>4. LET st == Reading(base, acts, desc, follow).state
            st2 == Reading(base, acts', desc, follow).state
        IN  \A run \in DOMAIN st.runs \cap DOMAIN st2.runs : st.runs[run].electorate = st2.runs[run].electorate
    BY <2>1, <2>2, <2>3, VotesAlike
  <2> QED BY <2>3, <2>4 DEF SameElectorates, State
<1> QED BY <1>1, StaysConsistent, PTL DEF Spec, ElectoratesStayFrozen
=============================================================================
