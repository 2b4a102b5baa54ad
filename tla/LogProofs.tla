----------------------------- MODULE LogProofs -----------------------------
(***************************************************************************)
(* The accountability log never accuses itself, keeps what it said it      *)
(* recorded, and reads as an append-only log, whatever crashes between its *)
(* writes or within them, however often the disk fails, and however long   *)
(* it runs. What has to be carried along is where memory, the log file and *)
(* the meta file agree: always at the start of a chain that was never      *)
(* damaged, and otherwise as far as a break is declared. A terminal that   *)
(* keeps the roots it saw accuses such a log of nothing: they are the      *)
(* roots of what it was as it grew. And an operator who is handed an entry *)
(* with its audit path finds it under the root, and no other entry there,  *)
(* in a tree of any size.                                                  *)
(***************************************************************************)
EXTENDS LogReview, TLAPS, SequenceTheorems, WellFoundedInduction

\* An entry read whole.
Whole == [id : Nat, prev : Nat, at : Nat]
Lines == Whole \cup {Torn}

Metas == [torn : BOOLEAN, startsAt : Nat, breaks : BOOLEAN]

\* `log` is what readEntries makes of the lines `file`.
IsRead(file, log) ==
    /\ log \in Seq(Whole) /\ Len(log) <= Len(file)
    /\ \A i \in 1 .. Len(log) : log[i] = file[i]
    /\ Len(log) < Len(file) => file[Len(log) + 1] = Torn

TornIn(file) == {i \in DOMAIN file : file[i] = Torn}

-----------------------------------------------------------------------------
LEMMA WholeIsNotTorn == Torn \notin Whole
BY DEF Torn, Whole, Entry

LEMMA ThereIsAFirst ==
  ASSUME NEW S \in SUBSET Nat, S # {}
  PROVE  \E i \in S : \A j \in S : i <= j
<1>1. \E i \in S : \A j \in S : <<j, i>> \notin OpToRel(<, Nat)
  BY NatLessThanWellFounded, WFMin
<1>2. PICK i \in S : \A j \in S : ~(j < i)
  BY <1>1 DEF OpToRel
<1> QED BY <1>2

\* The lines up to a first torn one, all of them if there is none, are read.
LEMMA ReadUpTo ==
  ASSUME NEW file \in Seq(Lines), NEW n \in 0 .. Len(file),
         \A i \in 1 .. n : file[i] # Torn,
         n < Len(file) => file[n + 1] = Torn
  PROVE  IsRead(file, SubSeq(file, 1, n))
<1>1. \A i \in 1 .. n : file[i] \in Whole
  BY ElementOfSeq DEF Lines
<1>2. /\ SubSeq(file, 1, n) \in Seq(Whole)
      /\ Len(SubSeq(file, 1, n)) = n
      /\ \A i \in 1 .. n : SubSeq(file, 1, n)[i] = file[i]
  BY <1>1, SubSeqProperties
<1> QED BY <1>2, LenProperties DEF IsRead

\* What is read is unique.
LEMMA ReadOnce ==
  ASSUME NEW file \in Seq(Lines), NEW log1, NEW log2,
         IsRead(file, log1), IsRead(file, log2)
  PROVE  log1 = log2
<1>1. /\ log1 \in Seq(Whole) /\ log2 \in Seq(Whole)
      /\ Len(log1) \in Nat /\ Len(log2) \in Nat /\ Len(file) \in Nat
  BY LenProperties DEF IsRead
<1>2. ASSUME NEW a \in Seq(Whole), NEW b \in Seq(Whole), IsRead(file, a), IsRead(file, b),
             Len(a) < Len(b)
      PROVE  FALSE
  <2>1. Len(a) \in Nat /\ Len(b) \in Nat /\ Len(file) \in Nat
    BY LenProperties
  <2>2. Len(a) + 1 \in 1 .. Len(b) /\ Len(a) < Len(file)
    BY <1>2, <2>1 DEF IsRead
  <2>3. file[Len(a) + 1] = Torn /\ b[Len(a) + 1] = file[Len(a) + 1]
    BY <1>2, <2>2 DEF IsRead
  <2>4. b[Len(a) + 1] \in Whole
    BY <2>2, ElementOfSeq
  <2> QED BY <2>3, <2>4, WholeIsNotTorn
<1>3. Len(log1) = Len(log2)
  BY <1>1, <1>2
<1>4. \A i \in 1 .. Len(log1) : log1[i] = log2[i]
  BY <1>3 DEF IsRead
<1> QED BY <1>1, <1>3, <1>4, SeqEqual

\* readEntries, whose definition is over the file as it is now.
ReadOf(file) ==
    IF TornIn(file) = {} THEN file
    ELSE SubSeq(file, 1, (CHOOSE i \in TornIn(file) : \A j \in TornIn(file) : i <= j) - 1)

LEMMA ReadOfIs ==
  /\ Readable = ReadOf(lines) /\ FirstTorn = TornIn(lines)
  /\ Readable' = ReadOf(lines') /\ FirstTorn' = TornIn(lines')
BY DEF Readable, FirstTorn, ReadOf, TornIn

LEMMA ReadOfReads ==
  ASSUME NEW file \in Seq(Lines)
  PROVE  IsRead(file, ReadOf(file))
<1>0. Len(file) \in Nat /\ DOMAIN file = 1 .. Len(file)
  BY LenProperties
<1>1. CASE TornIn(file) = {}
  <2>1. \A i \in 1 .. Len(file) : file[i] # Torn
    BY <1>0, <1>1 DEF TornIn
  <2>2. IsRead(file, SubSeq(file, 1, Len(file)))
    BY <1>0, <2>1, ReadUpTo
  <2> QED BY <1>1, <2>2, SubSeqFull DEF ReadOf
<1>2. CASE TornIn(file) # {}
  <2> DEFINE first == CHOOSE i \in TornIn(file) : \A j \in TornIn(file) : i <= j
  <2>1. TornIn(file) \in SUBSET Nat
    BY <1>0 DEF TornIn
  <2>2. first \in TornIn(file) /\ \A j \in TornIn(file) : first <= j
    BY <1>2, <2>1, ThereIsAFirst
  <2> HIDE DEF first
  <2>3. first \in 1 .. Len(file) /\ file[first] = Torn
    BY <1>0, <2>2 DEF TornIn
  <2>4. \A i \in 1 .. first - 1 : file[i] # Torn
    BY <1>0, <2>2, <2>3 DEF TornIn
  <2>5. first - 1 \in 0 .. Len(file) /\ (first - 1) + 1 = first
    BY <1>0, <2>3
  <2>6. IsRead(file, SubSeq(file, 1, first - 1))
    BY <1>0, <2>3, <2>4, <2>5, ReadUpTo
  <2> QED BY <1>2, <2>6 DEF ReadOf, first
<1> QED BY <1>1, <1>2

\* Reading is reading whole: what was read is all there is unless a line is torn.
LEMMA ReadWhole ==
  ASSUME NEW file \in Seq(Lines)
  PROVE  /\ ReadOf(file) \in Seq(Whole)
         /\ TornIn(file) = {} => ReadOf(file) = file
         /\ TornIn(file) = {} <=> Len(ReadOf(file)) = Len(file)
<1>1. IsRead(file, ReadOf(file))
  BY ReadOfReads
<1>2. Len(file) \in Nat /\ DOMAIN file = 1 .. Len(file)
  BY LenProperties
<1>3. TornIn(file) = {} => ReadOf(file) = file
  BY DEF ReadOf
<1>4. ASSUME Len(ReadOf(file)) = Len(file), NEW i \in DOMAIN file PROVE file[i] # Torn
  <2>1. ReadOf(file)[i] = file[i] /\ ReadOf(file)[i] \in Whole
    BY <1>1, <1>2, <1>4, ElementOfSeq DEF IsRead
  <2> QED BY <2>1, WholeIsNotTorn
<1> QED BY <1>1, <1>3, <1>4 DEF IsRead, TornIn

\* A file of entries reads as itself.
LEMMA ReadEntries ==
  ASSUME NEW file \in Seq(Whole)
  PROVE  /\ file \in Seq(Lines) /\ TornIn(file) = {} /\ ReadOf(file) = file
<1>1. file \in Seq(Lines)
  BY SeqMonotonic DEF Lines
<1>2. \A i \in DOMAIN file : file[i] # Torn
  BY ElementOfSeq, LenProperties, WholeIsNotTorn
<1> QED BY <1>1, <1>2, ReadWhole DEF TornIn

\* A line at the end of a file read whole is read if it is whole; at the end of
\* any other file, or torn, it is not.
LEMMA ReadAppended ==
  ASSUME NEW file \in Seq(Lines), NEW line \in Lines
  PROVE  /\ Append(file, line) \in Seq(Lines)
         /\ TornIn(file) = {} /\ line # Torn =>
              /\ ReadOf(Append(file, line)) = Append(file, line)
              /\ TornIn(Append(file, line)) = {}
         /\ TornIn(file) # {} \/ line = Torn =>
              /\ ReadOf(Append(file, line)) = ReadOf(file)
              /\ TornIn(Append(file, line)) # {}
<1> DEFINE more == Append(file, line)
<1>1. /\ more \in Seq(Lines) /\ Len(file) \in Nat /\ Len(more) = Len(file) + 1
      /\ \A i \in 1 .. Len(file) : more[i] = file[i]
      /\ more[Len(file) + 1] = line
      /\ DOMAIN more = 1 .. Len(file) + 1 /\ DOMAIN file = 1 .. Len(file)
  BY AppendProperties, LenProperties
<1> HIDE DEF more
<1>2. ASSUME TornIn(file) = {}, line # Torn PROVE TornIn(more) = {} /\ ReadOf(more) = more
  <2>1. TornIn(more) = {}
    BY <1>1, <1>2 DEF TornIn
  <2> QED BY <1>1, <2>1, ReadWhole
<1>3. ASSUME TornIn(file) # {} \/ line = Torn PROVE TornIn(more) # {} /\ ReadOf(more) = ReadOf(file)
  <2>1. IsRead(file, ReadOf(file))
    BY ReadOfReads
  <2>2. Len(ReadOf(file)) \in Nat
    BY <2>1, LenProperties DEF IsRead
  <2>3. more[Len(ReadOf(file)) + 1] = Torn
    <3>1. CASE Len(ReadOf(file)) < Len(file)
      <4>1. Len(ReadOf(file)) + 1 \in 1 .. Len(file)
        BY <1>1, <2>2, <3>1
      <4> QED BY <1>1, <2>1, <3>1, <4>1 DEF IsRead
    <3>2. CASE Len(ReadOf(file)) = Len(file)
      BY <1>1, <1>3, <3>2, ReadWhole
    <3> QED BY <1>1, <2>1, <2>2, <3>1, <3>2 DEF IsRead
  <2>4. IsRead(more, ReadOf(file))
    BY <1>1, <2>1, <2>2, <2>3 DEF IsRead
  <2>5. ReadOf(more) = ReadOf(file)
    BY <1>1, <2>4, ReadOfReads, ReadOnce
  <2>6. Len(ReadOf(file)) + 1 \in DOMAIN more
    BY <1>1, <2>1, <2>2 DEF IsRead
  <2> QED BY <2>3, <2>5, <2>6 DEF TornIn
<1> QED BY <1>1, <1>2, <1>3 DEF more

\* A write that lands on the last line tears it, and what is read is what was, or
\* all of it but that line.
LEMMA ReadTornLast ==
  ASSUME NEW file \in Seq(Lines), file # <<>>
  PROVE  /\ [file EXCEPT ![Len(file)] = Torn] \in Seq(Lines)
         /\ TornIn([file EXCEPT ![Len(file)] = Torn]) # {}
         /\ \E n \in 0 .. Len(ReadOf(file)) :
              ReadOf([file EXCEPT ![Len(file)] = Torn]) = SubSeq(ReadOf(file), 1, n)
<1> DEFINE over == [file EXCEPT ![Len(file)] = Torn]
<1>1. Len(file) \in Nat \ {0} /\ Torn \in Lines
  BY EmptySeq DEF Lines
<1>2. /\ over \in Seq(Lines) /\ Len(over) = Len(file) /\ Len(file) \in DOMAIN over
      /\ \A i \in 1 .. Len(file) - 1 : over[i] = file[i]
      /\ over[Len(file)] = Torn
  <2>1. Len(file) \in 1 .. Len(file)
    BY <1>1
  <2> QED BY <1>1, <2>1, ExceptSeq, LenProperties
<1> HIDE DEF over
<1>3. TornIn(over) # {}
  BY <1>1, <1>2 DEF TornIn
<1>4. IsRead(file, ReadOf(file)) /\ ReadOf(file) \in Seq(Whole) /\ Len(ReadOf(file)) \in Nat
  BY ReadOfReads, ReadWhole, LenProperties
<1> DEFINE n == IF Len(ReadOf(file)) = Len(file) THEN Len(file) - 1 ELSE Len(ReadOf(file))
<1>5. n \in 0 .. Len(ReadOf(file)) /\ n < Len(file) /\ n \in 0 .. Len(over)
  BY <1>1, <1>2, <1>4 DEF IsRead
<1>6. over[n + 1] = Torn
  <2>1. CASE n + 1 = Len(file)
    BY <1>1, <1>2, <2>1
  <2>2. CASE n + 1 < Len(file)
    <3>1. n = Len(ReadOf(file)) /\ n + 1 \in 1 .. Len(file) - 1
      BY <1>1, <1>5, <2>2
    <3> QED BY <1>2, <1>4, <1>5, <2>2, <3>1 DEF IsRead
  <2> QED BY <1>1, <1>5, <2>1, <2>2
<1> HIDE DEF n
<1>7. /\ SubSeq(ReadOf(file), 1, n) \in Seq(Whole) /\ Len(SubSeq(ReadOf(file), 1, n)) = n
      /\ \A i \in 1 .. n : SubSeq(ReadOf(file), 1, n)[i] = ReadOf(file)[i]
  <2>1. \A i \in 1 .. n : ReadOf(file)[i] \in Whole
    BY <1>4, <1>5, ElementOfSeq
  <2> QED BY <1>5, <2>1, SubSeqProperties
<1>8. \A i \in 1 .. n : ReadOf(file)[i] = over[i]
  BY <1>1, <1>2, <1>4, <1>5 DEF IsRead
<1>9. IsRead(over, SubSeq(ReadOf(file), 1, n))
  BY <1>1, <1>2, <1>5, <1>6, <1>7, <1>8 DEF IsRead
<1>10. ReadOf(over) = SubSeq(ReadOf(file), 1, n)
  BY <1>2, <1>9, ReadOfReads, ReadOnce
<1> QED BY <1>2, <1>3, <1>5, <1>10 DEF over

\* What any write of a line does to the file and to what is read of it.
LEMMA WriteReads ==
  ASSUME lines \in Seq(Lines), tail \in BOOLEAN, tail => lines # <<>>,
         NEW line \in Lines, lines' = Written(line)
  PROVE  /\ lines' \in Seq(Lines) /\ lines' # <<>>
         /\ tail => /\ FirstTorn' # {}
                    /\ \E n \in 0 .. Len(Readable) : Readable' = SubSeq(Readable, 1, n)
         /\ ~tail => lines' = Append(lines, line)
         /\ ~tail /\ FirstTorn = {} /\ line # Torn =>
              FirstTorn' = {} /\ Readable' = Append(Readable, line)
         /\ ~tail /\ (FirstTorn # {} \/ line = Torn) =>
              FirstTorn' # {} /\ Readable' = Readable
<1>1. CASE tail
  <2>1. lines # <<>> /\ lines' = [lines EXCEPT ![Len(lines)] = Torn]
    BY <1>1 DEF Written
  <2>2. /\ lines' \in Seq(Lines) /\ FirstTorn' # {}
        /\ \E n \in 0 .. Len(Readable) : Readable' = SubSeq(Readable, 1, n)
    BY <2>1, ReadTornLast, ReadOfIs
  <2>3. lines' # <<>>
    BY <2>1, <2>2, ReadOfIs, LenProperties, EmptySeq DEF FirstTorn
  <2> QED BY <1>1, <2>2, <2>3
<1>2. CASE ~tail
  <2>1. lines' = Append(lines, line)
    BY <1>2 DEF Written
  <2>2. lines' \in Seq(Lines) /\ lines' # <<>>
    BY <2>1, AppendProperties
  <2>3. ASSUME FirstTorn = {}, line # Torn
        PROVE  FirstTorn' = {} /\ Readable' = Append(Readable, line)
    BY <2>1, <2>3, ReadAppended, ReadWhole, ReadOfIs
  <2>4. ASSUME FirstTorn # {} \/ line = Torn
        PROVE  FirstTorn' # {} /\ Readable' = Readable
    BY <2>1, <2>4, ReadAppended, ReadOfIs
  <2> QED BY <1>2, <2>1, <2>2, <2>3, <2>4
<1> QED BY <1>1, <1>2

-----------------------------------------------------------------------------
LEMMA IdsOfAppended ==
  ASSUME NEW S, NEW log \in Seq(S), NEW line \in S
  PROVE  Ids(Append(log, line)) = Ids(log) \cup {line.id}
<1>1. /\ Append(log, line) \in Seq(S) /\ Len(log) \in Nat
      /\ Len(Append(log, line)) = Len(log) + 1
      /\ \A i \in 1 .. Len(log) : Append(log, line)[i] = log[i]
      /\ Append(log, line)[Len(log) + 1] = line
  BY AppendProperties, LenProperties
<1>2. DOMAIN log = 1 .. Len(log) /\ DOMAIN Append(log, line) = 1 .. Len(log) + 1
  BY <1>1, LenProperties
<1>3. \A i \in DOMAIN Append(log, line) : i \in DOMAIN log \/ i = Len(log) + 1
  BY <1>1, <1>2
<1>4. DOMAIN log \subseteq DOMAIN Append(log, line) /\ Len(log) + 1 \in DOMAIN Append(log, line)
  BY <1>1, <1>2
<1> HIDE DEF Ids
<1>5. ASSUME NEW x \in Ids(Append(log, line)) PROVE x \in Ids(log) \cup {line.id}
  <2>1. PICK i \in DOMAIN Append(log, line) : x = Append(log, line)[i].id
    BY <1>5 DEF Ids
  <2> QED BY <1>1, <1>2, <1>3, <2>1 DEF Ids
<1>6. ASSUME NEW x \in Ids(log) PROVE x \in Ids(Append(log, line))
  <2>1. PICK i \in DOMAIN log : x = log[i].id
    BY <1>6 DEF Ids
  <2> QED BY <1>1, <1>2, <1>4, <2>1 DEF Ids
<1>7. line.id \in Ids(Append(log, line))
  BY <1>1, <1>4 DEF Ids
<1> QED BY <1>5, <1>6, <1>7

\* A log cut in two has every entry in one part or the other.
LEMMA IdsOfParts ==
  ASSUME NEW S, NEW log \in Seq(S), NEW k \in 1 .. Len(log)
  PROVE  Ids(log) \subseteq Ids(SubSeq(log, 1, k - 1)) \cup Ids(SubSeq(log, k, Len(log)))
<1>1. Len(log) \in Nat /\ DOMAIN log = 1 .. Len(log) /\ \A i \in 1 .. Len(log) : log[i] \in S
  BY LenProperties, ElementOfSeq
<1> DEFINE front == SubSeq(log, 1, k - 1)
           back == SubSeq(log, k, Len(log))
<1>2. /\ front \in Seq(S) /\ Len(front) = k - 1
      /\ \A i \in 1 .. k - 1 : front[i] = log[i]
  BY <1>1, SubSeqProperties
<1>3. /\ back \in Seq(S) /\ Len(back) = Len(log) - k + 1
      /\ \A i \in 1 .. Len(log) - k + 1 : back[i] = log[k + i - 1]
  BY <1>1, SubSeqProperties
<1> HIDE DEF front, back
<1>4. DOMAIN front = 1 .. k - 1 /\ DOMAIN back = 1 .. Len(log) - k + 1
  BY <1>2, <1>3, LenProperties
<1>5. ASSUME NEW i \in DOMAIN log PROVE log[i].id \in Ids(front) \cup Ids(back)
  <2>1. CASE i < k
    <3>1. i \in DOMAIN front /\ front[i] = log[i]
      BY <1>1, <1>2, <1>4, <2>1
    <3> QED BY <3>1 DEF Ids
  <2>2. CASE k <= i
    <3>1. i - k + 1 \in 1 .. Len(log) - k + 1 /\ k + (i - k + 1) - 1 = i
      BY <1>1, <2>2
    <3>2. i - k + 1 \in DOMAIN back /\ back[i - k + 1] = log[i]
      BY <1>3, <1>4, <3>1
    <3> QED BY <3>2 DEF Ids
  <2> QED BY <1>1, <2>1, <2>2
<1> QED BY <1>5 DEF Ids, front, back

\* appendEntry extends a verified chain, and gives an empty one its first entry
\* where the chain is declared to start at the beginning.
LEMMA ChainGrows ==
  ASSUME NEW log \in Seq(Whole), NEW start, NEW id, NEW at,
         Entry(id, LastHash(log), at) \in Whole,
         VerifyChain(log, start), log = <<>> => start = Genesis
  PROVE  VerifyChain(AppendEntry(log, id, at), start)
<1> DEFINE line == Entry(id, LastHash(log), at)
           more == Append(log, line)
<1>1. line \in Whole /\ line.prev = LastHash(log)
  BY DEF Entry
<1>2. /\ more \in Seq(Whole) /\ Len(log) \in Nat /\ Len(more) = Len(log) + 1
      /\ \A i \in 1 .. Len(log) : more[i] = log[i]
      /\ more[Len(log) + 1] = line
  BY <1>1, AppendProperties, LenProperties
<1>3. log = <<>> <=> Len(log) = 0
  BY EmptySeq
<1> HIDE DEF line, more
<1>4. more[1].prev = start
  <2>1. CASE log = <<>>
    BY <1>1, <1>2, <1>3, <2>1 DEF LastHash
  <2>2. CASE log # <<>>
    <3>1. 1 \in 1 .. Len(log)
      BY <1>2, <1>3, <2>2
    <3> QED BY <1>2, <2>2, <3>1 DEF VerifyChain
  <2> QED BY <2>1, <2>2
<1>5. ASSUME NEW i \in 2 .. Len(more) PROVE more[i].prev = more[i - 1].id
  <2>1. CASE i = Len(log) + 1
    <3>1. Len(log) \in 1 .. Len(log) /\ log # <<>> /\ i - 1 = Len(log)
      BY <1>2, <1>3, <1>5, <2>1
    <3> QED BY <1>1, <1>2, <2>1, <3>1 DEF LastHash
  <2>2. CASE i # Len(log) + 1
    <3>1. i \in 2 .. Len(log) /\ i \in 1 .. Len(log) /\ i - 1 \in 1 .. Len(log)
      BY <1>2, <1>5, <2>2
    <3> QED BY <1>2, <3>1 DEF VerifyChain, Contiguous
  <2> QED BY <2>1, <2>2
<1> QED BY <1>4, <1>5 DEF VerifyChain, Contiguous, AppendEntry, more, line

\* A rotation that declares the entry before the first it keeps as the start
\* leaves a chain that verifies from there.
LEMMA ChainRotates ==
  ASSUME NEW log \in Seq(Whole), NEW start, VerifyChain(log, start),
         NEW k \in 2 .. Len(log)
  PROVE  VerifyChain(SubSeq(log, k, Len(log)), log[k - 1].id)
<1>1. Len(log) \in Nat /\ \A i \in 1 .. Len(log) : log[i] \in Whole
  BY LenProperties, ElementOfSeq
<1> DEFINE back == SubSeq(log, k, Len(log))
<1>2. /\ Len(back) = Len(log) - k + 1
      /\ \A i \in 1 .. Len(log) - k + 1 : back[i] = log[k + i - 1]
  BY <1>1, SubSeqProperties
<1> HIDE DEF back
<1>3. back[1].prev = log[k - 1].id
  <2>1. 1 \in 1 .. Len(log) - k + 1 /\ k + 1 - 1 = k
    BY <1>1
  <2> QED BY <1>2, <2>1 DEF VerifyChain, Contiguous
<1>4. ASSUME NEW i \in 2 .. Len(back) PROVE back[i].prev = back[i - 1].id
  <2>1. /\ i \in 1 .. Len(log) - k + 1 /\ i - 1 \in 1 .. Len(log) - k + 1
        /\ k + i - 1 \in 2 .. Len(log) /\ k + (i - 1) - 1 = (k + i - 1) - 1
    BY <1>1, <1>2
  <2> QED BY <1>2, <2>1 DEF VerifyChain, Contiguous
<1> QED BY <1>3, <1>4 DEF VerifyChain, Contiguous, back

Types ==
    /\ clock \in Nat /\ used \in Nat /\ faults \in Nat /\ stops \in Nat
    /\ lines \in Seq(Lines) /\ mem \in Seq(Whole)
    /\ tail \in BOOLEAN /\ damaged \in BOOLEAN
    /\ meta \in Metas /\ memMeta \in Metas
    /\ proc \in {"down", "opened", "renamed", "up", "unrecorded"}

\* A file that does not end in a newline was cut short.
TailIsDamage == tail => damaged /\ lines # <<>>

\* A process that has opened its log holds what was read of it, and has declared
\* a break if it could not read it all.
OpenedIsRead ==
    proc = "opened" =>
        /\ mem = Readable /\ memMeta = meta /\ ~meta.torn
        /\ FirstTorn # {} => meta.breaks

\* Between the rename of a rotation and its meta file, the log is what memory is.
RenamedIsKept ==
    proc = "renamed" =>
        /\ lines = mem /\ mem # <<>> /\ ~tail
        /\ ~meta.torn /\ ~memMeta.torn /\ memMeta.breaks = meta.breaks

\* What a recording process knows of breaks the meta file says, or it is torn.
UpIsDeclared == proc = "up" => meta.torn \/ meta.breaks = memMeta.breaks

\* The process holds a log.
Holds == proc \in {"opened", "renamed", "up"}

\* The start the chain is to be verified from.
Start == IF proc = "renamed" THEN memMeta.startsAt ELSE meta.startsAt

\* Nothing damaged: whole lines, no break, and a chain from the declared start.
UndamagedIsIntact ==
    ~damaged =>
        /\ FirstTorn = {} /\ ~meta.torn /\ ~meta.breaks /\ ~memMeta.breaks
        /\ VerifyChain(lines, Start)
        /\ lines = <<>> => meta.startsAt = Genesis
        /\ Holds => mem = lines
        /\ proc \in {"opened", "up"} => memMeta = meta

\* The disk never failed a write: whole lines, and every entry recorded.
FaultlessIsWhole ==
    faults = 0 =>
        /\ FirstTorn = {} /\ ~tail
        /\ Holds => mem = lines
        /\ recorded \subseteq Ids(lines) \cup expired

\* An entry recorded and not on disk left a torn line there, until a rotation by
\* a process that had declared a break.
LossIsSeen ==
    ~meta.torn /\ FirstTorn = {} =>
        meta.breaks \/ recorded \subseteq Ids(lines) \cup expired

\* An entry recorded and not in memory either is a break declared.
LossIsDeclared ==
    Holds => memMeta.breaks \/ recorded \subseteq Ids(mem) \cup expired

IInv ==
    /\ Types /\ TailIsDamage /\ OpenedIsRead /\ RenamedIsKept /\ UpIsDeclared
    /\ UndamagedIsIntact /\ FaultlessIsWhole /\ LossIsSeen /\ LossIsDeclared

-----------------------------------------------------------------------------
LEMMA ReadableTyped ==
  ASSUME Types
  PROVE  /\ Readable \in Seq(Whole)
         /\ FirstTorn = {} => Readable = lines
BY ReadOfIs, ReadWhole DEF Types

\* The entry record() chains to what memory holds.
LEMMA EntryFacts ==
  ASSUME Types
  PROVE  /\ Next1 \in Seq(Whole) /\ Line \in Whole /\ Line \in Lines /\ Line # Torn
         /\ Next1 = Append(mem, Line) /\ Next1 = AppendEntry(mem, used + 1, clock)
         /\ Line = Entry(used + 1, LastHash(mem), clock)
<1> DEFINE line == Entry(used + 1, LastHash(mem), clock)
<1>1. LastHash(mem) \in Nat
  <2>1. CASE mem = <<>>
    BY <2>1 DEF LastHash, Genesis
  <2>2. CASE mem # <<>>
    <3>1. Len(mem) \in 1 .. Len(mem)
      BY <2>2, EmptySeq DEF Types
    <3>2. mem[Len(mem)] \in Whole
      BY <3>1, ElementOfSeq DEF Types
    <3> QED BY <2>2, <3>2 DEF LastHash, Whole
  <2> QED BY <2>1, <2>2
<1>2. line \in Whole
  BY <1>1 DEF Types, Whole, Entry
<1>3. Next1 = Append(mem, line)
  BY DEF Next1, AppendEntry
<1> HIDE DEF line
<1>4. Next1 \in Seq(Whole) /\ Next1[Len(Next1)] = line
  <2>1. Len(mem) \in Nat
    BY LenProperties DEF Types
  <2> QED BY <1>2, <1>3, <2>1, AppendProperties DEF Types
<1>5. Line = line
  BY <1>4 DEF Line
<1> QED BY <1>2, <1>3, <1>4, <1>5, WholeIsNotTorn DEF Lines, Next1, line

\* What a rotation keeps is a back of what memory holds, and not nothing.
LEMMA KeptFacts ==
  ASSUME Types, Rotates
  PROVE  /\ FirstKept \in 2 .. Len(mem)
         /\ Kept = SubSeq(mem, FirstKept, Len(mem))
         /\ Kept \in Seq(Whole) /\ Kept # <<>>
         /\ mem[FirstKept - 1].id \in Nat
<1>1. Len(mem) \in Nat /\ DOMAIN mem = 1 .. Len(mem) /\ \A i \in 1 .. Len(mem) : mem[i] \in Whole
  BY LenProperties, ElementOfSeq DEF Types
<1>2. Young \in SUBSET Nat /\ Young \subseteq 1 .. Len(mem)
  BY <1>1 DEF Young
<1>3. FirstKept \in Young
  BY <1>2, ThereIsAFirst DEF Rotates, FirstKept
<1>4. FirstKept \in 2 .. Len(mem)
  BY <1>1, <1>2, <1>3 DEF Rotates
<1> HIDE DEF FirstKept
<1>5. /\ SubSeq(mem, FirstKept, Len(mem)) \in Seq(Whole)
      /\ Len(SubSeq(mem, FirstKept, Len(mem))) = Len(mem) - FirstKept + 1
  BY <1>1, <1>4, SubSeqProperties
<1>6. Len(mem) - FirstKept + 1 # 0
  BY <1>1, <1>4
<1>7. SubSeq(mem, FirstKept, Len(mem)) # <<>>
  BY <1>5, <1>6, EmptySeq
<1>8. mem[FirstKept - 1].id \in Nat
  BY <1>1, <1>4 DEF Whole
<1> QED BY <1>4, <1>5, <1>7, <1>8 DEF Kept

-----------------------------------------------------------------------------
LEMMA InitIInv == Init => IInv
<1> SUFFICES ASSUME Init PROVE IInv
  OBVIOUS
<1>1. lines = <<>> /\ lines \in Seq(Whole) /\ lines \in Seq(Lines) /\ mem \in Seq(Whole) /\ Len(lines) = 0
  BY EmptySeq DEF Init
<1>2. NoMeta \in Metas
  BY DEF NoMeta, Metas, Genesis
<1>3. Types
  BY <1>1, <1>2 DEF Init, Types
<1>4. FirstTorn = {}
  BY <1>1, ReadEntries, ReadOfIs
<1>5. VerifyChain(lines, Start)
  BY <1>1 DEF VerifyChain, Contiguous
<1>6. proc = "down" /\ ~tail /\ ~damaged /\ recorded = {} /\ meta = NoMeta /\ memMeta = NoMeta
  BY DEF Init
<1>7. UndamagedIsIntact
  BY <1>4, <1>5, <1>6 DEF UndamagedIsIntact, NoMeta, Holds
<1>8. FaultlessIsWhole /\ LossIsSeen /\ LossIsDeclared
  BY <1>4, <1>6 DEF FaultlessIsWhole, LossIsSeen, LossIsDeclared, Holds
<1>9. TailIsDamage /\ OpenedIsRead /\ RenamedIsKept /\ UpIsDeclared
  BY <1>6 DEF TailIsDamage, OpenedIsRead, RenamedIsKept, UpIsDeclared
<1> QED BY <1>3, <1>7, <1>8, <1>9 DEF IInv

\* A start that reads a broken chain, or part of one, declares the break; one that
\* reads it whole has every entry recorded, or a break was declared before.
LEMMA OpenStep == ASSUME IInv, Open PROVE IInv'
<1> USE DEF IInv
<1>1. /\ proc = "down" /\ proc' = "opened" /\ ~meta.torn /\ mem' = Readable
      /\ meta' = memMeta' /\ UNCHANGED <<clock, lines, tail, ghosts>>
      /\ memMeta' = [meta EXCEPT !.breaks = @ \/ ~Intact]
  BY DEF Open
<1>2. /\ meta'.torn = meta.torn /\ meta'.startsAt = meta.startsAt
      /\ meta'.breaks = (meta.breaks \/ ~Intact) /\ meta' \in Metas
  BY <1>1 DEF Types, Metas
<1>3. Readable' = Readable /\ FirstTorn' = FirstTorn
  BY <1>1, ReadOfIs
<1>4. Readable \in Seq(Whole) /\ (FirstTorn = {} => Readable = lines)
  BY ReadableTyped
<1>5. FirstTorn # {} => ~Intact
  BY DEF Intact
<1>6. Types' /\ TailIsDamage'
  BY <1>1, <1>2, <1>4 DEF Types, TailIsDamage, ghosts
<1>7. OpenedIsRead'
  BY <1>1, <1>2, <1>3, <1>5 DEF OpenedIsRead
<1>8. RenamedIsKept' /\ UpIsDeclared'
  BY <1>1 DEF RenamedIsKept, UpIsDeclared
<1>9. UndamagedIsIntact'
  <2>1. ASSUME ~damaged PROVE Intact /\ FirstTorn = {} /\ VerifyChain(lines, meta.startsAt)
    BY <1>1, <1>4, <2>1 DEF UndamagedIsIntact, Intact, Start
  <2> QED BY <1>1, <1>2, <1>3, <1>4, <2>1 DEF UndamagedIsIntact, Start, Holds, ghosts
<1>10. FaultlessIsWhole' /\ LossIsSeen' /\ LossIsDeclared'
  <2>1. UNCHANGED <<recorded, expired, faults>>
    BY <1>1 DEF ghosts
  <2>2. Ids(lines)' = Ids(lines)
    BY <1>1 DEF Ids
  <2>3. FaultlessIsWhole'
    BY <1>1, <1>3, <1>4, <2>1, <2>2 DEF FaultlessIsWhole
  <2>4. LossIsSeen'
    BY <1>1, <1>2, <1>3, <2>1, <2>2 DEF LossIsSeen
  <2>5. LossIsDeclared'
    <3>1. CASE Intact
      <4>1. FirstTorn = {} /\ mem' = lines
        BY <1>1, <1>4, <1>5, <3>1
      <4> QED BY <1>1, <1>2, <2>1, <4>1 DEF LossIsSeen, LossIsDeclared
    <3>2. CASE ~Intact
      BY <1>1, <1>2, <3>2 DEF LossIsDeclared
    <3> QED BY <3>1, <3>2
  <2> QED BY <2>3, <2>4, <2>5
<1> QED BY <1>6, <1>7, <1>8, <1>9, <1>10

\* What leaves the log file, its meta file and what was recorded alone, and holds
\* what it held or nothing.
LEMMA OtherSteps ==
  ASSUME IInv, OpenThrows \/ NothingToRotate \/ Tick \/ Crash \/ UNCHANGED vars
  PROVE  IInv'
<1> USE DEF IInv
<1>1. /\ UNCHANGED <<lines, tail, meta, recorded, expired, faults, used>>
      /\ clock' \in Nat /\ stops' \in Nat
  BY DEF OpenThrows, NothingToRotate, Tick, Crash, Stopped, Types, disk, process, ghosts, vars
<1>2. Readable' = Readable /\ FirstTorn' = FirstTorn
  BY <1>1, ReadOfIs
<1>3. \/ UNCHANGED <<proc, mem, memMeta, damaged>>
      \/ proc = "opened" /\ proc' = "up" /\ UNCHANGED <<mem, memMeta, damaged>>
      \/ proc = "down" /\ meta.torn /\ proc' = "unrecorded" /\ UNCHANGED <<mem, memMeta, damaged>>
      \/ /\ proc # "down" /\ proc' = "down" /\ mem' = <<>> /\ memMeta' = NoMeta
         /\ damaged' = (damaged \/ proc = "renamed")
  BY DEF OpenThrows, NothingToRotate, Tick, Crash, Stopped, disk, process, ghosts, vars
<1>4. NoMeta \in Metas /\ NoMeta.breaks = FALSE /\ <<>> \in Seq(Whole)
  BY EmptySeq DEF NoMeta, Metas, Genesis
<1>5. Types' /\ TailIsDamage'
  BY <1>1, <1>3, <1>4 DEF Types, TailIsDamage
<1>6. OpenedIsRead' /\ RenamedIsKept' /\ UpIsDeclared'
  BY <1>1, <1>2, <1>3 DEF OpenedIsRead, RenamedIsKept, UpIsDeclared
<1>7. UndamagedIsIntact'
  <2>1. ASSUME ~damaged'
        PROVE  /\ ~damaged /\ Start' = Start
               /\ ~memMeta'.breaks /\ (proc' \in {"opened", "up"} => memMeta' = meta)
    <3>1. ~damaged /\ ~meta.torn /\ ~memMeta.breaks /\ (proc \in {"opened", "up"} => memMeta = meta)
      BY <1>3, <2>1 DEF UndamagedIsIntact, Types
    <3>2. ~memMeta'.breaks /\ (proc' \in {"opened", "up"} => memMeta' = meta)
      BY <1>3, <1>4, <3>1
    <3>3. ~(proc' # "renamed" /\ proc = "renamed") /\ (proc' = "renamed" => UNCHANGED <<proc, memMeta>>)
      BY <1>3, <2>1
    <3> QED BY <1>1, <3>1, <3>2, <3>3 DEF Start
  <2>2. Holds' => Holds /\ mem' = mem
    BY <1>3 DEF Holds
  <2> QED BY <1>1, <1>2, <2>1, <2>2 DEF UndamagedIsIntact
<1>8. FaultlessIsWhole' /\ LossIsSeen' /\ LossIsDeclared'
  <2>1. Ids(lines)' = Ids(lines)
    BY <1>1 DEF Ids
  <2>2. Holds' => Holds /\ mem' = mem /\ memMeta' = memMeta
    BY <1>3 DEF Holds
  <2>3. FaultlessIsWhole'
    BY <1>1, <1>2, <2>1, <2>2 DEF FaultlessIsWhole
  <2>4. LossIsSeen'
    BY <1>1, <1>2, <2>1 DEF LossIsSeen
  <2>5. LossIsDeclared'
    BY <1>1, <2>2 DEF LossIsDeclared, Ids
  <2> QED BY <2>3, <2>4, <2>5
<1> QED BY <1>5, <1>6, <1>7, <1>8

\* A meta file cut short is damage, and what it declared is lost with it.
LEMMA MetaTorn ==
  ASSUME IInv, UNCHANGED <<clock, lines, tail, recorded, expired, used>>,
         meta' = [NoMeta EXCEPT !.torn = TRUE], damaged' = TRUE,
         \/ proc' = "down" /\ mem' = <<>> /\ memMeta' = NoMeta /\ UNCHANGED faults
         \/ /\ proc = "renamed" /\ proc' = "up" /\ UNCHANGED <<mem, memMeta>>
            /\ faults' = faults + 1,
         stops' \in Nat
  PROVE  IInv'
<1> USE DEF IInv
<1>1. Readable' = Readable /\ FirstTorn' = FirstTorn
  BY ReadOfIs
<1>2. NoMeta \in Metas /\ meta' \in Metas /\ meta'.torn /\ <<>> \in Seq(Whole)
  BY EmptySeq DEF NoMeta, Metas, Genesis
<1>3. Types' /\ TailIsDamage'
  <2>1. /\ faults' \in Nat /\ mem' \in Seq(Whole) /\ memMeta' \in Metas
        /\ proc' \in {"down", "opened", "renamed", "up", "unrecorded"}
    <3>1. CASE proc' = "down" /\ mem' = <<>> /\ memMeta' = NoMeta /\ UNCHANGED faults
      BY <1>2, <3>1 DEF Types
    <3>2. CASE proc' = "up" /\ UNCHANGED <<mem, memMeta>> /\ faults' = faults + 1
      BY <1>2, <3>2 DEF Types
    <3> QED BY <3>1, <3>2
  <2> QED BY <1>2, <2>1 DEF Types, TailIsDamage
<1>4. OpenedIsRead' /\ RenamedIsKept' /\ UpIsDeclared' /\ LossIsSeen'
  BY <1>2 DEF OpenedIsRead, RenamedIsKept, UpIsDeclared, LossIsSeen
<1>5. UndamagedIsIntact'
  BY DEF UndamagedIsIntact
<1>6. FaultlessIsWhole'
  <2>1. Ids(lines)' = Ids(lines)
    BY DEF Ids
  <2>2. faults' = 0 => faults = 0 /\ ~Holds'
    BY DEF Types, Holds
  <2> QED BY <1>1, <2>1, <2>2 DEF FaultlessIsWhole
<1>7. LossIsDeclared'
  BY DEF LossIsDeclared, Holds, Ids
<1> QED BY <1>3, <1>4, <1>5, <1>6, <1>7

\* A rotation keeps a chain that verifies from the entry before it, and drops
\* nothing but what has expired.
LEMMA RenameStep == ASSUME IInv, RotateRename PROVE IInv'
<1> USE DEF IInv
<1>1. /\ proc = "opened" /\ Rotates /\ lines' = Kept /\ tail' = FALSE /\ mem' = Kept
      /\ memMeta' = [memMeta EXCEPT !.startsAt = mem[FirstKept - 1].id]
      /\ expired' = expired \cup Ids(SubSeq(mem, 1, FirstKept - 1))
      /\ proc' = "renamed"
      /\ UNCHANGED <<clock, meta, recorded, damaged, faults, stops, used>>
  BY DEF RotateRename
<1>2. /\ FirstKept \in 2 .. Len(mem) /\ Kept = SubSeq(mem, FirstKept, Len(mem))
      /\ Kept \in Seq(Whole) /\ Kept # <<>> /\ mem[FirstKept - 1].id \in Nat
  BY <1>1, KeptFacts
<1>3. mem = Readable /\ memMeta = meta /\ ~meta.torn /\ (FirstTorn # {} => meta.breaks)
  BY <1>1 DEF OpenedIsRead
<1>4. lines' \in Seq(Lines) /\ FirstTorn' = {}
  BY <1>1, <1>2, ReadEntries, ReadOfIs
<1>5. /\ memMeta' \in Metas /\ memMeta'.breaks = meta.breaks /\ ~memMeta'.torn
      /\ memMeta'.startsAt = mem[FirstKept - 1].id
  BY <1>1, <1>2, <1>3 DEF Types, Metas
<1> HIDE DEF FirstKept, Kept
<1>6. Types' /\ TailIsDamage'
  BY <1>1, <1>2, <1>4, <1>5 DEF Types, TailIsDamage
<1>7. OpenedIsRead' /\ RenamedIsKept' /\ UpIsDeclared'
  BY <1>1, <1>2, <1>3, <1>5 DEF OpenedIsRead, RenamedIsKept, UpIsDeclared
<1>8. UndamagedIsIntact'
  <2>1. ASSUME ~damaged PROVE VerifyChain(lines', memMeta'.startsAt)
    <3>1. mem = lines /\ VerifyChain(mem, meta.startsAt)
      BY <1>1, <2>1 DEF UndamagedIsIntact, Start, Holds
    <3> QED BY <1>1, <1>2, <1>5, <3>1, ChainRotates DEF Types
  <2>2. lines' # <<>> /\ mem' = lines'
    BY <1>1, <1>2
  <2> QED BY <1>1, <1>3, <1>4, <1>5, <2>1, <2>2 DEF UndamagedIsIntact, Start
<1>9. Ids(mem) \cup expired \subseteq Ids(Kept) \cup expired'
  <2>1. FirstKept \in 1 .. Len(mem)
    BY <1>2
  <2>2. Ids(mem) \subseteq Ids(SubSeq(mem, 1, FirstKept - 1)) \cup Ids(Kept)
    BY <1>2, <2>1, IdsOfParts DEF Types
  <2> QED BY <1>1, <2>2
<1>10. Ids(lines)' = Ids(Kept) /\ Ids(mem)' = Ids(Kept)
  BY <1>1 DEF Ids
<1>11. memMeta.breaks \/ recorded \subseteq Ids(Kept) \cup expired'
  BY <1>1, <1>9 DEF LossIsDeclared, Holds
<1>12. FaultlessIsWhole'
  <2>1. faults = 0 => recorded \subseteq Ids(mem) \cup expired
    BY <1>1 DEF FaultlessIsWhole, Holds
  <2> QED BY <1>1, <1>4, <1>9, <1>10, <2>1 DEF FaultlessIsWhole
<1>13. LossIsSeen' /\ LossIsDeclared'
  BY <1>1, <1>3, <1>5, <1>10, <1>11 DEF LossIsSeen, LossIsDeclared
<1> QED BY <1>6, <1>7, <1>8, <1>12, <1>13

\* With the new start written, disk and memory agree again.
LEMMA RotateMetaStep == ASSUME IInv, RotateMeta PROVE IInv'
<1> USE DEF IInv
<1>1. /\ proc = "renamed" /\ meta' = memMeta /\ proc' = "up"
      /\ UNCHANGED <<clock, lines, tail, mem, memMeta, recorded, expired, damaged, faults, stops, used>>
  BY DEF RotateMeta, ghosts
<1>2. /\ lines = mem /\ mem # <<>> /\ ~tail /\ ~meta.torn /\ memMeta.breaks = meta.breaks
  BY <1>1 DEF RenamedIsKept
<1>3. FirstTorn' = FirstTorn /\ Ids(lines)' = Ids(lines) /\ Ids(mem)' = Ids(mem)
  BY <1>1, ReadOfIs DEF Ids
<1>4. Types' /\ TailIsDamage' /\ OpenedIsRead' /\ RenamedIsKept' /\ UpIsDeclared'
  BY <1>1 DEF Types, TailIsDamage, OpenedIsRead, RenamedIsKept, UpIsDeclared
<1>5. ~memMeta.torn
  BY <1>1 DEF RenamedIsKept
<1>6. UndamagedIsIntact'
  BY <1>1, <1>2, <1>3, <1>5 DEF UndamagedIsIntact, Start, Holds
<1>7. FaultlessIsWhole' /\ LossIsSeen' /\ LossIsDeclared'
  BY <1>1, <1>2, <1>3 DEF FaultlessIsWhole, LossIsSeen, LossIsDeclared, Holds
<1> QED BY <1>4, <1>6, <1>7

\* A write by a recording process: of its line and the newline, synced or not, or
\* of a part of it. If no line is torn after it, the line was appended to a file read whole.
LEMMA WriteFacts ==
  ASSUME IInv, NEW line \in {Torn, Line}, lines' = Written(line),
         \/ line = Line /\ tail' = FALSE /\ UNCHANGED <<damaged, faults>>
         \/ tail' \in BOOLEAN /\ damaged' = TRUE /\ faults' = faults + 1
  PROVE  /\ lines' \in Seq(Lines) /\ lines' # <<>> /\ faults' \in Nat
         /\ damaged' \in BOOLEAN /\ tail' \in BOOLEAN
         /\ TailIsDamage'
         /\ FirstTorn' = {} =>
              FirstTorn = {} /\ lines' = Append(lines, Line) /\ Ids(lines)' = Ids(lines) \cup {Line.id}
         /\ ~damaged' => FirstTorn' = {} /\ ~damaged /\ ~tail' /\ faults' = faults
         /\ faults' = 0 => FirstTorn' = {} /\ faults = 0 /\ ~tail'
<1> USE DEF IInv
<1>1. line \in Lines /\ Line # Torn /\ Line \in Lines
  BY EntryFacts DEF Lines
<1>2. /\ lines \in Seq(Lines) /\ tail \in BOOLEAN /\ (tail => lines # <<>>)
      /\ faults \in Nat /\ damaged \in BOOLEAN
  BY DEF Types, TailIsDamage
<1>3. /\ lines' \in Seq(Lines) /\ lines' # <<>>
      /\ tail => FirstTorn' # {}
      /\ ~tail => lines' = Append(lines, line)
      /\ ~tail /\ FirstTorn = {} /\ line # Torn => FirstTorn' = {}
      /\ ~tail /\ (FirstTorn # {} \/ line = Torn) => FirstTorn' # {}
  BY <1>1, <1>2, WriteReads
<1>4. ASSUME FirstTorn' = {}
      PROVE  FirstTorn = {} /\ lines' = Append(lines, Line) /\ Ids(lines)' = Ids(lines) \cup {Line.id}
  <2>1. FirstTorn = {} /\ lines' = Append(lines, Line)
    BY <1>2, <1>3, <1>4
  <2>2. Ids(lines)' = Ids(lines')
    BY DEF Ids
  <2> QED BY <1>1, <1>2, <2>1, <2>2, IdsOfAppended
<1>5. ASSUME ~damaged' PROVE FirstTorn' = {} /\ ~damaged /\ ~tail' /\ faults' = faults
  <2>1. ~damaged /\ line = Line /\ ~tail' /\ faults' = faults
    BY <1>5
  <2>2. ~tail /\ FirstTorn = {}
    BY <2>1 DEF TailIsDamage, UndamagedIsIntact
  <2> QED BY <1>1, <1>3, <2>1, <2>2
<1>6. ASSUME faults' = 0 PROVE FirstTorn' = {} /\ faults = 0 /\ ~tail'
  <2>1. faults = 0 /\ line = Line /\ ~tail'
    BY <1>2, <1>6
  <2>2. ~tail /\ FirstTorn = {}
    BY <2>1 DEF FaultlessIsWhole
  <2> QED BY <1>1, <1>3, <2>1, <2>2
<1>7. faults' \in Nat /\ damaged' \in BOOLEAN /\ tail' \in BOOLEAN
  <2>1. CASE tail' = FALSE /\ UNCHANGED <<damaged, faults>>
    BY <1>2, <2>1
  <2>2. CASE tail' \in BOOLEAN /\ damaged' = TRUE /\ faults' = faults + 1
    BY <1>2, <2>2
  <2> QED BY <2>1, <2>2
<1>8. TailIsDamage'
  BY <1>3 DEF TailIsDamage
<1> QED BY <1>3, <1>4, <1>5, <1>6, <1>7, <1>8

\* A write keeps the invariant: whether the entry counts as recorded, the write
\* throws, or the process dies of it.
LEMMA WriteStep ==
  ASSUME IInv, MayRecord, NEW line \in {Torn, Line}, lines' = Written(line),
         \/ line = Line /\ tail' = FALSE /\ UNCHANGED <<damaged, faults>>
         \/ tail' \in BOOLEAN /\ damaged' = TRUE /\ faults' = faults + 1,
         \/ /\ mem' = Next1 /\ recorded' = recorded \cup {Line.id}
            /\ UNCHANGED <<proc, memMeta, stops>>
         \/ Stopped /\ UNCHANGED recorded
         \/ damaged' /\ faults' = faults + 1 /\ UNCHANGED <<process, recorded, stops>>,
         UNCHANGED <<clock, meta, expired>>
  PROVE  IInv'
<1> USE DEF IInv
<1>1. /\ lines' \in Seq(Lines) /\ lines' # <<>> /\ faults' \in Nat
      /\ damaged' \in BOOLEAN /\ tail' \in BOOLEAN
      /\ TailIsDamage'
      /\ FirstTorn' = {} =>
           FirstTorn = {} /\ lines' = Append(lines, Line) /\ Ids(lines)' = Ids(lines) \cup {Line.id}
      /\ ~damaged' => FirstTorn' = {} /\ ~damaged /\ ~tail' /\ faults' = faults
      /\ faults' = 0 => FirstTorn' = {} /\ faults = 0 /\ ~tail'
  BY WriteFacts
<1>2. proc = "up" /\ used' = used + 1
  BY DEF MayRecord
<1>3. /\ Next1 \in Seq(Whole) /\ Line \in Whole /\ Next1 = Append(mem, Line)
      /\ Next1 = AppendEntry(mem, used + 1, clock) /\ Line = Entry(used + 1, LastHash(mem), clock)
  BY EntryFacts
<1>4. Ids(Next1) = Ids(mem) \cup {Line.id}
  <2>1. mem \in Seq(Whole)
    BY DEF Types
  <2>2. ASSUME NEW log \in Seq(Whole), NEW e \in Whole PROVE Ids(Append(log, e)) = Ids(log) \cup {e.id}
    BY IdsOfAppended
  <2>3. Ids(Append(mem, Line)) = Ids(mem) \cup {Line.id}
    BY <1>3, <2>1, <2>2
  <2> QED BY <1>3, <2>3
<1> HIDE DEF Next1, Line
<1>5. \/ /\ mem' = Next1 /\ recorded' = recorded \cup {Line.id}
         /\ UNCHANGED <<proc, memMeta, stops>>
      \/ /\ proc' = "down" /\ mem' = <<>> /\ memMeta' = NoMeta /\ stops' = stops + 1
         /\ UNCHANGED recorded
      \/ damaged' /\ faults' # 0 /\ UNCHANGED <<proc, mem, memMeta, stops, recorded>>
  BY DEF Stopped, process, Types
<1>6. NoMeta \in Metas /\ NoMeta.breaks = FALSE /\ <<>> \in Seq(Whole)
  BY EmptySeq DEF NoMeta, Metas, Genesis
<1>7. Types'
  <2>1. mem' \in Seq(Whole)
    BY <1>3, <1>5, <1>6 DEF Types
  <2>2. memMeta' \in Metas /\ stops' \in Nat /\ proc' \in {"down", "up"}
    BY <1>2, <1>5, <1>6 DEF Types
  <2>3. clock' \in Nat /\ used' \in Nat /\ meta' \in Metas
    BY <1>2 DEF Types
  <2> QED BY <1>1, <2>1, <2>2, <2>3 DEF Types
<1>8. OpenedIsRead' /\ RenamedIsKept' /\ UpIsDeclared'
  BY <1>2, <1>5 DEF OpenedIsRead, RenamedIsKept, UpIsDeclared
<1>9. UndamagedIsIntact'
  <2> SUFFICES ASSUME ~damaged' PROVE UndamagedIsIntact'
    BY DEF UndamagedIsIntact
  <2>1. /\ FirstTorn' = {} /\ ~damaged /\ lines' = Append(lines, Line) /\ mem = lines
        /\ ~meta.torn /\ ~meta.breaks /\ ~memMeta.breaks /\ memMeta = meta
        /\ VerifyChain(lines, meta.startsAt) /\ (lines = <<>> => meta.startsAt = Genesis)
    BY <1>1, <1>2 DEF UndamagedIsIntact, Start, Holds
  <2>2. lines' = Next1 /\ VerifyChain(Next1, meta.startsAt)
    BY <1>3, <2>1, ChainGrows DEF Types
  <2>3. proc' \in {"up", "down"}
    BY <1>2, <1>5
  <2>4. (Holds' => mem' = lines') /\ ~memMeta'.breaks /\ (proc' = "up" => memMeta' = meta)
    BY <1>5, <1>6, <2>1, <2>2 DEF Holds
  <2> QED BY <1>1, <2>1, <2>2, <2>3, <2>4 DEF UndamagedIsIntact, Start
<1>10. FaultlessIsWhole'
  <2> SUFFICES ASSUME faults' = 0 PROVE FaultlessIsWhole'
    BY DEF FaultlessIsWhole
  <2>1. /\ FirstTorn' = {} /\ ~tail' /\ lines' = Append(lines, Line) /\ mem = lines
        /\ recorded \subseteq Ids(lines) \cup expired
    BY <1>1, <1>2 DEF FaultlessIsWhole, Holds
  <2>2. recorded' \subseteq Ids(lines)' \cup expired
    BY <1>1, <1>5, <2>1
  <2>3. Holds' => mem' = lines'
    BY <1>3, <1>5, <2>1 DEF Holds
  <2> QED BY <2>1, <2>2, <2>3 DEF FaultlessIsWhole
<1>11. LossIsSeen'
  <2> SUFFICES ASSUME ~meta.torn, FirstTorn' = {}, ~meta.breaks PROVE recorded' \subseteq Ids(lines)' \cup expired
    BY DEF LossIsSeen
  <2>1. recorded \subseteq Ids(lines) \cup expired
    BY <1>1 DEF LossIsSeen
  <2> QED BY <1>1, <1>5, <2>1
<1>12. LossIsDeclared'
  <2>1. memMeta.breaks \/ recorded \subseteq Ids(mem) \cup expired
    BY <1>2 DEF LossIsDeclared, Holds
  <2>2. Ids(mem)' = Ids(mem')
    BY DEF Ids
  <2>3. CASE mem' = Next1 /\ recorded' = recorded \cup {Line.id} /\ UNCHANGED <<proc, memMeta>>
    BY <1>4, <2>1, <2>2, <2>3 DEF LossIsDeclared
  <2>4. CASE proc' = "down"
    BY <2>4 DEF LossIsDeclared, Holds
  <2>5. CASE UNCHANGED <<mem, memMeta, recorded>>
    BY <2>1, <2>2, <2>5 DEF LossIsDeclared
  <2> QED BY <1>5, <2>3, <2>4, <2>5
<1> QED BY <1>1, <1>7, <1>8, <1>9, <1>10, <1>11, <1>12

\* A rotation the disk has no room for leaves the log as it was, or, past the
\* rename, a torn meta file.
LEMMA RotateFailsStep == ASSUME IInv, RotateFails PROVE IInv'
<1> USE DEF IInv
<1>1. CASE proc = "opened" /\ UNCHANGED <<meta, damaged>>
  <2>1. /\ proc' = "up" /\ faults' = faults + 1
        /\ UNCHANGED <<clock, lines, tail, meta, mem, memMeta, recorded, expired, damaged, stops, used>>
    BY <1>1 DEF RotateFails
  <2>2. memMeta = meta /\ faults' \in Nat /\ faults' # 0
    BY <1>1, <2>1 DEF OpenedIsRead, Types
  <2>3. FirstTorn' = FirstTorn /\ Ids(lines)' = Ids(lines) /\ Ids(mem)' = Ids(mem)
    BY <2>1, ReadOfIs DEF Ids
  <2>4. Types' /\ TailIsDamage' /\ OpenedIsRead' /\ RenamedIsKept' /\ UpIsDeclared'
    BY <2>1, <2>2 DEF Types, TailIsDamage, OpenedIsRead, RenamedIsKept, UpIsDeclared
  <2>5. UndamagedIsIntact'
    BY <1>1, <2>1, <2>2, <2>3 DEF UndamagedIsIntact, Start, Holds
  <2>6. FaultlessIsWhole' /\ LossIsSeen' /\ LossIsDeclared'
    BY <1>1, <2>1, <2>2, <2>3 DEF FaultlessIsWhole, LossIsSeen, LossIsDeclared, Holds
  <2> QED BY <2>4, <2>5, <2>6
<1>2. CASE proc = "renamed" /\ meta' = [NoMeta EXCEPT !.torn = TRUE] /\ damaged' = TRUE
  <2>1. /\ UNCHANGED <<clock, lines, tail, mem, memMeta, recorded, expired, used>>
        /\ proc' = "up" /\ faults' = faults + 1 /\ stops' \in Nat
    BY <1>2 DEF RotateFails, Types
  <2> QED BY <1>2, <2>1, MetaTorn
<1> QED BY <1>1, <1>2 DEF RotateFails

LEMMA CrashInMetaStep == ASSUME IInv, CrashInMeta PROVE IInv'
<1>1. stops' \in Nat
  BY DEF CrashInMeta, Stopped, IInv, Types
<1> QED BY <1>1, MetaTorn DEF CrashInMeta, Stopped

\* The five ways a write of record() can go.
Writes == Record \/ CrashInRecord \/ RecordThrows \/ RecordUnsynced \/ RecordShort

LEMMA WritesLine ==
  ASSUME Writes
  PROVE  /\ MayRecord /\ UNCHANGED <<clock, meta, expired>>
         /\ \/ /\ mem' = Next1 /\ recorded' = recorded \cup {Line.id}
               /\ UNCHANGED <<proc, memMeta, stops>>
            \/ Stopped /\ UNCHANGED recorded
            \/ damaged' /\ faults' = faults + 1 /\ UNCHANGED <<process, recorded, stops>>
         /\ \E line \in {Torn, Line} :
              /\ lines' = Written(line)
              /\ \/ line = Line /\ tail' = FALSE /\ UNCHANGED <<damaged, faults>>
                 \/ tail' \in BOOLEAN /\ damaged' = TRUE /\ faults' = faults + 1
<1>1. CASE Record
  BY <1>1 DEF Record
<1>2. CASE CrashInRecord
  BY <1>2 DEF CrashInRecord, CutShort
<1>3. CASE RecordThrows
  BY <1>3 DEF RecordThrows, CutShort
<1>4. CASE RecordShort
  BY <1>4 DEF RecordShort, CutShort
<1>5. CASE RecordUnsynced
  BY <1>5 DEF RecordUnsynced
<1> QED BY <1>1, <1>2, <1>3, <1>4, <1>5 DEF Writes

LEMMA WritesStep == ASSUME IInv, Writes PROVE IInv'
<1>1. PICK line \in {Torn, Line} :
        /\ lines' = Written(line)
        /\ \/ line = Line /\ tail' = FALSE /\ UNCHANGED <<damaged, faults>>
           \/ tail' \in BOOLEAN /\ damaged' = TRUE /\ faults' = faults + 1
  BY WritesLine
<1> QED BY <1>1, WritesLine, WriteStep

LEMMA NextIInv == IInv /\ [Next]_vars => IInv'
<1> SUFFICES ASSUME IInv, [Next]_vars PROVE IInv'
  OBVIOUS
<1>1. CASE Open
  BY <1>1, OpenStep
<1>2. CASE OpenThrows \/ NothingToRotate \/ Tick \/ Crash \/ UNCHANGED vars
  BY <1>2, OtherSteps
<1>3. CASE CrashInMeta
  BY <1>3, CrashInMetaStep
<1>4. CASE RotateRename
  BY <1>4, RenameStep
<1>5. CASE RotateMeta
  BY <1>5, RotateMetaStep
<1>6. CASE RotateFails
  BY <1>6, RotateFailsStep
<1>7. CASE Writes
  BY <1>7, WritesStep
<1> QED BY <1>1, <1>2, <1>3, <1>4, <1>5, <1>6, <1>7 DEF Next, Writes

\* What every state of the log satisfies, whatever is recorded, rotated, cut short,
\* left unsynced or crashed.
THEOREM Invariance == Spec => []IInv
BY InitIInv, NextIInv, PTL DEF Spec

\* The log never accuses itself for nothing: a break is declared only where a write was
\* cut short or not synced, or a rotation interrupted, however many crashes and rotations there were.
THEOREM NeverAccusesItself == Spec => []BreakMeansDamage
<1>1. IInv => BreakMeansDamage
  BY DEF IInv, Types, UndamagedIsIntact, BreakMeansDamage
<1> QED BY <1>1, Invariance, PTL

\* Whatever record() returned for is read at the next start, or expired; where the
\* disk failed it, a process that goes on recording has said so on disk.
THEOREM RecordedStays == Spec => []RecordedIsKept
<1>1. IInv => RecordedIsKept
  <2> SUFFICES ASSUME IInv PROVE RecordedIsKept
    OBVIOUS
  <2>1. faults = 0 => recorded \subseteq Ids(Readable) \cup expired
    BY ReadableTyped DEF IInv, FaultlessIsWhole
  <2>2. proc = "up" /\ ~meta.torn /\ recorded \ (Ids(mem) \cup expired) # {} => meta.breaks
    BY DEF IInv, UpIsDeclared, LossIsDeclared, Holds
  <2> QED BY <2>1, <2>2 DEF RecordedIsKept
<1> QED BY <1>1, Invariance, PTL

-----------------------------------------------------------------------------
\* A step that writes nothing to the log reads the same, and what it damages it
\* says it damaged.
LEMMA UnreadSteps ==
  ASSUME IInv, UNCHANGED lines, damaged' = damaged \/ damaged' = TRUE
  PROVE  [Promise!Next]_<<Readable, damaged>>
<1>1. Readable' = Readable
  BY ReadOfIs
<1>2. Readable \in Seq(Whole) /\ Len(Readable) \in Nat
  BY ReadableTyped, LenProperties DEF IInv
<1>3. Readable' \in Promise!Prefixes(Readable)
  BY <1>1, <1>2, SubSeqFull DEF Promise!Prefixes
<1> QED BY <1>1, <1>3 DEF Promise!Next, Promise!Damage

\* A rotation is an expiry.
LEMMA RenameExpires == ASSUME IInv, RotateRename PROVE Promise!Expire
<1>1. mem = Readable /\ lines' = Kept /\ UNCHANGED damaged /\ Rotates /\ Types
  BY DEF IInv, OpenedIsRead, RotateRename
<1>2. /\ FirstKept \in 2 .. Len(mem) /\ Kept = SubSeq(mem, FirstKept, Len(mem)) /\ Kept \in Seq(Whole)
  BY <1>1, KeptFacts
<1>3. Readable' = Kept
  BY <1>1, <1>2, ReadEntries, ReadOfIs
<1>4. FirstKept \in 1 .. Len(Readable) /\ Readable' = SubSeq(Readable, FirstKept, Len(Readable))
  BY <1>1, <1>2, <1>3
<1> QED BY <1>1, <1>4 DEF Promise!Expire, Promise!Expired

\* A write appends its entry, costs the tail of what could be read, or adds
\* nothing to it; anything but the first is on a log that was damaged.
LEMMA WritesPromise == ASSUME IInv, Writes PROVE [Promise!Next]_<<Readable, damaged>>
<1>1. PICK line \in {Torn, Line} :
        /\ lines' = Written(line)
        /\ \/ line = Line /\ tail' = FALSE /\ UNCHANGED <<damaged, faults>>
           \/ tail' \in BOOLEAN /\ damaged' = TRUE /\ faults' = faults + 1
  BY WritesLine
<1>2. /\ line \in Lines /\ (line # Torn => line \in Whole)
      /\ lines \in Seq(Lines) /\ tail \in BOOLEAN /\ (tail => lines # <<>>)
      /\ Readable \in Seq(Whole) /\ Len(Readable) \in Nat
  BY EntryFacts, ReadableTyped, LenProperties DEF IInv, Types, TailIsDamage, Lines
<1>3. /\ tail => \E n \in 0 .. Len(Readable) : Readable' = SubSeq(Readable, 1, n)
      /\ ~tail /\ FirstTorn = {} /\ line # Torn => Readable' = Append(Readable, line)
      /\ ~tail /\ (FirstTorn # {} \/ line = Torn) => Readable' = Readable
  BY <1>1, <1>2, WriteReads
<1>4. UNCHANGED damaged \/ damaged' = TRUE
  BY <1>1
<1>5. CASE tail
  <2>1. damaged' = TRUE
    BY <1>4, <1>5 DEF IInv, TailIsDamage, Types
  <2> QED BY <1>3, <1>5, <2>1 DEF Promise!Next, Promise!Damage, Promise!Prefixes
<1>6. CASE ~tail /\ FirstTorn = {} /\ line # Torn
  <2>1. Readable' = Append(Readable, line) /\ line \in Whole
    BY <1>2, <1>3, <1>6
  <2>2. Len(Readable') = Len(Readable) + 1 /\ Readable' \in Seq(Whole)
        /\ \A i \in 1 .. Len(Readable) : Readable'[i] = Readable[i]
    BY <1>2, <2>1, AppendProperties
  <2>3. SubSeq(Readable', 1, Len(Readable)) = Readable
    <3>1. \A i \in 1 .. Len(Readable) : Readable'[i] \in Whole
      BY <1>2, <2>2, ElementOfSeq
    <3>2. /\ SubSeq(Readable', 1, Len(Readable)) \in Seq(Whole)
          /\ Len(SubSeq(Readable', 1, Len(Readable))) = Len(Readable)
          /\ \A i \in 1 .. Len(Readable) : SubSeq(Readable', 1, Len(Readable))[i] = Readable'[i]
      BY <1>2, <3>1, SubSeqProperties
    <3> QED BY <1>2, <2>2, <3>2, SeqEqual
  <2>4. Promise!Added
    BY <2>2, <2>3 DEF Promise!Added
  <2> QED BY <1>4, <2>4 DEF Promise!Next, Promise!Append1, Promise!Damage
<1>7. CASE ~tail /\ (FirstTorn # {} \/ line = Torn)
  <2>1. Readable' = Readable
    BY <1>3, <1>7
  <2>2. Readable' \in Promise!Prefixes(Readable)
    BY <1>2, <2>1, SubSeqFull DEF Promise!Prefixes
  <2> QED BY <1>4, <2>1, <2>2 DEF Promise!Next, Promise!Damage
<1> QED BY <1>2, <1>5, <1>6, <1>7

\* Every step of the log is a step of the promise, or none.
LEMMA NextPromise == IInv /\ [Next]_vars => [Promise!Next]_<<Readable, damaged>>
<1> SUFFICES ASSUME IInv, [Next]_vars PROVE [Promise!Next]_<<Readable, damaged>>
  OBVIOUS
<1>1. CASE RotateRename
  BY <1>1, RenameExpires DEF Promise!Next
<1>2. CASE Writes
  BY <1>2, WritesPromise
<1>3. CASE Open \/ OpenThrows \/ NothingToRotate \/ RotateMeta \/ Tick \/ UNCHANGED vars
  <2>1. UNCHANGED <<lines, damaged>>
    BY <1>3 DEF Open, OpenThrows, NothingToRotate, RotateMeta, Tick, disk, ghosts, vars
  <2> QED BY <2>1, UnreadSteps
<1>4. CASE CrashInMeta \/ RotateFails \/ Crash
  <2>1. UNCHANGED lines /\ (damaged' = damaged \/ damaged' = TRUE)
    BY <1>4 DEF CrashInMeta, RotateFails, Crash, disk, IInv, Types
  <2> QED BY <2>1, UnreadSteps
<1> QED BY <1>1, <1>2, <1>3, <1>4 DEF Next, Writes

\* What can be read back from the disk is an append-only log, whatever the
\* crashes and failing writes: only damage costs it anything, and only its tail.
THEOREM ReadsAppendOnly == Spec => ReadsAsAppendOnly
<1>1. Init => Promise!Init
  <2>1. ASSUME Init PROVE Readable = <<>>
    <3>1. lines = <<>> /\ lines \in Seq(Whole)
      BY <2>1, EmptySeq DEF Init
    <3> QED BY <3>1, ReadEntries, ReadOfIs
  <2> QED BY <2>1 DEF Init, Promise!Init
<1> QED BY <1>1, NextPromise, Invariance, PTL DEF Spec, Promise!Spec, ReadsAsAppendOnly

-----------------------------------------------------------------------------
(* Those who read the log.                                                 *)

\* The roots a log has had as it grew to this one.
RootsOf(file) == {MerkleRoot(SubSeq(file, 1, n)) : n \in 0 .. Len(file)}

\* The heartbeats a daemon may publish.
Beats == [root : {MerkleRoot(log) : log \in Seq(Whole)} \cup {NoRoot}, at : Nat]

\* While no heartbeat is read after a later one, the last root kept is that of the last
\* one read.
ReadInOrder ==
    /\ "shrank" \notin alarms
    /\ seen # <<>> => latest \in DOMAIN beats /\ Last(seen) = beats[latest].root

\* The roots published of a log never damaged nor rotated are those it had as it grew,
\* and so are the ones kept of them.
OnlyGrew ==
    /\ "diverged" \notin alarms
    /\ seen \in Seq(RootsOf(lines))
    /\ \A i \in DOMAIN beats : beats[i].root \in RootsOf(lines)
    /\ \A i, j \in DOMAIN beats : i <= j => beats[i].root.size <= beats[j].root.size
    /\ ~lagged => ReadInOrder

\* A process runs unrecorded because the meta file was torn.
SilenceIsDamage ==
    /\ proc = "unrecorded" => damaged
    /\ \A i \in DOMAIN beats : beats[i].root = NoRoot => damaged
    /\ "stopped" \in alarms => damaged

ReviewIInv ==
    /\ IInv
    /\ beats \in Seq(Beats) /\ latest \in Nat /\ lagged \in BOOLEAN
    /\ SilenceIsDamage
    /\ ~damaged /\ expired = {} => OnlyGrew

\* What a log was before it grew it is the beginning of.
LEMMA PrefixStays ==
  ASSUME NEW S, NEW file \in Seq(S), NEW e \in S, NEW n \in 0 .. Len(file)
  PROVE  SubSeq(Append(file, e), 1, n) = SubSeq(file, 1, n)
<1> DEFINE longer == Append(file, e)
<1>1. /\ longer \in Seq(S) /\ Len(longer) = Len(file) + 1 /\ Len(file) \in Nat
      /\ \A i \in 1 .. Len(file) : longer[i] = file[i]
  BY AppendProperties, LenProperties
<1> HIDE DEF longer
<1>2. ASSUME NEW s \in Seq(S), n <= Len(s)
      PROVE  /\ SubSeq(s, 1, n) \in Seq(S) /\ Len(SubSeq(s, 1, n)) = n
             /\ \A i \in 1 .. n : SubSeq(s, 1, n)[i] = s[i]
  <2>1. Len(s) \in Nat /\ \A i \in 1 .. n : s[i] \in S
    BY <1>1, <1>2, ElementOfSeq, LenProperties
  <2> QED BY <1>1, <2>1, SubSeqProperties
<1>3. n <= Len(longer) /\ n <= Len(file) /\ n \in Nat
  BY <1>1
<1>4. /\ SubSeq(longer, 1, n) \in Seq(S) /\ SubSeq(file, 1, n) \in Seq(S)
      /\ Len(SubSeq(longer, 1, n)) = n /\ Len(SubSeq(file, 1, n)) = n
      /\ \A i \in 1 .. n : SubSeq(longer, 1, n)[i] = SubSeq(file, 1, n)[i]
  BY <1>1, <1>2, <1>3
<1> QED BY <1>4, SeqEqual DEF longer

LEMMA RootsStay ==
  ASSUME NEW S, NEW file \in Seq(S), NEW e \in S
  PROVE  RootsOf(file) \subseteq RootsOf(Append(file, e))
<1>1. Len(file) \in Nat /\ Len(Append(file, e)) = Len(file) + 1
  BY AppendProperties, LenProperties
<1>2. ASSUME NEW n \in 0 .. Len(file)
      PROVE  MerkleRoot(SubSeq(file, 1, n)) \in RootsOf(Append(file, e))
  <2>1. n \in 0 .. Len(Append(file, e))
    BY <1>1
  <2>2. SubSeq(Append(file, e), 1, n) = SubSeq(file, 1, n)
    BY PrefixStays
  <2> QED BY <2>1, <2>2 DEF RootsOf
<1> QED BY <1>2 DEF RootsOf

\* A root is of the size of its tree, and no larger than the log.
LEMMA RootFacts ==
  ASSUME NEW S, NEW file \in Seq(S)
  PROVE  /\ MerkleRoot(file) \in RootsOf(file)
         /\ \A r \in RootsOf(file) : r.size \in 0 .. Len(file)
         /\ \A r \in RootsOf(file) : r.size = Len(file) => r = MerkleRoot(file)
         /\ \A r, q \in RootsOf(file) : r.size = q.size => r = q
<1>1. Len(file) \in Nat /\ \A i \in 1 .. Len(file) : file[i] \in S
  BY ElementOfSeq, LenProperties
<1>2. \A n \in 0 .. Len(file) : Len(SubSeq(file, 1, n)) = n
  BY <1>1, SubSeqProperties
<1>3. SubSeq(file, 1, Len(file)) = file
  BY SubSeqFull
<1>4. \A n \in 0 .. Len(file) : MerkleRoot(SubSeq(file, 1, n)).size = n
  BY <1>2 DEF MerkleRoot
<1>5. MerkleRoot(file) \in RootsOf(file)
  <2>1. Len(file) \in 0 .. Len(file)
    BY <1>1
  <2>2. MerkleRoot(SubSeq(file, 1, Len(file))) \in RootsOf(file)
    BY <2>1 DEF RootsOf
  <2> QED BY <1>3, <2>2
<1>6. ASSUME NEW r \in RootsOf(file)
      PROVE  r.size \in 0 .. Len(file) /\ (r.size = Len(file) => r = MerkleRoot(file))
  <2>1. PICK n \in 0 .. Len(file) : r = MerkleRoot(SubSeq(file, 1, n))
    BY <1>6 DEF RootsOf
  <2>2. r.size = n
    BY <1>4, <2>1
  <2> QED BY <1>3, <2>1, <2>2
<1>7. ASSUME NEW r \in RootsOf(file), NEW q \in RootsOf(file), r.size = q.size
      PROVE  r = q
  <2>1. PICK n \in 0 .. Len(file) : r = MerkleRoot(SubSeq(file, 1, n))
    BY <1>7 DEF RootsOf
  <2>2. PICK m \in 0 .. Len(file) : q = MerkleRoot(SubSeq(file, 1, m))
    BY <1>7 DEF RootsOf
  <2>3. n = m
    BY <1>4, <1>7, <2>1, <2>2
  <2> QED BY <2>1, <2>2, <2>3
<1> QED BY <1>5, <1>6, <1>7

\* Of two roots a log had while it grew neither contradicts the other, and one as large
\* as the last read raises nothing.
LEMMA NoAlarm ==
  ASSUME NEW S, NEW file \in Seq(S), NEW known \in Seq(RootsOf(file)), NEW root \in RootsOf(file)
  PROVE  /\ "diverged" \notin Alarm(known, root)
         /\ known = <<>> \/ Last(known).size <= root.size => Alarm(known, root) = {}
         /\ Observed(known, root, RootsKept) \in Seq(RootsOf(file))
         /\ Observed(known, root, RootsKept) # <<>>
         /\ Last(Observed(known, root, RootsKept)) = root
<1> DEFINE R == RootsOf(file)
<1>1. /\ root \in R /\ Len(file) \in Nat
      /\ \A r \in R : r.size \in 0 .. Len(file)
      /\ \A r, q \in R : r.size = q.size => r = q
  BY RootFacts, LenProperties
<1> HIDE DEF R
<1>2. Len(known) \in Nat /\ DOMAIN known = 1 .. Len(known) /\ \A i \in 1 .. Len(known) : known[i] \in R
  BY ElementOfSeq, LenProperties DEF R
<1>3. ~Diverges(known, root)
  <2>1. \A i \in DOMAIN known : known[i].size = root.size => known[i] = root
    BY <1>1, <1>2
  <2> QED BY <2>1 DEF Diverges
<1>4. known # <<>> => Last(known) \in R
  <2> SUFFICES ASSUME known # <<>> PROVE Last(known) \in R
    OBVIOUS
  <2>1. Len(known) # 0
    BY EmptySeq
  <2>2. Len(known) \in 1 .. Len(known)
    BY <1>2, <2>1
  <2> QED BY <1>2, <2>2 DEF Last
<1>5. known # <<>> => Last(known).size \in Int /\ root.size \in Int
  BY <1>1, <1>4
<1>6. "diverged" \notin Alarm(known, root)
  BY <1>3 DEF Alarm
<1>7. known = <<>> \/ Last(known).size <= root.size => Alarm(known, root) = {}
  <2>1. known # <<>> /\ Last(known).size <= root.size => ~(root.size < Last(known).size)
    BY <1>5
  <2> QED BY <1>3, <2>1 DEF Alarm
<1>8. /\ Observed(known, root, RootsKept) \in Seq(R)
      /\ Observed(known, root, RootsKept) # <<>>
      /\ Last(Observed(known, root, RootsKept)) = root
  <2>1. CASE Restated(known, root)
    <3>1. known # <<>> /\ Last(known).size = root.size
      BY <2>1 DEF Restated, SameAs
    <3>2. Last(known) = root
      BY <1>1, <1>4, <3>1
    <3> QED BY <2>1, <3>1, <3>2 DEF Observed, R
  <2>2. CASE ~Restated(known, root)
    <3> DEFINE more == Append(known, root)
               m == IF Len(more) > RootsKept THEN Len(more) - RootsKept + 1 ELSE 1
               kept == SubSeq(more, m, Len(more))
    <3>1. more \in Seq(R) /\ Len(more) = Len(known) + 1 /\ more[Len(known) + 1] = root
      BY <1>1, AppendProperties DEF R
    <3>2. \A i \in 1 .. Len(more) : more[i] \in R
      BY <3>1, ElementOfSeq
    <3>3. m \in 1 .. Len(more)
      BY <1>2, <3>1, ReviewAssumption
    <3>4. Observed(known, root, RootsKept) = kept
      BY <2>2 DEF Observed
    <3> HIDE DEF more, m
    <3>5. \A i \in m .. Len(more) : more[i] \in R
      BY <1>2, <3>1, <3>2, <3>3
    <3>6. /\ kept \in Seq(R) /\ Len(kept) = Len(more) - m + 1
          /\ \A i \in 1 .. Len(more) - m + 1 : kept[i] = more[m + i - 1]
      BY <1>2, <3>1, <3>3, <3>5, SubSeqProperties
    <3> HIDE DEF kept
    <3>7. Len(kept) \in 1 .. Len(more) /\ m + Len(kept) - 1 = Len(more)
      BY <1>2, <3>1, <3>3, <3>6
    <3>8. kept[Len(kept)] = root
      <4>1. Len(kept) \in 1 .. Len(more) - m + 1 /\ m + Len(kept) - 1 = Len(known) + 1
        BY <1>2, <3>1, <3>3, <3>6, <3>7
      <4>2. kept[Len(kept)] = more[m + Len(kept) - 1]
        BY <3>6, <4>1
      <4> QED BY <3>1, <4>1, <4>2
    <3>9. kept # <<>>
      BY <3>6, <3>7, EmptySeq
    <3> QED BY <3>4, <3>6, <3>8, <3>9 DEF Last
  <2> QED BY <2>1, <2>2
<1> QED BY <1>6, <1>7, <1>8 DEF R

\* The log grows, or it has been damaged or rotated.
LEMMA LogGrows ==
  ASSUME IInv, [Next]_vars, ~damaged', expired' = {}
  PROVE  /\ ~damaged /\ expired = {}
         /\ lines \in Seq(Whole)
         /\ lines' = lines \/ \E e \in Whole : lines' = Append(lines, e)
<1>1. /\ damaged \in BOOLEAN /\ damaged' \in BOOLEAN
      /\ ~damaged => lines \in Seq(Whole)
  BY NextIInv, ReadableTyped DEF IInv, Types, UndamagedIsIntact
<1>2. CASE Writes
  <2>1. PICK line \in {Torn, Line} :
          /\ lines' = Written(line)
          /\ \/ line = Line /\ tail' = FALSE /\ UNCHANGED <<damaged, faults>>
             \/ tail' \in BOOLEAN /\ damaged' = TRUE /\ faults' = faults + 1
    BY <1>2, WritesLine
  <2>2. line = Line /\ ~damaged /\ expired = {}
    BY <1>1, <1>2, <2>1, WritesLine
  <2>3. ~tail
    BY <1>1, <2>2 DEF IInv, TailIsDamage
  <2>4. lines' = Append(lines, Line) /\ Line \in Whole
    BY <2>1, <2>2, <2>3, EntryFacts DEF Written, IInv
  <2> QED BY <1>1, <2>2, <2>4
<1>3. CASE RotateRename
  <2>1. Types /\ Rotates /\ expired' = expired \cup Ids(SubSeq(mem, 1, FirstKept - 1))
    BY <1>3 DEF RotateRename, IInv
  <2>2. FirstKept \in 2 .. Len(mem) /\ mem \in Seq(Whole) /\ Len(mem) \in Nat
    BY <2>1, KeptFacts, LenProperties DEF Types
  <2>3. \A i \in 1 .. FirstKept - 1 : mem[i] \in Whole
    BY <2>2, ElementOfSeq
  <2>4. /\ SubSeq(mem, 1, FirstKept - 1) \in Seq(Whole)
        /\ Len(SubSeq(mem, 1, FirstKept - 1)) = FirstKept - 1
    BY <2>2, <2>3, SubSeqProperties
  <2>5. 1 \in DOMAIN SubSeq(mem, 1, FirstKept - 1)
    BY <2>2, <2>4, LenProperties
  <2>6. Ids(SubSeq(mem, 1, FirstKept - 1)) # {}
    BY <2>5 DEF Ids
  <2> QED BY <2>1, <2>6
<1>4. CASE Open \/ OpenThrows \/ NothingToRotate \/ RotateMeta \/ Tick \/ UNCHANGED vars
  <2>1. UNCHANGED <<lines, damaged, expired>>
    BY <1>4 DEF Open, OpenThrows, NothingToRotate, RotateMeta, Tick, disk, ghosts, vars
  <2> QED BY <1>1, <2>1
<1>5. CASE CrashInMeta \/ RotateFails \/ Crash
  <2>1. /\ UNCHANGED <<lines, expired>>
        /\ damaged' = damaged \/ damaged' = TRUE \/ damaged' = (damaged \/ proc = "renamed")
    BY <1>5 DEF CrashInMeta, RotateFails, Crash, disk
  <2> QED BY <1>1, <2>1
<1> QED BY <1>2, <1>3, <1>4, <1>5 DEF Next, Writes

\* Who reads the log does nothing to it: what is proved of the log alone holds of it here.
LEMMA ReadersOnlyRead == ReviewSpec => Spec
<1>1. ReviewInit => Init
  BY DEF ReviewInit
<1>2. [ReviewNext]_reviewVars => [Next]_vars
  BY DEF ReviewNext, LogStep, Heartbeat, HeartbeatWithoutLog, Published, Read, Connect, reviewVars
<1> QED BY <1>1, <1>2, PTL DEF ReviewSpec, Spec

LEMMA LogStepReviewed == ASSUME ReviewIInv, LogStep PROVE ReviewIInv'
<1>1. IInv /\ Next /\ UNCHANGED <<beats, newest, latest, lagged, seen, alarms>> /\ IInv'
  BY NextIInv DEF ReviewIInv, LogStep, readers
<1>2. damaged => damaged'
  <2>1. damaged \in BOOLEAN /\ damaged' \in BOOLEAN
    BY <1>1 DEF IInv, Types
  <2>2. CASE Writes
    BY <2>2, WritesLine
  <2>3. CASE ~Writes
    BY <1>1, <2>3 DEF Next, Writes, Open, OpenThrows, CrashInMeta, NothingToRotate, RotateRename,
                      RotateMeta, RotateFails, Crash, Tick, ghosts
  <2> QED BY <2>2, <2>3
<1>3. proc' = "unrecorded" => damaged'
  <2>1. CASE OpenThrows
    <3>1. meta.torn
      BY <2>1 DEF OpenThrows
    <3> QED BY <1>1, <1>2, <3>1 DEF IInv, UndamagedIsIntact
  <2>2. CASE Writes
    <3>1. proc' = proc \/ proc' = "down"
      BY <2>2, WritesLine DEF Stopped, process
    <3> QED BY <1>2, <3>1 DEF ReviewIInv, SilenceIsDamage
  <2>3. CASE ~OpenThrows /\ ~Writes
    <3>1. proc' = proc \/ proc' # "unrecorded"
      BY <1>1, <2>3 DEF Next, Writes, Open, CrashInMeta, NothingToRotate, RotateRename, RotateMeta,
                        RotateFails, Crash, Tick, Stopped, process
    <3> QED BY <1>2, <3>1 DEF ReviewIInv, SilenceIsDamage
  <2> QED BY <2>1, <2>2, <2>3
<1>4. ASSUME ~damaged', expired' = {} PROVE OnlyGrew'
  <2>1. /\ ~damaged /\ expired = {} /\ lines \in Seq(Whole)
        /\ lines' = lines \/ \E e \in Whole : lines' = Append(lines, e)
    BY <1>1, <1>4, LogGrows
  <2>2. RootsOf(lines) \subseteq RootsOf(lines')
    BY <2>1, RootsStay
  <2>3. OnlyGrew
    BY <2>1 DEF ReviewIInv
  <2>4. seen' \in Seq(RootsOf(lines'))
    BY <1>1, <2>2, <2>3, SeqMonotonic DEF OnlyGrew
  <2>5. \A i \in DOMAIN beats' : beats'[i].root \in RootsOf(lines')
    BY <1>1, <2>2, <2>3 DEF OnlyGrew
  <2>6. \A i, j \in DOMAIN beats' : i <= j => beats'[i].root.size <= beats'[j].root.size
    BY <1>1, <2>3 DEF OnlyGrew
  <2>7. "diverged" \notin alarms' /\ (~lagged' => ReadInOrder')
    BY <1>1, <2>3 DEF OnlyGrew, ReadInOrder
  <2>8. RootsOf(lines)' = RootsOf(lines')
    BY DEF RootsOf
  <2> QED BY <2>4, <2>5, <2>6, <2>7, <2>8 DEF OnlyGrew
<1>5. SilenceIsDamage'
  BY <1>1, <1>2, <1>3 DEF ReviewIInv, SilenceIsDamage
<1> QED BY <1>1, <1>4, <1>5 DEF ReviewIInv

\* A step of the readers leaves the log, and what it has been, as they were.
LEMMA LogUntouched ==
  ASSUME IInv, UNCHANGED vars
  PROVE  /\ IInv' /\ UNCHANGED <<proc, damaged, expired, lines>>
         /\ RootsOf(lines)' = RootsOf(lines) /\ clock \in Nat
BY NextIInv DEF vars, disk, process, ghosts, RootsOf, IInv, Types

\* A heartbeat published is of the log as it is, the largest it has been.
LEMMA PublishedReviewed ==
  ASSUME ReviewIInv, Heartbeat \/ HeartbeatWithoutLog
  PROVE  ReviewIInv'
<1>1. PICK root :
        /\ Published(root)
        /\ \/ proc = "up" /\ root = MerkleRoot(mem)
           \/ proc = "unrecorded" /\ root = NoRoot
  BY DEF Heartbeat, HeartbeatWithoutLog
<1> DEFINE beat == [root |-> root, at |-> clock]
<1>2. /\ beats' = Append(beats, beat)
      /\ UNCHANGED vars /\ UNCHANGED <<newest, latest, lagged, seen, alarms>>
  BY <1>1 DEF Published, readers
<1>3. /\ IInv' /\ UNCHANGED <<proc, damaged, expired, lines>>
      /\ RootsOf(lines)' = RootsOf(lines) /\ clock \in Nat
  BY <1>2, LogUntouched DEF ReviewIInv
<1>4. mem \in Seq(Whole)
  BY DEF ReviewIInv, IInv, Types
<1>5. beat \in Beats
  BY <1>1, <1>3, <1>4 DEF Beats
<1> HIDE DEF beat
<1>6. /\ beats' \in Seq(Beats) /\ Len(beats) \in Nat
      /\ DOMAIN beats = 1 .. Len(beats) /\ DOMAIN beats' = 1 .. Len(beats) + 1
      /\ \A i \in DOMAIN beats : beats'[i] = beats[i]
      /\ beats'[Len(beats) + 1] = beat /\ beat.root = root
  BY <1>2, <1>5, AppendProperties, LenProperties DEF ReviewIInv, beat
<1>7. SilenceIsDamage'
  <2>1. NoRoot # MerkleRoot(mem)
    <3>1. Len(mem) \in Nat /\ MerkleRoot(mem).size = Len(mem) /\ NoRoot.size = -1
      BY <1>4, LenProperties DEF MerkleRoot, NoRoot
    <3> QED BY <3>1
  <2>2. root = NoRoot => damaged
    BY <1>1, <2>1 DEF ReviewIInv, SilenceIsDamage
  <2>3. \A i \in DOMAIN beats' : beats'[i].root = NoRoot => damaged
    BY <1>6, <2>2 DEF ReviewIInv, SilenceIsDamage
  <2> QED BY <1>2, <1>3, <2>3 DEF ReviewIInv, SilenceIsDamage
<1>8. ASSUME ~damaged, expired = {} PROVE OnlyGrew'
  <2>1. OnlyGrew /\ root = MerkleRoot(mem) /\ mem = lines
    BY <1>1, <1>8 DEF ReviewIInv, SilenceIsDamage, IInv, UndamagedIsIntact, Holds
  <2>2. /\ root \in RootsOf(lines) /\ root.size = Len(lines) /\ Len(lines) \in Nat
        /\ \A r \in RootsOf(lines) : r.size \in 0 .. Len(lines)
    BY <1>4, <2>1, RootFacts, LenProperties DEF MerkleRoot
  <2>3. \A i \in DOMAIN beats' : beats'[i].root \in RootsOf(lines)
    BY <1>6, <2>1, <2>2 DEF OnlyGrew
  <2>4. ASSUME NEW i \in DOMAIN beats', NEW j \in DOMAIN beats', i <= j
        PROVE  beats'[i].root.size <= beats'[j].root.size
    <3>1. CASE j \in DOMAIN beats
      <4>1. i \in DOMAIN beats
        BY <1>6, <2>4, <3>1
      <4> QED BY <1>6, <2>1, <2>4, <3>1, <4>1 DEF OnlyGrew
    <3>2. CASE j = Len(beats) + 1
      <4>1. beats'[j].root.size = Len(lines) /\ beats'[i].root.size \in 0 .. Len(lines)
        BY <1>6, <2>2, <2>3, <3>2
      <4> QED BY <2>2, <4>1
    <3> QED BY <1>6, <3>1, <3>2
  <2>5. ~lagged' => ReadInOrder'
    <3>1. ~lagged => ReadInOrder
      BY <2>1 DEF OnlyGrew
    <3>2. latest \in DOMAIN beats => latest \in DOMAIN beats' /\ beats'[latest] = beats[latest]
      BY <1>6
    <3> QED BY <1>2, <3>1, <3>2 DEF ReadInOrder
  <2> QED BY <1>2, <1>3, <2>1, <2>3, <2>4, <2>5 DEF OnlyGrew
<1> QED BY <1>2, <1>3, <1>6, <1>7, <1>8 DEF ReviewIInv

\* A heartbeat read is of the log as it was, and of the log as it was no earlier than the
\* last one read unless it was read out of order.
LEMMA ReadReviewed ==
  ASSUME ReviewIInv, NEW i \in DOMAIN beats, Read(i)
  PROVE  ReviewIInv'
<1> DEFINE root == beats[i].root
<1>1. /\ UNCHANGED vars /\ UNCHANGED beats
      /\ latest' = (IF i > latest THEN i ELSE latest) /\ lagged' = (lagged \/ i < latest)
      /\ \/ /\ root = NoRoot /\ UNCHANGED seen
            /\ alarms' = alarms \cup (IF seen = <<>> THEN {} ELSE {"stopped"})
         \/ /\ root # NoRoot
            /\ seen' = Observed(seen, root, RootsKept)
            /\ alarms' = alarms \cup Alarm(seen, root)
  BY DEF Read
<1>2. /\ IInv' /\ UNCHANGED <<proc, damaged, expired, lines>> /\ RootsOf(lines)' = RootsOf(lines)
  BY <1>1, LogUntouched DEF ReviewIInv
<1>3. /\ i \in Nat /\ latest \in Nat /\ lagged \in BOOLEAN /\ beats \in Seq(Beats)
      /\ latest' \in Nat /\ lagged' \in BOOLEAN
  BY <1>1, LenProperties DEF ReviewIInv
<1> HIDE DEF root
<1>4. SilenceIsDamage'
  <2>1. "stopped" \in alarms' => damaged
    BY <1>1 DEF ReviewIInv, SilenceIsDamage, Alarm, root
  <2> QED BY <1>1, <1>2, <2>1 DEF ReviewIInv, SilenceIsDamage
<1>5. ASSUME ~damaged, expired = {} PROVE OnlyGrew'
  <2>1. OnlyGrew /\ root # NoRoot /\ root \in RootsOf(lines) /\ lines \in Seq(Whole)
    BY <1>5, ReadableTyped DEF ReviewIInv, SilenceIsDamage, OnlyGrew, IInv, UndamagedIsIntact, root
  <2>2. seen' = Observed(seen, root, RootsKept) /\ alarms' = alarms \cup Alarm(seen, root)
    BY <1>1, <2>1
  <2>3. seen \in Seq(RootsOf(lines))
    BY <2>1 DEF OnlyGrew
  <2>4. /\ "diverged" \notin Alarm(seen, root)
        /\ seen = <<>> \/ Last(seen).size <= root.size => Alarm(seen, root) = {}
        /\ seen' \in Seq(RootsOf(lines)) /\ seen' # <<>> /\ Last(seen') = root
    <3>1. /\ "diverged" \notin Alarm(seen, root)
          /\ seen = <<>> \/ Last(seen).size <= root.size => Alarm(seen, root) = {}
          /\ Observed(seen, root, RootsKept) \in Seq(RootsOf(lines))
          /\ Observed(seen, root, RootsKept) # <<>>
          /\ Last(Observed(seen, root, RootsKept)) = root
      BY <2>1, <2>3, NoAlarm
    <3> QED BY <2>2, <3>1
  <2>5. ASSUME ~lagged' PROVE ReadInOrder'
    <3>1. ~lagged /\ ~(i < latest) /\ latest' = i
      <4>1. lagged' = (lagged \/ i < latest)
        BY <1>1
      <4>2. ~lagged /\ ~(i < latest)
        BY <2>5, <4>1, Zenon
      <4>3. latest' = (IF i > latest THEN i ELSE latest)
        BY <1>1
      <4> QED BY <1>3, <4>2, <4>3
    <3>2. ReadInOrder
      BY <2>1, <3>1 DEF OnlyGrew
    <3>3. seen = <<>> \/ Last(seen).size <= root.size
      <4> SUFFICES ASSUME seen # <<>> PROVE Last(seen).size <= root.size
        OBVIOUS
      <4>1. latest \in DOMAIN beats /\ Last(seen) = beats[latest].root /\ latest <= i
        BY <1>3, <3>1, <3>2 DEF ReadInOrder
      <4> QED BY <2>1, <4>1 DEF OnlyGrew, root
    <3>4. "shrank" \notin alarms'
      BY <2>2, <2>4, <3>2, <3>3 DEF ReadInOrder
    <3> QED BY <1>1, <2>4, <3>1, <3>4 DEF ReadInOrder, root
  <2> QED BY <1>1, <1>2, <2>1, <2>2, <2>4, <2>5 DEF OnlyGrew
<1> QED BY <1>1, <1>2, <1>3, <1>4, <1>5 DEF ReviewIInv

LEMMA NothingReviewed ==
  ASSUME ReviewIInv, UNCHANGED <<vars, beats, latest, lagged, seen, alarms>>
  PROVE  ReviewIInv'
<1>1. /\ IInv' /\ UNCHANGED <<proc, damaged, expired, lines>> /\ RootsOf(lines)' = RootsOf(lines)
      /\ UNCHANGED <<beats, latest, lagged, seen, alarms>>
  BY LogUntouched DEF ReviewIInv
<1> QED BY <1>1 DEF ReviewIInv, SilenceIsDamage, OnlyGrew, ReadInOrder

LEMMA NextReviewed == ReviewIInv /\ [ReviewNext]_reviewVars => ReviewIInv'
<1> SUFFICES ASSUME ReviewIInv, [ReviewNext]_reviewVars PROVE ReviewIInv'
  OBVIOUS
<1>1. CASE LogStep
  BY <1>1, LogStepReviewed
<1>2. CASE Heartbeat \/ HeartbeatWithoutLog
  BY <1>2, PublishedReviewed
<1>3. CASE \E i \in DOMAIN beats : Read(i)
  BY <1>3, ReadReviewed
<1>4. CASE Connect \/ UNCHANGED reviewVars
  BY <1>4, NothingReviewed DEF Connect, reviewVars, readers
<1> QED BY <1>1, <1>2, <1>3, <1>4 DEF ReviewNext

\* The terminal accuses nobody without a cause: for a log of any length, however often its
\* process crashed, whichever heartbeats are read and however many roots are kept, roots
\* that contradict each other were of a log damaged or rotated, one that shrank was so too
\* or was read out of order, and a watch stops committing to its log only where a write
\* was damaged.
THEOREM AlarmsHaveACause == ReviewSpec => []AlarmHasACause
<1>1. ReviewInit => ReviewIInv
  <2> SUFFICES ASSUME ReviewInit PROVE ReviewIInv
    OBVIOUS
  <2>1. IInv /\ proc = "down" /\ beats = <<>> /\ latest = 0 /\ lagged = FALSE /\ seen = <<>> /\ alarms = {}
    BY InitIInv DEF ReviewInit, Init
  <2>2. <<>> \in Seq(RootsOf(lines)) /\ <<>> \in Seq(Beats) /\ DOMAIN beats = {}
    BY <2>1, EmptySeq
  <2> QED BY <2>1, <2>2 DEF ReviewIInv, SilenceIsDamage, OnlyGrew, ReadInOrder
<1>2. ReviewIInv => AlarmHasACause
  BY DEF ReviewIInv, SilenceIsDamage, OnlyGrew, ReadInOrder, AlarmHasACause
<1> QED BY <1>1, <1>2, NextReviewed, PTL DEF ReviewSpec

-----------------------------------------------------------------------------
(* The tree a log is committed to with: what its recursions compute, that  *)
(* an entry's siblings lead to the root, and no other entry's do.          *)

\* Counting up leaves nothing out.
LEMMA NoneIsLeft ==
  ASSUME NEW N \in Nat, NEW S \in SUBSET (0 .. N), 0 \notin S,
         \A m \in 1 .. N : m - 1 \notin S => m \notin S
  PROVE  S = {}
<1>1. ASSUME NEW m \in S, \A j \in S : m <= j
      PROVE  FALSE
  <2>1. m \in 1 .. N /\ m - 1 \notin S
    BY <1>1
  <2> QED BY <1>1, <2>1
<1>2. S \in SUBSET Nat
  OBVIOUS
<1> QED BY <1>1, <1>2, ThereIsAFirst

\* The powers of two: what every set holds that holds 1 and doubles.
Doubling == {S \in SUBSET Nat : 1 \in S /\ \A k \in S : 2 * k \in S}
Powers == {k \in Nat : \A S \in Doubling : k \in S}

LEMMA PowerFacts ==
  1 \in Powers /\ \A k \in Powers : k \in Nat \ {0} /\ 2 * k \in Powers
<1>1. 1 \in Powers
  BY DEF Powers, Doubling
<1>2. \A k \in Powers : 2 * k \in Powers
  BY DEF Powers, Doubling
<1>3. Nat \ {0} \in Doubling
  BY DEF Doubling
<1> QED BY <1>1, <1>2, <1>3 DEF Powers

\* What holds of 1, and of the double of what it holds of, holds of them all.
LEMMA AllPowers ==
  ASSUME NEW S \in SUBSET Powers, 1 \in S, \A k \in S : 2 * k \in S
  PROVE  S = Powers
<1>1. S \in Doubling
  BY DEF Doubling, Powers
<1> QED BY <1>1 DEF Powers

LEMMA PowerHalves ==
  ASSUME NEW k \in Powers, k # 1
  PROVE  \E j \in Powers : k = 2 * j
<1> DEFINE S == {m \in Powers : m = 1 \/ \E j \in Powers : m = 2 * j}
<1>1. 1 \in S /\ \A m \in S : 2 * m \in S
  BY PowerFacts
<1>2. S = Powers
  BY <1>1, AllPowers
<1> QED BY <1>2

\* They are a factor of two apart, and each divides the next.
LEMMA PowersApart ==
  ASSUME NEW j \in Powers, NEW k \in Powers, j < k
  PROVE  2 * j <= k
<1> DEFINE S == {m \in Powers : \A i \in Powers : i < m => 2 * i <= m}
<1>1. 1 \in S
  BY PowerFacts
<1>2. ASSUME NEW m \in S, NEW i \in Powers, i < 2 * m
      PROVE  2 * i <= 2 * m
  <2>1. CASE i = 1
    BY <2>1, PowerFacts
  <2>2. CASE i # 1
    <3>1. PICK h \in Powers : i = 2 * h
      BY <2>2, PowerHalves
    <3>2. h \in Nat /\ i \in Nat /\ m \in Nat
      BY PowerFacts
    <3>3. h < m
      BY <1>2, <3>1, <3>2
    <3>4. 2 * h <= m
      BY <3>3
    <3> QED BY <3>1, <3>2, <3>4
  <2> QED BY <2>1, <2>2
<1>3. \A m \in S : 2 * m \in S
  BY <1>2, PowerFacts
<1>4. S = Powers
  BY <1>1, <1>3, AllPowers
<1> QED BY <1>4

LEMMA PowersDivide ==
  ASSUME NEW j \in Powers, NEW k \in Powers, j <= k
  PROVE  \E q \in Powers : k = q * j
<1> DEFINE S == {m \in Powers : \A i \in Powers : i <= m => \E q \in Powers : m = q * i}
<1>1. 1 \in S
  <2>1. ASSUME NEW i \in Powers, i <= 1
        PROVE  1 = 1 * i
    BY <2>1, PowerFacts
  <2> QED BY <2>1, PowerFacts
<1>2. ASSUME NEW m \in S, NEW i \in Powers, i <= 2 * m
      PROVE  \E q \in Powers : 2 * m = q * i
  <2>1. i \in Nat /\ m \in Nat /\ 2 * m \in Powers
    BY PowerFacts
  <2>2. CASE i = 2 * m
    <3>1. 2 * m = 1 * i
      BY <2>1, <2>2
    <3> QED BY <3>1, PowerFacts
  <2>3. CASE i # 2 * m
    <3>1. 2 * i <= 2 * m
      BY <1>2, <2>1, <2>3, PowersApart
    <3>2. PICK q \in Powers : m = q * i
      BY <2>1, <3>1
    <3>3. q \in Nat /\ 2 * q \in Powers
      BY PowerFacts
    <3>4. 2 * m = (2 * q) * i
      BY <2>1, <3>2, <3>3
    <3> QED BY <3>3, <3>4
  <2> QED BY <2>2, <2>3
<1>3. \A m \in S : 2 * m \in S
  BY <1>2, PowerFacts
<1>4. S = Powers
  BY <1>1, <1>3, AllPowers
<1> QED BY <1>4

-----------------------------------------------------------------------------
\* The doubling of split ends.
Grown(n, g) == g = [k \in 1 .. n |-> IF 2 * k < n THEN g[2 * k] ELSE k]

LEMMA GrownInTurn ==
  ASSUME NEW n \in Nat \ {0}
  PROVE  \E g : Grown(n, g)
<1> DEFINE solves(g, m) == g = [k \in n - m .. n |-> IF 2 * k < n THEN g[2 * k] ELSE k]
           unsolved == {m \in 0 .. n - 1 : \A g : ~solves(g, m)}
<1>1. solves([k \in n - 0 .. n |-> k], 0)
  OBVIOUS
<1>2. ASSUME NEW m \in 1 .. n - 1, NEW g, solves(g, m - 1)
      PROVE  \E f : solves(f, m)
  <2> DEFINE f == [k \in n - m .. n |-> IF k > n - m THEN g[k] ELSE IF 2 * k < n THEN g[2 * k] ELSE k]
  <2>1. ASSUME NEW k \in n - m .. n
        PROVE  f[k] = IF 2 * k < n THEN f[2 * k] ELSE k
    <3>1. 2 * k < n => 2 * k \in n - m + 1 .. n
      OBVIOUS
    <3>2. 2 * k < n => f[2 * k] = g[2 * k]
      BY <3>1
    <3>3. CASE k > n - m
      <4>1. k \in n - (m - 1) .. n
        BY <3>3
      <4> QED BY <1>2, <3>2, <3>3, <4>1
    <3>4. CASE k = n - m
      BY <3>2, <3>4
    <3> QED BY <3>3, <3>4
  <2>2. solves(f, m)
    BY <2>1
  <2> QED BY <2>2
<1> HIDE DEF solves
<1>3. unsolved = {}
  <2>1. 0 \notin unsolved /\ \A m \in 1 .. n - 1 : m - 1 \notin unsolved => m \notin unsolved
    BY <1>1, <1>2
  <2>2. unsolved \in SUBSET (0 .. n - 1) /\ n - 1 \in Nat
    OBVIOUS
  <2> HIDE DEF unsolved
  <2> QED BY <2>1, <2>2, NoneIsLeft
<1>4. n - 1 \in 0 .. n - 1
  OBVIOUS
<1>5. \E g : solves(g, n - 1)
  BY <1>3, <1>4
<1>6. n - (n - 1) = 1
  OBVIOUS
<1> QED BY <1>5, <1>6 DEF solves, Grown

\* The half of a slice is as long as the largest power of two below its length.
LEMMA SplitFacts ==
  ASSUME NEW n \in Nat, n > 1
  PROVE  Split(n) \in Powers /\ Split(n) < n /\ n <= 2 * Split(n)
<1> DEFINE g == CHOOSE g : Grown(n, g)
           small == {k \in Powers : k < n /\ ~(g[k] \in Powers /\ g[k] < n /\ n <= 2 * g[k])}
           up == {n - k : k \in small}
<1>1. Grown(n, g)
  <2>1. n \in Nat \ {0}
    OBVIOUS
  <2> QED BY <2>1, GrownInTurn
<1>0. Split(n) = g[1]
  BY DEF Split, Grown
<1> HIDE DEF g
<1>2. \A k \in 1 .. n : g[k] = IF 2 * k < n THEN g[2 * k] ELSE k
  BY <1>1 DEF Grown
<1>3. ASSUME NEW k \in small, \A j \in small : j <= k
      PROVE  FALSE
  <2>1. k \in Powers /\ k < n /\ k \in Nat \ {0} /\ 2 * k \in Powers
    BY PowerFacts
  <2>2. k \in 1 .. n
    BY <2>1
  <2>3. CASE 2 * k < n
    <3>1. 2 * k \notin small
      BY <1>3, <2>1
    <3>2. g[k] = g[2 * k]
      BY <1>2, <2>2, <2>3
    <3> QED BY <2>1, <2>3, <3>1, <3>2
  <2>4. CASE ~(2 * k < n)
    <3>1. g[k] = k
      BY <1>2, <2>2, <2>4
    <3> QED BY <2>1, <2>4, <3>1
  <2> QED BY <2>3, <2>4
<1>4. small = {}
  <2>1. \A k \in small : k \in Nat /\ k < n
    BY PowerFacts
  <2> HIDE DEF small
  <2>2. SUFFICES ASSUME small # {} PROVE FALSE
    OBVIOUS
  <2>3. up \in SUBSET Nat /\ up # {}
    BY <2>1, <2>2
  <2>4. PICK u \in up : \A v \in up : u <= v
    BY <2>3, ThereIsAFirst
  <2>5. PICK k \in small : u = n - k
    BY <2>4
  <2>6. \A j \in small : n - k <= n - j
    BY <2>4, <2>5
  <2>7. \A j \in small : j <= k
    BY <2>1, <2>6
  <2> QED BY <1>3, <2>7
<1> QED BY <1>0, <1>4, PowerFacts

LEMMA SplitRange ==
  ASSUME NEW n \in Nat, n > 1
  PROVE  Split(n) \in 1 .. n - 1 /\ n - Split(n) \in 1 .. n - 1
<1>1. Split(n) \in Nat \ {0} /\ Split(n) < n
  BY SplitFacts, PowerFacts
<1> QED BY <1>1

\* The recursion of the tree's hash has a solution, found one length at a time.
Hashes(log, N, g) ==
  g = [n \in 0 .. N |-> [i \in 0 .. N - n |->
         CASE n = 0 -> EmptyTree
           [] n = 1 -> HashLeaf(log[i + 1])
           [] OTHER -> HashNode(g[Split(n)][i], g[n - Split(n)][i + Split(n)])]]

LEMMA HashesInTurn ==
  ASSUME NEW log, NEW N \in Nat
  PROVE  \E g : Hashes(log, N, g)
<1> DEFINE next(g, n) == [i \in 0 .. N - n |->
             CASE n = 0 -> EmptyTree
               [] n = 1 -> HashLeaf(log[i + 1])
               [] OTHER -> HashNode(g[Split(n)][i], g[n - Split(n)][i + Split(n)])]
           solves(g, m) == g = [n \in 0 .. m |-> next(g, n)]
           unsolved == {m \in 0 .. N : \A g : ~solves(g, m)}
<1>1. ASSUME NEW n \in Nat, NEW f, NEW g, \A k \in 1 .. n - 1 : f[k] = g[k]
      PROVE  next(f, n) = next(g, n)
  <2>1. CASE n \in {0, 1}
    BY <2>1
  <2>2. CASE n \notin {0, 1}
    <3>1. Split(n) \in 1 .. n - 1 /\ n - Split(n) \in 1 .. n - 1
      BY <2>2, SplitRange
    <3>2. f[Split(n)] = g[Split(n)] /\ f[n - Split(n)] = g[n - Split(n)]
      BY <1>1, <3>1
    <3> QED BY <2>2, <3>2
  <2> QED BY <2>1, <2>2
<1>2. SUFFICES \E g : solves(g, N)
  BY DEF Hashes
<1>3. \E g : solves(g, 0)
  <2> DEFINE g == [n \in 0 .. 0 |-> next(<<>>, 0)]
  <2>1. next(g, 0) = next(<<>>, 0)
    BY <1>1
  <2> HIDE DEF next
  <2>2. solves(g, 0)
    BY <2>1
  <2> QED BY <2>2
<1> HIDE DEF next
<1>4. ASSUME NEW m \in 1 .. N, NEW g, solves(g, m - 1)
      PROVE  \E f : solves(f, m)
  <2> DEFINE f == [n \in 0 .. m |-> IF n < m THEN g[n] ELSE next(g, m)]
  <2>1. ASSUME NEW n \in 0 .. m
        PROVE  f[n] = next(f, n)
    <3>1. \A k \in 1 .. n - 1 : f[k] = g[k]
      OBVIOUS
    <3>2. next(f, n) = next(g, n)
      <4> HIDE DEF f
      <4> QED BY <1>1, <3>1
    <3>3. CASE n < m
      <4>1. n \in 0 .. m - 1
        BY <3>3
      <4>2. g[n] = next(g, n)
        BY <1>4, <4>1
      <4> QED BY <3>2, <3>3, <4>2
    <3>4. CASE n = m
      BY <3>2, <3>4
    <3> QED BY <3>3, <3>4
  <2>2. solves(f, m)
    BY <2>1
  <2> QED BY <2>2
<1> HIDE DEF solves
<1>5. unsolved = {}
  <2>1. 0 \notin unsolved /\ \A m \in 1 .. N : m - 1 \notin unsolved => m \notin unsolved
    BY <1>3, <1>4
  <2>2. unsolved \in SUBSET (0 .. N)
    OBVIOUS
  <2> HIDE DEF unsolved
  <2> QED BY <2>1, <2>2, NoneIsLeft
<1>6. N \in 0 .. N
  OBVIOUS
<1> QED BY <1>5, <1>6

\* What a slice hashes to.
LEMMA SubtreeFacts ==
  ASSUME NEW log, Len(log) \in Nat
  PROVE  /\ \A i \in 0 .. Len(log) - 1 : Len(log) > 0 => Subtrees(log)[1][i] = HashLeaf(log[i + 1])
         /\ \A n \in 2 .. Len(log) : \A i \in 0 .. Len(log) - n :
              Subtrees(log)[n][i] =
                HashNode(Subtrees(log)[Split(n)][i], Subtrees(log)[n - Split(n)][i + Split(n)])
<1> DEFINE N == Len(log)
           h == Subtrees(log)
<1>1. Hashes(log, N, h)
  <2>1. \E g : Hashes(log, N, g)
    BY HashesInTurn
  <2> QED BY <2>1 DEF Subtrees, Hashes
<1> HIDE DEF h, N
<1> DEFINE row(n) == [i \in 0 .. N - n |->
                       CASE n = 0 -> EmptyTree
                         [] n = 1 -> HashLeaf(log[i + 1])
                         [] OTHER -> HashNode(h[Split(n)][i], h[n - Split(n)][i + Split(n)])]
<1>2. \A n \in 0 .. N : h[n] = row(n)
  <2>1. h = [n \in 0 .. N |-> row(n)]
    BY <1>1 DEF Hashes
  <2> HIDE DEF row
  <2> QED BY <2>1
<1>3. N \in Nat
  BY DEF N
<1>4. ASSUME NEW i \in 0 .. N - 1, N > 0
      PROVE  h[1][i] = HashLeaf(log[i + 1])
  <2>1. row(1)[i] = HashLeaf(log[i + 1])
    OBVIOUS
  <2>2. 1 \in 0 .. N
    BY <1>3, <1>4
  <2> HIDE DEF row
  <2>3. h[1] = row(1)
    BY <1>2, <2>2
  <2> QED BY <2>1, <2>3
<1>5. ASSUME NEW n \in 2 .. N, NEW i \in 0 .. N - n
      PROVE  h[n][i] = HashNode(h[Split(n)][i], h[n - Split(n)][i + Split(n)])
  <2>1. n \in 0 .. N /\ n # 0 /\ n # 1
    BY <1>3
  <2>2. row(n)[i] = HashNode(h[Split(n)][i], h[n - Split(n)][i + Split(n)])
    BY <2>1
  <2> HIDE DEF row
  <2> QED BY <1>2, <2>1, <2>2
<1> QED BY <1>4, <1>5 DEF h, N

-----------------------------------------------------------------------------
\* And so has that of the audit paths.
Paths(index, hash, N, g) ==
  g = [n \in 0 .. N |-> [i \in 0 .. N - n |->
         CASE n <= 1 -> <<>>
           [] n > 1 /\ index < i + Split(n) -> Append(g[Split(n)][i], hash[n - Split(n)][i + Split(n)])
           [] OTHER -> Append(g[n - Split(n)][i + Split(n)], hash[Split(n)][i])]]

LEMMA PathsInTurn ==
  ASSUME NEW index, NEW hash, NEW N \in Nat
  PROVE  \E g : Paths(index, hash, N, g)
<1> DEFINE next(g, n) == [i \in 0 .. N - n |->
             CASE n <= 1 -> <<>>
               [] n > 1 /\ index < i + Split(n) -> Append(g[Split(n)][i], hash[n - Split(n)][i + Split(n)])
               [] OTHER -> Append(g[n - Split(n)][i + Split(n)], hash[Split(n)][i])]
           solves(g, m) == g = [n \in 0 .. m |-> next(g, n)]
           unsolved == {m \in 0 .. N : \A g : ~solves(g, m)}
<1>1. ASSUME NEW n \in Nat, NEW f, NEW g, \A k \in 1 .. n - 1 : f[k] = g[k]
      PROVE  next(f, n) = next(g, n)
  <2>1. CASE n <= 1
    BY <2>1
  <2>2. CASE n > 1
    <3>1. Split(n) \in 1 .. n - 1 /\ n - Split(n) \in 1 .. n - 1
      BY <2>2, SplitRange
    <3>2. f[Split(n)] = g[Split(n)] /\ f[n - Split(n)] = g[n - Split(n)]
      BY <1>1, <3>1
    <3> QED BY <2>2, <3>2
  <2> QED BY <2>1, <2>2
<1>2. SUFFICES \E g : solves(g, N)
  BY DEF Paths
<1>3. \E g : solves(g, 0)
  <2> DEFINE g == [n \in 0 .. 0 |-> next(<<>>, 0)]
  <2>1. next(g, 0) = next(<<>>, 0)
    BY <1>1
  <2> HIDE DEF next
  <2>2. solves(g, 0)
    BY <2>1
  <2> QED BY <2>2
<1> HIDE DEF next
<1>4. ASSUME NEW m \in 1 .. N, NEW g, solves(g, m - 1)
      PROVE  \E f : solves(f, m)
  <2> DEFINE f == [n \in 0 .. m |-> IF n < m THEN g[n] ELSE next(g, m)]
  <2>1. ASSUME NEW n \in 0 .. m
        PROVE  f[n] = next(f, n)
    <3>1. \A k \in 1 .. n - 1 : f[k] = g[k]
      OBVIOUS
    <3>2. next(f, n) = next(g, n)
      <4> HIDE DEF f
      <4> QED BY <1>1, <3>1
    <3>3. CASE n < m
      <4>1. n \in 0 .. m - 1
        BY <3>3
      <4>2. g[n] = next(g, n)
        BY <1>4, <4>1
      <4> QED BY <3>2, <3>3, <4>2
    <3>4. CASE n = m
      BY <3>2, <3>4
    <3> QED BY <3>3, <3>4
  <2>2. solves(f, m)
    BY <2>1
  <2> QED BY <2>2
<1> HIDE DEF solves
<1>5. unsolved = {}
  <2>1. 0 \notin unsolved /\ \A m \in 1 .. N : m - 1 \notin unsolved => m \notin unsolved
    BY <1>3, <1>4
  <2>2. unsolved \in SUBSET (0 .. N)
    OBVIOUS
  <2> HIDE DEF unsolved
  <2> QED BY <2>1, <2>2, NoneIsLeft
<1>6. N \in 0 .. N
  OBVIOUS
<1> QED BY <1>5, <1>6

\* The siblings of an entry in a slice: those in the half that holds it, and
\* then the other half.
LEMMA PathFacts ==
  ASSUME NEW index \in Int, NEW log, Len(log) \in Nat
  PROVE  /\ \A i \in 0 .. Len(log) - 1 : Len(log) > 0 => AuditPaths(index, log)[1][i] = <<>>
         /\ \A n \in 2 .. Len(log) : \A i \in 0 .. Len(log) - n :
              AuditPaths(index, log)[n][i] =
                IF index < i + Split(n)
                THEN Append(AuditPaths(index, log)[Split(n)][i],
                            Subtrees(log)[n - Split(n)][i + Split(n)])
                ELSE Append(AuditPaths(index, log)[n - Split(n)][i + Split(n)],
                            Subtrees(log)[Split(n)][i])
<1> DEFINE N == Len(log)
           h == Subtrees(log)
           p == AuditPaths(index, log)
<1>1. Paths(index, h, N, p)
  <2>1. \E g : Paths(index, h, N, g)
    BY PathsInTurn
  <2> QED BY <2>1 DEF AuditPaths, Paths
<1> HIDE DEF h, p, N
<1> DEFINE row(n) == [i \in 0 .. N - n |->
                       CASE n <= 1 -> <<>>
                         [] n > 1 /\ index < i + Split(n) -> Append(p[Split(n)][i], h[n - Split(n)][i + Split(n)])
                         [] OTHER -> Append(p[n - Split(n)][i + Split(n)], h[Split(n)][i])]
<1>2. \A n \in 0 .. N : p[n] = row(n)
  <2>1. p = [n \in 0 .. N |-> row(n)]
    BY <1>1 DEF Paths
  <2> HIDE DEF row
  <2> QED BY <2>1
<1>3. N \in Nat
  BY DEF N
<1>4. ASSUME NEW i \in 0 .. N - 1, N > 0
      PROVE  p[1][i] = <<>>
  <2>1. row(1)[i] = <<>>
    OBVIOUS
  <2>2. 1 \in 0 .. N
    BY <1>3, <1>4
  <2> HIDE DEF row
  <2>3. p[1] = row(1)
    BY <1>2, <2>2
  <2> QED BY <2>1, <2>3
<1>5. ASSUME NEW n \in 2 .. N, NEW i \in 0 .. N - n
      PROVE  p[n][i] = IF index < i + Split(n) THEN Append(p[Split(n)][i], h[n - Split(n)][i + Split(n)])
                       ELSE Append(p[n - Split(n)][i + Split(n)], h[Split(n)][i])
  <2>1. n \in 0 .. N /\ ~(n <= 1) /\ n > 1
    BY <1>3
  <2>2. row(n)[i] = IF index < i + Split(n) THEN Append(p[Split(n)][i], h[n - Split(n)][i + Split(n)])
                    ELSE Append(p[n - Split(n)][i + Split(n)], h[Split(n)][i])
    BY <2>1
  <2> HIDE DEF row
  <2> QED BY <1>2, <2>1, <2>2
<1> QED BY <1>4, <1>5 DEF h, p, N

\* Climbing takes one sibling at a time.
Climbs(start, path, g) ==
  g = [n \in 0 .. Len(path) |-> IF n = 0 THEN start ELSE Climb(g[n - 1], path[n])]

LEMMA ClimbsInTurn ==
  ASSUME NEW start, NEW path, Len(path) \in Nat
  PROVE  \E g : Climbs(start, path, g)
<1> DEFINE next(g, n) == IF n = 0 THEN start ELSE Climb(g[n - 1], path[n])
           solves(g, m) == g = [n \in 0 .. m |-> next(g, n)]
           N == Len(path)
           unsolved == {m \in 0 .. N : \A g : ~solves(g, m)}
<1>1. ASSUME NEW n \in Nat, NEW f, NEW g, n # 0 => f[n - 1] = g[n - 1]
      PROVE  next(f, n) = next(g, n)
  BY <1>1
<1>2. SUFFICES \E g : solves(g, N)
  BY DEF Climbs
<1>3. \E g : solves(g, 0)
  <2> DEFINE g == [n \in 0 .. 0 |-> next(<<>>, 0)]
  <2>1. next(g, 0) = next(<<>>, 0)
    OBVIOUS
  <2> HIDE DEF next
  <2>2. solves(g, 0)
    BY <2>1
  <2> QED BY <2>2
<1> HIDE DEF next, N
<1>4. ASSUME NEW m \in 1 .. N, NEW g, solves(g, m - 1), N \in Nat
      PROVE  \E f : solves(f, m)
  <2> DEFINE f == [n \in 0 .. m |-> IF n < m THEN g[n] ELSE next(g, m)]
  <2>1. ASSUME NEW n \in 0 .. m
        PROVE  f[n] = next(f, n)
    <3>1. n # 0 => f[n - 1] = g[n - 1]
      BY <1>4
    <3>2. next(f, n) = next(g, n)
      <4>1. n \in Nat
        BY <1>4
      <4> HIDE DEF f
      <4> QED BY <1>1, <3>1, <4>1
    <3>3. CASE n < m
      <4>1. n \in 0 .. m - 1
        BY <3>3, <1>4
      <4>2. g[n] = next(g, n)
        BY <1>4, <4>1
      <4> QED BY <3>2, <3>3, <4>2
    <3>4. CASE n = m
      BY <3>2, <3>4
    <3> QED BY <3>3, <3>4, <1>4
  <2>2. solves(f, m)
    BY <2>1
  <2> QED BY <2>2
<1>7. N \in Nat
  BY DEF N
<1> HIDE DEF solves
<1>5. unsolved = {}
  <2>1. 0 \notin unsolved /\ \A m \in 1 .. N : m - 1 \notin unsolved => m \notin unsolved
    BY <1>3, <1>4, <1>7
  <2>2. unsolved \in SUBSET (0 .. N)
    OBVIOUS
  <2> HIDE DEF unsolved
  <2> QED BY <1>7, <2>1, <2>2, NoneIsLeft
<1>6. N \in 0 .. N
  BY <1>7
<1> QED BY <1>5, <1>6

\* Where each sibling of the path leads.
Stages(start, path, g) ==
    /\ g[0] = start /\ Climbed(start, path) = g[Len(path)]
    /\ \A n \in 1 .. Len(path) : g[n] = Climb(g[n - 1], path[n])

LEMMA ClimbedIs ==
  ASSUME NEW start, NEW path, Len(path) \in Nat
  PROVE  \E g : Stages(start, path, g)
<1> DEFINE g == CHOOSE g : Climbs(start, path, g)
<1>1. Climbs(start, path, g)
  BY ClimbsInTurn
<1>2. Climbed(start, path) = g[Len(path)]
  BY DEF Climbed, Climbs
<1> HIDE DEF g
<1>3. g[0] = start /\ \A n \in 1 .. Len(path) : g[n] = Climb(g[n - 1], path[n])
  BY <1>1 DEF Climbs
<1> QED BY <1>2, <1>3 DEF Stages

LEMMA ClimbedNowhere ==
  ASSUME NEW start
  PROVE  Climbed(start, <<>>) = start
<1>1. Len(<<>>) = 0
  OBVIOUS
<1> QED BY <1>1, ClimbedIs DEF Stages

LEMMA ClimbedOneMore ==
  ASSUME NEW S, NEW path \in Seq(S), NEW x \in S, NEW start
  PROVE  Climbed(start, Append(path, x)) = Climb(Climbed(start, path), x)
<1> DEFINE more == Append(path, x)
           N == Len(path)
<1>1. N \in Nat /\ Len(more) = N + 1 /\ more[N + 1] = x /\ \A n \in 1 .. N : more[n] = path[n]
  BY AppendProperties, LenProperties
<1>2. PICK g : Stages(start, path, g)
  BY <1>1, ClimbedIs
<1>3. Len(more) \in Nat
  BY <1>1
<1>4. PICK f : Stages(start, more, f)
  <2> HIDE DEF more
  <2> QED BY <1>3, ClimbedIs
<1> DEFINE apart == {n \in 0 .. N : f[n] # g[n]}
<1> HIDE DEF more, N
<1>5. 0 \notin apart /\ \A n \in 1 .. N : n - 1 \notin apart => n \notin apart
  <2>1. ASSUME NEW n \in 1 .. N, f[n - 1] = g[n - 1]
        PROVE  f[n] = g[n]
    <3>1. n \in 1 .. Len(more) /\ more[n] = path[n]
      BY <1>1
    <3> QED BY <1>2, <1>4, <2>1, <3>1 DEF Stages, N
  <2> QED BY <1>1, <1>2, <1>4, <2>1 DEF Stages
<1>6. apart = {}
  <2>1. apart \in SUBSET (0 .. N)
    OBVIOUS
  <2> HIDE DEF apart
  <2> QED BY <1>1, <1>5, <2>1, NoneIsLeft
<1>7. f[N] = g[N]
  BY <1>1, <1>6
<1>8. f[N + 1] = Climb(f[N], x)
  <2>1. N + 1 \in 1 .. Len(more) /\ (N + 1) - 1 = N
    BY <1>1
  <2> QED BY <1>1, <1>4, <2>1 DEF Stages
<1> QED BY <1>1, <1>2, <1>4, <1>7, <1>8 DEF Stages, N, more

\* What differs at the leaf differs all the way up.

LEMMA ClimbedApart ==
  ASSUME NEW path, Len(path) \in Nat, NEW f \in Nat, NEW s \in Nat, NEW x, NEW y, x # y
  PROVE  Climbed([r |-> x, fn |-> f, sn |-> s, ok |-> TRUE], path).r
           # Climbed([r |-> y, fn |-> f, sn |-> s, ok |-> TRUE], path).r
<1> DEFINE a == [r |-> x, fn |-> f, sn |-> s, ok |-> TRUE]
           b == [r |-> y, fn |-> f, sn |-> s, ok |-> TRUE]
           N == Len(path)
<1>1. PICK g : Stages(a, path, g)
  <2> HIDE DEF a
  <2> QED BY ClimbedIs
<1>2. PICK h : Stages(b, path, h)
  <2> HIDE DEF b
  <2> QED BY ClimbedIs
<1> DEFINE alike(m, n) == \E p, q, i, j, o : /\ m = [r |-> p, fn |-> i, sn |-> j, ok |-> o]
                                                /\ n = [r |-> q, fn |-> i, sn |-> j, ok |-> o]
                                                /\ p # q
           lost == {n \in 0 .. N : ~alike(g[n], h[n])}
<1>3. alike(a, b)
  OBVIOUS
<1>4. ASSUME NEW m, NEW n, NEW z, alike(m, n)
      PROVE  alike(Climb(m, z), Climb(n, z))
  <2>1. PICK p, q, i, j, o : /\ m = [r |-> p, fn |-> i, sn |-> j, ok |-> o]
                             /\ n = [r |-> q, fn |-> i, sn |-> j, ok |-> o]
                             /\ p # q
    BY <1>4
  <2>2. CASE j = 0
    <3>1. /\ Climb(m, z) = [r |-> p, fn |-> i, sn |-> j, ok |-> FALSE]
          /\ Climb(n, z) = [r |-> q, fn |-> i, sn |-> j, ok |-> FALSE]
      BY <2>1, <2>2 DEF Climb
    <3> QED BY <2>1, <3>1
  <2>3. CASE j # 0
    <3> DEFINE left == i % 2 = 1 \/ i = j
               skipped == IF left THEN SkipLeft(i, j) ELSE [fn |-> i, sn |-> j]
    <3>1. /\ Climb(m, z) = [r |-> IF left THEN HashNode(z, p) ELSE HashNode(p, z),
                            fn |-> skipped.fn \div 2, sn |-> skipped.sn \div 2, ok |-> o]
          /\ Climb(n, z) = [r |-> IF left THEN HashNode(z, q) ELSE HashNode(q, z),
                            fn |-> skipped.fn \div 2, sn |-> skipped.sn \div 2, ok |-> o]
      BY <2>1, <2>3 DEF Climb
    <3> HIDE DEF left, skipped
    <3>2. HashNode(z, p) # HashNode(z, q) /\ HashNode(p, z) # HashNode(q, z)
      BY <2>1 DEF HashNode
    <3> QED BY <3>1, <3>2
  <2> QED BY <2>2, <2>3
<1> HIDE DEF alike, a, b, N
<1>5. 0 \notin lost /\ \A n \in 1 .. N : n - 1 \notin lost => n \notin lost
  <2>1. N \in Nat
    BY DEF N
  <2> QED BY <1>1, <1>2, <1>3, <1>4, <2>1 DEF Stages, N
<1>6. lost = {}
  <2>1. lost \in SUBSET (0 .. N) /\ N \in Nat
    BY DEF N
  <2> HIDE DEF lost
  <2> QED BY <1>5, <2>1, NoneIsLeft
<1>7. alike(g[N], h[N])
  BY <1>6 DEF N
<1> QED BY <1>1, <1>2, <1>7 DEF Stages, N, alike, a, b

\* The loop that drops low bits ends: its recursion has a solution, found one
\* first index at a time.
Shifted(fn, sn, g) ==
  g = [f \in 0 .. fn |-> [s \in 0 .. sn |->
        IF f = 0 \/ f % 2 = 1 THEN [fn |-> f, sn |-> s] ELSE g[f \div 2][s \div 2]]]

LEMMA ShiftedInTurn ==
  ASSUME NEW fn \in Nat, NEW sn \in Nat
  PROVE  \E g : Shifted(fn, sn, g)
<1> DEFINE next(g, f) == [s \in 0 .. sn |->
             IF f = 0 \/ f % 2 = 1 THEN [fn |-> f, sn |-> s] ELSE g[f \div 2][s \div 2]]
           solves(g, m) == g = [f \in 0 .. m |-> next(g, f)]
           unsolved == {m \in 0 .. fn : \A g : ~solves(g, m)}
<1>1. ASSUME NEW n \in Nat, NEW f, NEW g, \A k \in 0 .. n - 1 : f[k] = g[k]
      PROVE  next(f, n) = next(g, n)
  <2>1. CASE n = 0 \/ n % 2 = 1
    BY <2>1
  <2>2. CASE ~(n = 0 \/ n % 2 = 1)
    <3>1. n \div 2 \in 0 .. n - 1
      BY <2>2
    <3>2. f[n \div 2] = g[n \div 2]
      BY <1>1, <3>1
    <3> QED BY <2>2, <3>2
  <2> QED BY <2>1, <2>2
<1>2. SUFFICES \E g : solves(g, fn)
  BY DEF Shifted
<1>3. \E g : solves(g, 0)
  <2> DEFINE g == [f \in 0 .. 0 |-> next(<<>>, 0)]
  <2>1. next(g, 0) = next(<<>>, 0)
    BY <1>1
  <2> HIDE DEF next
  <2>2. solves(g, 0)
    BY <2>1
  <2> QED BY <2>2
<1> HIDE DEF next
<1>4. ASSUME NEW m \in 1 .. fn, NEW g, solves(g, m - 1)
      PROVE  \E f : solves(f, m)
  <2> DEFINE f == [n \in 0 .. m |-> IF n < m THEN g[n] ELSE next(g, m)]
  <2>1. ASSUME NEW n \in 0 .. m
        PROVE  f[n] = next(f, n)
    <3>1. \A k \in 0 .. n - 1 : f[k] = g[k]
      OBVIOUS
    <3>2. next(f, n) = next(g, n)
      <4> HIDE DEF f
      <4> QED BY <1>1, <3>1
    <3>3. CASE n < m
      <4>1. n \in 0 .. m - 1
        BY <3>3
      <4>2. g[n] = next(g, n)
        BY <1>4, <4>1
      <4> QED BY <3>2, <3>3, <4>2
    <3>4. CASE n = m
      BY <3>2, <3>4
    <3> QED BY <3>3, <3>4
  <2>2. solves(f, m)
    BY <2>1
  <2> QED BY <2>2
<1> HIDE DEF solves
<1>5. unsolved = {}
  <2>1. 0 \notin unsolved /\ \A m \in 1 .. fn : m - 1 \notin unsolved => m \notin unsolved
    BY <1>3, <1>4
  <2>2. unsolved \in SUBSET (0 .. fn)
    OBVIOUS
  <2> HIDE DEF unsolved
  <2> QED BY <2>1, <2>2, NoneIsLeft
<1>6. fn \in 0 .. fn
  OBVIOUS
<1> QED BY <1>5, <1>6

\* What it drops, one bit at a time.
LEMMA SkipLeftIs ==
  ASSUME NEW fn \in Nat, NEW sn \in Nat
  PROVE  \E g : /\ SkipLeft(fn, sn) = g[fn][sn]
                /\ \A f \in 0 .. fn : \A s \in 0 .. sn :
                     g[f][s] = IF f = 0 \/ f % 2 = 1 THEN [fn |-> f, sn |-> s]
                               ELSE g[f \div 2][s \div 2]
<1> DEFINE g == CHOOSE g : Shifted(fn, sn, g)
<1>1. Shifted(fn, sn, g)
  BY ShiftedInTurn
<1>2. SkipLeft(fn, sn) = g[fn][sn]
  BY DEF SkipLeft, Shifted
<1> HIDE DEF g
<1> DEFINE row(f) == [s \in 0 .. sn |->
             IF f = 0 \/ f % 2 = 1 THEN [fn |-> f, sn |-> s] ELSE g[f \div 2][s \div 2]]
<1>3. ASSUME NEW f \in 0 .. fn, NEW s \in 0 .. sn
      PROVE  g[f][s] = IF f = 0 \/ f % 2 = 1 THEN [fn |-> f, sn |-> s] ELSE g[f \div 2][s \div 2]
  <2>1. row(f)[s] = IF f = 0 \/ f % 2 = 1 THEN [fn |-> f, sn |-> s] ELSE g[f \div 2][s \div 2]
    OBVIOUS
  <2>2. g = [e \in 0 .. fn |-> row(e)]
    BY <1>1 DEF Shifted
  <2> HIDE DEF row
  <2>3. g[f] = row(f)
    BY <2>2
  <2> QED BY <2>1, <2>3
<1> QED BY <1>2, <1>3

\* An odd index loses nothing, and the last entry's index all its low bits.
LEMMA SkipOdd ==
  ASSUME NEW fn \in Nat, NEW sn \in Nat, fn % 2 = 1
  PROVE  SkipLeft(fn, sn) = [fn |-> fn, sn |-> sn]
<1>1. PICK g : /\ SkipLeft(fn, sn) = g[fn][sn]
               /\ \A f \in 0 .. fn : \A s \in 0 .. sn :
                    g[f][s] = IF f = 0 \/ f % 2 = 1 THEN [fn |-> f, sn |-> s]
                              ELSE g[f \div 2][s \div 2]
  BY SkipLeftIs
<1>2. fn \in 0 .. fn /\ sn \in 0 .. sn
  OBVIOUS
<1>3. g[fn][sn] = [fn |-> fn, sn |-> sn]
  BY <1>1, <1>2
<1> QED BY <1>1, <1>3

LEMMA SkipPower ==
  ASSUME NEW q \in Powers, NEW a \in Nat, NEW c, c = q * (2 * a + 1)
  PROVE  SkipLeft(c, c) = [fn |-> 2 * a + 1, sn |-> 2 * a + 1]
<1> DEFINE o == 2 * a + 1
<1>1. o \in Nat /\ o % 2 = 1 /\ o > 0
  OBVIOUS
<1>2. q \in Nat \ {0} /\ c \in Nat
  BY PowerFacts
<1>3. PICK g : /\ SkipLeft(c, c) = g[c][c]
               /\ \A f \in 0 .. c : \A s \in 0 .. c :
                    g[f][s] = IF f = 0 \/ f % 2 = 1 THEN [fn |-> f, sn |-> s]
                              ELSE g[f \div 2][s \div 2]
  BY <1>2, SkipLeftIs
<1> HIDE DEF o
<1> DEFINE S == {m \in Powers : m * o \in 0 .. c => g[m * o][m * o] = [fn |-> o, sn |-> o]}
<1>4. 1 \in S
  <2>1. 1 * o = o
    BY <1>1
  <2>2. o \in 0 .. c => g[o][o] = [fn |-> o, sn |-> o]
    BY <1>1, <1>3
  <2> QED BY <2>1, <2>2, PowerFacts
<1>5. ASSUME NEW m \in S
      PROVE  2 * m \in S
  <2> DEFINE x == m * o
  <2>1. m \in Nat \ {0} /\ 2 * m \in Powers
    BY PowerFacts
  <2>2. x \in Nat /\ x > 0
    BY <1>1, <2>1
  <2>3. (2 * m) * o = 2 * x
    BY <1>1, <2>1
  <2>4. x \in 0 .. c => g[x][x] = [fn |-> o, sn |-> o]
    OBVIOUS
  <2> HIDE DEF x
  <2>5. 2 * x \in 0 .. c => g[2 * x][2 * x] = g[x][x] /\ x \in 0 .. c
    <3>1. ~(2 * x = 0 \/ (2 * x) % 2 = 1) /\ (2 * x) \div 2 = x
      BY <2>2
    <3>2. 2 * x \in 0 .. c => x \in 0 .. c
      BY <2>2, <1>2
    <3> QED BY <1>3, <3>1, <3>2
  <2> QED BY <2>1, <2>3, <2>4, <2>5
<1>6. S = Powers
  BY <1>4, <1>5, AllPowers
<1>7. q * o \in 0 .. c /\ q * o = c
  BY <1>2 DEF o
<1> QED BY <1>3, <1>6, <1>7 DEF o

At(r, f, s) == [r |-> r, fn |-> f, sn |-> s, ok |-> TRUE]

\* A step up: from the left half of a slice, from the right one, and from the
\* right one at the edge of the tree.
LEMMA ClimbAt ==
  ASSUME NEW r, NEW f, NEW s, NEW z, s # 0
  PROVE  /\ ~(f % 2 = 1 \/ f = s) => Climb(At(r, f, s), z) = At(HashNode(r, z), f \div 2, s \div 2)
         /\ f % 2 = 1 \/ f = s =>
              Climb(At(r, f, s), z) =
                At(HashNode(z, r), SkipLeft(f, s).fn \div 2, SkipLeft(f, s).sn \div 2)
<1> DEFINE left == f % 2 = 1 \/ f = s
           skipped == IF left THEN SkipLeft(f, s) ELSE [fn |-> f, sn |-> s]
<1>1. Climb(At(r, f, s), z) =
        At(IF left THEN HashNode(z, r) ELSE HashNode(r, z), skipped.fn \div 2, skipped.sn \div 2)
  BY DEF Climb, At
<1> QED BY <1>1

LEMMA ClimbEven ==
  ASSUME NEW r, NEW z, NEW a \in Nat, NEW b \in Nat, NEW f, f = 2 * a,
         NEW s, s = 2 * b \/ s = 2 * b + 1, a < b \/ s = 2 * a + 1
  PROVE  Climb(At(r, f, s), z) = At(HashNode(r, z), a, b)
<1>1. s \in Nat /\ s # 0 /\ f # s
  OBVIOUS
<1>2. f % 2 = 0 /\ f \div 2 = a
  OBVIOUS
<1>3. s \div 2 = b
  OBVIOUS
<1> QED BY <1>1, <1>2, <1>3, ClimbAt

LEMMA ClimbOdd ==
  ASSUME NEW r, NEW z, NEW a \in Nat, NEW b \in Nat, NEW f, f = 2 * a + 1,
         NEW s, s = 2 * b \/ s = 2 * b + 1, a < b
  PROVE  Climb(At(r, f, s), z) = At(HashNode(z, r), a, b)
<1>1. s \in Nat /\ s # 0 /\ f \in Nat
  OBVIOUS
<1>2. f % 2 = 1 /\ f \div 2 = a
  OBVIOUS
<1>3. s \div 2 = b
  OBVIOUS
<1>4. SkipLeft(f, s) = [fn |-> f, sn |-> s]
  BY <1>1, <1>2, SkipOdd
<1>5. Climb(At(r, f, s), z) = At(HashNode(z, r), SkipLeft(f, s).fn \div 2, SkipLeft(f, s).sn \div 2)
  BY <1>1, <1>2, ClimbAt
<1>6. SkipLeft(f, s).fn = f /\ SkipLeft(f, s).sn = s
  BY <1>4
<1> QED BY <1>2, <1>3, <1>5, <1>6

LEMMA ClimbEdge ==
  ASSUME NEW r, NEW z, NEW q \in Powers, NEW a \in Nat, NEW o, o = 2 * a + 1,
         NEW c, c = q * o
  PROVE  Climb(At(r, c, c), z) = At(HashNode(z, r), a, a)
<1>1. q \in Nat \ {0}
  BY PowerFacts
<1>2. c # 0
  <2>1. o \in Nat \ {0}
    OBVIOUS
  <2>2. \A x, y \in Nat \ {0} : x * y # 0
    OBVIOUS
  <2> QED BY <1>1, <2>1, <2>2
<1>3. SkipLeft(c, c) = [fn |-> o, sn |-> o]
  BY SkipPower
<1>4. o \div 2 = a
  OBVIOUS
<1>5. SkipLeft(c, c).fn = o /\ SkipLeft(c, c).sn = o
  BY <1>3
<1>6. Climb(At(r, c, c), z) = At(HashNode(z, r), SkipLeft(c, c).fn \div 2, SkipLeft(c, c).sn \div 2)
  BY <1>2, ClimbAt
<1> QED BY <1>4, <1>5, <1>6

-----------------------------------------------------------------------------
\* Siblings are hashes of slices, and a path is a sequence of them.
Siblings(log) == {Subtrees(log)[n][i] : n \in 0 .. Len(log), i \in 0 .. Len(log)}

LEMMA PathTyped ==
  ASSUME NEW index \in Int, NEW log, Len(log) \in Nat,
         NEW n \in 1 .. Len(log), NEW i \in 0 .. Len(log) - n
  PROVE  AuditPaths(index, log)[n][i] \in Seq(Siblings(log))
<1> DEFINE N == Len(log)
           p == AuditPaths(index, log)
           h == Subtrees(log)
           S == Siblings(log)
           odd == {m \in 1 .. N : \E j \in 0 .. N - m : p[m][j] \notin Seq(S)}
<1>1. /\ \A j \in 0 .. N - 1 : N > 0 => p[1][j] = <<>>
      /\ \A m \in 2 .. N : \A j \in 0 .. N - m :
           p[m][j] = IF index < j + Split(m) THEN Append(p[Split(m)][j], h[m - Split(m)][j + Split(m)])
                     ELSE Append(p[m - Split(m)][j + Split(m)], h[Split(m)][j])
  BY PathFacts
<1>2. \A m, j \in 0 .. N : h[m][j] \in S
  BY DEF Siblings
<1>3. N \in Nat
  OBVIOUS
<1> HIDE DEF N, p, h, S
<1>4. <<>> \in Seq(S) /\ \A q \in Seq(S) : \A x \in S : Append(q, x) \in Seq(S)
  <2>1. \A q \in Seq(S) : \A x \in S : Append(q, x) \in Seq(S)
    BY AppendProperties
  <2> QED BY <2>1, EmptySeq
<1>5. ASSUME NEW m \in odd, \A k \in odd : m <= k
      PROVE  FALSE
  <2>1. PICK j \in 0 .. N - m : p[m][j] \notin Seq(S)
    OBVIOUS
  <2>2. CASE m = 1
    <3>1. j \in 0 .. N - 1 /\ N > 0
      BY <1>3, <2>2
    <3>2. p[1][j] = <<>>
      BY <1>1, <3>1
    <3> QED BY <1>4, <2>1, <2>2, <3>2
  <2>3. CASE m # 1
    <3> DEFINE k == Split(m)
    <3>1. m \in Nat /\ m > 1 /\ m <= N
      BY <1>3, <2>3
    <3>2. k \in 1 .. m - 1 /\ m - k \in 1 .. m - 1
      BY <3>1, SplitRange
    <3> HIDE DEF k
    <3>3. k \in 1 .. N /\ m - k \in 1 .. N /\ k \notin odd /\ m - k \notin odd
      BY <1>3, <1>5, <3>1, <3>2
    <3>4. j \in 0 .. N - k /\ j + k \in 0 .. N - (m - k) /\ j \in 0 .. N /\ j + k \in 0 .. N
      BY <1>3, <3>1, <3>2
    <3>5. p[k][j] \in Seq(S) /\ p[m - k][j + k] \in Seq(S)
      BY <3>3, <3>4
    <3>6. h[k][j] \in S /\ h[m - k][j + k] \in S
      BY <1>2, <1>3, <3>3, <3>4
    <3>7. /\ Append(p[k][j], h[m - k][j + k]) \in Seq(S)
          /\ Append(p[m - k][j + k], h[k][j]) \in Seq(S)
      BY <1>4, <3>5, <3>6
    <3>8. m \in 2 .. N
      BY <1>3, <3>1
    <3>9. p[m][j] = IF index < j + k THEN Append(p[k][j], h[m - k][j + k])
                    ELSE Append(p[m - k][j + k], h[k][j])
      BY <1>1, <3>8 DEF k
    <3> QED BY <2>1, <3>7, <3>9
  <2> QED BY <2>2, <2>3
<1>6. odd = {}
  <2>1. odd \in SUBSET Nat
    BY <1>3
  <2> HIDE DEF odd
  <2> QED BY <1>5, <2>1, ThereIsAFirst
<1>7. n \in 1 .. N /\ i \in 0 .. N - n
  BY DEF N
<1>8. p[n][i] \in Seq(S)
  BY <1>6, <1>7
<1> QED BY <1>8 DEF p, S

\* One step up, from the half that holds the entry to the whole slice.
FromHalf(index, log, start, n, i) ==
  LET k == Split(n)
      p == AuditPaths(index, log)
      h == Subtrees(log)
  IN  /\ h[n][i] = HashNode(h[k][i], h[n - k][i + k])
      /\ Climbed(start, p[n][i]) =
           IF index < i + k THEN Climb(Climbed(start, p[k][i]), h[n - k][i + k])
           ELSE Climb(Climbed(start, p[n - k][i + k]), h[k][i])

LEMMA ClimbHalf ==
  ASSUME NEW index \in Int, NEW log, Len(log) \in Nat, NEW start,
         NEW n \in 2 .. Len(log), NEW i \in 0 .. Len(log) - n
  PROVE  FromHalf(index, log, start, n, i)
<1> DEFINE N == Len(log)
           S == Siblings(log)
           k == Split(n)
           p == AuditPaths(index, log)
           h == Subtrees(log)
<1>1. h[n][i] = HashNode(h[k][i], h[n - k][i + k])
  BY SubtreeFacts
<1>2. p[n][i] = IF index < i + k THEN Append(p[k][i], h[n - k][i + k])
                ELSE Append(p[n - k][i + k], h[k][i])
  BY PathFacts
<1>3. k \in 1 .. n - 1 /\ n - k \in 1 .. n - 1
  <2>1. n \in Nat /\ n > 1
    OBVIOUS
  <2> QED BY <2>1, SplitRange
<1>4. N \in Nat /\ n \in 2 .. N /\ i \in 0 .. N - n
  OBVIOUS
<1>5. \A m, j \in 0 .. N : h[m][j] \in S
  BY DEF Siblings
<1>6. \A m \in 1 .. N : \A j \in 0 .. N - m : p[m][j] \in Seq(S)
  BY PathTyped
<1> HIDE DEF N, S, k, p, h
<1>7. /\ k \in 1 .. N /\ n - k \in 1 .. N /\ k \in 0 .. N /\ n - k \in 0 .. N
      /\ i \in 0 .. N - k /\ i + k \in 0 .. N - (n - k) /\ i \in 0 .. N /\ i + k \in 0 .. N
  BY <1>3, <1>4
<1>8. h[k][i] \in S /\ h[n - k][i + k] \in S
  BY <1>5, <1>7
<1>9. p[k][i] \in Seq(S) /\ p[n - k][i + k] \in Seq(S)
  BY <1>6, <1>7
<1>10. Climbed(start, p[n][i]) =
         IF index < i + k THEN Climb(Climbed(start, p[k][i]), h[n - k][i + k])
         ELSE Climb(Climbed(start, p[n - k][i + k]), h[k][i])
  BY <1>2, <1>8, <1>9, ClimbedOneMore
<1> QED BY <1>1, <1>10 DEF k, p, h, FromHalf

\* A power of two is halved.
LEMMA SplitPower ==
  ASSUME NEW k \in Powers
  PROVE  Split(2 * k) = k
<1> DEFINE p == Split(2 * k)
<1>1. k \in Nat \ {0}
  BY PowerFacts
<1>2. p \in Powers /\ p < 2 * k /\ 2 * k <= 2 * p
  <2>1. 2 * k \in Nat /\ 2 * k > 1
    BY <1>1
  <2> QED BY <2>1, SplitFacts
<1> HIDE DEF p
<1>3. p \in Nat
  BY <1>2, PowerFacts
<1>4. ~(k < p)
  BY <1>1, <1>2, <1>3, PowersApart
<1> QED BY <1>1, <1>2, <1>3, <1>4 DEF p

\* Out of a slice whose length is a power of two, that does not end the tree,
\* the siblings lead to the slice's hash, and the indices to its place.
PerfectAt(index, log, k) ==
  \A i \in 0 .. Len(log) - k : \A a, b \in Nat : \A s \in 0 .. k - 1 :
    i <= index /\ index < i + k /\ a < b
      => Climbed(At(HashLeaf(log[index + 1]), k * a + (index - i), k * b + s),
                 AuditPaths(index, log)[k][i]) = At(Subtrees(log)[k][i], a, b)

LEMMA PerfectDoubles ==
  ASSUME NEW log, Len(log) \in Nat, NEW index \in 0 .. Len(log) - 1,
         NEW m \in Powers, PerfectAt(index, log, m), 2 * m <= Len(log)
  PROVE  PerfectAt(index, log, 2 * m)
<1> DEFINE N == Len(log)
           p == AuditPaths(index, log)
           h == Subtrees(log)
           leaf == HashLeaf(log[index + 1])
<1>1. m \in Powers /\ m \in Nat \ {0} /\ 2 * m \in Powers
  BY PowerFacts
<1>2. SUFFICES ASSUME NEW i \in 0 .. N - 2 * m, NEW a \in Nat, NEW b \in Nat,
                      NEW s \in 0 .. 2 * m - 1, i <= index, index < i + 2 * m, a < b
               PROVE  Climbed(At(leaf, (2 * m) * a + (index - i), (2 * m) * b + s), p[2 * m][i])
                        = At(h[2 * m][i], a, b)
  BY DEF PerfectAt
<1>3. N \in Nat /\ m <= N /\ 2 * m \in 2 .. N /\ i \in 0 .. N - m /\ i + m \in 0 .. N - m
  BY <1>1, <1>2
<1>4. Split(2 * m) = m /\ 2 * m - m = m
  BY <1>1, SplitPower
<1>5. PICK t \in {0, 1}, u \in 0 .. m - 1 : s = m * t + u
  <2>1. CASE s < m
    <3>1. s = m * 0 + s /\ s \in 0 .. m - 1
      BY <1>1, <2>1
    <3> QED BY <3>1
  <2>2. CASE ~(s < m)
    <3>1. s = m * 1 + (s - m) /\ s - m \in 0 .. m - 1
      BY <1>1, <2>2
    <3> QED BY <3>1
  <2> QED BY <2>1, <2>2
<1> DEFINE e == 2 * b + t
<1>6. (2 * m) * b + s = m * e + u
  <2>1. m * (2 * b + t) = m * (2 * b) + m * t /\ (2 * m) * b = m * (2 * b)
    BY <1>1
  <2>2. m * e \in Nat /\ (2 * m) * b \in Nat /\ m * t \in Nat
    BY <1>1
  <2> QED BY <1>5, <2>1, <2>2
<1>7. (e = 2 * b \/ e = 2 * b + 1) /\ e \in Nat /\ 2 * a \in Nat /\ 2 * a + 1 \in Nat
      /\ 2 * a < e /\ 2 * a + 1 < e
  BY <1>2
<1>8. PerfectAt(index, log, m)
  BY <1>3
<1>9. ASSUME NEW start
      PROVE  /\ h[2 * m][i] = HashNode(h[m][i], h[m][i + m])
             /\ Climbed(start, p[2 * m][i]) =
                  IF index < i + m THEN Climb(Climbed(start, p[m][i]), h[m][i + m])
                  ELSE Climb(Climbed(start, p[m][i + m]), h[m][i])
  <2> DEFINE n == 2 * m
  <2>1. FromHalf(index, log, start, n, i)
    <3>1. n \in 2 .. Len(log) /\ i \in 0 .. Len(log) - n /\ index \in Int
      BY <1>3
    <3> HIDE DEF n
    <3> QED BY <3>1, ClimbHalf
  <2>2. Split(n) = m /\ n - m = m
    BY <1>4
  <2> HIDE DEF n
  <2>3. /\ h[n][i] = HashNode(h[m][i], h[m][i + m])
        /\ Climbed(start, p[n][i]) =
             IF index < i + m THEN Climb(Climbed(start, p[m][i]), h[m][i + m])
             ELSE Climb(Climbed(start, p[m][i + m]), h[m][i])
    BY <2>1, <2>2 DEF FromHalf
  <2> QED BY <2>3 DEF n
<1>10. CASE index < i + m
  <2>1. (2 * m) * a + (index - i) = m * (2 * a) + (index - i)
    BY <1>1
  <2>2. Climbed(At(leaf, m * (2 * a) + (index - i), m * e + u), p[m][i]) = At(h[m][i], 2 * a, e)
    <3> HIDE DEF e
    <3> QED BY <1>2, <1>3, <1>5, <1>7, <1>8, <1>10 DEF PerfectAt
  <2>3. Climb(At(h[m][i], 2 * a, e), h[m][i + m]) = At(HashNode(h[m][i], h[m][i + m]), a, b)
    <3> DEFINE f == 2 * a
    <3>1. f = 2 * a /\ (e = 2 * b \/ e = 2 * b + 1) /\ a < b
      BY <1>2, <1>7
    <3> HIDE DEF e, h, f
    <3>2. Climb(At(h[m][i], f, e), h[m][i + m]) = At(HashNode(h[m][i], h[m][i + m]), a, b)
      BY <3>1, ClimbEven
    <3> QED BY <3>2 DEF f
  <2> HIDE DEF e, h, p, leaf
  <2> QED BY <1>6, <1>9, <1>10, <2>1, <2>2, <2>3
<1>11. CASE ~(index < i + m)
  <2>1. (2 * m) * a + (index - i) = m * (2 * a + 1) + (index - (i + m))
    <3>1. m * (2 * a + 1) = m * (2 * a) + m /\ (2 * m) * a = m * (2 * a) /\ m * (2 * a) \in Nat
      BY <1>1
    <3> QED BY <1>1, <3>1
  <2>2. Climbed(At(leaf, m * (2 * a + 1) + (index - (i + m)), m * e + u), p[m][i + m])
          = At(h[m][i + m], 2 * a + 1, e)
    <3>1. i + m <= index /\ index < (i + m) + m
      BY <1>1, <1>2, <1>11
    <3> HIDE DEF e
    <3> QED BY <1>3, <1>5, <1>7, <1>8, <3>1 DEF PerfectAt
  <2>3. Climb(At(h[m][i + m], 2 * a + 1, e), h[m][i]) = At(HashNode(h[m][i], h[m][i + m]), a, b)
    <3> DEFINE f == 2 * a + 1
    <3>1. f = 2 * a + 1 /\ (e = 2 * b \/ e = 2 * b + 1) /\ a < b
      BY <1>2, <1>7
    <3> HIDE DEF e, h, f
    <3>2. Climb(At(h[m][i + m], f, e), h[m][i]) = At(HashNode(h[m][i], h[m][i + m]), a, b)
      BY <3>1, ClimbOdd
    <3> QED BY <3>2 DEF f
  <2> HIDE DEF e, h, p, leaf
  <2> QED BY <1>6, <1>9, <1>11, <2>1, <2>2, <2>3
<1> QED BY <1>10, <1>11
LEMMA PerfectSlices ==
  ASSUME NEW log, Len(log) \in Nat, NEW index \in 0 .. Len(log) - 1,
         NEW k \in Powers, k <= Len(log)
  PROVE  PerfectAt(index, log, k)
<1> DEFINE N == Len(log)
           p == AuditPaths(index, log)
           h == Subtrees(log)
           leaf == HashLeaf(log[index + 1])
           S == {m \in Powers : m <= N => PerfectAt(index, log, m)}
<1>1. 1 \in S
  <2>1. ASSUME 1 <= N, NEW i \in 0 .. N - 1, NEW a \in Nat, NEW b \in Nat, NEW s \in 0 .. 1 - 1,
               i <= index, index < i + 1
        PROVE  Climbed(At(leaf, 1 * a + (index - i), 1 * b + s), p[1][i]) = At(h[1][i], a, b)
    <3>1. index = i /\ 1 * a + (index - i) = a /\ 1 * b + s = b
      BY <2>1
    <3>2. p[1][i] = <<>>
      BY <2>1, PathFacts
    <3>3. h[1][i] = leaf
      BY <2>1, <3>1, SubtreeFacts
    <3> HIDE DEF p, h, leaf
    <3> QED BY <3>1, <3>2, <3>3, ClimbedNowhere
  <2> QED BY <2>1, PowerFacts DEF PerfectAt
<1>2. \A m \in S : 2 * m \in S
  <2>1. ASSUME NEW m \in S, 2 * m <= N
        PROVE  PerfectAt(index, log, 2 * m)
    <3>1. m \in Nat /\ m <= N /\ N \in Nat
      BY <2>1, PowerFacts
    <3>2. m \in Powers /\ PerfectAt(index, log, m)
      BY <3>1
    <3> QED BY <2>1, <3>2, PerfectDoubles
  <2> QED BY <2>1, PowerFacts
<1>3. S = Powers
  <2> HIDE DEF N
  <2> QED BY <1>1, <1>2, AllPowers
<1> QED BY <1>3

\* Out of the slice that ends the tree, of any length up to a power of two, the
\* siblings lead to its hash, and both indices to the one place it has.
EdgeFrom(index, log, n, k, a, i) ==
  \E f \in Nat : \E q \in Powers :
    /\ q <= k /\ f * q = k * a
    /\ Climbed(At(HashLeaf(log[index + 1]), k * a + (index - i), k * a + (n - 1)),
               AuditPaths(index, log)[n][i]) = At(Subtrees(log)[n][i], f, f)

EdgeAt(index, log, n) ==
  \A k \in Powers : \A a \in Nat : \A i \in 0 .. Len(log) - n :
    n <= k /\ i <= index /\ index < i + n => EdgeFrom(index, log, n, k, a, i)

LEMMA EdgeOfOne ==
  ASSUME NEW log, Len(log) \in Nat, NEW index \in 0 .. Len(log) - 1
  PROVE  EdgeAt(index, log, 1)
<1> DEFINE N == Len(log)
           p == AuditPaths(index, log)
           h == Subtrees(log)
           leaf == HashLeaf(log[index + 1])
<1>1. SUFFICES ASSUME NEW k \in Powers, NEW a \in Nat, NEW i \in 0 .. N - 1,
                      1 <= k, i <= index, index < i + 1
               PROVE  EdgeFrom(index, log, 1, k, a, i)
  BY DEF EdgeAt
<1> DEFINE c == k * a
<1>2. k \in Nat /\ c \in Nat /\ N \in Nat /\ N > 0
  BY PowerFacts
<1>3. index = i /\ c + (index - i) = c /\ c + (1 - 1) = c
  BY <1>1, <1>2
<1>4. p[1][i] = <<>>
  BY <1>2, PathFacts
<1>5. h[1][i] = leaf
  BY <1>2, <1>3, SubtreeFacts
<1>6. c * 1 = k * a
  BY <1>2
<1> HIDE DEF p, h, leaf, c
<1>7. Climbed(At(leaf, c + (index - i), c + (1 - 1)), p[1][i]) = At(h[1][i], c, c)
  BY <1>3, <1>4, <1>5, ClimbedNowhere
<1> QED BY <1>1, <1>2, <1>6, <1>7, PowerFacts DEF EdgeFrom, p, h, leaf, c

\* The half of a slice that ends the tree is whole, and lies left of its end.
LEMMA EdgeOnTheLeft ==
  ASSUME NEW log, Len(log) \in Nat, NEW index \in 0 .. Len(log) - 1,
         NEW n \in 2 .. Len(log), NEW k \in Powers, NEW a \in Nat,
         NEW i \in 0 .. Len(log) - n, n <= k,
         i <= index, index < i + Split(n)
  PROVE  EdgeFrom(index, log, n, k, a, i)
<1> DEFINE N == Len(log)
           m == Split(n)
           p == AuditPaths(index, log)
           h == Subtrees(log)
           leaf == HashLeaf(log[index + 1])
<1>1. m \in Powers /\ m < n /\ n <= 2 * m /\ n \in Nat /\ k \in Nat
  <2>1. n \in Nat /\ n > 1
    OBVIOUS
  <2> QED BY <2>1, SplitFacts, PowerFacts
<1>2. m \in Nat \ {0} /\ 2 * m \in Powers
  BY <1>1, PowerFacts
<1>3. 2 * m <= k
  <2>1. m < k
    BY <1>1, <1>2
  <2> HIDE DEF m
  <2> QED BY <1>1, <2>1, PowersApart
<1>4. PICK q \in Powers : k = q * (2 * m)
  <2> HIDE DEF m
  <2> QED BY <1>2, <1>3, PowersDivide
<1> DEFINE e == q * a
           d == 2 * e
           u == n - 1 - m
<1>5. q \in Nat /\ e \in Nat /\ d \in Nat
  <2>1. q \in Nat /\ \A x, y \in Nat : x * y \in Nat
    BY PowerFacts
  <2>2. e \in Nat
    BY <2>1
  <2> HIDE DEF e
  <2> QED BY <2>1, <2>2
<1>6. k * a = m * d
  <2>1. (q * (2 * m)) * a = m * (2 * (q * a))
    BY <1>2, <1>5
  <2> QED BY <1>4, <2>1
<1>7. m * d + (n - 1) = m * (d + 1) + u
  <2> HIDE DEF d, m
  <2>1. m * (d + 1) = m * d + m /\ m * d \in Nat
    BY <1>2, <1>5
  <2> QED BY <1>1, <1>2, <2>1
<1>8. u \in 0 .. m - 1 /\ m <= N /\ i \in 0 .. N - m
  BY <1>1, <1>2
<1>9. FromHalf(index, log, At(leaf, m * d + (index - i), m * (d + 1) + u), n, i)
  <2>1. index \in Int
    OBVIOUS
  <2> HIDE DEF leaf, d, u, m
  <2> QED BY <2>1, ClimbHalf
<1>10. PerfectAt(index, log, m)
  BY <1>1, <1>8, PerfectSlices
<1> HIDE DEF m, p, h, leaf, d, u, N
<1>11. Climbed(At(leaf, m * d + (index - i), m * (d + 1) + u), p[m][i]) = At(h[m][i], d, d + 1)
  <2>1. d + 1 \in Nat /\ d < d + 1 /\ i <= index /\ index < i + m
    BY <1>5 DEF m
  <2> QED BY <1>5, <1>8, <1>10, <2>1 DEF PerfectAt, p, h, leaf, N
<1>12. /\ h[n][i] = HashNode(h[m][i], h[n - m][i + m])
       /\ Climbed(At(leaf, m * d + (index - i), m * (d + 1) + u), p[n][i])
            = Climb(At(h[m][i], d, d + 1), h[n - m][i + m])
  <2>1. index < i + m
    BY DEF m
  <2> QED BY <1>9, <1>11, <2>1 DEF FromHalf, m, p, h
<1>13. Climb(At(h[m][i], d, d + 1), h[n - m][i + m]) = At(h[n][i], e, e)
  <2>1. d = 2 * e /\ (d + 1 = 2 * e \/ d + 1 = 2 * e + 1) /\ d + 1 = 2 * e + 1
    BY <1>5 DEF d
  <2>2. Climb(At(h[m][i], d, d + 1), h[n - m][i + m]) = At(HashNode(h[m][i], h[n - m][i + m]), e, e)
    BY <1>5, <2>1, ClimbEven
  <2> QED BY <1>12, <2>2
<1>14. e * (2 * m) = k * a
  BY <1>2, <1>4, <1>5
<1>15. Climbed(At(leaf, k * a + (index - i), k * a + (n - 1)), p[n][i]) = At(h[n][i], e, e)
  BY <1>6, <1>7, <1>12, <1>13
<1> QED BY <1>2, <1>3, <1>5, <1>14, <1>15 DEF EdgeFrom, p, h, leaf

\* The other half ends the tree as the slice does. Its place there is an odd number times
\* a power of two: from the right, all those low bits go at once.
LEMMA EdgeOnTheRight ==
  ASSUME NEW log, Len(log) \in Nat, NEW index \in 0 .. Len(log) - 1,
         NEW n \in 2 .. Len(log), NEW k \in Powers, NEW a \in Nat,
         NEW i \in 0 .. Len(log) - n, n <= k,
         ~(index < i + Split(n)), index < i + n,
         EdgeAt(index, log, n - Split(n))
  PROVE  EdgeFrom(index, log, n, k, a, i)
<1> DEFINE N == Len(log)
           m == Split(n)
           p == AuditPaths(index, log)
           h == Subtrees(log)
           leaf == HashLeaf(log[index + 1])
<1>1. m \in Powers /\ m < n /\ n <= 2 * m /\ n \in Nat /\ k \in Nat
  <2>1. n \in Nat /\ n > 1
    OBVIOUS
  <2> QED BY <2>1, SplitFacts, PowerFacts
<1>2. m \in Nat \ {0} /\ 2 * m \in Powers
  BY <1>1, PowerFacts
<1>3. 2 * m <= k
  <2>1. m < k
    BY <1>1, <1>2
  <2> HIDE DEF m
  <2> QED BY <1>1, <2>1, PowersApart
<1>4. PICK q \in Powers : k = q * (2 * m)
  <2> HIDE DEF m
  <2> QED BY <1>2, <1>3, PowersDivide
<1> DEFINE e == q * a
           d == 2 * e + 1
<1>5. q \in Nat /\ e \in Nat /\ d \in Nat
  <2>1. q \in Nat /\ \A x, y \in Nat : x * y \in Nat
    BY PowerFacts
  <2>2. e \in Nat
    BY <2>1
  <2> HIDE DEF e
  <2> QED BY <2>1, <2>2
<1>6. k * a + m = m * d
  <2>1. (q * (2 * m)) * a + m = m * (2 * (q * a) + 1)
    BY <1>2, <1>5
  <2> QED BY <1>4, <2>1
<1>7. k * a \in Nat
  BY <1>1
<1> HIDE DEF m, d
<1>8. /\ k * a + (index - i) = m * d + (index - (i + m))
      /\ k * a + (n - 1) = m * d + ((n - m) - 1)
  BY <1>1, <1>2, <1>6, <1>7
<1>9. i + m \in 0 .. N - (n - m) /\ n - m <= m /\ i + m <= index /\ index < (i + m) + (n - m)
  BY <1>1, <1>2 DEF m
<1>10. EdgeFrom(index, log, n - m, m, d, i + m)
  <2>1. EdgeAt(index, log, n - m)
    BY DEF m
  <2> QED BY <1>1, <1>5, <1>9, <2>1 DEF EdgeAt
<1> HIDE DEF leaf
<1>11. PICK f \in Nat, r \in Powers :
         /\ r <= m /\ f * r = m * d
         /\ Climbed(At(leaf, m * d + (index - (i + m)), m * d + ((n - m) - 1)), p[n - m][i + m])
              = At(h[n - m][i + m], f, f)
  BY <1>10 DEF EdgeFrom, leaf
<1>12. FromHalf(index, log, At(leaf, m * d + (index - (i + m)), m * d + ((n - m) - 1)), n, i)
  <2>1. index \in Int
    OBVIOUS
  <2> QED BY <2>1, ClimbHalf
<1> HIDE DEF p, h, N
<1>13. /\ h[n][i] = HashNode(h[m][i], h[n - m][i + m])
       /\ Climbed(At(leaf, m * d + (index - (i + m)), m * d + ((n - m) - 1)), p[n][i])
            = Climb(At(h[n - m][i + m], f, f), h[m][i])
  <2>1. ~(index < i + m)
    BY DEF m
  <2> QED BY <1>11, <1>12, <2>1 DEF FromHalf, m, p, h
<1>14. PICK s \in Powers : m = s * r
  BY <1>1, <1>11, PowersDivide
<1>15. f = s * d
  <2>1. r \in Nat \ {0} /\ s \in Nat
    BY PowerFacts
  <2>2. f * r = (s * r) * d
    BY <1>11, <1>14
  <2>3. (s * r) * d = (s * d) * r
    BY <1>5, <2>1
  <2>4. s * d \in Nat
    BY <1>5, <2>1
  <2>5. \A x, y \in Nat : \A z \in Nat \ {0} : x * z = y * z => x = y
    OBVIOUS
  <2> QED BY <2>1, <2>2, <2>3, <2>4, <2>5
<1>16. Climb(At(h[n - m][i + m], f, f), h[m][i]) = At(h[n][i], e, e)
  <2>1. d = 2 * e + 1
    BY DEF d
  <2> HIDE DEF e
  <2>2. Climb(At(h[n - m][i + m], f, f), h[m][i]) = At(HashNode(h[m][i], h[n - m][i + m]), e, e)
    BY <1>5, <1>15, <2>1, ClimbEdge
  <2> QED BY <1>13, <2>2
<1>17. e * (2 * m) = k * a
  BY <1>2, <1>4, <1>5
<1>18. Climbed(At(leaf, k * a + (index - i), k * a + (n - 1)), p[n][i]) = At(h[n][i], e, e)
  BY <1>8, <1>13, <1>16
<1> QED BY <1>2, <1>3, <1>5, <1>17, <1>18 DEF EdgeFrom, p, h, leaf

LEMMA EdgeSlices ==
  ASSUME NEW log, Len(log) \in Nat, NEW index \in 0 .. Len(log) - 1, NEW n \in 1 .. Len(log)
  PROVE  EdgeAt(index, log, n)
<1> DEFINE N == Len(log)
           odd == {m \in 1 .. N : ~EdgeAt(index, log, m)}
<1>1. ASSUME NEW m \in odd, \A j \in odd : m <= j
      PROVE  FALSE
  <2>1. m # 1
    BY EdgeOfOne
  <2>2. m \in 2 .. N /\ m \in Nat /\ m > 1
    BY <2>1
  <2>3. m - Split(m) \in 1 .. m - 1
    BY <2>2, SplitRange
  <2>4. m - Split(m) \notin odd
    BY <1>1, <2>2, <2>3
  <2>5. EdgeAt(index, log, m - Split(m))
    BY <2>2, <2>3, <2>4
  <2>6. ASSUME NEW k \in Powers, NEW a \in Nat, NEW i \in 0 .. N - m,
               m <= k, i <= index, index < i + m
        PROVE  EdgeFrom(index, log, m, k, a, i)
    BY <2>2, <2>5, <2>6, EdgeOnTheLeft, EdgeOnTheRight
  <2>7. EdgeAt(index, log, m)
    BY <2>6 DEF EdgeAt
  <2> QED BY <2>7
<1>2. odd = {}
  <2>1. odd \in SUBSET Nat
    OBVIOUS
  <2> HIDE DEF odd
  <2> QED BY <1>1, <2>1, ThereIsAFirst
<1> QED BY <1>2

\* The siblings of an entry lead from it to the root, and both indices to 0.
LEMMA LeadsToRoot ==
  ASSUME NEW log, Len(log) \in Nat, NEW index \in 0 .. Len(log) - 1
  PROVE  /\ Climbed(At(HashLeaf(log[index + 1]), index, Len(log) - 1), AuditPath(index, log))
              = At(TreeHash(log), 0, 0)
         /\ Len(AuditPath(index, log)) \in Nat
<1> DEFINE N == Len(log)
           leaf == HashLeaf(log[index + 1])
<1>1. N \in 1 .. N /\ N \in Nat \ {0} /\ 0 \in 0 .. N - N
  OBVIOUS
<1>2. PICK k \in Powers : N <= k
  <2>1. CASE N = 1
    BY <2>1, PowerFacts
  <2>2. CASE N # 1
    <3>1. N \in Nat /\ N > 1
      BY <1>1, <2>2
    <3>2. Split(N) \in Powers /\ N <= 2 * Split(N)
      BY <3>1, SplitFacts
    <3> QED BY <3>2, PowerFacts
  <2> QED BY <2>1, <2>2
<1>3. EdgeFrom(index, log, N, k, 0, 0)
  <2>1. EdgeAt(index, log, N)
    BY <1>1, EdgeSlices
  <2>2. 0 <= index /\ index < 0 + N /\ 0 \in Nat
    OBVIOUS
  <2> HIDE DEF N
  <2> QED BY <1>1, <1>2, <2>1, <2>2 DEF EdgeAt, N
<1>4. k \in Nat /\ k * 0 + (index - 0) = index /\ k * 0 + (N - 1) = N - 1 /\ k * 0 = 0
  <2>1. k \in Nat
    BY PowerFacts
  <2> QED BY <2>1
<1>5. PICK f \in Nat, q \in Powers :
        /\ f * q = 0
        /\ Climbed(At(leaf, index, N - 1), AuditPaths(index, log)[N][0])
             = At(Subtrees(log)[N][0], f, f)
  <2> HIDE DEF leaf
  <2> QED BY <1>3, <1>4 DEF EdgeFrom, leaf
<1>6. f = 0
  <2>1. q \in Nat \ {0} /\ \A x, y \in Nat \ {0} : x * y # 0
    BY PowerFacts
  <2> QED BY <1>5, <2>1
<1>7. Len(AuditPath(index, log)) \in Nat
  <2>1. index \in Int
    OBVIOUS
  <2>2. AuditPaths(index, log)[N][0] \in Seq(Siblings(log))
    BY <1>1, <2>1, PathTyped
  <2> QED BY <2>2, LenProperties DEF AuditPath
<1> QED BY <1>5, <1>6, <1>7 DEF AuditPath, TreeHash

\* An entry's proof verifies, and verifies no entry of another id.
LEMMA InclusionIsSound ==
  ASSUME NEW log, Len(log) \in Nat, DOMAIN log = 1 .. Len(log),
         \A i, j \in 1 .. Len(log) : log[i].id = log[j].id => i = j
  PROVE  ProofsVerify(log)
<1> DEFINE N == Len(log)
<1>1. SUFFICES ASSUME NEW i \in 1 .. N, NEW j \in 1 .. N
               PROVE  VerifyInclusion(log[j], InclusionProof(log, i - 1), MerkleRoot(log)) <=> i = j
  BY DEF ProofsVerify
<1> DEFINE path == AuditPath(i - 1, log)
           top(k) == Climbed(At(HashLeaf(log[k]), i - 1, N - 1), path)
<1>2. i - 1 \in 0 .. N - 1 /\ (i - 1) + 1 = i /\ N - 1 \in Nat /\ i - 1 \in Nat
  OBVIOUS
<1>3. top(i) = At(TreeHash(log), 0, 0) /\ Len(path) \in Nat
  BY <1>2, LeadsToRoot
<1>4. VerifyInclusion(log[j], InclusionProof(log, i - 1), MerkleRoot(log))
        <=> top(j).ok /\ top(j).sn = 0 /\ top(j).r = TreeHash(log)
  BY <1>2 DEF VerifyInclusion, InclusionProof, MerkleRoot, At
<1>5. i # j => top(j).r # top(i).r
  <2>1. i # j => HashLeaf(log[j]) # HashLeaf(log[i])
    BY DEF HashLeaf
  <2> HIDE DEF path
  <2> QED BY <1>2, <1>3, <2>1, ClimbedApart DEF At
<1>6. top(i).r = TreeHash(log) /\ top(i).sn = 0 /\ top(i).ok
  BY <1>3 DEF At
<1> HIDE DEF top
<1> QED BY <1>4, <1>5, <1>6

\* So do those of the trees of every size, whatever the log.
LEMMA LeavesAreSound == LeavesVerify
<1> SUFFICES ASSUME NEW n \in 0 .. MaxLeaves
             PROVE  ProofsVerify([i \in 1 .. n |-> Entry(i, i - 1, 0)])
  BY DEF LeavesVerify
<1> DEFINE log == [i \in 1 .. n |-> Entry(i, i - 1, 0)]
<1>1. n \in Nat
  BY ReviewAssumption
<1>2. DOMAIN log = 1 .. n /\ Len(log) = n
  BY <1>1
<1>3. \A i \in 1 .. n : log[i].id = i
  BY DEF Entry
<1> HIDE DEF log
<1>4. ProofsVerify(log)
  BY <1>1, <1>2, <1>3, InclusionIsSound
<1> QED BY <1>4 DEF log

-----------------------------------------------------------------------------
(* No two entries a process holds have one id.                             *)

\* Ids grow along a log, up to n.
Rising(log, n) ==
    /\ \A i, j \in DOMAIN log : i < j /\ log[i] # Torn /\ log[j] # Torn => log[i].id < log[j].id
    /\ \A i \in DOMAIN log : log[i].id <= n

IdsRise == Rising(lines, used) /\ Rising(mem, used)

\* An append of the next id, a line torn, a reading and a rotation leave them rising.
LEMMA RisingAppended ==
  ASSUME NEW log \in Seq(Lines), NEW n \in Nat, Rising(log, n),
         NEW line \in Lines, line = Torn \/ line.id = n + 1
  PROVE  Rising(Append(log, line), n + 1)
<1> DEFINE more == Append(log, line)
           N == Len(log)
<1>1. /\ N \in Nat /\ DOMAIN log = 1 .. N /\ DOMAIN more = 1 .. N + 1 /\ more[N + 1] = line
      /\ \A i \in 1 .. N : more[i] = log[i]
  BY AppendProperties, LenProperties
<1>2. \A i \in 1 .. N : log[i].id \in Int /\ log[i].id <= n
  BY <1>1, ElementOfSeq DEF Rising, Lines, Whole, Torn, Entry
<1>3. line.id \in Int /\ line.id <= n + 1
  BY DEF Lines, Whole, Torn, Entry
<1> HIDE DEF more, N
<1>4. ASSUME NEW i \in DOMAIN more, NEW j \in DOMAIN more, i < j, more[i] # Torn, more[j] # Torn
      PROVE  more[i].id < more[j].id
  <2>1. i \in 1 .. N
    BY <1>1, <1>4
  <2>2. CASE j \in 1 .. N
    BY <1>1, <1>4, <2>1, <2>2 DEF Rising
  <2>3. CASE j = N + 1
    <3>1. more[j].id = n + 1
      BY <1>1, <1>4, <2>3
    <3>2. more[i].id \in Int /\ more[i].id <= n
      BY <1>1, <1>2, <2>1
    <3> QED BY <3>1, <3>2
  <2> QED BY <1>1, <2>2, <2>3
<1>5. ASSUME NEW i \in DOMAIN more
      PROVE  more[i].id <= n + 1
  <2>1. CASE i \in 1 .. N
    <3>1. more[i].id \in Int /\ more[i].id <= n
      BY <1>1, <1>2, <2>1
    <3> QED BY <3>1
  <2>2. CASE i = N + 1
    BY <1>1, <1>3, <2>2
  <2> QED BY <1>1, <2>1, <2>2
<1> QED BY <1>4, <1>5 DEF Rising, more

LEMMA RisingOver ==
  ASSUME NEW log \in Seq(Lines), NEW n \in Nat, Rising(log, n), NEW k
  PROVE  Rising([log EXCEPT ![k] = Torn], n + 1)
<1> DEFINE over == [log EXCEPT ![k] = Torn]
<1>1. DOMAIN over = DOMAIN log /\ \A i \in DOMAIN log : over[i] = Torn \/ over[i] = log[i]
  OBVIOUS
<1>2. \A i \in DOMAIN log : log[i].id \in Int /\ log[i].id <= n
  BY LenProperties, ElementOfSeq DEF Rising, Lines, Whole, Torn, Entry
<1>3. Torn.id = -1
  BY DEF Torn, Entry
<1> HIDE DEF over
<1>4. \A i, j \in DOMAIN over : i < j /\ over[i] # Torn /\ over[j] # Torn => over[i].id < over[j].id
  BY <1>1 DEF Rising
<1>5. ASSUME NEW i \in DOMAIN over
      PROVE  over[i].id <= n + 1
  <2>1. CASE over[i] = Torn
    BY <1>3, <2>1
  <2>2. CASE over[i] = log[i]
    <3>1. log[i].id \in Int /\ log[i].id <= n
      BY <1>1, <1>2
    <3> QED BY <2>2, <3>1
  <2> QED BY <1>1, <2>1, <2>2
<1> QED BY <1>4, <1>5 DEF Rising, over

LEMMA RisingRead ==
  ASSUME NEW file \in Seq(Lines), NEW n \in Nat, Rising(file, n), NEW log, IsRead(file, log)
  PROVE  Rising(log, n)
<1>1. /\ Len(log) \in Nat /\ Len(file) \in Nat /\ Len(log) <= Len(file)
      /\ DOMAIN log = 1 .. Len(log) /\ DOMAIN file = 1 .. Len(file)
      /\ \A i \in 1 .. Len(log) : log[i] = file[i]
  BY LenProperties DEF IsRead
<1>2. \A i \in DOMAIN log : i \in DOMAIN file /\ log[i] = file[i]
  BY <1>1
<1> QED BY <1>2 DEF Rising

LEMMA RisingKept ==
  ASSUME NEW log \in Seq(Whole), NEW n \in Nat, Rising(log, n), NEW k \in 1 .. Len(log)
  PROVE  Rising(SubSeq(log, k, Len(log)), n)
<1> DEFINE back == SubSeq(log, k, Len(log))
           N == Len(log)
<1>1. N \in Nat /\ DOMAIN log = 1 .. N /\ \A i \in 1 .. N : log[i] \in Whole
  BY LenProperties, ElementOfSeq
<1>2. /\ Len(back) = N - k + 1 /\ DOMAIN back = 1 .. Len(back)
      /\ \A i \in 1 .. N - k + 1 : back[i] = log[k + i - 1]
  <2>1. back \in Seq(Whole) /\ Len(back) = N - k + 1 /\ \A i \in 1 .. N - k + 1 : back[i] = log[k + i - 1]
    BY <1>1, SubSeqProperties
  <2> QED BY <2>1, LenProperties
<1> HIDE DEF back, N
<1>3. k \in 1 .. N
  BY DEF N
<1>4. \A i \in DOMAIN back : k + i - 1 \in DOMAIN log /\ back[i] = log[k + i - 1]
  BY <1>1, <1>2, <1>3
<1>5. \A i, j \in DOMAIN back : i < j => k + i - 1 < k + j - 1
  BY <1>1, <1>2, <1>3
<1> QED BY <1>4, <1>5 DEF Rising, back, N

LEMMA RisingMore ==
  ASSUME NEW log \in Seq(Lines), NEW n \in Nat, Rising(log, n)
  PROVE  Rising(log, n + 1)
<1>1. \A i \in DOMAIN log : log[i].id \in Int /\ log[i].id <= n
  BY LenProperties, ElementOfSeq DEF Rising, Lines, Whole, Torn, Entry
<1>2. \A i \in DOMAIN log : log[i].id <= n + 1
  BY <1>1
<1> QED BY <1>2 DEF Rising

\* Whatever a write does, the ids of the file rise, and so do those in memory.
LEMMA WritesRise == ASSUME IInv, IdsRise, Writes PROVE IdsRise'
<1>1. /\ lines \in Seq(Lines) /\ mem \in Seq(Whole) /\ mem \in Seq(Lines) /\ used \in Nat
  BY SeqMonotonic DEF IInv, Types, Lines
<1>2. /\ Line \in Lines /\ Line \in Whole /\ Line.id = used + 1 /\ Next1 = Append(mem, Line) /\ Torn \in Lines
  BY EntryFacts DEF IInv, Entry, Lines
<1>3. used' = used + 1
  BY WritesLine DEF MayRecord
<1>4. PICK line \in {Torn, Line} : lines' = Written(line)
  BY WritesLine
<1>5. Rising(lines', used + 1)
  <2>1. CASE tail
    BY <1>1, <1>4, <2>1, RisingOver DEF Written, IdsRise
  <2>2. CASE ~tail
    <3>1. lines' = Append(lines, line)
      BY <1>4, <2>2 DEF Written
    <3> QED BY <1>1, <1>2, <1>4, <3>1, RisingAppended DEF IdsRise
  <2> QED BY <2>1, <2>2
<1>6. mem' = Next1 \/ mem' = mem \/ mem' = <<>>
  BY WritesLine DEF Stopped, process
<1>7. Rising(mem', used + 1)
  <2>1. CASE mem' = Next1
    BY <1>1, <1>2, <2>1, RisingAppended DEF IdsRise
  <2>2. CASE mem' = mem
    BY <1>1, <2>2, RisingMore DEF IdsRise
  <2>3. CASE mem' = <<>>
    BY <2>3 DEF Rising
  <2> QED BY <1>6, <2>1, <2>2, <2>3
<1> QED BY <1>3, <1>5, <1>7 DEF IdsRise

\* In every step: a start reads a front of the file, a rotation keeps a back of it.
LEMMA NextRises == ASSUME IInv, IdsRise, [Next]_vars PROVE IdsRise'
<1>1. lines \in Seq(Lines) /\ mem \in Seq(Whole) /\ used \in Nat
  BY DEF IInv, Types
<1>2. CASE Writes
  BY <1>2, WritesRise
<1>3. CASE Open
  <2>1. UNCHANGED <<lines, used>> /\ mem' = Readable
    BY <1>3 DEF Open, ghosts
  <2>2. IsRead(lines, Readable)
    BY <1>1, ReadOfReads, ReadOfIs
  <2> QED BY <1>1, <2>1, <2>2, RisingRead DEF IdsRise
<1>4. CASE RotateRename
  <2>1. UNCHANGED used /\ mem' = Kept /\ lines' = Kept /\ Rotates
    BY <1>4 DEF RotateRename
  <2>2. FirstKept \in 1 .. Len(mem) /\ Kept = SubSeq(mem, FirstKept, Len(mem))
    BY <2>1, KeptFacts DEF IInv
  <2>3. Rising(Kept, used)
    BY <1>1, <2>2, RisingKept DEF IdsRise
  <2> QED BY <2>1, <2>3 DEF IdsRise
<1>5. CASE \/ OpenThrows \/ CrashInMeta \/ NothingToRotate \/ RotateMeta \/ RotateFails
           \/ Crash \/ Tick \/ UNCHANGED vars
  <2>1. UNCHANGED <<lines, used>> /\ (mem' = mem \/ mem' = <<>>)
    BY <1>5 DEF OpenThrows, CrashInMeta, NothingToRotate, RotateMeta, RotateFails, Crash, Tick, Stopped,
                vars, disk, process, ghosts
  <2>2. Rising(<<>>, used)
    BY DEF Rising
  <2> QED BY <2>1, <2>2 DEF IdsRise
<1> QED BY <1>2, <1>3, <1>4, <1>5 DEF Next, Writes

\* An operator handed an entry and its proof finds it in the tree the watch committed to,
\* and nobody else's entry there: for a log of any length, and of what a process holds
\* whatever was recorded, rotated, cut short, left unsynced or crashed before.
THEOREM ProofsAlwaysVerify == ReviewSpec => []ReviewVerifies
<1>1. Init => IdsRise
  BY DEF Init, IdsRise, Rising
<1>2. IInv /\ IdsRise => ReviewVerifies
  <2> SUFFICES ASSUME IInv, IdsRise PROVE ProofsVerify(mem)
    BY LeavesAreSound DEF ReviewVerifies
  <2>1. Len(mem) \in Nat /\ DOMAIN mem = 1 .. Len(mem) /\ \A i \in 1 .. Len(mem) : mem[i] \in Whole
    BY LenProperties, ElementOfSeq DEF IInv, Types
  <2>2. \A i, j \in 1 .. Len(mem) : i < j => mem[i].id < mem[j].id
    BY <2>1, WholeIsNotTorn DEF IdsRise, Rising
  <2>3. \A i, j \in 1 .. Len(mem) : mem[i].id = mem[j].id => i = j
    <3>1. \A i \in 1 .. Len(mem) : mem[i].id \in Nat
      BY <2>1 DEF Whole
    <3> QED BY <2>1, <2>2, <3>1
  <2> QED BY <2>1, <2>3, InclusionIsSound
<1>3. IInv /\ IdsRise /\ [Next]_vars => IdsRise'
  BY NextRises
<1>4. Spec => []IdsRise
  BY <1>1, <1>3, Invariance, PTL DEF Spec
<1> QED BY <1>2, <1>4, Invariance, ReadersOnlyRead, PTL
=============================================================================
