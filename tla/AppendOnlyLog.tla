--------------------------- MODULE AppendOnlyLog ---------------------------
(***************************************************************************)
(* What an accountability log promises about what can be read back from    *)
(* it: entries are added at the end and expire from the front, and a crash *)
(* or a failing disk that damages it may cost its tail or leave an entry   *)
(* there nobody was told was recorded, never touch its middle or its order.*)
(***************************************************************************)
EXTENDS Integers, Sequences

VARIABLES log,      \* the entries a reader of the disk gets
          damaged   \* a write or its sync failed, or a rotation was interrupted

Init == log = <<>> /\ damaged = FALSE

Prefixes(s) == {SubSeq(s, 1, n) : n \in 0 .. Len(s)}

Added == Len(log') = Len(log) + 1 /\ SubSeq(log', 1, Len(log)) = log

Expired == \E n \in 1 .. Len(log) : log' = SubSeq(log, n, Len(log))

Append1 == Added /\ UNCHANGED damaged

Expire == Expired /\ UNCHANGED damaged

Damage == damaged' = TRUE /\ (Added \/ log' \in Prefixes(log))

Next == Append1 \/ Expire \/ Damage

Spec == Init /\ [][Next]_<<log, damaged>>
=============================================================================
