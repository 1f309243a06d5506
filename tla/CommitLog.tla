------------------------------- MODULE CommitLog -------------------------------
(***************************************************************************)
(* What one epoch of a track promises: an append-only log of group rows.   *)
(* A row is committed at the first free position, and its commit may be    *)
(* confirmed then, later, or never; nothing else ever happens to the log.  *)
(***************************************************************************)
EXTENDS Integers

CONSTANTS MaxDelta, Row, None

VARIABLES
    log,        \* log[n]: the row at position n, None when the position is free
    confirmed   \* the rows whose appender was told they are committed

Positions == 0 .. MaxDelta

Init ==
    /\ log = [n \in Positions |-> None]
    /\ confirmed = {}

(* The first free position, a sequence not used before, a start that does  *)
(* not precede the end of the row before it.                               *)
Fits(n, row) ==
    /\ \A m \in Positions : log[m] # None <=> m < n
    /\ \A m \in Positions : m < n => log[m].seq # row.seq
    /\ n > 0 => log[n - 1].end <= row.start

Commit(n) ==
    LET row == log'[n]
    IN  /\ row \in Row
        /\ Fits(n, row)
        /\ log' = [log EXCEPT ![n] = row]
        /\ confirmed' \in {confirmed, confirmed \cup {row}}

Confirm(n) ==
    /\ log[n] # None
    /\ confirmed' = confirmed \cup {log[n]}
    /\ UNCHANGED log

Next == \E n \in Positions : Commit(n) \/ Confirm(n)

Spec == Init /\ [][Next]_<<log, confirmed>>

================================================================================
