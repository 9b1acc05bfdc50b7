--------------------------- MODULE AtomicRestore ---------------------------
(***************************************************************************)
(* What a restore of the Controller database promises: the database is     *)
(* replaced by a later one at one instant.  Between that instant and the   *)
(* moment it is durable a crash may bring back the previous one, and       *)
(* nothing else; what was acknowledged, by starting on it or by reporting  *)
(* the restore done, stays until the next restore.                         *)
(*                                                                         *)
(* Databases are numbered in the order they were prepared; 0 is none.      *)
(***************************************************************************)
EXTENDS Naturals

CONSTANT Last

VARIABLES
    db,    \* the database a start finds now
    may,   \* the databases a start may find after a power loss
    ack    \* the database last acknowledged

vars == <<db, may, ack>>

Init == db \in 0..1 /\ may = {db} /\ ack = db

\* A directory without a database gets its first one when something serves it.
Create == db = 0 /\ may = {0} /\ db' = 1 /\ may' = {1} /\ ack' = 1

Replace ==
    /\ may = {db}
    /\ db' \in (db + 1)..Last
    /\ may' = {db, db'}
    /\ UNCHANGED ack

Settle == may' = {db} /\ UNCHANGED <<db, ack>>

Crash == db' \in may /\ may' = {db'} /\ UNCHANGED ack

Acknowledge == may = {db} /\ ack' = db /\ UNCHANGED <<db, may>>

Next == Create \/ Replace \/ Settle \/ Crash \/ Acknowledge

Spec == Init /\ [][Next]_vars
=============================================================================
