---------------------------- MODULE ObservedStore ----------------------------
(***************************************************************************)
(* The Controller's observed state of one Host                             *)
(* (src/internal/controllerstate/observed.go).  Every method of the store  *)
(* holds Store.mu throughout, so each is a pure operator from the Host's   *)
(* entry to its next entry; a refused call returns the entry unchanged.    *)
(*                                                                         *)
(* fresh holds the names of the observations whose freshness flag is set,  *)
(* current the ones received since the session began (or since the last    *)
(* RequireFreshBootstrap).  An Inventory has no content of its own: with   *)
(* CPU claims nothing in the planner reads it.                             *)
(***************************************************************************)
EXTENDS Naturals

CONSTANTS
    Id,        \* ExecutionIDs, as <<workload, DesiredGeneration>>
    Resource   \* what an execution or an unmanaged process may occupy

Statuses == {"NONE", "RUNNING", "STOPPED", "FAILED"}

\* The observations besides the execution list that a READY session needs.
Facts == {"inventory", "processes", "status"}

Entry == [epoch : Nat, connected : BOOLEAN, ready : BOOLEAN,
          fresh : SUBSET {"executions", "inventory", "processes"},
          current : SUBSET Facts, seq : Nat,
          execs : [Id -> Statuses], busy : SUBSET Resource]

\* The entry Connect makes: nothing of the previous epoch is kept.
NewEntry(e) ==
    [epoch |-> e, connected |-> TRUE, ready |-> FALSE, fresh |-> {}, current |-> {},
     seq |-> 0, execs |-> [i \in Id |-> "NONE"], busy |-> {}]

\* A Host that has not connected during this Controller's lifetime.
NoEntry == [NewEntry(0) EXCEPT !.connected = FALSE]

Connect(o, e) == IF o.epoch >= e THEN o ELSE NewEntry(e)

IsCurrent(o, e) == o.epoch = e /\ o.connected

\* The watermark: an older view of the executions never replaces a newer one.
Accepts(o, e, seq) == IsCurrent(o, e) /\ seq >= o.seq

SetExecutions(o, e, x, seq) ==
    IF Accepts(o, e, seq)
    THEN [o EXCEPT !.execs = x, !.fresh = @ \cup {"executions"}, !.seq = seq]
    ELSE o

CanUpsert(o, e, seq) == Accepts(o, e, seq) /\ "executions" \in o.fresh

UpsertExecution(o, e, i, status, seq) ==
    IF CanUpsert(o, e, seq)
    THEN [o EXCEPT !.execs[i] = status, !.seq = seq]
    ELSE o

SetInventory(o, e) ==
    IF IsCurrent(o, e)
    THEN [o EXCEPT !.fresh = @ \cup {"inventory"}, !.current = @ \cup {"inventory"}]
    ELSE o

SetUnmanagedProcesses(o, e, b) ==
    IF IsCurrent(o, e)
    THEN [o EXCEPT !.fresh = @ \cup {"processes"}, !.current = @ \cup {"processes"},
                   !.busy = b]
    ELSE o

SetAgentState(o, e) ==
    IF IsCurrent(o, e) THEN [o EXCEPT !.current = @ \cup {"status"}] ELSE o

MarkReady(o, e) ==
    IF IsCurrent(o, e) /\ "executions" \in o.fresh /\ o.current = Facts
    THEN [o EXCEPT !.ready = TRUE]
    ELSE o

RequireFreshBootstrap(o, e) ==
    IF IsCurrent(o, e)
    THEN [o EXCEPT !.ready = FALSE, !.fresh = {}, !.current = {}]
    ELSE o

Disconnect(o, e) ==
    IF IsCurrent(o, e)
    THEN [o EXCEPT !.connected = FALSE, !.ready = FALSE, !.fresh = {}, !.current = {}]
    ELSE o

\* refreshFreshness: an observation older than the freshness timeout.
Expire(o, kind) == [o EXCEPT !.fresh = @ \ {kind}]

\* The condition under which the coordinator plans from an entry at all.
Usable(o) == o.connected /\ o.ready /\ "executions" \in o.fresh
=============================================================================
