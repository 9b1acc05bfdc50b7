------------------------------- MODULE Planner -------------------------------
(***************************************************************************)
(* The pure reconcile planner (src/internal/reconcile/planner.go): at most *)
(* one action for one workload, from its Desired record d, the resolved    *)
(* snapshots, the Maintenance Hold, the observed entry o and the in-flight *)
(* keys.                                                                   *)
(*                                                                         *)
(* A workload's generation and its run state determine its snapshot, whose *)
(* ExecutionID is <<workload, generation>>.  Generation 0 stands for an    *)
(* execution that no snapshot of this database describes (it was started   *)
(* from a history that a restore discarded).  An action that stops old     *)
(* executions names all of them: the code takes the least UUID, any one.   *)
(***************************************************************************)
EXTENDS ObservedStore

CONSTANTS
    Workload,   \* WorkloadIDs, naturals: the coordinator visits them in order
    Claim       \* the resources each workload claims

\* What the coordinator's key of an action identifies within one Host.
Key(act, i, e) == [act |-> act, id |-> i, epoch |-> e]

NoAction == [act |-> "NONE", ids |-> {}]

Overlap(v, w) == Claim[v] \cap Claim[w] # {}

HoldsResources(status) == status \notin {"NONE", "STOPPED"}

BlocksStartResources(status) == status \notin {"NONE", "STOPPED", "FAILED"}

\* Mutant of StartConflict: executions of other workloads are not looked at.
StartConflictSameWorkload(w, i, snaps, o) ==
    \/ o.busy \cap Claim[w] # {}
    \/ \E j \in snaps \ {i} : BlocksStartResources(o.execs[j]) /\ j[1] = w

\* startConflict: unmanaged processes, then every other listed execution.
StartConflict(w, i, snaps, o) ==
    \/ o.busy \cap Claim[w] # {}
    \/ \E j \in Id \ {i} :
          /\ BlocksStartResources(o.execs[j])
          /\ Overlap(w, j[1]) \/ (j \in snaps /\ j[1] = w)

Plan(w, d, snaps, holdActive, o, keys) ==
    LET hasSnapshot == d.run /\ <<w, d.gen>> \in snaps
        cur == <<w, d.gen>>
        activeOwned == {i \in snaps : i[1] = w /\ HoldsResources(o.execs[i])}
        running == hasSnapshot /\ cur \in activeOwned
        old == IF running THEN activeOwned \ {cur} ELSE activeOwned
        emit(act, ids) ==
            IF \E i \in ids : Key(act, i, o.epoch) \in keys
            THEN NoAction ELSE [act |-> act, ids |-> ids]
        stops == IF old = {} /\ d.run /\ holdActive /\ running THEN {cur} ELSE old
        mayStart == d.run /\ ~holdActive /\ d.blocked # d.gen
    IN  IF ~Usable(o) THEN NoAction
        ELSE IF stops # {} THEN emit("STOP", stops)
        ELSE IF mayStart /\ running /\ o.execs[cur] = "FAILED"
        THEN [act |-> "BLOCK", ids |-> {cur}]
        ELSE IF mayStart /\ ~running /\ hasSnapshot /\ ~StartConflict(w, cur, snaps, o)
        THEN emit("START", {cur})
        ELSE NoAction
=============================================================================
