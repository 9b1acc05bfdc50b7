------------------------------ MODULE MCIncidents ------------------------------
(* One Host with a CPU and a GPU, and a workload for each.                    *)
EXTENDS Incidents, TLC

CONSTANTS h1, d1, p1, k1, f1, w1, w2

McPools == {[name |-> "n", address |-> "x"]}
McWallets == {[coin |-> "XMR", address |-> "u"]}
McProfiles == {[pool |-> p1, wallet |-> k1, coin |-> "XMR", tuning |-> None]}
McWork(run, cpu, devices) ==
    [host |-> h1, profile |-> f1, run |-> run, cpu |-> cpu, devices |-> devices]
McWorks == {McWork(TRUE, TRUE, {})} \cup {McWork(r, FALSE, {d1}) : r \in BOOLEAN}
Gpu1 == d1 :> [hw |-> "A", slot |-> 1]
McInventory == {Gpu1}

\* The workloads w1 of the CPU, RUNNING with its plan, and w2 of the GPU, whose
\* first plan waits for the inventory.
Plan(cpu, devices, gpu) ==
    [run |-> TRUE, host |-> h1, profile |-> f1, cpu |-> cpu, devices |-> devices, gpu |-> gpu,
     pool |-> "x", wallet |-> "u", tuning |-> None]
Row1(w, cpu, devices, gpu) ==
    [rev |-> 1, content |-> McWork(TRUE, cpu, devices), gen |-> 1, hash |-> Plan(cpu, devices, gpu)]
Base ==
    [pools |-> p1 :> NewRow([name |-> "n", address |-> "x"]),
     wallets |-> k1 :> NewRow([coin |-> "XMR", address |-> "u"]),
     profiles |-> f1 :> NewRow([pool |-> p1, wallet |-> k1, coin |-> "XMR", tuning |-> None]),
     settings |-> <<h1, f1>> :> NoRow,
     workloads |-> [w \in {w1, w2} |-> NoWorkload], snapshots |-> <<>>,
     bindings |-> [w \in {w1, w2} |-> NoBinding],
     holds |-> h1 :> NoHold, barriers |-> h1 :> NoBarrier,
     restoreRequired |-> FALSE, incidents |-> <<>>, revision |-> 4]
Working ==
    [Base EXCEPT !.workloads = w1 :> Row1(w1, TRUE, {}, None) @@ w2 :> Row1(w2, FALSE, {d1}, None),
                 !.snapshots = <<w1, 1>> :> Plan(TRUE, {}, None)]
McInit == {[Base EXCEPT !.revision = 5], Working}

McObserved ==
    {[gpus |-> {d1}, busy |-> {}, execs |-> <<w1, 1>> :> "DEGRADED"],
     [gpus |-> {}, busy |-> {"CPU"}, execs |-> <<w1, 1>> :> "STOPPED"]}
================================================================================
