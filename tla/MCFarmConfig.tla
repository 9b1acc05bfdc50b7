----------------------------- MODULE MCFarmConfig -----------------------------
(* A Host with a CPU and a GPU, another, a profile, and two workloads.       *)
EXTENDS FarmConfig, TLC

CONSTANTS h1, h2, d1, p1, k1, f1, w1, w2

Hw(id, slot) == [hw |-> id, slot |-> slot]

\* The GPU, the GPU in another slot, another GPU, and none.
McInventory == {d1 :> Hw("A", 1), d1 :> Hw("A", 2), d1 :> Hw("B", 1), d1 :> None}
McPools == {[name |-> "n", address |-> "x"], [name |-> "m", address |-> "x"],
            [name |-> "n", address |-> "y"]}
McWallets == {[coin |-> "XMR", address |-> "u"], [coin |-> "ETC", address |-> "u"]}
McProfile(tuning) == [pool |-> p1, wallet |-> k1, coin |-> "XMR", tuning |-> tuning]
McProfiles == {McProfile(None), McProfile("t1")}
McWork(run, cpu, devices) ==
    [host |-> h1, profile |-> f1, run |-> run, cpu |-> cpu, devices |-> devices]
McWorks == {McWork(r, TRUE, {}) : r \in BOOLEAN} \cup {McWork(r, FALSE, {d1}) : r \in BOOLEAN}

Empty ==
    [pools |-> (p1 :> NoRow), wallets |-> (k1 :> NoRow), profiles |-> (f1 :> NoRow),
     settings |-> [k \in {h1, h2} \X {f1} |-> NoRow],
     workloads |-> [w \in {w1, w2} |-> NoWorkload], snapshots |-> <<>>,
     bindings |-> [w \in {w1, w2} |-> NoBinding],
     holds |-> [h \in {h1, h2} |-> NoHold], barriers |-> [h \in {h1, h2} |-> NoBarrier],
     restoreRequired |-> FALSE, incidents |-> <<>>, revision |-> 3]

\* A pool, a wallet and a profile that refers to them.
Configured ==
    [Empty EXCEPT !.pools[p1] = NewRow([name |-> "n", address |-> "x"]),
                  !.wallets[k1] = NewRow([coin |-> "XMR", address |-> "u"]),
                  !.profiles[f1] = NewRow(McProfile(None)), !.revision = 5]

\* A workload of generation 1, with its plan if it is RUNNING.
Add(d, w, c, gpu) ==
    LET placed == [d EXCEPT !.workloads[w] = [rev |-> 1, content |-> c, gen |-> 1, hash |-> None]]
        hash == ResolveWith(placed, w, gpu)
        done == [placed EXCEPT !.workloads[w].hash = hash]
    IN  IF c.run THEN Snapshot(done, w, hash) ELSE done

\* A CPU workload and a GPU workload run; and both, RUNNING or not, restored
\* from a backup.
Working == Add(Add(Configured, w1, McWork(TRUE, TRUE, {}), None),
               w2, McWork(TRUE, FALSE, {d1}), d1 :> Hw("A", 1))
Restored ==
    [Working EXCEPT !.barriers = [h \in {h1, h2} |-> [rev |-> 1, status |-> "PENDING"]],
                    !.restoreRequired = TRUE]
McInit == {Empty, Configured, Working, Restored}
===============================================================================
