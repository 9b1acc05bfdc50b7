------------------------------ MODULE MCInstaller ------------------------------
(* A Host with both roles, a GPU that le0x reaches and one it does not yet.   *)
EXTENDS Installer

McSelections == {<<"agent">>, <<"controller", "agent">>}
McDevices == {[group |-> "render", access |-> "group"], [group |-> "root", access |-> "world"]}

Down == [enabled |-> FALSE, active |-> FALSE, failed |-> FALSE, loaded |-> Absent]
Loaded(enabled, active, failed) ==
    [enabled |-> enabled, active |-> active, failed |-> failed, loaded |-> 1]
Clean ==
    [file |-> [a \in Artifact |-> Absent], svc |-> [r \in Role |-> Down],
     account |-> [exists |-> FALSE, groups |-> {}]]
\* Version 1: the Agent runs with the operator's configuration, the Controller
\* is stopped or has failed.
Installed(failed) ==
    [file |-> [a \in Artifact |-> IF a = <<"agent", "config">> THEN Edited ELSE 1],
     svc |-> [r \in Role |-> IF r = "agent" THEN Loaded(TRUE, TRUE, FALSE)
                             ELSE Loaded(FALSE, FALSE, failed)],
     account |-> [exists |-> TRUE, groups |-> {"render"}]]
McHosts == {Clean} \cup {Installed(failed) : failed \in BOOLEAN}

\* What RollbackIsAlwaysExact supposes of the hosts.
ASSUME McHostsRun == RunningHaveUnits
================================================================================
