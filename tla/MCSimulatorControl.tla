------------------------ MODULE MCSimulatorControl ------------------------
(***************************************************************************)
(* Small instances of SimulatorControl.                                    *)
(***************************************************************************)
EXTENDS SimulatorControl

ApiDefaults == [running |-> FALSE, rate |-> 20, scenario |-> "mixed"]
Environment == [rate |-> 20, scenario |-> "mixed"]

\* A start with and without a configuration, a stop, single fields, a scenario
\* that only the engine knows, and a configuration of nothing.
Call(c, cfg) == [call |-> c, cfg |-> cfg]
DashboardCalls ==
    {Call("start", <<>>), Call("stop", <<>>), Call("configure", <<>>),
     Call("start", [rate |-> 20, burst |-> TRUE]),
     Call("configure", [rate |-> 0]), Call("configure", [burst |-> TRUE]),
     Call("configure", [scenario |-> "normal", burst |-> FALSE]),
     Call("configure", [scenario |-> "sql_attack"])}
=============================================================================
