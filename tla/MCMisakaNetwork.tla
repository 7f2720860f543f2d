--------------------------- MODULE MCMisakaNetwork ---------------------------
(***************************************************************************)
(* Workloads for model checking MisakaNetwork: the demos the shell starts, *)
(* alone and against a Sister that hogs a core, on one and on two cores.   *)
(***************************************************************************)
EXTENDS MisakaNetwork

Run(n, cmds) == [cores |-> n, spawns |-> cmds]

DemoWorkloads ==
    { Run(1, <<"priority_inversion">>),
      Run(2, <<"priority_inversion">>),
      Run(1, <<"judgement">>),
      Run(2, <<"judgement">>),
      Run(2, <<"judgement", "named">>),
      Run(1, <<"radio">>),
      Run(2, <<"radio">>),
      Run(2, <<"prodcons", "named">>),
      Run(1, <<"sleeper", "levels">>),
      Run(2, <<"demo", "named", "named", "demo">>) }

WorkerWorkloads == { Run(1, <<"demo", "demo">>) }
===============================================================================
