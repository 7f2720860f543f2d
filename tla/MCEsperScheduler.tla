-------------------------- MODULE MCEsperScheduler --------------------------
(***************************************************************************)
(* Setups of the process scheduler that TLC explores exhaustively.  Each   *)
(* stresses one group of operations; their state spaces add up.            *)
(***************************************************************************)
EXTENDS EsperScheduler

\* Two cores, kills arriving at any time, vfork.
KillSetup ==
    [abi |-> "Linux", cores |-> 2, slots |-> 3, pids |-> 3, handles |-> {1}, kinds |-> {},
     opts |-> {"kill", "vfork"}]
\* Two cores, signals with handlers, vfork.
SignalSetup ==
    [abi |-> "Linux", cores |-> 2, slots |-> 2, pids |-> 3, handles |-> {1}, kinds |-> {"ipc"},
     opts |-> {"signal", "vfork"}]
\* Two cores, signals, corrupt contexts, cores taken off line.
CorruptSetup ==
    [abi |-> "Linux", cores |-> 2, slots |-> 2, pids |-> 3, handles |-> {1}, kinds |-> {"ipc"},
     opts |-> {"signal", "corrupt", "cap"}]
\* The Index ABI on two cores, with pipes and kills.
IndexSetup ==
    [abi |-> "Index", cores |-> 2, slots |-> 3, pids |-> 3, handles |-> {}, kinds |-> {"pipe"},
     opts |-> {"kill"}]
\* One core: four processes in three slots that sleep and sigsuspend.
UniSetup ==
    [abi |-> "Linux", cores |-> 1, slots |-> 3, pids |-> 4, handles |-> {1},
     kinds |-> {"sigsuspend", "sleep"}, opts |-> {"vfork"}]

SafetySetups == {KillSetup, SignalSetup, CorruptSetup, IndexSetup, UniSetup}

\* Two cores, threads that sleep, cores taken off line: for liveness.
LiveSetups ==
    {[abi |-> "Linux", cores |-> 2, slots |-> 3, pids |-> 3, handles |-> {}, kinds |-> {"sleep"},
      opts |-> {"cap"}]}

\* Two cores, two processes, pipes and kills at any time.
ReviveSetups ==
    {[abi |-> "Linux", cores |-> 2, slots |-> 2, pids |-> 2, handles |-> {}, kinds |-> {"pipe"},
      opts |-> {"kill"}]}

\* One core, a vfork child that leaves through exit_group.
VforkSetups ==
    {[abi |-> "Linux", cores |-> 1, slots |-> 2, pids |-> 2, handles |-> {}, kinds |-> {},
      opts |-> {"vfork"}]}
===============================================================================
