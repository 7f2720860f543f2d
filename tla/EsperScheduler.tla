---------------------------- MODULE EsperScheduler ----------------------------
(***************************************************************************)
(* The SMP scheduler of user processes ("Espers"): src/index/esper.cpp and *)
(* the code of src/index/usermode.cpp and src/index/fortis931.cpp that     *)
(* drives it.  A process table of NSlots slots is shared by NCpus cores.   *)
(* Every operation that holds g_esper_lock is one step; a core's way from  *)
(* one critical section to the next (claim, load the context, eret, leave) *)
(* is a sequence of steps kept in mode[c], so that other cores interleave  *)
(* exactly where the lock is released.                                     *)
(***************************************************************************)
EXTENDS Integers

CONSTANTS
    NSlots,         \* kMaxEspers
    NCpus,          \* kMaxCpus
    MaxPid,         \* bound on g_next_pid: how many processes are ever created
    Setups          \* the machines and workloads considered, see below

(***************************************************************************)
(* A setup is fixed for a behaviour:                                       *)
(*   abi      the ABI of the processes, "Index" or "Linux"                 *)
(*   cores    how many cores bring_up_secondaries started                  *)
(*   slots    how much of the process table is used                        *)
(*   pids     how many processes are ever created                          *)
(*   handles  the pids whose SIGCHLD disposition is a handler              *)
(*   kinds    what processes sleep on, besides wait4 and vfork             *)
(*   opts     the optional operations in play                              *)
(***************************************************************************)
WaitKinds == {"pipe", "ipc", "futex", "sleep", "sigsuspend"}
Options == {"kill", "signal", "vfork", "cap", "corrupt"}

ASSUME SchedulerAssumption ==
    /\ NSlots \in Nat \ {0}
    /\ NCpus \in Nat \ {0}
    /\ MaxPid \in Nat \ {0}
    /\ Setups \subseteq [abi : {"Index", "Linux"}, cores : 1 .. NCpus,
                        slots : 1 .. NSlots, pids : 1 .. MaxPid,
                        handles : SUBSET (1 .. MaxPid), kinds : SUBSET WaitKinds, opts : SUBSET Options]

Slots == 0 .. NSlots - 1
Cpus == 0 .. NCpus - 1
Pids == 1 .. MaxPid
None == -1

EsperState == {"free", "ready", "running", "waiting", "exited", "faulted"}
Dead == {"free", "exited", "faulted"}
Zombie == {"exited", "faulted"}

\* The wait predicates of struct Esper.  A process in wait4 has none of them.
Wait(k) == [k |-> k, id |-> 0]
VforkDone(p) == [k |-> "vfork", id |-> p]
WaitPredicates ==
    {Wait(k) : k \in WaitKinds}
        \cup {VforkDone(p) : p \in Pids}
\* ipc_wait_kind is one field: it holds an IPC kind or VforkDone.
IpcField == {w \in WaitPredicates : w.k \in {"ipc", "vfork"}}

(***************************************************************************)
(* mode[c]: where core c is.                                               *)
(*   loop    in run_espers / idle_entry, about to pick                     *)
(*   picked  claimed nxt[c], before run_one_esper's eret                   *)
(*   user    at EL0, or in a system call that has not released the lock yet*)
(*   fork, cloned   between esper_create and esper_make_ready              *)
(*   wait    in SYS_wait, between the scan and the count of its children   *)
(*   keep    in SYS_wait, between that count and the park                  *)
(*   exit    in exit_and_schedule, before esper_exit_and_pick              *)
(*   gone    in SYS_kill of itself, before the pick                        *)
(*   vfail   in linux_clone, esper_vfork_handoff found nobody              *)
(*   switch  claimed nxt[c], before load_ctx                               *)
(*   leave   nobody to run, before leave_user                              *)
(***************************************************************************)
Modes == {"loop", "picked", "user", "fork", "cloned", "wait", "keep",
          "exit", "gone", "vfail", "switch", "leave"}
Executing == {"user", "fork", "cloned", "wait", "keep", "exit", "gone"}
Loaded == Executing \cup {"vfail", "switch", "leave"}

VARIABLES
    setup,      \* the setup of this behaviour, never changed
    state,      \* Esper::state
    pid,        \* Esper::pid, 0 for a slot never used
    parent,     \* Esper::parent, a slot index
    mm,         \* Esper::mm, a space given by the slots that refer to it; {} for nullptr
    drop,       \* the space that a core has yet to take from a dead group, {} if none
    preds,      \* the wait predicates set in the slot
    want,       \* Esper::wait4_target_pid
    running,    \* g_running
    active,     \* g_cpu_active_esper
    online,     \* g_online_cpus
    nextPid,    \* g_next_pid
    mode, nxt,  \* a core's place, and the slot it has picked or is building
    execPid,    \* history: the pid a core had loaded when it last entered EL0
    published,  \* history: the creator of the slot has finished building it
    reaped,     \* history: how often a pid was handed to a wait(), up to 2
    fellBack    \* history: some core took linux_clone's esper_set_running path

vars == <<setup, state, pid, parent, mm, drop, preds, want, running, active,
          online, nextPid, mode, nxt, execPid, published, reaped, fellBack>>

Init ==
    /\ setup \in Setups
    /\ state = [i \in Slots |-> IF i = 0 THEN "ready" ELSE "free"]
    /\ pid = [i \in Slots |-> IF i = 0 THEN 1 ELSE 0]
    /\ parent = [i \in Slots |-> None]
    /\ mm = [i \in Slots |-> IF i = 0 /\ setup.abi = "Linux" THEN {0} ELSE {}]
    /\ drop = [c \in Cpus |-> {}]
    /\ preds = [i \in Slots |-> {}]
    /\ want = [i \in Slots |-> 0]
    /\ running = [c \in Cpus |-> None]
    /\ active = [c \in Cpus |-> None]
    /\ online = setup.cores
    /\ nextPid = 2
    /\ mode = [c \in Cpus |-> "loop"]
    /\ nxt = [c \in Cpus |-> None]
    /\ execPid = [c \in Cpus |-> 0]
    /\ published = [i \in Slots |-> i = 0]
    /\ reaped = [p \in Pids |-> 0]
    /\ fellBack = FALSE

-----------------------------------------------------------------------------
(* Helpers that the code calls with g_esper_lock held.                      *)

Ready(st, S) == [i \in Slots |-> IF i \in S THEN "ready" ELSE st[i]]
Forget(pr, S, P) == [i \in Slots |-> IF i \in S THEN pr[i] \ P ELSE pr[i]]
SetIpc(pr, i, w) == [pr EXCEPT ![i] = (@ \ IpcField) \cup {w}]

\* Fault: only the run slots are looked at, not what a core still has loaded.
SlotInUseByRunSlot(i) == \E c \in Cpus : running[c] = i
SlotInUse(i) == \E c \in Cpus : running[c] = i \/ active[c] = i

RunningSomewhere(rn, i) == \E c \in Cpus : rn[c] = i

\* The sleepers whose deadline may have passed; only cpu 0 looks.
Sleepers(c, st, pr) ==
    {i \in Slots : c = 0 /\ st[i] = "waiting" /\ Wait("sleep") \in pr[i]}

\* Fault: every scan starts at slot 0.
ScanFromZero(after, i) == i
\* The round-robin scan: the first claimable slot after "after", if any.
ScanDistance(after, i) == (i - after - 1) % NSlots
PickNext(c, after, st, rn) ==
    LET claimable == {i \in Slots : st[i] = "ready" /\ ~RunningSomewhere(rn, i)}
    IN  {i \in claimable : /\ c < online
                           /\ \A j \in claimable :
                                ScanDistance(after, i) <= ScanDistance(after, j)}

ClearRunningSlot(rn, c, i) == IF rn[c] = i THEN [rn EXCEPT ![c] = None] ELSE rn

(***************************************************************************)
(* pick_and_claim_locked, entered with the table st, predicates pr and run *)
(* slots rn that the caller's critical section has produced so far.  The   *)
(* core goes on in mode "found" with its claim or in mode "none".          *)
(***************************************************************************)
PickAndClaim(c, after, st, pr, rn, found, none) ==
    \E due \in SUBSET Sleepers(c, st, pr) :
        LET st1 == Ready(st, due)
            picks == PickNext(c, after, st1, rn)
        IN  /\ preds' = Forget(pr, due, {Wait("sleep")})
            /\ \/ \E n \in picks :
                    /\ state' = [st1 EXCEPT ![n] = "running"]
                    /\ running' = [rn EXCEPT ![c] = n]
                    /\ mode' = [mode EXCEPT ![c] = found]
                    /\ nxt' = [nxt EXCEPT ![c] = n]
               \/ /\ picks = {}
                  /\ state' = st1
                  /\ running' = rn
                  /\ mode' = [mode EXCEPT ![c] = none]
                  /\ nxt' = [nxt EXCEPT ![c] = None]

Switch(c, st, pr, rn) ==
    PickAndClaim(c, running[c], st, pr, rn, "switch", "leave")

ParentIsInWait4(p) == state[p] = "waiting" /\ preds[p] = {}
\* Fault: wait4's pid argument is ignored.
WaitsForAny(p, i) == TRUE
WaitsFor(p, i) == want[p] = 0 \/ want[p] = pid[i]

(***************************************************************************)
(* The members of G die together (one member for exit, the whole mm group  *)
(* for exit_group), in slot order, each telling its parent:                *)
(* maybe_wake_parent_locked.  A parent in wait4 is woken by the first      *)
(* member it waits for, which is reaped on the spot; any other sleeping    *)
(* parent is interrupted if it handles SIGCHLD.                            *)
(***************************************************************************)
Tells(G, p) == {i \in G : parent[i] = p /\ (p \in G => i < p)}
ReapedByWait4(G) ==
    {i \in G : \E p \in Slots :
        /\ ParentIsInWait4(p) /\ i \in Tells(G, p) /\ WaitsFor(p, i)
        /\ \A j \in Tells(G, p) : WaitsFor(p, j) => i <= j}
WokenByWait4(G) ==
    {p \in Slots : ParentIsInWait4(p) /\ \E i \in Tells(G, p) : WaitsFor(p, i)}
InterruptedByChld(G) ==
    {p \in Slots : /\ state[p] = "waiting" /\ ~ParentIsInWait4(p)
                   /\ pid[p] \in setup.handles /\ Tells(G, p) # {}}
\* Fault: the old exit_group loop, which woke no parent.
DyingSilently(G) == [i \in Slots |-> IF i \in G THEN "exited" ELSE state[i]]
Dying(G) ==
    [i \in Slots |-> IF i \in ReapedByWait4(G) THEN "free"
                     ELSE IF i \in G THEN "exited"
                     ELSE IF i \in WokenByWait4(G) \cup InterruptedByChld(G)
                          THEN "ready"
                     ELSE state[i]]
DyingPreds(G) ==
    Forget(preds, InterruptedByChld(G),
           IpcField \cup {Wait(k) : k \in {"pipe", "sleep", "sigsuspend"}})
CountReaps(S) ==
    reaped' = [p \in Pids |-> IF reaped[p] < 2 /\ \E i \in S : pid[i] = p
                              THEN reaped[p] + 1 ELSE reaped[p]]

\* reality_unref for the slots of S, which no longer refer to any space.
LoseMm(S) ==
    /\ mm' = [i \in Slots |-> IF i \in S THEN {} ELSE mm[i] \ S]
    /\ drop' = [c \in Cpus |-> drop[c] \ S]
\* reality_alloc: slot i gets a space of its own.
OwnMm(i) ==
    /\ mm' = [j \in Slots |-> IF j = i THEN {i} ELSE mm[j] \ {i}]
    /\ drop' = [c \in Cpus |-> drop[c] \ {i}]
\* reality_ref: slot i shares the space of slot j.
ShareMm(i, j) ==
    /\ mm' = [k \in Slots |-> IF k = i \/ k \in mm[j] THEN mm[j] \cup {i} ELSE mm[k]]
    /\ drop' = [c \in Cpus |-> IF j \in drop[c] THEN drop[c] \cup {i} ELSE drop[c]]

-----------------------------------------------------------------------------
(* The kernel side of a core: run_espers, el0_try_run_one, run_one_esper.   *)

UnchangedIdentity ==
    UNCHANGED <<setup, pid, parent, mm, drop, online, nextPid, published, fellBack>>

\* run_espers scans from slot 0, el0_try_run_one from the core's last slot.
TryRun(c) ==
    /\ mode[c] = "loop"
    /\ PickAndClaim(c, IF c = 0 THEN None ELSE running[c], state, preds, running,
                    "picked", "loop")
    /\ UNCHANGED <<want, active, execPid, reaped>> /\ UnchangedIdentity

EnterUser(c) ==
    /\ active' = [active EXCEPT ![c] = nxt[c]]
    /\ execPid' = [execPid EXCEPT ![c] = pid[nxt[c]]]
    /\ mode' = [mode EXCEPT ![c] = "user"]
    /\ nxt' = [nxt EXCEPT ![c] = None]
    /\ UNCHANGED <<state, preds, want, running, reaped>> /\ UnchangedIdentity

RunOne(c) == mode[c] = "picked" /\ EnterUser(c)
LoadCtx(c) == mode[c] = "switch" /\ drop[c] = {} /\ EnterUser(c)

\* [MMGUARD]/[ELRGUARD]: the saved context is unusable, the Esper loses its address
\* space and is faulted without a successor; only the assembly guard goes through
\* leave_user.
ResumeCorrupt(c) ==
    /\ "corrupt" \in setup.opts
    /\ mode[c] = "picked"
    /\ state' = [state EXCEPT ![nxt[c]] = "faulted"]
    /\ running' = ClearRunningSlot(running, c, nxt[c])
    /\ \E a \in {nxt[c], None} : active' = [active EXCEPT ![c] = a]
    /\ mode' = [mode EXCEPT ![c] = "loop"]
    /\ nxt' = [nxt EXCEPT ![c] = None]
    /\ LoseMm({nxt[c]})
    /\ UNCHANGED <<setup, pid, parent, preds, want, online, nextPid, execPid,
                   published, reaped, fellBack>>

\* Fault: the wrong value for "no Esper".
LeaveUserWrongNone(c) ==
    /\ mode[c] = "leave" /\ drop[c] = {}
    /\ active' = [active EXCEPT ![c] = NSlots]
    /\ mode' = [mode EXCEPT ![c] = "loop"]
    /\ UNCHANGED <<state, preds, want, running, nxt, execPid, reaped>>
    /\ UnchangedIdentity
LeaveUser(c) ==
    /\ mode[c] = "leave" /\ drop[c] = {}
    /\ active' = [active EXCEPT ![c] = None]
    /\ mode' = [mode EXCEPT ![c] = "loop"]
    /\ UNCHANGED <<state, preds, want, running, nxt, execPid, reaped>>
    /\ UnchangedIdentity

-----------------------------------------------------------------------------
(* What the running Esper (slot running[c]) does.                           *)

\* The 100 Hz tick at EL0, and SYS_yield: esper_preempt_and_pick.
Preempt(c) ==
    LET cur == running[c] IN
    /\ mode[c] = "user"
    /\ \E due \in SUBSET Sleepers(c, state, preds) :
         LET st1 == Ready(state, due)
             picks == PickNext(c, cur, st1, running) \ {cur}
         IN  /\ preds' = Forget(preds, due, {Wait("sleep")})
             /\ \/ \E n \in picks :
                     /\ state' = [i \in Slots |->
                                    IF i = n THEN "running"
                                    ELSE IF i = cur /\ st1[i] = "running" THEN "ready"
                                    ELSE st1[i]]
                     /\ running' = [running EXCEPT ![c] = n]
                     /\ mode' = [mode EXCEPT ![c] = "switch"]
                     /\ nxt' = [nxt EXCEPT ![c] = n]
                \/ /\ picks = {}
                   /\ state' = st1
                   /\ UNCHANGED <<running, mode, nxt>>
    /\ UNCHANGED <<want, active, execPid, reaped>> /\ UnchangedIdentity

\* linux_ipc_park and nanosleep: esper_park_and_pick, which does not park an
\* Esper that was killed meanwhile.
ParkChecked(c, w) ==
    LET cur == running[c]
        pr == IF w = Wait("ipc") THEN SetIpc(preds, cur, w)
              ELSE [preds EXCEPT ![cur] = @ \cup {w}]
    IN
    /\ mode[c] = "user"
    /\ IF state[cur] = "running"
       THEN Switch(c, [state EXCEPT ![cur] = "waiting"], pr,
                   ClearRunningSlot(running, c, cur))
       ELSE Switch(c, state, pr, running)
    /\ UNCHANGED <<want, active, execPid, reaped>> /\ UnchangedIdentity

\* Pipes, futexes, sigsuspend and ipc_park_unless_ready park under a lock they
\* already hold: esper_park_and_pick_locked.
ParkLocked(c, w) ==
    LET cur == running[c]
        pr == IF w = Wait("ipc") THEN SetIpc(preds, cur, w)
              ELSE [preds EXCEPT ![cur] = @ \cup {w}]
    IN
    /\ mode[c] = "user"
    /\ Switch(c, [state EXCEPT ![cur] = "waiting"], pr,
              ClearRunningSlot(running, c, cur))
    /\ UNCHANGED <<want, active, execPid, reaped>> /\ UnchangedIdentity

ZombieChildren(p, w) ==
    {i \in Slots : parent[i] = p /\ state[i] \in Zombie /\ (w = 0 \/ pid[i] = w)}
LiveChildren(p, w) ==
    {i \in Slots : parent[i] = p /\ state[i] # "free" /\ (w = 0 \/ pid[i] = w)}

\* Fault: the reaped slot is not freed in the same critical section.
ReapKeepsZombie(c, w) ==
    \E i \in ZombieChildren(running[c], w) :
        /\ CountReaps({i})
        /\ mode' = [mode EXCEPT ![c] = "user"]
        /\ UNCHANGED <<state, preds, want, running, active, nxt, execPid>>
        /\ UnchangedIdentity
\* The reap half of linux_wait4 and SYS_wait.
Reap(c, w) ==
    \E i \in ZombieChildren(running[c], w) :
        /\ \A j \in ZombieChildren(running[c], w) : i <= j
        /\ state' = [state EXCEPT ![i] = "free"]
        /\ CountReaps({i})
        /\ mode' = [mode EXCEPT ![c] = "user"]
        /\ UNCHANGED <<preds, want, running, active, nxt, execPid>>
        /\ UnchangedIdentity

LinuxWait4(c, w) ==
    LET cur == running[c] IN
    /\ mode[c] = "user" /\ setup.abi = "Linux"
    /\ \/ Reap(c, w)
       \/ /\ ZombieChildren(cur, w) = {} /\ LiveChildren(cur, w) # {}
          /\ want' = [want EXCEPT ![cur] = w]
          /\ Switch(c, [state EXCEPT ![cur] = "waiting"],
                    [preds EXCEPT ![cur] = @ \cap {Wait("sigsuspend")}],
                    ClearRunningSlot(running, c, cur))
          /\ UNCHANGED <<active, execPid, reaped>> /\ UnchangedIdentity

\* SYS_wait of the Index ABI scans in one critical section ...
SysWaitScan(c) ==
    LET cur == running[c] IN
    /\ mode[c] = "user" /\ setup.abi = "Index"
    /\ \/ Reap(c, 0)
       \/ /\ ZombieChildren(cur, 0) = {}
          /\ mode' = [mode EXCEPT ![c] = "wait"]
          /\ UNCHANGED <<state, preds, want, running, active, nxt, execPid, reaped>>
          /\ UnchangedIdentity

\* ... counts the children left without the lock (esper_child_count) ...
SysWaitCount(c) ==
    /\ mode[c] = "wait"
    /\ mode' = [mode EXCEPT ![c] = IF LiveChildren(running[c], 0) = {} THEN "user" ELSE "keep"]
    /\ UNCHANGED <<state, preds, want, running, active, nxt, execPid, reaped>>
    /\ UnchangedIdentity

\* ... and parks in another: esper_park_and_pick_keep.
KeepRunning(c, cur) ==
    /\ state' = [state EXCEPT ![cur] = "running"]
    /\ running' = [running EXCEPT ![c] = cur]
    /\ mode' = [mode EXCEPT ![c] = "user"]
    /\ UNCHANGED <<preds, nxt>>

\* Fault: park and un-park in two critical sections, as SYS_wait once did.
SysWaitParkSplit(c) ==
    LET cur == active[c]
        st == [state EXCEPT ![cur] = "waiting"]
        rn == ClearRunningSlot(running, c, cur)
    IN
    /\ mode[c] = "keep"
    /\ \/ running[c] = cur /\ PickAndClaim(c, cur, st, preds, rn, "switch", "keep")
       \/ running[c] = None /\ KeepRunning(c, cur)
    /\ UNCHANGED <<want, active, execPid, reaped>> /\ UnchangedIdentity

SysWaitPark(c) ==
    LET cur == running[c]
        st == [state EXCEPT ![cur] = "waiting"]
        rn == ClearRunningSlot(running, c, cur)
    IN
    /\ mode[c] = "keep"
    /\ \/ Switch(c, st, preds, rn) /\ mode'[c] = "switch"
       \/ PickNext(c, cur, st, rn) = {} /\ KeepRunning(c, cur)
    /\ UNCHANGED <<want, active, execPid, reaped>> /\ UnchangedIdentity

-----------------------------------------------------------------------------
(* Birth: esper_create, then linux_clone or SYS_fork, then publication.     *)

UsedSlots == 0 .. setup.slots - 1
FreeSlots == {i \in UsedSlots : state[i] = "free" /\ ~SlotInUse(i)}
RecyclableSlots == {i \in UsedSlots : state[i] \in Zombie /\ ~SlotInUse(i)}
ChosenSlot(i) ==
    IF FreeSlots # {}
    THEN i \in FreeSlots /\ \A j \in FreeSlots : i <= j
    ELSE i \in RecyclableSlots /\ \A j \in RecyclableSlots : pid[i] <= pid[j]

Create(c) ==
    /\ mode[c] = "user" /\ nextPid <= setup.pids
    /\ \E i \in Slots :
         /\ ChosenSlot(i)
         /\ state' = [state EXCEPT ![i] = "waiting"]
         /\ pid' = [pid EXCEPT ![i] = nextPid]
         /\ parent' = [parent EXCEPT ![i] = None]
         /\ LoseMm({i})
         /\ preds' = [preds EXCEPT ![i] = {}]
         /\ want' = [want EXCEPT ![i] = 0]
         /\ published' = [published EXCEPT ![i] = FALSE]
         /\ nxt' = [nxt EXCEPT ![c] = i]
    /\ nextPid' = nextPid + 1
    /\ mode' = [mode EXCEPT ![c] = "fork"]
    /\ UNCHANGED <<setup, running, active, online, execPid, reaped, fellBack>>

\* The address space cannot be copied: the slot is given back without the lock.
ForkFail(c) ==
    /\ mode[c] = "fork"
    /\ state' = [state EXCEPT ![nxt[c]] = "free"]
    /\ mode' = [mode EXCEPT ![c] = "user"]
    /\ nxt' = [nxt EXCEPT ![c] = None]
    /\ UNCHANGED <<preds, want, running, active, execPid, reaped>>
    /\ UnchangedIdentity

\* A thread shares the address space; a process gets its own; Index has none.
Clone(c, thread) ==
    LET cur == running[c] IN
    /\ mode[c] = "fork"
    /\ \/ mm[cur] = {} /\ UNCHANGED <<mm, drop>>
       \/ mm[cur] # {} /\ thread /\ ShareMm(nxt[c], cur)
       \/ mm[cur] # {} /\ ~thread /\ OwnMm(nxt[c])
    /\ parent' = [parent EXCEPT ![nxt[c]] = cur]
    /\ mode' = [mode EXCEPT ![c] = "cloned"]
    /\ UNCHANGED <<setup, state, pid, preds, want, running, active, online, nextPid,
                   nxt, execPid, published, reaped, fellBack>>

\* esper_make_ready.
Published(i) == published' = [published EXCEPT ![i] = TRUE]
\* Fault: the child is made ready whatever happened to it meanwhile.
MakeReadyAlways(st, i) == [st EXCEPT ![i] = "ready"]
MakeReady(st, i) == IF st[i] = "waiting" THEN [st EXCEPT ![i] = "ready"] ELSE st

Publish(c) ==
    /\ mode[c] = "cloned"
    /\ state' = MakeReady(state, nxt[c])
    /\ Published(nxt[c])
    /\ mode' = [mode EXCEPT ![c] = "user"]
    /\ nxt' = [nxt EXCEPT ![c] = None]
    /\ UNCHANGED <<setup, pid, parent, mm, drop, preds, want, running, active, online,
                   nextPid, execPid, reaped, fellBack>>

\* CLONE_VFORK: child ready, parent parked on VforkDone, one critical section.
VforkHandoff(c) ==
    LET cur == running[c]
        st == MakeReady(state, nxt[c])
        pr == SetIpc(preds, cur, VforkDone(pid[nxt[c]]))
    IN
    /\ "vfork" \in setup.opts
    /\ mode[c] = "cloned" /\ setup.abi = "Linux"
    /\ Published(nxt[c])
    /\ IF state[cur] = "running"
       THEN PickAndClaim(c, cur, [st EXCEPT ![cur] = "waiting"], pr,
                         ClearRunningSlot(running, c, cur), "switch", "vfail")
       ELSE PickAndClaim(c, cur, st, pr, running, "switch", "vfail")
    /\ UNCHANGED <<setup, pid, parent, mm, drop, want, active, online, nextPid, execPid,
                   reaped, fellBack>>

\* Nobody to run: linux_clone takes the core back with esper_set_running.
VforkFallback(c) ==
    LET cur == active[c] IN
    /\ mode[c] = "vfail"
    /\ preds' = [preds EXCEPT ![cur] = @ \ IpcField]
    /\ state' = [state EXCEPT ![cur] = "running"]
    /\ running' = [running EXCEPT ![c] = cur]
    /\ mode' = [mode EXCEPT ![c] = "user"]
    /\ fellBack' = TRUE
    /\ UNCHANGED <<setup, pid, parent, mm, drop, want, active, online, nextPid, nxt,
                   execPid, published, reaped>>

VforkWaiters(p) ==
    {i \in Slots : state[i] = "waiting" /\ VforkDone(p) \in preds[i]}

\* execve: a new address space of one's own (threads stay in the old one), and the
\* vfork parent goes on.
Exec(c) ==
    LET cur == running[c]
        up == VforkWaiters(pid[cur])
    IN
    /\ mode[c] = "user" /\ mm[cur] # {}
    /\ OwnMm(cur)
    /\ state' = Ready(state, up)
    /\ preds' = Forget(preds, up, IpcField)
    /\ UNCHANGED <<setup, pid, parent, want, running, active, online, nextPid, mode,
                   nxt, execPid, published, reaped, fellBack>>

-----------------------------------------------------------------------------
(* Death.                                                                   *)

\* exit_and_schedule first releases a vfork parent, its pipes and its mm ...
ExitBegin(c) ==
    LET up == VforkWaiters(pid[running[c]]) IN
    /\ mode[c] = "user"
    /\ state' = Ready(state, up)
    /\ preds' = Forget(preds, up, IpcField)
    /\ mode' = [mode EXCEPT ![c] = "exit"]
    /\ LoseMm({running[c]})
    /\ UNCHANGED <<setup, pid, parent, want, running, active, online, nextPid, nxt,
                   execPid, published, reaped, fellBack>>

\* ... and then marks itself exited: esper_exit_and_pick.
ExitFinish(c) ==
    LET cur == running[c] IN
    /\ mode[c] = "exit"
    /\ CountReaps(ReapedByWait4({cur}))
    /\ Switch(c, Dying({cur}), DyingPreds({cur}), ClearRunningSlot(running, c, cur))
    /\ UNCHANGED <<want, active, execPid>> /\ UnchangedIdentity

\* exit_group, and a fatal fault of a Linux Esper: esper_group_exit_and_pick ...
Group(m) == {i \in Slots : state[i] \notin Dead /\ mm[i] = m}

GroupExit(c) ==
    LET cur == running[c]
        G == Group(mm[cur])
    IN
    /\ mode[c] = "user" /\ mm[cur] # {}
    /\ CountReaps(ReapedByWait4(G))
    /\ Switch(c, Dying(G), DyingPreds(G),
              IF cur \in G THEN [running EXCEPT ![c] = None] ELSE running)
    /\ drop' = [drop EXCEPT ![c] = mm[cur]]
    /\ UNCHANGED <<setup, pid, parent, mm, want, active, online, nextPid, execPid,
                   published, fellBack>>

\* ... after which, without the lock, the slots that still refer to the space lose it
\* (release_linux_image): all of them for exit_group, for a fault the exited ones.
ReleaseGroup(c) ==
    /\ drop[c] # {}
    /\ \E S \in {drop[c], {i \in drop[c] : state[i] = "exited"}} :
         /\ mm' = [i \in Slots |-> IF i \in S THEN {} ELSE mm[i] \ S]
         /\ drop' = [d \in Cpus |-> IF d = c THEN {} ELSE drop[d] \ S]
    /\ UNCHANGED <<setup, state, pid, parent, preds, want, running, active, online,
                   nextPid, mode, nxt, execPid, published, reaped, fellBack>>

\* A fatal fault without an mm (the Index ABI): esper_fault_and_pick tells nobody.
Fault(c) ==
    LET cur == running[c] IN
    /\ mode[c] = "user" /\ mm[cur] = {}
    /\ Switch(c, [state EXCEPT ![cur] = "faulted"], preds,
              ClearRunningSlot(running, c, cur))
    /\ UNCHANGED <<want, active, execPid, reaped>> /\ UnchangedIdentity

\* kill_one_locked with no handler.  Its idea of "the parent is in wait4" is
\* only that the parent sleeps and not on a pipe.
KillWakes(i) ==
    {p \in Slots : p = parent[i] /\ p # i
                   /\ state[p] = "waiting" /\ Wait("pipe") \notin preds[p]}
Killed(i) ==
    [j \in Slots |-> IF j = i THEN IF KillWakes(i) = {} THEN "exited" ELSE "free"
                     ELSE IF j \in KillWakes(i) THEN "ready"
                     ELSE state[j]]
KilledPreds(i) == [preds EXCEPT ![i] = @ \ {Wait("pipe")}]

\* fortis931_kill from some core, or fortis931_kill_pgrp from the console.
Kill(i) ==
    /\ "kill" \in setup.opts
    /\ state[i] \notin Dead
    /\ state' = Killed(i)
    /\ preds' = KilledPreds(i)
    /\ CountReaps(IF KillWakes(i) = {} THEN {} ELSE {i})
    /\ UNCHANGED <<want, running, active, mode, nxt, execPid>>
    /\ UnchangedIdentity

\* SYS_kill of oneself, in the Index ABI: fortis931_kill, and then a pick that
\* relies on esper_pick_and_claim to overwrite the run slot.
KillSelf(c) ==
    LET cur == running[c] IN
    /\ "kill" \in setup.opts /\ setup.abi = "Index"
    /\ mode[c] = "user" /\ state[cur] \notin Dead
    /\ state' = Killed(cur)
    /\ preds' = KilledPreds(cur)
    /\ CountReaps(IF KillWakes(cur) = {} THEN {} ELSE {cur})
    /\ mode' = [mode EXCEPT ![c] = "gone"]
    /\ UNCHANGED <<want, running, active, nxt, execPid>> /\ UnchangedIdentity

PickAfterKill(c) ==
    /\ mode[c] = "gone"
    /\ Switch(c, state, preds, running)
    /\ UNCHANGED <<want, active, execPid, reaped>> /\ UnchangedIdentity

-----------------------------------------------------------------------------
(* Wake-ups, from interrupts or from the system calls of other Espers.      *)

\* Fault: a predicate left over in a dead slot is enough to be woken.
WakeAny(i, k) ==
    /\ Wait(k) \in preds[i] /\ state[i] # "running"
    /\ state' = [state EXCEPT ![i] = "ready"]
    /\ preds' = [preds EXCEPT ![i] = @ \ {Wait(k)}]
    /\ UNCHANGED <<want, running, active, mode, nxt, execPid, reaped>>
    /\ UnchangedIdentity

\* wake_pipe_*, ipc_wake_impl, futex_wake_phys, linux_deliver_signal_locked.
Wake(i, k) ==
    /\ state[i] = "waiting" /\ Wait(k) \in preds[i]
    /\ state' = [state EXCEPT ![i] = "ready"]
    /\ preds' = [preds EXCEPT ![i] = @ \ (IF k = "pipe" THEN {Wait("pipe")} \cup IpcField
                                          ELSE {Wait(k)})]
    /\ UNCHANGED <<want, running, active, mode, nxt, execPid, reaped>>
    /\ UnchangedIdentity

\* A signal with a handler, from fortis931_kill_pgrp: it interrupts any wait
\* (prep_interrupt_wait_locked) and ends a sigsuspend.  A child under
\* construction joins its parent's process group in Clone.
Interrupt(i) ==
    /\ "signal" \in setup.opts /\ setup.abi = "Linux"
    /\ state[i] = "waiting"
    /\ \A c \in Cpus : ~(mode[c] = "fork" /\ nxt[c] = i)
    /\ state' = [state EXCEPT ![i] = "ready"]
    /\ preds' = [preds EXCEPT ![i] = @ \cap {Wait("futex")}]
    /\ UNCHANGED <<want, running, active, mode, nxt, execPid, reaped>>
    /\ UnchangedIdentity

\* prctl(PR_INDEX_SET_CPUS).
SetOnline(c, n) ==
    /\ "cap" \in setup.opts
    /\ mode[c] = "user" /\ online # n
    /\ online' = n
    /\ UNCHANGED <<setup, state, pid, parent, mm, drop, preds, want, running, active,
                   nextPid, mode, nxt, execPid, published, reaped, fellBack>>

-----------------------------------------------------------------------------
CoreStep(c) ==
    \/ TryRun(c) \/ RunOne(c) \/ LoadCtx(c) \/ LeaveUser(c) \/ ResumeCorrupt(c)
    \/ Preempt(c)
    \/ \E k \in setup.kinds \cap {"ipc", "sleep"} : ParkChecked(c, Wait(k))
    \/ \E k \in setup.kinds \ {"sleep"} : ParkLocked(c, Wait(k))
    \/ \E w \in 0 .. MaxPid : LinuxWait4(c, w)
    \/ SysWaitScan(c) \/ SysWaitCount(c) \/ SysWaitPark(c)
    \/ Create(c) \/ ForkFail(c) \/ Publish(c)
    \/ \E thread \in BOOLEAN : Clone(c, thread)
    \/ VforkHandoff(c) \/ VforkFallback(c) \/ Exec(c)
    \/ ExitBegin(c) \/ ExitFinish(c) \/ GroupExit(c) \/ ReleaseGroup(c) \/ Fault(c)
    \/ KillSelf(c) \/ PickAfterKill(c)
    \/ \E n \in {1, setup.cores} : SetOnline(c, n)

Next ==
    \/ \E c \in Cpus : CoreStep(c)
    \/ \E i \in Slots : Kill(i) \/ Interrupt(i)
    \/ \E i \in Slots, k \in setup.kinds \ {"sleep"} : Wake(i, k)

Spec == Init /\ [][Next]_vars

(***************************************************************************)
(* Fairness.  A core that is in the kernel goes on: nothing waits there    *)
(* but for g_esper_lock.  Each core's 100 Hz timer interrupt stays pending *)
(* while a system call masks it and is taken at the next EL0 instruction,  *)
(* so a core that is at EL0 again and again is preempted (strong fairness).*)
(* No process is assumed to make a system call, to exit or to be woken.    *)
(***************************************************************************)
KernelStep(c) ==
    \/ TryRun(c) \/ RunOne(c) \/ LoadCtx(c) \/ LeaveUser(c)
    \/ SysWaitCount(c) \/ SysWaitPark(c) \/ ExitFinish(c) \/ PickAfterKill(c)
    \/ ReleaseGroup(c)
    \/ Clone(c, FALSE) \/ Publish(c) \/ VforkFallback(c)

Fairness == \A c \in Cpus : WF_vars(KernelStep(c)) /\ SF_vars(Preempt(c))

FairSpec == Spec /\ Fairness

-----------------------------------------------------------------------------
(* Properties.                                                              *)

\* The shapes of the process table and of the per-core variables.
TypeOK ==
    /\ setup \in Setups
    /\ state \in [Slots -> EsperState]
    /\ pid \in [Slots -> 0 .. MaxPid]
    /\ parent \in [Slots -> Slots \cup {None}]
    /\ mm \in [Slots -> SUBSET Slots]
    /\ drop \in [Cpus -> SUBSET Slots]
    /\ preds \in [Slots -> SUBSET WaitPredicates]
    /\ want \in [Slots -> 0 .. MaxPid]
    /\ running \in [Cpus -> Slots \cup {None}]
    /\ active \in [Cpus -> Slots \cup {None}]
    /\ online \in 1 .. NCpus
    /\ nextPid \in 2 .. MaxPid + 1
    /\ mode \in [Cpus -> Modes]
    /\ nxt \in [Cpus -> Slots \cup {None}]
    /\ execPid \in [Cpus -> 0 .. MaxPid]
    /\ published \in [Slots -> BOOLEAN]
    /\ reaped \in [Pids -> 0 .. 2]
    /\ fellBack \in BOOLEAN

\* No Esper occupies the run slots of two cores ("one Esper idx on two CPUs at
\* once", the double schedule that running_somewhere_locked guards against), as
\* long as no core went through linux_clone's esper_set_running fallback.
SingleClaim ==
    ~fellBack => \A c, d \in Cpus :
        c # d /\ running[c] # None => running[c] # running[d]

\* The table and the run slots agree: a running Esper is some core's, and one
\* that may be picked or woken is nobody's.
ClaimsAgree ==
    ~fellBack => \A i \in Slots :
        /\ state[i] = "running" => RunningSomewhere(running, i)
        /\ state[i] \in {"ready", "waiting"} => ~RunningSomewhere(running, i)

\* Two cores never execute the same Esper's context, stack and address space.
NoDoubleExecution ==
    ~fellBack => \A c, d \in Cpus :
        c # d /\ mode[c] \in Executing /\ mode[d] \in Executing
            => active[c] # active[d]

\* As long as a core has a process loaded (until load_ctx or leave_user is
\* done) the slot still holds that process: slot_in_use_locked keeps esper_create
\* away even when the process was killed and reaped meanwhile on another core.
SlotStable ==
    \A c \in Cpus : mode[c] \in Loaded =>
        /\ active[c] \in Slots
        /\ pid[active[c]] = execPid[c]

\* linux_wait4's scan and park are one critical section: a process that sleeps
\* in wait4 has no unreported exited child it waits for (the lost wake-up that hung
\* "cmd & cmd & wait").  A faulted child wakes nobody, by design; SYS_wait of the
\* Index ABI does let a child slip between its scan and its park.
NoMissedReap ==
    ~fellBack /\ setup.abi = "Linux" => \A p, i \in Slots :
        /\ published[p] /\ ParentIsInWait4(p)
        /\ parent[i] = p /\ state[i] = "exited" /\ reaped[pid[i]] = 0
        => ~WaitsFor(p, i)

\* Nothing dies while a core executes it: one core and nobody is killed.
Sequential == setup.cores = 1 /\ "kill" \notin setup.opts

\* A parent blocked in waitpid(PID) is woken with that child and no other, as long
\* as nobody is killed (kill_one_locked does not look at wait4_target_pid).
WaitpidExact ==
    []["kill" \notin setup.opts => \A p, i \in Slots :
         /\ ParentIsInWait4(p) /\ state'[p] = "ready"
         /\ parent[i] = p /\ reaped'[pid[i]] > reaped[pid[i]]
         => want[p] \in {0, pid[i]}]_vars

\* On a uniprocessor without kills a process that died stays dead until its slot
\* is given to another one, whatever wait predicates it left behind.
NoRevive ==
    [][Sequential => \A i \in Slots :
         state[i] \in Dead /\ pid'[i] = pid[i] => state'[i] \in Dead]_vars

\* Likewise a child is handed to a wait() at most once.
ReapedOnce == Sequential => \A p \in Pids : reaped[p] <= 1

\* Under kills and several cores too: a killed Esper is not revived by the park
\* of the system call it is in (esper_park_and_pick: "don't revive the dying
\* Esper -- just pick next").
NoReviveEver ==
    [][\A i \in Slots :
         state[i] \in Dead /\ pid'[i] = pid[i] => state'[i] \in Dead]_vars

\* A parent suspended in vfork() sleeps only as long as its child lives ("the
\* CLONE_VFORK contract: child exec OR exit wakes it").
VforkParentReleased ==
    \A p \in Slots, q \in Pids :
        state[p] = "waiting" /\ VforkDone(q) \in preds[p]
            => \E i \in Slots : pid[i] = q /\ state[i] \notin Dead

\* Every ready Esper is run, or stops being ready: the round-robin scans of the
\* cores, entered from different places, starve nobody.
ReadyRuns ==
    \A i \in Slots : state[i] = "ready" ~> state[i] # "ready"
===============================================================================
