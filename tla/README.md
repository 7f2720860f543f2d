# A TLA+ verification of Index

Index is an ARM64 kernel in freestanding C++ that runs unmodified Linux programs
beside programs of its own ABI. This directory holds TLA+ models of its
concurrent core, TLC configurations that check them on small instances, and
TLAPS proofs of the scheduler's safety for any number of cores and processes.
Paths below are relative to the repository; line numbers of every definition's
source are in `PROJECT.json` under `map`.

## 1. The system

| Part | Source (`src/index/`) | What it does |
|---|---|---|
| Esper scheduler | `esper.cpp`, `usermode.cpp`, `fortis931.cpp` | process table, picks, parks, wake-ups, exit, kill, on several cores |
| Misaka Network | `misaka_network.cpp`, `last_order.cpp` | kernel threads ("Sisters") with Levels 0-5, timer beat |
| Imprimatur, Judgement, Radio Noise | `imprimatur.cpp`, `judgement.cpp`, `radio_noise.cpp` | semaphores, mutexes with priority inheritance, mailboxes |
| Personal Reality v2 | `personal_reality_v2.cpp`, calls in `linux_abi.cpp` | areas, demand paging, copy on write, fork |
| Aiwass, Imaginary Number Channels, Sister Relay | pipes, AF_UNIX, ptys | rings with reference-counted ends, park and wake |
| Event queue | `event_queue.cpp` | eventfd, epoll, timerfd, signalfd, inotify |
| Linux ABI | `linux_abi.cpp`, `usermode.cpp` | descriptors, futex, poll, signals, ptrace, files |
| Antenna, MisakaMail, DHCP, DNS | network stack | UDP, TCP, ARP, ICMP over virtio-net |
| Lateran, ext2, FAT16, Testament, procfs | file systems | path front and four back ends |
| Tree Diagram, Dark Matter, Teleport | page allocator, heap, kernel MMU | memory below the address spaces |
| virtio drivers, Aleister, Last Order, Othinus | devices | block, net, 9p, serial, rng; GIC, timer, PSCI |
| Necessarius and the boot path | shell, catalogue, panic | commands; straight-line initialisation |

How they interact: each core runs Sisters; the shell's Sister (core 0) and the idle
Sisters of the other cores enter `run_espers` / `el0_try_run_one`, which pick and
execute Espers. System calls and the 100 Hz tick take an Esper off its core
through the operations of `esper.cpp`. Everything that can block a process
(pipes, sockets, futexes, sleeps, wait4, vfork) does so by a wait predicate in
the Esper's slot and a wake-up that scans the table for it. An Esper points to its address
space, which takes its pages from Tree Diagram. All 35 components, with their
status and the reason for what is left out, are in `PROJECT.json`; so are the
40 hazards the survey found, each at the line where it bites.

## 2. Modules

| Module | Models | State |
|---|---|---|
| `EsperScheduler` | the process scheduler | table, run slots, what each core has loaded, where each core stands |
| `EsperSchedulerProofs` | its inductive invariant and the theorems | - |
| `MCEsperScheduler` | the setups TLC explores | - |
| `MisakaNetwork` | kernel threads, semaphores, mutexes, mailboxes, the shell's demos | thread table, cores, queues, ring |
| `Mailbox` | what a mailbox promises: a bounded FIFO | one queue |
| `MCMisakaNetwork` | the workloads | - |
| `PersonalReality` | address spaces | areas, bump pointer, page entries, reference counts, page contents, the mmap each thread is in |
| `FlatMemory` | what an address space promises: private flat memory | one memory per space |
| `MCPersonalReality` | programs, requests, symmetry | - |

Definitions marked "Fault:" are deliberately wrong variants of the definition
that follows them. No behaviour of a specification uses one; each stands for a
bug the code could have had, and replacing the real definition by it makes TLC
report the property listed with it under `mutants`.

### EsperScheduler

One step is one critical section of `g_esper_lock`. A core's path from one
section to the next is kept in `mode[c]`, so other cores interleave exactly
where the code releases the lock:

    loop -> picked -> user -> (park, preempt, exit ...) -> switch -> user
                                                        -> leave  -> loop
    user -> fork -> cloned -> user | switch | vfail -> user
    user -> exit -> switch | leave        user -> wait -> keep -> user | switch
    user -> gone -> switch | leave

| State | Code |
|---|---|
| `state`, `pid`, `parent`, `mm`, `want` | fields of `struct Esper` (`want` is `wait4_target_pid`); a space in `mm` is written as the set of slots that refer to it, the null pointer as the empty set |
| `drop` | per core, the space of a dead group that it has yet to release |
| `preds` | the wait predicates of a slot (pipe, ipc kind, futex, sleep, sigsuspend, VforkDone); a process in wait4 has none |
| `running`, `active` | `g_running` (a core's claim) and `g_cpu_active_esper` (what it has loaded) |
| `online`, `nextPid` | `g_online_cpus`, `g_next_pid` |
| `mode`, `nxt` | a core's place, and the slot it has picked or is building |
| `execPid`, `published`, `reaped`, `fellBack` | history, read only by properties |

| Actions | Code |
|---|---|
| `TryRun`, `RunOne`, `LoadCtx`, `LeaveUser`, `ResumeCorrupt` | `run_espers`, `el0_try_run_one`, `run_one_esper`, `load_ctx`, `leave_user`, the two context guards |
| `Preempt`, `ParkChecked`, `ParkLocked` | `esper_preempt_and_pick`, `esper_park_and_pick` and its `_locked` form |
| `LinuxWait4`, `SysWaitScan`, `SysWaitCount`, `SysWaitPark` | wait4 in one section; the Index ABI's wait in three parts: the scan, the unlocked `esper_child_count`, the park |
| `Create`, `Clone`, `ForkFail`, `Publish` | `esper_create`, `linux_clone`/`SYS_fork`, `esper_make_ready` |
| `VforkHandoff`, `VforkFallback`, `Exec` | `esper_vfork_handoff`, the fallback when nobody can run, execve |
| `ExitBegin`, `ExitFinish`, `Fault` | `exit_and_schedule`, `esper_fault_and_pick` |
| `GroupExit`, `ReleaseGroup` | exit_group and the fatal fault of a Linux Esper: `esper_group_exit_and_pick`, then, after the lock, the loop that takes the space from the group |
| `Kill`, `KillSelf`, `PickAfterKill`, `Interrupt`, `Wake` | `fortis931_kill`, `kill_pgrp`, the wake functions |
| `SetOnline` | `prctl(PR_INDEX_SET_CPUS)` |

Abstractions: the processes' system calls are a nondeterministic choice;
deadlines are (a sleeper may be due at any look by core 0); identity of a pipe,
a futex word or an IPC object is dropped, so a wake-up may hit any waiter of the
kind; registers, names, images and counters are left out. `ReleaseGroup` is one step
for the whole loop, and covers both its forms (exit_group releases every member, the
fault path only those still exited). What `reality_unref` does with the last reference,
the wait for other cores and the freeing of the tables, is not modelled here.

### MisakaNetwork

One step is one section of `g_sched_lock` including the switch at its end, because the
lock is handed to the context that is switched to. `Entries` writes every entry function
of the demos as the sequence of operations it performs; `Commands` and
`SpawnLevel` are the shell's spawn functions. `Tick`, `YieldStep`, `SleepStep`,
`Finish`, `ImprimaturWait/Post`, `JudgementLock/Unlock`, `Put`/`Get`,
`ReadShared`/`WriteShared`, `Spawn`, `ShellSleeps` and `BecomeIdle` are its actions.
The waiter rings keep their limit and drop what does not fit, as the code does.
Counters and sequence numbers are kept modulo `Modulus`.
Two error returns are out of the workloads' reach and not modelled: `become_idle` and
`spawn` always find a free slot, since the table has room for every Sister a workload
starts, and the shell does not repeat a command whose Sisters are still there.

### PersonalReality

A step is one section of the page-table lock, or one access to the space made without
it. Exec's areas (`Exec`), munmap (`Unmap`), mprotect (`Protect`), a fault (`Fault`), a
kernel write (`WriteUser`), fork (`Fork`, `ForkFails`) and the end of a space (`Destroy`)
are one section each; `UserWrite` is the hardware. mmap is not one section, and other
threads of the space (CLONE_VM) run between its parts:

| Step | Lock | Code (`linux_abi.cpp`) |
|---|---|---|
| `MmapChoose`: fixed, at a hint found free, or at `mmap_next` | none | 2110-2151 |
| `MmapRemove`: what MAP_FIXED displaces | page-table | 2152-2154 |
| `MmapRefused`: the descriptor is no file | none | 2162-2178 |
| `MmapAdd`: the area, or a full table | page-table | 2155-2182 |
| `MmapCompare`, `MmapStore`: the test and the move of `mmap_next` | none | 2186-2187 |

The area table keeps slots, order and limit; `Carve`, `Slice` and `Reprotect` are the
splitting arithmetic in bytes, with file offset, file size and the padding of a segment
that starts inside a page. `Exec` adds an area per segment whatever the others cover,
as `map_elf_loads` does, and `Fork` counts a page once for every area that covers it.
A page that returns to the allocator is kept at zero: a fault fills or copies the whole
page before anyone sees it. `View` is the refinement mapping to `FlatMemory`: a page
that is in shows its contents, one that is not shows what a fault would bring in.

Seven risky calls are taken only when `Allowed` names them (`RiskyCalls`): the code does
not keep memory private, or areas exact, under them.

| Risky call | What happens | Where |
|---|---|---|
| `protect_shared` | mprotect makes a page shared since fork writable | finding 4 |
| `trim_padded` | cutting the head off a padded segment shifts its bytes | finding 5 |
| `concurrent_mmap` | two threads in mmap get the same place | finding 6 |
| `torn_hint` | the unlocked `pr2_range_free` meets an area that mprotect or a split has dropped and not yet re-added, and a hint over it is honoured (the model lets this happen whenever there is another thread) | hazard at `linux_abi.cpp:2186` |
| `bump_onto_fixed` | `mmap_next` has run into a fixed mapping | hazard at `linux_abi.cpp:2147` |
| `poke_shared` | a kernel write into a shared page of a read-only area | hazard at `usermode.cpp:1021` |
| `overlapping_segments` | two segments of a program share a page | hazard at `usermode.cpp:558` |

The passing runs therefore speak of programs that do none of the seven; with any one of
them allowed TLC finds one of their properties violated.

## 3. Runs

Run one with `tlc -workers 2 -config <cfg> <module>`.

| Run | Expect | What it shows |
|---|---|---|
| `EsperSafety` | pass | On two cores with kills, signals, vfork, threads, corrupt contexts and cores going off line, and on one core with sleeps and sigsuspend: no Esper is claimed or executed twice, table and claims agree, a loaded slot never changes hands, wait4 misses no exited child, waitpid gets its child, and (one core, no kill) the dead stay dead and are reaped once. 2.5 million distinct states. |
| `EsperLive` | pass | Every ready Esper runs, under the fairness below. |
| `MisakaDemos` | pass | Every demo the shell can start, on one and two cores: exclusion, no lost wake-up, no lost update, boosts that end with the lock, a mailbox that implements `Mailbox`, and every lock granted. Deadlock is checked. |
| `MemoryFlat` | pass | Two spaces of two threads that exec, map, unmap, protect, fork, fault and write in any order implement `FlatMemory`. |
| `MemoryCalls` | pass | The same with one more physical page: every page is counted exactly, areas do not overlap, entries stay within areas, and every section of a call changes exactly its range, while other threads call and fault between the sections of an mmap. |
| `EsperRevive` | violation | finding 1 |
| `EsperVfork` | violation | finding 2 |
| `MisakaShare` | violation | finding 3 |
| `MemoryCow` | violation | finding 4 |
| `MemoryTrim` | violation | finding 5 |
| `MemoryRace` | violation | finding 6 |
| `MemoryHole` | violation | finding 7 |

### Bounds, and why they are enough

* `EsperSafety`: 2 cores, 3 slots, up to 4 processes over a behaviour. Double
  claims and stale slots need two cores, one contended slot and one other process;
  a slot is reused once its process was reaped, and taken from a zombie when the table is
  full, which needs more processes than slots (2 slots with 3, 3 slots with 4).
  The setups split the operations into five groups whose state spaces add up instead of
  multiplying. `TypeOK`, `SingleClaim`, `ClaimsAgree`, `NoDoubleExecution` and
  `SlotStable` are also proved for all values.
* `EsperLive`: 2 cores, 3 slots, 3 processes: more processes than cores, and a scan order that
  can pass one over.
* `MisakaDemos`: 6 Sisters (shell, two idle, three workers), the largest demo's
  need; a ring of 2 messages wraps; rings of 2 waiters hold all the demos' waiters.
  `MaxPermits` = 2 = `Capacity`: only the `relay` semaphore could bank more, and its
  consumer distinguishes only zero and non-zero. `Modulus` 3 exceeds the ring by one,
  so a lost or repeated message shows.
* `MemoryFlat`, `MemoryCalls`: 3 pages of 2 bytes (a cut has a page on either side, a
  segment can start inside a page), 2 spaces of 2 threads (one is inside mmap while the
  other calls, faults or forks), 3 areas, and at most 3 segments and calls besides faults
  and writes. `MemoryCalls` has 3 frames (93 thousand distinct states); `MemoryFlat`, whose
  refinement is the costliest to evaluate, has 2, so that a copy on write and running out
  of pages both happen (54 thousand). Every page is faulted in; programs write one
  address, in the middle page, which every area can cover. Three areas are all that three
  pages need, so the full table is not reached by a split (see the hazard at
  `personal_reality_v2.cpp:812`). Spaces, threads and frames are interchangeable, hence
  the symmetry.

Deadlock is not checked for `EsperScheduler` (all processes may die) and
`PersonalReality` (the number of calls is bounded).

### Fairness

* `EsperScheduler`: weak fairness of the steps a core takes inside the kernel,
  where it waits for nothing but `g_esper_lock`; strong fairness of each core's tick,
  because the timer interrupt stays pending while a system call masks it and is
  taken at the next EL0 instruction. No process is assumed to call, exit or be woken.
* `MisakaNetwork`: secondaries come up (the shell waits for them);
  every deadline passes (the beat is periodic on every core); a Sister that is given a core
  again and again executes, because a beat is far longer than an operation.

## 4. Findings

1. `EsperRevive`: `esper_park_and_pick_locked` (`esper.cpp:607`) parks an Esper without the
   test that `esper_park_and_pick` makes and explains (`esper.cpp:425-428`). In the run an
   Esper is killed between another core's claim of it and its entry to user mode; the core
   enters it all the same, and its next sleep on a pipe turns the exited process into a
   waiting one. A kill that lands inside the pipe, futex or sigsuspend call does the same.
2. `EsperVfork`: exit_group never wakes VforkDone (`usermode.cpp:3586`), although
   the contract quoted at `usermode.cpp:1798-1799` says that a child's exit does.
3. `MisakaShare`: "round-robin among equals" (`misaka_network.cpp:48-50`) does not hold on one core:
   the scan after each of the shell's sleeps starts at slot 1, so the first worker gets every tick.
4. `MemoryCow`: `pr2_mprotect` (`personal_reality_v2.cpp:845`) makes a page shared since
   fork writable; later writes show in both processes, which `pr2_handle_fault`'s comment
   (919-922) excludes. In the run a page of a writable segment is faulted in and shared by
   fork, and mprotect grants the permission that its area has anyway.
5. `MemoryTrim`: cutting the head off a segment that starts inside a page moves the file
   offset by the padding too (`personal_reality_v2.cpp:719`), against the comment at 717-718.
6. `MemoryRace`: mmap reads and moves `mmap_next` without a lock (`linux_abi.cpp:2147`,
   2186-2187) and adds its area in between. Two threads that call it at once get the same
   address and overlapping areas, where the comments (2103-2104, 2183-2185) promise a fresh one.
7. `MemoryHole`: the comment above `pr2_remove_vma_range` (`personal_reality_v2.cpp:688-691`)
   says that an area with a hole in its middle loses its tail; the code (727-759) keeps it.

Further behaviours TLC confirmed while the models were built are hazards with a note:
the vfork fallback that takes a core back in a second critical section (hence
`fellBack`), kill's test for a parent in wait4, the Index ABI's wait in several sections, the full
area table, and the risky memory calls of section 2 that are not findings.

## 5. Proofs

`EsperSchedulerProofs` is checked by `tlapm EsperSchedulerProofs.tla`. It assumes only
`SchedulerAssumption`: there are positively many slots, cores and pids, and the setups are
records of the declared shape. The theorems hold for every such value:

| Theorem | Statement |
|---|---|
| `Inductive` | `Spec => []IInv` |
| `TypeCorrect` | `Spec => []TypeOK` |
| `ClaimsAreSingle` | `Spec => []SingleClaim`: no Esper is in two run slots |
| `ClaimsMatchTable` | `Spec => []ClaimsAgree`: running means claimed, ready or waiting means unclaimed |
| `MutualExclusion` | `Spec => []NoDoubleExecution`: two cores never execute one Esper |
| `LoadedSlotsAreStable` | `Spec => []SlotStable`: a slot is not reused while loaded |

The argument. None of the last four is inductive. `NoDoubleExecution` is about `active`, what cores
have loaded, while picks only look at `running`, so the two must be tied:
`Placed` says that a core in an executing mode has `running = active`, that a core that has
picked holds exactly what it picked, and that the slot it is building has a pid.
`SingleClaim` needs `ClaimsAgree` (a pick takes a ready slot, which must be nobody's), and that
needs the third conjunct of `Claimed`: a core that goes to pick without
an Esper (modes loop, leave, gone) does not still name a *running* one in its run slot, or
overwriting the slot would leave a running Esper without a core.
`IInv == TypeOK /\ Placed /\ Claimed`. The lemmas `TypeStep`, `PlacedStep` and `ClaimedStep`
prove one part each, with one step per action; `SpaceType`, `PickType`, `PickAgree`, `ParkClaimed`
and `GentleClaimed` are the facts about the helpers they share. "Gentle" steps are those
that only move unclaimed slots or kill.

`Claimed` and the three properties that rest on it are conditional on `~fellBack`: after
`linux_clone`'s fallback they are false of the code (a hazard, above).
`SlotStable` and `TypeOK` are unconditional.

Only model-checked: liveness (`ReadyRuns`, `LockIsGranted`), which is out of the prover's
reach; `NoMissedReap`, `WaitpidExact`, `NoRevive`, `ReapedOnce`; all of `MisakaNetwork` and
`PersonalReality`, with their refinements `MailboxIsFIFO` and `MemoryIsFlat`
(the latter's area arithmetic folds over sequences, which needs induction over data).

## 6. Not modelled

Every component left out is in `PROJECT.json` with its reason. In short: device registers,
boot-time code and text formatting change no state that the properties see; spinlocks are
taken as atomic sections; the parts marked "planned" are below.

## 7. Plan

In order of the damage a mistake there would do:

1. *Space lifetime across cores*: `reality_ref`/`reality_unref`, the active-space barrier, `load_ctx`
   against `run_one_esper` (`personal_reality_v2.cpp:339-428`), composed with the scheduler's modes.
2. *Aiwass pipes* with the test, the park and the wake-up in their real sections, on top of
   the scheduler's park and wake; abstract specification: a bounded byte queue with end counts.
   Sister Relay and Imaginary Number Channels follow the same pattern.
3. *Descriptors*: tables, dup, fork, close on exec, and the reference counts of every back end
   (pipes, sockets, eventfd, epoll, timerfd, signalfd, inotify).
4. *Futex, signals, ptrace*: word check and park, pending masks and handler frames, tracees.
5. *TCP* (`antenna.cpp`): two ends over a wire that loses, duplicates and reorders; the single
   retransmission slot; abstract specification: two reliable byte streams.
6. *virtio*: one request in flight, a completion after the polling loop gave up.
7. *ext2, Lateran, Testament*: separate metadata writes with a crash between any two; an
   abstract file system both back ends implement.
8. *Dark Matter and Tree Diagram* against reference definitions; *DHCP and DNS* retries.

Further theorems: `RunningIsCurrent` and `MutualExclusion` for `MisakaNetwork`; `RefsExact`
and `SharedIsReadOnly` for `PersonalReality`; `NoMissedReap` for the scheduler; the invariants of the
modules above, which keep recursion out of what is to be proved.
