---------------------------- MODULE MisakaNetwork ----------------------------
(***************************************************************************)
(* The kernel-thread scheduler and what is built on its block/unblock      *)
(* queue: src/index/misaka_network.cpp, imprimatur.cpp (semaphores),       *)
(* judgement.cpp (mutexes with priority inheritance, "Level Upper") and    *)
(* radio_noise.cpp (mailboxes).  Threads are called Sisters; every section *)
(* under g_sched_lock is one step, the context switch at its end included, *)
(* because the lock is handed over to the context that is switched to.     *)
(* A Sister runs one of the entry functions of misaka_network.cpp, written *)
(* as a sequence of the operations it performs.                            *)
(***************************************************************************)
EXTENDS Integers, Sequences, FiniteSets

CONSTANTS
    NSisters,       \* kMaxSisters
    NCpus,          \* kMaxCpus
    MaxWaiters,     \* kImprimaturMaxWaiters = kJudgementMaxWaiters
    Capacity,       \* kRadioNoiseCapacity
    MaxPermits,     \* bound: a post that would bank more permits is not taken
    Modulus,        \* bound: counters and sequence numbers are kept modulo this
    Workloads       \* the combinations of demos and cores considered

Sisters == 0 .. NSisters - 1
Cpus == 0 .. NCpus - 1
NoSister == -1

Sems == {"relay", "free_slots", "filled_slots"}
Locks == {"crit", "pi", "mutex"}

-----------------------------------------------------------------------------
(* The entry functions.                                                     *)

Op(o, x) == [o |-> o, x |-> x]
Sleep == Op("sleep", "")
Spin == Op("spin", "")

IdleEntry == <<Spin>>
WorkerEntry == <<Spin>>
BusyEntry == <<Spin>>
SleeperEntry == <<Sleep>>
NamedEntry == <<Op("yield", ""), Op("finish", "")>>
ProducerEntry == <<Sleep, Op("post", "relay")>>
ConsumerEntry == <<Op("wait", "relay")>>
CriticalEntry == <<Op("lock", "crit"), Op("read", ""), Op("write", ""),
                   Op("unlock", "crit"), Sleep>>
PiLowEntry == <<Op("lock", "pi"), Spin, Op("unlock", "pi")>>
PiMidEntry == <<Sleep, Spin>>
PiHighEntry == <<Sleep, Op("lock", "pi"), Op("unlock", "pi")>>
RadioNoiseSend == <<Op("wait", "free_slots"), Op("lock", "mutex"), Op("put", ""),
                    Op("unlock", "mutex"), Op("post", "filled_slots")>>
RadioNoiseRecv == <<Op("wait", "filled_slots"), Op("lock", "mutex"), Op("get", ""),
                    Op("unlock", "mutex"), Op("post", "free_slots")>>

Entries == [idle |-> IdleEntry, worker |-> WorkerEntry, lv4_high |-> BusyEntry,
            lv2_low |-> BusyEntry, sleeper |-> SleeperEntry, named |-> NamedEntry,
            producer |-> ProducerEntry, consumer |-> ConsumerEntry,
            judge |-> CriticalEntry, pi_low |-> PiLowEntry, pi_mid |-> PiMidEntry,
            pi_high |-> PiHighEntry, rn_send |-> RadioNoiseSend \o <<Sleep>>,
            rn_recv |-> RadioNoiseRecv \o <<Sleep>>]
Programs == DOMAIN Entries
Program(p) == Entries[p]

\* The Levels that the spawn functions give them.
SpawnLevel(p) ==
    CASE p = "idle" -> 0
      [] p = "pi_low" -> 1
      [] p = "pi_mid" -> 3
      [] p \in {"pi_high", "lv4_high"} -> 4
      [] OTHER -> 2
Levels == 0 .. 5
kLevelIdle == 0
kLevelShell == 5

\* The spawn functions: what each starts, in one critical section.  Those that
\* start a pair or a triple do so once, whatever the shell asks.
Commands == [demo |-> <<"worker">>, sleeper |-> <<"sleeper">>, named |-> <<"named">>,
             levels |-> <<"lv4_high", "lv2_low">>, judgement |-> <<"judge", "judge">>,
             priority_inversion |-> <<"pi_low", "pi_mid", "pi_high">>,
             radio |-> <<"rn_send", "rn_recv">>, prodcons |-> <<"producer", "consumer">>]
Repeatable == {"demo", "sleeper", "named"}

(***************************************************************************)
(* A workload: how many cores come up, and which commands the shell runs,  *)
(* in order.  Sister 0 is the shell itself ("main").                       *)
(***************************************************************************)
ASSUME NetworkAssumption ==
    /\ NSisters \in Nat \ {0, 1}
    /\ NCpus \in Nat \ {0}
    /\ MaxWaiters \in Nat \ {0}
    /\ Capacity \in Nat \ {0}
    /\ MaxPermits \in Nat
    /\ Modulus \in Nat \ {0}
    /\ Workloads \subseteq [cores : 1 .. NCpus, spawns : Seq(DOMAIN Commands)]
    /\ \A w \in Workloads : \A i, j \in DOMAIN w.spawns :
         w.spawns[i] = w.spawns[j] /\ i # j => w.spawns[i] \in Repeatable

VARIABLES
    load,       \* the workload of this behaviour, never changed
    state,      \* Sister::state
    prog,       \* the entry function of a Sister
    pc,         \* the operation it is at
    level,      \* Sister::level, the effective one
    base,       \* Sister::base_level
    online,     \* PerCpu::online
    current,    \* PerCpu::current
    spawned,    \* how many of load.spawns the shell has run
    permits, semQueue,          \* Imprimatur: permits and the waiters ring
    owner, lockQueue,           \* Judgement: owner (NoSister: not held), waiters
    shared, local, total,       \* g_shared, a Sister's copy; history: the updates made
    buffer, head, tail, seq,    \* RadioNoise: ring and indices; the sender's counter
    fill, last                  \* history: unread messages, the last one read

schedVars == <<load, state, prog, pc, level, base, online, current, spawned>>
syncVars == <<permits, semQueue, owner, lockQueue>>
dataVars == <<shared, local, total, buffer, head, tail, seq, fill, last>>
vars == <<schedVars, syncVars, dataVars>>

\* misaka_network_init: the shell runs on core 0, its idle Sister is ready.
Init ==
    /\ load \in Workloads
    /\ state = [s \in Sisters |-> IF s = 0 THEN "running"
                                  ELSE IF s = 1 THEN "ready" ELSE "free"]
    /\ prog = [s \in Sisters |-> IF s = 0 THEN "main" ELSE "idle"]
    /\ pc = [s \in Sisters |-> 1]
    /\ base = [s \in Sisters |-> IF s = 0 THEN kLevelShell ELSE kLevelIdle]
    /\ level = base
    /\ online = [c \in Cpus |-> c = 0]
    /\ current = [c \in Cpus |-> 0]
    /\ spawned = 0
    /\ permits = [x \in Sems |-> IF x = "free_slots" THEN Capacity ELSE 0]
    /\ semQueue = [x \in Sems |-> <<>>]
    /\ owner = [x \in Locks |-> NoSister]
    /\ lockQueue = [x \in Locks |-> <<>>]
    /\ shared = 0 /\ total = 0 /\ local = [s \in Sisters |-> 0]
    /\ buffer = [i \in 0 .. Capacity - 1 |-> 0]
    /\ head = 0 /\ tail = 0 /\ seq = 0 /\ fill = 0 /\ last = 0

-----------------------------------------------------------------------------
(* The scheduler, under g_sched_lock.                                       *)

ReadySet(st) == {s \in Sisters : st[s] = "ready"}
Best(st, lv) == {s \in ReadySet(st) : \A t \in ReadySet(st) : lv[t] <= lv[s]}
Distance(from, s) == (s - from - 1) % NSisters
\* The highest Level wins, round robin among equals; "from" if nobody is ready.
PickNext(from, st, lv) ==
    IF ReadySet(st) = {} THEN from
    ELSE CHOOSE s \in Best(st, lv) :
             \A t \in Best(st, lv) : Distance(from, s) <= Distance(from, t)

\* Fault: the Sister that is switched to stays in the ready set.
SwitchAwayUnmarked(c, st, lv) ==
    /\ state' = st
    /\ current' = [current EXCEPT ![c] = PickNext(current[c], st, lv)]
\* switch_to(pick_next(cur)), entered with the states st and levels lv.
SwitchAway(c, st, lv) ==
    LET next == PickNext(current[c], st, lv) IN
    /\ state' = [st EXCEPT ![next] = "running"]
    /\ current' = [current EXCEPT ![c] = next]

\* unblock_locked.
Unblock(st, s) == IF st[s] = "blocked" THEN [st EXCEPT ![s] = "ready"] ELSE st

Sleeping == {s \in Sisters : state[s] = "sleeping"}
Shell == 0

\* The timer beat: wake_due_sleepers, then resched.  Which deadlines have passed
\* is left open, except that the boot core's beat advances the clock by one and
\* the shell sleeps for one tick, so that beat always finds it due.
Tick(c) ==
    /\ online[c]
    /\ \E due \in SUBSET Sleeping :
         LET woken == [s \in Sisters |-> IF s \in due THEN "ready" ELSE state[s]] IN
         /\ c = 0 /\ Shell \in Sleeping => Shell \in due
         /\ SwitchAway(c, [woken EXCEPT ![current[c]] = "ready"], level)
    /\ UNCHANGED <<load, prog, pc, level, base, online, spawned>>
    /\ UNCHANGED <<syncVars, dataVars>>

FreeSlots == {s \in Sisters : state[s] = "free"}
AllocSlot(s) == s \in FreeSlots /\ \A t \in FreeSlots : s <= t

\* become_idle: a secondary core turns its boot context into its idle Sister.
BecomeIdle(c) ==
    /\ c < load.cores /\ ~online[c]
    /\ \E s \in Sisters :
         /\ AllocSlot(s)
         /\ state' = [state EXCEPT ![s] = "running"]
         /\ prog' = [prog EXCEPT ![s] = "idle"]
         /\ pc' = [pc EXCEPT ![s] = 1]
         /\ level' = [level EXCEPT ![s] = kLevelIdle]
         /\ base' = [base EXCEPT ![s] = kLevelIdle]
         /\ current' = [current EXCEPT ![c] = s]
    /\ online' = [online EXCEPT ![c] = TRUE]
    /\ UNCHANGED <<load, spawned, syncVars, dataVars>>

\* The shell runs once bring_up_secondaries has seen every core online.  A command
\* takes the first free slots, as many as there are (but all three or none for
\* priority_inversion); the shell sleeps between two commands.
Rank(s) == Cardinality({t \in FreeSlots : t <= s})
Taken(cmd) ==
    IF cmd = "priority_inversion" /\ Cardinality(FreeSlots) < 3 THEN {}
    ELSE {s \in FreeSlots : Rank(s) <= Len(Commands[cmd])}
Spawn(c) ==
    /\ online[c] /\ current[c] = 0
    /\ spawned < Len(load.spawns)
    /\ \A d \in Cpus : d < load.cores => online[d]
    /\ LET cmd == load.spawns[spawned + 1]
           new == Taken(cmd)
           entry(s) == Commands[cmd][Rank(s)]
       IN
       /\ state' = [s \in Sisters |-> IF s \in new THEN "ready" ELSE state[s]]
       /\ prog' = [s \in Sisters |-> IF s \in new THEN entry(s) ELSE prog[s]]
       /\ pc' = [s \in Sisters |-> IF s \in new THEN 1 ELSE pc[s]]
       /\ level' = [s \in Sisters |-> IF s \in new THEN SpawnLevel(entry(s)) ELSE level[s]]
       /\ base' = [s \in Sisters |-> IF s \in new THEN SpawnLevel(entry(s)) ELSE base[s]]
    /\ spawned' = spawned + 1
    /\ UNCHANGED <<load, online, current, syncVars, dataVars>>

ShellSleeps(c) ==
    /\ online[c] /\ current[c] = 0
    /\ \A d \in Cpus : d < load.cores => online[d]
    /\ SwitchAway(c, [state EXCEPT ![0] = "sleeping"], level)
    /\ UNCHANGED <<load, prog, pc, level, base, online, spawned, syncVars, dataVars>>

-----------------------------------------------------------------------------
(* One operation of the Sister that runs on core c.                         *)

At(c, o, x) ==
    /\ online[c] /\ prog[current[c]] # "main"
    /\ Program(prog[current[c]])[pc[current[c]]] = Op(o, x)
\* Entry functions loop; the sleep before PiMidEntry's loop is taken once.
Advance(s) ==
    pc' = [pc EXCEPT ![s] = IF @ < Len(Program(prog[s])) THEN @ + 1
                            ELSE IF prog[s] = "pi_mid" THEN @ ELSE 1]
UnchangedSisters == UNCHANGED <<load, prog, base, online, spawned>>

SpinStep(c) ==
    LET s == current[c] IN
    /\ At(c, "spin", "") /\ Advance(s)
    /\ UNCHANGED <<state, level, current, syncVars, dataVars>> /\ UnchangedSisters

\* misaka_network_yield, misaka_network_sleep and sister_finish.
YieldStep(c) ==
    LET s == current[c] IN
    /\ At(c, "yield", "") /\ Advance(s)
    /\ SwitchAway(c, [state EXCEPT ![s] = "ready"], level)
    /\ UNCHANGED <<level, syncVars, dataVars>> /\ UnchangedSisters

SleepStep(c) ==
    LET s == current[c] IN
    /\ At(c, "sleep", "") /\ Advance(s)
    /\ SwitchAway(c, [state EXCEPT ![s] = "sleeping"], level)
    /\ UNCHANGED <<level, syncVars, dataVars>> /\ UnchangedSisters

Finish(c) ==
    LET s == current[c] IN
    /\ At(c, "finish", "")
    /\ SwitchAway(c, [state EXCEPT ![s] = "dead"], level)
    /\ UNCHANGED <<pc, level, syncVars, dataVars>> /\ UnchangedSisters

\* Fault: the waiter blocks and is not queued.
EnqueueNot(q, s) == q
\* The waiters rings drop an entry when they are full.
Enqueue(q, s) == IF Len(q) >= MaxWaiters THEN q ELSE Append(q, s)

\* imprimatur_wait: a waiter that blocks resumes holding the permit.
ImprimaturWait(c, x) ==
    LET s == current[c] IN
    /\ At(c, "wait", x) /\ Advance(s)
    /\ \/ /\ permits[x] > 0
          /\ permits' = [permits EXCEPT ![x] = @ - 1]
          /\ UNCHANGED <<semQueue, state, current>>
       \/ /\ permits[x] <= 0
          /\ semQueue' = [semQueue EXCEPT ![x] = Enqueue(@, s)]
          /\ SwitchAway(c, [state EXCEPT ![s] = "blocked"], level)
          /\ UNCHANGED permits
    /\ UNCHANGED <<level, owner, lockQueue, dataVars>> /\ UnchangedSisters

\* Fault: the permit is banked as well as handed over.
ImprimaturPostTwice(c, x) ==
    LET s == current[c] IN
    /\ At(c, "post", x) /\ Advance(s)
    /\ permits[x] < MaxPermits
    /\ permits' = [permits EXCEPT ![x] = @ + 1]
    /\ \/ /\ semQueue[x] # <<>>
          /\ state' = Unblock(state, Head(semQueue[x]))
          /\ semQueue' = [semQueue EXCEPT ![x] = Tail(@)]
       \/ semQueue[x] = <<>> /\ UNCHANGED <<semQueue, state>>
    /\ UNCHANGED <<current, level, owner, lockQueue, dataVars>> /\ UnchangedSisters
\* imprimatur_post: hand the permit over, or bank it.
ImprimaturPost(c, x) ==
    LET s == current[c] IN
    /\ At(c, "post", x) /\ Advance(s)
    /\ \/ /\ semQueue[x] # <<>>
          /\ state' = Unblock(state, Head(semQueue[x]))
          /\ semQueue' = [semQueue EXCEPT ![x] = Tail(@)]
          /\ UNCHANGED permits
       \/ /\ semQueue[x] = <<>>
          /\ permits[x] < MaxPermits
          /\ permits' = [permits EXCEPT ![x] = @ + 1]
          /\ UNCHANGED <<semQueue, state>>
    /\ UNCHANGED <<current, level, owner, lockQueue, dataVars>> /\ UnchangedSisters

\* Fault: no priority inheritance.
LevelUpperNot(lv, s, to) == lv
\* level_upper: lend the waiter's Level to the holder.
LevelUpper(lv, s, to) == IF to > lv[s] THEN [lv EXCEPT ![s] = to] ELSE lv
\* Fault: the boost is never dropped.
LevelRestoreNot(s) == level
LevelRestore(s) == [level EXCEPT ![s] = base[s]]

\* judgement_lock: a waiter that blocks resumes owning the lock.
JudgementLock(c, x) ==
    LET s == current[c] IN
    /\ At(c, "lock", x) /\ Advance(s)
    /\ \/ /\ owner[x] = NoSister
          /\ owner' = [owner EXCEPT ![x] = s]
          /\ UNCHANGED <<lockQueue, level, state, current>>
       \/ /\ owner[x] # NoSister
          /\ level' = LevelUpper(level, owner[x], level[s])
          /\ lockQueue' = [lockQueue EXCEPT ![x] = Enqueue(@, s)]
          /\ SwitchAway(c, [state EXCEPT ![s] = "blocked"], level')
          /\ UNCHANGED owner
    /\ UNCHANGED <<permits, semQueue, dataVars>> /\ UnchangedSisters

\* Fault: the lock is freed before the next waiter is woken to take it.
JudgementUnlockReleases(c, x) ==
    LET s == current[c] IN
    /\ At(c, "unlock", x) /\ Advance(s)
    /\ level' = LevelRestore(s)
    /\ owner' = [owner EXCEPT ![x] = NoSister]
    /\ \/ /\ lockQueue[x] # <<>>
          /\ lockQueue' = [lockQueue EXCEPT ![x] = Tail(@)]
          /\ state' = Unblock(state, Head(lockQueue[x]))
       \/ lockQueue[x] = <<>> /\ UNCHANGED <<lockQueue, state>>
    /\ UNCHANGED <<current, permits, semQueue, dataVars>> /\ UnchangedSisters
\* judgement_unlock: drop the boost, hand the lock over or free it.  Only the
\* owner may unlock.
JudgementUnlock(c, x) ==
    LET s == current[c] IN
    /\ At(c, "unlock", x) /\ Advance(s)
    /\ \/ /\ owner[x] # s
          /\ UNCHANGED <<level, owner, lockQueue, state>>
       \/ /\ owner[x] = s
          /\ level' = LevelRestore(s)
          /\ \/ /\ lockQueue[x] # <<>>
                /\ owner' = [owner EXCEPT ![x] = Head(lockQueue[x])]
                /\ lockQueue' = [lockQueue EXCEPT ![x] = Tail(@)]
                /\ state' = Unblock(state, Head(lockQueue[x]))
             \/ /\ lockQueue[x] = <<>>
                /\ owner' = [owner EXCEPT ![x] = NoSister]
                /\ UNCHANGED <<lockQueue, state>>
    /\ UNCHANGED <<current, permits, semQueue, dataVars>> /\ UnchangedSisters

\* critical_entry: the read and the write of the shared counter.
ReadShared(c) ==
    LET s == current[c] IN
    /\ At(c, "read", "") /\ Advance(s)
    /\ local' = [local EXCEPT ![s] = shared]
    /\ UNCHANGED <<shared, total, buffer, head, tail, seq, fill, last>>
    /\ UNCHANGED <<state, level, current, syncVars>> /\ UnchangedSisters

WriteShared(c) ==
    LET s == current[c] IN
    /\ At(c, "write", "") /\ Advance(s)
    /\ shared' = (local[s] + 1) % Modulus
    /\ total' = (total + 1) % Modulus
    /\ local' = [local EXCEPT ![s] = 0]
    /\ UNCHANGED <<buffer, head, tail, seq, fill, last>>
    /\ UNCHANGED <<state, level, current, syncVars>> /\ UnchangedSisters

\* Fault: the read index runs past the ring.
GetNoWrap(c) ==
    LET s == current[c] IN
    /\ At(c, "get", "") /\ Advance(s)
    /\ last' = buffer[head]
    /\ head' = head + 1
    /\ fill' = fill - 1
    /\ UNCHANGED <<shared, local, total, buffer, tail, seq>>
    /\ UNCHANGED <<state, level, current, syncVars>> /\ UnchangedSisters
\* radio_noise_send and radio_noise_recv between lock and unlock.
Put(c) ==
    LET s == current[c] IN
    /\ At(c, "put", "") /\ Advance(s)
    /\ buffer' = [buffer EXCEPT ![tail] = seq]
    /\ tail' = (tail + 1) % Capacity
    /\ seq' = (seq + 1) % Modulus
    /\ fill' = fill + 1
    /\ UNCHANGED <<shared, local, total, head, last>>
    /\ UNCHANGED <<state, level, current, syncVars>> /\ UnchangedSisters

Get(c) ==
    LET s == current[c] IN
    /\ At(c, "get", "") /\ Advance(s)
    /\ last' = buffer[head]
    /\ head' = (head + 1) % Capacity
    /\ fill' = fill - 1
    /\ UNCHANGED <<shared, local, total, buffer, tail, seq>>
    /\ UNCHANGED <<state, level, current, syncVars>> /\ UnchangedSisters

SisterStep(c) ==
    \/ Spawn(c) \/ ShellSleeps(c)
    \/ SpinStep(c) \/ YieldStep(c) \/ SleepStep(c) \/ Finish(c)
    \/ ReadShared(c) \/ WriteShared(c) \/ Put(c) \/ Get(c)
    \/ \E x \in Sems : ImprimaturWait(c, x) \/ ImprimaturPost(c, x)
    \/ \E x \in Locks : JudgementLock(c, x) \/ JudgementUnlock(c, x)

Next == \E c \in Cpus : Tick(c) \/ BecomeIdle(c) \/ SisterStep(c)

Spec == Init /\ [][Next]_vars

(***************************************************************************)
(* Secondaries come up.  Every deadline passes, hence the beats that wake  *)
(* the sleepers come (last_order_init, last_order_arm_secondary).  A       *)
(* Sister that is given a core again and again executes: a beat is far     *)
(* longer than an operation.                                               *)
(***************************************************************************)
Executes(s) == \E c \in Cpus : current[c] = s /\ SisterStep(c)
Fairness ==
    /\ \A c \in Cpus : WF_vars(BecomeIdle(c))
    /\ \A s \in Sisters : SF_vars(Executes(s))
    /\ \A s \in Sisters : []<>(state[s] # "sleeping")
FairSpec == Spec /\ Fairness

-----------------------------------------------------------------------------
(* Properties.                                                              *)

\* Types: in particular head and tail stay inside the ring, levels in Lv0..Lv5.
TypeOK ==
    /\ load \in Workloads
    /\ state \in [Sisters -> {"free", "ready", "running", "sleeping", "blocked", "dead"}]
    /\ prog \in [Sisters -> Programs \cup {"main"}]
    /\ pc \in [Sisters -> Nat \ {0}]
    /\ level \in [Sisters -> Levels]
    /\ base \in [Sisters -> Levels]
    /\ online \in [Cpus -> BOOLEAN]
    /\ current \in [Cpus -> Sisters]
    /\ spawned \in Nat
    /\ permits \in [Sems -> Nat]
    /\ semQueue \in [Sems -> Seq(Sisters)]
    /\ owner \in [Locks -> Sisters \cup {NoSister}]
    /\ lockQueue \in [Locks -> Seq(Sisters)]
    /\ shared \in 0 .. Modulus - 1 /\ total \in 0 .. Modulus - 1
    /\ local \in [Sisters -> 0 .. Modulus - 1]
    /\ buffer \in [0 .. Capacity - 1 -> 0 .. Modulus - 1]
    /\ head \in 0 .. Capacity - 1 /\ tail \in 0 .. Capacity - 1
    /\ seq \in 0 .. Modulus - 1 /\ last \in 0 .. Modulus - 1
    /\ fill \in Int

\* A Sister is running exactly when it is the current one of an online core, and
\* of one only: the context a core saves on a switch is never one another core
\* is executing (pick_next's comment: running Sisters "are never picked by
\* another core").
RunningIsCurrent ==
    /\ \A c \in Cpus : online[c] => state[current[c]] = "running"
    /\ \A c, d \in Cpus : online[c] /\ online[d] /\ current[c] = current[d] => c = d
    /\ \A s \in Sisters : state[s] = "running" => \E c \in Cpus : online[c] /\ current[c] = s

Entered(s, x) ==
    /\ prog[s] # "main" /\ state[s] # "blocked"
    /\ \E i \in 1 .. pc[s] - 1 : Program(prog[s])[i] = Op("lock", x)
    /\ \E i \in pc[s] .. Len(Program(prog[s])) : Program(prog[s])[i] = Op("unlock", x)

\* Judgement excludes: a Sister that is past judgement_lock and has not reached
\* the end of judgement_unlock owns the lock, whether it took it free or was
\* handed it while it was blocked.
MutualExclusion == \A x \in Locks, s \in Sisters : Entered(s, x) => owner[x] = s

\* A blocked Sister is in exactly one waiters ring, once, and nobody else is in
\* one: no wake-up is lost and none goes to a Sister that does not wait.  (The
\* workloads have at most MaxWaiters waiters per ring; a full ring drops one.)
Ring(x) == IF x \in Sems THEN semQueue[x] ELSE lockQueue[x]
Places(s) == {p \in (Sems \cup Locks) \X (1 .. MaxWaiters) :
                p[2] <= Len(Ring(p[1])) /\ Ring(p[1])[p[2]] = s}
BlockedIsQueued ==
    \A s \in Sisters :
      Cardinality(Places(s)) = IF state[s] = "blocked" THEN 1 ELSE 0

\* A borrowed Level never outlives the lock it was lent for.
BoostOnlyForOwner ==
    \A s \in Sisters : level[s] # base[s] => \E x \in Locks : owner[x] = s

\* critical_entry's comment: "g_shared always equals the sum of both Sisters'
\* local work", at every point where no Sister is between its read and write.
AtWrite(s) == prog[s] = "judge" /\ pc[s] = 3
NoLostUpdate == (\A s \in Sisters : ~AtWrite(s)) => shared = total

\* The mailbox implements the bounded first-in first-out queue of module Mailbox:
\* the unread messages are the fill slots of the ring from head on.
Contents == [k \in 1 .. fill |-> buffer[(head + k - 1) % Capacity]]
FIFO == INSTANCE Mailbox WITH Messages <- 0 .. Modulus - 1, queue <- Contents
MailboxIsFIFO == FIFO!Spec

\* judgement_lock's promise: a Sister that waits for a lock gets it, even if a
\* Sister of a Level between its own and the holder's never leaves the core.
LockIsGranted ==
    \A s \in Sisters :
      prog[s] \in {"judge", "pi_high"} /\ state[s] = "blocked" ~> state[s] # "blocked"

\* misaka_network.cpp:49: "the scheduler always runs the highest-Level ready
\* Sister, round-robin among equals": Sisters of equal Level all get to run when
\* the only one above them is the shell, which sleeps between polls.
EqualsShare == \A s \in Sisters : prog[s] = "worker" /\ state[s] = "ready" ~> state[s] = "running"
===============================================================================
