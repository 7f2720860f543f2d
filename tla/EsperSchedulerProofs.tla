------------------------ MODULE EsperSchedulerProofs ------------------------
(***************************************************************************)
(* Proofs about the process scheduler, for any number of slots, cores and  *)
(* processes and any set of setups.  The inductive invariant has two parts.*)
(* Placed ties a core's place to its run slot, the Esper it has loaded and *)
(* the slot it is building; it holds in all behaviours.  Claimed says that *)
(* the process table and the run slots agree, and that a core that is not  *)
(* executing does not sit on a running Esper's claim (or its next pick     *)
(* would drop it); it holds until some core takes linux_clone's fallback.  *)
(***************************************************************************)
EXTENDS EsperScheduler, TLAPS

Unique(rn) ==
    \A c, d \in Cpus : c # d /\ rn[c] # None => rn[c] # rn[d]
Agree(st, rn) ==
    \A i \in Slots :
        /\ st[i] = "running" => \E c \in Cpus : rn[c] = i
        /\ st[i] \in {"ready", "waiting"} => \A c \in Cpus : rn[c] # i
IdleAt(c, st, rn) == rn[c] # None => st[rn[c]] # "running"
IdleModes == {"loop", "leave", "gone"}

PlacedAt(c) ==
    /\ mode[c] \in Executing => running[c] = active[c]
    /\ mode[c] \in Loaded => active[c] \in Slots /\ pid[active[c]] = execPid[c]
    /\ mode[c] \in {"picked", "switch"} => nxt[c] \in Slots /\ nxt[c] = running[c]
    /\ mode[c] \in {"fork", "cloned"} => nxt[c] \in Slots /\ pid[nxt[c]] \in Pids
Placed == \A c \in Cpus : PlacedAt(c)

Claimed ==
    ~fellBack => /\ Unique(running)
                 /\ Agree(state, running)
                 /\ \A c \in Cpus : mode[c] \in IdleModes => IdleAt(c, state, running)

IInv == TypeOK /\ Placed /\ Claimed

\* The part of the type invariant that a pick rewrites.
TableOK ==
    /\ state \in [Slots -> EsperState]
    /\ preds \in [Slots -> SUBSET WaitPredicates]
    /\ running \in [Cpus -> Slots \cup {None}]
    /\ mode \in [Cpus -> Modes]
    /\ nxt \in [Cpus -> Slots \cup {None}]

-----------------------------------------------------------------------------
(* Facts about the helpers.                                                 *)

\* The fields of a setup, as SchedulerAssumption declares them.
LEMMA SetupType ==
    ASSUME setup \in Setups
    PROVE  /\ setup.cores \in 1 .. NCpus
           /\ setup.pids \in 1 .. MaxPid
           /\ setup.kinds \subseteq WaitKinds
BY SchedulerAssumption

\* Every way a process is parked leaves a predicate of the right shape.
LEMMA PredicateType ==
    /\ \A k \in WaitKinds : Wait(k) \in WaitPredicates
    /\ \A p \in Pids : VforkDone(p) \in WaitPredicates
BY DEF WaitPredicates

\* The helpers that rewrite the table keep its type.
LEMMA TableType ==
    ASSUME NEW st \in [Slots -> EsperState],
           NEW pr \in [Slots -> SUBSET WaitPredicates],
           NEW S, NEW P, NEW i, NEW w \in WaitPredicates
    PROVE  /\ Ready(st, S) \in [Slots -> EsperState]
           /\ Forget(pr, S, P) \in [Slots -> SUBSET WaitPredicates]
           /\ SetIpc(pr, i, w) \in [Slots -> SUBSET WaitPredicates]
           /\ MakeReady(st, i) \in [Slots -> EsperState]
BY Zenon DEF Ready, Forget, SetIpc, MakeReady, EsperState

\* Clearing a run slot keeps the run slots' type.
LEMMA ClearType ==
    ASSUME NEW rn \in [Cpus -> Slots \cup {None}], NEW c \in Cpus, NEW i
    PROVE  ClearRunningSlot(rn, c, i) \in [Cpus -> Slots \cup {None}]
BY DEF ClearRunningSlot

\* pick_and_claim_locked keeps the types, and leaves the core with a claimed
\* slot or with none.
LEMMA PickType ==
    ASSUME TypeOK, NEW c \in Cpus, NEW after, NEW found \in Modes, NEW none \in Modes,
           NEW st \in [Slots -> EsperState],
           NEW pr \in [Slots -> SUBSET WaitPredicates],
           NEW rn \in [Cpus -> Slots \cup {None}],
           PickAndClaim(c, after, st, pr, rn, found, none)
    PROVE  /\ TableOK'
           /\ \A d \in Cpus \ {c} : /\ mode'[d] = mode[d] /\ nxt'[d] = nxt[d]
                                    /\ running'[d] = rn[d]
           /\ \/ mode'[c] = found /\ nxt'[c] \in Slots /\ running'[c] = nxt'[c]
              \/ mode'[c] = none /\ nxt'[c] = None /\ running'[c] = rn[c]
<1>1. PICK due \in SUBSET Sleepers(c, st, pr) :
        LET st1 == Ready(st, due)
            picks == PickNext(c, after, st1, rn)
        IN  /\ preds' = Forget(pr, due, {Wait("sleep")})
            /\ \/ \E n \in picks :
                    /\ state' = [st1 EXCEPT ![n] = "running"]
                    /\ running' = [rn EXCEPT ![c] = n]
                    /\ mode' = [mode EXCEPT ![c] = found]
                    /\ nxt' = [nxt EXCEPT ![c] = n]
               \/ /\ picks = {}
                  /\ state' = st1
                  /\ running' = rn
                  /\ mode' = [mode EXCEPT ![c] = none]
                  /\ nxt' = [nxt EXCEPT ![c] = None]
  BY DEF PickAndClaim
<1> DEFINE st1 == Ready(st, due)
           picks == PickNext(c, after, st1, rn)
<1>2. st1 \in [Slots -> EsperState]
  BY DEF Ready, EsperState
<1>3. picks \subseteq Slots
  BY DEF PickNext
<1>4. preds' \in [Slots -> SUBSET WaitPredicates]
  BY <1>1 DEF Forget
<1>5. "running" \in EsperState
  BY DEF EsperState
<1> HIDE DEF st1, picks
<1>6. CASE \E n \in picks :
             /\ state' = [st1 EXCEPT ![n] = "running"]
             /\ running' = [rn EXCEPT ![c] = n]
             /\ mode' = [mode EXCEPT ![c] = found]
             /\ nxt' = [nxt EXCEPT ![c] = n]
  BY <1>2, <1>3, <1>4, <1>5, <1>6 DEF TypeOK, TableOK
<1>7. CASE /\ state' = st1
           /\ running' = rn
           /\ mode' = [mode EXCEPT ![c] = none]
           /\ nxt' = [nxt EXCEPT ![c] = None]
  BY <1>2, <1>4, <1>7 DEF TypeOK, TableOK
<1> QED BY <1>1, <1>6, <1>7 DEF st1, picks

\* The same for the picks that end in load_ctx or leave_user.
LEMMA SwitchType ==
    ASSUME TypeOK, NEW c \in Cpus,
           NEW st \in [Slots -> EsperState],
           NEW pr \in [Slots -> SUBSET WaitPredicates],
           NEW rn \in [Cpus -> Slots \cup {None}],
           Switch(c, st, pr, rn)
    PROVE  /\ TableOK'
           /\ \A d \in Cpus \ {c} : /\ mode'[d] = mode[d] /\ nxt'[d] = nxt[d]
                                    /\ running'[d] = rn[d]
           /\ \/ mode'[c] = "switch" /\ nxt'[c] \in Slots /\ running'[c] = nxt'[c]
              \/ mode'[c] = "leave" /\ nxt'[c] = None /\ running'[c] = rn[c]
<1>1. "switch" \in Modes /\ "leave" \in Modes
  BY DEF Modes
<1> QED BY <1>1, PickType DEF Switch

\* What dying, being killed and being reaped make of the table.
LEMMA DeathType ==
    ASSUME TypeOK, NEW G, NEW i
    PROVE  /\ Dying(G) \in [Slots -> EsperState]
           /\ DyingPreds(G) \in [Slots -> SUBSET WaitPredicates]
           /\ Killed(i) \in [Slots -> EsperState]
           /\ KilledPreds(i) \in [Slots -> SUBSET WaitPredicates]
           /\ CountReaps(G) => reaped' \in [Pids -> 0 .. 2]
<1>1. Dying(G) \in [Slots -> EsperState] /\ Killed(i) \in [Slots -> EsperState]
  BY DEF TypeOK, Dying, Killed, EsperState
<1>2. /\ DyingPreds(G) \in [Slots -> SUBSET WaitPredicates]
      /\ KilledPreds(i) \in [Slots -> SUBSET WaitPredicates]
  BY Zenon DEF TypeOK, DyingPreds, KilledPreds, Forget
<1>3. CountReaps(G) => reaped' \in [Pids -> 0 .. 2]
  BY DEF TypeOK, CountReaps
<1> QED BY <1>1, <1>2, <1>3

\* Losing, getting and sharing address spaces keeps their types.
LEMMA SpaceType ==
    ASSUME TypeOK, NEW S, NEW i \in Slots, NEW j \in Slots,
           LoseMm(S) \/ OwnMm(i) \/ ShareMm(i, j)
    PROVE  mm' \in [Slots -> SUBSET Slots] /\ drop' \in [Cpus -> SUBSET Slots]
<1>1. CASE LoseMm(S)
  BY <1>1 DEF TypeOK, LoseMm
<1>2. CASE OwnMm(i)
  BY <1>2 DEF TypeOK, OwnMm
<1>3. CASE ShareMm(i, j)
  BY <1>3 DEF TypeOK, ShareMm
<1> QED BY <1>1, <1>2, <1>3

-----------------------------------------------------------------------------
(* The type invariant and the places of the cores.                          *)

\* No step changes the setup.
LEMMA SetupKept ==
    ASSUME Next
    PROVE  setup' = setup
<1>1. ASSUME NEW c \in Cpus,
             \/ TryRun(c) \/ RunOne(c) \/ LoadCtx(c) \/ LeaveUser(c) \/ ResumeCorrupt(c)
             \/ Preempt(c) \/ ForkFail(c)
      PROVE  setup' = setup
  BY <1>1 DEF TryRun, RunOne, LoadCtx, LeaveUser, ResumeCorrupt, Preempt, ForkFail,
              EnterUser, UnchangedIdentity
<1>1a. ASSUME NEW c \in Cpus,
              \/ SysWaitScan(c) \/ SysWaitCount(c) \/ SysWaitPark(c)
              \/ \E w \in 0 .. MaxPid : LinuxWait4(c, w)
       PROVE  setup' = setup
  <2>1. \A w : Reap(c, w) => setup' = setup
    BY DEF Reap, UnchangedIdentity
  <2> QED BY <1>1a, <2>1 DEF SysWaitScan, SysWaitCount, SysWaitPark, LinuxWait4, UnchangedIdentity
<1>2. ASSUME NEW c \in Cpus,
             \/ Create(c) \/ Publish(c) \/ \E thread \in BOOLEAN : Clone(c, thread)
             \/ VforkHandoff(c) \/ VforkFallback(c) \/ Exec(c)
             \/ \E n \in {1, setup.cores} : SetOnline(c, n)
      PROVE  setup' = setup
  BY <1>2 DEF Create, Publish, Clone, VforkHandoff, VforkFallback, Exec, SetOnline
<1>3. ASSUME NEW c \in Cpus,
             \/ ExitBegin(c) \/ ExitFinish(c) \/ GroupExit(c) \/ ReleaseGroup(c) \/ Fault(c)
             \/ KillSelf(c) \/ PickAfterKill(c)
      PROVE  setup' = setup
  BY <1>3 DEF ExitBegin, ExitFinish, GroupExit, ReleaseGroup, Fault, KillSelf,
              PickAfterKill, UnchangedIdentity
<1>4. ASSUME NEW c \in Cpus, CoreStep(c) PROVE setup' = setup
  <2>1. \A k \in setup.kinds : ParkChecked(c, Wait(k)) \/ ParkLocked(c, Wait(k))
                                  => setup' = setup
    BY DEF ParkChecked, ParkLocked, UnchangedIdentity
  <2> QED BY <1>1, <1>1a, <1>2, <1>3, <1>4, <2>1 DEF CoreStep
<1>5. ASSUME NEW i \in Slots, Kill(i) \/ Interrupt(i) PROVE setup' = setup
  BY <1>5 DEF Kill, Interrupt, UnchangedIdentity
<1>6. ASSUME NEW i \in Slots, NEW k, Wake(i, k) PROVE setup' = setup
  BY <1>6 DEF Wake, UnchangedIdentity
<1> QED BY <1>4, <1>5, <1>6 DEF Next

\* Every step keeps the type invariant.
LEMMA TypeStep ==
    ASSUME TypeOK, Placed, Next
    PROVE  TypeOK'
<1> USE SetupType, SchedulerAssumption
<1>0. setup' = setup
  BY SetupKept
<1>1. ASSUME NEW c \in Cpus, TryRun(c) PROVE TypeOK'
  <2>1. PickAndClaim(c, IF c = 0 THEN None ELSE running[c], state, preds, running,
                     "picked", "loop")
    BY <1>1 DEF TryRun
  <2>2. "picked" \in Modes /\ "loop" \in Modes
    BY DEF Modes
  <2>3. TableOK'
    BY <2>1, <2>2, PickType DEF TypeOK
  <2> QED BY <1>0, <1>1, <2>3 DEF TypeOK, TableOK, TryRun, UnchangedIdentity
<1>2. ASSUME NEW c \in Cpus, RunOne(c) \/ LoadCtx(c) PROVE TypeOK'
  <2>1. nxt[c] \in Slots
    BY <1>2 DEF Placed, PlacedAt, RunOne, LoadCtx
  <2>2. EnterUser(c)
    BY <1>2 DEF RunOne, LoadCtx
  <2>3. active' \in [Cpus -> Slots \cup {None}] /\ execPid' \in [Cpus -> 0 .. MaxPid]
    BY <2>1, <2>2 DEF TypeOK, EnterUser
  <2>4. mode' \in [Cpus -> Modes] /\ nxt' \in [Cpus -> Slots \cup {None}]
    BY <2>2 DEF TypeOK, EnterUser, Modes
  <2> QED BY Zenon, <1>0, <2>2, <2>3, <2>4 DEF TypeOK, EnterUser, UnchangedIdentity
<1>3. ASSUME NEW c \in Cpus, LeaveUser(c) PROVE TypeOK'
  BY <1>0, <1>3 DEF TypeOK, LeaveUser, UnchangedIdentity, Modes
<1>4. ASSUME NEW c \in Cpus, ResumeCorrupt(c) PROVE TypeOK'
  <2>1. nxt[c] \in Slots
    BY <1>4 DEF Placed, PlacedAt, ResumeCorrupt
  <2>2. running' \in [Cpus -> Slots \cup {None}]
    BY <1>4, ClearType DEF ResumeCorrupt, TypeOK
  <2>3. state' \in [Slots -> EsperState]
    BY Zenon, <1>4 DEF TypeOK, ResumeCorrupt, EsperState
  <2>4. active' \in [Cpus -> Slots \cup {None}]
    BY <1>4, <2>1 DEF TypeOK, ResumeCorrupt
  <2>5. mode' \in [Cpus -> Modes] /\ nxt' \in [Cpus -> Slots \cup {None}]
    BY <1>4 DEF TypeOK, ResumeCorrupt, Modes
  <2>6. mm' \in [Slots -> SUBSET Slots] /\ drop' \in [Cpus -> SUBSET Slots]
    BY <1>4, <2>1, SpaceType DEF ResumeCorrupt
  <2> QED BY <1>0, <1>4, <2>2, <2>3, <2>4, <2>5, <2>6 DEF TypeOK, ResumeCorrupt
<1>5. ASSUME NEW c \in Cpus, Preempt(c) PROVE TypeOK'
  <2> DEFINE cur == running[c]
  <2>1. PICK due \in SUBSET Sleepers(c, state, preds) :
          LET st1 == Ready(state, due)
              picks == PickNext(c, cur, st1, running) \ {cur}
          IN  /\ preds' = Forget(preds, due, {Wait("sleep")})
              /\ \/ \E n \in picks :
                      /\ state' = [i \in Slots |->
                                     IF i = n THEN "running"
                                     ELSE IF i = cur /\ st1[i] = "running" THEN "ready"
                                     ELSE st1[i]]
                      /\ running' = [running EXCEPT ![c] = n]
                      /\ mode' = [mode EXCEPT ![c] = "switch"]
                      /\ nxt' = [nxt EXCEPT ![c] = n]
                 \/ /\ picks = {}
                    /\ state' = st1
                    /\ UNCHANGED <<running, mode, nxt>>
    BY <1>5 DEF Preempt
  <2>2. Ready(state, due) \in [Slots -> EsperState]
    BY DEF TypeOK, Ready, EsperState
  <2>3. preds' \in [Slots -> SUBSET WaitPredicates]
    BY <2>1 DEF TypeOK, Forget
  <2>4. PickNext(c, cur, Ready(state, due), running) \subseteq Slots
    BY DEF PickNext
  <2>5. /\ state' \in [Slots -> EsperState]
        /\ running' \in [Cpus -> Slots \cup {None}]
        /\ mode' \in [Cpus -> Modes]
        /\ nxt' \in [Cpus -> Slots \cup {None}]
    <3>1. CASE state' = Ready(state, due) /\ UNCHANGED <<running, mode, nxt>>
      BY <2>2, <3>1 DEF TypeOK
    <3>2. ASSUME NEW n \in Slots,
                 state' = [i \in Slots |->
                             IF i = n THEN "running"
                             ELSE IF i = cur /\ Ready(state, due)[i] = "running" THEN "ready"
                             ELSE Ready(state, due)[i]],
                 running' = [running EXCEPT ![c] = n],
                 mode' = [mode EXCEPT ![c] = "switch"],
                 nxt' = [nxt EXCEPT ![c] = n]
          PROVE  /\ state' \in [Slots -> EsperState]
                 /\ running' \in [Cpus -> Slots \cup {None}]
                 /\ mode' \in [Cpus -> Modes]
                 /\ nxt' \in [Cpus -> Slots \cup {None}]
      <4>1. state' \in [Slots -> EsperState]
        BY <2>2, <3>2 DEF EsperState
      <4>2. mode' \in [Cpus -> Modes]
        BY <3>2 DEF TypeOK, Modes
      <4> QED BY <3>2, <4>1, <4>2 DEF TypeOK
    <3> QED BY Zenon, <2>1, <2>4, <3>1, <3>2
  <2> QED BY Zenon, <1>0, <1>5, <2>3, <2>5 DEF TypeOK, Preempt, UnchangedIdentity
<1>6. ASSUME NEW c \in Cpus, NEW k \in setup.kinds,
             ParkChecked(c, Wait(k)) \/ ParkLocked(c, Wait(k))
      PROVE  TypeOK'
  <2> DEFINE cur == running[c]
             pr == IF Wait(k) = Wait("ipc") THEN SetIpc(preds, cur, Wait(k))
                   ELSE [preds EXCEPT ![cur] = @ \cup {Wait(k)}]
  <2>1. Wait(k) \in WaitPredicates
    BY PredicateType DEF TypeOK
  <2>2. pr \in [Slots -> SUBSET WaitPredicates]
    BY ZenonT(30), <2>1, TableType DEF TypeOK
  <2>3. [state EXCEPT ![cur] = "waiting"] \in [Slots -> EsperState]
    BY Zenon DEF TypeOK, EsperState
  <2>4. ClearRunningSlot(running, c, cur) \in [Cpus -> Slots \cup {None}]
    BY ClearType DEF TypeOK
  <2>5. \/ Switch(c, [state EXCEPT ![cur] = "waiting"], pr,
                  ClearRunningSlot(running, c, cur))
        \/ Switch(c, state, pr, running)
    BY <1>6 DEF ParkChecked, ParkLocked
  <2> HIDE DEF pr
  <2>6. state \in [Slots -> EsperState] /\ running \in [Cpus -> Slots \cup {None}]
    BY DEF TypeOK
  <2>7. TableOK'
    BY Zenon, <2>2, <2>3, <2>4, <2>5, <2>6, SwitchType
  <2>8. UNCHANGED <<want, active, execPid, reaped>> /\ UnchangedIdentity
    BY <1>6 DEF ParkChecked, ParkLocked
  <2> QED BY <1>0, <2>7, <2>8 DEF TypeOK, TableOK, UnchangedIdentity
<1>7. ASSUME NEW c \in Cpus, NEW w \in 0 .. MaxPid, Reap(c, w) PROVE TypeOK'
  <2>1. PICK i \in Slots : state' = [state EXCEPT ![i] = "free"] /\ CountReaps({i})
    BY Zenon, <1>7 DEF Reap, ZombieChildren
  <2>2. reaped' \in [Pids -> 0 .. 2]
    BY <2>1, DeathType
  <2>3. state' \in [Slots -> EsperState]
    BY <2>1 DEF TypeOK, EsperState
  <2>4. mode' \in [Cpus -> Modes]
    BY <1>7 DEF TypeOK, Reap, Modes
  <2> QED BY <1>0, <1>7, <2>2, <2>3, <2>4 DEF TypeOK, Reap, UnchangedIdentity
<1>8. ASSUME NEW c \in Cpus, NEW w \in 0 .. MaxPid, LinuxWait4(c, w) PROVE TypeOK'
  <2> DEFINE cur == running[c]
             st == [state EXCEPT ![cur] = "waiting"]
             pr == [preds EXCEPT ![cur] = @ \cap {Wait("sigsuspend")}]
             rn == ClearRunningSlot(running, c, cur)
  <2>1. CASE Reap(c, w)
    BY <1>7, <2>1
  <2>2. CASE /\ want' = [want EXCEPT ![cur] = w]
             /\ Switch(c, st, pr, rn)
             /\ UNCHANGED <<active, execPid, reaped>> /\ UnchangedIdentity
    <3>1. /\ st \in [Slots -> EsperState]
          /\ pr \in [Slots -> SUBSET WaitPredicates]
          /\ rn \in [Cpus -> Slots \cup {None}]
      BY Zenon, ClearType DEF TypeOK, EsperState
    <3> HIDE DEF st, pr, rn
    <3>2. TableOK'
      BY <2>2, <3>1, SwitchType
    <3> QED BY Zenon, <1>0, <2>2, <3>2 DEF TypeOK, TableOK, UnchangedIdentity
  <2> QED BY <1>8, <2>1, <2>2 DEF LinuxWait4
<1>9. ASSUME NEW c \in Cpus, SysWaitScan(c) PROVE TypeOK'
  <2>1. CASE Reap(c, 0)
    BY <1>7, <2>1
  <2>2. CASE /\ mode' = [mode EXCEPT ![c] = "wait"]
             /\ UNCHANGED <<state, preds, want, running, active, nxt, execPid, reaped>>
             /\ UnchangedIdentity
    BY <1>0, <2>2 DEF TypeOK, UnchangedIdentity, Modes
  <2> QED BY <1>9, <2>1, <2>2 DEF SysWaitScan
<1>10. ASSUME NEW c \in Cpus, SysWaitPark(c) PROVE TypeOK'
  <2> DEFINE cur == running[c]
             st == [state EXCEPT ![cur] = "waiting"]
             rn == ClearRunningSlot(running, c, cur)
  <2>0. UNCHANGED <<want, active, execPid, reaped>> /\ UnchangedIdentity
    BY <1>10 DEF SysWaitPark
  <2>2. CASE Switch(c, st, preds, rn)
    <3>1. /\ st \in [Slots -> EsperState]
          /\ preds \in [Slots -> SUBSET WaitPredicates]
          /\ rn \in [Cpus -> Slots \cup {None}]
      BY Zenon, ClearType DEF TypeOK, EsperState
    <3> HIDE DEF st, rn
    <3>2. TableOK'
      BY <2>2, <3>1, SwitchType
    <3> QED BY <1>0, <2>0, <3>2 DEF TypeOK, TableOK, UnchangedIdentity
  <2>3. CASE KeepRunning(c, cur)
    BY Zenon, <1>0, <2>0, <2>3 DEF TypeOK, KeepRunning, UnchangedIdentity, Modes, EsperState
  <2> QED BY <1>10, <2>2, <2>3 DEF SysWaitPark
<1>10a. ASSUME NEW c \in Cpus, SysWaitCount(c) PROVE TypeOK'
  BY <1>0, <1>10a DEF TypeOK, SysWaitCount, UnchangedIdentity, Modes
<1>11. ASSUME NEW c \in Cpus, Create(c) PROVE TypeOK'
  <2>1. mm' \in [Slots -> SUBSET Slots] /\ drop' \in [Cpus -> SUBSET Slots]
    BY <1>11, SpaceType DEF Create
  <2>2. nextPid \in 0 .. MaxPid /\ nextPid' \in 2 .. MaxPid + 1
    BY <1>11 DEF TypeOK, Create
  <2>3. PICK i \in Slots :
          /\ state' = [state EXCEPT ![i] = "waiting"]
          /\ pid' = [pid EXCEPT ![i] = nextPid]
          /\ parent' = [parent EXCEPT ![i] = None]
          /\ preds' = [preds EXCEPT ![i] = {}]
          /\ want' = [want EXCEPT ![i] = 0]
          /\ published' = [published EXCEPT ![i] = FALSE]
          /\ nxt' = [nxt EXCEPT ![c] = i]
    BY Zenon, <1>11 DEF Create
  <2>4. /\ state' \in [Slots -> EsperState]
        /\ pid' \in [Slots -> 0 .. MaxPid] /\ want' \in [Slots -> 0 .. MaxPid]
    BY <2>2, <2>3 DEF TypeOK, EsperState
  <2>5. /\ parent' \in [Slots -> Slots \cup {None}]
        /\ preds' \in [Slots -> SUBSET WaitPredicates]
        /\ nxt' \in [Cpus -> Slots \cup {None}]
    BY <2>3 DEF TypeOK
  <2>6. published' \in [Slots -> BOOLEAN]
    BY Zenon, <2>3 DEF TypeOK
  <2>7. /\ mode' \in [Cpus -> Modes]
        /\ UNCHANGED <<setup, running, active, online, execPid, reaped, fellBack>>
    BY <1>11 DEF TypeOK, Create, Modes
  <2> QED BY Zenon, <2>1, <2>2, <2>4, <2>5, <2>6, <2>7 DEF TypeOK
<1>12. ASSUME NEW c \in Cpus, ForkFail(c) PROVE TypeOK'
  BY Zenon, <1>0, <1>12 DEF TypeOK, ForkFail, UnchangedIdentity, Modes, EsperState
<1>13. ASSUME NEW c \in Cpus, NEW thread \in BOOLEAN, Clone(c, thread) PROVE TypeOK'
  <2>1. running[c] \in Slots /\ nxt[c] \in Slots
    BY <1>13 DEF Placed, PlacedAt, Clone, Executing, Loaded
  <2>2. mm' \in [Slots -> SUBSET Slots] /\ drop' \in [Cpus -> SUBSET Slots]
    BY <1>13, <2>1, SpaceType DEF Clone, TypeOK
  <2> QED BY <1>0, <1>13, <2>1, <2>2 DEF TypeOK, Clone, Modes
<1>14. ASSUME NEW c \in Cpus, Publish(c) PROVE TypeOK'
  <2>1. state' \in [Slots -> EsperState]
    BY Zenon, <1>14 DEF TypeOK, Publish, MakeReady, EsperState
  <2> QED BY Zenon, <1>0, <1>14, <2>1 DEF TypeOK, Publish, Published, Modes
<1>15. ASSUME NEW c \in Cpus, VforkHandoff(c) PROVE TypeOK'
  <2> DEFINE cur == running[c]
             st == MakeReady(state, nxt[c])
             stw == [st EXCEPT ![cur] = "waiting"]
             pr == SetIpc(preds, cur, VforkDone(pid[nxt[c]]))
             rn == ClearRunningSlot(running, c, cur)
  <2>1. VforkDone(pid[nxt[c]]) \in WaitPredicates
    BY <1>15, PredicateType DEF Placed, PlacedAt, VforkHandoff
  <2>2. /\ st \in [Slots -> EsperState]
        /\ stw \in [Slots -> EsperState]
        /\ running \in [Cpus -> Slots \cup {None}]
        /\ rn \in [Cpus -> Slots \cup {None}]
    BY Zenon, ClearType DEF TypeOK, EsperState, MakeReady
  <2>3. pr \in [Slots -> SUBSET WaitPredicates]
    BY ZenonT(30), <2>1 DEF TypeOK, SetIpc
  <2>4. \/ PickAndClaim(c, cur, stw, pr, rn, "switch", "vfail")
        \/ PickAndClaim(c, cur, st, pr, running, "switch", "vfail")
    BY <1>15 DEF VforkHandoff
  <2>5. "switch" \in Modes /\ "vfail" \in Modes
    BY DEF Modes
  <2> HIDE DEF st, stw, pr, rn, cur
  <2>6. TableOK'
    BY <2>2, <2>3, <2>4, <2>5, PickType
  <2> QED BY Zenon, <1>0, <1>15, <2>6 DEF TypeOK, TableOK, VforkHandoff, Published
<1>16. ASSUME NEW c \in Cpus, VforkFallback(c) PROVE TypeOK'
  BY ZenonT(30), <1>0, <1>16 DEF TypeOK, VforkFallback, Modes, EsperState
<1>17. ASSUME NEW c \in Cpus, Exec(c) PROVE TypeOK'
  <2>1. running[c] \in Slots
    BY <1>17 DEF Placed, PlacedAt, Exec, Executing, Loaded
  <2>2. mm' \in [Slots -> SUBSET Slots] /\ drop' \in [Cpus -> SUBSET Slots]
    BY <1>17, <2>1, SpaceType DEF Exec
  <2> QED BY <1>0, <1>17, <2>1, <2>2 DEF TypeOK, Exec, Ready, Forget, EsperState
<1>18. ASSUME NEW c \in Cpus, ExitBegin(c) PROVE TypeOK'
  <2>1. state' \in [Slots -> EsperState] /\ preds' \in [Slots -> SUBSET WaitPredicates]
    BY <1>18 DEF TypeOK, ExitBegin, Ready, Forget, EsperState
  <2>2. mode' \in [Cpus -> Modes]
    BY <1>18 DEF TypeOK, ExitBegin, Modes
  <2>3. mm' \in [Slots -> SUBSET Slots] /\ drop' \in [Cpus -> SUBSET Slots]
    <3>1. running[c] \in Slots
      BY <1>18 DEF Placed, PlacedAt, ExitBegin, Executing, Loaded
    <3> QED BY <1>18, <3>1, SpaceType DEF ExitBegin
  <2> QED BY <1>0, <1>18, <2>1, <2>2, <2>3 DEF TypeOK, ExitBegin
<1>19. ASSUME NEW c \in Cpus, ExitFinish(c) PROVE TypeOK'
  <2> DEFINE cur == running[c]
  <2>1. ClearRunningSlot(running, c, cur) \in [Cpus -> Slots \cup {None}]
    BY ClearType DEF TypeOK
  <2>2. TableOK'
    BY Zenon, <1>19, <2>1, SwitchType, DeathType DEF ExitFinish
  <2>3. reaped' \in [Pids -> 0 .. 2]
    BY <1>19, DeathType DEF ExitFinish
  <2> QED BY <1>0, <1>19, <2>2, <2>3 DEF TypeOK, TableOK, ExitFinish, UnchangedIdentity
<1>20. ASSUME NEW c \in Cpus, GroupExit(c) PROVE TypeOK'
  <2> DEFINE cur == running[c]
             G == Group(mm[cur])
             rn == IF cur \in G THEN [running EXCEPT ![c] = None] ELSE running
  <2>1. rn \in [Cpus -> Slots \cup {None}]
    BY DEF TypeOK
  <2>2. Switch(c, Dying(G), DyingPreds(G), rn) /\ CountReaps(ReapedByWait4(G))
    BY ZenonT(30), <1>20 DEF GroupExit
  <2> HIDE DEF rn, G
  <2>3. TableOK'
    BY Zenon, <2>1, <2>2, SwitchType, DeathType
  <2>4. reaped' \in [Pids -> 0 .. 2]
    BY <2>2, DeathType
  <2>5. drop' \in [Cpus -> SUBSET Slots]
    <3>1. cur \in Slots
      BY <1>20 DEF Placed, PlacedAt, GroupExit, Executing, Loaded
    <3> QED BY <1>20, <3>1 DEF TypeOK, GroupExit
  <2> QED BY <1>0, <1>20, <2>3, <2>4, <2>5 DEF TypeOK, TableOK, GroupExit
<1>20a. ASSUME NEW c \in Cpus, ReleaseGroup(c) PROVE TypeOK'
  <2>1. mm' \in [Slots -> SUBSET Slots] /\ drop' \in [Cpus -> SUBSET Slots]
    BY <1>20a DEF TypeOK, ReleaseGroup
  <2> QED BY <1>0, <1>20a, <2>1 DEF TypeOK, ReleaseGroup
<1>21. ASSUME NEW c \in Cpus, Fault(c) PROVE TypeOK'
  <2> DEFINE cur == running[c]
  <2>1. /\ [state EXCEPT ![cur] = "faulted"] \in [Slots -> EsperState]
        /\ preds \in [Slots -> SUBSET WaitPredicates]
        /\ ClearRunningSlot(running, c, cur) \in [Cpus -> Slots \cup {None}]
    BY Zenon, ClearType DEF TypeOK, EsperState
  <2>2. TableOK'
    BY Zenon, <1>21, <2>1, SwitchType DEF Fault
  <2> QED BY <1>0, <1>21, <2>2 DEF TypeOK, TableOK, Fault, UnchangedIdentity
<1>22. ASSUME NEW i \in Slots, Kill(i) PROVE TypeOK'
  <2>1. /\ state' \in [Slots -> EsperState]
        /\ preds' \in [Slots -> SUBSET WaitPredicates]
        /\ reaped' \in [Pids -> 0 .. 2]
    BY <1>22, DeathType DEF Kill
  <2> QED BY <1>0, <1>22, <2>1 DEF TypeOK, Kill, UnchangedIdentity
<1>23. ASSUME NEW c \in Cpus, KillSelf(c) PROVE TypeOK'
  <2>1. /\ state' \in [Slots -> EsperState]
        /\ preds' \in [Slots -> SUBSET WaitPredicates]
        /\ reaped' \in [Pids -> 0 .. 2]
    BY <1>23, DeathType DEF KillSelf
  <2> QED BY <1>0, <1>23, <2>1 DEF TypeOK, KillSelf, UnchangedIdentity, Modes
<1>24. ASSUME NEW c \in Cpus, PickAfterKill(c) PROVE TypeOK'
  <2>1. TableOK'
    BY <1>24, SwitchType DEF PickAfterKill, TypeOK
  <2> QED BY <1>0, <1>24, <2>1 DEF TypeOK, TableOK, PickAfterKill, UnchangedIdentity
<1>25. ASSUME NEW i \in Slots, NEW k, Wake(i, k) PROVE TypeOK'
  BY <1>0, <1>25 DEF TypeOK, Wake, UnchangedIdentity, EsperState
<1>26. ASSUME NEW i \in Slots, Interrupt(i) PROVE TypeOK'
  BY <1>0, <1>26 DEF TypeOK, Interrupt, UnchangedIdentity, EsperState
<1>27. ASSUME NEW c \in Cpus, NEW n \in {1, setup.cores}, SetOnline(c, n) PROVE TypeOK'
  BY <1>0, <1>27 DEF TypeOK, SetOnline
<1>28. ASSUME NEW c \in Cpus, CoreStep(c) PROVE TypeOK'
  BY <1>28, <1>1, <1>2, <1>3, <1>4, <1>5, <1>6, <1>8, <1>9, <1>10, <1>10a, <1>11,
     <1>12, <1>13, <1>14, <1>15, <1>16, <1>17, <1>18, <1>19, <1>20, <1>20a, <1>21,
     <1>23, <1>24, <1>27 DEF CoreStep
<1> QED BY <1>22, <1>25, <1>26, <1>28 DEF Next

\* A step that moves only core c, and gives no slot a new pid, keeps Placed if
\* it leaves c well placed.
LEMMA PlacedFrame ==
    ASSUME Placed, NEW c \in Cpus, pid' = pid, PlacedAt(c)',
           \A d \in Cpus \ {c} : /\ mode'[d] = mode[d] /\ nxt'[d] = nxt[d]
                                 /\ running'[d] = running[d]
                                 /\ active'[d] = active[d] /\ execPid'[d] = execPid[d]
    PROVE  Placed'
<1> SUFFICES ASSUME NEW d \in Cpus, d # c PROVE PlacedAt(d)'
  BY DEF Placed
<1>1. PlacedAt(d)
  BY DEF Placed
<1> QED BY Zenon, <1>1 DEF PlacedAt

\* A pick by a core that has an Esper loaded keeps Placed.
LEMMA PlacedSwitch ==
    ASSUME TypeOK, Placed, NEW c \in Cpus, mode[c] \in Loaded,
           NEW st \in [Slots -> EsperState],
           NEW pr \in [Slots -> SUBSET WaitPredicates],
           NEW rn \in [Cpus -> Slots \cup {None}],
           \A d \in Cpus \ {c} : rn[d] = running[d],
           Switch(c, st, pr, rn), UNCHANGED <<pid, active, execPid>>
    PROVE  Placed'
<1>1. PlacedAt(c)
  BY DEF Placed
<1>2. /\ \A d \in Cpus \ {c} : /\ mode'[d] = mode[d] /\ nxt'[d] = nxt[d]
                               /\ running'[d] = running[d]
      /\ \/ mode'[c] = "switch" /\ nxt'[c] \in Slots /\ running'[c] = nxt'[c]
         \/ mode'[c] = "leave"
  BY SwitchType
<1>3. PlacedAt(c)'
  BY <1>1, <1>2 DEF PlacedAt, Executing, Loaded
<1> QED BY <1>2, <1>3, PlacedFrame

\* What a vfork hand-off leaves behind: the other cores as they were, and this one
\* with the Esper it claimed or on its way to the fallback.
LEMMA VforkType ==
    ASSUME TypeOK, NEW c \in Cpus,
           NEW st \in [Slots -> EsperState],
           NEW pr \in [Slots -> SUBSET WaitPredicates],
           NEW rn \in [Cpus -> Slots \cup {None}],
           \A d \in Cpus \ {c} : rn[d] = running[d],
           PickAndClaim(c, running[c], st, pr, rn, "switch", "vfail")
    PROVE  /\ \A d \in Cpus \ {c} : /\ mode'[d] = mode[d] /\ nxt'[d] = nxt[d]
                                    /\ running'[d] = running[d]
           /\ \/ mode'[c] = "switch" /\ nxt'[c] \in Slots /\ running'[c] = nxt'[c]
              \/ mode'[c] = "vfail"
<1>1. "switch" \in Modes /\ "vfail" \in Modes
  BY DEF Modes
<1>2. /\ TableOK'
      /\ \A d \in Cpus \ {c} : /\ mode'[d] = mode[d] /\ nxt'[d] = nxt[d]
                               /\ running'[d] = rn[d]
      /\ \/ mode'[c] = "switch" /\ nxt'[c] \in Slots /\ running'[c] = nxt'[c]
         \/ mode'[c] = "vfail" /\ nxt'[c] = None /\ running'[c] = rn[c]
  BY <1>1, PickType
<1> QED BY <1>2

\* Clearing core c's run slot is nothing to the others.
LEMMA ClearFrame ==
    ASSUME NEW rn \in [Cpus -> Slots \cup {None}], NEW c \in Cpus, NEW i
    PROVE  \A d \in Cpus \ {c} : ClearRunningSlot(rn, c, i)[d] = rn[d]
BY DEF ClearRunningSlot

\* Every step keeps the cores well placed.
LEMMA PlacedStep ==
    ASSUME TypeOK, Placed, Next
    PROVE  Placed'
<1>1. ASSUME NEW c \in Cpus, TryRun(c) PROVE Placed'
  <2> DEFINE after == IF c = 0 THEN None ELSE running[c]
  <2>1. "picked" \in Modes /\ "loop" \in Modes
    BY DEF Modes
  <2>2. PickAndClaim(c, after, state, preds, running, "picked", "loop")
    BY <1>1 DEF TryRun
  <2>3. /\ state \in [Slots -> EsperState]
        /\ preds \in [Slots -> SUBSET WaitPredicates]
        /\ running \in [Cpus -> Slots \cup {None}]
    BY DEF TypeOK
  <2> HIDE DEF after
  <2>4. /\ TableOK'
        /\ \A d \in Cpus \ {c} : /\ mode'[d] = mode[d] /\ nxt'[d] = nxt[d]
                                 /\ running'[d] = running[d]
        /\ \/ mode'[c] = "picked" /\ nxt'[c] \in Slots /\ running'[c] = nxt'[c]
           \/ mode'[c] = "loop" /\ nxt'[c] = None /\ running'[c] = running[c]
    BY <2>1, <2>2, <2>3, PickType
  <2>5. PlacedAt(c)'
    BY <2>4 DEF PlacedAt, Executing, Loaded
  <2> QED BY <1>1, <2>4, <2>5, PlacedFrame DEF TryRun, UnchangedIdentity
<1>2. ASSUME NEW c \in Cpus, RunOne(c) \/ LoadCtx(c) PROVE Placed'
  <2>1. nxt[c] \in Slots /\ nxt[c] = running[c]
    BY <1>2 DEF Placed, PlacedAt, RunOne, LoadCtx
  <2>2. EnterUser(c)
    BY <1>2 DEF RunOne, LoadCtx
  <2>3. PlacedAt(c)'
    BY <2>1, <2>2 DEF PlacedAt, EnterUser, UnchangedIdentity, TypeOK, Executing, Loaded
  <2> QED BY <2>2, <2>3, PlacedFrame DEF EnterUser, UnchangedIdentity, TypeOK
<1>3. ASSUME NEW c \in Cpus, LeaveUser(c) PROVE Placed'
  <2>1. PlacedAt(c)'
    BY <1>3 DEF PlacedAt, LeaveUser, TypeOK, Executing, Loaded
  <2> QED BY <1>3, <2>1, PlacedFrame DEF LeaveUser, UnchangedIdentity, TypeOK
<1>4. ASSUME NEW c \in Cpus, ResumeCorrupt(c) PROVE Placed'
  <2>1. PlacedAt(c)'
    BY <1>4 DEF PlacedAt, ResumeCorrupt, TypeOK, Executing, Loaded
  <2>2. \A d \in Cpus \ {c} : running'[d] = running[d]
    BY <1>4, ClearFrame DEF ResumeCorrupt, TypeOK
  <2> QED BY <1>4, <2>1, <2>2, PlacedFrame DEF ResumeCorrupt, TypeOK
<1>5. ASSUME NEW c \in Cpus, Preempt(c) PROVE Placed'
  <2>1. PlacedAt(c)
    BY DEF Placed
  <2>2. \/ \E n \in Slots : /\ running' = [running EXCEPT ![c] = n]
                            /\ mode' = [mode EXCEPT ![c] = "switch"]
                            /\ nxt' = [nxt EXCEPT ![c] = n]
        \/ UNCHANGED <<running, mode, nxt>>
    BY <1>5 DEF Preempt, PickNext
  <2>3. PlacedAt(c)'
    BY <1>5, <2>1, <2>2 DEF PlacedAt, Preempt, UnchangedIdentity, TypeOK, Executing, Loaded
  <2> QED BY <1>5, <2>2, <2>3, PlacedFrame DEF Preempt, UnchangedIdentity, TypeOK
<1>6. ASSUME NEW c \in Cpus, NEW k \in setup.kinds,
             ParkChecked(c, Wait(k)) \/ ParkLocked(c, Wait(k))
      PROVE  Placed'
  <2> DEFINE cur == running[c]
             pr == IF Wait(k) = Wait("ipc") THEN SetIpc(preds, cur, Wait(k))
                   ELSE [preds EXCEPT ![cur] = @ \cup {Wait(k)}]
             st == [state EXCEPT ![cur] = "waiting"]
             rn == ClearRunningSlot(running, c, cur)
  <2>1. Wait(k) \in WaitPredicates
    BY PredicateType, SetupType DEF TypeOK
  <2>2. pr \in [Slots -> SUBSET WaitPredicates]
    BY Zenon, <2>1, TableType DEF TypeOK
  <2>3. /\ st \in [Slots -> EsperState] /\ state \in [Slots -> EsperState]
        /\ rn \in [Cpus -> Slots \cup {None}] /\ running \in [Cpus -> Slots \cup {None}]
    BY Zenon, ClearType DEF TypeOK, EsperState
  <2>3a. \A d \in Cpus \ {c} : rn[d] = running[d]
    BY ClearFrame DEF TypeOK
  <2>4. Switch(c, st, pr, rn) \/ Switch(c, state, pr, running)
    BY <1>6 DEF ParkChecked, ParkLocked
  <2>5. UNCHANGED <<pid, active, execPid>> /\ mode[c] \in Loaded
    BY <1>6 DEF ParkChecked, ParkLocked, UnchangedIdentity, Loaded, Executing
  <2> HIDE DEF pr, st, rn
  <2> QED BY ZenonT(30), <2>2, <2>3, <2>3a, <2>4, <2>5, PlacedSwitch
<1>7. ASSUME NEW c \in Cpus, NEW w, mode[c] = "user", Reap(c, w) PROVE Placed'
  <2>1. PlacedAt(c)'
    BY <1>7 DEF Placed, PlacedAt, Reap, UnchangedIdentity, TypeOK
  <2> QED BY <1>7, <2>1, PlacedFrame DEF Reap, UnchangedIdentity, TypeOK
<1>8. ASSUME NEW c \in Cpus, NEW w \in 0 .. MaxPid, LinuxWait4(c, w) PROVE Placed'
  <2> DEFINE cur == running[c]
             st == [state EXCEPT ![cur] = "waiting"]
             pr == [preds EXCEPT ![cur] = @ \cap {Wait("sigsuspend")}]
             rn == ClearRunningSlot(running, c, cur)
  <2>1. mode[c] = "user" /\ mode[c] \in Loaded
    BY Zenon, <1>8 DEF LinuxWait4, Loaded, Executing
  <2>2. CASE Reap(c, w)
    BY <1>7, <2>1, <2>2
  <2>3. CASE Switch(c, st, pr, rn) /\ UNCHANGED <<active, execPid>> /\ UnchangedIdentity
    <3>1. /\ st \in [Slots -> EsperState]
          /\ pr \in [Slots -> SUBSET WaitPredicates]
          /\ rn \in [Cpus -> Slots \cup {None}]
      BY ZenonT(30), ClearType DEF TypeOK, EsperState
    <3>1a. \A d \in Cpus \ {c} : rn[d] = running[d]
      BY ClearFrame DEF TypeOK
    <3> HIDE DEF st, pr, rn
    <3> QED BY <2>1, <2>3, <3>1, <3>1a, PlacedSwitch DEF UnchangedIdentity
  <2> QED BY ZenonT(30), <1>8, <2>2, <2>3 DEF LinuxWait4
<1>9. ASSUME NEW c \in Cpus, SysWaitScan(c) PROVE Placed'
  <2>1. CASE Reap(c, 0)
    BY <1>7, <1>9, <2>1 DEF SysWaitScan
  <2>2. CASE /\ mode' = [mode EXCEPT ![c] = "wait"]
             /\ UNCHANGED <<state, preds, want, running, active, nxt, execPid, reaped>>
             /\ UnchangedIdentity
    <3>1. mode[c] = "user"
      BY <1>9 DEF SysWaitScan
    <3>2. PlacedAt(c)'
      BY <2>2, <3>1 DEF Placed, PlacedAt, UnchangedIdentity, TypeOK, Executing, Loaded
    <3> QED BY <2>2, <3>2, PlacedFrame DEF UnchangedIdentity, TypeOK
  <2> QED BY <1>9, <2>1, <2>2 DEF SysWaitScan
<1>10. ASSUME NEW c \in Cpus, SysWaitPark(c) PROVE Placed'
  <2> DEFINE cur == running[c]
             st == [state EXCEPT ![cur] = "waiting"]
             rn == ClearRunningSlot(running, c, cur)
  <2>0. /\ UNCHANGED <<pid, active, execPid>>
        /\ mode[c] = "keep" /\ mode[c] \in Loaded
    BY ZenonT(30), <1>10 DEF SysWaitPark, UnchangedIdentity, Loaded, Executing
  <2>2. CASE Switch(c, st, preds, rn)
    <3>1. /\ st \in [Slots -> EsperState]
          /\ preds \in [Slots -> SUBSET WaitPredicates]
          /\ rn \in [Cpus -> Slots \cup {None}]
      BY Zenon, ClearType DEF TypeOK, EsperState
    <3>1a. \A d \in Cpus \ {c} : rn[d] = running[d]
      BY ClearFrame DEF TypeOK
    <3> HIDE DEF st, rn
    <3> QED BY ZenonT(30), <2>0, <2>2, <3>1, <3>1a, PlacedSwitch
  <2>3. CASE KeepRunning(c, cur)
    <3>1. PlacedAt(c)'
      BY <2>0, <2>3 DEF KeepRunning, Placed, PlacedAt, TypeOK, Executing, Loaded
    <3> QED BY <2>0, <2>3, <3>1, PlacedFrame DEF KeepRunning, TypeOK
  <2> QED BY ZenonT(30), <1>10, <2>2, <2>3 DEF SysWaitPark
<1>10a. ASSUME NEW c \in Cpus, SysWaitCount(c) PROVE Placed'
  <2>1. /\ mode[c] = "wait" /\ mode'[c] \in {"user", "keep"}
        /\ \A d \in Cpus \ {c} : mode'[d] = mode[d]
        /\ UNCHANGED <<pid, running, active, nxt, execPid>>
    BY <1>10a DEF SysWaitCount, UnchangedIdentity, TypeOK
  <2>2. PlacedAt(c)'
    BY <2>1 DEF Placed, PlacedAt, Executing, Loaded
  <2> QED BY <2>1, <2>2, PlacedFrame
<1>11. ASSUME NEW c \in Cpus, Create(c) PROVE Placed'
  <2>1. PICK i \in Slots : /\ ChosenSlot(i)
                           /\ pid' = [pid EXCEPT ![i] = nextPid]
                           /\ nxt' = [nxt EXCEPT ![c] = i]
    BY Zenon, <1>11 DEF Create
  <2>2. \A d \in Cpus : active[d] # i
    BY <2>1 DEF ChosenSlot, FreeSlots, RecyclableSlots, SlotInUse
  <2>3. nextPid \in Pids
    BY <1>11, SetupType, SchedulerAssumption DEF Create, TypeOK, Pids
  <2>4. mode[c] = "user" /\ mode' = [mode EXCEPT ![c] = "fork"]
        /\ UNCHANGED <<running, active, execPid>>
    BY <1>11 DEF Create
  <2> SUFFICES ASSUME NEW d \in Cpus PROVE PlacedAt(d)'
    BY DEF Placed
  <2>5. PlacedAt(d)
    BY DEF Placed
  <2>6. CASE d = c
    BY <2>1, <2>2, <2>3, <2>4, <2>5, <2>6 DEF PlacedAt, TypeOK, Executing, Loaded
  <2>7. CASE d # c
    BY <2>1, <2>2, <2>3, <2>4, <2>5, <2>7 DEF PlacedAt, TypeOK, Executing, Loaded
  <2> QED BY <2>6, <2>7
<1>12. ASSUME NEW c \in Cpus, ForkFail(c) PROVE Placed'
  <2>1. PlacedAt(c)'
    BY <1>12 DEF Placed, PlacedAt, ForkFail, UnchangedIdentity, TypeOK, Executing, Loaded
  <2> QED BY <1>12, <2>1, PlacedFrame DEF ForkFail, UnchangedIdentity, TypeOK
<1>13. ASSUME NEW c \in Cpus, NEW thread \in BOOLEAN, Clone(c, thread) PROVE Placed'
  <2>1. PlacedAt(c)'
    BY <1>13 DEF Placed, PlacedAt, Clone, TypeOK, Executing, Loaded
  <2> QED BY <1>13, <2>1, PlacedFrame DEF Clone, TypeOK
<1>14. ASSUME NEW c \in Cpus, Publish(c) PROVE Placed'
  <2>1. PlacedAt(c)'
    BY <1>14 DEF Placed, PlacedAt, Publish, TypeOK, Executing, Loaded
  <2> QED BY <1>14, <2>1, PlacedFrame DEF Publish, TypeOK
<1>15. ASSUME NEW c \in Cpus, VforkHandoff(c) PROVE Placed'
  <2> DEFINE cur == running[c]
             st == MakeReady(state, nxt[c])
             stw == [st EXCEPT ![cur] = "waiting"]
             pr == SetIpc(preds, cur, VforkDone(pid[nxt[c]]))
             rn == ClearRunningSlot(running, c, cur)
  <2>1. VforkDone(pid[nxt[c]]) \in WaitPredicates
    BY ZenonT(30), <1>15, PredicateType DEF Placed, PlacedAt, VforkHandoff
  <2>2. /\ st \in [Slots -> EsperState]
        /\ stw \in [Slots -> EsperState]
        /\ running \in [Cpus -> Slots \cup {None}]
        /\ rn \in [Cpus -> Slots \cup {None}]
    BY Zenon, ClearType DEF TypeOK, EsperState, MakeReady
  <2>2a. \A d \in Cpus \ {c} : rn[d] = running[d]
    BY ClearFrame DEF TypeOK
  <2>3. pr \in [Slots -> SUBSET WaitPredicates]
    BY ZenonT(30), <2>1 DEF TypeOK, SetIpc
  <2>4. \/ PickAndClaim(c, running[c], stw, pr, rn, "switch", "vfail")
        \/ PickAndClaim(c, running[c], st, pr, running, "switch", "vfail")
    BY Zenon, <1>15 DEF VforkHandoff
  <2> HIDE DEF st, stw, pr, rn
  <2>6. /\ \A d \in Cpus \ {c} : /\ mode'[d] = mode[d] /\ nxt'[d] = nxt[d]
                                 /\ running'[d] = running[d]
        /\ \/ mode'[c] = "switch" /\ nxt'[c] \in Slots /\ running'[c] = nxt'[c]
           \/ mode'[c] = "vfail"
    <3>1. CASE PickAndClaim(c, running[c], stw, pr, rn, "switch", "vfail")
      BY <2>2, <2>2a, <2>3, <3>1, VforkType
    <3>2. CASE PickAndClaim(c, running[c], st, pr, running, "switch", "vfail")
      BY <2>2, <2>3, <3>2, VforkType
    <3> QED BY ZenonT(30), <2>4, <3>1, <3>2
  <2>7. UNCHANGED <<pid, active, execPid>> /\ mode[c] = "cloned"
    BY ZenonT(30), <1>15 DEF VforkHandoff
  <2>8. PlacedAt(c)'
    BY ZenonT(30), <2>6, <2>7 DEF Placed, PlacedAt, Executing, Loaded
  <2> QED BY ZenonT(30), <2>6, <2>7, <2>8, PlacedFrame
<1>16. ASSUME NEW c \in Cpus, VforkFallback(c) PROVE Placed'
  <2>1. PlacedAt(c)'
    BY <1>16 DEF Placed, PlacedAt, VforkFallback, TypeOK, Executing, Loaded
  <2> QED BY <1>16, <2>1, PlacedFrame DEF VforkFallback, TypeOK
<1>17. ASSUME NEW c \in Cpus, Exec(c) PROVE Placed'
  BY ZenonT(30), <1>17 DEF Placed, PlacedAt, Exec
<1>18. ASSUME NEW c \in Cpus, ExitBegin(c) PROVE Placed'
  <2>1. PlacedAt(c)'
    BY <1>18 DEF Placed, PlacedAt, ExitBegin, TypeOK, Executing, Loaded
  <2> QED BY <1>18, <2>1, PlacedFrame DEF ExitBegin, TypeOK
<1>19. ASSUME NEW c \in Cpus, ExitFinish(c) PROVE Placed'
  <2> DEFINE cur == running[c]
             rn == ClearRunningSlot(running, c, cur)
  <2>1. rn \in [Cpus -> Slots \cup {None}] /\ \A d \in Cpus \ {c} : rn[d] = running[d]
    BY ClearType, ClearFrame DEF TypeOK
  <2>2. /\ Switch(c, Dying({cur}), DyingPreds({cur}), rn)
        /\ UNCHANGED <<pid, active, execPid>> /\ mode[c] \in Loaded
    BY <1>19 DEF ExitFinish, UnchangedIdentity, Loaded, Executing
  <2> HIDE DEF rn
  <2> QED BY ZenonT(30), <2>1, <2>2, PlacedSwitch, DeathType
<1>20. ASSUME NEW c \in Cpus, GroupExit(c) PROVE Placed'
  <2> DEFINE cur == running[c]
             G == Group(mm[cur])
             rn == IF cur \in G THEN [running EXCEPT ![c] = None] ELSE running
  <2>1. rn \in [Cpus -> Slots \cup {None}] /\ \A d \in Cpus \ {c} : rn[d] = running[d]
    BY DEF TypeOK
  <2>2. /\ Switch(c, Dying(G), DyingPreds(G), rn)
        /\ UNCHANGED <<pid, active, execPid>> /\ mode[c] \in Loaded
    BY <1>20 DEF GroupExit, Loaded, Executing
  <2> HIDE DEF rn, G
  <2> QED BY <2>1, <2>2, PlacedSwitch, DeathType
<1>20a. ASSUME NEW c \in Cpus, ReleaseGroup(c) PROVE Placed'
  BY Zenon, <1>20a DEF Placed, PlacedAt, ReleaseGroup
<1>21. ASSUME NEW c \in Cpus, Fault(c) PROVE Placed'
  <2> DEFINE cur == running[c]
             st == [state EXCEPT ![cur] = "faulted"]
             rn == ClearRunningSlot(running, c, cur)
  <2>1. /\ st \in [Slots -> EsperState]
        /\ preds \in [Slots -> SUBSET WaitPredicates]
        /\ rn \in [Cpus -> Slots \cup {None}]
    BY Zenon, ClearType DEF TypeOK, EsperState
  <2>1a. \A d \in Cpus \ {c} : rn[d] = running[d]
    BY ClearFrame DEF TypeOK
  <2>2. /\ Switch(c, st, preds, rn)
        /\ UNCHANGED <<pid, active, execPid>> /\ mode[c] \in Loaded
    BY <1>21 DEF Fault, UnchangedIdentity, Loaded, Executing
  <2> HIDE DEF st, rn
  <2> QED BY <2>1, <2>1a, <2>2, PlacedSwitch
<1>22. ASSUME NEW i \in Slots, NEW k, Kill(i) \/ Wake(i, k) \/ Interrupt(i) PROVE Placed'
  BY ZenonT(30), <1>22 DEF Placed, PlacedAt, Kill, Wake, Interrupt, UnchangedIdentity
<1>23. ASSUME NEW c \in Cpus, KillSelf(c) PROVE Placed'
  <2>1. PlacedAt(c)'
    BY ZenonT(30), <1>23
       DEF Placed, PlacedAt, KillSelf, UnchangedIdentity, TypeOK, Executing, Loaded
  <2> QED BY ZenonT(30), <1>23, <2>1, PlacedFrame DEF KillSelf, UnchangedIdentity, TypeOK
<1>24. ASSUME NEW c \in Cpus, PickAfterKill(c) PROVE Placed'
  BY <1>24, PlacedSwitch DEF PickAfterKill, UnchangedIdentity, TypeOK, Loaded, Executing
<1>25. ASSUME NEW c \in Cpus, NEW n, SetOnline(c, n) PROVE Placed'
  BY ZenonT(30), <1>25 DEF Placed, PlacedAt, SetOnline
<1>26. ASSUME NEW c \in Cpus, CoreStep(c) PROVE Placed'
  BY ZenonT(30), <1>26, <1>1, <1>2, <1>3, <1>4, <1>5, <1>6, <1>8, <1>9, <1>10, <1>10a,
     <1>11, <1>12, <1>13, <1>14, <1>15, <1>16, <1>17, <1>18, <1>19, <1>20, <1>20a, <1>21,
     <1>23, <1>24, <1>25 DEF CoreStep
<1> QED BY <1>22, <1>26 DEF Next

-----------------------------------------------------------------------------
(* The process table and the run slots.                                     *)

\* What a step may do to Espers without looking at the run slots: wake one that
\* sleeps, bury one, or rebuild a slot that no core has claimed.
Gentle(st, st2, rn) ==
    \A i \in Slots : \/ st2[i] = st[i]
                     \/ st[i] = "waiting" /\ st2[i] = "ready"
                     \/ st2[i] \in Dead
                     \/ st2[i] = "waiting" /\ \A c \in Cpus : rn[c] # i

\* Such a step keeps the table and the run slots in agreement.
LEMMA GentleAgree ==
    ASSUME NEW st, NEW st2, NEW rn \in [Cpus -> Slots \cup {None}],
           Agree(st, rn), Gentle(st, st2, rn)
    PROVE  /\ Agree(st2, rn)
           /\ \A c \in Cpus : IdleAt(c, st, rn) => IdleAt(c, st2, rn)
<1>1. Agree(st2, rn)
  <2> SUFFICES ASSUME NEW i \in Slots
               PROVE  /\ st2[i] = "running" => \E c \in Cpus : rn[c] = i
                      /\ st2[i] \in {"ready", "waiting"} => \A c \in Cpus : rn[c] # i
    BY DEF Agree
  <2> QED BY DEF Agree, Gentle, Dead
<1>2. ASSUME NEW c \in Cpus, IdleAt(c, st, rn) PROVE IdleAt(c, st2, rn)
  BY <1>2 DEF IdleAt, Gentle, Dead
<1> QED BY <1>1, <1>2

\* A core that gives up its own run slot, together with the state of the Esper
\* in it, keeps the rest in agreement and holds nothing any more.
LEMMA ReleaseAgree ==
    ASSUME NEW st \in [Slots -> EsperState], NEW rn \in [Cpus -> Slots \cup {None}],
           NEW c \in Cpus, NEW x \in EsperState \ {"running"}, rn[c] \in Slots,
           Unique(rn), Agree(st, rn)
    PROVE  LET st2 == [st EXCEPT ![rn[c]] = x]
               rn2 == ClearRunningSlot(rn, c, rn[c])
           IN  /\ Unique(rn2) /\ Agree(st2, rn2) /\ IdleAt(c, st2, rn2)
               /\ \A d \in Cpus : IdleAt(d, st, rn) => IdleAt(d, st2, rn2)
<1> DEFINE st2 == [st EXCEPT ![rn[c]] = x]
           rn2 == ClearRunningSlot(rn, c, rn[c])
<1>1. rn2 = [rn EXCEPT ![c] = None]
  BY DEF ClearRunningSlot
<1>2. None \notin Slots
  BY DEF None, Slots
<1>3. Unique(rn2)
  BY <1>1 DEF Unique
<1>4. Agree(st2, rn2)
  <2> SUFFICES ASSUME NEW i \in Slots
               PROVE  /\ st2[i] = "running" => \E d \in Cpus : rn2[d] = i
                      /\ st2[i] \in {"ready", "waiting"} => \A d \in Cpus : rn2[d] # i
    BY DEF Agree
  <2>1. CASE i = rn[c]
    BY <1>1, <1>2, <2>1 DEF Unique
  <2>2. CASE i # rn[c]
    <3>1. st2[i] = st[i]
      BY <2>2
    <3>2. \A d \in Cpus : rn2[d] = i <=> rn[d] = i
      BY <1>1, <1>2, <2>2
    <3> QED BY <3>1, <3>2 DEF Agree
  <2> QED BY <2>1, <2>2
<1>5. IdleAt(c, st2, rn2)
  BY <1>1 DEF IdleAt
<1>6. ASSUME NEW d \in Cpus, IdleAt(d, st, rn) PROVE IdleAt(d, st2, rn2)
  <2>1. CASE d = c
    BY <1>5, <2>1
  <2>2. CASE d # c
    BY <1>1, <1>6, <2>2 DEF IdleAt
  <2> QED BY <2>1, <2>2
<1> QED BY Zenon, <1>3, <1>4, <1>5, <1>6

\* pick_and_claim_locked: from a table and run slots that agree, and with no
\* running Esper in the core's own slot, it claims an unclaimed Esper or nothing.
LEMMA PickAgree ==
    ASSUME TypeOK, NEW c \in Cpus, NEW after, NEW found \in Modes \ IdleModes,
           NEW none \in Modes,
           NEW st \in [Slots -> EsperState], NEW pr,
           NEW rn \in [Cpus -> Slots \cup {None}],
           Unique(rn), Agree(st, rn), IdleAt(c, st, rn),
           \A d \in Cpus \ {c} : mode[d] \in IdleModes => IdleAt(d, st, rn),
           PickAndClaim(c, after, st, pr, rn, found, none)
    PROVE  /\ Unique(running') /\ Agree(state', running')
           /\ \A d \in Cpus : mode'[d] \in IdleModes => IdleAt(d, state', running')
<1>1. PICK due \in SUBSET Sleepers(c, st, pr) :
        LET st1 == Ready(st, due)
            picks == PickNext(c, after, st1, rn)
        IN  \/ \E n \in picks :
                 /\ state' = [st1 EXCEPT ![n] = "running"]
                 /\ running' = [rn EXCEPT ![c] = n]
                 /\ mode' = [mode EXCEPT ![c] = found]
            \/ /\ state' = st1
               /\ running' = rn
               /\ mode' = [mode EXCEPT ![c] = none]
  BY Zenon DEF PickAndClaim
<1> DEFINE st1 == Ready(st, due)
           picks == PickNext(c, after, st1, rn)
<1>2. st1 \in [Slots -> EsperState]
  BY DEF Ready, EsperState
<1>3. Gentle(st, st1, rn)
  BY DEF Gentle, Ready, Sleepers
<1>4. Agree(st1, rn) /\ \A d \in Cpus : IdleAt(d, st, rn) => IdleAt(d, st1, rn)
  BY <1>3, GentleAgree
<1>5. \A n \in picks : n \in Slots /\ st1[n] = "ready"
  BY DEF PickNext
<1> HIDE DEF st1, picks
<1>6. CASE /\ state' = st1
           /\ running' = rn
           /\ mode' = [mode EXCEPT ![c] = none]
  BY <1>4, <1>6 DEF TypeOK
<1>7. ASSUME NEW n \in picks,
             state' = [st1 EXCEPT ![n] = "running"],
             running' = [rn EXCEPT ![c] = n],
             mode' = [mode EXCEPT ![c] = found]
      PROVE  /\ Unique(running') /\ Agree(state', running')
             /\ \A d \in Cpus : mode'[d] \in IdleModes => IdleAt(d, state', running')
  <2>1. n \in Slots /\ \A d \in Cpus : rn[d] # n
    BY <1>4, <1>5 DEF Agree
  <2>2. Unique(running')
    BY ZenonT(30), <1>7, <2>1 DEF Unique
  <2>3. Agree(state', running')
    <3> SUFFICES ASSUME NEW i \in Slots
                 PROVE  /\ state'[i] = "running" => \E d \in Cpus : running'[d] = i
                        /\ state'[i] \in {"ready", "waiting"}
                             => \A d \in Cpus : running'[d] # i
      BY ZenonT(30) DEF Agree
    <3>1. CASE i = n
      BY ZenonT(30), <1>2, <1>7, <2>1, <3>1
    <3>2. CASE i # n
      <4>1. state'[i] = st1[i]
        BY ZenonT(30), <1>2, <1>7, <3>2
      <4>2. ASSUME st1[i] = "running" PROVE \E d \in Cpus : running'[d] = i
        <5>1. PICK d \in Cpus : rn[d] = i
          BY <1>4, <4>2 DEF Agree
        <5>2. d # c
          BY <1>4, <4>2, <5>1 DEF IdleAt, None, Slots
        <5> QED BY ZenonT(30), <1>7, <5>1, <5>2
      <4>3. ASSUME st1[i] \in {"ready", "waiting"} PROVE \A d \in Cpus : running'[d] # i
        BY ZenonT(30), <1>4, <1>7, <3>2, <4>3 DEF Agree
      <4> QED BY ZenonT(30), <4>1, <4>2, <4>3
    <3> QED BY ZenonT(30), <3>1, <3>2
  <2>4. ASSUME NEW d \in Cpus, mode'[d] \in IdleModes PROVE IdleAt(d, state', running')
    <3>1. d # c
      BY <1>7, <2>4 DEF TypeOK
    <3>2. IdleAt(d, st1, rn)
      BY <1>4, <1>7, <2>4, <3>1 DEF TypeOK
    <3>3. running'[d] = rn[d] /\ rn[d] # n
      BY ZenonT(30), <1>7, <2>1, <3>1
    <3> QED BY <1>2, <1>7, <3>2, <3>3 DEF IdleAt
  <2> QED BY ZenonT(30), <2>2, <2>3, <2>4
<1> QED BY ZenonT(30), <1>1, <1>6, <1>7 DEF st1, picks
\* A pick after which core c is in "switch" or, if there is nobody, in "none".
LEMMA PickClaimed ==
    ASSUME TypeOK, NEW c \in Cpus, NEW after, NEW none \in Modes,
           NEW st \in [Slots -> EsperState], NEW pr,
           NEW rn \in [Cpus -> Slots \cup {None}],
           fellBack' = fellBack,
           ~fellBack => /\ Unique(rn) /\ Agree(st, rn) /\ IdleAt(c, st, rn)
                        /\ \A d \in Cpus \ {c} :
                             mode[d] \in IdleModes => IdleAt(d, st, rn),
           PickAndClaim(c, after, st, pr, rn, "switch", none)
    PROVE  Claimed'
<1>1. "switch" \in Modes \ IdleModes
  BY DEF Modes, IdleModes
<1> QED BY ZenonT(30), <1>1, PickAgree DEF Claimed

\* A step that is gentle to the table and leaves the run slots alone.
LEMMA GentleClaimed ==
    ASSUME TypeOK, Claimed, Gentle(state, state', running),
           running' = running, fellBack' = fellBack,
           \A c \in Cpus : mode'[c] \in IdleModes
                => mode[c] \in IdleModes \/ IdleAt(c, state', running)
    PROVE  Claimed'
BY GentleAgree DEF Claimed, TypeOK

\* A core parks, faults or buries the Esper in its own run slot and picks another.
LEMMA ParkClaimed ==
    ASSUME TypeOK, Claimed, NEW c \in Cpus, NEW none \in Modes,
           NEW st \in [Slots -> EsperState], NEW x \in EsperState \ {"running"},
           NEW pr, running[c] \in Slots, Gentle(state, st, running),
           fellBack' = fellBack,
           PickAndClaim(c, running[c], [st EXCEPT ![running[c]] = x], pr,
                        ClearRunningSlot(running, c, running[c]), "switch", none)
    PROVE  Claimed'
<1> DEFINE st2 == [st EXCEPT ![running[c]] = x]
           rn2 == ClearRunningSlot(running, c, running[c])
<1>1. running \in [Cpus -> Slots \cup {None}]
  BY DEF TypeOK
<1>2. st2 \in [Slots -> EsperState] /\ rn2 \in [Cpus -> Slots \cup {None}]
  BY <1>1, ClearType
<1>3. ASSUME ~fellBack
      PROVE  /\ Unique(rn2) /\ Agree(st2, rn2) /\ IdleAt(c, st2, rn2)
             /\ \A d \in Cpus \ {c} : mode[d] \in IdleModes => IdleAt(d, st2, rn2)
  <2>1. /\ Unique(running) /\ Agree(st, running)
        /\ \A d \in Cpus : mode[d] \in IdleModes => IdleAt(d, st, running)
    BY <1>1, <1>3, GentleAgree DEF Claimed
  <2> QED BY ZenonT(30), <1>1, <2>1, ReleaseAgree
<1> HIDE DEF st2, rn2
<1> QED BY ZenonT(30), <1>2, <1>3, PickClaimed DEF st2, rn2

\* Death, for one Esper or for a group, is gentle; so is being killed.
LEMMA DeathGentle ==
    ASSUME NEW G, NEW i, NEW rn
    PROVE  Gentle(state, Dying(G), rn) /\ Gentle(state, Killed(i), rn)
<1>1. Gentle(state, Dying(G), rn)
  BY DEF Gentle, Dying, WokenByWait4, InterruptedByChld, ParentIsInWait4, Dead
<1>2. Gentle(state, Killed(i), rn)
  BY ZenonT(30) DEF Gentle, Killed, KillWakes, Dead
<1> QED BY <1>1, <1>2

\* So is everything that wakes Espers that sleep, and esper_make_ready.
LEMMA WakeGentle ==
    ASSUME NEW S, NEW i, NEW rn, state \in [Slots -> EsperState]
    PROVE  /\ (\A j \in S \cap Slots : state[j] = "waiting")
                => Gentle(state, Ready(state, S), rn)
           /\ Gentle(state, MakeReady(state, i), rn)
           /\ Gentle(state, state, rn)
BY DEF Gentle, Ready, MakeReady

\* Every step keeps the table and the run slots in agreement.
LEMMA ClaimedStep ==
    ASSUME TypeOK, Placed, Claimed, Next
    PROVE  Claimed'
<1>0. /\ state \in [Slots -> EsperState]
      /\ running \in [Cpus -> Slots \cup {None}]
      /\ mode \in [Cpus -> Modes]
  BY DEF TypeOK
<1>a. \A c \in Cpus : mode[c] \in Executing => running[c] \in Slots
  BY DEF Placed, PlacedAt, Loaded
<1>b. \A x \in {"waiting", "faulted", "exited", "free"} : x \in EsperState \ {"running"}
  BY DEF EsperState
<1>1. ASSUME NEW c \in Cpus, TryRun(c) PROVE Claimed'
  <2>1. "picked" \in Modes \ IdleModes /\ "loop" \in Modes
    BY DEF Modes, IdleModes
  <2>2. fellBack' = fellBack /\ mode[c] \in IdleModes
    BY <1>1 DEF TryRun, UnchangedIdentity, IdleModes
  <2>3. PickAndClaim(c, IF c = 0 THEN None ELSE running[c], state, preds, running,
                     "picked", "loop")
    BY <1>1 DEF TryRun
  <2> QED BY <1>0, <2>1, <2>2, <2>3, PickAgree DEF Claimed
<1>2. ASSUME NEW c \in Cpus, RunOne(c) \/ LoadCtx(c) PROVE Claimed'
  <2>1. EnterUser(c)
    BY <1>2 DEF RunOne, LoadCtx
  <2> QED BY <1>0, <2>1 DEF EnterUser, UnchangedIdentity, Claimed, IdleModes
<1>3. ASSUME NEW c \in Cpus, LeaveUser(c) PROVE Claimed'
  BY <1>0, <1>3 DEF LeaveUser, UnchangedIdentity, Claimed, IdleModes
<1>4. ASSUME NEW c \in Cpus, ResumeCorrupt(c) PROVE Claimed'
  <2>1. nxt[c] = running[c] /\ running[c] \in Slots
    BY <1>4 DEF Placed, PlacedAt, ResumeCorrupt
  <2>2. /\ state' = [state EXCEPT ![running[c]] = "faulted"]
        /\ running' = ClearRunningSlot(running, c, running[c])
        /\ mode' = [mode EXCEPT ![c] = "loop"]
        /\ fellBack' = fellBack
    BY <1>4, <2>1 DEF ResumeCorrupt
  <2>3. ASSUME ~fellBack
        PROVE  /\ Unique(running') /\ Agree(state', running')
               /\ IdleAt(c, state', running')
               /\ \A d \in Cpus : IdleAt(d, state, running) => IdleAt(d, state', running')
    BY ZenonT(30), <1>0, <1>b, <2>1, <2>2, <2>3, ReleaseAgree DEF Claimed
  <2> QED BY Zenon, <1>0, <2>2, <2>3 DEF Claimed
<1>5. ASSUME NEW c \in Cpus, Preempt(c) PROVE Claimed'
  <2> DEFINE cur == running[c]
  <2>0. fellBack' = fellBack /\ mode[c] = "user" /\ cur \in Slots
    BY <1>5, <1>a DEF Preempt, UnchangedIdentity, Executing
  <2>1. PICK due \in SUBSET Sleepers(c, state, preds) :
          LET st1 == Ready(state, due)
              picks == PickNext(c, cur, st1, running) \ {cur}
          IN  \/ \E n \in picks :
                   /\ state' = [i \in Slots |->
                                  IF i = n THEN "running"
                                  ELSE IF i = cur /\ st1[i] = "running" THEN "ready"
                                  ELSE st1[i]]
                   /\ running' = [running EXCEPT ![c] = n]
                   /\ mode' = [mode EXCEPT ![c] = "switch"]
              \/ /\ state' = st1
                 /\ UNCHANGED <<running, mode>>
    BY <1>5 DEF Preempt
  <2> DEFINE st1 == Ready(state, due)
             picks == PickNext(c, cur, st1, running) \ {cur}
  <2>2. Gentle(state, st1, running)
    BY <1>0, WakeGentle DEF Sleepers
  <2>3. CASE state' = st1 /\ UNCHANGED <<running, mode>>
    BY <2>0, <2>2, <2>3, GentleClaimed
  <2>4. ASSUME NEW n \in picks,
               state' = [i \in Slots |->
                           IF i = n THEN "running"
                           ELSE IF i = cur /\ st1[i] = "running" THEN "ready"
                           ELSE st1[i]],
               running' = [running EXCEPT ![c] = n],
               mode' = [mode EXCEPT ![c] = "switch"],
               ~fellBack
        PROVE  /\ Unique(running') /\ Agree(state', running')
               /\ \A d \in Cpus : mode'[d] \in IdleModes => IdleAt(d, state', running')
    <3>1. /\ Unique(running) /\ Agree(st1, running)
          /\ \A d \in Cpus : mode[d] \in IdleModes => IdleAt(d, st1, running)
      BY <1>0, <2>2, <2>4, GentleAgree DEF Claimed
    <3>2. n \in Slots /\ n # cur /\ st1[n] = "ready"
      BY <2>4 DEF PickNext
    <3> HIDE DEF st1, picks
    <3>3. \A d \in Cpus : running[d] # n
      BY <3>1, <3>2 DEF Agree
    <3>4. \A d \in Cpus \ {c} : running[d] # cur
      BY <2>0, <3>1 DEF Unique, None, Slots
    <3>5. Unique(running')
      BY <1>0, <2>4, <3>1, <3>3 DEF Unique
    <3>6. Agree(state', running')
      <4> SUFFICES ASSUME NEW i \in Slots
                   PROVE  /\ state'[i] = "running" => \E d \in Cpus : running'[d] = i
                          /\ state'[i] \in {"ready", "waiting"}
                               => \A d \in Cpus : running'[d] # i
        BY DEF Agree
      <4>1. CASE i = n
        BY <1>0, <2>4, <3>2, <4>1
      <4>2. CASE i = cur
        <5>1. \A d \in Cpus : running'[d] # i
          BY <1>0, <2>4, <3>2, <3>4, <4>2
        <5>2. state'[i] # "running"
          BY <2>4, <3>2, <4>2
        <5> QED BY <5>1, <5>2
      <4>3. CASE i # n /\ i # cur
        <5>1. state'[i] = st1[i]
          BY <2>4, <4>3
        <5>2. \A d \in Cpus : running'[d] = i <=> running[d] = i
          BY <1>0, <2>4, <4>3
        <5> QED BY Zenon, <3>1, <5>1, <5>2 DEF Agree
      <4> QED BY <4>1, <4>2, <4>3
    <3>7. ASSUME NEW d \in Cpus, mode'[d] \in IdleModes
          PROVE  IdleAt(d, state', running')
      <4>1. d # c /\ mode[d] \in IdleModes
        BY <1>0, <2>4, <3>7 DEF IdleModes
      <4>2. running'[d] = running[d] /\ running[d] # n /\ running[d] # cur
        BY <1>0, <2>4, <3>3, <3>4, <4>1
      <4>3. running[d] # None => running[d] \in Slots
        BY <1>0
      <4> QED BY <2>4, <3>1, <4>1, <4>2, <4>3 DEF IdleAt
    <3> QED BY <3>5, <3>6, <3>7
  <2> QED BY <2>0, <2>1, <2>3, <2>4 DEF Claimed
<1>6. ASSUME NEW c \in Cpus, NEW w, ParkChecked(c, w) PROVE Claimed'
  <2> DEFINE pr == IF w = Wait("ipc") THEN SetIpc(preds, running[c], w)
                   ELSE [preds EXCEPT ![running[c]] = @ \cup {w}]
  <2>1. fellBack' = fellBack /\ running[c] \in Slots
    BY <1>6, <1>a DEF ParkChecked, UnchangedIdentity, Executing
  <2>2. "leave" \in Modes
    BY DEF Modes
  <2>3. CASE state[running[c]] = "running"
    <3>1. PickAndClaim(c, running[c], [state EXCEPT ![running[c]] = "waiting"], pr,
                       ClearRunningSlot(running, c, running[c]), "switch", "leave")
      BY Zenon, <1>6, <2>3 DEF ParkChecked, Switch
    <3>2. Gentle(state, state, running)
      BY <1>0, WakeGentle
    <3> QED BY Zenon, <1>0, <1>b, <2>1, <2>2, <3>1, <3>2, ParkClaimed
  <2>4. CASE state[running[c]] # "running"
    <3>1. PickAndClaim(c, running[c], state, pr, running, "switch", "leave")
      BY <1>6, <2>4 DEF ParkChecked, Switch
    <3>2. IdleAt(c, state, running)
      BY <2>4 DEF IdleAt
    <3> QED BY <1>0, <2>1, <2>2, <3>1, <3>2, PickClaimed DEF Claimed
  <2> QED BY <2>3, <2>4
<1>7. ASSUME NEW c \in Cpus, NEW w, ParkLocked(c, w) PROVE Claimed'
  <2> DEFINE pr == IF w = Wait("ipc") THEN SetIpc(preds, running[c], w)
                   ELSE [preds EXCEPT ![running[c]] = @ \cup {w}]
  <2>1. /\ fellBack' = fellBack /\ running[c] \in Slots
        /\ PickAndClaim(c, running[c], [state EXCEPT ![running[c]] = "waiting"], pr,
                        ClearRunningSlot(running, c, running[c]), "switch", "leave")
    BY Zenon, <1>7, <1>a DEF ParkLocked, Switch, UnchangedIdentity, Executing
  <2>2. "leave" \in Modes /\ Gentle(state, state, running)
    BY <1>0, WakeGentle DEF Modes
  <2> QED BY Zenon, <1>0, <1>b, <2>1, <2>2, ParkClaimed
<1>8. ASSUME NEW c \in Cpus, NEW w, mode[c] = "user", Reap(c, w) PROVE Claimed'
  <2>1. Gentle(state, state', running)
    BY <1>0, <1>8 DEF Reap, Gentle, Dead, ZombieChildren
  <2> QED BY <1>0, <1>8, <2>1, GentleClaimed DEF Reap, UnchangedIdentity, IdleModes
<1>9. ASSUME NEW c \in Cpus, NEW w, LinuxWait4(c, w) PROVE Claimed'
  <2> DEFINE pr == [preds EXCEPT ![running[c]] = @ \cap {Wait("sigsuspend")}]
  <2>1. mode[c] = "user" /\ running[c] \in Slots
    BY ZenonT(30), <1>9, <1>a DEF LinuxWait4, Executing
  <2>2. CASE Reap(c, w)
    BY <1>8, <2>1, <2>2
  <2>3. CASE /\ Switch(c, [state EXCEPT ![running[c]] = "waiting"], pr,
                       ClearRunningSlot(running, c, running[c]))
             /\ fellBack' = fellBack
    <3>1. "leave" \in Modes /\ Gentle(state, state, running)
      BY <1>0, WakeGentle DEF Modes
    <3> QED BY ZenonT(30), <1>0, <1>b, <2>1, <2>3, <3>1, ParkClaimed DEF Switch
  <2> QED BY ZenonT(30), <1>9, <2>2, <2>3 DEF LinuxWait4, UnchangedIdentity
<1>10. ASSUME NEW c \in Cpus, SysWaitScan(c) PROVE Claimed'
  <2>1. CASE Reap(c, 0)
    BY <1>8, <1>10, <2>1 DEF SysWaitScan
  <2>2. CASE /\ mode' = [mode EXCEPT ![c] = "wait"]
             /\ UNCHANGED <<state, running>> /\ UnchangedIdentity
    BY <1>0, <2>2 DEF UnchangedIdentity, Claimed, IdleModes
  <2> QED BY <1>10, <2>1, <2>2 DEF SysWaitScan
<1>11. ASSUME NEW c \in Cpus, SysWaitPark(c) PROVE Claimed'
  <2>0. fellBack' = fellBack /\ running[c] \in Slots /\ mode[c] = "keep"
    BY Zenon, <1>11, <1>a DEF SysWaitPark, UnchangedIdentity, Executing
  <2>2. CASE Switch(c, [state EXCEPT ![running[c]] = "waiting"], preds,
                    ClearRunningSlot(running, c, running[c]))
    <3>1. "leave" \in Modes /\ Gentle(state, state, running)
      BY <1>0, WakeGentle DEF Modes
    <3> QED BY Zenon, <1>0, <1>b, <2>0, <2>2, <3>1, ParkClaimed DEF Switch
  <2>3. CASE KeepRunning(c, running[c])
    <3>1. /\ state' = [state EXCEPT ![running[c]] = "running"]
          /\ running' = running
          /\ mode' = [mode EXCEPT ![c] = "user"]
      BY <1>0, <2>3 DEF KeepRunning
    <3>2. ASSUME ~fellBack PROVE Agree(state', running)
      <4>1. Agree(state, running) /\ Unique(running)
        BY <3>2 DEF Claimed
      <4> QED BY <1>0, <2>0, <3>1, <4>1 DEF Agree
    <3>3. ASSUME ~fellBack, NEW d \in Cpus, mode'[d] \in IdleModes
          PROVE  IdleAt(d, state', running)
      <4>1. d # c /\ mode[d] \in IdleModes
        BY <1>0, <3>1, <3>3 DEF IdleModes
      <4>2. IdleAt(d, state, running) /\ Unique(running)
        BY <3>3, <4>1 DEF Claimed
      <4>3. running[d] # None => running[d] # running[c]
        BY <2>0, <4>1, <4>2 DEF Unique
      <4> QED BY <1>0, <2>0, <3>1, <4>2, <4>3 DEF IdleAt
    <3> QED BY Zenon, <2>0, <3>1, <3>2, <3>3 DEF Claimed
  <2> QED BY Zenon, <1>11, <2>2, <2>3 DEF SysWaitPark
<1>11a. ASSUME NEW c \in Cpus, SysWaitCount(c) PROVE Claimed'
  <2>1. /\ mode'[c] \notin IdleModes /\ \A d \in Cpus \ {c} : mode'[d] = mode[d]
        /\ UNCHANGED <<state, running, fellBack>>
    BY <1>0, <1>11a DEF SysWaitCount, UnchangedIdentity, IdleModes
  <2> QED BY Zenon, <2>1 DEF Claimed
<1>12. ASSUME NEW c \in Cpus, Create(c) PROVE Claimed'
  <2>1. PICK i \in Slots : ChosenSlot(i) /\ state' = [state EXCEPT ![i] = "waiting"]
    BY Zenon, <1>12 DEF Create
  <2>2. \A d \in Cpus : running[d] # i
    BY <2>1 DEF ChosenSlot, FreeSlots, RecyclableSlots, SlotInUse
  <2>3. Gentle(state, state', running)
    BY <1>0, <2>1, <2>2 DEF Gentle
  <2> QED BY <1>0, <1>12, <2>3, GentleClaimed DEF Create, IdleModes
<1>13. ASSUME NEW c \in Cpus, ForkFail(c) PROVE Claimed'
  <2>1. Gentle(state, state', running)
    BY <1>0, <1>13 DEF ForkFail, Gentle, Dead
  <2> QED BY <1>0, <1>13, <2>1, GentleClaimed DEF ForkFail, UnchangedIdentity, IdleModes
<1>14. ASSUME NEW c \in Cpus, NEW thread \in BOOLEAN, Clone(c, thread) PROVE Claimed'
  BY <1>0, <1>14 DEF Clone, Claimed, IdleModes
<1>15. ASSUME NEW c \in Cpus, Publish(c) PROVE Claimed'
  <2>1. Gentle(state, state', running)
    BY <1>0, <1>15, WakeGentle DEF Publish
  <2> QED BY <1>0, <1>15, <2>1, GentleClaimed DEF Publish, IdleModes
<1>16. ASSUME NEW c \in Cpus, VforkHandoff(c) PROVE Claimed'
  <2> DEFINE st == MakeReady(state, nxt[c])
             pr == SetIpc(preds, running[c], VforkDone(pid[nxt[c]]))
  <2>1. fellBack' = fellBack /\ running[c] \in Slots
    BY <1>16, <1>a DEF VforkHandoff, Executing
  <2>2. "vfail" \in Modes /\ Gentle(state, st, running) /\ st \in [Slots -> EsperState]
    BY Zenon, <1>0, WakeGentle DEF Modes, MakeReady, EsperState
  <2>3. CASE state[running[c]] = "running"
    <3>1. PickAndClaim(c, running[c], [st EXCEPT ![running[c]] = "waiting"], pr,
                       ClearRunningSlot(running, c, running[c]), "switch", "vfail")
      BY Zenon, <1>16, <2>3 DEF VforkHandoff
    <3> HIDE DEF st, pr
    <3> QED BY Zenon, <1>b, <2>1, <2>2, <3>1, ParkClaimed
  <2>4. CASE state[running[c]] # "running"
    <3>1. PickAndClaim(c, running[c], st, pr, running, "switch", "vfail")
      BY ZenonT(30), <1>16, <2>4 DEF VforkHandoff
    <3>2. IdleAt(c, state, running)
      BY <2>4 DEF IdleAt
    <3> HIDE DEF st, pr
    <3>3. ~fellBack => /\ Unique(running) /\ Agree(st, running) /\ IdleAt(c, st, running)
                       /\ \A d \in Cpus : mode[d] \in IdleModes => IdleAt(d, st, running)
      BY <1>0, <2>2, <3>2, GentleAgree DEF Claimed
    <3> QED BY <1>0, <2>1, <2>2, <3>1, <3>3, PickClaimed
  <2> QED BY <2>3, <2>4
<1>17. ASSUME NEW c \in Cpus, VforkFallback(c) PROVE Claimed'
  BY <1>17 DEF VforkFallback, Claimed
<1>18. ASSUME NEW c \in Cpus, Exec(c) \/ ExitBegin(c) PROVE Claimed'
  <2>1. Gentle(state, Ready(state, VforkWaiters(pid[running[c]])), running)
    BY <1>0, WakeGentle DEF VforkWaiters
  <2>2. CASE Exec(c)
    BY <1>0, <2>1, <2>2, GentleClaimed DEF Exec, IdleModes
  <2>3. CASE ExitBegin(c)
    BY <1>0, <2>1, <2>3, GentleClaimed DEF ExitBegin, IdleModes
  <2> QED BY <1>18, <2>2, <2>3
<1>19. ASSUME NEW c \in Cpus, ExitFinish(c) PROVE Claimed'
  <2> DEFINE cur == running[c]
             st == Dying({cur})
  <2>1. fellBack' = fellBack /\ cur \in Slots
    BY ZenonT(30), <1>19, <1>a DEF ExitFinish, UnchangedIdentity, Executing
  <2>2. PickAndClaim(c, cur, st, DyingPreds({cur}), ClearRunningSlot(running, c, cur),
                     "switch", "leave")
    BY <1>19 DEF ExitFinish, Switch
  <2>3. st \in [Slots -> EsperState] /\ Gentle(state, st, running) /\ "leave" \in Modes
    BY ZenonT(30), DeathType, DeathGentle DEF Modes
  <2>4. st[cur] \in EsperState \ {"running"}
    BY <2>1 DEF Dying, EsperState
  <2> HIDE DEF st
  <2>5. st = [st EXCEPT ![cur] = st[cur]]
    BY <2>3
  <2> QED BY <2>1, <2>2, <2>3, <2>4, <2>5, ParkClaimed
<1>20. ASSUME NEW c \in Cpus, GroupExit(c) PROVE Claimed'
  <2> DEFINE cur == running[c]
             G == Group(mm[cur])
             st == Dying(G)
  <2>1. fellBack' = fellBack /\ cur \in Slots
    BY <1>20, <1>a DEF GroupExit, Executing
  <2>2. Switch(c, st, DyingPreds(G),
               IF cur \in G THEN [running EXCEPT ![c] = None] ELSE running)
    BY <1>20 DEF GroupExit
  <2>3. st \in [Slots -> EsperState] /\ Gentle(state, st, running) /\ "leave" \in Modes
    BY ZenonT(30), DeathType, DeathGentle DEF Modes
  <2>4. CASE cur \in G
    <3>1. st[cur] \in EsperState \ {"running"}
      BY <2>1, <2>4 DEF Dying, EsperState
    <3>2. ClearRunningSlot(running, c, cur) = [running EXCEPT ![c] = None]
      BY DEF ClearRunningSlot
    <3> HIDE DEF st, G
    <3>3. st = [st EXCEPT ![cur] = st[cur]]
      BY <2>3
    <3>4. PickAndClaim(c, cur, [st EXCEPT ![cur] = st[cur]], DyingPreds(G),
                       ClearRunningSlot(running, c, cur), "switch", "leave")
      BY <2>2, <2>4, <3>2, <3>3 DEF Switch
    <3> QED BY ZenonT(30), <2>1, <2>3, <3>1, <3>4, ParkClaimed
  <2>5. CASE cur \notin G
    <3>1. IdleAt(c, state, running)
      BY <2>1, <2>5 DEF IdleAt, Group, Dead
    <3> HIDE DEF st, G
    <3>2. ~fellBack => /\ Unique(running) /\ Agree(st, running) /\ IdleAt(c, st, running)
                       /\ \A d \in Cpus : mode[d] \in IdleModes => IdleAt(d, st, running)
      BY <1>0, <2>3, <3>1, GentleAgree DEF Claimed
    <3>3. PickAndClaim(c, cur, st, DyingPreds(G), running, "switch", "leave")
      BY <2>2, <2>5 DEF Switch
    <3> QED BY <1>0, <2>1, <2>3, <3>2, <3>3, PickClaimed
  <2> QED BY <2>4, <2>5
<1>20a. ASSUME NEW c \in Cpus, ReleaseGroup(c) PROVE Claimed'
  BY Zenon, <1>20a DEF ReleaseGroup, Claimed
<1>21. ASSUME NEW c \in Cpus, Fault(c) PROVE Claimed'
  <2>1. /\ fellBack' = fellBack /\ running[c] \in Slots
        /\ PickAndClaim(c, running[c], [state EXCEPT ![running[c]] = "faulted"], preds,
                        ClearRunningSlot(running, c, running[c]), "switch", "leave")
    BY <1>21, <1>a DEF Fault, Switch, UnchangedIdentity, Executing
  <2>2. "leave" \in Modes /\ Gentle(state, state, running)
    BY <1>0, WakeGentle DEF Modes
  <2> QED BY ZenonT(30), <1>0, <1>b, <2>1, <2>2, ParkClaimed
<1>22. ASSUME NEW i \in Slots, Kill(i) PROVE Claimed'
  <2>1. Gentle(state, state', running)
    BY ZenonT(30), <1>22, DeathGentle DEF Kill
  <2> QED BY <1>22, <2>1, GentleClaimed DEF Kill, UnchangedIdentity
<1>23. ASSUME NEW c \in Cpus, KillSelf(c) PROVE Claimed'
  <2>1. Gentle(state, state', running)
    BY ZenonT(30), <1>23, DeathGentle DEF KillSelf
  <2>2. IdleAt(c, state', running)
    <3>1. running[c] \in Slots
      BY <1>23, <1>a DEF KillSelf, Executing
    <3> QED BY ZenonT(30), <1>23, <3>1 DEF KillSelf, Killed, IdleAt
  <2> QED BY ZenonT(30), <1>0, <1>23, <2>1, <2>2, GentleClaimed DEF KillSelf, UnchangedIdentity
<1>24. ASSUME NEW c \in Cpus, PickAfterKill(c) PROVE Claimed'
  <2>1. /\ PickAndClaim(c, running[c], state, preds, running, "switch", "leave")
        /\ fellBack' = fellBack /\ mode[c] \in IdleModes /\ "leave" \in Modes
    BY <1>24 DEF PickAfterKill, Switch, UnchangedIdentity, IdleModes, Modes
  <2> QED BY <1>0, <2>1, PickClaimed DEF Claimed
<1>25. ASSUME NEW i \in Slots, NEW k, Wake(i, k) \/ Interrupt(i) PROVE Claimed'
  <2>1. Gentle(state, state', running)
    BY ZenonT(30), <1>0, <1>25 DEF Wake, Interrupt, Gentle
  <2> QED BY ZenonT(30), <1>25, <2>1, GentleClaimed DEF Wake, Interrupt, UnchangedIdentity
<1>26. ASSUME NEW c \in Cpus, NEW n, SetOnline(c, n) PROVE Claimed'
  BY <1>26 DEF SetOnline, Claimed
<1>27. ASSUME NEW c \in Cpus, CoreStep(c) PROVE Claimed'
  BY Zenon, <1>27, <1>1, <1>2, <1>3, <1>4, <1>5, <1>6, <1>7, <1>9, <1>10, <1>11, <1>11a,
     <1>12, <1>13, <1>14, <1>15, <1>16, <1>17, <1>18, <1>19, <1>20, <1>20a, <1>21, <1>23,
     <1>24, <1>26 DEF CoreStep
<1> QED BY <1>22, <1>25, <1>27 DEF Next

-----------------------------------------------------------------------------
(* The theorems.                                                            *)

\* The initial table, with the first process ready in slot 0, satisfies IInv.
LEMMA InitIInv == Init => IInv
<1> SUFFICES ASSUME Init PROVE IInv
  OBVIOUS
<1>1. TypeOK
  <2>1. 0 \in Slots /\ 1 \in 1 .. MaxPid /\ 2 \in 2 .. MaxPid + 1
    BY SchedulerAssumption DEF Slots
  <2>2. setup.cores \in 1 .. NCpus
    BY SetupType DEF Init
  <2>3. state \in [Slots -> EsperState] /\ mode \in [Cpus -> Modes]
    BY DEF Init, EsperState, Modes
  <2>4. 0 \in 0 .. MaxPid /\ 1 \in 0 .. MaxPid
    BY SchedulerAssumption
  <2>5. pid \in [Slots -> 0 .. MaxPid]
    BY <2>4 DEF Init
  <2>6. mm \in [Slots -> SUBSET Slots] /\ drop \in [Cpus -> SUBSET Slots]
    BY <2>1 DEF Init
  <2>7. preds \in [Slots -> SUBSET WaitPredicates] /\ published \in [Slots -> BOOLEAN]
    BY DEF Init
  <2>8. /\ parent \in [Slots -> Slots \cup {None}] /\ want \in [Slots -> 0 .. MaxPid]
        /\ execPid \in [Cpus -> 0 .. MaxPid] /\ reaped \in [Pids -> 0 .. 2]
    BY <2>4 DEF Init
  <2>9. /\ running \in [Cpus -> Slots \cup {None}]
        /\ active \in [Cpus -> Slots \cup {None}]
        /\ nxt \in [Cpus -> Slots \cup {None}]
    BY DEF Init
  <2>10. setup \in Setups /\ online \in 1 .. NCpus /\ nextPid \in 2 .. MaxPid + 1
         /\ fellBack \in BOOLEAN
    BY Zenon, <2>1, <2>2 DEF Init
  <2> QED BY <2>3, <2>5, <2>6, <2>7, <2>8, <2>9, <2>10 DEF TypeOK
<1>2. Placed
  BY DEF Init, Placed, PlacedAt, Executing, Loaded
<1>3. Claimed
  BY DEF Init, Claimed, Unique, Agree, IdleAt, None, Slots
<1> QED BY <1>1, <1>2, <1>3 DEF IInv

\* IInv is inductive and therefore an invariant.
THEOREM Inductive == Spec => []IInv
<1>1. IInv /\ [Next]_vars => IInv'
  <2> SUFFICES ASSUME IInv, [Next]_vars PROVE IInv'
    OBVIOUS
  <2>1. CASE Next
    BY <2>1, TypeStep, PlacedStep, ClaimedStep DEF IInv
  <2>2. CASE UNCHANGED vars
    BY Zenon, <2>2 DEF vars, IInv, TypeOK, Placed, PlacedAt, Claimed
  <2> QED BY <2>1, <2>2
<1> QED BY <1>1, InitIInv, PTL DEF Spec

\* The type invariant, for every number of slots, cores and processes.
THEOREM TypeCorrect == Spec => []TypeOK
<1>1. IInv => TypeOK
  BY DEF IInv
<1> QED BY <1>1, Inductive, PTL

\* No Esper is ever in two cores' run slots, unless linux_clone fell back.
THEOREM ClaimsAreSingle == Spec => []SingleClaim
<1>1. IInv => SingleClaim
  BY DEF IInv, Claimed, Unique, SingleClaim
<1> QED BY <1>1, Inductive, PTL

\* A running Esper has a core, and one that can be picked or woken has none.
THEOREM ClaimsMatchTable == Spec => []ClaimsAgree
<1>1. IInv => ClaimsAgree
  BY DEF IInv, Claimed, Agree, ClaimsAgree, RunningSomewhere
<1> QED BY <1>1, Inductive, PTL

\* Two cores never execute one Esper.
THEOREM MutualExclusion == Spec => []NoDoubleExecution
<1>1. IInv => NoDoubleExecution
  <2> SUFFICES ASSUME IInv, ~fellBack, NEW c \in Cpus, NEW d \in Cpus, c # d,
                      mode[c] \in Executing, mode[d] \in Executing
               PROVE  active[c] # active[d]
    BY DEF NoDoubleExecution
  <2>1. running[c] = active[c] /\ running[d] = active[d] /\ active[c] \in Slots
    BY Zenon DEF IInv, Placed, PlacedAt, Loaded
  <2>2. Unique(running) /\ None \notin Slots
    BY DEF IInv, Claimed, None, Slots
  <2> QED BY <2>1, <2>2 DEF Unique
<1> QED BY <1>1, Inductive, PTL

\* A slot is never given to a new process while a core has the old one loaded.
THEOREM LoadedSlotsAreStable == Spec => []SlotStable
<1>1. IInv => SlotStable
  BY DEF IInv, Placed, PlacedAt, SlotStable
<1> QED BY <1>1, Inductive, PTL
===============================================================================
