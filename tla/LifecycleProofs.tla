-------------------------- MODULE LifecycleProofs ---------------------------
(***************************************************************************)
(* Proofs about Lifecycle and Options, for any processes and any command   *)
(* lines.                                                                  *)
(***************************************************************************)
EXTENDS Lifecycle, TLAPS

-----------------------------------------------------------------------------
(* The configuration.                                                      *)

\* The settings of a configuration that another overrides in some of them.
LEMMA OverrideIs ==
  ASSUME NEW cfg, NEW with, NEW settings
  PROVE  /\ DOMAIN Override(cfg, with, settings) = DOMAIN cfg
         /\ \A s \in DOMAIN cfg :
              Override(cfg, with, settings)[s] =
                IF s \in settings /\ s \in DOMAIN with THEN with[s] ELSE cfg[s]
BY DEF Override

\* The steps of Setup put together what the help of the flags promises.
LEMMA SetupAppliesAll ==
  ASSUME NEW l \in Lines, NEW s \in DOMAIN Default
  PROVE  ApplyTo(l)[s] = AskedFor(l, s)
<1> DEFINE fromFile == LoadConfigFromFile(l.file)
           fromFlags == ApplyDeprecated(Default, l.flags)
           base == IF l.config THEN fromFile ELSE fromFlags
           elected == ApplyLeaderElectionTo(base, l.flags)
<1>1. /\ DOMAIN fromFile = DOMAIN Default
      /\ fromFile[s] = IF s \in DOMAIN l.file THEN l.file[s] ELSE Default[s]
  BY OverrideIs DEF LoadConfigFromFile
<1>2. /\ DOMAIN fromFlags = DOMAIN Default
      /\ fromFlags[s] = IF s \in DeprecatedFlags /\ s \in DOMAIN l.flags
                          THEN l.flags[s] ELSE Default[s]
  BY OverrideIs DEF ApplyDeprecated
<1>3. DOMAIN base = DOMAIN Default
  BY <1>1, <1>2
<1>4. /\ DOMAIN elected = DOMAIN Default
      /\ elected[s] = IF s \in LeaderElectionFlags /\ s \in DOMAIN l.flags
                        THEN l.flags[s] ELSE base[s]
  BY <1>3, OverrideIs DEF ApplyLeaderElectionTo
<1>5. ApplyTo(l) = Override(elected, l.flags, {"podMaxInUnschedulable"})
  BY DEF ApplyTo
<1>6. ApplyTo(l)[s] = IF s = "podMaxInUnschedulable" /\ s \in DOMAIN l.flags
                        THEN l.flags[s] ELSE elected[s]
  BY <1>4, <1>5, OverrideIs
<1>7. /\ l.config \in BOOLEAN
      /\ s \in DOMAIN l.flags =>
           s \in LeaderElectionFlags \/ s \in DeprecatedFlags \/ s = "podMaxInUnschedulable"
  BY LinesAssumption
<1>8. s \in DeprecatedFlags => s \notin LeaderElectionFlags /\ s # "podMaxInUnschedulable"
  BY DEF DeprecatedFlags, LeaderElectionFlags
<1> HIDE DEF fromFile, fromFlags, elected
<1> QED
  BY <1>1, <1>2, <1>4, <1>6, <1>7, <1>8 DEF AskedFor

-----------------------------------------------------------------------------
(* Types, and what a process is allowed to have at each stage.             *)

\* The configuration is the one of the command line, and without leader election there
\* is one process.
OneLine ==
  /\ line \in Lines /\ cc = ApplyTo(line)
  /\ cc.elect \/ \A r, s \in Replicas : lives[r] > 0 /\ lives[s] > 0 => r = s
Launched ==
  \A r \in Replicas : main[r] # "down" => lives[r] > 0 /\ ~line.write

\* Who was elected has an election and valid durations, and who leads has the lease;
\* the scheduler that nobody has to elect runs at once.
Elected(r) == main[r] \in {"electing", "leading", "releasing", "cancelling", "stopping"}
ElectedProperly ==
  \A r \in Replicas :
    /\ main[r] = "inline" => ~cc.elect /\ runner[r] \in {"running", "closed"}
    /\ Elected(r) => cc.elect /\ cc.times = "valid"
    /\ main[r] = "leading" => lease = r

\* Before a process leads it has no other goroutines.
AloneAtFirst ==
  \A r \in Replicas :
    main[r] \in {"down", "starting", "electing"} => runner[r] = "off" /\ loop[r] = "off"

\* The informers of a process that has been started are started too, unless they are
\* delayed until it leads.
InformersStarted ==
  \A r \in Replicas :
    informers[r] = "off" => main[r] = "down" \/ (Delay /\ runner[r] \in {"off", "begun"})

\* Whoever did not delay the informers has waited for them, and so has the scheduler
\* when it runs; the caches are synced if the wait was not cut short.
WaitedFor ==
  \A r \in Replicas :
    /\ ~Delay /\ main[r] \notin {"down", "starting"} => Synced(r) \/ Done(r)
    /\ loop[r] = "check" => Synced(r) \/ Done(r)
    /\ loop[r] \in {"pop", "cycle"} => Synced(r)

LifeInv ==
  /\ TypeOK /\ OneLine /\ Launched /\ ElectedProperly
  /\ AloneAtFirst /\ InformersStarted /\ WaitedFor

\* The invariant holds when the replicas are launched.
LEMMA LifeInit == Init => LifeInv
BY ReplicasAssumption DEF Init, LifeInv, TypeOK, OneLine, Launched, ElectedProperly, Elected, AloneAtFirst, InformersStarted, WaitedFor

-----------------------------------------------------------------------------
(* The steps keep it.                                                      *)

\* What the invariant says of one process.
OfProcess(r) ==
  /\ r \in signalled \cup cancelled \cup queueClosed => main[r] # "down"
  /\ loop[r] # "off" => runner[r] \in {"running", "closed"}
  /\ main[r] # "down" => lives[r] > 0 /\ ~line.write
  /\ main[r] = "inline" => ~cc.elect /\ runner[r] \in {"running", "closed"}
  /\ Elected(r) => cc.elect /\ cc.times = "valid"
  /\ main[r] = "leading" => lease = r
  /\ main[r] \in {"down", "starting", "electing"} => runner[r] = "off" /\ loop[r] = "off"
  /\ informers[r] = "off" => main[r] = "down" \/ (Delay /\ runner[r] \in {"off", "begun"})
  /\ ~Delay /\ main[r] \notin {"down", "starting"} => Synced(r) \/ Done(r)
  /\ loop[r] = "check" => Synced(r) \/ Done(r)
  /\ loop[r] \in {"pop", "cycle"} => Synced(r)

\* The types of the variables by themselves.
VariablesOK ==
  /\ line \in Lines
  /\ lease \in Replicas \cup {NoOne}
  /\ main \in [Replicas -> {"down", "starting", "electing", "leading", "releasing",
                            "cancelling", "stopping", "inline"}]
  /\ runner \in [Replicas -> {"off", "begun", "syncing", "running", "closed"}]
  /\ loop \in [Replicas -> {"off", "check", "pop", "cycle", "ended"}]
  /\ informers \in [Replicas -> {"off", "started", "synced"}]
  /\ signalled \cup cancelled \cup queueClosed \subseteq Replicas
  /\ lives \in [Replicas -> 0..MaxLives]

\* The invariant, process by process.
LEMMA ByProcess ==
  LifeInv <=> VariablesOK /\ OneLine /\ \A r \in Replicas : OfProcess(r)
BY DEF LifeInv, VariablesOK, OfProcess, TypeOK, Launched, ElectedProperly, AloneAtFirst, InformersStarted, WaitedFor

\* Steps of a process after it was launched keep what is said of it.
LEMMA MainStep ==
  ASSUME VariablesOK, NEW r \in Replicas, OfProcess(r),
         Main(r) \/ StopRenewing(r)
  PROVE  VariablesOK' /\ OfProcess(r)'
<1> USE ReplicasAssumption DEF VariablesOK, OfProcess, Elected, Delay, Synced, Done, Waited, configured, ending
<1>1. CASE BeginElection(r)
  BY <1>1 DEF BeginElection, NewLeaderElector
<1>2. CASE NoElector(r) \/ OnStoppedLeading(r) \/ ReturnInline(r)
  BY <1>2 DEF NoElector, OnStoppedLeading, ExitAnyway, ReturnInline, Exit
<1>3. CASE RunInline(r)
  BY <1>3 DEF RunInline
<1>4. CASE Acquire(r)
  BY <1>4 DEF Acquire
<1>5. CASE GiveUp(r)
  BY <1>5 DEF GiveUp
<1>6. CASE Release(r)
  BY <1>6 DEF Release
<1>7. CASE CancelContext(r)
  BY <1>7 DEF CancelContext
<1>8. CASE StopRenewing(r)
  BY <1>8 DEF StopRenewing
<1> QED
  BY <1>1, <1>2, <1>3, <1>4, <1>5, <1>6, <1>7, <1>8 DEF Main

\* The runner, the loop, the informers and a signal keep what is said of their process.
LEMMA GoroutineStep ==
  ASSUME VariablesOK, NEW r \in Replicas, OfProcess(r),
         Runner(r) \/ ScheduleLoop(r) \/ InformersSync(r) \/ Signal(r)
  PROVE  VariablesOK' /\ OfProcess(r)'
<1> USE ReplicasAssumption DEF VariablesOK, OfProcess, Elected, Delay, Synced, Done, Waited, configured, ending
<1>1. CASE OnStartedLeading(r)
  BY <1>1 DEF OnStartedLeading, StartLoop
<1>2. CASE RunSynced(r)
  BY <1>2 DEF RunSynced
<1>3. CASE CloseQueue(r)
  BY <1>3 DEF CloseQueue, MayClose
<1>4. CASE CheckContext(r)
  BY <1>4 DEF CheckContext
<1>5. CASE NextPod(r) \/ NoPod(r) \/ EndCycle(r)
  BY <1>5 DEF NextPod, NoPod, EndCycle
<1>6. CASE InformersSync(r)
  BY <1>6 DEF InformersSync
<1>7. CASE Signal(r)
  BY <1>7 DEF Signal
<1> QED
  BY <1>1, <1>2, <1>3, <1>4, <1>5, <1>6, <1>7 DEF Runner, ScheduleLoop

\* A process is launched with what Setup accepts, and alone if there is no election.
LEMMA LaunchStep ==
  ASSUME VariablesOK, OneLine, NEW r \in Replicas, OfProcess(r), Launch(r)
  PROVE  VariablesOK' /\ OneLine' /\ OfProcess(r)'
<1> USE ReplicasAssumption DEF VariablesOK, Launch, Launching, configured, ending
<1>1. VariablesOK'
  OBVIOUS
<1>2. OneLine'
  <2>1. cc.elect = AskedFor(line, "elect")
    BY SetupAppliesAll DEF OneLine, Default
  <2>2. cc' = cc /\ line' = line /\ lives' = [lives EXCEPT ![r] = lives[r] + 1]
    OBVIOUS
  <2>3. CASE cc.elect
    BY <2>2, <2>3 DEF OneLine
  <2>4. CASE \A s \in Replicas : lives[s] > 0 => s = r
    BY <2>2, <2>4 DEF OneLine
  <2> QED
    BY <2>1, <2>3, <2>4
<1>3. OfProcess(r)'
  BY DEF OfProcess, Elected, Delay, Synced, Done, Setup
<1> QED
  BY <1>1, <1>2, <1>3

\* A lease that expires has no leader: nothing said of any process changes.
LEMMA ExpireStep ==
  ASSUME VariablesOK, NEW r \in Replicas, OfProcess(r), Expire(r)
  PROVE  VariablesOK' /\ \A s \in Replicas : OfProcess(s) => OfProcess(s)'
<1>1. \A s \in Replicas : main[s] = "leading" /\ OfProcess(s) => s # r \/ lease # r
  BY DEF Expire, OfProcess, Elected
<1> QED
  BY <1>1 DEF Expire, VariablesOK, OfProcess, Elected, Delay, Synced, Done, configured, ending

\* A step of one process leaves the others with what they have.
LEMMA OthersKeepTheirs ==
  ASSUME VariablesOK, NEW r \in Replicas,
         \/ Launch(r) \/ Main(r) \/ StopRenewing(r)
         \/ Runner(r) \/ ScheduleLoop(r) \/ InformersSync(r) \/ Signal(r)
  PROVE  \A s \in Replicas \ {r} : OfProcess(s) => OfProcess(s)'
<1> SUFFICES ASSUME NEW s \in Replicas \ {r}, OfProcess(s)
             PROVE  OfProcess(s)'
  OBVIOUS
<1> USE ReplicasAssumption DEF VariablesOK, configured, ending
<1>1. /\ main'[s] = main[s] /\ runner'[s] = runner[s] /\ loop'[s] = loop[s]
      /\ informers'[s] = informers[s] /\ lives'[s] = lives[s]
      /\ line' = line /\ cc' = cc
      /\ s \in signalled' <=> s \in signalled
      /\ s \in cancelled' <=> s \in cancelled
      /\ s \in queueClosed' <=> s \in queueClosed
  <2>1. CASE Launch(r)
    BY <2>1 DEF Launch, Launching
  <2>2. CASE Main(r)
    BY <2>2 DEF Main, BeginElection, NoElector, RunInline, Acquire, GiveUp, Release, CancelContext, OnStoppedLeading, ExitAnyway, ReturnInline, Exit
  <2>3. CASE StopRenewing(r) \/ InformersSync(r) \/ Signal(r)
    BY <2>3 DEF StopRenewing, InformersSync, Signal
  <2>4. CASE Runner(r)
    BY <2>4 DEF Runner, OnStartedLeading, RunSynced, CloseQueue
  <2>5. CASE ScheduleLoop(r)
    BY <2>5 DEF ScheduleLoop, CheckContext, NextPod, NoPod, EndCycle
  <2> QED
    BY <2>1, <2>2, <2>3, <2>4, <2>5
<1>2. lease = s => lease' = s
  <2>1. CASE Main(r)
    BY <2>1 DEF Main, BeginElection, NoElector, RunInline, Acquire, GiveUp, Release, CancelContext, OnStoppedLeading, ExitAnyway, ReturnInline, Exit
  <2> QED
    BY <2>1 DEF Launch, StopRenewing, InformersSync, Signal, Runner, OnStartedLeading, RunSynced, CloseQueue, ScheduleLoop, CheckContext, NextPod, NoPod, EndCycle
<1> QED
  BY <1>1, <1>2 DEF OfProcess, Elected, Delay, Synced, Done

\* Every step keeps the invariant.
LEMMA LifeStep == LifeInv /\ [Next]_vars => LifeInv'
<1> SUFFICES ASSUME VariablesOK, OneLine, \A r \in Replicas : OfProcess(r), [Next]_vars
             PROVE  VariablesOK' /\ OneLine' /\ \A r \in Replicas : OfProcess(r)'
  BY ByProcess DEF LifeInv, VariablesOK, OfProcess, TypeOK, Launched, ElectedProperly, AloneAtFirst, InformersStarted, WaitedFor, Synced, Done, Elected, Delay
<1>1. UNCHANGED <<line, cc, lives>> => OneLine'
  BY DEF OneLine
<1>2. ASSUME UNCHANGED vars PROVE VariablesOK' /\ OneLine' /\ \A r \in Replicas : OfProcess(r)'
  BY <1>2 DEF vars, configured, ending, VariablesOK, OneLine, OfProcess, Elected, Delay, Synced, Done
<1>3. ASSUME NEW r \in Replicas, SetupEnds(r)
      PROVE  VariablesOK' /\ OneLine' /\ \A s \in Replicas : OfProcess(s)'
  <2>1. lives' \in [Replicas -> 0..MaxLives] /\ \A s \in Replicas \ {r} : lives'[s] = lives[s]
    BY <1>3, ReplicasAssumption DEF SetupEnds, Launching, VariablesOK
  <2>2. lives'[r] = lives[r] + 1 /\ lives[r] \in Nat
    BY <1>3, ReplicasAssumption DEF SetupEnds, Launching, VariablesOK
  <2>3. OneLine'
    <3>1. cc.elect = AskedFor(line, "elect")
      BY SetupAppliesAll DEF OneLine, Default
    <3> QED
      BY <1>3, <2>1, <3>1 DEF OneLine, SetupEnds, Launching, configured, VariablesOK
  <2> QED
    BY <1>3, <2>1, <2>2, <2>3 DEF SetupEnds, VariablesOK, OfProcess, Elected, Delay, Synced, Done, configured, ending
<1>4. ASSUME NEW r \in Replicas, Launch(r)
      PROVE  VariablesOK' /\ OneLine' /\ \A s \in Replicas : OfProcess(s)'
  BY <1>4, LaunchStep, OthersKeepTheirs
<1>5. ASSUME NEW r \in Replicas, Main(r) \/ StopRenewing(r)
      PROVE  VariablesOK' /\ OneLine' /\ \A s \in Replicas : OfProcess(s)'
  <2>1. UNCHANGED <<line, cc, lives>>
    BY <1>5 DEF Main, BeginElection, NoElector, RunInline, Acquire, GiveUp, Release, CancelContext, OnStoppedLeading, ExitAnyway, ReturnInline, Exit, StopRenewing, configured
  <2> QED
    BY <1>1, <1>5, <2>1, MainStep, OthersKeepTheirs
<1>6. ASSUME NEW r \in Replicas, Runner(r) \/ ScheduleLoop(r) \/ InformersSync(r) \/ Signal(r)
      PROVE  VariablesOK' /\ OneLine' /\ \A s \in Replicas : OfProcess(s)'
  <2>1. UNCHANGED <<line, cc, lives>>
    BY <1>6 DEF InformersSync, Signal, Runner, OnStartedLeading, RunSynced, CloseQueue, ScheduleLoop, CheckContext, NextPod, NoPod, EndCycle, configured
  <2> QED
    BY <1>1, <1>6, <2>1, GoroutineStep, OthersKeepTheirs
<1>7. ASSUME NEW r \in Replicas, Expire(r)
      PROVE  VariablesOK' /\ OneLine' /\ \A s \in Replicas : OfProcess(s)'
  BY <1>1, <1>7, ExpireStep DEF Expire, configured
<1> QED
  BY <1>2, <1>3, <1>4, <1>5, <1>6, <1>7 DEF Next

\* The invariant holds in every reachable state.
LEMMA LifeInvariance == Spec => []LifeInv
BY LifeInit, LifeStep, PTL DEF Spec

-----------------------------------------------------------------------------
(* What follows.                                                           *)

\* Every variable keeps its type, whatever the command line and the number of processes.
THEOREM LifeTypes == Spec => []TypeOK
<1>1. LifeInv => TypeOK
  BY DEF LifeInv
<1> QED
  BY <1>1, LifeInvariance, PTL

\* Every process runs with what its command line asks for, and none is elected with
\* durations that are not valid, although the flags are not validated without a file.
THEOREM RunsAsConfigured == Spec => []AsConfigured
<1>1. LifeInv => AsConfigured
  <2> SUFFICES ASSUME LifeInv, NEW r \in Replicas, main[r] # "down" PROVE
        /\ ~line.write
        /\ \A s \in DOMAIN Default : cc[s] = AskedFor(line, s)
        /\ main[r] \notin {"down", "starting", "inline"} => cc.times = "valid"
    BY DEF AsConfigured
  <2>1. \A s \in DOMAIN Default : cc[s] = AskedFor(line, s)
    BY SetupAppliesAll DEF LifeInv, OneLine
  <2>2. main[r] \in {"starting", "inline"} \/ Elected(r)
    BY DEF LifeInv, TypeOK, Elected
  <2> QED
    BY <2>1, <2>2 DEF LifeInv, Launched, ElectedProperly
<1> QED
  BY <1>1, LifeInvariance, PTL

\* Nothing is scheduled before the caches are synced, also when waiting for them was cut
\* short: then the context is done, and ScheduleOne is not called any more.
THEOREM SchedulesSynced == Spec => []SyncedBeforeScheduling
<1>1. LifeInv => SyncedBeforeScheduling
  BY DEF LifeInv, WaitedFor, SyncedBeforeScheduling
<1> QED
  BY <1>1, LifeInvariance, PTL

\* Of two processes that schedule one is about to exit: the other has the lease, and
\* without leader election there is only one.
THEOREM OneLeader == Spec => []OverlapOnlyWhileEnding
<1>1. LifeInv => OverlapOnlyWhileEnding
  <2> SUFFICES ASSUME LifeInv, NEW r \in Replicas, NEW s \in Replicas, r # s,
                      loop[r] \in {"pop", "cycle"}, loop[s] \in {"pop", "cycle"},
                      ~Ending(r), ~Ending(s)
               PROVE  FALSE
    BY DEF OverlapOnlyWhileEnding
  <2>1. ASSUME NEW q \in Replicas, loop[q] \in {"pop", "cycle"}, ~Ending(q)
        PROVE  main[q] \in {"leading", "inline"} /\ lives[q] > 0
    BY <2>1 DEF LifeInv, TypeOK, AloneAtFirst, Launched, Ending
  <2>2. main[r] = "inline" \/ main[s] = "inline"
    BY <2>1 DEF LifeInv, ElectedProperly
  <2> QED
    BY <2>1, <2>2 DEF LifeInv, OneLine, ElectedProperly
<1> QED
  BY <1>1, LifeInvariance, PTL

=============================================================================
