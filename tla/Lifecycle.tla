----------------------------- MODULE Lifecycle -----------------------------
(***************************************************************************)
(* The life of a scheduler process: its setup from the command line        *)
(* (Options); Run of cmd/app/server.go with leader election or without,    *)
(* Run of scheduler/scheduler.go; and how they come to an end.             *)
(*                                                                         *)
(* A process has a main goroutine, which runs the elector; the goroutine   *)
(* of OnStartedLeading, which runs the scheduler (the main one does without*)
(* leader election); and the goroutine that calls ScheduleOne.  The lease, *)
(* the elector and the informers are outside the repository.  A leader     *)
(* gives up before its lease can be taken over, if the durations of its    *)
(* configuration are valid.                                                *)
(*                                                                         *)
(* A definition marked (Slip: ...) is no part of the model: it is the one  *)
(* after it with a plausible mistake, to see that a property notices.      *)
(***************************************************************************)
EXTENDS Naturals, FiniteSets, Options

CONSTANTS
    Replicas,  \* the processes that compete for the lease
    NoOne,
    Lines,     \* the command lines to start them with
    MaxLives   \* bound: how often a process is started

ASSUME ReplicasAssumption ==
    /\ NoOne \notin Replicas
    /\ MaxLives \in Nat
\* No flag sets what only a file can.
ASSUME LinesAssumption ==
    \A l \in Lines :
        /\ l.config \in BOOLEAN
        /\ DOMAIN l.flags \subseteq
             LeaderElectionFlags \cup DeprecatedFlags \cup {"podMaxInUnschedulable"}

VARIABLES
    line,         \* the command line, the same for all
    cc,           \* the configuration that Setup completes from it
    lease,        \* its holder
    main,         \* the main goroutine of each process
    runner,       \* the goroutine that runs startInformersAndWaitForSync and sched.Run
    loop,         \* the goroutine that calls ScheduleOne
    informers,    \* of each process: off, started or synced
    signalled,    \* the processes whose context is done
    cancelled,    \* those whose elector has cancelled the context of OnStartedLeading
    queueClosed,  \* those whose scheduling queue is closed
    lives         \* how often each was started

configured == <<line, cc>>
ending == <<signalled, cancelled, queueClosed>>
vars == <<configured, lease, main, runner, loop, informers, ending, lives>>

Init ==
    /\ line \in Lines
    /\ cc = ApplyTo(line)
    /\ lease = NoOne
    /\ main = [r \in Replicas |-> "down"]
    /\ runner = [r \in Replicas |-> "off"]
    /\ loop = [r \in Replicas |-> "off"]
    /\ informers = [r \in Replicas |-> "off"]
    /\ signalled = {}
    /\ cancelled = {}
    /\ queueClosed = {}
    /\ lives = [r \in Replicas |-> 0]

Done(r) == r \in signalled \cup cancelled
Synced(r) == informers[r] = "synced"

-----------------------------------------------------------------------------
(* Run of the server.                                                      *)

\* Where no leader election is asked for, there is one replica.
Launching(r) ==
    /\ main[r] = "down"
    /\ lives[r] < MaxLives
    /\ AskedFor(line, "elect") \/ \A s \in Replicas : lives[s] > 0 => s = r
    /\ lives' = [lives EXCEPT ![r] = @ + 1]

\* (Slip: the informers are delayed although there is nothing to delay them for.)
DelayAlways == cc.delay

\* The informers are started now unless they are delayed until the process leads.
Delay == cc.delay /\ cc.elect

Launch(r) ==
    /\ Launching(r)
    /\ Setup(line)
    /\ main' = [main EXCEPT ![r] = "starting"]
    /\ informers' = [informers EXCEPT ![r] = IF Delay THEN "off" ELSE "started"]
    /\ UNCHANGED <<configured, lease, runner, loop, ending>>

\* The command line is refused or writes the configuration and exits; or something
\* else fails: a certificate, a profile, the port of the server.
SetupEnds(r) ==
    /\ Launching(r)
    /\ UNCHANGED <<configured, lease, main, runner, loop, informers, ending>>

\* Waiting for the caches ends with the context, too.
Waited(r) == informers[r] = "off" \/ Synced(r) \/ Done(r)

BeginElection(r) ==
    /\ cc.elect /\ NewLeaderElector(cc)
    /\ main[r] = "starting" /\ Waited(r)
    /\ main' = [main EXCEPT ![r] = "electing"]
    /\ UNCHANGED <<configured, lease, runner, loop, informers, ending, lives>>

RunInline(r) ==
    /\ ~cc.elect
    /\ main[r] = "starting" /\ Waited(r)
    /\ main' = [main EXCEPT ![r] = "inline"]
    /\ runner' = [runner EXCEPT ![r] = "running"]
    /\ loop' = [loop EXCEPT ![r] = "check"]
    /\ UNCHANGED <<configured, lease, informers, ending, lives>>

\* The elector: it acquires the lease and calls OnStartedLeading in a goroutine
\* of its own, or its context is done first.
Acquire(r) ==
    /\ main[r] = "electing"
    /\ lease = NoOne
    /\ lease' = r
    /\ main' = [main EXCEPT ![r] = "leading"]
    /\ runner' = [runner EXCEPT ![r] = "begun"]
    /\ UNCHANGED <<configured, loop, informers, ending, lives>>

GiveUp(r) ==
    /\ main[r] = "electing"
    /\ r \in signalled
    /\ main' = [main EXCEPT ![r] = "stopping"]
    /\ UNCHANGED <<configured, lease, runner, loop, informers, ending, lives>>

\* Renewing ends when the context is done, or when it failed for too long.
StopRenewing(r) ==
    /\ main[r] = "leading"
    /\ main' = [main EXCEPT ![r] = "releasing"]
    /\ UNCHANGED <<configured, lease, runner, loop, informers, ending, lives>>

\* ReleaseOnCancel: the lease is released first (which may fail), then the
\* context of OnStartedLeading is cancelled.
Release(r) ==
    /\ main[r] = "releasing"
    /\ lease' \in {lease, IF lease = r THEN NoOne ELSE lease}
    /\ main' = [main EXCEPT ![r] = "cancelling"]
    /\ UNCHANGED <<configured, runner, loop, informers, ending, lives>>

CancelContext(r) ==
    /\ main[r] = "cancelling"
    /\ cancelled' = cancelled \cup {r}
    /\ main' = [main EXCEPT ![r] = "stopping"]
    /\ UNCHANGED <<configured, lease, runner, loop, informers, signalled, queueClosed, lives>>

\* A lease that is not renewed in time can be taken.
Expire(r) ==
    /\ lease = r /\ (main[r] = "leading" => cc.times # "valid")
    /\ lease' = NoOne
    /\ UNCHANGED <<configured, main, runner, loop, informers, ending, lives>>

\* The end of a process is the end of its goroutines.
Exit(r) ==
    /\ main' = [main EXCEPT ![r] = "down"]
    /\ runner' = [runner EXCEPT ![r] = "off"]
    /\ loop' = [loop EXCEPT ![r] = "off"]
    /\ informers' = [informers EXCEPT ![r] = "off"]
    /\ signalled' = signalled \ {r}
    /\ cancelled' = cancelled \ {r}
    /\ queueClosed' = queueClosed \ {r}
    /\ UNCHANGED <<configured, lease, lives>>

\* Run returns the error of NewLeaderElector.
NoElector(r) ==
    /\ cc.elect /\ ~NewLeaderElector(cc)
    /\ main[r] = "starting" /\ Waited(r)
    /\ Exit(r)

\* (Slips: a process that lost the lease tries to get it again; it waits to be
\* told to terminate.)
ElectAgain(r) ==
    IF r \in signalled THEN Exit(r)
    ELSE /\ main' = [main EXCEPT ![r] = "electing"]
         /\ cancelled' = cancelled \ {r}
         /\ UNCHANGED <<configured, lease, runner, loop, informers, signalled, queueClosed, lives>>
ExitIfTold(r) == r \in signalled /\ Exit(r)

\* OnStoppedLeading exits, with another code when the lease was lost.
ExitAnyway(r) == Exit(r)

OnStoppedLeading(r) ==
    /\ main[r] = "stopping"
    /\ ExitAnyway(r)

\* Without leader election Run returns after the scheduler's Run.
ReturnInline(r) ==
    /\ main[r] = "inline" /\ runner[r] = "closed"
    /\ Exit(r)

-----------------------------------------------------------------------------
(* OnStartedLeading, and Run of the scheduler.                             *)

\* (Slip: the loop is started while the informers sync.)
StartLoopEarly == "check"
StartLoop == IF cc.delay THEN "off" ELSE "check"

\* When the informers were delayed they are started now, and waited for.
OnStartedLeading(r) ==
    /\ runner[r] = "begun"
    /\ informers' = [informers EXCEPT ![r] = IF cc.delay THEN "started" ELSE @]
    /\ runner' = [runner EXCEPT ![r] = IF cc.delay THEN "syncing" ELSE "running"]
    /\ loop' = [loop EXCEPT ![r] = StartLoop]
    /\ UNCHANGED <<configured, lease, main, ending, lives>>

RunSynced(r) ==
    /\ runner[r] = "syncing" /\ Waited(r)
    /\ runner' = [runner EXCEPT ![r] = "running"]
    /\ loop' = [loop EXCEPT ![r] = "check"]
    /\ UNCHANGED <<configured, lease, main, informers, ending, lives>>

\* (Slip: the queue is closed when ScheduleOne was called for the last time.)
MayCloseLate(r) == Done(r) /\ loop[r] = "ended"
MayClose(r) == Done(r)

\* When the context is done, Run closes the queue and returns.
CloseQueue(r) ==
    /\ runner[r] = "running" /\ MayClose(r)
    /\ queueClosed' = queueClosed \cup {r}
    /\ runner' = [runner EXCEPT ![r] = "closed"]
    /\ UNCHANGED <<configured, lease, main, loop, informers, signalled, cancelled, lives>>

\* ScheduleOne is called again and again until the context is done.  It waits
\* for a pod, or for the queue to be closed.
CheckContext(r) ==
    /\ loop[r] = "check"
    /\ loop' = [loop EXCEPT ![r] = IF Done(r) THEN "ended" ELSE "pop"]
    /\ UNCHANGED <<configured, lease, main, runner, informers, ending, lives>>

NextPod(r) ==
    /\ loop[r] = "pop"
    /\ r \notin queueClosed
    /\ loop' = [loop EXCEPT ![r] = "cycle"]
    /\ UNCHANGED <<configured, lease, main, runner, informers, ending, lives>>

NoPod(r) ==
    /\ loop[r] = "pop"
    /\ r \in queueClosed
    /\ loop' = [loop EXCEPT ![r] = "check"]
    /\ UNCHANGED <<configured, lease, main, runner, informers, ending, lives>>

EndCycle(r) ==
    /\ loop[r] = "cycle"
    /\ loop' = [loop EXCEPT ![r] = "check"]
    /\ UNCHANGED <<configured, lease, main, runner, informers, ending, lives>>

-----------------------------------------------------------------------------
(* The surroundings.                                                       *)

InformersSync(r) ==
    /\ informers[r] = "started"
    /\ informers' = [informers EXCEPT ![r] = "synced"]
    /\ UNCHANGED <<configured, lease, main, runner, loop, ending, lives>>

\* SIGTERM cancels the context.
Signal(r) ==
    /\ main[r] # "down"
    /\ r \notin signalled
    /\ signalled' = signalled \cup {r}
    /\ UNCHANGED <<configured, lease, main, runner, loop, informers, cancelled, queueClosed, lives>>

-----------------------------------------------------------------------------

Main(r) ==
    \/ BeginElection(r) \/ NoElector(r) \/ RunInline(r) \/ Acquire(r) \/ GiveUp(r)
    \/ Release(r) \/ CancelContext(r) \/ OnStoppedLeading(r) \/ ReturnInline(r)
Runner(r) == OnStartedLeading(r) \/ RunSynced(r) \/ CloseQueue(r)
ScheduleLoop(r) == CheckContext(r) \/ NextPod(r) \/ NoPod(r) \/ EndCycle(r)

Next == \E r \in Replicas :
    \/ Launch(r) \/ SetupEnds(r) \/ Main(r) \/ StopRenewing(r) \/ Expire(r)
    \/ Runner(r) \/ ScheduleLoop(r)
    \/ InformersSync(r) \/ Signal(r)

Spec == Init /\ [][Next]_vars

\* The goroutines run, a process that ended is started again, informers sync and
\* leases expire.  No pod ever needs to come; a cycle may last forever (the
\* call that tells the sniffer has no timeout); leases need not be lost.
FairSpec ==
    /\ Spec
    /\ \A r \in Replicas :
         /\ WF_vars(Launch(r)) /\ WF_vars(Main(r)) /\ WF_vars(Runner(r))
         /\ WF_vars(StopRenewing(r) /\ r \in signalled)
         /\ WF_vars(CheckContext(r) \/ NoPod(r))
         /\ WF_vars(InformersSync(r)) /\ WF_vars(Expire(r))

-----------------------------------------------------------------------------
(* What is expected of it.                                                 *)

\* Every variable keeps its type; what is down has no goroutines.
TypeOK ==
    /\ line \in Lines
    /\ lease \in Replicas \cup {NoOne}
    /\ main \in [Replicas -> {"down", "starting", "electing", "leading", "releasing",
                              "cancelling", "stopping", "inline"}]
    /\ runner \in [Replicas -> {"off", "begun", "syncing", "running", "closed"}]
    /\ loop \in [Replicas -> {"off", "check", "pop", "cycle", "ended"}]
    /\ informers \in [Replicas -> {"off", "started", "synced"}]
    /\ signalled \cup cancelled \cup queueClosed \subseteq {r \in Replicas : main[r] # "down"}
    /\ \A r \in Replicas : loop[r] # "off" => runner[r] \in {"running", "closed"}
    /\ lives \in [Replicas -> 0..MaxLives]

\* A process runs with what its command line asks for and never with a configuration
\* that is to be written only; none leads with durations that are not valid, also
\* where the flags were not validated.
AsConfigured ==
    (\E r \in Replicas : main[r] # "down") =>
        /\ ~line.write
        /\ \A s \in DOMAIN Default : cc[s] = AskedFor(line, s)
        /\ (\E r \in Replicas : main[r] \notin {"down", "starting", "inline"}) => cc.times = "valid"

\* The caches are synced before anything is scheduled, with leader election and
\* without, with the informers delayed or not, and also when waiting for the
\* caches was cut short.
SyncedBeforeScheduling == \A r \in Replicas : loop[r] = "cycle" => Synced(r)

\* Two processes schedule at the same time only when one of them has released or
\* lost its lease and is about to exit.
Ending(r) == main[r] \in {"releasing", "cancelling", "stopping"}
OverlapOnlyWhileEnding ==
    \A r, s \in Replicas :
        loop[r] \in {"pop", "cycle"} /\ loop[s] \in {"pop", "cycle"} /\ r # s
            => Ending(r) \/ Ending(s)

\* A process that is told to terminate does, although ScheduleOne may be waiting
\* for a pod that never comes, or for an answer of the sniffer.
Terminates == \A r \in Replicas : (r \in signalled) ~> (main[r] = "down")

\* The pods are taken care of: from any time on some process gets to schedule,
\* unless in the end none is started any more.
Attended == \E r \in Replicas : runner[r] = "running"
TakenOver == []<>Attended \/ <>[](\A r \in Replicas : main[r] = "down")
=============================================================================
