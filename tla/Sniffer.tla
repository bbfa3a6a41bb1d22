------------------------------ MODULE Sniffer ------------------------------
(***************************************************************************)
(* A record on its way into the sniffer's log: the Send of its clients     *)
(* (scheduler/sniffer.go, and the notifier of the pods' hooks), the gRPC   *)
(* service that runs every request in a goroutine of its own, and the      *)
(* DebugLogger of sniffer/pkg/logger that these goroutines share.  The     *)
(* watcher is a second process with a DebugLogger of its own, whose event  *)
(* handlers call it without a service between; both append to one file.    *)
(*                                                                         *)
(* Every record opens the file anew; the handle that will be closed is     *)
(* kept in the logger, where another goroutine can replace it.             *)
(*                                                                         *)
(* Processes die and are started again, connections break, clients are     *)
(* killed while their request is served.  gRPC itself and the operating    *)
(* system are outside the repository.                                      *)
(*                                                                         *)
(* A definition marked (Slip: ...) is no part of the model: it is the one  *)
(* after it with a plausible mistake, to see that a property notices.      *)
(***************************************************************************)
EXTENDS Naturals, Sequences, FiniteSets

CONSTANTS
    Callers,      \* the goroutines that write records
    Remote,       \* those that do by a Send to the service
    Notifiers,    \* and among them the processes that the pods' hooks run
    Processes,    \* the service and the watcher
    ServedBy,     \* the process whose logger writes the records of a caller
    After,        \* the caller, if any, whose call comes before each of a caller's
    NoHandle,     \* nil
    Calls,        \* bound: how many records each of them writes
    MaxFaults     \* bound: crashes, broken connections, files that do not open

ASSUME CallersAssumption ==
    /\ Notifiers \subseteq Remote /\ Remote \subseteq Callers
    /\ ServedBy \in [Callers -> Processes]
    /\ After \in [Callers -> SUBSET Callers]
    /\ Calls \in [Callers -> Nat]
    /\ MaxFaults \in Nat

VARIABLES
    up,         \* the processes that run
    handle,     \* handle of each logger: the file its last Start opened
    closed,     \* the files that have been closed
    file,       \* the contents of the log file
    at,         \* where the goroutine that serves each call is
    waiting,    \* the callers whose call has not returned
    returned,   \* how many calls of each caller have returned
    failed,     \* calls that returned an error, or whose caller died
    refused,    \* calls for which the file could not be opened
    disturbed,  \* calls during which another goroutine used the same logger
    faults      \* how much has gone wrong so far

logger == <<handle, closed, file, refused, disturbed>>
client == <<waiting, returned, failed>>
vars == <<up, logger, at, client, faults>>

\* A call, and with it its record and the *os.File it opens, is named by its
\* caller and its number.
AllCalls == UNION {{c} \X (1..Calls[c]) : c \in Callers}
Current(c) == <<c, returned[c] + 1>>

Goto(r, step) == at' = [at EXCEPT ![r] = step]
Fault == faults < MaxFaults /\ faults' = faults + 1

Init ==
    /\ up = Processes
    /\ handle = [p \in Processes |-> NoHandle]
    /\ closed = {}
    /\ file = <<>>
    /\ at = [r \in AllCalls |-> "nowhere"]
    /\ waiting = {}
    /\ returned = [c \in Callers |-> 0]
    /\ failed = {}
    /\ refused = {}
    /\ disturbed = {}
    /\ faults = 0

-----------------------------------------------------------------------------
(* The callers.                                                            *)

\* The scheduling loop has its answer before the binding goroutine it starts can
\* call (and so on, for other callers that follow each other).
MayCall(c) ==
    /\ c \notin waiting
    /\ returned[c] < Calls[c]
    /\ \A d \in After[c] : returned[d] > returned[c]

Call(c) ==
    /\ MayCall(c)
    /\ ServedBy[c] \in up
    /\ Goto(Current(c), "called")
    /\ waiting' = waiting \cup {c}
    /\ UNCHANGED <<up, logger, returned, failed, faults>>

\* Send dials, sends the request and waits, with a context that has no deadline.
\* A notifier does the same; the watcher's handlers just call the logger.
Send(c) == c \in Remote \ Notifiers /\ Call(c)
Notify(c) == c \in Notifiers /\ Call(c)
Handle(c) == c \notin Remote /\ Call(c)

\* The calls of C end without a success: nobody looks at the error.
EndInError(C) ==
    /\ waiting' = waiting \ C
    /\ returned' = [c \in Callers |-> returned[c] + (IF c \in C THEN 1 ELSE 0)]
    /\ failed' = failed \cup {Current(c) : c \in C}

\* No connection can be made.
SendFails(c) ==
    /\ c \in Remote /\ MayCall(c)
    /\ \/ ServedBy[c] \notin up /\ UNCHANGED faults
       \/ Fault
    /\ EndInError({c})
    /\ UNCHANGED <<up, logger, at>>

\* A notifier that cannot find out the name of its pod exits before it sends.
Nameless(c) ==
    /\ c \in Notifiers /\ MayCall(c)
    /\ Fault
    /\ EndInError({c})
    /\ UNCHANGED <<up, logger, at>>

\* (Slip: a client takes the answer for granted.)
ReturnSent(c) ==
    /\ c \in waiting
    /\ waiting' = waiting \ {c}
    /\ returned' = [returned EXCEPT ![c] = @ + 1]
    /\ UNCHANGED <<up, logger, at, failed, faults>>

Return(c) ==
    /\ c \in waiting
    /\ at[Current(c)] = "answered"
    /\ Goto(Current(c), "nowhere")
    /\ waiting' = waiting \ {c}
    /\ returned' = [returned EXCEPT ![c] = @ + 1]
    /\ UNCHANGED <<up, logger, failed, faults>>

\* The connection breaks, or the client is killed and begins anew: the request
\* is lost on its way or served all the same.
Break(c) ==
    /\ c \in waiting \cap Remote
    /\ Fault
    /\ \E step \in {at[Current(c)], "nowhere"} :
         /\ step = "nowhere" => at[Current(c)] \in {"called", "answered"}
         /\ Goto(Current(c), step)
    /\ EndInError({c})
    /\ UNCHANGED <<up, logger>>

-----------------------------------------------------------------------------
(* The DebugLogger: log calls Start, Printf and Stop.                      *)

Logger(r) == ServedBy[r[1]]
Using(p) == {r \in AllCalls : Logger(r) = p /\ at[r] \in {"print", "stop"}}

\* How the file is opened: with O_APPEND.  (Slip: with O_TRUNC.)
OpenedTruncated == <<>>
Opened == file

Start(r) ==
    /\ at[r] = "called"
    /\ handle' = [handle EXCEPT ![Logger(r)] = r]
    /\ file' = Opened
    /\ disturbed' = IF Using(Logger(r)) = {} THEN disturbed
                    ELSE disturbed \cup Using(Logger(r)) \cup {r}
    /\ Goto(r, "print")
    /\ UNCHANGED <<up, closed, refused, client, faults>>

\* Start fails, and log returns its error to a Send that answers success.
StartFails(r) ==
    /\ at[r] = "called"
    /\ Fault
    /\ refused' = refused \cup {r}
    /\ Goto(r, "answered")
    /\ UNCHANGED <<up, handle, closed, file, disturbed, client>>

\* Printf writes the record to the file this call opened; the error of a write
\* to a closed file is dropped.
Printf(r) ==
    /\ at[r] = "print"
    /\ file' = IF r \in closed THEN file ELSE Append(file, r)
    /\ Goto(r, "stop")
    /\ UNCHANGED <<up, handle, closed, refused, disturbed, client, faults>>

\* Stop closes the handle in the logger, and the request is answered (if anybody
\* waits for the answer).
Stop(r) ==
    /\ at[r] = "stop"
    /\ closed' = closed \cup {handle[Logger(r)]}
    /\ Goto(r, IF r \in failed THEN "nowhere" ELSE "answered")
    /\ UNCHANGED <<up, handle, file, refused, disturbed, client, faults>>

-----------------------------------------------------------------------------
(* The processes.                                                          *)

\* (Slip: a client is not told.)
CutOffNobody(p) == {}

\* The callers that wait for a process.
CutOff(p) == {c \in waiting : ServedBy[c] = p}

\* The end of a process is the end of its goroutines; whoever waits for it sees
\* the connection end.
Crash(p) ==
    /\ p \in up
    /\ Fault
    /\ up' = up \ {p}
    /\ handle' = [handle EXCEPT ![p] = NoHandle]
    /\ at' = [r \in AllCalls |-> IF Logger(r) = p THEN "nowhere" ELSE at[r]]
    /\ EndInError(CutOff(p))
    /\ UNCHANGED <<closed, file, refused, disturbed>>

Restart(p) ==
    /\ p \notin up
    /\ up' = up \cup {p}
    /\ UNCHANGED <<logger, at, client, faults>>

-----------------------------------------------------------------------------

Serve(r) == Start(r) \/ StartFails(r) \/ Printf(r) \/ Stop(r)

Next ==
    \/ \E c \in Callers :
         \/ Send(c) \/ Notify(c) \/ Handle(c)
         \/ SendFails(c) \/ Nameless(c) \/ Return(c) \/ Break(c)
    \/ \E r \in AllCalls : Serve(r)
    \/ \E p \in Processes : Crash(p) \/ Restart(p)

\* A call that has begun is served while its process lives, and its answer
\* arrives; nothing has to fail, and no call has to be made.
Spec ==
    /\ Init /\ [][Next]_vars
    /\ \A r \in AllCalls : WF_vars(Serve(r))
    /\ \A c \in Callers : WF_vars(Return(c))

-----------------------------------------------------------------------------
(* What is expected of it.                                                 *)

\* Every variable keeps its type; who waits is being served, and nobody is
\* served by a process that is down.
TypeOK ==
    /\ up \subseteq Processes
    /\ handle \in [Processes -> AllCalls \cup {NoHandle}]
    /\ closed \subseteq AllCalls
    /\ file \in Seq(AllCalls)
    /\ at \in [AllCalls -> {"nowhere", "called", "print", "stop", "answered"}]
    /\ waiting \subseteq Callers
    /\ returned \in [Callers -> Nat]
    /\ failed \cup refused \cup disturbed \subseteq AllCalls
    /\ faults \in 0..MaxFaults
    /\ \A c \in waiting : Current(c) \in AllCalls /\ at[Current(c)] # "nowhere"
    /\ \A r \in AllCalls : at[r] # "nowhere" => Logger(r) \in up

\* The log is the log its writers are promised, the calls that failed, that raced
\* with another in one process, or whose file could not be opened being excused.
\* So the race does no lasting damage (no handle that an earlier race left behind
\* costs a record), neither process harms the records of the other, and what was
\* served before a crash or after it is recorded, once and in order.
Promise == INSTANCE RecordLog WITH entries <- file, excused <- disturbed \cup refused \cup failed
KeepsPromise == Promise!Spec

\* The record of a decision is in the log before the record of the binding that
\* followed it, across clients, goroutines and restarts, unless the call of the
\* former is excused.
Index(r) == {i \in DOMAIN file : file[i] = r}
DecisionPrecedesBinding ==
    \A c \in Callers : \A d \in After[c] : \A k \in 1..Calls[c] : \A j \in Index(<<c, k>>) :
        \/ \E i \in Index(<<d, k>>) : i < j
        \/ <<d, k>> \in disturbed \cup refused \cup failed

\* Send always returns although its timeout is never used: the scheduling loop does not
\* wait for a service that died, whenever that was.
EveryCallReturns == \A c \in Remote : (c \in waiting) ~> (c \notin waiting)

\* A call that has returned without an error has left its record ("I'm opening
\* and appending each time").
EveryRecordKept ==
    \A r \in AllCalls : r[2] <= returned[r[1]] /\ r \notin failed => Index(r) # {}
=============================================================================
