---------------------------- MODULE SnifferProofs ----------------------------
(***************************************************************************)
(* Proofs about Sniffer, for any callers, processes, calls and faults: the *)
(* order of the records, and step by step that the logger and its clients  *)
(* keep the promise of RecordLog.  (That calls return is left to TLC.)     *)
(***************************************************************************)
EXTENDS Sniffer, TLAPS

-----------------------------------------------------------------------------
(* The invariant.                                                          *)

Excused == disturbed \cup refused \cup failed
Recorded(r) == \E i \in DOMAIN file : file[i] = r

\* A call has begun when it has returned or is waited for.
Over(r) == r[2] <= returned[r[1]]
UnderWay(r) == r[1] \in waiting /\ r[2] = returned[r[1]] + 1
Begun(r) == Over(r) \/ UnderWay(r)

\* Nobody makes more calls than are counted, or the next before the last returned.
CallsCounted ==
  /\ \A c \in Callers : returned[c] \in 0..Calls[c]
  /\ \A c \in waiting : returned[c] < Calls[c]

\* A call that has not begun has left no trace.
NoTraceBefore ==
  \A r \in AllCalls : ~Begun(r) =>
    at[r] = "nowhere" /\ r \notin Excused /\ r \notin closed /\ ~Recorded(r)

\* What is served still after it is over has failed, and nothing else has.
FailedAreOver ==
  \A r \in AllCalls :
    /\ at[r] # "nowhere" /\ Over(r) => r \in failed
    /\ r \in failed => Over(r)

\* A file is closed by the call that opened it, unless another one used the logger.
Sharing ==
  \A r, s \in AllCalls :
    /\ at[r] \in {"print", "stop"} /\ at[s] \in {"print", "stop"}
    /\ Logger(r) = Logger(s) /\ r # s
    => r \in disturbed
HandleKept ==
  \A r \in AllCalls : at[r] \in {"print", "stop"} =>
    LET h == handle[Logger(r)]
    IN h \in AllCalls /\ Logger(h) = Logger(r) /\ Begun(h) /\ at[h] # "called"

\* What each step of the logger has done so far.
Progress ==
  \A r \in AllCalls :
    /\ at[r] = "called" => r \notin closed
    /\ at[r] \in {"called", "print"} => ~Recorded(r)
    /\ at[r] = "print" => r \notin closed \/ r \in disturbed
    /\ at[r] = "stop" => Recorded(r) \/ r \in disturbed
    /\ at[r] = "answered" => Recorded(r) \/ r \in disturbed \cup refused
    /\ Over(r) => Recorded(r) \/ r \in Excused
RecordedOnce == \A i, j \in DOMAIN file : file[i] = file[j] => i = j

\* A call begins after those it follows are over.
FollowsOver ==
  \A c \in Callers : \A d \in After[c] : \A k \in 1..Calls[c] :
    Begun(<<c, k>>) => k <= returned[d]

LogInv ==
  /\ TypeOK
  /\ CallsCounted /\ NoTraceBefore /\ FailedAreOver /\ Sharing /\ HandleKept
  /\ Progress /\ RecordedOnce /\ FollowsOver /\ DecisionPrecedesBinding

-----------------------------------------------------------------------------
(* Calls.                                                                  *)

\* A call is its caller and its number.
LEMMA CallParts ==
  ASSUME NEW r \in AllCalls
  PROVE  /\ r[1] \in Callers /\ r[2] \in 1..Calls[r[1]] /\ Calls[r[1]] \in Nat
         /\ r = <<r[1], r[2]>> /\ Logger(r) \in Processes
BY CallersAssumption DEF AllCalls, Logger

\* Each number up to the caller's last names a call.
LEMMA IsCall ==
  ASSUME NEW c \in Callers, NEW k \in 1..Calls[c]
  PROVE  /\ <<c, k>> \in AllCalls /\ <<c, k>>[1] = c /\ <<c, k>>[2] = k
         /\ Logger(<<c, k>>) = ServedBy[c]
BY DEF AllCalls, Logger

\* The current call of a caller that has not made all of its calls.
LEMMA CurrentCall ==
  ASSUME CallsCounted, NEW c \in Callers, returned[c] < Calls[c]
  PROVE  /\ Current(c) \in AllCalls /\ Current(c)[1] = c /\ Current(c)[2] = returned[c] + 1
         /\ Logger(Current(c)) = ServedBy[c]
         /\ \A r \in AllCalls : r = Current(c) <=> r[1] = c /\ r[2] = returned[c] + 1
<1>1. returned[c] \in Nat /\ Calls[c] \in Nat /\ returned[c] + 1 \in 1..Calls[c]
  BY CallersAssumption DEF CallsCounted
<1>2. \A r \in AllCalls : r = <<r[1], r[2]>>
  BY CallParts
<1> QED
  BY <1>1, <1>2, IsCall DEF Current

\* While the file stays the same, what was recorded is, in the order it was.
LEMMA FileKept ==
  ASSUME LogInv, file' = file, Excused \subseteq Excused'
  PROVE  /\ \A r : Recorded(r)' <=> Recorded(r)
         /\ RecordedOnce' /\ DecisionPrecedesBinding'
<1>1. \A r : Recorded(r)' <=> Recorded(r)
  BY DEF Recorded
<1>2. \A r : Index(r)' = Index(r)
  BY DEF Index
<1>3. RecordedOnce'
  BY DEF LogInv, RecordedOnce
<1>4. DecisionPrecedesBinding'
  <2>1. ASSUME NEW c \in Callers, NEW d \in After[c], NEW k \in 1..Calls[c],
               NEW j \in Index(<<c, k>>)'
        PROVE  (\E i \in Index(<<d, k>>)' : i < j) \/ <<d, k>> \in Excused'
    <3>1. j \in Index(<<c, k>>)
      BY <1>2, <2>1
    <3>2. (\E i \in Index(<<d, k>>) : i < j) \/ <<d, k>> \in Excused
      BY <3>1 DEF LogInv, DecisionPrecedesBinding, Excused
    <3> QED
      BY <1>2, <3>2
  <2> QED
    BY <2>1 DEF DecisionPrecedesBinding, Excused, Index
<1> QED
  BY <1>1, <1>3, <1>4

-----------------------------------------------------------------------------
(* Steps of the clients and processes.                                     *)

\* The calls of C end, ...
CallsOver(C) ==
  /\ \A c \in C : /\ returned[c] < Calls[c]
                  /\ c \in waiting \/ \A d \in After[c] : returned[d] > returned[c]
                  /\ Recorded(Current(c)) \/ Current(c) \in Excused'
                  /\ at'[Current(c)] = "nowhere" \/ Current(c) \in failed'
  /\ returned' = [c \in Callers |-> returned[c] + (IF c \in C THEN 1 ELSE 0)]
  /\ waiting' = waiting \ C
  /\ failed \subseteq failed'
  /\ \A r \in failed' \ failed : \E c \in C : r = Current(c)
  /\ \A c \in waiting \ C : at'[Current(c)] = at[Current(c)]

\* ... some of the goroutines that serve calls come to their end, but nothing is written.
NothingWritten ==
  /\ UNCHANGED <<closed, file, refused, disturbed>>
  /\ at' \in [AllCalls -> {"nowhere", "called", "print", "stop", "answered"}]
  /\ \A r \in AllCalls : at'[r] = at[r] \/ at'[r] = "nowhere"
  /\ \A r \in AllCalls : at'[r] # "nowhere" => Logger(r) \in up'
  /\ \A r \in AllCalls : at'[r] \in {"print", "stop"} => handle'[Logger(r)] = handle[Logger(r)]
  /\ handle' \in [Processes -> AllCalls \cup {NoHandle}]
  /\ up' \subseteq Processes /\ faults' \in 0..MaxFaults

\* Calls that return, with a record or with an excuse, keep the invariant.
LEMMA CallsEnd ==
  ASSUME LogInv, NEW C \in SUBSET Callers, CallsOver(C), NothingWritten
  PROVE  LogInv'
<1> USE CallersAssumption DEF CallsOver, NothingWritten
<1>1. TypeOK /\ CallsCounted
  BY DEF LogInv
<1>2. \A c \in Callers : returned[c] \in Nat /\ Calls[c] \in Nat
  BY <1>1 DEF TypeOK
<1>3. \A c \in Callers : /\ returned'[c] = IF c \in C THEN returned[c] + 1 ELSE returned[c]
                         /\ returned'[c] \in Nat
  BY <1>2
<1>4. CallsCounted'
  BY <1>1, <1>2, <1>3 DEF CallsCounted, TypeOK
<1>5. \A c \in C : Current(c) \in AllCalls /\ Current(c)[1] = c /\ Current(c)[2] = returned[c] + 1
  BY <1>1, CurrentCall
<1>6. \A r \in AllCalls : r[1] \in Callers /\ r[2] \in Nat
  BY CallParts
<1>7. ASSUME NEW r \in AllCalls
      PROVE  /\ Over(r)' <=> Over(r) \/ (r[1] \in C /\ r[2] = returned[r[1]] + 1)
             /\ UnderWay(r)' <=> UnderWay(r) /\ r[1] \notin C
  <2> DEFINE k == r[2]
             n == returned[r[1]]
  <2>1. k \in Nat /\ n \in Nat /\ returned'[r[1]] = IF r[1] \in C THEN n + 1 ELSE n
    BY <1>2, <1>3, <1>6
  <2>2. k <= n + 1 <=> k <= n \/ k = n + 1
    BY <2>1
  <2>3. waiting' = waiting \ C
    OBVIOUS
  <2> QED
    BY <2>1, <2>2, <2>3 DEF Over, UnderWay
<1>8. \A r \in AllCalls : /\ Begun(r) => Begun(r)'
                          /\ Begun(r)' => Begun(r) \/ (r[1] \in C /\ r[2] = returned[r[1]] + 1)
  BY <1>7 DEF Begun, UnderWay
<1>9. \A r \in AllCalls : r[1] \in C /\ r[2] = returned[r[1]] + 1 => r = Current(r[1])
  BY <1>1, CurrentCall
<1>10. /\ Excused \subseteq Excused'
       /\ \A r \in Excused' \ Excused : \E c \in C : r = Current(c)
  BY DEF Excused
<1>11. /\ \A r : Recorded(r)' <=> Recorded(r)
       /\ RecordedOnce' /\ DecisionPrecedesBinding'
  BY <1>10, FileKept
<1>12. TypeOK'
  <2>1. waiting' \subseteq Callers /\ returned' \in [Callers -> Nat]
    BY <1>1, <1>3 DEF TypeOK
  <2>2. (failed \cup refused \cup disturbed)' \subseteq AllCalls
    BY <1>1, <1>5 DEF TypeOK
  <2>3. ASSUME NEW c \in waiting' PROVE Current(c)' \in AllCalls /\ at'[Current(c)'] # "nowhere"
    <3>1. Current(c)' = Current(c) /\ c \in waiting \ C
      BY <1>1, <1>3, <2>3 DEF Current, TypeOK
    <3> QED
      BY <1>1, <3>1 DEF TypeOK
  <2> QED
    BY <1>1, <2>1, <2>2, <2>3 DEF TypeOK
<1>13. NoTraceBefore'
  BY <1>5, <1>7, <1>8, <1>10, <1>11 DEF LogInv, NoTraceBefore, Begun, Over
<1>14. FailedAreOver'
  BY <1>5, <1>7, <1>9 DEF LogInv, FailedAreOver
<1>15. Sharing'
  BY DEF LogInv, Sharing, Logger
<1>16. HandleKept'
  BY <1>8 DEF LogInv, HandleKept, Logger
<1>17. Progress'
  BY <1>7, <1>9, <1>10, <1>11 DEF LogInv, Progress
<1>18. FollowsOver'
  <2>1. ASSUME NEW c \in Callers, NEW d \in After[c], NEW k \in 1..Calls[c], Begun(<<c, k>>)'
        PROVE  k <= returned'[d]
    <3>1. <<c, k>> \in AllCalls /\ <<c, k>>[1] = c /\ <<c, k>>[2] = k /\ d \in Callers /\ k \in Nat
      BY <1>2, IsCall
    <3>2. CASE Begun(<<c, k>>)
      BY <1>2, <1>3, <3>1, <3>2 DEF LogInv, FollowsOver
    <3>3. CASE c \in C /\ k = returned[c] + 1
      <4>1. CASE c \in waiting
        BY <3>1, <3>2, <3>3, <4>1 DEF Begun, UnderWay
      <4>2. CASE \A e \in After[c] : returned[e] > returned[c]
        BY <1>2, <1>3, <3>1, <3>3, <4>2
      <4> QED
        BY <3>3, <4>1, <4>2
    <3> QED
      BY <1>8, <2>1, <3>1, <3>2, <3>3
  <2> QED
    BY <2>1 DEF FollowsOver
<1> QED
  BY <1>4, <1>11, <1>12, <1>13, <1>14, <1>15, <1>16, <1>17, <1>18 DEF LogInv

\* A call that begins keeps it.
LEMMA CallStep == ASSUME LogInv, NEW c \in Callers, Call(c) PROVE LogInv'
<1> DEFINE s == Current(c)
<1> USE CallersAssumption
<1>1. /\ c \notin waiting /\ returned[c] < Calls[c] /\ \A d \in After[c] : returned[d] > returned[c]
      /\ ServedBy[c] \in up
      /\ at' = [at EXCEPT ![s] = "called"] /\ waiting' = waiting \cup {c}
      /\ UNCHANGED <<up, handle, closed, file, refused, disturbed, returned, failed, faults>>
  BY DEF Call, MayCall, Goto, logger
<1>2. TypeOK /\ CallsCounted
  BY DEF LogInv
<1>3. /\ s \in AllCalls /\ s[1] = c /\ s[2] = returned[c] + 1 /\ Logger(s) = ServedBy[c]
      /\ \A r \in AllCalls : r = s <=> r[1] = c /\ r[2] = returned[c] + 1
  BY <1>1, <1>2, CurrentCall
<1>4. \A r : Current(r)' = Current(r) /\ (Over(r)' <=> Over(r))
  BY <1>1 DEF Current, Over
<1> HIDE DEF s
<1>5. \A r \in AllCalls : at'[r] = IF r = s THEN "called" ELSE at[r]
  BY <1>1, <1>2, <1>3 DEF TypeOK
<1>6. ~Begun(s) /\ ~Over(s)
  BY <1>1, <1>2, <1>3 DEF Begun, Over, UnderWay, TypeOK
<1>7. at[s] = "nowhere" /\ s \notin Excused /\ s \notin closed /\ ~Recorded(s)
  BY <1>3, <1>6 DEF LogInv, NoTraceBefore
<1>8. \A r \in AllCalls : Begun(r)' <=> Begun(r) \/ r = s
  BY <1>1, <1>3, <1>4 DEF Begun, UnderWay
<1>9. /\ \A r : Recorded(r)' <=> Recorded(r)
      /\ RecordedOnce' /\ DecisionPrecedesBinding'
  BY <1>1, FileKept DEF Excused
<1>10. Excused' = Excused
  BY <1>1 DEF Excused
<1>11. CallsCounted'
  BY <1>1, <1>2 DEF CallsCounted
<1>12. TypeOK'
  <2>1. at' \in [AllCalls -> {"nowhere", "called", "print", "stop", "answered"}]
    BY <1>1, <1>2 DEF TypeOK
  <2>2. \A d \in waiting' : Current(d) \in AllCalls /\ at'[Current(d)] # "nowhere"
    BY <1>1, <1>2, <1>3, <1>5 DEF TypeOK, s
  <2>3. \A r \in AllCalls : at'[r] # "nowhere" => Logger(r) \in up
    BY <1>1, <1>2, <1>3, <1>5 DEF TypeOK
  <2> QED
    BY <1>1, <1>2, <1>4, <2>1, <2>2, <2>3 DEF TypeOK, Logger
<1>13. NoTraceBefore'
  BY <1>1, <1>5, <1>8, <1>9, <1>10 DEF LogInv, NoTraceBefore
<1>14. FailedAreOver'
  BY <1>1, <1>4, <1>5, <1>6 DEF LogInv, FailedAreOver
<1>15. Sharing'
  BY <1>1, <1>5 DEF LogInv, Sharing, Logger
<1>16. HandleKept'
  BY <1>1, <1>5, <1>6, <1>8 DEF LogInv, HandleKept, Logger
<1>17. Progress'
  BY <1>1, <1>4, <1>5, <1>7, <1>9, <1>10 DEF LogInv, Progress
<1>18. FollowsOver'
  <2>1. ASSUME NEW b \in Callers, NEW d \in After[b], NEW k \in 1..Calls[b], Begun(<<b, k>>)'
        PROVE  k <= returned[d]
    <3>1. <<b, k>> \in AllCalls /\ <<b, k>>[1] = b /\ <<b, k>>[2] = k /\ d \in Callers
      BY IsCall
    <3>2. CASE Begun(<<b, k>>)
      BY <3>2 DEF LogInv, FollowsOver
    <3>3. CASE <<b, k>> = s
      <4>1. b = c /\ k = returned[c] + 1
        BY <1>3, <3>1, <3>3
      <4>2. returned[c] \in Nat /\ returned[d] \in Nat /\ returned[d] > returned[c]
        BY <1>1, <1>2, <3>1, <4>1 DEF TypeOK
      <4> QED
        BY <4>1, <4>2
    <3> QED
      BY <1>8, <2>1, <3>1, <3>2, <3>3
  <2> QED
    BY <1>1, <2>1 DEF FollowsOver
<1> QED
  BY <1>9, <1>11, <1>12, <1>13, <1>14, <1>15, <1>16, <1>17, <1>18 DEF LogInv

\* Whatever happens to the connections and processes is an end of calls.
LEMMA ClientStep ==
  ASSUME LogInv, NEW c \in Callers, SendFails(c) \/ Nameless(c) \/ Return(c) \/ Break(c)
  PROVE  LogInv'
<1> USE CallersAssumption
<1>1. TypeOK /\ CallsCounted
  BY DEF LogInv
<1>2. /\ returned \in [Callers -> Nat] /\ faults \in 0..MaxFaults
      /\ handle \in [Processes -> AllCalls \cup {NoHandle}] /\ up \subseteq Processes
      /\ at \in [AllCalls -> {"nowhere", "called", "print", "stop", "answered"}]
      /\ \A r \in AllCalls : at[r] # "nowhere" => Logger(r) \in up
  BY <1>1 DEF TypeOK
<1>3. Fault => faults' \in 0..MaxFaults
  BY <1>2 DEF Fault
<1>4. CASE SendFails(c) \/ Nameless(c)
  <2>1. /\ MayCall(c) /\ EndInError({c}) /\ faults' \in 0..MaxFaults
        /\ UNCHANGED <<up, handle, closed, file, refused, disturbed, at>>
    BY <1>2, <1>3, <1>4 DEF SendFails, Nameless, logger
  <2>2. /\ c \notin waiting /\ returned[c] < Calls[c] /\ \A d \in After[c] : returned[d] > returned[c]
        /\ waiting' = waiting \ {c}
        /\ returned' = [d \in Callers |-> returned[d] + (IF d \in {c} THEN 1 ELSE 0)]
        /\ failed' = failed \cup {Current(d) : d \in {c}}
    BY <2>1 DEF MayCall, EndInError
  <2>3. Current(c) \in Excused'
    BY <2>2 DEF Excused
  <2>4. CallsOver({c})
    BY <2>1, <2>2, <2>3 DEF CallsOver
  <2>5. NothingWritten
    BY <1>2, <2>1 DEF NothingWritten, Logger
  <2> QED
    BY <2>4, <2>5, CallsEnd
<1>5. CASE Return(c)
  <2>1. /\ c \in waiting /\ at[Current(c)] = "answered" /\ waiting' = waiting \ {c}
        /\ at' = [at EXCEPT ![Current(c)] = "nowhere"]
        /\ returned' = [returned EXCEPT ![c] = @ + 1]
        /\ UNCHANGED <<up, handle, closed, file, refused, disturbed, failed, faults>>
    BY <1>5 DEF Return, logger, Goto
  <2>2. returned[c] < Calls[c] /\ Current(c) \in AllCalls
    BY <1>1, <2>1, CurrentCall DEF CallsCounted
  <2>3. returned' = [d \in Callers |-> returned[d] + (IF d \in {c} THEN 1 ELSE 0)]
    <3>1. \A d \in Callers : returned'[d] = returned[d] + (IF d \in {c} THEN 1 ELSE 0)
      BY <1>2, <2>1
    <3>2. returned' = [d \in Callers |-> returned'[d]]
      BY <1>2, <2>1
    <3> QED
      BY <3>1, <3>2
  <2>4. Recorded(Current(c)) \/ Current(c) \in Excused'
    BY <2>1, <2>2 DEF LogInv, Progress, Excused
  <2>5. /\ at' \in [AllCalls -> {"nowhere", "called", "print", "stop", "answered"}]
        /\ \A r \in AllCalls : at'[r] = IF r = Current(c) THEN "nowhere" ELSE at[r]
    BY <1>2, <2>1
  <2>6. \A d \in waiting \ {c} : Current(d) \in AllCalls /\ Current(d) # Current(c)
    BY <1>1 DEF TypeOK, Current
  <2>7. CallsOver({c})
    BY <2>1, <2>2, <2>3, <2>4, <2>5, <2>6 DEF CallsOver
  <2>8. NothingWritten
    BY <1>2, <2>1, <2>5 DEF NothingWritten, Logger
  <2> QED
    BY <2>7, <2>8, CallsEnd
<1>6. CASE Break(c)
  <2>1. /\ c \in waiting /\ Fault /\ EndInError({c})
        /\ UNCHANGED <<up, handle, closed, file, refused, disturbed>>
    BY <1>6 DEF Break, logger
  <2>2. PICK step \in {at[Current(c)], "nowhere"} : at' = [at EXCEPT ![Current(c)] = step]
    BY <1>6 DEF Break, Goto
  <2>3. returned[c] < Calls[c] /\ Current(c) \in AllCalls
    BY <1>1, <2>1, CurrentCall DEF CallsCounted
  <2>4. /\ waiting' = waiting \ {c}
        /\ returned' = [d \in Callers |-> returned[d] + (IF d \in {c} THEN 1 ELSE 0)]
        /\ failed' = failed \cup {Current(d) : d \in {c}}
    BY <2>1 DEF EndInError
  <2>5. Current(c) \in Excused'
    BY <2>4 DEF Excused
  <2>6. /\ at' \in [AllCalls -> {"nowhere", "called", "print", "stop", "answered"}]
        /\ \A r \in AllCalls : at'[r] = at[r] \/ at'[r] = "nowhere"
        /\ \A r \in AllCalls : r # Current(c) => at'[r] = at[r]
    BY <1>2, <2>2, <2>3
  <2>7. \A d \in waiting \ {c} : Current(d) \in AllCalls /\ Current(d) # Current(c)
    BY <1>1 DEF TypeOK, Current
  <2>8. CallsOver({c})
    BY <2>1, <2>3, <2>4, <2>5, <2>6, <2>7 DEF CallsOver
  <2>9. NothingWritten
    BY <1>2, <1>3, <2>1, <2>6 DEF NothingWritten, Logger
  <2> QED
    BY <2>8, <2>9, CallsEnd
<1> QED
  BY <1>4, <1>5, <1>6

\* The crash and the restart of a process keep it.
LEMMA ProcessStep == ASSUME LogInv, NEW p \in Processes, Crash(p) \/ Restart(p) PROVE LogInv'
<1> USE CallersAssumption
<1>1. TypeOK /\ CallsCounted
  BY DEF LogInv
<1>2. /\ returned \in [Callers -> Nat] /\ faults \in 0..MaxFaults
      /\ handle \in [Processes -> AllCalls \cup {NoHandle}] /\ up \subseteq Processes
      /\ at \in [AllCalls -> {"nowhere", "called", "print", "stop", "answered"}]
      /\ \A r \in AllCalls : at[r] # "nowhere" => Logger(r) \in up
  BY <1>1 DEF TypeOK
<1>3. CASE Crash(p)
  <2> DEFINE C == CutOff(p)
  <2>1. /\ Fault /\ up' = up \ {p} /\ handle' = [handle EXCEPT ![p] = NoHandle]
        /\ at' = [r \in AllCalls |-> IF Logger(r) = p THEN "nowhere" ELSE at[r]]
        /\ EndInError(C)
        /\ UNCHANGED <<closed, file, refused, disturbed>>
    BY <1>3 DEF Crash
  <2>2. C \subseteq waiting /\ C \in SUBSET Callers /\ \A c \in waiting : c \in C <=> ServedBy[c] = p
    BY <1>1 DEF CutOff, TypeOK
  <2> HIDE DEF C
  <2>3. /\ waiting' = waiting \ C
        /\ returned' = [d \in Callers |-> returned[d] + (IF d \in C THEN 1 ELSE 0)]
        /\ failed' = failed \cup {Current(d) : d \in C}
    BY <2>1 DEF EndInError
  <2>4. /\ \A c \in C : returned[c] < Calls[c] /\ c \in waiting
        /\ \A c \in C : Current(c) \in Excused' /\ Current(c) \in failed'
    BY <1>1, <2>2, <2>3 DEF CallsCounted, Excused
  <2>5. faults' \in 0..MaxFaults
    BY <1>2, <2>1 DEF Fault
  <2>6. /\ at' \in [AllCalls -> {"nowhere", "called", "print", "stop", "answered"}]
        /\ \A r \in AllCalls : at'[r] = at[r] \/ at'[r] = "nowhere"
        /\ \A r \in AllCalls : at'[r] # "nowhere" => Logger(r) \in up' /\ Logger(r) # p
    BY <1>2, <2>1
  <2>7. \A c \in waiting \ C : Current(c) \in AllCalls /\ Logger(Current(c)) # p
    BY <1>1, <2>2 DEF TypeOK, Logger, Current
  <2>8. /\ handle' \in [Processes -> AllCalls \cup {NoHandle}]
        /\ \A q \in Processes : q # p => handle'[q] = handle[q]
    BY <1>2, <2>1
  <2>9. \A c \in waiting \ C : at'[Current(c)] = at[Current(c)]
    BY <2>1, <2>7
  <2>10. \A r \in AllCalls : at'[r] \in {"print", "stop"} => handle'[Logger(r)] = handle[Logger(r)]
    BY <2>6, <2>8, CallParts
  <2>11. up' \subseteq Processes /\ failed \subseteq failed'
    BY <1>2, <2>1, <2>3
  <2>12. CallsOver(C)
    BY <2>1, <2>3, <2>4, <2>9 DEF CallsOver
  <2>13. NothingWritten
    BY <2>1, <2>5, <2>6, <2>8, <2>10, <2>11 DEF NothingWritten, Logger
  <2> QED
    BY <2>2, <2>12, <2>13, CallsEnd
<1>4. CASE Restart(p)
  <2>1. /\ up' = up \cup {p}
        /\ UNCHANGED <<handle, closed, file, refused, disturbed, at, waiting, returned, failed, faults>>
    BY <1>4 DEF Restart, logger, client
  <2>2. returned' = [d \in Callers |-> returned[d] + (IF d \in {} THEN 1 ELSE 0)]
    BY <1>2, <2>1
  <2>3. CallsOver({})
    BY <2>1, <2>2 DEF CallsOver
  <2>4. NothingWritten
    BY <1>2, <2>1 DEF NothingWritten, Logger
  <2> QED
    BY <2>3, <2>4, CallsEnd
<1> QED
  BY <1>3, <1>4

-----------------------------------------------------------------------------
(* Steps of the logger.                                                    *)

\* A step of the logger leaves the clients alone, and it is for a call that has begun.
LEMMA ServedHasBegun ==
  ASSUME LogInv, NEW r \in AllCalls, at[r] # "nowhere"
  PROVE  Begun(r) /\ Logger(r) \in up /\ (Over(r) => r \in failed)
BY DEF LogInv, NoTraceBefore, FailedAreOver, TypeOK

\* What the clients have begun and finished depends on their variables only.
LEMMA ClientsKept ==
  ASSUME LogInv, UNCHANGED client
  PROVE  /\ \A r : (Begun(r)' <=> Begun(r)) /\ (Over(r)' <=> Over(r))
         /\ \A c : Current(c)' = Current(c)
         /\ CallsCounted' /\ FollowsOver'
<1>1. UNCHANGED <<waiting, returned, failed>>
  BY DEF client
<1>2. \A r : (Begun(r)' <=> Begun(r)) /\ (Over(r)' <=> Over(r))
  BY <1>1 DEF Begun, Over, UnderWay
<1>3. \A c : Current(c)' = Current(c)
  BY <1>1 DEF Current
<1>4. CallsCounted'
  BY <1>1 DEF LogInv, CallsCounted
<1>5. FollowsOver'
  BY <1>1, <1>2 DEF LogInv, FollowsOver
<1> QED
  BY <1>2, <1>3, <1>4, <1>5

\* Opening the file for a call keeps the invariant.
LEMMA StartStep == ASSUME LogInv, NEW r \in AllCalls, Start(r) PROVE LogInv'
<1> DEFINE p == Logger(r)
<1>1. /\ at[r] = "called" /\ at' = [at EXCEPT ![r] = "print"] /\ handle' = [handle EXCEPT ![p] = r]
      /\ disturbed' = IF Using(p) = {} THEN disturbed ELSE disturbed \cup Using(p) \cup {r}
      /\ UNCHANGED <<up, closed, file, refused, waiting, returned, failed, faults>>
  BY DEF Start, Goto, Opened, client
<1>2. TypeOK
  BY DEF LogInv
<1>3. p \in Processes
  BY CallParts
<1> HIDE DEF p
<1>4. /\ \A s \in AllCalls : at'[s] = IF s = r THEN "print" ELSE at[s]
      /\ at' \in [AllCalls -> {"nowhere", "called", "print", "stop", "answered"}]
  BY <1>1, <1>2 DEF TypeOK
<1>5. \A q \in Processes : handle'[q] = IF q = p THEN r ELSE handle[q]
  BY <1>1, <1>2, <1>3 DEF TypeOK
<1>6. Begun(r) /\ (Over(r) => r \in failed)
  BY <1>1, ServedHasBegun
<1>7. /\ \A s : (Begun(s)' <=> Begun(s)) /\ (Over(s)' <=> Over(s))
      /\ \A c : Current(c)' = Current(c)
      /\ CallsCounted' /\ FollowsOver'
  BY <1>1, ClientsKept DEF client
<1>8. /\ disturbed \subseteq disturbed' /\ disturbed' \subseteq disturbed \cup Using(p) \cup {r}
      /\ Excused \subseteq Excused' /\ Excused' \subseteq Excused \cup Using(p) \cup {r}
  BY <1>1 DEF Excused
<1>9. \A s \in Using(p) : s \in AllCalls /\ at[s] # "nowhere" /\ Begun(s)
  BY ServedHasBegun DEF Using
<1>10. /\ \A s : Recorded(s)' <=> Recorded(s)
       /\ RecordedOnce' /\ DecisionPrecedesBinding'
  BY <1>1, <1>8, FileKept
<1>11. TypeOK'
  <2>1. handle' \in [Processes -> AllCalls \cup {NoHandle}]
    BY <1>1, <1>2 DEF TypeOK
  <2>2. \A c \in waiting : Current(c) \in AllCalls /\ at'[Current(c)] # "nowhere"
    BY <1>2, <1>4 DEF TypeOK
  <2>3. \A s \in AllCalls : at'[s] # "nowhere" => Logger(s) \in up
    BY <1>1, <1>2, <1>4 DEF TypeOK
  <2>4. disturbed' \subseteq AllCalls
    BY <1>2, <1>8, <1>9 DEF TypeOK
  <2> QED
    BY <1>1, <1>2, <1>4, <1>7, <2>1, <2>2, <2>3, <2>4 DEF TypeOK, Logger
<1>12. NoTraceBefore'
  BY <1>1, <1>4, <1>6, <1>7, <1>8, <1>9, <1>10 DEF LogInv, NoTraceBefore
<1>13. FailedAreOver'
  BY <1>1, <1>4, <1>6, <1>7 DEF LogInv, FailedAreOver
<1>14. Sharing'
  <2>1. ASSUME NEW s \in AllCalls, NEW t \in AllCalls, s # t, Logger(s) = Logger(t),
               at'[s] \in {"print", "stop"}, at'[t] \in {"print", "stop"}
        PROVE  s \in disturbed'
    <3>1. CASE s = r
      <4>1. t \in Using(p)
        BY <1>4, <2>1, <3>1 DEF Using, p
      <4> QED
        BY <1>1, <3>1, <4>1
    <3>2. CASE t = r
      <4>1. s \in Using(p)
        BY <1>4, <2>1, <3>2 DEF Using, p
      <4> QED
        BY <1>1, <4>1
    <3>3. CASE s # r /\ t # r
      BY <1>4, <1>8, <2>1, <3>3 DEF LogInv, Sharing
    <3> QED
      BY <3>1, <3>2, <3>3
  <2> QED
    BY <2>1 DEF Sharing, Logger
<1>15. HandleKept'
  <2>1. ASSUME NEW s \in AllCalls, at'[s] \in {"print", "stop"}
        PROVE  LET h == handle'[Logger(s)]
               IN h \in AllCalls /\ Logger(h) = Logger(s) /\ Begun(h) /\ at'[h] # "called"
    <3>1. CASE Logger(s) = p
      BY <1>3, <1>4, <1>5, <1>6, <3>1 DEF p
    <3>2. CASE Logger(s) # p
      <4>1. handle'[Logger(s)] = handle[Logger(s)] /\ s # r
        BY <1>5, <3>2, CallParts DEF p
      <4> QED
        BY <1>4, <2>1, <4>1 DEF LogInv, HandleKept
    <3> QED
      BY <3>1, <3>2
  <2> QED
    BY <1>7, <2>1 DEF HandleKept, Logger
<1>16. Progress'
  BY <1>1, <1>4, <1>7, <1>8, <1>10 DEF LogInv, Progress
<1> QED
  BY <1>7, <1>10, <1>11, <1>12, <1>13, <1>14, <1>15, <1>16 DEF LogInv

\* A file that cannot be opened keeps it.
LEMMA StartFailsStep == ASSUME LogInv, NEW r \in AllCalls, StartFails(r) PROVE LogInv'
<1>1. /\ at[r] = "called" /\ at' = [at EXCEPT ![r] = "answered"] /\ refused' = refused \cup {r}
      /\ Fault
      /\ UNCHANGED <<up, handle, closed, file, disturbed, waiting, returned, failed>>
  BY DEF StartFails, Goto, client
<1>2. TypeOK
  BY DEF LogInv
<1>3. /\ \A s \in AllCalls : at'[s] = IF s = r THEN "answered" ELSE at[s]
      /\ at' \in [AllCalls -> {"nowhere", "called", "print", "stop", "answered"}]
  BY <1>1, <1>2 DEF TypeOK
<1>4. Begun(r) /\ (Over(r) => r \in failed)
  BY <1>1, ServedHasBegun
<1>5. /\ \A s : (Begun(s)' <=> Begun(s)) /\ (Over(s)' <=> Over(s))
      /\ \A c : Current(c)' = Current(c)
      /\ CallsCounted' /\ FollowsOver'
  BY <1>1, ClientsKept DEF client
<1>6. Excused' = Excused \cup {r}
  BY <1>1 DEF Excused
<1>7. /\ \A s : Recorded(s)' <=> Recorded(s)
      /\ RecordedOnce' /\ DecisionPrecedesBinding'
  BY <1>1, <1>6, FileKept
<1>8. TypeOK'
  <2>1. \A c \in waiting : Current(c) \in AllCalls /\ at'[Current(c)] # "nowhere"
    BY <1>2, <1>3 DEF TypeOK
  <2>2. \A s \in AllCalls : at'[s] # "nowhere" => Logger(s) \in up
    BY <1>1, <1>2, <1>3 DEF TypeOK
  <2>3. faults' \in 0..MaxFaults
    BY <1>1, <1>2, CallersAssumption DEF TypeOK, Fault
  <2> QED
    BY <1>1, <1>2, <1>3, <1>5, <2>1, <2>2, <2>3 DEF TypeOK, Logger
<1>9. NoTraceBefore' /\ FailedAreOver'
  BY <1>1, <1>3, <1>4, <1>5, <1>6, <1>7 DEF LogInv, NoTraceBefore, FailedAreOver
<1>10. Sharing' /\ HandleKept'
  BY <1>1, <1>3, <1>5 DEF LogInv, Sharing, HandleKept, Logger
<1>11. Progress'
  BY <1>1, <1>3, <1>5, <1>6, <1>7 DEF LogInv, Progress
<1> QED
  BY <1>5, <1>7, <1>8, <1>9, <1>10, <1>11 DEF LogInv

\* A call that others follow is over when they write their record.
LEMMA FollowedIsRecorded ==
  ASSUME LogInv, NEW c \in Callers, NEW d \in After[c], NEW k \in 1..Calls[c], Begun(<<c, k>>)
  PROVE  Recorded(<<d, k>>) \/ <<d, k>> \in Excused
<1>1. d \in Callers /\ k \in Nat /\ k >= 1 /\ k <= returned[d]
  BY CallersAssumption DEF LogInv, FollowsOver
<1>2. k \in 1..Calls[d]
  BY <1>1, CallersAssumption DEF LogInv, CallsCounted
<1>3. <<d, k>> \in AllCalls /\ Over(<<d, k>>)
  BY <1>1, <1>2, IsCall DEF Over
<1> QED
  BY <1>3 DEF LogInv, Progress

\* Writing a record keeps it.
LEMMA PrintfStep == ASSUME LogInv, NEW r \in AllCalls, Printf(r) PROVE LogInv'
<1>1. /\ at[r] = "print" /\ at' = [at EXCEPT ![r] = "stop"]
      /\ file' = IF r \in closed THEN file ELSE Append(file, r)
      /\ UNCHANGED <<up, handle, closed, refused, disturbed, waiting, returned, failed, faults>>
  BY DEF Printf, Goto, client
<1>2. TypeOK
  BY DEF LogInv
<1>3. /\ \A s \in AllCalls : at'[s] = IF s = r THEN "stop" ELSE at[s]
      /\ at' \in [AllCalls -> {"nowhere", "called", "print", "stop", "answered"}]
  BY <1>1, <1>2 DEF TypeOK
<1>4. Begun(r) /\ (Over(r) => r \in failed) /\ ~Recorded(r)
  BY <1>1, ServedHasBegun DEF LogInv, Progress
<1>5. /\ \A s : (Begun(s)' <=> Begun(s)) /\ (Over(s)' <=> Over(s))
      /\ \A c : Current(c)' = Current(c)
      /\ CallsCounted' /\ FollowsOver'
  BY <1>1, ClientsKept DEF client
<1>6. Excused' = Excused
  BY <1>1 DEF Excused
<1>7. /\ file' \in Seq(AllCalls)
      /\ \A s : Recorded(s) => Recorded(s)'
      /\ \A s : Recorded(s)' => Recorded(s) \/ s = r
      /\ Recorded(r)' \/ r \in closed
      /\ RecordedOnce' /\ DecisionPrecedesBinding'
  <2>1. CASE r \in closed
    BY <1>1, <1>2, <1>6, <2>1, FileKept DEF TypeOK
  <2>2. CASE r \notin closed
    <3> DEFINE n == Len(file)
    <3>1. /\ n \in Nat /\ DOMAIN file = 1..n /\ file' \in Seq(AllCalls)
          /\ DOMAIN file' = 1..(n + 1) /\ file'[n + 1] = r /\ \A i \in 1..n : file'[i] = file[i]
      BY <1>1, <1>2, <2>2 DEF TypeOK
    <3> HIDE DEF n
    <3>2. \A i \in 1..(n + 1) : i \in 1..n \/ i = n + 1
      BY <3>1
    <3>3. 1..n \subseteq 1..(n + 1) /\ n + 1 \in 1..(n + 1) /\ \A i \in 1..n : i < n + 1
      BY <3>1
    <3>4. \A s : Recorded(s)' <=> Recorded(s) \/ s = r
      BY <3>1, <3>2, <3>3 DEF Recorded
    <3>5. RecordedOnce'
      BY <1>4, <3>1, <3>2 DEF LogInv, RecordedOnce, Recorded
    <3>6. ASSUME NEW c \in Callers, NEW d \in After[c], NEW k \in 1..Calls[c],
                 NEW j \in DOMAIN file', file'[j] = <<c, k>>
          PROVE  (\E i \in DOMAIN file' : file'[i] = <<d, k>> /\ i < j) \/ <<d, k>> \in Excused
      <4>1. CASE j \in 1..n
        <5>1. j \in Index(<<c, k>>)
          BY <3>1, <3>6, <4>1 DEF Index
        <5>2. (\E i \in Index(<<d, k>>) : i < j) \/ <<d, k>> \in Excused
          BY <5>1 DEF LogInv, DecisionPrecedesBinding, Excused
        <5> QED
          BY <3>1, <3>3, <5>2 DEF Index
      <4>2. CASE j = n + 1
        <5>1. Begun(<<c, k>>)
          BY <1>4, <3>1, <3>6, <4>2
        <5>2. Recorded(<<d, k>>) \/ <<d, k>> \in Excused
          BY <5>1, FollowedIsRecorded
        <5> QED
          BY <3>1, <3>3, <4>2, <5>2 DEF Recorded
      <4> QED
        BY <3>1, <3>2, <4>1, <4>2
    <3>7. DecisionPrecedesBinding'
      BY <1>1, <3>6 DEF DecisionPrecedesBinding, Index, Excused
    <3> QED
      BY <3>1, <3>4, <3>5, <3>7
  <2> QED
    BY <2>1, <2>2
<1>8. TypeOK'
  <2>1. \A c \in waiting : Current(c) \in AllCalls /\ at'[Current(c)] # "nowhere"
    BY <1>2, <1>3 DEF TypeOK
  <2>2. \A s \in AllCalls : at'[s] # "nowhere" => Logger(s) \in up
    BY <1>1, <1>2, <1>3 DEF TypeOK
  <2> QED
    BY <1>1, <1>2, <1>3, <1>5, <1>7, <2>1, <2>2 DEF TypeOK, Logger
<1>9. NoTraceBefore' /\ FailedAreOver'
  BY <1>1, <1>3, <1>4, <1>5, <1>6, <1>7 DEF LogInv, NoTraceBefore, FailedAreOver
<1>10. Sharing' /\ HandleKept'
  BY <1>1, <1>3, <1>5 DEF LogInv, Sharing, HandleKept, Logger
<1>11. Progress'
  BY <1>1, <1>3, <1>5, <1>6, <1>7 DEF LogInv, Progress
<1> QED
  BY <1>5, <1>7, <1>8, <1>9, <1>10, <1>11 DEF LogInv

\* Closing the file the logger holds keeps it.
LEMMA StopStep == ASSUME LogInv, NEW r \in AllCalls, Stop(r) PROVE LogInv'
<1> DEFINE h == handle[Logger(r)]
           step == IF r \in failed THEN "nowhere" ELSE "answered"
<1>1. /\ at[r] = "stop" /\ at' = [at EXCEPT ![r] = step] /\ closed' = closed \cup {h}
      /\ UNCHANGED <<up, handle, file, refused, disturbed, waiting, returned, failed, faults>>
  BY DEF Stop, Goto, client
<1>2. TypeOK
  BY DEF LogInv
<1>3. h \in AllCalls /\ Logger(h) = Logger(r) /\ Begun(h) /\ at[h] # "called"
  BY <1>1 DEF LogInv, HandleKept
<1>4. at[h] = "print" => h \in disturbed
  BY <1>1, <1>3 DEF LogInv, Sharing
<1> HIDE DEF h
<1>5. /\ \A s \in AllCalls : at'[s] = IF s = r THEN step ELSE at[s]
      /\ at' \in [AllCalls -> {"nowhere", "called", "print", "stop", "answered"}]
  BY <1>1, <1>2 DEF TypeOK
<1>6. Begun(r) /\ (Over(r) <=> r \in failed)
  BY <1>1, ServedHasBegun DEF LogInv, FailedAreOver
<1>7. /\ \A s : (Begun(s)' <=> Begun(s)) /\ (Over(s)' <=> Over(s))
      /\ \A c : Current(c)' = Current(c)
      /\ CallsCounted' /\ FollowsOver'
  BY <1>1, ClientsKept DEF client
<1>8. Excused' = Excused
  BY <1>1 DEF Excused
<1>9. /\ \A s : Recorded(s)' <=> Recorded(s)
      /\ RecordedOnce' /\ DecisionPrecedesBinding'
  BY <1>1, <1>8, FileKept
<1>10. TypeOK'
  <2>1. ASSUME NEW c \in waiting PROVE Current(c) \in AllCalls /\ at'[Current(c)] # "nowhere"
    <3>1. c \in Callers /\ Current(c) \in AllCalls /\ at[Current(c)] # "nowhere"
      BY <1>2 DEF TypeOK
    <3>2. ~Over(Current(c))
      BY <1>2, <3>1 DEF TypeOK, Over, Current
    <3> QED
      BY <1>5, <1>6, <3>1, <3>2
  <2>2. \A s \in AllCalls : at'[s] # "nowhere" => Logger(s) \in up
    BY <1>1, <1>2, <1>5 DEF TypeOK
  <2>3. closed' \subseteq AllCalls
    BY <1>1, <1>2, <1>3 DEF TypeOK
  <2> QED
    BY <1>1, <1>2, <1>5, <1>7, <2>1, <2>2, <2>3 DEF TypeOK, Logger
<1>11. NoTraceBefore' /\ FailedAreOver'
  BY <1>1, <1>3, <1>5, <1>6, <1>7, <1>8, <1>9 DEF LogInv, NoTraceBefore, FailedAreOver
<1>12. Sharing' /\ HandleKept'
  BY <1>1, <1>5, <1>7 DEF LogInv, Sharing, HandleKept, Logger
<1>13. Progress'
  BY <1>1, <1>3, <1>4, <1>5, <1>7, <1>8, <1>9 DEF LogInv, Progress
<1> QED
  BY <1>7, <1>9, <1>10, <1>11, <1>12, <1>13 DEF LogInv

-----------------------------------------------------------------------------
(* The invariant of the log.                                               *)

\* The invariant holds initially.
LEMMA LogInit == Init => LogInv
<1> SUFFICES ASSUME Init PROVE LogInv
  OBVIOUS
<1>1. \A r \in AllCalls : ~Begun(r) /\ ~Over(r)
  <2>1. ASSUME NEW r \in AllCalls PROVE ~(r[2] <= returned[r[1]]) /\ r[1] \notin waiting
    BY CallParts DEF Init
  <2> QED
    BY <2>1 DEF Begun, Over, UnderWay
<1>2. \A r : ~Recorded(r) /\ Index(r) = {}
  BY DEF Init, Recorded, Index
<1>3. TypeOK
  BY CallersAssumption DEF Init, TypeOK
<1>4. CallsCounted /\ FollowsOver
  <2>1. CallsCounted
    BY CallersAssumption DEF Init, CallsCounted
  <2>2. FollowsOver
    BY <1>1, IsCall DEF FollowsOver
  <2> QED
    BY <2>1, <2>2
<1>5. NoTraceBefore /\ FailedAreOver /\ Sharing /\ HandleKept /\ Progress
  BY <1>1, <1>2 DEF Init, NoTraceBefore, FailedAreOver, Sharing, HandleKept, Progress, Excused
<1>6. RecordedOnce /\ DecisionPrecedesBinding
  BY <1>2 DEF Init, RecordedOnce, DecisionPrecedesBinding
<1> QED
  BY <1>3, <1>4, <1>5, <1>6 DEF LogInv

\* Every step keeps the invariant.
LEMMA LogStep == LogInv /\ [Next]_vars => LogInv'
<1> SUFFICES ASSUME LogInv, [Next]_vars PROVE LogInv'
  OBVIOUS
<1>1. ASSUME NEW c \in Callers, Send(c) \/ Notify(c) \/ Handle(c) PROVE LogInv'
  BY <1>1, CallStep DEF Send, Notify, Handle
<1>2. ASSUME NEW c \in Callers, SendFails(c) \/ Nameless(c) \/ Return(c) \/ Break(c) PROVE LogInv'
  BY <1>2, ClientStep
<1>3. ASSUME NEW r \in AllCalls, Serve(r) PROVE LogInv'
  BY <1>3, StartStep, StartFailsStep, PrintfStep, StopStep DEF Serve
<1>4. ASSUME NEW p \in Processes, Crash(p) \/ Restart(p) PROVE LogInv'
  BY <1>4, ProcessStep
<1>5. CASE UNCHANGED vars
  <2>1. UNCHANGED <<up, handle, closed, file, refused, disturbed, at, waiting, returned, failed, faults>>
    BY <1>5 DEF vars, logger, client
  <2>2. /\ \A r : Recorded(r)' <=> Recorded(r)
        /\ RecordedOnce' /\ DecisionPrecedesBinding'
    BY <2>1, FileKept DEF Excused
  <2>3. /\ \A r : (Begun(r)' <=> Begun(r)) /\ (Over(r)' <=> Over(r))
        /\ \A c : Current(c)' = Current(c)
        /\ CallsCounted' /\ FollowsOver'
    BY <2>1, ClientsKept DEF client
  <2>4. TypeOK'
    BY <2>1, <2>3 DEF LogInv, TypeOK, Logger
  <2>5. NoTraceBefore' /\ FailedAreOver' /\ Sharing' /\ HandleKept' /\ Progress'
    BY <2>1, <2>2, <2>3 DEF LogInv, NoTraceBefore, FailedAreOver, Sharing, HandleKept, Progress,
                            Excused, Logger
  <2> QED
    BY <2>2, <2>3, <2>4, <2>5 DEF LogInv
<1> QED
  BY <1>1, <1>2, <1>3, <1>4, <1>5 DEF Next

\* The invariant holds in every reachable state.
LEMMA LogInvariance == Spec => []LogInv
BY LogInit, LogStep, PTL DEF Spec

\* Every variable of the service, its clients and the loggers keeps its type.
THEOREM SnifferTypes == Spec => []TypeOK
<1>1. LogInv => TypeOK
  BY DEF LogInv
<1> QED
  BY <1>1, LogInvariance, PTL

\* The record of a decision precedes that of its binding, whoever writes them and
\* whatever dies in between, unless the call of the former failed or raced.
THEOREM RecordsInOrder == Spec => []DecisionPrecedesBinding
<1>1. LogInv => DecisionPrecedesBinding
  BY DEF LogInv
<1> QED
  BY <1>1, LogInvariance, PTL

-----------------------------------------------------------------------------
(* The promise of RecordLog, step by step.                                 *)

\* The initial states are those of the promise.
LEMMA PromiseInit == Init => Promise!Init
BY DEF Init, Promise!Init

\* What the abstract log sees.
LEMMA PromiseSees ==
  /\ Promise!vars = <<file, returned, Excused>>
  /\ \A c : Promise!Current(c) = Current(c)
  /\ \A r : Promise!Recorded(r) <=> Recorded(r)
  /\ Promise!Calling = {c \in Callers : returned[c] < Calls[c]}
BY DEF Promise!vars, Promise!Current, Promise!Recorded, Promise!Calling, Excused, Current, Recorded

\* Calls that end in an error are a Fail.
LEMMA PromiseFail ==
  ASSUME LogInv, NEW C \in SUBSET Callers, \A c \in C : returned[c] < Calls[c],
         EndInError(C), UNCHANGED <<file, refused, disturbed>>
  PROVE  Promise!Fail
<1>1. C \in SUBSET Promise!Calling
  BY PromiseSees
<1>2. Excused' = Excused \cup {Promise!Current(c) : c \in C}
  BY PromiseSees DEF EndInError, Excused
<1>3. returned' = [c \in Callers |-> returned[c] + (IF c \in C THEN 1 ELSE 0)]
  BY DEF EndInError
<1> QED
  BY <1>1, <1>2, <1>3 DEF Promise!Fail, Excused

\* Calls that are served and that get an excuse are under way or had one already.
LEMMA PromiseExcuse ==
  ASSUME LogInv, NEW R \in SUBSET AllCalls, \A r \in R : at[r] # "nowhere",
         Excused' = Excused \cup R, UNCHANGED <<file, returned>>
  PROVE  Promise!Excuse
<1> DEFINE C == {c \in waiting : Current(c) \in R}
<1>1. \A c \in waiting : c \in Callers /\ returned[c] < Calls[c]
  BY DEF LogInv, TypeOK, CallsCounted
<1>2. C \in SUBSET Promise!Calling
  BY <1>1, PromiseSees
<1>3. ASSUME NEW r \in R, r \notin Excused PROVE \E c \in C : r = Current(c)
  <2>1. UnderWay(r)
    BY <1>3, ServedHasBegun DEF Begun, Excused
  <2>2. r[1] \in waiting /\ r = Current(r[1])
    BY <1>1, <2>1, CurrentCall DEF UnderWay, LogInv
  <2> QED
    BY <2>2
<1>4. Excused' = Excused \cup {Promise!Current(c) : c \in C}
  <2>1. {Promise!Current(c) : c \in C} = {Current(c) : c \in C}
    BY PromiseSees
  <2> QED
    BY <1>3, <2>1
<1> HIDE DEF C
<1> QED
  BY <1>2, <1>4 DEF Promise!Excuse, Excused

\* Every step of the service is one of the promise, or a stutter.
LEMMA PromiseStep == LogInv /\ [Next]_vars => [Promise!Next]_(Promise!vars)
<1> SUFFICES ASSUME LogInv, [Next]_vars PROVE Promise!Next \/ UNCHANGED <<file, returned, Excused>>
  BY DEF Promise!vars, Excused
<1>0. TypeOK /\ CallsCounted
  BY DEF LogInv
<1>1. ASSUME NEW c \in Callers, Send(c) \/ Notify(c) \/ Handle(c)
      PROVE  UNCHANGED <<file, returned, Excused>>
  BY <1>1 DEF Send, Notify, Handle, Call, logger, Excused
<1>2. ASSUME NEW c \in Callers, SendFails(c) \/ Nameless(c) \/ Break(c) PROVE Promise!Fail
  <2>1. EndInError({c}) /\ UNCHANGED <<file, refused, disturbed>> /\ (MayCall(c) \/ c \in waiting)
    BY <1>2 DEF SendFails, Nameless, Break, logger
  <2>2. returned[c] < Calls[c]
    BY <1>0, <2>1 DEF MayCall, CallsCounted
  <2> QED
    BY <2>1, <2>2, PromiseFail
<1>3. ASSUME NEW c \in Callers, Return(c) PROVE Promise!Return(c)
  <2>1. /\ c \in waiting /\ at[Current(c)] = "answered" /\ returned' = [returned EXCEPT ![c] = @ + 1]
        /\ UNCHANGED <<file, refused, disturbed, failed>>
    BY <1>3 DEF Return, logger
  <2>2. Current(c) \in AllCalls
    BY <1>0, <2>1 DEF TypeOK
  <2>3. Recorded(Current(c)) \/ Current(c) \in Excused
    BY <2>1, <2>2 DEF LogInv, Progress, Excused
  <2>4. Promise!Ready(c)
    BY <2>3, PromiseSees DEF Promise!Ready, Excused
  <2> QED
    BY <2>1, <2>4 DEF Promise!Return
<1>4. ASSUME NEW r \in AllCalls, Start(r) PROVE Promise!Excuse
  <2> DEFINE R == IF Using(Logger(r)) = {} THEN {} ELSE Using(Logger(r)) \cup {r}
  <2>1. at[r] # "nowhere" /\ disturbed' = disturbed \cup R /\ UNCHANGED <<file, refused, failed, returned>>
    BY <1>4 DEF Start, client, Opened
  <2>2. R \in SUBSET AllCalls /\ \A s \in R : at[s] # "nowhere"
    BY <2>1 DEF Using
  <2> HIDE DEF R
  <2>3. Excused' = Excused \cup R
    BY <2>1 DEF Excused
  <2> QED
    BY <2>1, <2>2, <2>3, PromiseExcuse
<1>5. ASSUME NEW r \in AllCalls, StartFails(r) PROVE Promise!Excuse
  <2>1. at[r] # "nowhere" /\ refused' = refused \cup {r} /\ UNCHANGED <<file, disturbed, failed, returned>>
    BY <1>5 DEF StartFails, client
  <2> DEFINE R == {r}
  <2>2. Excused' = Excused \cup R
    BY <2>1 DEF Excused
  <2>3. R \in SUBSET AllCalls /\ \A s \in R : at[s] # "nowhere"
    BY <2>1
  <2> HIDE DEF R
  <2> QED
    BY <2>1, <2>2, <2>3, PromiseExcuse
<1>6. ASSUME NEW r \in AllCalls, Printf(r) PROVE Promise!Record \/ UNCHANGED <<file, returned, Excused>>
  <2>1. /\ at[r] = "print" /\ UNCHANGED <<refused, disturbed, failed, returned>>
        /\ file' = IF r \in closed THEN file ELSE Append(file, r)
    BY <1>6 DEF Printf, client
  <2>2. Excused' = Excused
    BY <2>1 DEF Excused
  <2>3. ~Recorded(r)
    BY <2>1 DEF LogInv, Progress
  <2>4. r \in {Promise!Current(c) : c \in Promise!Calling} \cup Excused
    <3>1. CASE UnderWay(r)
      <4>1. r[1] \in Callers /\ returned[r[1]] < Calls[r[1]]
        BY <1>0, <3>1, CallParts DEF UnderWay, CallsCounted
      <4>2. r = Current(r[1])
        BY <1>0, <3>1, <4>1, CurrentCall DEF UnderWay
      <4> QED
        BY <4>1, <4>2, PromiseSees
    <3>2. CASE ~UnderWay(r)
      BY <2>1, <3>2, ServedHasBegun DEF Begun, Excused
    <3> QED
      BY <3>1, <3>2
  <2> QED
    BY <2>1, <2>2, <2>3, <2>4, PromiseSees DEF Promise!Record, Excused
<1>7. ASSUME NEW r \in AllCalls, Stop(r) PROVE UNCHANGED <<file, returned, Excused>>
  BY <1>7 DEF Stop, client, Excused
<1>8. ASSUME NEW p \in Processes, Crash(p) PROVE Promise!Fail
  <2>1. CutOff(p) \in SUBSET Callers /\ \A c \in CutOff(p) : returned[c] < Calls[c]
    BY <1>0 DEF CutOff, TypeOK, CallsCounted
  <2>2. EndInError(CutOff(p)) /\ UNCHANGED <<file, refused, disturbed>>
    BY <1>8 DEF Crash
  <2> QED
    BY <2>1, <2>2, PromiseFail
<1>9. ASSUME NEW p \in Processes, Restart(p) PROVE UNCHANGED <<file, returned, Excused>>
  BY <1>9 DEF Restart, logger, client, Excused
<1>10. CASE UNCHANGED vars
  BY <1>10 DEF vars, logger, client, Excused
<1> QED
  BY <1>1, <1>2, <1>3, <1>4, <1>5, <1>6, <1>7, <1>8, <1>9, <1>10 DEF Next, Serve, Promise!Next

\* Every step of the clients, the service and the watcher is a step of the log that
\* its writers are promised, or leaves it as it is.
THEOREM PromiseIsKept == Spec => Promise!Init /\ [][Promise!Next]_(Promise!vars)
BY PromiseInit, PromiseStep, LogInvariance, PTL DEF Spec

=============================================================================
