--------------------------- MODULE HostSelection ---------------------------
(***************************************************************************)
(* From the nodes that passed the filter plugins to the host of a pod:     *)
(* findNodesThatPassExtenders, prioritizeNodes and selectHost, as          *)
(* schedulePod calls them (scheduler/schedule_one.go), over the extenders   *)
(* that buildExtenders lists when the scheduler is made (scheduler.go).    *)
(*                                                                         *)
(* The extenders filter one after the other and score all at once, each    *)
(* called by a goroutine of its own; the scores are added up under a mutex *)
(* in the order the answers come.  What extenders and plugins answer is    *)
(* chosen freely.  The order of nodes that score the same is too.          *)
(*                                                                         *)
(* A definition marked (Slip: ...) is no part of the model: it is the one  *)
(* after it with a plausible mistake, to see that a property notices.      *)
(***************************************************************************)
EXTENDS Naturals, Sequences, FiniteSets, FiniteSetsExt

CONSTANTS
    Node,
    Configurations, \* lists of extenders, as a configuration names them
    Ignorable,     \* the extenders whose filter errors are ignored
    Weight,        \* of each extender
    Scale,         \* MaxNodeScore / MaxExtenderPriority
    Scores,        \* the scores a plugin or an extender gives
    Count,         \* numberOfHighestScoredNodesToReport
    NoNode

Elements(s) == {s[i] : i \in DOMAIN s}
Extender == UNION {Elements(s) : s \in Configurations}

ASSUME ExtendersAssumption ==
    /\ IsFiniteSet(Node) /\ NoNode \notin Node
    /\ \A s \in Configurations :
         s \in Seq(Extender) /\ \A i, j \in DOMAIN s : s[i] = s[j] => i = j
    /\ Weight \in [Extender -> Nat]
    /\ Scores \subseteq Nat /\ Scale \in Nat
    /\ Count \in Nat \ {0}

VARIABLES
    phase,
    configured,   \* the extenders of the configuration
    extenders,    \* sched.Extenders
    hasScorePlugins, \* does the profile of the pod have score plugins?
    interested,   \* the extenders that IsInterested in the pod
    called,       \* how many extenders the filter loop is through with
    feasibleNodes,
    statuses,     \* the entry of each node in the NodeToStatusMap
    nodesScores,  \* TotalScore of each feasible node
    pc,           \* the goroutine of each extender
    answered,     \* the scores each extender gave
    allNodeExtendersScores,
    h,            \* the heap: the nodes not popped yet
    cntOfMaxScore, selectedIndex, sortedNodeScoreList,
    host

filtering == <<configured, extenders, hasScorePlugins, interested, called, feasibleNodes, statuses>>
scoring == <<nodesScores, pc, answered, allNodeExtendersScores>>
selecting == <<h, cntOfMaxScore, selectedIndex, sortedNodeScoreList>>
vars == <<phase, filtering, scoring, selecting, host>>

Zero == [n \in Node |-> 0]

\* (Slip: they stay in the order of the configuration.)
BuildExtendersAsListed(listed) == {listed}

\* Every extender once, the ignorable ones placed at the tail, and otherwise in the
\* order of the configuration: there is just one such list.
Precedes(listed, e, f) == \E i, j \in DOMAIN listed : i < j /\ listed[i] = e /\ listed[j] = f
BuildExtenders(listed) ==
    {s \in [DOMAIN listed -> Elements(listed)] :
       /\ Elements(s) = Elements(listed)
       /\ \A i, j \in DOMAIN s : i < j =>
            IF s[i] \in Ignorable <=> s[j] \in Ignorable
              THEN Precedes(listed, s[i], s[j])
              ELSE s[j] \in Ignorable}

\* The nodes the filter plugins rejected have their status already, and the node
\* nominated for the pod may have one from its evaluation.
Init ==
    /\ phase = "filter"
    /\ hasScorePlugins \in BOOLEAN
    /\ configured \in Configurations
    /\ extenders \in BuildExtenders(configured)
    /\ interested \in SUBSET Elements(extenders)
    /\ called = 0
    /\ feasibleNodes \in SUBSET Node \ {{}}
    /\ statuses \in [Node -> {"none", "unschedulable", "unresolvable"}]
    /\ \A n \in Node \ feasibleNodes : statuses[n] # "none"
    /\ Cardinality({n \in feasibleNodes : statuses[n] # "none"}) <= 1
    /\ nodesScores = Zero
    /\ pc = [e \in Extender |-> "idle"]
    /\ answered = [e \in Extender |-> Zero]
    /\ allNodeExtendersScores = Zero
    /\ h = {}
    /\ cntOfMaxScore = 0
    /\ selectedIndex = 0
    /\ sortedNodeScoreList = <<>>
    /\ host = NoNode

-----------------------------------------------------------------------------
(* findNodesThatPassExtenders.                                             *)

MoreExtenders == phase = "filter" /\ feasibleNodes # {} /\ called < Len(extenders)
Current == extenders[called + 1]

\* (Slip: the last extender's word counts.)
VerdictLast(n, failed, unresolvable) ==
    IF n \in unresolvable THEN "unresolvable"
    ELSE IF n \in failed THEN "unschedulable"
    ELSE statuses[n]

\* A node that cannot be helped by preemption is marked so over whatever was
\* said before; a node that merely failed keeps the mark it has.
Verdict(n, failed, unresolvable) ==
    IF n \in unresolvable THEN "unresolvable"
    ELSE IF n \in failed /\ statuses[n] = "none" THEN "unschedulable"
    ELSE statuses[n]

\* An extender keeps some nodes, and says in one or both of its maps why others
\* failed.  Nobody checks which nodes it names there: they may be nodes that an
\* earlier extender or a filter plugin removed, or nodes that it keeps.
Filter == \E kept \in SUBSET feasibleNodes :
    /\ MoreExtenders
    /\ Current \in interested
    /\ \E failed, unresolvable \in SUBSET Node :
         statuses' = [n \in Node |-> Verdict(n, failed, unresolvable)]
    /\ feasibleNodes' = kept
    /\ called' = called + 1
    /\ UNCHANGED <<phase, configured, extenders, hasScorePlugins, interested, scoring, selecting, host>>

PassOver ==
    /\ MoreExtenders
    /\ Current \notin interested \/ Current \in Ignorable
    /\ called' = called + 1
    /\ UNCHANGED <<phase, configured, extenders, hasScorePlugins, interested, feasibleNodes, statuses, scoring, selecting, host>>

FilterFails ==
    /\ MoreExtenders
    /\ Current \in interested \ Ignorable
    /\ phase' = "error"
    /\ UNCHANGED <<filtering, scoring, selecting, host>>

\* schedulePod: no node is left, or one, or they have to be scored.
NoNodeLeft ==
    /\ phase = "filter"
    /\ feasibleNodes = {}
    /\ phase' = "unfit"
    /\ UNCHANGED <<filtering, scoring, selecting, host>>

OneNodeLeft ==
    /\ phase = "filter" /\ ~MoreExtenders
    /\ \E n \in Node : feasibleNodes = {n} /\ host' = n
    /\ phase' = "done"
    /\ UNCHANGED <<filtering, scoring, selecting>>

-----------------------------------------------------------------------------
(* prioritizeNodes.                                                        *)

ToScore == phase = "filter" /\ ~MoreExtenders /\ Cardinality(feasibleNodes) > 1

\* With nothing to score by, every node scores one.
ScoreOne ==
    /\ ToScore
    /\ extenders = <<>> /\ ~hasScorePlugins
    /\ nodesScores' = [n \in Node |-> IF n \in feasibleNodes THEN 1 ELSE 0]
    /\ phase' = "select"
    /\ h' = feasibleNodes
    /\ UNCHANGED <<filtering, pc, answered, allNodeExtendersScores,
                   cntOfMaxScore, selectedIndex, sortedNodeScoreList, host>>

\* The PreScore and Score plugins, and a goroutine for every interested extender.
RunScorePlugins ==
    /\ ToScore
    /\ extenders # <<>> \/ hasScorePlugins
    /\ \E s \in [feasibleNodes -> IF hasScorePlugins THEN Scores ELSE {0}] :
         nodesScores' = [n \in Node |-> IF n \in feasibleNodes THEN s[n] ELSE 0]
    /\ pc' = [e \in Extender |-> IF e \in interested THEN "asking" ELSE "idle"]
    /\ phase' = "prioritize"
    /\ UNCHANGED <<filtering, answered, allNodeExtendersScores, selecting, host>>

\* A plugin fails: a profile without Score plugins may have PreScore plugins.
ScorePluginsFail ==
    /\ ToScore
    /\ extenders # <<>> \/ hasScorePlugins
    /\ phase' = "error"
    /\ UNCHANGED <<filtering, scoring, selecting, host>>

\* (Slip: the score of the last extender to answer replaces the sum.)
SumLast(scores, more) == more
Sum(scores, more) == [n \in Node |-> scores[n] + more[n]]

\* (Slip: the goroutine that gets an error does not call Done.)
DoneOnSuccess(failed) == IF failed THEN "failed" ELSE "idle"
Done(failed) == "idle"

\* An extender answers, and its scaled and weighted scores are added under
\* the mutex; or it fails, and its scores are left out.
Prioritize(e) == \E s \in [feasibleNodes -> Scores] :
    /\ pc[e] = "asking"
    /\ answered' = [answered EXCEPT ![e] =
                      [n \in Node |-> IF n \in feasibleNodes THEN s[n] * Weight[e] * Scale ELSE 0]]
    /\ allNodeExtendersScores' = Sum(allNodeExtendersScores, answered'[e])
    /\ pc' = [pc EXCEPT ![e] = Done(FALSE)]
    /\ UNCHANGED <<phase, filtering, nodesScores, selecting, host>>

PrioritizeFails(e) ==
    /\ pc[e] = "asking"
    /\ pc' = [pc EXCEPT ![e] = Done(TRUE)]
    /\ UNCHANGED <<phase, filtering, nodesScores, answered, allNodeExtendersScores, selecting, host>>

\* wg.Wait returns: the extenders' scores are added to the plugins'.
AddExtendersScores ==
    /\ phase = "prioritize"
    /\ \A e \in Extender : pc[e] = "idle"
    /\ nodesScores' = Sum(nodesScores, allNodeExtendersScores)
    /\ phase' = "select"
    /\ h' = feasibleNodes
    /\ UNCHANGED <<filtering, pc, answered, allNodeExtendersScores,
                   cntOfMaxScore, selectedIndex, sortedNodeScoreList, host>>

-----------------------------------------------------------------------------
(* selectHost.                                                             *)

Top == {n \in h : \A m \in h : nodesScores[m] <= nodesScores[n]}
TopScore == nodesScores[sortedNodeScoreList[1]]

\* (Slip: the draw is made before the node is counted.)
ReplacesEarly(draw, cnt) == draw % (cnt - 1) = 0

\* The candidate is replaced by the cnt-th of the best nodes when a number drawn
\* from 0..cnt-1 is 0.
Replaces(draw, cnt) == draw = 0

PopFirst == \E n \in Top :
    /\ phase = "select" /\ sortedNodeScoreList = <<>>
    /\ h' = h \ {n}
    /\ sortedNodeScoreList' = <<n>>
    /\ cntOfMaxScore' = 1
    /\ selectedIndex' = 0
    /\ UNCHANGED <<phase, filtering, scoring, host>>

\* The loop goes on until every node of the highest score had its draw and
\* there are Count nodes, or none is left.
Enough(n) == nodesScores[n] # TopScore /\ Len(sortedNodeScoreList) = Count

PopNext == \E n \in Top :
    /\ phase = "select" /\ sortedNodeScoreList # <<>>
    /\ ~Enough(n)
    /\ h' = h \ {n}
    /\ sortedNodeScoreList' = Append(sortedNodeScoreList, n)
    /\ IF nodesScores[n] = TopScore
         THEN /\ cntOfMaxScore' = cntOfMaxScore + 1
              /\ \E draw \in 0..cntOfMaxScore :
                   selectedIndex' = IF Replaces(draw, cntOfMaxScore + 1)
                                      THEN cntOfMaxScore ELSE selectedIndex
         ELSE UNCHANGED <<cntOfMaxScore, selectedIndex>>
    /\ UNCHANGED <<phase, filtering, scoring, host>>

\* The selected node changes places with the first, and the list is cut.
Selected(list) ==
    [i \in 1..(IF Len(list) > Count THEN Count ELSE Len(list)) |->
       IF i = 1 THEN list[selectedIndex + 1]
       ELSE IF i = selectedIndex + 1 THEN list[1] ELSE list[i]]

\* The loop is left with enough nodes, or when the heap is empty after a pop; before
\* the second pop nothing is checked, so with one node it would not be left.
SelectHost ==
    /\ phase = "select" /\ sortedNodeScoreList # <<>>
    /\ (h = {} /\ Len(sortedNodeScoreList) > 1) \/ \E n \in Top : Enough(n)
    /\ sortedNodeScoreList' = Selected(sortedNodeScoreList)
    /\ host' = sortedNodeScoreList'[1]
    /\ phase' = "done"
    /\ UNCHANGED <<filtering, scoring, h, cntOfMaxScore, selectedIndex>>

-----------------------------------------------------------------------------

PassExtenders == Filter \/ PassOver \/ FilterFails \/ NoNodeLeft \/ OneNodeLeft
PrioritizeNodes == ScoreOne \/ RunScorePlugins \/ ScorePluginsFail \/ AddExtendersScores
Select == PopFirst \/ PopNext \/ SelectHost

Next ==
    \/ PassExtenders \/ PrioritizeNodes \/ Select
    \/ \E e \in Extender : Prioritize(e) \/ PrioritizeFails(e)

Spec == Init /\ [][Next]_vars

\* The loop runs, and the HTTP client of an extender times out.
FairSpec ==
    /\ Spec
    /\ WF_vars(PassExtenders \/ PrioritizeNodes \/ Select)
    /\ \A e \in Extender : WF_vars(Prioritize(e) \/ PrioritizeFails(e))

-----------------------------------------------------------------------------
(* What is expected of it.                                                 *)

\* Every variable keeps its type; the candidate is one of the best nodes.
TypeOK ==
    /\ phase \in {"filter", "prioritize", "select", "unfit", "error", "done"}
    /\ hasScorePlugins \in BOOLEAN
    /\ configured \in Configurations
    /\ extenders \in Seq(Elements(configured))
    /\ interested \subseteq Elements(extenders)
    /\ called \in 0..Len(extenders)
    /\ feasibleNodes \subseteq Node
    /\ statuses \in [Node -> {"none", "unschedulable", "unresolvable"}]
    /\ nodesScores \in [Node -> Nat]
    /\ pc \in [Extender -> {"idle", "asking"}]
    /\ allNodeExtendersScores \in [Node -> Nat]
    /\ h \subseteq feasibleNodes
    /\ cntOfMaxScore \in 0..Cardinality(Node)
    /\ sortedNodeScoreList \in Seq(feasibleNodes)
    /\ sortedNodeScoreList # <<>> => selectedIndex < cntOfMaxScore
    /\ host \in feasibleNodes \cup {NoNode}

\* When nodes were compared by score, the host and the nodes reported with it
\* are the best ones, each of them once: none that is left out scores higher.  The
\* score is what the plugins and every extender that answered gave the node, in
\* whatever order they answered.
Total(n) ==
    nodesScores[n] - allNodeExtendersScores[n] +
        MapThenSumSet(LAMBDA e : answered[e][n], Elements(extenders))
BestAreReported ==
    phase = "done" /\ sortedNodeScoreList # <<>> =>
        LET reported == Elements(sortedNodeScoreList)
        IN /\ host = sortedNodeScoreList[1]
           /\ \A n \in feasibleNodes : Total(n) <= Total(host)
           /\ Cardinality(reported) = Len(sortedNodeScoreList)
           /\ Len(sortedNodeScoreList) = Min({Count, Cardinality(feasibleNodes)})
           /\ \A n \in reported, m \in feasibleNodes \ reported : Total(m) <= Total(n)

\* Each of the nodes with the highest score is selected by as many outcomes of
\* the draws as any other, and all of them had their draw.
Draws(cnt) == {d \in [2..cnt -> 0..(cnt - 1)] : \A c \in 2..cnt : d[c] < c}
Chosen(d, cnt) == Max({1} \cup {c \in 2..cnt : Replaces(d[c], c)})
DrawIsFair ==
    phase = "done" /\ sortedNodeScoreList # <<>> =>
        /\ cntOfMaxScore = Cardinality({n \in feasibleNodes : nodesScores[n] = nodesScores[host]})
        /\ \A j \in 1..cntOfMaxScore :
             cntOfMaxScore * Cardinality({d \in Draws(cntOfMaxScore) : Chosen(d, cntOfMaxScore) = j})
               = Cardinality(Draws(cntOfMaxScore))

\* A node that one extender calls unresolvable stays so, whatever another says of
\* it later: preemption will not be tried on it.
UnresolvableStands ==
    [][\A n \in Node : statuses[n] = "unresolvable" => statuses'[n] = "unresolvable"]_vars

\* An extender that is required decides before one that is ignorable is asked: its
\* error ends the search with no ignorable one in front of it, and by the time
\* nodes are scored every extender of the configuration had its turn.
Asked == {extenders[i] : i \in 1..called}
RequiredDecideFirst ==
    [][phase = "filter" /\ phase' # "filter" =>
         IF MoreExtenders THEN Asked \cap Ignorable = {}
         ELSE feasibleNodes # {} => Elements(configured) \subseteq Asked]_vars

\* The search for a host always comes to an end: every goroutine tells the
\* WaitGroup, also on an error, and the heap is never popped when it is empty.
Answered == <>(phase \in {"unfit", "error", "done"})
=============================================================================
