----------------------------- MODULE Dashboard -----------------------------
(***************************************************************************)
(* The dashboard of the batch demo (demo/batch/dashboard) for one of its   *)
(* scenarios.  A run is a goroutine that deploys the scenario's agents one *)
(* by one, waits for their pods and sends each of them its prompt, the     *)
(* last two with a goroutine per agent.  Runs and cleanups are started by  *)
(* HTTP requests; they share the map states under s.mu, and the cluster    *)
(* under nothing but the Kubernetes API.  Scenarios share neither agents   *)
(* nor ConfigMaps, so one of them is enough.                               *)
(***************************************************************************)
EXTENDS Naturals, FiniteSets

CONSTANTS
    Sizes,        \* the sizes a scenario may have
    InCluster,    \* no -kubeconfig: agents are reached without a Route
    MaxRetries,   \* maxRetries of SendMessage
    TaskStates,   \* the states of the tasks that agents return
    Cleaners,     \* goroutines that serve cleanup requests
    MaxRuns,      \* bound on the runs started, for each size
    MaxCleanups,  \* bound on the cleanups started, for each size
    MaxEdits      \* bound on the edits of the ConfigMap by others

ASSUME SizesAssumption == Sizes \subseteq Nat \ {0}
ASSUME RetriesAssumption == MaxRetries \in Nat \ {0}
ASSUME BoundsAssumption == 
    /\ MaxRuns \in [Sizes -> Nat]
    /\ MaxCleanups \in [Sizes -> Nat]
    /\ MaxEdits \in Nat

VARIABLES
    size,         \* len(scenario.Agents)
    entry,        \* s.states[name]: the run it points to, or NoRun
    started,      \* runs started so far
    phase,        \* rt.phase of each run
    status,       \* rt.agents[i].status of each run
    step,         \* the call CreateAgentDeployment or CreateRoute is at
    next,         \* the agent that a run deploys
    read,         \* the ConfigMap a run has read and not yet put back
    current,      \* the runs that read it in its current resourceVersion
    job,          \* the goroutine of a run for an agent
    tries,        \* failed attempts of SendMessage
    processed,    \* how often an agent has processed a run's prompt
    cleaner,      \* where a cleanup is: an agent and the call of DeleteAgent
    cleanups,     \* cleanups started so far
    config,       \* the scenario's ConfigMap in the cluster
    deployments, services, routes,  \* the agents that have one in the cluster
    pod,          \* each agent's pod
    edits,        \* history: edits of the ConfigMap by others
    refused,      \* history: agents a call for which failed in the last cleanup
    overlapped    \* history: a run and a cleanup have met since the last
                  \* cleanup that began without a run

Agent == 1 .. size
Run == UNION {1 .. MaxRuns[n] : n \in Sizes}
NoRun == 0

runVars == <<entry, started, phase, status, step, next, read, current>>
jobVars == <<job, tries, processed>>
cleanVars == <<cleaner, cleanups, refused>>
objects == <<deployments, services, routes>>
vars == <<size, runVars, jobVars, cleanVars, objects, config, pod, edits, overlapped>>

Phases == {"idle", "deploying", "waiting", "running", "done", "failed"}
Answers == TaskStates \cup {""}
Statuses == {"pending", "deploying", "failed", "ready", "working", "completed"}
                \cup TaskStates
Steps == {"none", "get", "put", "deployment", "service", "route"}
Jobs == {"none", "wait", "host", "send", "sent", "over"}
Configs == [edits : Nat, service : BOOLEAN]
Idle == [agent |-> 0, call |-> "none"]

TypeOK ==
    /\ size \in Sizes
    /\ entry \in Run \cup {NoRun}
    /\ started \in 0 .. MaxRuns[size]
    /\ phase \in [Run -> Phases]
    /\ status \in [Run -> [Agent -> Statuses]]
    /\ step \in [Run -> Steps]
    /\ next \in [Run -> Agent]
    /\ read \in [Run -> Configs]
    /\ current \in SUBSET Run
    /\ job \in [Run -> [Agent -> Jobs]]
    /\ tries \in [Run -> [Agent -> 0 .. MaxRetries]]
    /\ processed \in [Run -> [Agent -> 0 .. MaxRetries]]
    /\ cleaner \in [Cleaners -> [agent : 0 .. size + 1,
                                 call : {"none", "deployment", "service", "route"}]]
    /\ cleanups \in 0 .. MaxCleanups[size]
    /\ config \in Configs
    /\ deployments \in SUBSET Agent
    /\ services \in SUBSET Agent
    /\ routes \in SUBSET Agent
    /\ pod \in [Agent -> {"none", "ready", "blind"}]
    /\ edits \in 0 .. MaxEdits
    /\ refused \in SUBSET Agent
    /\ overlapped \in BOOLEAN

NoConfig == [edits |-> 0, service |-> FALSE]

Init ==
    /\ size \in Sizes
    /\ entry = NoRun /\ started = 0
    /\ phase = [r \in Run |-> "idle"]
    /\ status = [r \in Run |-> [a \in Agent |-> "pending"]]
    /\ step = [r \in Run |-> "none"]
    /\ next = [r \in Run |-> 1]
    /\ read = [r \in Run |-> NoConfig] /\ current = {}
    /\ job = [r \in Run |-> [a \in Agent |-> "none"]]
    /\ tries = [r \in Run |-> [a \in Agent |-> 0]]
    /\ processed = [r \in Run |-> [a \in Agent |-> 0]]
    /\ cleaner = [k \in Cleaners |-> Idle] /\ cleanups = 0
    /\ config = NoConfig
    /\ deployments = {} /\ services = {} /\ routes = {}
    /\ pod = [a \in Agent |-> "none"]
    /\ edits = 0 /\ refused = {} /\ overlapped = FALSE

\* Runs whose goroutine has not returned.
Alive == {r \in Run : phase[r] \in {"deploying", "waiting", "running"}}
Cleaning == {k \in Cleaners : cleaner[k] # Idle}

---------------------------------------------------------------------------
(* handleRun, and the deploying phase of runScenario *)

StartRun ==
    LET r == started + 1 IN
    /\ started < MaxRuns[size]
    /\ started' = r
    /\ entry' = r
    /\ phase' = [phase EXCEPT ![r] = "deploying"]
    /\ step' = [step EXCEPT ![r] = "get"]
    /\ overlapped' = (overlapped \/ Cleaning # {})
    /\ UNCHANGED <<status, next, read, current, jobVars, cleanVars, objects, config, pod,
                   edits>>

\* Mutant: only the phases that the comment at main.go:39 lists count as running.
HandleRun_ListedPhases ==
    /\ entry # NoRun => phase[entry] \notin {"deploying", "running"}
    /\ StartRun

\* A run is refused with 409 while the run in the map is not over.
HandleRun ==
    /\ entry # NoRun => phase[entry] \in {"idle", "done", "failed"}
    /\ StartRun

\* The loop goes on to the next agent, or to the waiting phase, which starts a
\* goroutine for every agent that has not failed (st are the statuses by then).
NextAgent(r, st) ==
    IF next[r] < size
    THEN /\ next' = [next EXCEPT ![r] = @ + 1]
         /\ step' = [step EXCEPT ![r] = "get"]
         /\ UNCHANGED <<phase, job>>
    ELSE /\ phase' = [phase EXCEPT ![r] = "waiting"]
         /\ step' = [step EXCEPT ![r] = "none"]
         /\ job' = [job EXCEPT ![r] =
                      [a \in Agent |-> IF st[a] = "failed" THEN "over" ELSE "wait"]]
         /\ UNCHANGED next

\* CreateAgentDeployment returns an error: logged, and the loop goes on.
DeployFails(r) ==
    LET st == [status[r] EXCEPT ![next[r]] = "failed"] IN
    /\ status' = [status EXCEPT ![r] = st]
    /\ NextAgent(r, st)

\* setDocumentService reads the ConfigMap ...
GetConfig(r) ==
    /\ step[r] = "get"
    /\ \/ /\ read' = [read EXCEPT ![r] = config]
          /\ current' = current \cup {r}
          /\ status' = [status EXCEPT ![r][next[r]] = "deploying"]
          /\ step' = [step EXCEPT ![r] = "put"]
          /\ UNCHANGED <<phase, next, job>>
       \/ DeployFails(r) /\ UNCHANGED <<read, current>>
    /\ UNCHANGED <<entry, started, tries, processed, cleanVars, objects, config,
                   pod, edits, overlapped>>

Put(r) ==
    /\ config' = [read[r] EXCEPT !.service = TRUE]
    /\ current' = {}

\* Mutant: the object is built anew, without the resourceVersion that was read.
PutConfig_Blind(r) ==
    /\ step[r] = "put"
    /\ Put(r)
    /\ read' = [read EXCEPT ![r] = NoConfig]
    /\ step' = [step EXCEPT ![r] = "deployment"]
    /\ UNCHANGED <<entry, started, phase, status, next, jobVars, cleanVars, objects,
                   pod, edits, overlapped>>

\* ... and puts back the object it read, whose resourceVersion makes the API
\* refuse it if the ConfigMap has changed since.  Any call may fail, before or
\* after it had its effect.
PutConfig(r) ==
    /\ step[r] = "put"
    /\ \/ /\ r \in current
          /\ Put(r)
          /\ \/ /\ step' = [step EXCEPT ![r] = "deployment"]
                /\ UNCHANGED <<phase, status, next, job>>
             \/ DeployFails(r)
       \/ /\ DeployFails(r)
          /\ current' = current \ {r}
          /\ UNCHANGED config
    /\ read' = [read EXCEPT ![r] = NoConfig]
    /\ UNCHANGED <<entry, started, tries, processed, cleanVars, objects, pod, edits,
                   overlapped>>

\* POST deployment; 409, it exists already, is as good as success.
CreateDeployment(r) ==
    /\ step[r] = "deployment"
    /\ deployments' \in {deployments, deployments \cup {next[r]}}
    /\ \/ /\ next[r] \in deployments'
          /\ step' = [step EXCEPT ![r] = "service"]
          /\ UNCHANGED <<phase, status, next, job>>
       \/ DeployFails(r)
    /\ UNCHANGED <<entry, started, read, current, tries, processed, cleanVars, services,
                   routes, config, pod, edits, overlapped>>

CreateService(r) ==
    /\ step[r] = "service"
    /\ services' \in {services, services \cup {next[r]}}
    /\ \/ /\ next[r] \in services'
          /\ IF InCluster THEN NextAgent(r, status[r])
                          ELSE /\ step' = [step EXCEPT ![r] = "route"]
                               /\ UNCHANGED <<phase, next, job>>
          /\ UNCHANGED status
       \/ DeployFails(r)
    /\ UNCHANGED <<entry, started, read, current, tries, processed, cleanVars, deployments,
                   routes, config, pod, edits, overlapped>>

\* A Route that cannot be created is only logged.
CreateRoute(r) ==
    /\ step[r] = "route"
    /\ routes' \in {routes, routes \cup {next[r]}}
    /\ NextAgent(r, status[r])
    /\ UNCHANGED <<entry, started, status, read, current, tries, processed, cleanVars,
                   deployments, services, config, pod, edits, overlapped>>

---------------------------------------------------------------------------
(* The waiting and running phases of runScenario; runAgent and SendMessage *)

\* A goroutine of run r for agent a sets the agent's status and moves on.
Report(r, a, s, j) ==
    /\ status' = [status EXCEPT ![r][a] = s]
    /\ job' = [job EXCEPT ![r][a] = j]
    /\ UNCHANGED <<entry, started, phase, step, next, read, current, cleanVars, objects,
                   config, pod, edits, overlapped>>

\* waitForAgent finds a ready pod with the agent's label, of this run or not.
PodFound(r, a) ==
    /\ job[r][a] = "wait"
    /\ pod[a] # "none"
    /\ Report(r, a, "ready", "over")
    /\ UNCHANGED <<tries, processed>>

\* Mutant: a pod that is not ready in time is not reported.
WaitTimeout_Silent(r, a) ==
    /\ job[r][a] = "wait"
    /\ Report(r, a, status[r][a], "over")
    /\ UNCHANGED <<tries, processed>>

\* Mutant: waitForAgent polls without a deadline.
WaitTimeout_Never(r, a) ==
    /\ job[r][a] = "wait"
    /\ Report(r, a, status[r][a], "wait")
    /\ UNCHANGED <<tries, processed>>

\* waitForAgent gives up after 90 s.
WaitTimeout(r, a) ==
    /\ job[r][a] = "wait"
    /\ Report(r, a, "failed", "over")
    /\ UNCHANGED <<tries, processed>>

\* readyWg.Wait returns: a goroutine for every agent that is ready.
AllWaited(r) ==
    /\ phase[r] = "waiting"
    /\ \A a \in Agent : job[r][a] = "over"
    /\ phase' = [phase EXCEPT ![r] = "running"]
    /\ job' = [job EXCEPT ![r] =
                 [a \in Agent |-> IF status[r][a] = "ready" THEN "host" ELSE "over"]]
    /\ UNCHANGED <<entry, started, status, step, next, read, current, tries, processed,
                   cleanVars, objects, config, pod, edits, overlapped>>

\* The agent's address: from outside the cluster, the host of its Route.
FindHost(r, a) ==
    /\ job[r][a] = "host"
    /\ \/ /\ InCluster \/ a \in routes
          /\ Report(r, a, "working", "send")
       \/ /\ ~InCluster
          /\ Report(r, a, "failed", "over")
    /\ UNCHANGED <<tries, processed>>

Reachable(a) == pod[a] # "none" /\ a \in services /\ (InCluster \/ a \in routes)

\* sendOnce: the agent has the message and works on it.
Deliver(r, a) ==
    /\ job[r][a] = "send"
    /\ Reachable(a)
    /\ processed' = [processed EXCEPT ![r][a] = @ + 1]
    /\ job' = [job EXCEPT ![r][a] = "sent"]
    /\ UNCHANGED <<runVars, tries, cleanVars, objects, config, pod, edits, overlapped>>

\* sendOnce returns a task, or a message, which has no state.
Answer(r, a) ==
    /\ job[r][a] = "sent"
    /\ \E s \in Answers : Report(r, a, IF s = "" THEN "completed" ELSE s, "over")
    /\ UNCHANGED <<tries, processed>>

\* sendOnce returns an error, whether or not the agent has had the message: no
\* connection, a 5xx or HTML answer, an answer it cannot parse, a JSON-RPC
\* error, or the timeout of five minutes.  Any of them is tried again.
SendFails(r, a) ==
    /\ job[r][a] \in {"send", "sent"}
    /\ tries' = [tries EXCEPT ![r][a] = @ + 1]
    /\ IF tries'[r][a] < MaxRetries THEN Report(r, a, "working", "send")
                                    ELSE Report(r, a, "failed", "over")
    /\ UNCHANGED processed

\* wg.Wait returns, and runScenario after it.
FinishRun(r) ==
    /\ phase[r] = "running"
    /\ \A a \in Agent : job[r][a] = "over"
    /\ phase' = [phase EXCEPT ![r] =
                   IF \E a \in Agent : status[r][a] = "failed" THEN "failed" ELSE "done"]
    /\ UNCHANGED <<entry, started, status, step, next, read, current, jobVars, cleanVars,
                   objects, config, pod, edits, overlapped>>

---------------------------------------------------------------------------
(* handleCleanup and DeleteAgent *)

StartCleanup(k) ==
    /\ cleanups < MaxCleanups[size]
    /\ cleaner[k] = Idle
    /\ cleanups' = cleanups + 1
    /\ cleaner' = [cleaner EXCEPT ![k] = [agent |-> 1, call |-> "deployment"]]
    /\ refused' = {}
    /\ overlapped' = (Alive # {})
    /\ UNCHANGED <<runVars, jobVars, objects, config, pod, edits>>

\* The loop goes on to the next agent, whatever DeleteAgent returned; after the
\* last one there is no agent to delete.
NextDelete(k) ==
    cleaner' = [cleaner EXCEPT ![k] = [agent |-> @.agent + 1, call |-> "deployment"]]

\* A call fails, before or after it had its effect, and ends DeleteAgent.
DeleteFails(k) ==
    /\ refused' = refused \cup {cleaner[k].agent}
    /\ NextDelete(k)

\* Mutant: a deployment that is not there is an error.
DeleteDeployment_NotFound(k) ==
    LET a == cleaner[k].agent IN
    /\ a \in Agent /\ cleaner[k].call = "deployment"
    /\ deployments' = deployments \ {a}
    /\ IF a \in deployments THEN cleaner' = [cleaner EXCEPT ![k].call = "service"]
                            ELSE NextDelete(k)
    /\ UNCHANGED <<runVars, jobVars, cleanups, refused, services, routes, config, pod,
                   edits, overlapped>>

\* 404, there is no such deployment, is as good as success.
DeleteDeployment(k) ==
    LET a == cleaner[k].agent IN
    /\ a \in Agent /\ cleaner[k].call = "deployment"
    /\ deployments' \in {deployments, deployments \ {a}}
    /\ \/ /\ a \notin deployments'
          /\ cleaner' = [cleaner EXCEPT ![k].call = "service"]
          /\ UNCHANGED refused
       \/ DeleteFails(k)
    /\ UNCHANGED <<runVars, jobVars, cleanups, services, routes, config, pod,
                   edits, overlapped>>

DeleteService(k) ==
    LET a == cleaner[k].agent IN
    /\ cleaner[k].call = "service"
    /\ services' \in {services, services \ {a}}
    /\ \/ /\ a \notin services'
          /\ cleaner' = [cleaner EXCEPT ![k].call = "route"]
          /\ UNCHANGED refused
       \/ DeleteFails(k)
    /\ UNCHANGED <<runVars, jobVars, cleanups, deployments, routes, config, pod,
                   edits, overlapped>>

\* "Best-effort Route cleanup": its failure is not even logged.
DeleteRoute(k) ==
    LET a == cleaner[k].agent IN
    /\ cleaner[k].call = "route"
    /\ \/ routes' = routes \ {a} /\ NextDelete(k) /\ UNCHANGED refused
       \/ DeleteFails(k) /\ UNCHANGED routes
    /\ UNCHANGED <<runVars, jobVars, cleanups, deployments, services, config, pod,
                   edits, overlapped>>

\* The map forgets the run it points to, over or not.
EndCleanup(k) ==
    /\ cleaner[k].agent > size
    /\ cleaner' = [cleaner EXCEPT ![k] = Idle]
    /\ entry' = NoRun
    /\ UNCHANGED <<started, phase, status, step, next, read, current, jobVars, cleanups, refused,
                   objects, config, pod, edits, overlapped>>

---------------------------------------------------------------------------
(* The cluster *)

\* The deployment controller starts a pod, which reads its ConfigMap as it is
\* then and becomes ready; blind if the document service is not in it.
PodUp(a) ==
    /\ a \in deployments
    /\ pod[a] = "none"
    /\ pod' = [pod EXCEPT ![a] = IF config.service THEN "ready" ELSE "blind"]
    /\ UNCHANGED <<runVars, jobVars, cleanVars, objects, config, edits, overlapped>>

\* The pod of a deleted deployment ends, some time after.  (The crash of any other
\* is to the dashboard a wait or a call that fails, which may happen anyway.)
PodDown(a) ==
    /\ pod[a] # "none" /\ a \notin deployments
    /\ pod' = [pod EXCEPT ![a] = "none"]
    /\ UNCHANGED <<runVars, jobVars, cleanVars, objects, config, edits, overlapped>>

\* Someone edits another part of the ConfigMap.
Edit ==
    /\ edits < MaxEdits
    /\ edits' = edits + 1
    /\ config' = [config EXCEPT !.edits = @ + 1]
    /\ current' = {}
    /\ UNCHANGED <<entry, started, phase, status, step, next, read, jobVars, cleanVars, objects, pod, overlapped>>

---------------------------------------------------------------------------
RunStep(r) ==
    /\ \/ GetConfig(r) \/ PutConfig(r) \/ CreateDeployment(r) \/ CreateService(r)
       \/ CreateRoute(r) \/ AllWaited(r) \/ FinishRun(r)
    /\ UNCHANGED size

JobStep(r, a) ==
    /\ a \in Agent
    /\ \/ PodFound(r, a) \/ WaitTimeout(r, a) \/ FindHost(r, a)
       \/ Deliver(r, a) \/ Answer(r, a) \/ SendFails(r, a)
    /\ UNCHANGED size

CleanupStep(k) ==
    /\ \/ StartCleanup(k) \/ DeleteDeployment(k) \/ DeleteService(k)
       \/ DeleteRoute(k) \/ EndCleanup(k)
    /\ UNCHANGED size

ClusterStep ==
    /\ \E a \in Agent : PodUp(a) \/ PodDown(a)
    /\ UNCHANGED size

Next ==
    \/ HandleRun /\ UNCHANGED size
    \/ \E r \in Run : RunStep(r)
    \/ \E r \in Run, a \in Agent : JobStep(r, a)
    \/ \E k \in Cleaners : CleanupStep(k)
    \/ ClusterStep
    \/ Edit /\ UNCHANGED size

Spec == Init /\ [][Next]_vars

\* Goroutines run; every HTTP call ends, by the clients' timeouts of 30 s and
\* 5 min, and waitForAgent by its deadline.  Nothing is assumed of the cluster.
Fairness == \A r \in Run : WF_vars(RunStep(r) \/ \E a \in Agent : JobStep(r, a))
FairSpec == Spec /\ Fairness

---------------------------------------------------------------------------
(* handleStatus *)

\* What the status page is told, read under one hold of s.mu.
HandleStatus ==
    IF entry = NoRun THEN [phase |-> "idle", agents |-> <<>>]
                     ELSE [phase |-> phase[entry], agents |-> status[entry]]

---------------------------------------------------------------------------
(* Properties *)

\* handleRun refuses a second run (main.go:153): two runs of a scenario work on
\* the same agents at once only if a cleanup has made the map forget the first.
OneRunAtATime == Cardinality(Alive) > 1 => overlapped

\* A cleanup during which no run was under way leaves nothing of the scenario in
\* the cluster, except for agents a call for which failed (main.go:429,
\* k8s.go:310): also what earlier cleanups and failed deployments left.
CleanupLeavesNothing ==
    entry = NoRun /\ Alive = {} /\ Cleaning = {} /\ ~overlapped =>
        deployments \cup services \cup routes \subseteq refused

\* A run shown as done has had an answer from each of its agents: every agent has
\* processed the prompt, once more at most than attempts failed (main.go:256,
\* a2a.go:35), whatever became of deployments, pods and messages.
DoneMeansAnswered ==
    HandleStatus.phase = "done" =>
        \A a \in Agent :
            /\ HandleStatus.agents[a] \in {"completed"} \cup Answers
            /\ processed[entry][a] \in 1 .. tries[entry][a] + 1

\* "It is idempotent and keeps the existing data" (k8s.go:513): what others write
\* to the ConfigMap is never overwritten by an agent's deployment, which puts the
\* document service into it before the pod that is to read it starts (k8s.go:203).
EditsSurvive == config.edits = edits /\ \A a \in Agent : pod[a] # "blind"

\* Every run comes to an end, also one that a cleanup has forgotten (main.go:176).
EveryRunEnds == \A r \in Run : phase[r] = "deploying" ~> phase[r] \in {"done", "failed"}

=============================================================================
