-------------------------- MODULE Dashboard_proofs --------------------------
(***************************************************************************)
(* Proofs about the dashboard, for scenarios of any size, any number of    *)
(* runs, cleanups and edits, and an API that fails before or after the     *)
(* effect of a call.                                                       *)
(*                                                                         *)
(* Runs and cleanups share no lock on the cluster.  What orders them is    *)
(* the map of runs (Apart), what a cleanup leaves is known from where it   *)
(* is (Cleared), and the ConfigMap is safe by its resourceVersion          *)
(* (Configured).                                                           *)
(***************************************************************************)
EXTENDS Dashboard, FiniteSetTheorems, TLAPS

Over == {"done", "failed"}
Answered == {"completed"} \cup TaskStates

\* The runs are started in order, and deploy in the deploying phase only.
Started ==
    /\ entry \in 0 .. started
    /\ \A r \in Run : phase[r] = "idle" <=> r > started
    /\ \A r \in Run : step[r] # "none" <=> phase[r] = "deploying"

\* The goroutines of run r, phase by phase; who is over in the last two has
\* failed or has had an answer of the agent.
Work(r, a) ==
    /\ phase[r] \in {"idle", "deploying"} => job[r][a] = "none"
    /\ phase[r] = "waiting" =>
          /\ job[r][a] \in {"wait", "over"}
          /\ job[r][a] = "over" => status[r][a] \in {"ready", "failed"}
    /\ phase[r] = "running" => job[r][a] \in {"host", "send", "sent", "over"}
    /\ phase[r] \in Over => job[r][a] = "over"
    /\ phase[r] \in Over \cup {"running"} /\ job[r][a] = "over" =>
          status[r][a] = "failed" \/ (status[r][a] \in Answered /\ processed[r][a] > 0)
    /\ phase[r] = "done" => status[r][a] # "failed"

\* An agent has had the prompt once for each failed attempt, and once for the one
\* under way or answered.
Attempts(r, a) ==
    /\ phase[r] \in {"idle", "deploying", "waiting"} \/ job[r][a] = "host" =>
          tries[r][a] = 0 /\ processed[r][a] = 0
    /\ job[r][a] \in {"send", "sent"} => tries[r][a] < MaxRetries
    /\ job[r][a] = "send" => processed[r][a] <= tries[r][a]
    /\ job[r][a] = "sent" => processed[r][a] > 0
    /\ processed[r][a] <= tries[r][a] + 1

Worked == \A r \in Run, a \in Agent : Work(r, a) /\ Attempts(r, a)

\* A cleanup is at one of the calls for an agent, or behind the last one.
Places ==
    \A k \in Cleaners :
        \/ cleaner[k] = Idle
        \/ cleaner[k].agent \in Agent /\ cleaner[k].call # "none"
        \/ cleaner[k].agent = size + 1 /\ cleaner[k].call = "deployment"

\* While no run has met a cleanup, the map knows the run that is under way.
Apart ==
    ~overlapped =>
        /\ Alive \subseteq {entry}
        /\ Cleaning # {} => Alive = {}

\* Nothing of agent a is left, but what the API refused to delete; cleanup k has
\* seen to that for the agents behind it.
Clean(a) == a \in refused \/ a \notin deployments \cup services \cup routes
Swept(k) ==
    \A a \in Agent :
        /\ a < cleaner[k].agent => Clean(a)
        /\ a = cleaner[k].agent /\ cleaner[k].call \in {"service", "route"} =>
              a \notin deployments
        /\ a = cleaner[k].agent /\ cleaner[k].call = "route" => a \notin services

Cleared ==
    ~overlapped /\ (entry = NoRun \/ Cleaning # {}) =>
        (\A a \in Agent : Clean(a)) \/ (\E k \in Cleaning : Swept(k))

\* Whoever may put the ConfigMap back has read it as it is; the document service is
\* in it before there is a deployment.
Configured ==
    /\ \A r \in current : step[r] = "put" /\ read[r] = config
    /\ \A r \in Run : step[r] \in {"deployment", "service", "route"} => config.service
    /\ deployments # {} => config.service
    /\ EditsSurvive

Inv == TypeOK /\ Started /\ Worked /\ Places /\ Apart /\ Cleared /\ Configured

---------------------------------------------------------------------------

\* The sets that the constants make.
LEMMA Sizing ==
    ASSUME size \in Sizes
    PROVE  /\ size \in Nat \ {0} /\ MaxRuns[size] \in Nat /\ MaxCleanups[size] \in Nat
           /\ 1 .. MaxRuns[size] \subseteq Run
           /\ Run \subseteq Nat \ {0}
           /\ Agent \subseteq Nat \ {0} /\ 1 \in Agent
  <1>1. \A n \in Sizes : MaxRuns[n] \in Nat /\ MaxCleanups[n] \in Nat
    BY BoundsAssumption
  <1>2. size \in Nat \ {0}
    BY SizesAssumption
  <1> QED
    BY <1>1, <1>2 DEF Run, Agent

\* Nothing has happened when the dashboard starts.
LEMMA InitInv == Init => Inv
  <1> SUFFICES ASSUME Init PROVE Inv
    OBVIOUS
  <1>0. size \in Sizes
    BY DEF Init
  <1> USE <1>0, Sizing, RetriesAssumption, BoundsAssumption
  <1>1. TypeOK
    <2>1. /\ phase \in [Run -> Phases]
          /\ status \in [Run -> [Agent -> Statuses]]
          /\ step \in [Run -> Steps]
          /\ next \in [Run -> Agent]
          /\ job \in [Run -> [Agent -> Jobs]]
      BY DEF Init, Phases, Statuses, Steps, Jobs
    <2>2. /\ tries \in [Run -> [Agent -> 0 .. MaxRetries]]
          /\ processed \in [Run -> [Agent -> 0 .. MaxRetries]]
          /\ pod \in [Agent -> {"none", "ready", "blind"}]
          /\ edits \in 0 .. MaxEdits
          /\ started \in 0 .. MaxRuns[size] /\ cleanups \in 0 .. MaxCleanups[size]
      BY DEF Init
    <2>3. /\ read \in [Run -> Configs] /\ config \in Configs
          /\ overlapped \in BOOLEAN
          /\ entry \in Run \cup {NoRun}
      BY DEF Init, Configs, NoConfig
    <2>4. cleaner \in [Cleaners -> [agent : 0 .. size + 1,
                                   call : {"none", "deployment", "service", "route"}]]
      BY DEF Init, Idle
    <2> QED
      BY <2>1, <2>2, <2>3, <2>4 DEF Init, TypeOK
  <1>2. Started
    BY DEF Init, Started, NoRun
  <1>3. Worked
    BY DEF Init, Worked, Work, Attempts, Over
  <1>4. Places
    BY DEF Init, Places
  <1>5. Apart
    BY DEF Init, Apart, Alive, Cleaning
  <1>6. Cleared
    BY DEF Init, Cleared, Clean
  <1>7. Configured
    BY DEF Init, Configured, NoConfig, EditsSurvive
  <1> QED
    BY <1>1, <1>2, <1>3, <1>4, <1>5, <1>6, <1>7 DEF Inv

---------------------------------------------------------------------------
(* The run *)

\* handleRun starts a run only if the one in the map is over.
LEMMA HandleRunStep ==
    ASSUME Inv, HandleRun, UNCHANGED size
    PROVE  Inv'
  <1> USE DEF Inv
  <1> DEFINE r == started + 1
  <1>0. size \in Sizes
    BY DEF TypeOK
  <1>a. r \in Run /\ r \in 1 .. MaxRuns[size]
    <2>1. started \in 0 .. MaxRuns[size]
      BY DEF TypeOK
    <2>2. started < MaxRuns[size]
      BY DEF HandleRun, StartRun
    <2> QED
      BY <1>0, <2>1, <2>2, Sizing
  <1>1. /\ started' = r /\ entry' = r
        /\ phase' = [phase EXCEPT ![r] = "deploying"]
        /\ step' = [step EXCEPT ![r] = "get"]
        /\ overlapped' = (overlapped \/ Cleaning # {})
        /\ UNCHANGED <<size, status, next, read, current, job, tries, processed, cleaner,
                       cleanups, refused, deployments, services, routes, config, pod, edits>>
    BY Zenon DEF HandleRun, StartRun, jobVars, cleanVars, objects
  <1>2. Agent' = Agent /\ Cleaning' = Cleaning
    BY <1>1 DEF Agent, Cleaning
  <1>3. phase[r] = "idle" /\ step[r] = "none" /\ r \in Nat \ {0}
    BY <1>0, <1>a, <1>1, Sizing DEF Started, TypeOK, Steps
  <1>4. TypeOK'
    <2>1. overlapped' \in BOOLEAN
      BY <1>1 DEF TypeOK
    <2> HIDE DEF r
    <2> QED
      BY <1>1, <1>a, <1>2, <2>1 DEF TypeOK, Phases, Steps
  <1>5. Started'
    BY <1>0, <1>1, <1>3, Sizing DEF Started, TypeOK
  <1>6. Worked'
    BY <1>1, <1>2, <1>3 DEF Worked, Work, Attempts, TypeOK, Over
  <1>7. Places'
    BY <1>1, <1>2 DEF Places
  <1>8. Apart'
    <2>1. CASE overlapped \/ Cleaning # {}
      BY <1>1, <2>1 DEF Apart
    <2>2. CASE ~(overlapped \/ Cleaning # {})
      <3>1. Alive = {}
        BY <2>2, <1>0, Sizing DEF Apart, Alive, HandleRun, NoRun
      <3>2. \A q \in Run : q # r => phase'[q] = phase[q]
        BY <1>1 DEF TypeOK
      <3>3. Alive' \subseteq {r}
        BY <3>1, <3>2 DEF Alive
      <3> QED
        BY <1>1, <1>2, <2>2, <3>3 DEF Apart
    <2> QED
      BY <2>1, <2>2
  <1>9. Cleared'
    BY <1>1, <1>2, <1>3 DEF Cleared, NoRun
  <1>10. Configured'
    BY <1>1, <1>2, <1>3 DEF Configured, EditsSurvive, TypeOK
  <1> QED
    BY <1>4, <1>5, <1>6, <1>7, <1>8, <1>9, <1>10

\* A step of the deploying phase of run r: the loop stays in it, or goes on to the
\* waiting phase with the statuses st.
Deploys(r, st) ==
    /\ step[r] # "none"
    /\ st \in [Agent -> Statuses]
    /\ status' = [status EXCEPT ![r] = st]
    /\ \/ /\ \E s \in Steps \ {"none"} : step' = [step EXCEPT ![r] = s]
          /\ \E n \in Agent : next' = [next EXCEPT ![r] = n]
          /\ UNCHANGED <<phase, job>>
       \/ /\ phase' = [phase EXCEPT ![r] = "waiting"]
          /\ step' = [step EXCEPT ![r] = "none"]
          /\ job' = [job EXCEPT ![r] =
                       [a \in Agent |-> IF st[a] = "failed" THEN "over" ELSE "wait"]]
          /\ UNCHANGED next
    /\ UNCHANGED <<size, entry, started, tries, processed, cleaner, cleanups, refused, pod,
                   edits, overlapped>>

DeployStep(r) ==
    \/ GetConfig(r) \/ PutConfig(r) \/ CreateDeployment(r) \/ CreateService(r)
    \/ CreateRoute(r)

\* The loop over the agents, whatever the statuses are.
LEMMA NextAgentEffect ==
    ASSUME TypeOK, NEW r \in Run, NEW st, NextAgent(r, st)
    PROVE  \/ /\ \E s \in Steps \ {"none"} : step' = [step EXCEPT ![r] = s]
              /\ \E n \in Agent : next' = [next EXCEPT ![r] = n]
              /\ UNCHANGED <<phase, job>>
           \/ /\ phase' = [phase EXCEPT ![r] = "waiting"]
              /\ step' = [step EXCEPT ![r] = "none"]
              /\ job' = [job EXCEPT ![r] =
                           [a \in Agent |-> IF st[a] = "failed" THEN "over" ELSE "wait"]]
              /\ UNCHANGED next
  <1>1. CASE next[r] < size
    <2>1. next[r] + 1 \in Agent
      <3>1. next[r] \in 1 .. size /\ size \in Nat
        BY Sizing DEF TypeOK, Agent
      <3> QED
        BY <1>1, <3>1 DEF Agent
    <2>2. step' = [step EXCEPT ![r] = "get"] /\ "get" \in Steps \ {"none"}
      BY <1>1 DEF NextAgent, Steps
    <2>3. next' = [next EXCEPT ![r] = next[r] + 1] /\ UNCHANGED <<phase, job>>
      BY <1>1 DEF NextAgent, TypeOK
    <2> QED
      BY <2>1, <2>2, <2>3
  <1>2. CASE ~(next[r] < size)
    BY <1>2 DEF NextAgent
  <1> QED
    BY <1>1, <1>2

\* An error of CreateAgentDeployment fails the agent and lets the loop go on.
LEMMA DeployFailsEffect ==
    ASSUME TypeOK, NEW r \in Run, DeployFails(r), step[r] # "none",
           UNCHANGED <<size, entry, started, tries, processed, cleaner, cleanups, refused,
                       pod, edits, overlapped>>
    PROVE  \E st : Deploys(r, st)
  <1> DEFINE st == [status[r] EXCEPT ![next[r]] = "failed"]
  <1>1. st \in [Agent -> Statuses]
    BY DEF TypeOK, Statuses
  <1>2. status' = [status EXCEPT ![r] = st] /\ NextAgent(r, st)
    BY DEF DeployFails
  <1> HIDE DEF st
  <1> QED
    BY <1>1, <1>2, NextAgentEffect DEF Deploys

\* A step that stays in the loop, and leaves or sets the agent's status.
LEMMA DeploysOn ==
    ASSUME TypeOK, NEW r \in Run, step[r] # "none",
           NEW s \in Steps \ {"none"}, step' = [step EXCEPT ![r] = s],
           status' \in {status, [status EXCEPT ![r][next[r]] = "deploying"]},
           UNCHANGED <<size, entry, started, phase, next, job, tries, processed, cleaner,
                       cleanups, refused, pod, edits, overlapped>>
    PROVE  \E st : Deploys(r, st)
  <1> DEFINE st == status'[r]
  <1>1. st \in [Agent -> Statuses] /\ status' = [status EXCEPT ![r] = st]
    <2>1. status \in [Run -> [Agent -> Statuses]] /\ next[r] \in Agent
      BY DEF TypeOK
    <2>2. "deploying" \in Statuses
      BY DEF Statuses
    <2>3. CASE status' = status
      BY <2>1, <2>3
    <2>4. CASE status' = [status EXCEPT ![r][next[r]] = "deploying"]
      BY <2>1, <2>2, <2>4
    <2> QED
      BY <2>3, <2>4
  <1>2. next' = [next EXCEPT ![r] = next[r]] /\ next[r] \in Agent
    BY DEF TypeOK
  <1> HIDE DEF st
  <1> QED
    BY <1>1, <1>2 DEF Deploys

\* The five calls of CreateAgentDeployment and CreateRoute.
LEMMA DeployEffect ==
    ASSUME TypeOK, NEW r \in Run, DeployStep(r), UNCHANGED size
    PROVE  \E st : Deploys(r, st)
  <1>0. UNCHANGED <<entry, started, tries, processed, cleaner, cleanups, refused, pod, edits,
                    overlapped>>
    BY DEF DeployStep, GetConfig, PutConfig, CreateDeployment, CreateService, CreateRoute,
           cleanVars
  <1>1. step[r] # "none"
    BY DEF DeployStep, GetConfig, PutConfig, CreateDeployment, CreateService, CreateRoute
  <1>2. CASE DeployFails(r)
    BY <1>0, <1>1, <1>2, DeployFailsEffect
  <1>3. CASE /\ NextAgent(r, status[r]) /\ UNCHANGED status
    <2>1. status' = [status EXCEPT ![r] = status[r]] /\ status[r] \in [Agent -> Statuses]
      BY <1>3 DEF TypeOK
    <2>2. NextAgent(r, status[r])
      BY <1>3
    <2> QED
      BY <1>0, <1>1, <2>1, <2>2, NextAgentEffect DEF Deploys
  <1>4. CASE /\ \E s \in Steps \ {"none"} : step' = [step EXCEPT ![r] = s]
             /\ status' \in {status, [status EXCEPT ![r][next[r]] = "deploying"]}
             /\ UNCHANGED <<phase, next, job>>
    BY <1>0, <1>1, <1>4, DeploysOn
  <1> QED
    BY <1>2, <1>3, <1>4
       DEF DeployStep, GetConfig, PutConfig, CreateDeployment, CreateService, CreateRoute,
           Steps

\* What the deploying phase does, but to the cluster.
LEMMA DeploysKeeps ==
    ASSUME Inv, NEW r \in Run, NEW st, Deploys(r, st)
    PROVE  /\ phase' \in [Run -> Phases] /\ status' \in [Run -> [Agent -> Statuses]]
           /\ step' \in [Run -> Steps] /\ next' \in [Run -> Agent]
           /\ job' \in [Run -> [Agent -> Jobs]]
           /\ Started' /\ Worked' /\ Places' /\ Apart' /\ Cleared'
  <1> USE DEF Inv
  <1>0. /\ UNCHANGED <<size, entry, started, tries, processed, cleaner, cleanups, refused,
                       pod, edits, overlapped>>
        /\ step[r] # "none" /\ st \in [Agent -> Statuses]
        /\ status' = [status EXCEPT ![r] = st]
    BY DEF Deploys
  <1>1. Agent' = Agent /\ Cleaning' = Cleaning
    BY <1>0 DEF Agent, Cleaning
  <1>2. phase[r] = "deploying" /\ \A a \in Agent : job[r][a] = "none"
    BY <1>0 DEF Started, Worked, Work
  <1> DEFINE Types == /\ phase' \in [Run -> Phases]
                      /\ status' \in [Run -> [Agent -> Statuses]]
                      /\ step' \in [Run -> Steps] /\ next' \in [Run -> Agent]
                      /\ job' \in [Run -> [Agent -> Jobs]]
  <1>3. ASSUME /\ \E s \in Steps \ {"none"} : step' = [step EXCEPT ![r] = s]
               /\ \E n \in Agent : next' = [next EXCEPT ![r] = n]
               /\ UNCHANGED <<phase, job>>
        PROVE  Types /\ Started' /\ Worked' /\ Alive' = Alive
    <2>1. Types
      BY <1>0, <1>3 DEF TypeOK
    <2>2. Started'
      BY <1>0, <1>2, <1>3 DEF Started, TypeOK
    <2>3. Worked'
      <3> SUFFICES ASSUME NEW q \in Run, NEW a \in Agent
                   PROVE  Work(q, a)' /\ Attempts(q, a)'
        BY <1>1 DEF Worked
      <3>1. Work(q, a) /\ Attempts(q, a) /\ (q # r => status'[q] = status[q])
        BY <1>0 DEF Worked, TypeOK
      <3> QED
        BY <1>0, <1>2, <1>3, <3>1 DEF Work, Attempts, Over
    <2>4. Alive' = Alive
      BY <1>3 DEF Alive
    <2> QED
      BY <2>1, <2>2, <2>3, <2>4
  <1>4. ASSUME /\ phase' = [phase EXCEPT ![r] = "waiting"]
               /\ step' = [step EXCEPT ![r] = "none"]
               /\ job' = [job EXCEPT ![r] =
                            [a \in Agent |-> IF st[a] = "failed" THEN "over" ELSE "wait"]]
               /\ UNCHANGED next
        PROVE  Types /\ Started' /\ Worked' /\ Alive' = Alive
    <2>1. Types
      BY <1>0, <1>4 DEF TypeOK, Phases, Steps, Jobs
    <2>2. Started'
      BY <1>0, <1>2, <1>4 DEF Started, TypeOK
    <2>3. Worked'
      <3> SUFFICES ASSUME NEW q \in Run, NEW a \in Agent
                   PROVE  Work(q, a)' /\ Attempts(q, a)'
        BY <1>1 DEF Worked
      <3>1. Work(q, a) /\ Attempts(q, a)
        BY DEF Worked
      <3>2. CASE q = r
        <4>1. /\ phase'[r] = "waiting" /\ status'[r][a] = st[a]
              /\ job'[r][a] = IF st[a] = "failed" THEN "over" ELSE "wait"
          BY <1>0, <1>4 DEF TypeOK
        <4> QED
          BY <1>0, <1>2, <3>1, <3>2, <4>1 DEF Work, Attempts, Over
      <3>3. CASE q # r
        <4>1. phase'[q] = phase[q] /\ status'[q] = status[q] /\ job'[q] = job[q]
          BY <1>0, <1>4, <3>3 DEF TypeOK
        <4> QED
          BY <1>0, <3>1, <4>1 DEF Work, Attempts
      <3> QED
        BY <3>2, <3>3
    <2>4. Alive' = Alive
      BY <1>2, <1>4 DEF Alive, TypeOK
    <2> QED
      BY <2>1, <2>2, <2>3, <2>4
  <1>5. Types /\ Started' /\ Worked' /\ Alive' = Alive
    <2> HIDE DEF Types
    <2> QED
      BY <1>3, <1>4 DEF Deploys
  <1>6. Places'
    BY <1>0, <1>1 DEF Places
  <1>7. Apart' /\ r \in Alive
    BY <1>0, <1>1, <1>2, <1>5 DEF Apart, Alive
  <1>8. Cleared'
    <2>1. ~overlapped => entry = r /\ Cleaning = {}
      BY <1>7 DEF Apart
    <2>2. r # NoRun
      <3>1. size \in Sizes
        BY DEF TypeOK
      <3> QED
        BY <3>1, Sizing DEF NoRun
    <2> QED
      BY <1>0, <1>1, <2>1, <2>2 DEF Cleared
  <1> QED
    BY <1>5, <1>6, <1>7, <1>8

\* When the loop goes on, the run has no call under way that needs the ConfigMap.
LEMMA LoopGoesOn ==
    ASSUME TypeOK, NEW r \in Run, NEW st, NextAgent(r, st)
    PROVE  /\ step'[r] \in {"get", "none"}
           /\ \A q \in Run : q # r => step'[q] = step[q]
  BY DEF NextAgent, TypeOK

\* The calls on the ConfigMap.
LEMMA ConfigStep ==
    ASSUME Inv, NEW r \in Run, GetConfig(r) \/ PutConfig(r), UNCHANGED size
    PROVE  /\ read' \in [Run -> Configs] /\ current' \in SUBSET Run /\ config' \in Configs
           /\ UNCHANGED objects
           /\ Configured'
  <1> USE DEF Inv
  <1>0. UNCHANGED <<edits, pod, objects, deployments, services, routes>> /\ Agent' = Agent
    BY DEF GetConfig, PutConfig, objects, Agent
  <1>1. /\ \A q \in current : step[q] = "put" /\ read[q] = config
        /\ \A q \in Run : step[q] \in {"deployment", "service", "route"} => config.service
        /\ deployments # {} => config.service
        /\ config.edits = edits /\ \A a \in Agent : pod[a] # "blind"
        /\ config \in Configs /\ read \in [Run -> Configs] /\ current \in SUBSET Run
        /\ step \in [Run -> Steps]
    BY DEF Configured, EditsSurvive, TypeOK
  <1>2. NoConfig \in Configs
    BY DEF NoConfig, Configs
  <1>3. DeployFails(r) =>
          /\ step'[r] \in {"get", "none"}
          /\ \A q \in Run : q # r => step'[q] = step[q]
    BY LoopGoesOn DEF DeployFails
  <1>4. ASSUME GetConfig(r)
        PROVE  /\ read' \in [Run -> Configs] /\ current' \in SUBSET Run /\ config' = config
               /\ \A q \in current' : step'[q] = "put" /\ read'[q] = config
               /\ step'[r] \in {"put", "get", "none"}
               /\ \A q \in Run : q # r => step'[q] = step[q]
    <2>1. step[r] = "get" /\ config' = config /\ r \notin current
      BY <1>1, <1>4 DEF GetConfig
    <2>2. CASE /\ read' = [read EXCEPT ![r] = config]
               /\ current' = current \cup {r}
               /\ step' = [step EXCEPT ![r] = "put"]
      BY <1>1, <2>1, <2>2
    <2>3. CASE DeployFails(r) /\ UNCHANGED <<read, current>>
      BY <1>1, <1>3, <2>1, <2>3
    <2> QED
      BY <1>4, <2>2, <2>3 DEF GetConfig
  <1>5. ASSUME PutConfig(r)
        PROVE  /\ read' \in [Run -> Configs] /\ current' \in SUBSET Run
               /\ config' \in Configs /\ config'.edits = edits
               /\ config.service => config'.service
               /\ \A q \in current' : step'[q] = "put" /\ read'[q] = config'
               /\ step'[r] \in {"deployment", "get", "none"}
               /\ step'[r] = "deployment" => config'.service
               /\ \A q \in Run : q # r => step'[q] = step[q]
    <2>1. step[r] = "put" /\ read' = [read EXCEPT ![r] = NoConfig]
      BY <1>5 DEF PutConfig
    <2>2. CASE /\ r \in current /\ Put(r)
               /\ step' = [step EXCEPT ![r] = "deployment"] \/ DeployFails(r)
      <3>1. /\ config' = [config EXCEPT !.service = TRUE] /\ current' = {}
        BY <1>1, <2>2 DEF Put
      <3>2. config' \in Configs /\ config'.edits = edits /\ config'.service
        BY <1>1, <3>1 DEF Configs
      <3> QED
        BY <1>1, <1>2, <1>3, <2>1, <2>2, <3>1, <3>2
    <2>3. CASE DeployFails(r) /\ current' = current \ {r} /\ UNCHANGED config
      BY <1>1, <1>2, <1>3, <2>1, <2>3
    <2> QED
      BY <1>5, <2>2, <2>3 DEF PutConfig
  <1>6. CASE GetConfig(r)
    BY <1>0, <1>1, <1>4, <1>6 DEF Configured, EditsSurvive
  <1>7. CASE PutConfig(r)
    BY <1>0, <1>1, <1>5, <1>7 DEF Configured, EditsSurvive
  <1> QED
    BY <1>6, <1>7

\* The calls that create an agent's objects, after the one on the ConfigMap.
LEMMA CreateStep ==
    ASSUME Inv, NEW r \in Run, CreateDeployment(r) \/ CreateService(r) \/ CreateRoute(r),
           UNCHANGED size
    PROVE  /\ UNCHANGED <<read, current, config>>
           /\ deployments' \in SUBSET Agent /\ services' \in SUBSET Agent
           /\ routes' \in SUBSET Agent
           /\ Configured'
  <1> USE DEF Inv
  <1>0. UNCHANGED <<edits, pod, read, current, config>> /\ Agent' = Agent
    BY DEF CreateDeployment, CreateService, CreateRoute, Agent
  <1>1. /\ \A q \in current : step[q] = "put" /\ read[q] = config
        /\ \A q \in Run : step[q] \in {"deployment", "service", "route"} => config.service
        /\ deployments # {} => config.service
        /\ EditsSurvive /\ current \in SUBSET Run /\ step \in [Run -> Steps]
        /\ next[r] \in Agent
    BY DEF Configured, TypeOK
  <1>2. /\ step[r] \in {"deployment", "service", "route"}
        /\ deployments' \in {deployments, deployments \cup {next[r]}}
        /\ services' \in {services, services \cup {next[r]}}
        /\ routes' \in {routes, routes \cup {next[r]}}
    BY DEF CreateDeployment, CreateService, CreateRoute
  <1>3. \A q \in Run : q # r => step'[q] = step[q]
    <2>1. CASE \E st : NextAgent(r, st)
      BY <2>1, LoopGoesOn
    <2>2. CASE \E x \in Steps : step' = [step EXCEPT ![r] = x]
      BY <1>1, <2>2
    <2> QED
      BY <2>1, <2>2 DEF CreateDeployment, CreateService, CreateRoute, DeployFails, Steps
  <1>4. config.service /\ r \notin current
    BY <1>1, <1>2
  <1>5. Configured'
    BY <1>0, <1>1, <1>3, <1>4 DEF Configured, EditsSurvive
  <1> QED
    BY <1>0, <1>1, <1>2, <1>5 DEF TypeOK

\* A run deploys.
LEMMA DeployKeeps ==
    ASSUME Inv, NEW r \in Run, DeployStep(r), UNCHANGED size
    PROVE  Inv'
  <1> USE DEF Inv
  <1>1. PICK st : Deploys(r, st)
    BY DeployEffect
  <1>2. /\ phase' \in [Run -> Phases] /\ status' \in [Run -> [Agent -> Statuses]]
        /\ step' \in [Run -> Steps] /\ next' \in [Run -> Agent]
        /\ job' \in [Run -> [Agent -> Jobs]]
        /\ Started' /\ Worked' /\ Places' /\ Apart' /\ Cleared'
    BY <1>1, DeploysKeeps
  <1>3. /\ read' \in [Run -> Configs] /\ current' \in SUBSET Run /\ config' \in Configs
        /\ deployments' \in SUBSET Agent /\ services' \in SUBSET Agent
        /\ routes' \in SUBSET Agent
        /\ Configured'
    BY ConfigStep, CreateStep DEF DeployStep, TypeOK, objects
  <1>4. Agent' = Agent
    BY DEF Agent
  <1>5. TypeOK'
    BY <1>1, <1>2, <1>3, <1>4 DEF Deploys, TypeOK
  <1> QED
    BY <1>2, <1>3, <1>5

\* A goroutine of run r for agent a moves on: its status, its position and the
\* counts of its attempts change, and nothing else.
Moves(r, a) ==
    /\ \E s \in Statuses : status' = [status EXCEPT ![r][a] = s]
    /\ \E j \in Jobs : job' = [job EXCEPT ![r][a] = j]
    /\ \E t \in 0 .. MaxRetries : tries' = [tries EXCEPT ![r][a] = t]
    /\ \E n \in 0 .. MaxRetries : processed' = [processed EXCEPT ![r][a] = n]
    /\ UNCHANGED <<size, entry, started, phase, step, next, read, current, cleaner, cleanups,
                   refused, deployments, services, routes, config, pod, edits, overlapped>>

LEMMA MovesKeep ==
    ASSUME Inv, NEW r \in Run, NEW a \in Agent, Moves(r, a), Work(r, a)', Attempts(r, a)'
    PROVE  Inv'
  <1> USE DEF Inv
  <1>0. UNCHANGED <<size, entry, started, phase, step, next, read, current, cleaner, cleanups,
                    refused, deployments, services, routes, config, pod, edits, overlapped>>
    BY DEF Moves
  <1>1. Agent' = Agent /\ Alive' = Alive /\ Cleaning' = Cleaning
    BY <1>0 DEF Agent, Alive, Cleaning
  <1>2. /\ status \in [Run -> [Agent -> Statuses]] /\ job \in [Run -> [Agent -> Jobs]]
        /\ tries \in [Run -> [Agent -> 0 .. MaxRetries]]
        /\ processed \in [Run -> [Agent -> 0 .. MaxRetries]]
    BY DEF TypeOK
  <1>3. /\ status' \in [Run -> [Agent -> Statuses]]
        /\ \A q \in Run, b \in Agent : q # r \/ b # a => status'[q][b] = status[q][b]
    BY <1>2 DEF Moves
  <1>4. /\ job' \in [Run -> [Agent -> Jobs]]
        /\ \A q \in Run, b \in Agent : q # r \/ b # a => job'[q][b] = job[q][b]
    BY <1>2 DEF Moves
  <1>5. /\ tries' \in [Run -> [Agent -> 0 .. MaxRetries]]
        /\ \A q \in Run, b \in Agent : q # r \/ b # a => tries'[q][b] = tries[q][b]
    BY <1>2 DEF Moves
  <1>6. /\ processed' \in [Run -> [Agent -> 0 .. MaxRetries]]
        /\ \A q \in Run, b \in Agent : q # r \/ b # a => processed'[q][b] = processed[q][b]
    BY <1>2 DEF Moves
  <1>7. TypeOK'
    BY <1>0, <1>1, <1>3, <1>4, <1>5, <1>6 DEF TypeOK
  <1>8. Worked'
    <2> SUFFICES ASSUME NEW q \in Run, NEW b \in Agent
                 PROVE  Work(q, b)' /\ Attempts(q, b)'
      BY <1>1 DEF Worked
    <2>1. CASE q = r /\ b = a
      BY <2>1
    <2>2. CASE q # r \/ b # a
      <3>1. Work(q, b) /\ Attempts(q, b)
        BY DEF Worked
      <3> QED
        BY <1>0, <1>3, <1>4, <1>5, <1>6, <2>2, <3>1 DEF Work, Attempts
    <2> QED
      BY <2>1, <2>2
  <1>9. Started' /\ Places'
    BY <1>0, <1>1 DEF Started, Places
  <1>10. Apart'
    BY <1>0, <1>1 DEF Apart
  <1>11. Cleared'
    BY <1>0, <1>1 DEF Cleared, Clean, Swept
  <1>12. Configured'
    BY <1>0, <1>1 DEF Configured, EditsSurvive
  <1> QED
    BY <1>7, <1>8, <1>9, <1>10, <1>11, <1>12

\* With this step, t attempts of run r to send agent a its prompt have failed.
Tried(r, a, t) == t \in 0 .. MaxRetries /\ tries' = [tries EXCEPT ![r][a] = t]

\* What Report sets.
LEMMA ReportMoves ==
    ASSUME TypeOK, NEW r \in Run, NEW a \in Agent, NEW s \in Statuses, NEW j \in Jobs,
           NEW t, Tried(r, a, t), Report(r, a, s, j), UNCHANGED <<size, processed>>
    PROVE  /\ Moves(r, a)
           /\ status'[r][a] = s /\ job'[r][a] = j /\ tries'[r][a] = t
           /\ UNCHANGED phase /\ processed'[r][a] = processed[r][a]
  <1>1. /\ status \in [Run -> [Agent -> Statuses]] /\ job \in [Run -> [Agent -> Jobs]]
        /\ tries \in [Run -> [Agent -> 0 .. MaxRetries]]
        /\ processed \in [Run -> [Agent -> 0 .. MaxRetries]]
    BY DEF TypeOK
  <1>2. /\ status' = [status EXCEPT ![r][a] = s] /\ job' = [job EXCEPT ![r][a] = j]
        /\ UNCHANGED <<entry, started, phase, step, next, read, current, cleaner, cleanups,
                       refused, deployments, services, routes, config, pod, edits, overlapped>>
    BY DEF Report, cleanVars, objects
  <1>3. /\ processed[r][a] \in 0 .. MaxRetries
        /\ processed' = [processed EXCEPT ![r][a] = processed[r][a]]
    BY <1>1
  <1>4. Moves(r, a)
    BY <1>2, <1>3 DEF Moves, Tried
  <1> QED
    BY <1>1, <1>2, <1>4 DEF Tried

\* The goroutines that wait for the pods.
LEMMA WaitStep ==
    ASSUME Inv, NEW r \in Run, NEW a \in Agent, PodFound(r, a) \/ WaitTimeout(r, a),
           UNCHANGED size
    PROVE  Inv'
  <1> USE DEF Inv
  <1>1. /\ job[r][a] = "wait" /\ UNCHANGED <<tries, processed>>
        /\ \E s \in {"ready", "failed"} : Report(r, a, s, "over")
    BY DEF PodFound, WaitTimeout
  <1>2. PICK s \in {"ready", "failed"} : Report(r, a, s, "over")
    BY <1>1
  <1>3. /\ s \in Statuses /\ "over" \in Jobs /\ Tried(r, a, tries[r][a])
    BY <1>1 DEF Statuses, Jobs, TypeOK, Tried
  <1>4. /\ Moves(r, a) /\ status'[r][a] = s /\ job'[r][a] = "over" /\ UNCHANGED phase
        /\ processed'[r][a] = processed[r][a] /\ tries'[r][a] = tries[r][a]
    BY <1>1, <1>2, <1>3, ReportMoves
  <1>5. Work(r, a) /\ Attempts(r, a) /\ phase[r] \in Phases
    BY DEF Worked, TypeOK
  <1>6. phase[r] = "waiting"
    BY <1>1, <1>5 DEF Work, Phases, Over
  <1>7. Work(r, a)' /\ Attempts(r, a)'
    BY <1>1, <1>4, <1>5, <1>6 DEF Work, Attempts, Over
  <1> QED
    BY <1>4, <1>7, MovesKeep

\* The goroutines that send the prompts.
LEMMA SendStep ==
    ASSUME Inv, NEW r \in Run, NEW a \in Agent, UNCHANGED size,
           FindHost(r, a) \/ Answer(r, a) \/ SendFails(r, a)
    PROVE  Inv'
  <1> USE DEF Inv
  <1>1. Work(r, a) /\ Attempts(r, a) /\ phase[r] \in Phases
    BY DEF Worked, TypeOK
  <1>2. job[r][a] \in {"host", "send", "sent"}
    BY DEF FindHost, Answer, SendFails
  <1>3. phase[r] = "running"
    BY <1>1, <1>2 DEF Work, Phases, Over
  <1>4. /\ tries[r][a] \in Nat /\ processed[r][a] \in Nat
        /\ "over" \in Jobs /\ "send" \in Jobs
    BY DEF TypeOK, Jobs
  <1>5. CASE FindHost(r, a)
    <2>1. /\ job[r][a] = "host" /\ UNCHANGED <<tries, processed>>
          /\ \E s \in {"working", "failed"} :
                Report(r, a, s, IF s = "working" THEN "send" ELSE "over")
      BY <1>5 DEF FindHost
    <2>2. PICK s \in {"working", "failed"} :
             Report(r, a, s, IF s = "working" THEN "send" ELSE "over")
      BY <2>1
    <2>3. s \in Statuses /\ Tried(r, a, tries[r][a])
      BY <2>1 DEF Statuses, TypeOK, Tried
    <2>4. /\ Moves(r, a) /\ status'[r][a] = s /\ UNCHANGED phase
          /\ job'[r][a] = IF s = "working" THEN "send" ELSE "over"
          /\ processed'[r][a] = processed[r][a] /\ tries'[r][a] = tries[r][a]
      BY <1>4, <2>1, <2>2, <2>3, ReportMoves
    <2>5. Work(r, a)' /\ Attempts(r, a)'
      BY <1>1, <1>3, <1>4, <2>1, <2>4, RetriesAssumption DEF Work, Attempts, Over
    <2> QED
      BY <2>4, <2>5, MovesKeep
  <1>6. CASE Answer(r, a)
    <2>1. job[r][a] = "sent" /\ UNCHANGED <<tries, processed>>
      BY <1>6 DEF Answer
    <2>2. PICK s \in Answered : Report(r, a, s, "over")
      BY <1>6 DEF Answer, Answers, Answered
    <2>3. s \in Statuses /\ Tried(r, a, tries[r][a])
      BY <2>1 DEF Statuses, Answered, TypeOK, Tried
    <2>4. /\ Moves(r, a) /\ status'[r][a] = s /\ UNCHANGED phase /\ job'[r][a] = "over"
          /\ processed'[r][a] = processed[r][a] /\ tries'[r][a] = tries[r][a]
      BY <1>4, <2>1, <2>2, <2>3, ReportMoves
    <2>5. Work(r, a)' /\ Attempts(r, a)'
      BY <1>1, <1>3, <1>4, <2>1, <2>2, <2>4 DEF Work, Attempts, Over
    <2> QED
      BY <2>4, <2>5, MovesKeep
  <1>7. CASE SendFails(r, a)
    <2>1. /\ job[r][a] \in {"send", "sent"} /\ UNCHANGED processed
          /\ tries[r][a] < MaxRetries
      BY <1>1, <1>7 DEF SendFails, Attempts
    <2>2. Tried(r, a, tries[r][a] + 1) /\ tries'[r][a] = tries[r][a] + 1
      <3>1. MaxRetries \in Nat
        BY RetriesAssumption
      <3> QED
        BY <1>4, <1>7, <2>1, <3>1 DEF TypeOK, Tried, SendFails
    <2>3. "working" \in Statuses /\ "failed" \in Statuses
      BY DEF Statuses
    <2>4. CASE tries'[r][a] < MaxRetries
      <3>1. Report(r, a, "working", "send")
        BY <1>7, <2>4 DEF SendFails
      <3>2. /\ Moves(r, a) /\ status'[r][a] = "working" /\ UNCHANGED phase
            /\ job'[r][a] = "send" /\ processed'[r][a] = processed[r][a]
        BY <1>4, <2>1, <2>2, <2>3, <3>1, ReportMoves
      <3>3. Work(r, a)' /\ Attempts(r, a)'
        BY <1>1, <1>3, <1>4, <2>1, <2>2, <2>4, <3>2 DEF Work, Attempts, Over
      <3> QED
        BY <3>2, <3>3, MovesKeep
    <2>5. CASE ~(tries'[r][a] < MaxRetries)
      <3>1. Report(r, a, "failed", "over")
        BY <1>7, <2>5 DEF SendFails
      <3>2. /\ Moves(r, a) /\ status'[r][a] = "failed" /\ UNCHANGED phase
            /\ job'[r][a] = "over" /\ processed'[r][a] = processed[r][a]
        BY <1>4, <2>1, <2>2, <2>3, <3>1, ReportMoves
      <3>3. Work(r, a)' /\ Attempts(r, a)'
        BY <1>1, <1>3, <1>4, <2>1, <2>2, <3>2 DEF Work, Attempts, Over
      <3> QED
        BY <3>2, <3>3, MovesKeep
    <2> QED
      BY <2>4, <2>5
  <1> QED
    BY <1>5, <1>6, <1>7

\* The agent gets the prompt.
LEMMA DeliverStep ==
    ASSUME Inv, NEW r \in Run, NEW a \in Agent, Deliver(r, a), UNCHANGED size
    PROVE  Inv'
  <1> USE DEF Inv
  <1>1. Work(r, a) /\ Attempts(r, a) /\ phase[r] \in Phases
    BY DEF Worked, TypeOK
  <1>2. /\ status \in [Run -> [Agent -> Statuses]] /\ job \in [Run -> [Agent -> Jobs]]
        /\ tries \in [Run -> [Agent -> 0 .. MaxRetries]]
        /\ processed \in [Run -> [Agent -> 0 .. MaxRetries]]
    BY DEF TypeOK
  <1>3. /\ job[r][a] = "send" /\ job' = [job EXCEPT ![r][a] = "sent"]
        /\ processed' = [processed EXCEPT ![r][a] = @ + 1]
        /\ UNCHANGED <<size, entry, started, phase, status, step, next, read, current, tries,
                       cleaner, cleanups, refused, deployments, services, routes, config, pod,
                       edits, overlapped>>
    BY DEF Deliver, runVars, cleanVars, objects
  <1>4. tries[r][a] \in Nat /\ processed[r][a] \in Nat /\ MaxRetries \in Nat
    BY <1>2, RetriesAssumption
  <1>5. processed[r][a] + 1 \in 0 .. MaxRetries
    BY <1>1, <1>3, <1>4 DEF Attempts
  <1>6. Moves(r, a)
    <2>1. status' = [status EXCEPT ![r][a] = status[r][a]] /\ status[r][a] \in Statuses
      BY <1>2, <1>3
    <2>2. tries' = [tries EXCEPT ![r][a] = tries[r][a]] /\ tries[r][a] \in 0 .. MaxRetries
      BY <1>2, <1>3
    <2>3. "sent" \in Jobs /\ processed' = [processed EXCEPT ![r][a] = processed[r][a] + 1]
      BY <1>2, <1>3 DEF Jobs
    <2> QED
      BY <1>3, <1>5, <2>1, <2>2, <2>3 DEF Moves
  <1>7. job'[r][a] = "sent" /\ processed'[r][a] = processed[r][a] + 1
    BY <1>2, <1>3
  <1>8. phase[r] = "running"
    BY <1>1, <1>3 DEF Work, Phases, Over
  <1>9. Work(r, a)' /\ Attempts(r, a)'
    BY <1>1, <1>3, <1>4, <1>7, <1>8 DEF Work, Attempts, Over
  <1> QED
    BY <1>6, <1>9, MovesKeep

\* The run goes on to its next phase, or ends, when all its goroutines are over.
LEMMA PhaseStep ==
    ASSUME Inv, NEW r \in Run, AllWaited(r) \/ FinishRun(r), UNCHANGED size
    PROVE  Inv'
  <1> USE DEF Inv
  <1>0. /\ UNCHANGED <<size, entry, started, status, step, next, read, current, tries,
                       processed, cleaner, cleanups, refused, deployments, services, routes,
                       config, pod, edits, overlapped>>
        /\ phase[r] \in {"waiting", "running"}
        /\ \A a \in Agent : job[r][a] = "over"
    BY DEF AllWaited, FinishRun, jobVars, cleanVars, objects
  <1>1. Agent' = Agent /\ Cleaning' = Cleaning
    BY <1>0 DEF Agent, Cleaning
  <1>2. /\ phase \in [Run -> Phases] /\ job \in [Run -> [Agent -> Jobs]]
        /\ status[r] \in [Agent -> Statuses]
    BY DEF TypeOK
  <1>3. \E p \in {"running", "done", "failed"} : phase' = [phase EXCEPT ![r] = p]
    BY DEF AllWaited, FinishRun
  <1>4. \E f \in [Agent -> Jobs] : job' = [job EXCEPT ![r] = f]
    <2>1. CASE AllWaited(r)
      <3> DEFINE f == [a \in Agent |-> IF status[r][a] = "ready" THEN "host" ELSE "over"]
      <3>1. f \in [Agent -> Jobs]
        BY DEF Jobs
      <3> QED
        BY <2>1, <3>1 DEF AllWaited
    <2>2. CASE FinishRun(r)
      <3>1. job' = [job EXCEPT ![r] = job[r]] /\ job[r] \in [Agent -> Jobs]
        BY <1>2, <2>2 DEF FinishRun, jobVars
      <3> QED
        BY <3>1
    <2> QED
      BY <2>1, <2>2
  <1>5. /\ phase' \in [Run -> Phases] /\ job' \in [Run -> [Agent -> Jobs]]
        /\ phase'[r] \in {"running", "done", "failed"}
        /\ \A q \in Run : q # r => phase'[q] = phase[q] /\ job'[q] = job[q]
    BY <1>2, <1>3, <1>4 DEF Phases
  <1>6. TypeOK'
    BY <1>0, <1>1, <1>5 DEF TypeOK
  <1>7. Started' /\ Places'
    BY <1>0, <1>1, <1>5 DEF Started, Places
  <1>8. Worked'
    <2> SUFFICES ASSUME NEW q \in Run, NEW a \in Agent
                 PROVE  Work(q, a)' /\ Attempts(q, a)'
      BY <1>1 DEF Worked
    <2>1. Work(q, a) /\ Attempts(q, a)
      BY DEF Worked
    <2>2. CASE q # r
      BY <1>0, <1>5, <2>1, <2>2 DEF Work, Attempts
    <2>3. CASE q = r /\ AllWaited(r)
      <3>1. /\ phase[r] = "waiting" /\ phase'[r] = "running"
            /\ job'[r][a] = IF status[r][a] = "ready" THEN "host" ELSE "over"
        BY <1>2, <2>3 DEF AllWaited
      <3> QED
        BY <1>0, <2>1, <2>3, <3>1 DEF Work, Attempts, Over
    <2>4. CASE q = r /\ FinishRun(r)
      <3>1. /\ phase[r] = "running" /\ job' = job
            /\ phase'[r] \in Over /\ (phase'[r] = "done" => status[r][a] # "failed")
        BY <1>2, <2>4 DEF FinishRun, jobVars, Over
      <3> QED
        BY <1>0, <2>1, <2>4, <3>1 DEF Work, Attempts, Over
    <2> QED
      BY <2>2, <2>3, <2>4
  <1>9. r \in Alive /\ Alive' \subseteq Alive
    BY <1>0, <1>5 DEF Alive
  <1>10. Apart'
    BY <1>0, <1>1, <1>9 DEF Apart
  <1>11. Cleared'
    <2>1. size \in Sizes
      BY DEF TypeOK
    <2>2. r # NoRun
      BY <2>1, Sizing DEF NoRun
    <2>3. ~overlapped => entry = r /\ Cleaning = {}
      BY <1>9 DEF Apart
    <2> QED
      BY <1>0, <1>1, <2>2, <2>3 DEF Cleared
  <1>12. Configured'
    BY <1>0, <1>1 DEF Configured, EditsSurvive
  <1> QED
    BY <1>6, <1>7, <1>8, <1>10, <1>11, <1>12

---------------------------------------------------------------------------
(* The cleanup *)

\* What a cleanup leaves alone, up to what it may do to the map of runs.
LEMMA CleanupFrame ==
    ASSUME Inv,
           UNCHANGED <<size, started, phase, status, step, next, read, current, job, tries,
                       processed, config, pod, edits>>,
           deployments' \subseteq deployments, services' \subseteq services,
           routes' \subseteq routes, refused' \in SUBSET Agent,
           entry' \in {entry, NoRun}, cleanups' \in 0 .. MaxCleanups[size],
           overlapped' \in BOOLEAN,
           cleaner' \in [Cleaners -> [agent : 0 .. size + 1,
                                     call : {"none", "deployment", "service", "route"}]]
    PROVE  TypeOK' /\ Started' /\ Worked' /\ Configured' /\ Alive' = Alive /\ Agent' = Agent
  <1> USE DEF Inv
  <1>1. Agent' = Agent
    BY DEF Agent
  <1>2. TypeOK'
    BY <1>1 DEF TypeOK
  <1>3. Started'
    BY DEF Started, TypeOK, NoRun
  <1>4. Worked'
    BY <1>1 DEF Worked, Work, Attempts
  <1>5. Configured'
    BY <1>1 DEF Configured, EditsSurvive
  <1> QED
    BY <1>1, <1>2, <1>3, <1>4, <1>5 DEF Alive

\* A cleanup begins, with nothing refused yet.
LEMMA StartCleanupStep ==
    ASSUME Inv, NEW k \in Cleaners, StartCleanup(k), UNCHANGED size
    PROVE  Inv'
  <1> USE DEF Inv
  <1>1. /\ UNCHANGED <<size, entry, started, phase, status, step, next, read, current, job,
                       tries, processed, deployments, services, routes, config, pod, edits>>
        /\ cleaner' = [cleaner EXCEPT ![k] = [agent |-> 1, call |-> "deployment"]]
        /\ refused' = {} /\ cleanups' = cleanups + 1 /\ cleanups < MaxCleanups[size]
    BY DEF StartCleanup, runVars, jobVars, objects
  <1>2. overlapped' = (Alive # {})
    BY DEF StartCleanup
  <1>3. size \in Nat \ {0} /\ MaxCleanups[size] \in Nat /\ cleanups \in 0 .. MaxCleanups[size]
    BY Sizing DEF TypeOK
  <1>4. cleaner \in [Cleaners -> [agent : 0 .. size + 1,
                                 call : {"none", "deployment", "service", "route"}]]
    BY DEF TypeOK
  <1>5. /\ cleaner' \in [Cleaners -> [agent : 0 .. size + 1,
                                      call : {"none", "deployment", "service", "route"}]]
        /\ cleaner'[k] = [agent |-> 1, call |-> "deployment"]
        /\ \A j \in Cleaners : j # k => cleaner'[j] = cleaner[j]
    BY <1>1, <1>3, <1>4
  <1>6. cleanups' \in 0 .. MaxCleanups[size] /\ overlapped' \in BOOLEAN
    BY <1>1, <1>2, <1>3
  <1>7. TypeOK' /\ Started' /\ Worked' /\ Configured' /\ Alive' = Alive /\ Agent' = Agent
    BY <1>1, <1>5, <1>6, CleanupFrame
  <1>8. Places'
    <2>1. 1 \in Agent
      BY <1>3 DEF Agent
    <2> QED
      BY <1>1, <1>5, <1>7, <2>1 DEF Places
  <1>9. Apart'
    BY <1>2, <1>7 DEF Apart
  <1>10. Cleared'
    <2>1. k \in Cleaning'
      BY <1>5 DEF Cleaning, Idle
    <2>2. Swept(k)'
      BY <1>5, <1>7, <1>3 DEF Swept, Agent
    <2> QED
      BY <2>1, <2>2 DEF Cleared
  <1> QED
    BY <1>7, <1>8, <1>9, <1>10

DeleteStep(k) == DeleteDeployment(k) \/ DeleteService(k) \/ DeleteRoute(k)

\* A call of DeleteAgent: it takes something away or not, may be refused, and the
\* cleanup goes on to its next call or to the next agent.
LEMMA DeleteEffect ==
    ASSUME Inv, NEW k \in Cleaners, DeleteStep(k), UNCHANGED size
    PROVE  /\ UNCHANGED <<size, entry, started, phase, status, step, next, read, current, job,
                          tries, processed, cleanups, config, pod, edits, overlapped>>
           /\ deployments' \subseteq deployments /\ services' \subseteq services
           /\ routes' \subseteq routes
           /\ cleaner[k].agent \in Agent /\ cleaner[k].call # "none"
           /\ refused' \in {refused, refused \cup {cleaner[k].agent}}
           /\ \A j \in Cleaners : j # k => cleaner'[j] = cleaner[j]
           /\ cleaner'[k].call # "none"
           /\ \/ cleaner'[k].agent = cleaner[k].agent
              \/ cleaner'[k].agent = cleaner[k].agent + 1 /\ cleaner'[k].call = "deployment"
           /\ cleaner' \in [Cleaners -> [agent : 0 .. size + 1,
                                         call : {"none", "deployment", "service", "route"}]]
  <1> USE DEF Inv
  <1>1. /\ UNCHANGED <<size, entry, started, phase, status, step, next, read, current, job,
                       tries, processed, cleanups, config, pod, edits, overlapped>>
        /\ deployments' \subseteq deployments /\ services' \subseteq services
        /\ routes' \subseteq routes
        /\ refused' \in {refused, refused \cup {cleaner[k].agent}}
    BY DEF DeleteStep, DeleteDeployment, DeleteService, DeleteRoute, DeleteFails, runVars,
           jobVars
  <1>2. cleaner[k].agent \in Agent /\ cleaner[k].call # "none"
    BY DEF DeleteStep, DeleteDeployment, DeleteService, DeleteRoute, Places, Idle
  <1>3. \/ \E c \in {"service", "route"} : cleaner' = [cleaner EXCEPT ![k].call = c]
        \/ cleaner' = [cleaner EXCEPT ![k] = [agent |-> cleaner[k].agent + 1,
                                             call |-> "deployment"]]
    <2>1. cleaner \in [Cleaners -> [agent : 0 .. size + 1,
                                   call : {"none", "deployment", "service", "route"}]]
      BY DEF TypeOK
    <2>2. NextDelete(k) =>
            cleaner' = [cleaner EXCEPT ![k] = [agent |-> cleaner[k].agent + 1,
                                               call |-> "deployment"]]
      BY <2>1 DEF NextDelete
    <2> QED
      BY <2>2 DEF DeleteStep, DeleteDeployment, DeleteService, DeleteRoute, DeleteFails
  <1>4. /\ size \in Nat /\ cleaner[k].agent \in 1 .. size
        /\ cleaner \in [Cleaners -> [agent : 0 .. size + 1,
                                     call : {"none", "deployment", "service", "route"}]]
    BY <1>2, Sizing DEF TypeOK, Agent
  <1>5. CASE \E c \in {"service", "route"} : cleaner' = [cleaner EXCEPT ![k].call = c]
    BY <1>1, <1>2, <1>4, <1>5
  <1>6. CASE cleaner' = [cleaner EXCEPT ![k] = [agent |-> cleaner[k].agent + 1,
                                                call |-> "deployment"]]
    <2>1. [agent |-> cleaner[k].agent + 1, call |-> "deployment"]
             \in [agent : 0 .. size + 1, call : {"none", "deployment", "service", "route"}]
      BY <1>4
    <2> QED
      BY <1>1, <1>2, <1>4, <1>6, <2>1
  <1> QED
    BY <1>3, <1>5, <1>6

\* The cleanup that has swept the agents behind it has swept one more, or is one
\* call further.
LEMMA SweptOn ==
    ASSUME Inv, NEW k \in Cleaners, DeleteStep(k), UNCHANGED size, Swept(k)
    PROVE  Swept(k)'
  <1>0. PICK a \in Agent : a = cleaner[k].agent
    BY DeleteEffect
  <1> USE <1>0
  <1> DEFINE Gone(b) == /\ b \notin deployments => b \notin deployments'
                        /\ b \notin services => b \notin services'
                        /\ Clean(b) => Clean(b)'
  <1>1. Agent' = Agent /\ \A b \in Agent : Gone(b)
    BY DeleteEffect DEF Agent, Clean
  <1>2. a \in Agent /\ Agent \subseteq Nat
    BY DeleteEffect, Sizing DEF Inv, TypeOK
  <1>3. CASE cleaner'[k].agent = a
    <2>1. cleaner \in [Cleaners -> [agent : 0 .. size + 1,
                                   call : {"none", "deployment", "service", "route"}]]
      BY DEF Inv, TypeOK
    <2>2. /\ cleaner'[k].call \in {"service", "route"} => a \notin deployments'
          /\ cleaner'[k].call = "route" => a \notin services'
      <3>1. ~NextDelete(k)
        BY <1>2, <1>3, <2>1 DEF NextDelete
      <3>2. CASE DeleteDeployment(k)
        BY <2>1, <3>1, <3>2 DEF DeleteDeployment, DeleteFails
      <3>3. CASE DeleteService(k)
        BY <2>1, <3>1, <3>3, <1>2 DEF DeleteService, DeleteFails, Swept
      <3>4. CASE DeleteRoute(k)
        BY <3>1, <3>4 DEF DeleteRoute, DeleteFails
      <3> QED
        BY <3>2, <3>3, <3>4 DEF DeleteStep
    <2> QED
      BY <1>1, <1>3, <2>2 DEF Swept
  <1>4. CASE cleaner'[k].agent = a + 1 /\ cleaner'[k].call = "deployment"
    <2>1. Clean(a)'
      <3>1. CASE DeleteFails(k)
        BY <3>1 DEF DeleteFails, Clean
      <3>2. CASE DeleteRoute(k) /\ routes' = routes \ {a}
        BY <1>2, <3>2 DEF DeleteRoute, Swept, Clean
      <3>3. CASE \E c : cleaner' = [cleaner EXCEPT ![k].call = c]
        BY <1>2, <1>4, <3>3 DEF Inv, TypeOK
      <3> QED
        BY <3>1, <3>2, <3>3 DEF DeleteStep, DeleteDeployment, DeleteService, DeleteRoute
    <2>2. \A b \in Agent : b < a + 1 => b < a \/ b = a
      BY <1>2
    <2> QED
      BY <1>1, <1>2, <1>4, <2>1, <2>2 DEF Swept
  <1> QED
    BY <1>3, <1>4, DeleteEffect

\* The cleanup deletes.
LEMMA DeleteKeeps ==
    ASSUME Inv, NEW k \in Cleaners, DeleteStep(k), UNCHANGED size
    PROVE  Inv'
  <1> USE DEF Inv
  <1>1. /\ UNCHANGED <<size, entry, started, phase, status, step, next, read, current, job,
                       tries, processed, cleanups, config, pod, edits, overlapped>>
        /\ deployments' \subseteq deployments /\ services' \subseteq services
        /\ routes' \subseteq routes
        /\ cleaner[k].agent \in Agent /\ cleaner[k].call # "none"
        /\ refused' \in {refused, refused \cup {cleaner[k].agent}}
        /\ \A j \in Cleaners : j # k => cleaner'[j] = cleaner[j]
        /\ cleaner'[k].call # "none"
        /\ \/ cleaner'[k].agent = cleaner[k].agent
           \/ cleaner'[k].agent = cleaner[k].agent + 1 /\ cleaner'[k].call = "deployment"
        /\ cleaner' \in [Cleaners -> [agent : 0 .. size + 1,
                                      call : {"none", "deployment", "service", "route"}]]
    BY DeleteEffect
  <1>2. /\ refused' \in SUBSET Agent /\ cleanups' \in 0 .. MaxCleanups[size]
        /\ overlapped' \in BOOLEAN
    BY <1>1 DEF TypeOK
  <1>3. TypeOK' /\ Started' /\ Worked' /\ Configured' /\ Alive' = Alive /\ Agent' = Agent
    BY <1>1, <1>2, CleanupFrame
  <1>4. Cleaning' = Cleaning /\ k \in Cleaning
    BY <1>1 DEF Cleaning, Idle
  <1>5. Places'
    <2>1. cleaner[k].agent + 1 \in Agent \/ cleaner[k].agent + 1 = size + 1
      BY <1>1, Sizing, SMTT(20) DEF Agent, TypeOK
    <2> QED
      BY <1>1, <1>3, <2>1 DEF Places
  <1>6. Apart'
    BY <1>1, <1>3, <1>4 DEF Apart
  <1>7. Cleared'
    <2>1. \A a \in Agent : Clean(a) => Clean(a)'
      BY <1>1 DEF Clean
    <2>2. \A j \in Cleaners : j # k /\ Swept(j) => Swept(j)'
      BY <1>1, <1>3, <2>1 DEF Swept
    <2>3. Swept(k) => Swept(k)'
      BY SweptOn
    <2> QED
      BY <1>1, <1>3, <1>4, <2>1, <2>2, <2>3 DEF Cleared, Cleaning
  <1> QED
    BY <1>3, <1>5, <1>6, <1>7

\* The cleanup ends, and with it what the map knows of a run.
LEMMA EndCleanupStep ==
    ASSUME Inv, NEW k \in Cleaners, EndCleanup(k), UNCHANGED size
    PROVE  Inv'
  <1> USE DEF Inv
  <1>1. /\ UNCHANGED <<size, started, phase, status, step, next, read, current, job, tries,
                       processed, cleanups, refused, deployments, services, routes, config,
                       pod, edits, overlapped>>
        /\ entry' = NoRun /\ cleaner[k].agent > size
        /\ cleaner' = [cleaner EXCEPT ![k] = Idle]
    BY DEF EndCleanup, jobVars, objects
  <1>2. /\ size \in Nat
        /\ cleaner \in [Cleaners -> [agent : 0 .. size + 1,
                                     call : {"none", "deployment", "service", "route"}]]
    BY Sizing DEF TypeOK
  <1>3. /\ cleaner' \in [Cleaners -> [agent : 0 .. size + 1,
                                      call : {"none", "deployment", "service", "route"}]]
        /\ cleaner'[k] = Idle /\ \A j \in Cleaners : j # k => cleaner'[j] = cleaner[j]
    BY <1>1, <1>2 DEF Idle
  <1>4. /\ refused' \in SUBSET Agent /\ cleanups' \in 0 .. MaxCleanups[size]
        /\ overlapped' \in BOOLEAN
    BY <1>1 DEF TypeOK
  <1>5. TypeOK' /\ Started' /\ Worked' /\ Configured' /\ Alive' = Alive /\ Agent' = Agent
    BY <1>1, <1>3, <1>4, CleanupFrame
  <1>6. Cleaning' = Cleaning \ {k} /\ k \in Cleaning
    BY <1>1, <1>2, <1>3 DEF Cleaning, Idle
  <1>7. Places'
    BY <1>1, <1>3, <1>5 DEF Places
  <1>8. Apart'
    BY <1>1, <1>5, <1>6 DEF Apart
  <1>9. Cleared'
    <2>1. \A a \in Agent : a < cleaner[k].agent
      BY <1>1, <1>2 DEF Agent
    <2>2. Swept(k) => \A a \in Agent : Clean(a)
      BY <2>1 DEF Swept
    <2>3. \A a \in Agent : Clean(a)' <=> Clean(a)
      BY <1>1 DEF Clean
    <2>4. \A j \in Cleaners : j # k /\ Swept(j) => Swept(j)'
      BY <1>3, <1>5, <1>1, <2>3 DEF Swept
    <2> QED
      BY <1>1, <1>5, <1>6, <2>2, <2>3, <2>4 DEF Cleared, Cleaning
  <1> QED
    BY <1>5, <1>7, <1>8, <1>9

---------------------------------------------------------------------------
(* The cluster, and Inv *)

\* Pods start and end.
LEMMA PodStep ==
    ASSUME Inv, NEW a \in Agent, PodUp(a) \/ PodDown(a), UNCHANGED size
    PROVE  Inv'
  <1> USE DEF Inv
  <1>1. UNCHANGED <<size, entry, started, phase, status, step, next, read, current, job, tries,
                    processed, cleaner, cleanups, refused, deployments, services, routes,
                    config, edits, overlapped>>
    BY DEF PodUp, PodDown, runVars, jobVars, cleanVars, objects
  <1>2. Agent' = Agent /\ Alive' = Alive /\ Cleaning' = Cleaning
    BY <1>1 DEF Agent, Alive, Cleaning
  <1>3. /\ pod' \in [Agent -> {"none", "ready", "blind"}]
        /\ \A b \in Agent : pod'[b] # "blind"
    <2>1. \E s \in {"none", "ready"} : pod' = [pod EXCEPT ![a] = s]
      BY DEF PodUp, PodDown, Configured
    <2> QED
      BY <2>1 DEF TypeOK, Configured, EditsSurvive
  <1>4. TypeOK'
    BY <1>1, <1>2, <1>3 DEF TypeOK
  <1>5. Started' /\ Places'
    BY <1>1, <1>2 DEF Started, Places
  <1>6. Worked'
    BY <1>1, <1>2 DEF Worked, Work, Attempts
  <1>7. Apart'
    BY <1>1, <1>2 DEF Apart
  <1>8. Cleared'
    BY <1>1, <1>2 DEF Cleared, Clean, Swept
  <1>9. Configured'
    BY <1>1, <1>2, <1>3 DEF Configured, EditsSurvive
  <1> QED
    BY <1>4, <1>5, <1>6, <1>7, <1>8, <1>9

\* Someone edits the ConfigMap: nobody may put it back as it was.
LEMMA EditStep ==
    ASSUME Inv, Edit, UNCHANGED size
    PROVE  Inv'
  <1> USE DEF Inv
  <1>1. /\ UNCHANGED <<size, entry, started, phase, status, step, next, read, job, tries,
                       processed, cleaner, cleanups, refused, deployments, services, routes,
                       pod, overlapped>>
        /\ current' = {} /\ edits < MaxEdits /\ edits' = edits + 1
        /\ config' = [config EXCEPT !.edits = @ + 1]
    BY DEF Edit, jobVars, cleanVars, objects
  <1>2. Agent' = Agent /\ Alive' = Alive /\ Cleaning' = Cleaning
    BY <1>1 DEF Agent, Alive, Cleaning
  <1>3. config \in Configs /\ edits \in 0 .. MaxEdits /\ MaxEdits \in Nat
    BY BoundsAssumption DEF TypeOK
  <1>4. /\ config' \in Configs /\ edits' \in 0 .. MaxEdits
        /\ config'.edits = config.edits + 1 /\ config'.service = config.service
    BY <1>1, <1>3 DEF Configs
  <1>5. TypeOK'
    BY <1>1, <1>2, <1>4 DEF TypeOK
  <1>6. Started' /\ Places'
    BY <1>1, <1>2 DEF Started, Places
  <1>7. Worked'
    BY <1>1, <1>2 DEF Worked, Work, Attempts
  <1>8. Apart'
    BY <1>1, <1>2 DEF Apart
  <1>9. Cleared'
    BY <1>1, <1>2 DEF Cleared, Clean, Swept
  <1>10. Configured'
    BY <1>1, <1>2, <1>4 DEF Configured, EditsSurvive
  <1> QED
    BY <1>5, <1>6, <1>7, <1>8, <1>9, <1>10

\* Inv is inductive.
LEMMA InvStep ==
    ASSUME Inv, [Next]_vars
    PROVE  Inv'
  <1>1. CASE UNCHANGED vars
    <2>1. UNCHANGED <<size, entry, started, phase, status, step, next, read, current, job,
                      tries, processed, cleaner, cleanups, refused, deployments, services,
                      routes, config, pod, edits, overlapped>>
      BY <1>1 DEF vars, runVars, jobVars, cleanVars, objects
    <2>2. Agent' = Agent /\ Alive' = Alive /\ Cleaning' = Cleaning
      BY <2>1 DEF Agent, Alive, Cleaning
    <2>3. TypeOK' /\ Started' /\ Places' /\ Apart'
      BY <2>1, <2>2 DEF Inv, TypeOK, Started, Places, Apart
    <2>4. Worked' /\ Configured'
      BY <2>1, <2>2 DEF Inv, Worked, Work, Attempts, Configured, EditsSurvive
    <2>5. Cleared'
      BY <2>1, <2>2 DEF Inv, Cleared, Clean, Swept
    <2> QED
      BY <2>3, <2>4, <2>5 DEF Inv
  <1>2. CASE \E r \in Run : RunStep(r)
    BY <1>2, DeployKeeps, PhaseStep DEF RunStep, DeployStep
  <1>3. CASE \E r \in Run, a \in Agent : JobStep(r, a)
    BY <1>3, WaitStep, SendStep, DeliverStep DEF JobStep
  <1>4. CASE \E k \in Cleaners : CleanupStep(k)
    BY <1>4, StartCleanupStep, DeleteKeeps, EndCleanupStep DEF CleanupStep, DeleteStep
  <1>5. CASE ClusterStep
    BY <1>5, PodStep DEF ClusterStep
  <1> QED
    BY <1>1, <1>2, <1>3, <1>4, <1>5, HandleRunStep, EditStep DEF Next

\* Runs, cleanups and others' edits leave the map, the cluster and the ConfigMap as
\* Inv says, in every order and whatever fails (main.go:136-460, k8s.go:196-360).
THEOREM Invariance == Spec => []Inv
  BY InitInv, InvStep, PTL DEF Spec

---------------------------------------------------------------------------
(* The properties *)

\* Two runs of a scenario are under way at once only if a cleanup has met a run
\* (main.go:153).
THEOREM RunsAreRefused == Spec => []OneRunAtATime
  <1>1. Inv => OneRunAtATime
    <2> SUFFICES ASSUME Inv, ~overlapped PROVE ~(Cardinality(Alive) > 1)
      BY DEF OneRunAtATime
    <2>1. Alive \subseteq {entry}
      BY DEF Inv, Apart
    <2>2. IsFiniteSet({entry}) /\ Cardinality({entry}) = 1
      BY FS_Singleton
    <2>3. Cardinality(Alive) <= 1 /\ Cardinality(Alive) \in Nat
      BY <2>1, <2>2, FS_Subset, FS_CardinalityType
    <2> QED
      BY <2>3
  <1> QED
    BY <1>1, Invariance, PTL

\* A cleanup that meets no run leaves nothing but what the API refused to delete
\* (main.go:429, k8s.go:310), however many run at once.
THEOREM CleanupIsComplete == Spec => []CleanupLeavesNothing
  <1>1. Inv => CleanupLeavesNothing
    <2> SUFFICES ASSUME Inv, entry = NoRun, Cleaning = {}, ~overlapped
                 PROVE  deployments \cup services \cup routes \subseteq refused
      BY DEF CleanupLeavesNothing
    <2>1. \A a \in Agent : Clean(a)
      BY DEF Inv, Cleared
    <2>2. deployments \cup services \cup routes \subseteq Agent
      BY DEF Inv, TypeOK
    <2> QED
      BY <2>1, <2>2 DEF Clean
  <1> QED
    BY <1>1, Invariance, PTL

\* A run shown as done was answered by every agent, each of which has processed the
\* prompt at most once more than attempts failed (main.go:256, a2a.go:35).
THEOREM DoneIsAnswered == Spec => []DoneMeansAnswered
  <1>1. Inv => DoneMeansAnswered
    <2> SUFFICES ASSUME Inv, HandleStatus.phase = "done", NEW a \in Agent
                 PROVE  /\ HandleStatus.agents[a] \in {"completed"} \cup Answers
                        /\ processed[entry][a] \in 1 .. tries[entry][a] + 1
      BY DEF DoneMeansAnswered
    <2>1. entry \in Run /\ phase[entry] = "done" /\ HandleStatus.agents = status[entry]
      BY DEF HandleStatus, Inv, TypeOK
    <2>2. Work(entry, a) /\ Attempts(entry, a)
      BY <2>1 DEF Inv, Worked
    <2>3. processed[entry][a] \in Nat /\ tries[entry][a] \in Nat
      BY <2>1 DEF Inv, TypeOK
    <2>4. job[entry][a] = "over" /\ status[entry][a] \in Answered /\ processed[entry][a] > 0
      BY <2>1, <2>2 DEF Work, Over
    <2>5. processed[entry][a] \in 1 .. tries[entry][a] + 1
      BY <2>2, <2>3, <2>4 DEF Attempts
    <2> QED
      BY <2>1, <2>4, <2>5 DEF Answered, Answers
  <1> QED
    BY <1>1, Invariance, PTL

\* No deployment overwrites what others wrote to the ConfigMap, and no pod starts
\* before the document service is in it (k8s.go:203, 513).
THEOREM OthersEditsSurvive == Spec => []EditsSurvive
  <1>1. Inv => EditsSurvive
    BY DEF Inv, Configured
  <1> QED
    BY <1>1, Invariance, PTL
=============================================================================
