----------------------------- MODULE DispatchJobs -----------------------------
(***************************************************************************)
(* Remote dispatch of playground services: DistributedPlaygroundService    *)
(* (distributed.py), RemoteWorkerDispatchService (worker_dispatch.py), the *)
(* dispatch_jobs table (database.py) and the WorkerAgent that runs on      *)
(* another machine (worker_agent.py).                                      *)
(*                                                                         *)
(* Every repository method is one transaction, but the services read a job *)
(* in one and write it in another: update_dispatch_job_status writes back  *)
(* the stop flag it has read, append_dispatch_job_log the status too. Each *)
(* read and each write is a step here; a handler remembers what it `saw`.  *)
(***************************************************************************)
EXTENDS Integers, FiniteSets

CONSTANTS
  Service,   (* the services of the project's topology            *)
  Worker,    (* the registered workers, one agent on each         *)
  Able,      (* per service: the workers whose capabilities and   *)
             (* labels admit its runtime                          *)
  Manager,   (* HTTP threads that start and stop services         *)
  MaxJobs,   (* bound: dispatch jobs ever created                 *)
  Contained, (* the jobs that run in a container: the agent's     *)
             (* child is then only the client of its daemon       *)
  NoWorker, NoService

ASSUME DispatchAssumption ==
  /\ MaxJobs \in Nat
  /\ Able \in [Service -> SUBSET Worker]
  /\ NoWorker \notin Worker
  /\ NoService \notin Service
  /\ Contained \subseteq 1..MaxJobs

Job == 1..MaxJobs     (* numbered in the order of created_at *)
NoJob == 0

VARIABLES
  row,      (* per job: its row of dispatch_jobs and whether its ZIP exists *)
  manager,  (* per manager: the handler it executes                         *)
  agent,    (* per worker: the agent's place in run_forever and _run_job    *)
  proc      (* per job: what an agent has started; "left" is a container    *)
            (* that runs on without the client the agent has killed         *)

vars == <<row, manager, agent, proc>>

Active == {"queued", "claimed", "running", "cancel_requested"}
Final == {"completed", "failed", "stopped"}
Status == {"absent"} \cup Active \cup Final

NoRow == [status |-> "absent", stop |-> FALSE, worker |-> NoWorker,
          service |-> NoService, packed |-> FALSE]
NothingSeen == [status |-> "absent", stop |-> FALSE]
IdleManager == [at |-> "idle", job |-> NoJob, service |-> NoService,
                worker |-> NoWorker, saw |-> FALSE]
Agent(place) == [at |-> place, job |-> NoJob, stopping |-> FALSE, saw |-> NothingSeen]

Init ==
  /\ row = [j \in Job |-> NoRow]
  /\ manager = [m \in Manager |-> IdleManager]
  /\ agent = [w \in Worker |-> Agent("idle")]
  /\ proc = [j \in Job |-> "none"]

Created == {j \in Job : row[j].status # "absent"}
JobsOf(s) == {j \in Created : row[j].service = s}

(* list_latest_dispatch_jobs_for_project: only the newest job of a service *)
(* is ever looked at again.                                                *)
IsLatest(j, s) == j \in JobsOf(s) /\ \A k \in JobsOf(s) : k <= j

-----------------------------------------------------------------------------
(* The server: starting and stopping a service.                            *)

ManagerAt(m, place) == manager[m].at = place
ManagerGoto(m, place) == manager' = [manager EXCEPT ![m].at = place]
OnlyManager == UNCHANGED <<row, agent, proc>>
WriteRow(j, status, stop) ==
  row' = [row EXCEPT ![j].status = status, ![j].stop = stop]

(* eligible_workers and assign_workers: of the workers that can run the    *)
(* service, those with a heartbeat within 20 s, and of these the one with  *)
(* the least load, so it may be any of them. Without one the start raises  *)
(* before it has changed anything.                                         *)
Assignable(s) == Able[s]

(* _start_remote for one service, up to what it reads: the latest job,     *)
(* which it stops first if it is active, and the worker to use.            *)
Start(m, s, w) ==
  /\ ManagerAt(m, "idle") /\ w \in Assignable(s)
  /\ \/ \E j \in JobsOf(s) :
          /\ IsLatest(j, s) /\ row[j].status \in Active
          /\ manager' = [manager EXCEPT ![m] =
                [at |-> "stop", job |-> j, service |-> s, worker |-> w, saw |-> FALSE]]
     \/ /\ \A j \in JobsOf(s) : IsLatest(j, s) => row[j].status \in Final
        /\ manager' = [manager EXCEPT ![m] =
              [at |-> "create", job |-> NoJob, service |-> s, worker |-> w, saw |-> FALSE]]
  /\ OnlyManager

(* _stop_remote for one service.                                           *)
Stop(m, s) ==
  /\ ManagerAt(m, "idle")
  /\ \E j \in JobsOf(s) :
       /\ IsLatest(j, s) /\ row[j].status \in Active
       /\ manager' = [manager EXCEPT ![m] = [IdleManager EXCEPT !.at = "stop", !.job = j]]
  /\ OnlyManager

(* request_stop reads the job again and decides by its status.             *)
DecideStop(m) ==
  /\ ManagerAt(m, "stop")
  /\ ManagerGoto(m, IF row[manager[m].job].status = "queued" THEN "drop" ELSE "mark")
  /\ OnlyManager

(* Back in _start_remote there is a job to create, in _stop_remote nothing. *)
StopDone(m) ==
  manager' = [manager EXCEPT ![m] =
                IF @.worker = NoWorker THEN IdleManager
                ELSE [@ EXCEPT !.at = "create", !.job = NoJob, !.saw = FALSE]]

DropQueued(m) ==
  /\ ManagerAt(m, "drop")
  /\ WriteRow(manager[m].job, "stopped", FALSE)
  /\ StopDone(m)
  /\ UNCHANGED <<agent, proc>>

MarkStop(m) ==
  /\ ManagerAt(m, "mark")
  /\ row' = [row EXCEPT ![manager[m].job].stop = TRUE]
  /\ ManagerGoto(m, "read")
  /\ UNCHANGED <<agent, proc>>

ReadForCancel(m) ==
  /\ ManagerAt(m, "read")
  /\ manager' = [manager EXCEPT ![m].at = "cancel", ![m].saw = row[manager[m].job].stop]
  /\ OnlyManager

(* Mutant: a status that no other part of the code knows.                  *)
WriteCancelUnknown(m) ==
  /\ ManagerAt(m, "cancel")
  /\ WriteRow(manager[m].job, "canceled", manager[m].saw)
  /\ StopDone(m)
  /\ UNCHANGED <<agent, proc>>

WriteCancel(m) ==
  /\ ManagerAt(m, "cancel")
  /\ WriteRow(manager[m].job, "cancel_requested", manager[m].saw)
  /\ StopDone(m)
  /\ UNCHANGED <<agent, proc>>

(* create_playground_job: the row can be claimed before the ZIP is written. *)
CreateJob(m) ==
  /\ ManagerAt(m, "create")
  /\ \E j \in Job \ Created :
       /\ \A k \in 1..j-1 : k \in Created
       /\ row' = [row EXCEPT ![j] = [status |-> "queued", stop |-> FALSE,
                     worker |-> manager[m].worker, service |-> manager[m].service,
                     packed |-> FALSE]]
       /\ manager' = [manager EXCEPT ![m].at = "pack", ![m].job = j]
  /\ UNCHANGED <<agent, proc>>

PackArtifact(m) ==
  /\ ManagerAt(m, "pack")
  /\ row' = [row EXCEPT ![manager[m].job].packed = TRUE]
  /\ manager' = [manager EXCEPT ![m] = IdleManager]
  /\ UNCHANGED <<agent, proc>>

(* _prepare_service_workspace and _service_env come between the stop and   *)
(* the creation, _write_artifact after it: when one raises, the old job is *)
(* stopped for nothing, or the new one stays queued without a ZIP.         *)
StartFails(m) ==
  /\ ManagerAt(m, "create") \/ ManagerAt(m, "pack")
  /\ manager' = [manager EXCEPT ![m] = IdleManager]
  /\ OnlyManager

-----------------------------------------------------------------------------
(* The agent. It has one request under way at a time.                      *)

AgentAt(w, place) == agent[w].at = place
AgentGoto(w, place) == agent' = [agent EXCEPT ![w].at = place]
OnlyAgent == UNCHANGED <<row, manager, proc>>

(* What heartbeat() tells a worker to stop.                                *)
StopJobs(w) ==
  {j \in Job : /\ row[j].worker = w /\ row[j].stop
               /\ row[j].status \in {"claimed", "running", "cancel_requested"}}

(* Mutant: the agent waits for every job of its worker to end first.       *)
HeartbeatIdleUnlessBusy(w) ==
  /\ AgentAt(w, "idle")
  /\ \A j \in Job : row[j].worker = w =>
       row[j].status \notin {"claimed", "running", "cancel_requested"}
  /\ AgentGoto(w, "claim")
  /\ OnlyAgent

(* run_forever: with anything to stop, the agent sleeps and asks again.    *)
HeartbeatIdle(w) ==
  /\ AgentAt(w, "idle")
  /\ StopJobs(w) = {}
  /\ AgentGoto(w, "claim")
  /\ OnlyAgent

QueuedFor(w) == {j \in Job : row[j].worker = w /\ row[j].status = "queued"}

(* Mutant: the job is selected but not marked.                             *)
ClaimUnmarked(w) ==
  /\ AgentAt(w, "claim")
  /\ \/ QueuedFor(w) = {} /\ AgentGoto(w, "idle")
     \/ \E j \in QueuedFor(w) :
          agent' = [agent EXCEPT ![w].at = "fetch", ![w].job = j]
  /\ OnlyAgent

(* claim_next_dispatch_job selects and updates in one transaction.         *)
Claim(w) ==
  /\ AgentAt(w, "claim")
  /\ \/ /\ QueuedFor(w) = {}
        /\ AgentGoto(w, "idle")
        /\ UNCHANGED row
     \/ \E j \in QueuedFor(w) :
          /\ \A k \in QueuedFor(w) : j <= k
          /\ row' = [row EXCEPT ![j].status = "claimed"]
          /\ agent' = [agent EXCEPT ![w].at = "fetch", ![w].job = j]
  /\ UNCHANGED <<manager, proc>>

(* _run_job gets the artifact. One that is not there yet, or a bad         *)
(* signature or ZIP, raises, and nothing catches it.                       *)
Fetch(w) ==
  /\ AgentAt(w, "fetch")
  /\ \/ row[agent[w].job].packed /\ AgentGoto(w, "build")
     \/ agent' = [agent EXCEPT ![w] = Agent("dead")]
  /\ OnlyAgent

(* Popen.                                                                  *)
StartProcess(j) == proc' = [proc EXCEPT ![j] = "running"]

(* _build_command, and Popen. It copies the workspace for a container and  *)
(* compiles a Rust service, without a heartbeat meanwhile; a link in the   *)
(* workspace, a tool that is missing and a compiler that fails raise.      *)
BuildCommand(w) ==
  /\ AgentAt(w, "build")
  /\ \/ /\ StartProcess(agent[w].job)
        /\ AgentGoto(w, "started")
     \/ agent' = [agent EXCEPT ![w] = Agent("dead")] /\ UNCHANGED proc
  /\ UNCHANGED <<row, manager>>

(* The status update "running": the handler's read, then its write.        *)
ReadForRunning(w) ==
  /\ AgentAt(w, "started")
  /\ agent' = [agent EXCEPT ![w].at = "running", ![w].saw.stop = row[agent[w].job].stop]
  /\ OnlyAgent

WriteRunning(w) ==
  /\ AgentAt(w, "running")
  /\ WriteRow(agent[w].job, "running", agent[w].saw.stop)
  /\ agent' = [agent EXCEPT ![w].at = "poll", ![w].saw = NothingSeen]
  /\ UNCHANGED <<manager, proc>>

(* process.poll(), of the agent's own child.                               *)
Poll(w) ==
  /\ AgentAt(w, "poll")
  /\ AgentGoto(w, IF proc[agent[w].job] = "running" THEN "drain" ELSE "last drain")
  /\ OnlyAgent

(* _drain_logs takes lines until it finds the queue empty, which it may    *)
(* never do: the thread that reads the output goes on filling it. Then it  *)
(* sends what it has taken, if anything.                                   *)
Drained(w) ==
  /\ \/ AgentAt(w, "drain") /\ (AgentGoto(w, "log") \/ AgentGoto(w, "beat"))
     \/ AgentAt(w, "last drain") /\ (AgentGoto(w, "last log") \/ AgentGoto(w, "report"))
  /\ OnlyAgent

(* append_dispatch_job_log reads the status, update_dispatch_job_status    *)
(* the stop flag; then both are written back.                              *)
ReadForLog(w) ==
  /\ AgentAt(w, "log") \/ AgentAt(w, "last log")
  /\ agent' = [agent EXCEPT
       ![w].at = IF @ = "log" THEN "log again" ELSE "last log again",
       ![w].saw.status = row[agent[w].job].status]
  /\ OnlyAgent

ReadAgainForLog(w) ==
  /\ AgentAt(w, "log again") \/ AgentAt(w, "last log again")
  /\ agent' = [agent EXCEPT
       ![w].at = IF @ = "log again" THEN "log write" ELSE "last log write",
       ![w].saw.stop = row[agent[w].job].stop]
  /\ OnlyAgent

WriteLog(w) ==
  /\ AgentAt(w, "log write") \/ AgentAt(w, "last log write")
  /\ WriteRow(agent[w].job, agent[w].saw.status, agent[w].saw.stop)
  /\ agent' = [agent EXCEPT
       ![w].at = IF @ = "log write" THEN "beat" ELSE "report",
       ![w].saw = NothingSeen]
  /\ UNCHANGED <<manager, proc>>

(* Mutant: terminate() without the kill() that follows it.                 *)
HeartbeatBusyGently(w) ==
  /\ AgentAt(w, "beat")
  /\ agent' = [agent EXCEPT ![w].at = "poll"]
  /\ IF agent[w].job \in StopJobs(w)
     THEN proc' \in {proc, [proc EXCEPT ![agent[w].job] = "ended"]}
     ELSE UNCHANGED proc
  /\ UNCHANGED <<row, manager>>

(* terminate(), and kill() for a child that is still there after 5 s. A    *)
(* docker client passes the first on to the container, but not the second. *)
HeartbeatBusy(w) ==
  /\ AgentAt(w, "beat")
  /\ LET j == agent[w].job IN
     IF j \in StopJobs(w)
     THEN /\ \E end \in {"ended"} \cup (IF j \in Contained THEN {"left"} ELSE {}) :
               proc' = [proc EXCEPT ![j] = end]
          /\ agent' = [agent EXCEPT ![w].at = "poll", ![w].stopping = TRUE]
     ELSE AgentGoto(w, "poll") /\ UNCHANGED proc
  /\ UNCHANGED <<row, manager>>

(* The final status update clears the stop flag, so what it reads before   *)
(* makes no difference.                                                    *)
Report(w) ==
  /\ AgentAt(w, "report")
  /\ \E status \in IF agent[w].stopping THEN {"stopped"} ELSE {"completed", "failed"} :
       WriteRow(agent[w].job, status, FALSE)
  /\ agent' = [agent EXCEPT ![w] = Agent("idle")]
  /\ UNCHANGED <<manager, proc>>

(* Mutant: a dying agent reports its job as failed.                        *)
CrashReporting(w) ==
  /\ agent[w].at \in {"started", "poll", "beat"}
  /\ WriteRow(agent[w].job, "failed", FALSE)
  /\ agent' = [agent EXCEPT ![w] = Agent("dead")]
  /\ UNCHANGED <<manager, proc>>

(* A raised exception, an HTTP error among them, or a reboot ends an agent *)
(* between two requests; its process may live on. Someone starts it again. *)
Crash(w) ==
  /\ agent[w].at \in {"idle", "claim", "fetch", "build", "started", "poll", "drain",
                      "last drain", "beat", "report"}
  /\ agent' = [agent EXCEPT ![w] = Agent("dead")]
  /\ OnlyAgent

Restart(w) ==
  /\ AgentAt(w, "dead")
  /\ AgentGoto(w, "idle")
  /\ OnlyAgent

ProcessEnds(j) ==
  /\ proc[j] \in {"running", "left"}
  /\ proc' = [proc EXCEPT ![j] = "ended"]
  /\ UNCHANGED <<row, manager, agent>>

-----------------------------------------------------------------------------
ManagerStep(m) ==
  DecideStop(m) \/ DropQueued(m) \/ MarkStop(m) \/ ReadForCancel(m)
    \/ WriteCancel(m) \/ CreateJob(m) \/ PackArtifact(m) \/ StartFails(m)

AgentStep(w) ==
  HeartbeatIdle(w) \/ Claim(w) \/ Fetch(w) \/ BuildCommand(w) \/ ReadForRunning(w)
    \/ WriteRunning(w) \/ Poll(w) \/ ReadForLog(w) \/ ReadAgainForLog(w) \/ WriteLog(w)
    \/ HeartbeatBusy(w) \/ Report(w)

Next ==
  \/ \E m \in Manager :
       \/ \E s \in Service : Stop(m, s) \/ \E w \in Worker : Start(m, s, w)
       \/ ManagerStep(m)
  \/ \E w \in Worker : AgentStep(w) \/ Drained(w) \/ Crash(w) \/ Restart(w)
  \/ \E j \in Job : ProcessEnds(j)

(* Handlers finish and an agent that is up keeps going, except that it may *)
(* drain a queue for ever. Nobody has to start or stop a service, restart  *)
(* an agent, or end a process.                                             *)
Fairness ==
  /\ \A m \in Manager : WF_vars(ManagerStep(m))
  /\ \A w \in Worker : WF_vars(AgentStep(w))

SafeSpec == Init /\ [][Next]_vars
Spec == SafeSpec /\ Fairness

-----------------------------------------------------------------------------
(* Type correctness of the table, the handlers, the agents and processes.  *)
TypeOK ==
  /\ row \in [Job -> [status : Status, stop : BOOLEAN, worker : Worker \cup {NoWorker},
                      service : Service \cup {NoService}, packed : BOOLEAN]]
  /\ manager \in [Manager ->
        [at : {"idle", "stop", "drop", "mark", "read", "cancel", "create", "pack"},
         job : Job \cup {NoJob}, service : Service \cup {NoService},
         worker : Worker \cup {NoWorker}, saw : BOOLEAN]]
  /\ agent \in [Worker ->
        [at : {"idle", "claim", "fetch", "build", "started", "running", "poll", "drain", "log",
               "log again", "log write", "last drain", "last log", "last log again",
               "last log write", "beat", "report", "dead"},
         job : Job \cup {NoJob}, stopping : BOOLEAN,
         saw : [status : Status, stop : BOOLEAN]]]
  /\ proc \in [Job -> {"none", "running", "left", "ended"}]

(* What is written back stale never puts a job in the queue a second time: *)
(* a job leaves "queued" once, and its process is started at most once,    *)
(* through any mixture of stops, log chunks, status reports and crashes.   *)
RunsOnce ==
  [][\A j \in Job :
       /\ row[j].status \notin {"absent", "queued"} =>
            row'[j].status \notin {"absent", "queued"}
       /\ proc[j] # "none" /\ proc'[j] # proc[j] => proc'[j] \in {"left", "ended"}]_vars

(* "completed" and "failed" are reported only for a process that has       *)
(* ended, and stay: only a stop request that was already past its decision *)
(* writes over them.                                                       *)
ReportedOutcome ==
  /\ [](\A j \in Job : row[j].status \in {"completed", "failed"} => proc[j] = "ended")
  /\ [][\A j \in Job :
          row[j].status \in {"completed", "failed"} /\ row'[j].status # row[j].status =>
            \E m \in Manager : manager[m].at \in {"drop", "cancel"} /\ manager[m].job = j]_vars

Executing(w, j) ==
  /\ agent[w].job = j
  /\ agent[w].at \in {"started", "running", "poll", "drain", "log", "log again", "log write",
                     "beat"}

(* A service that writes faster than the agent takes keeps it in           *)
(* _drain_logs, where it neither sends nor asks: the properties below are  *)
(* about the agents that keep finding their queue empty.                   *)
KeepsUp(w) == []<>~(AgentAt(w, "drain") \/ AgentAt(w, "last drain"))

(* What a stop achieves: the agent's child has ended, and with it the      *)
(* service unless that runs in a container.                                *)
Stopped(j) == proc[j] \in {"ended"} \cup (IF j \in Contained THEN {"left"} ELSE {})

(* A stop request that stays in the table reaches the process, whatever    *)
(* the agent was doing, as long as it keeps up with what the service logs. *)
StopIsDelivered ==
  \A w \in Worker : KeepsUp(w) =>
    \A j \in Job :
      Executing(w, j) /\ j \in StopJobs(w) ~>
        Stopped(j) \/ j \notin StopJobs(w) \/ AgentAt(w, "dead")

(* A queued job is claimed or dropped, unless its worker's agent is down,  *)
(* runs something else, or is told to stop what it does not run.           *)
QueuedIsServed ==
  \A w \in Worker : KeepsUp(w) =>
    \A j \in Job :
      j \in QueuedFor(w) ~>
        \/ j \notin QueuedFor(w)
        \/ AgentAt(w, "dead")
        \/ \E k \in Job : Executing(w, k)
        \/ AgentAt(w, "idle") /\ StopJobs(w) # {}

-----------------------------------------------------------------------------
(* What the documentation says.                                            *)

(* wiki/Lehrer_Admin/05_Playground_Reviews_und_Deployments.md: stop        *)
(* requests go to the worker. So what a manager has decided to stop ends.  *)
StopRequestsArrive ==
  \A w \in Worker : KeepsUp(w) =>
    \A m \in Manager : \A j \in Job :
      ManagerAt(m, "mark") /\ manager[m].job = j /\ Executing(w, j) ~>
        Stopped(j) \/ AgentAt(w, "dead")
=============================================================================
