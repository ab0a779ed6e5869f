-------------------------- MODULE Distributed_proofs --------------------------
(***************************************************************************)
(* Proofs about the two modes of the distributed playground, for any       *)
(* services, threads, workers and bounds.                                  *)
(*                                                                         *)
(* Remote mode (DispatchJobs): no stale write makes a job run twice, and an*)
(* outcome is reported once and only for a process that has ended.         *)
(*                                                                         *)
(* Local mode (Playground): what runs stays in reach of a stop and knows   *)
(* the ports of what else runs, except where requests for one service      *)
(* overlap.                                                                *)
(***************************************************************************)
EXTENDS DispatchJobs, Playground, TLAPS

-----------------------------------------------------------------------------
(* Remote mode.                                                            *)

(* Places of an agent: without a job, before and after it has started the  *)
(* process, after it has seen it end, and with a status it has read.       *)
Jobless == {"idle", "claim", "dead"}
Preparing == {"fetch", "build"}
Ended == {"last drain", "last log", "last log again", "last log write", "report"}
Launched == {"started", "running", "poll", "drain", "log", "log again", "log write", "beat"}
              \cup Ended
StatusSeen == {"log again", "log write", "last log again", "last log write"}

(* What the status of a job can be while an agent has it.                  *)
Taken == {"claimed", "running", "cancel_requested", "stopped"}

(* A manager that is past its first read has a job, ...                    *)
ManagersHaveJob ==
  \A m \in Manager :
    manager[m].at \in {"stop", "drop", "mark", "read", "cancel", "pack"} =>
      manager[m].job \in Job

(* ... and so has an agent past its claim, one no other agent has and      *)
(* whose outcome is not reported yet.                                      *)
AgentsHaveJob ==
  \A w \in Worker :
    /\ agent[w].at \in Jobless => agent[w].job = NoJob
    /\ agent[w].at \notin Jobless =>
         /\ agent[w].job \in Job
         /\ row[agent[w].job].status \in Taken
         /\ \A v \in Worker \ {w} : agent[v].job # agent[w].job

(* The status it writes back with its log was one of those.                *)
SawTaken ==
  \A w \in Worker : agent[w].at \in StatusSeen => agent[w].saw.status \in Taken

(* The agent's own child has ended.                                        *)
Gone == {"ended", "left"}

(* Which processes have been started, and have ended.                      *)
ProcessesFit ==
  /\ \A j \in Job : row[j].status \in {"absent", "queued"} => proc[j] = "none"
  /\ \A j \in Job : row[j].status \in {"completed", "failed"} => proc[j] = "ended"
  /\ \A w \in Worker :
       /\ agent[w].at \in Preparing => proc[agent[w].job] = "none"
       /\ agent[w].at \in Launched => proc[agent[w].job] # "none"
       /\ agent[w].at \in Ended => proc[agent[w].job] \in Gone

(* A container is left behind only by an agent that was told to stop.      *)
LeftStops ==
  \A w \in Worker :
    agent[w].at \notin Jobless /\ proc[agent[w].job] = "left" => agent[w].stopping

IInv ==
  TypeOK /\ ManagersHaveJob /\ AgentsHaveJob /\ SawTaken /\ ProcessesFit /\ LeftStops

-----------------------------------------------------------------------------
(* The state, variable by variable.                                        *)
Place == {"idle", "claim", "fetch", "build", "started", "running", "poll", "drain", "log",
          "log again", "log write", "last drain", "last log", "last log again",
          "last log write", "beat", "report", "dead"}
ManagerPlace == {"idle", "stop", "drop", "mark", "read", "cancel", "create", "pack"}
Saw == [status : Status, stop : BOOLEAN]
RowRec == [status : Status, stop : BOOLEAN, worker : Worker \cup {NoWorker},
           service : Service \cup {NoService}, packed : BOOLEAN]
ManagerRec == [at : ManagerPlace, job : Job \cup {NoJob},
               service : Service \cup {NoService}, worker : Worker \cup {NoWorker},
               saw : BOOLEAN]
AgentRec == [at : Place, job : Job \cup {NoJob}, stopping : BOOLEAN, saw : Saw]

RowTypeOK == row \in [Job -> RowRec]
ManagerTypeOK == manager \in [Manager -> ManagerRec]
AgentTypeOK == agent \in [Worker -> AgentRec]
ProcTypeOK == proc \in [Job -> {"none", "running", "left", "ended"}]

LEMMA TypeParts ==
  /\ TypeOK <=> RowTypeOK /\ ManagerTypeOK /\ AgentTypeOK /\ ProcTypeOK
  /\ TypeOK' <=> RowTypeOK' /\ ManagerTypeOK' /\ AgentTypeOK' /\ ProcTypeOK'
BY DEF TypeOK, RowTypeOK, ManagerTypeOK, AgentTypeOK, ProcTypeOK, RowRec, ManagerRec,
  AgentRec, Place, ManagerPlace, Saw

LEMMA NoJobIsNone == NoJob \notin Job
BY DispatchAssumption DEF NoJob, Job

(* What a step does to one row, one manager, one agent.                    *)
RowSet(j, status) ==
  /\ RowTypeOK'
  /\ row'[j].status = status
  /\ \A k \in Job \ {j} : row'[k] = row[k]
ManagerMoved(m, place, job) ==
  /\ ManagerTypeOK'
  /\ manager'[m].at = place /\ manager'[m].job = job
  /\ \A n \in Manager \ {m} : manager'[n] = manager[n]
AgentMoved(w, place, job) ==
  /\ AgentTypeOK'
  /\ agent'[w].at = place /\ agent'[w].job = job
  /\ job # NoJob /\ agent[w].stopping => agent'[w].stopping
  /\ \A v \in Worker \ {w} : agent'[v] = agent[v]

LEMMA WritesRow ==
  ASSUME RowTypeOK, NEW j \in Job, NEW s \in Status, NEW b \in BOOLEAN,
         WriteRow(j, s, b)
  PROVE  RowSet(j, s)
<1> DEFINE X == [row[j] EXCEPT !.status = s, !.stop = b]
<1>1. row[j] \in RowRec
  BY DEF RowTypeOK
<1>2. row' = [row EXCEPT ![j] = X]
  BY DEF WriteRow
<1>3. X \in RowRec
  BY <1>1 DEF RowRec, NoRow, Status, Active, Final
<1>4. row' \in [Job -> RowRec] /\ row'[j] = X
  BY <1>2, <1>3 DEF RowTypeOK
<1> QED
  BY <1>1, <1>2, <1>4 DEF RowSet, RowTypeOK, RowRec

LEMMA MarksRow ==
  ASSUME RowTypeOK, NEW j \in Job, row' = [row EXCEPT ![j].stop = TRUE]
  PROVE  RowSet(j, row[j].status)
<1> DEFINE X == [row[j] EXCEPT !.stop = TRUE]
<1>1. row[j] \in RowRec
  BY DEF RowTypeOK
<1>2. row' = [row EXCEPT ![j] = X]
  OBVIOUS
<1>3. X \in RowRec
  BY <1>1 DEF RowRec, NoRow, Status, Active, Final
<1>4. row' \in [Job -> RowRec] /\ row'[j] = X
  BY <1>2, <1>3 DEF RowTypeOK
<1> QED
  BY <1>1, <1>2, <1>4 DEF RowSet, RowTypeOK, RowRec

LEMMA PacksRow ==
  ASSUME RowTypeOK, NEW j \in Job, row' = [row EXCEPT ![j].packed = TRUE]
  PROVE  RowSet(j, row[j].status)
<1> DEFINE X == [row[j] EXCEPT !.packed = TRUE]
<1>1. row[j] \in RowRec
  BY DEF RowTypeOK
<1>2. row' = [row EXCEPT ![j] = X]
  OBVIOUS
<1>3. X \in RowRec
  BY <1>1 DEF RowRec, NoRow, Status, Active, Final
<1>4. row' \in [Job -> RowRec] /\ row'[j] = X
  BY <1>2, <1>3 DEF RowTypeOK
<1> QED
  BY <1>1, <1>2, <1>4 DEF RowSet, RowTypeOK, RowRec

LEMMA ClaimsRow ==
  ASSUME RowTypeOK, NEW j \in Job, row' = [row EXCEPT ![j].status = "claimed"]
  PROVE  RowSet(j, "claimed")
<1> DEFINE X == [row[j] EXCEPT !.status = "claimed"]
<1>1. row[j] \in RowRec
  BY DEF RowTypeOK
<1>2. row' = [row EXCEPT ![j] = X]
  OBVIOUS
<1>3. X \in RowRec
  BY <1>1 DEF RowRec, NoRow, Status, Active, Final
<1>4. row' \in [Job -> RowRec] /\ row'[j] = X
  BY <1>2, <1>3 DEF RowTypeOK
<1> QED
  BY <1>1, <1>2, <1>4 DEF RowSet, RowTypeOK, RowRec

LEMMA CreatesRow ==
  ASSUME RowTypeOK, NEW j \in Job, NEW w \in Worker \cup {NoWorker},
         NEW s \in Service \cup {NoService},
         row' = [row EXCEPT ![j] = [status |-> "queued", stop |-> FALSE,
                    worker |-> w, service |-> s, packed |-> FALSE]]
  PROVE  RowSet(j, "queued")
<1> DEFINE X == [status |-> "queued", stop |-> FALSE, worker |-> w, service |-> s,
                 packed |-> FALSE]
<1>1. row[j] \in RowRec
  BY DEF RowTypeOK
<1>2. row' = [row EXCEPT ![j] = X]
  OBVIOUS
<1>3. X \in RowRec
  BY <1>1 DEF RowRec, NoRow, Status, Active, Final
<1>4. row' \in [Job -> RowRec] /\ row'[j] = X
  BY <1>2, <1>3 DEF RowTypeOK
<1> QED
  BY <1>1, <1>2, <1>4 DEF RowSet, RowTypeOK, RowRec

LEMMA Goes ==
  ASSUME AgentTypeOK, NEW w \in Worker, NEW p \in Place, AgentGoto(w, p)
  PROVE  AgentMoved(w, p, agent[w].job) /\ agent'[w].saw = agent[w].saw
<1> DEFINE X == [agent[w] EXCEPT !.at = p]
<1>1. agent[w] \in AgentRec
  BY DEF AgentTypeOK
<1>2. agent' = [agent EXCEPT ![w] = X]
  BY DEF AgentGoto
<1>3. X \in AgentRec
  BY <1>1 DEF AgentRec, Saw, Place
<1>4. agent' \in [Worker -> AgentRec] /\ agent'[w] = X
  BY <1>2, <1>3 DEF AgentTypeOK
<1> QED
  BY <1>1, <1>2, <1>4 DEF AgentMoved, AgentTypeOK, AgentRec, Saw

LEMMA Takes ==
  ASSUME AgentTypeOK, NEW w \in Worker, NEW j \in Job,
         agent' = [agent EXCEPT ![w].at = "fetch", ![w].job = j]
  PROVE  AgentMoved(w, "fetch", j)
<1> DEFINE X == [agent[w] EXCEPT !.at = "fetch", !.job = j]
<1>1. agent[w] \in AgentRec
  BY DEF AgentTypeOK
<1>2. agent' = [agent EXCEPT ![w] = X]
  OBVIOUS
<1>3. X \in AgentRec
  BY <1>1 DEF AgentRec, Saw, Place
<1>4. agent' \in [Worker -> AgentRec] /\ agent'[w] = X
  BY <1>2, <1>3 DEF AgentTypeOK
<1> QED
  BY <1>1, <1>2, <1>4 DEF AgentMoved, AgentTypeOK, AgentRec, Saw

LEMMA Resets ==
  ASSUME AgentTypeOK, NEW w \in Worker, NEW p \in Place, agent' = [agent EXCEPT ![w] = Agent(p)]
  PROVE  AgentMoved(w, p, NoJob)
<1> DEFINE X == Agent(p)
<1>1. agent[w] \in AgentRec
  BY DEF AgentTypeOK
<1>2. agent' = [agent EXCEPT ![w] = X]
  OBVIOUS
<1>3. X \in AgentRec
  BY <1>1 DEF AgentRec, Saw, Place, Agent, NothingSeen, Status
<1>4. agent' \in [Worker -> AgentRec] /\ agent'[w] = X
  BY <1>2, <1>3 DEF AgentTypeOK
<1> QED
  BY <1>1, <1>2, <1>4 DEF AgentMoved, AgentTypeOK, AgentRec, Saw, Agent

LEMMA SeesStop ==
  ASSUME AgentTypeOK, NEW w \in Worker, NEW b \in BOOLEAN,
         agent' = [agent EXCEPT ![w].at = "running", ![w].saw.stop = b]
  PROVE  AgentMoved(w, "running", agent[w].job)
<1> DEFINE X == [agent[w] EXCEPT !.at = "running", !.saw.stop = b]
<1>1. agent[w] \in AgentRec
  BY DEF AgentTypeOK
<1>2. agent' = [agent EXCEPT ![w] = X]
  OBVIOUS
<1>3. X \in AgentRec
  BY <1>1 DEF AgentRec, Saw, Place
<1>4. agent' \in [Worker -> AgentRec] /\ agent'[w] = X
  BY <1>2, <1>3 DEF AgentTypeOK
<1> QED
  BY <1>1, <1>2, <1>4 DEF AgentMoved, AgentTypeOK, AgentRec, Saw

LEMMA Forgets ==
  ASSUME AgentTypeOK, NEW w \in Worker, NEW p \in Place,
         agent' = [agent EXCEPT ![w].at = p, ![w].saw = NothingSeen]
  PROVE  AgentMoved(w, p, agent[w].job)
<1> DEFINE X == [agent[w] EXCEPT !.at = p, !.saw = NothingSeen]
<1>1. agent[w] \in AgentRec
  BY DEF AgentTypeOK
<1>2. agent' = [agent EXCEPT ![w] = X]
  OBVIOUS
<1>3. X \in AgentRec
  BY <1>1 DEF AgentRec, Saw, Place, NothingSeen, Status
<1>4. agent' \in [Worker -> AgentRec] /\ agent'[w] = X
  BY <1>2, <1>3 DEF AgentTypeOK
<1> QED
  BY <1>1, <1>2, <1>4 DEF AgentMoved, AgentTypeOK, AgentRec, Saw

LEMMA SeesStatus ==
  ASSUME AgentTypeOK, NEW w \in Worker, NEW p \in Place, NEW s \in Status,
         agent' = [agent EXCEPT ![w].at = p, ![w].saw.status = s]
  PROVE  AgentMoved(w, p, agent[w].job) /\ agent'[w].saw.status = s
<1> DEFINE X == [agent[w] EXCEPT !.at = p, !.saw.status = s]
<1>1. agent[w] \in AgentRec
  BY DEF AgentTypeOK
<1>2. agent' = [agent EXCEPT ![w] = X]
  OBVIOUS
<1>3. X \in AgentRec
  BY <1>1 DEF AgentRec, Saw, Place
<1>4. agent' \in [Worker -> AgentRec] /\ agent'[w] = X
  BY <1>2, <1>3 DEF AgentTypeOK
<1> QED
  BY <1>1, <1>2, <1>4 DEF AgentMoved, AgentTypeOK, AgentRec, Saw

LEMMA SeesStopToo ==
  ASSUME AgentTypeOK, NEW w \in Worker, NEW p \in Place, NEW b \in BOOLEAN,
         agent' = [agent EXCEPT ![w].at = p, ![w].saw.stop = b]
  PROVE  AgentMoved(w, p, agent[w].job) /\ agent'[w].saw.status = agent[w].saw.status
<1> DEFINE X == [agent[w] EXCEPT !.at = p, !.saw.stop = b]
<1>1. agent[w] \in AgentRec
  BY DEF AgentTypeOK
<1>2. agent' = [agent EXCEPT ![w] = X]
  OBVIOUS
<1>3. X \in AgentRec
  BY <1>1 DEF AgentRec, Saw, Place
<1>4. agent' \in [Worker -> AgentRec] /\ agent'[w] = X
  BY <1>2, <1>3 DEF AgentTypeOK
<1> QED
  BY <1>1, <1>2, <1>4 DEF AgentMoved, AgentTypeOK, AgentRec, Saw

LEMMA Stops ==
  ASSUME AgentTypeOK, NEW w \in Worker, agent' = [agent EXCEPT ![w].at = "poll", ![w].stopping = TRUE]
  PROVE  AgentMoved(w, "poll", agent[w].job) /\ agent'[w].stopping
<1> DEFINE X == [agent[w] EXCEPT !.at = "poll", !.stopping = TRUE]
<1>1. agent[w] \in AgentRec
  BY DEF AgentTypeOK
<1>2. agent' = [agent EXCEPT ![w] = X]
  OBVIOUS
<1>3. X \in AgentRec
  BY <1>1 DEF AgentRec, Saw, Place
<1>4. agent' \in [Worker -> AgentRec] /\ agent'[w] = X
  BY <1>2, <1>3 DEF AgentTypeOK
<1> QED
  BY <1>1, <1>2, <1>4 DEF AgentMoved, AgentTypeOK, AgentRec, Saw

LEMMA ManagerGoes ==
  ASSUME ManagerTypeOK, NEW m \in Manager, NEW p \in ManagerPlace, ManagerGoto(m, p)
  PROVE  ManagerMoved(m, p, manager[m].job)
<1> DEFINE X == [manager[m] EXCEPT !.at = p]
<1>1. manager[m] \in ManagerRec
  BY DEF ManagerTypeOK
<1>2. manager' = [manager EXCEPT ![m] = X]
  BY DEF ManagerGoto
<1>3. X \in ManagerRec
  BY <1>1 DEF ManagerRec, ManagerPlace, IdleManager
<1>4. manager' \in [Manager -> ManagerRec] /\ manager'[m] = X
  BY <1>2, <1>3 DEF ManagerTypeOK
<1> QED
  BY <1>1, <1>2, <1>4 DEF ManagerMoved, ManagerTypeOK, ManagerRec, IdleManager

LEMMA ManagerSees ==
  ASSUME ManagerTypeOK, NEW m \in Manager, NEW b \in BOOLEAN,
         manager' = [manager EXCEPT ![m].at = "cancel", ![m].saw = b]
  PROVE  ManagerMoved(m, "cancel", manager[m].job)
<1> DEFINE X == [manager[m] EXCEPT !.at = "cancel", !.saw = b]
<1>1. manager[m] \in ManagerRec
  BY DEF ManagerTypeOK
<1>2. manager' = [manager EXCEPT ![m] = X]
  OBVIOUS
<1>3. X \in ManagerRec
  BY <1>1 DEF ManagerRec, ManagerPlace, IdleManager
<1>4. manager' \in [Manager -> ManagerRec] /\ manager'[m] = X
  BY <1>2, <1>3 DEF ManagerTypeOK
<1> QED
  BY <1>1, <1>2, <1>4 DEF ManagerMoved, ManagerTypeOK, ManagerRec, IdleManager

LEMMA ManagerCreates ==
  ASSUME ManagerTypeOK, NEW m \in Manager, NEW j \in Job,
         manager' = [manager EXCEPT ![m].at = "pack", ![m].job = j]
  PROVE  ManagerMoved(m, "pack", j)
<1> DEFINE X == [manager[m] EXCEPT !.at = "pack", !.job = j]
<1>1. manager[m] \in ManagerRec
  BY DEF ManagerTypeOK
<1>2. manager' = [manager EXCEPT ![m] = X]
  OBVIOUS
<1>3. X \in ManagerRec
  BY <1>1 DEF ManagerRec, ManagerPlace, IdleManager
<1>4. manager' \in [Manager -> ManagerRec] /\ manager'[m] = X
  BY <1>2, <1>3 DEF ManagerTypeOK
<1> QED
  BY <1>1, <1>2, <1>4 DEF ManagerMoved, ManagerTypeOK, ManagerRec, IdleManager

LEMMA ManagerRests ==
  ASSUME ManagerTypeOK, NEW m \in Manager, manager' = [manager EXCEPT ![m] = IdleManager]
  PROVE  ManagerMoved(m, "idle", NoJob)
<1> DEFINE X == IdleManager
<1>1. manager[m] \in ManagerRec
  BY DEF ManagerTypeOK
<1>2. manager' = [manager EXCEPT ![m] = X]
  OBVIOUS
<1>3. X \in ManagerRec
  BY <1>1 DEF ManagerRec, ManagerPlace, IdleManager
<1>4. manager' \in [Manager -> ManagerRec] /\ manager'[m] = X
  BY <1>2, <1>3 DEF ManagerTypeOK
<1> QED
  BY <1>1, <1>2, <1>4 DEF ManagerMoved, ManagerTypeOK, ManagerRec, IdleManager

LEMMA ManagerStops ==
  ASSUME ManagerTypeOK, NEW m \in Manager, NEW j \in Job,
         manager' = [manager EXCEPT ![m] = [IdleManager EXCEPT !.at = "stop", !.job = j]]
  PROVE  ManagerMoved(m, "stop", j)
<1> DEFINE X == [IdleManager EXCEPT !.at = "stop", !.job = j]
<1>1. manager[m] \in ManagerRec
  BY DEF ManagerTypeOK
<1>2. manager' = [manager EXCEPT ![m] = X]
  OBVIOUS
<1>3. X \in ManagerRec
  BY <1>1 DEF ManagerRec, ManagerPlace, IdleManager
<1>4. manager' \in [Manager -> ManagerRec] /\ manager'[m] = X
  BY <1>2, <1>3 DEF ManagerTypeOK
<1> QED
  BY <1>1, <1>2, <1>4 DEF ManagerMoved, ManagerTypeOK, ManagerRec, IdleManager

LEMMA ManagerStarts ==
  ASSUME ManagerTypeOK, NEW m \in Manager, NEW p \in {"stop", "create"}, NEW j \in Job \cup {NoJob},
         NEW s \in Service, NEW w \in Worker,
         manager' = [manager EXCEPT ![m] =
            [at |-> p, job |-> j, service |-> s, worker |-> w, saw |-> FALSE]]
  PROVE  ManagerMoved(m, p, j)
<1> DEFINE X == [at |-> p, job |-> j, service |-> s, worker |-> w, saw |-> FALSE]
<1>1. manager[m] \in ManagerRec
  BY DEF ManagerTypeOK
<1>2. manager' = [manager EXCEPT ![m] = X]
  OBVIOUS
<1>3. X \in ManagerRec
  BY <1>1 DEF ManagerRec, ManagerPlace, IdleManager
<1>4. manager' \in [Manager -> ManagerRec] /\ manager'[m] = X
  BY <1>2, <1>3 DEF ManagerTypeOK
<1> QED
  BY <1>1, <1>2, <1>4 DEF ManagerMoved, ManagerTypeOK, ManagerRec, IdleManager

LEMMA ManagerHasStopped ==
  ASSUME ManagerTypeOK, NEW m \in Manager, StopDone(m)
  PROVE  \E p \in {"idle", "create"} : ManagerMoved(m, p, NoJob)
<1> DEFINE X == IF manager[m].worker = NoWorker THEN IdleManager
                ELSE [manager[m] EXCEPT !.at = "create", !.job = NoJob, !.saw = FALSE]
<1>1. manager[m] \in ManagerRec
  BY DEF ManagerTypeOK
<1>2. manager' = [manager EXCEPT ![m] = X]
  BY DEF StopDone
<1>3. X \in ManagerRec
  BY <1>1 DEF ManagerRec, ManagerPlace, IdleManager
<1>4. manager' \in [Manager -> ManagerRec] /\ manager'[m] = X
  BY <1>2, <1>3 DEF ManagerTypeOK
<1> QED
  BY <1>1, <1>2, <1>4 DEF ManagerMoved, ManagerTypeOK, ManagerRec, IdleManager

-----------------------------------------------------------------------------
(* What a step may do to a job.                                            *)
Once ==
  \A j \in Job :
    /\ row[j].status \notin {"absent", "queued"} =>
         row'[j].status \notin {"absent", "queued"}
    /\ proc[j] # "none" /\ proc'[j] # proc[j] => proc'[j] \in {"left", "ended"}
Stays ==
  \A j \in Job :
    row[j].status \in {"completed", "failed"} /\ row'[j].status # row[j].status =>
      \E m \in Manager : manager[m].at \in {"drop", "cancel"} /\ manager[m].job = j

LEMMA InitInv == Init => IInv
<1> SUFFICES ASSUME Init PROVE IInv
  OBVIOUS
<1>1. NoRow \in RowRec /\ NoRow.status = "absent"
  BY DEF NoRow, RowRec, Status
<1>2. IdleManager \in ManagerRec /\ IdleManager.at = "idle"
  BY DEF IdleManager, ManagerRec, ManagerPlace
<1>3. Agent("idle") \in AgentRec /\ Agent("idle").at = "idle" /\ Agent("idle").job = NoJob
  BY DEF Agent, AgentRec, NothingSeen, Saw, Status, Place
<1>4. TypeOK
  BY <1>1, <1>2, <1>3, TypeParts
  DEF Init, RowTypeOK, ManagerTypeOK, AgentTypeOK, ProcTypeOK
<1>5. ManagersHaveJob
  BY <1>2 DEF Init, ManagersHaveJob
<1>6. AgentsHaveJob /\ SawTaken
  BY <1>3 DEF Init, AgentsHaveJob, SawTaken, Jobless, StatusSeen
<1>7. ProcessesFit /\ LeftStops
  BY <1>1, <1>3 DEF Init, ProcessesFit, LeftStops, Jobless, Preparing, Launched, Ended
<1> QED
  BY <1>4, <1>5, <1>6, <1>7 DEF IInv

(* A step of agent w, which touches no job but its own, t.                 *)
LEMMA AgentStepKeeps ==
  ASSUME IInv, NEW w \in Worker, NEW p, NEW j, AgentMoved(w, p, j),
         manager' = manager, RowTypeOK', ProcTypeOK',
         NEW t \in Job \cup {NoJob},
         \A v \in Worker \ {w} : t \in Job => agent[v].job # t,
         \A k \in Job \ {t} : row'[k] = row[k] /\ proc'[k] = proc[k],
         t \in Job => /\ row[t].status \in Taken \cup {"queued"}
                      /\ row'[t].status \notin {"absent", "queued"}
                      /\ row'[t].status \in {"completed", "failed"} => proc'[t] = "ended"
                      /\ proc[t] # "none" /\ proc'[t] # proc[t] => proc'[t] \in Gone
                      /\ proc'[t] = "left" => \/ agent'[w].stopping
                                              \/ proc[t] = "left" /\ agent[w].job = t,
         p \in Jobless => j = NoJob,
         p \notin Jobless => j = t /\ t \in Job /\ row'[t].status \in Taken,
         p \in StatusSeen => agent'[w].saw.status \in Taken,
         p \in Preparing => proc'[t] = "none",
         p \in Launched => proc'[t] # "none",
         p \in Ended => proc'[t] \in Gone
  PROVE  IInv' /\ Once /\ Stays
<1>1. TypeOK'
  BY TypeParts DEF IInv, AgentMoved, ManagerTypeOK
<1>2. ManagersHaveJob'
  BY DEF IInv, ManagersHaveJob
<1>3. /\ agent'[w].at = p /\ agent'[w].job = j
      /\ \A v \in Worker \ {w} : agent'[v] = agent[v]
  BY DEF AgentMoved
<1>4. ASSUME NEW v \in Worker \ {w}, agent[v].at \notin Jobless
      PROVE  /\ agent[v].job \in Job /\ agent[v].job # t
             /\ row'[agent[v].job] = row[agent[v].job]
             /\ proc'[agent[v].job] = proc[agent[v].job]
  BY <1>4, NoJobIsNone DEF IInv, AgentsHaveJob
<1>5. AgentsHaveJob'
  <2>1. ASSUME NEW v \in Worker, agent'[v].at \in Jobless PROVE agent'[v].job = NoJob
    BY <1>3, <2>1 DEF IInv, AgentsHaveJob
  <2>2. ASSUME NEW v \in Worker, agent'[v].at \notin Jobless
        PROVE  agent'[v].job \in Job /\ row'[agent'[v].job].status \in Taken
    BY <1>3, <1>4, <2>2 DEF IInv, AgentsHaveJob
  <2>3. ASSUME NEW v \in Worker, agent'[v].at \notin Jobless, NEW u \in Worker \ {v}
        PROVE  agent'[u].job # agent'[v].job
    <3>1. CASE v = w
      BY <1>3, <2>3, <3>1
    <3>2. CASE v # w /\ u # w
      BY <1>3, <2>3, <3>2 DEF IInv, AgentsHaveJob
    <3>3. CASE v # w /\ u = w
      <4>1. agent[v].job \in Job /\ agent[v].job # t
        BY <1>3, <1>4, <2>3, <3>3
      <4> QED
        BY <1>3, <3>3, <4>1, NoJobIsNone
    <3> QED
      BY <3>1, <3>2, <3>3
  <2> QED
    BY <2>1, <2>2, <2>3 DEF AgentsHaveJob
<1>6. SawTaken'
  BY <1>3 DEF IInv, SawTaken
<1>7. ProcessesFit'
  <2>1. \A k \in Job : row'[k].status \in {"absent", "queued"} => proc'[k] = "none"
    BY DEF IInv, ProcessesFit
  <2>2. \A k \in Job : row'[k].status \in {"completed", "failed"} => proc'[k] = "ended"
    BY DEF IInv, ProcessesFit
  <2>3. ASSUME NEW v \in Worker
        PROVE  /\ agent'[v].at \in Preparing => proc'[agent'[v].job] = "none"
               /\ agent'[v].at \in Launched => proc'[agent'[v].job] # "none"
               /\ agent'[v].at \in Ended => proc'[agent'[v].job] \in Gone
    <3>1. CASE v = w
      BY <1>3, <3>1 DEF Jobless, Preparing, Launched, Ended
    <3>2. CASE v # w
      <4>1. agent[v].at \in Preparing \cup Launched \cup Ended => agent[v].at \notin Jobless
        BY DEF Jobless, Preparing, Launched, Ended
      <4> QED
        BY <1>3, <1>4, <3>2, <4>1 DEF IInv, ProcessesFit
    <3> QED
      BY <3>1, <3>2
  <2> QED
    BY <2>1, <2>2, <2>3 DEF ProcessesFit
<1>8. Once /\ Stays
  BY DEF Once, Stays, Taken, Gone
<1>9. LeftStops'
  <2> SUFFICES ASSUME NEW v \in Worker, agent'[v].at \notin Jobless,
                      proc'[agent'[v].job] = "left"
               PROVE  agent'[v].stopping
    BY DEF LeftStops
  <2>1. CASE v = w
    <3>1. j = t /\ t \in Job /\ j # NoJob
      BY <1>3, <2>1, NoJobIsNone
    <3>2. CASE proc[t] = "left" /\ agent[w].job = t
      <4>1. agent[w].at \notin Jobless
        BY <3>1, <3>2 DEF IInv, AgentsHaveJob
      <4> QED
        BY <2>1, <3>1, <3>2, <4>1 DEF IInv, LeftStops, AgentMoved
    <3> QED
      BY <1>3, <2>1, <3>1, <3>2
  <2>2. CASE v # w
    BY <1>3, <1>4, <2>2 DEF IInv, LeftStops
  <2> QED
    BY <2>1, <2>2
<1> QED
  BY <1>1, <1>2, <1>5, <1>6, <1>7, <1>8, <1>9 DEF IInv

(* A step of manager m, which touches at most job t.                       *)
LEMMA ManagerStepKeeps ==
  ASSUME IInv, NEW m \in Manager, NEW p, NEW j, ManagerMoved(m, p, j),
         p \in {"stop", "drop", "mark", "read", "cancel", "pack"} => j \in Job,
         agent' = agent, proc' = proc, RowTypeOK',
         NEW t, \A k \in Job \ {t} : row'[k] = row[k],
         t \in Job =>
           \/ row'[t].status = row[t].status
           \/ /\ row'[t].status \in {"stopped", "cancel_requested"}
              /\ manager[m].at \in {"drop", "cancel"} /\ manager[m].job = t
           \/ row[t].status = "absent" /\ row'[t].status = "queued"
  PROVE  IInv' /\ Once /\ Stays
<1>1. TypeOK'
  BY TypeParts DEF IInv, ManagerMoved, AgentTypeOK, ProcTypeOK
<1>2. ManagersHaveJob'
  BY DEF IInv, ManagersHaveJob, ManagerMoved
<1>3. ASSUME NEW k \in Job
      PROVE  /\ row[k].status \in Taken => row'[k].status \in Taken
             /\ row'[k].status \in {"absent", "queued"} =>
                  row[k].status \in {"absent", "queued"}
             /\ row'[k].status \in {"completed", "failed"} =>
                  row[k].status = row'[k].status
  BY DEF Taken
<1>4. AgentsHaveJob' /\ SawTaken'
  BY <1>3 DEF IInv, AgentsHaveJob, SawTaken
<1>5. ProcessesFit' /\ LeftStops'
  BY <1>3 DEF IInv, ProcessesFit, LeftStops
<1>6. Once /\ Stays
  BY <1>3 DEF Once, Stays
<1> QED
  BY <1>1, <1>2, <1>4, <1>5, <1>6 DEF IInv

-----------------------------------------------------------------------------
(* The steps.                                                              *)
LEMMA Types ==
  ASSUME IInv
  PROVE  RowTypeOK /\ ManagerTypeOK /\ AgentTypeOK /\ ProcTypeOK
BY TypeParts DEF IInv

(* What an agent with a job knows.                                         *)
LEMMA AtWork ==
  ASSUME IInv, NEW w \in Worker, agent[w].at \notin Jobless
  PROVE  /\ agent[w].job \in Job /\ row[agent[w].job].status \in Taken
         /\ row[agent[w].job].status \in Status /\ row[agent[w].job].stop \in BOOLEAN
         /\ agent[w].saw.stop \in BOOLEAN
         /\ \A v \in Worker \ {w} : agent[v].job # agent[w].job
BY Types DEF IInv, AgentsHaveJob, RowTypeOK, RowRec, AgentTypeOK, AgentRec, Saw

(* A request of an agent that changes nothing on the server: it keeps its  *)
(* job, ...                                                                *)
LEMMA QuietAgent ==
  ASSUME IInv, NEW w \in Worker, agent[w].at \in Launched,
         NEW p \in Launched, AgentMoved(w, p, agent[w].job),
         UNCHANGED <<row, manager, proc>>,
         p \in StatusSeen => agent'[w].saw.status \in Taken,
         p \in Ended => proc[agent[w].job] \in Gone
  PROVE  IInv' /\ Once /\ Stays
<1>1. agent[w].at \notin Jobless /\ p \notin Jobless /\ p \notin Preparing
  BY DEF Launched, Ended, Jobless, Preparing
<1>2. proc[agent[w].job] # "none"
  BY DEF IInv, ProcessesFit
<1>3. RowTypeOK' /\ ProcTypeOK'
  BY Types DEF RowTypeOK, ProcTypeOK
<1>4. /\ agent[w].job \in Job /\ row[agent[w].job].status \in Taken
      /\ \A v \in Worker \ {w} : agent[v].job # agent[w].job
  BY <1>1, AtWork
<1>5. row[agent[w].job].status \notin {"absent", "queued", "completed", "failed"}
  BY <1>4 DEF Taken
<1> QED
  BY <1>1, <1>2, <1>3, <1>4, <1>5, AgentStepKeeps

(* ... or has none afterwards.                                             *)
LEMMA JoblessAgent ==
  ASSUME IInv, NEW w \in Worker, NEW p \in Jobless, AgentMoved(w, p, NoJob),
         UNCHANGED <<row, manager, proc>>
  PROVE  IInv' /\ Once /\ Stays
<1>1. RowTypeOK' /\ ProcTypeOK'
  BY Types DEF RowTypeOK, ProcTypeOK
<1>2. p \notin StatusSeen /\ p \notin Preparing /\ p \notin Launched /\ p \notin Ended
  BY DEF Jobless, Preparing, StatusSeen, Launched, Ended
<1> QED
  BY <1>1, <1>2, NoJobIsNone, AgentStepKeeps

(* A manager that changes no row.                                          *)
LEMMA QuietManager ==
  ASSUME IInv, NEW m \in Manager, NEW p, NEW j, ManagerMoved(m, p, j), OnlyManager,
         p \in {"stop", "drop", "mark", "read", "cancel", "pack"} => j \in Job
  PROVE  IInv' /\ Once /\ Stays
<1>1. RowTypeOK'
  BY Types DEF RowTypeOK, OnlyManager
<1> QED
  BY <1>1, ManagerStepKeeps DEF OnlyManager

LEMMA StartKeeps ==
  ASSUME IInv, NEW m \in Manager, NEW s \in Service, NEW w \in Worker, Start(m, s, w)
  PROVE  IInv' /\ Once /\ Stays
<1>1. CASE \E j \in JobsOf(s) : manager' = [manager EXCEPT ![m] =
             [at |-> "stop", job |-> j, service |-> s, worker |-> w, saw |-> FALSE]]
  <2>1. PICK j \in Job : manager' = [manager EXCEPT ![m] =
             [at |-> "stop", job |-> j, service |-> s, worker |-> w, saw |-> FALSE]]
    BY <1>1 DEF JobsOf, Created
  <2>2. ManagerMoved(m, "stop", j)
    BY <2>1, Types, ManagerStarts
  <2> QED
    BY <2>2, QuietManager DEF Start
<1>2. CASE manager' = [manager EXCEPT ![m] =
             [at |-> "create", job |-> NoJob, service |-> s, worker |-> w, saw |-> FALSE]]
  <2>1. ManagerMoved(m, "create", NoJob)
    BY <1>2, Types, ManagerStarts
  <2> QED
    BY <2>1, QuietManager DEF Start
<1> QED
  BY <1>1, <1>2 DEF Start

LEMMA StopKeeps ==
  ASSUME IInv, NEW m \in Manager, NEW s \in Service, Stop(m, s)
  PROVE  IInv' /\ Once /\ Stays
<1>1. PICK j \in Job :
        manager' = [manager EXCEPT ![m] = [IdleManager EXCEPT !.at = "stop", !.job = j]]
  BY DEF Stop, JobsOf, Created
<1>2. ManagerMoved(m, "stop", j)
  BY <1>1, Types, ManagerStops
<1> QED
  BY <1>2, QuietManager DEF Stop

LEMMA ManagerKeeps ==
  ASSUME IInv, NEW m \in Manager, ManagerStep(m)
  PROVE  IInv' /\ Once /\ Stays
<1> USE Types
<1> DEFINE t == manager[m].job
<1>t. /\ manager[m].at \in {"stop", "drop", "mark", "read", "cancel", "pack"} => t \in Job
      /\ t \in Job => row[t].stop \in BOOLEAN
      /\ manager[m].saw \in BOOLEAN
  BY DEF IInv, ManagersHaveJob, RowTypeOK, RowRec, ManagerTypeOK, ManagerRec
<1>1. CASE DecideStop(m)
  <2>1. \E p \in {"drop", "mark"} : ManagerMoved(m, p, t)
    BY <1>1, ManagerGoes DEF DecideStop, ManagerPlace
  <2> QED
    BY <1>1, <1>t, <2>1, QuietManager DEF DecideStop, ManagerAt
<1>2. CASE DropQueued(m)
  <2>1. manager[m].at = "drop" /\ agent' = agent /\ proc' = proc
    BY <1>2 DEF DropQueued, ManagerAt
  <2>2. RowSet(t, "stopped")
    BY <1>2, <1>t, <2>1, WritesRow DEF DropQueued, Status, Final
  <2>3. PICK p \in {"idle", "create"} : ManagerMoved(m, p, NoJob)
    BY <1>2, ManagerHasStopped DEF DropQueued
  <2> QED
    BY <2>1, <2>2, <2>3, ManagerStepKeeps DEF RowSet
<1>3. CASE MarkStop(m)
  <2>1. t \in Job /\ agent' = agent /\ proc' = proc
    BY <1>3, <1>t DEF MarkStop, ManagerAt
  <2>2. RowSet(t, row[t].status)
    BY <1>3, <2>1, MarksRow DEF MarkStop
  <2>3. ManagerMoved(m, "read", t)
    BY <1>3, ManagerGoes DEF MarkStop, ManagerPlace
  <2> QED
    BY <2>1, <2>2, <2>3, ManagerStepKeeps DEF RowSet
<1>4. CASE ReadForCancel(m)
  <2>1. t \in Job /\ row[t].stop \in BOOLEAN
    BY <1>4, <1>t DEF ReadForCancel, ManagerAt
  <2>2. ManagerMoved(m, "cancel", t)
    BY <1>4, <2>1, ManagerSees DEF ReadForCancel
  <2> QED
    BY <1>4, <2>1, <2>2, QuietManager DEF ReadForCancel
<1>5. CASE WriteCancel(m)
  <2>1. manager[m].at = "cancel" /\ agent' = agent /\ proc' = proc
    BY <1>5 DEF WriteCancel, ManagerAt
  <2>2. RowSet(t, "cancel_requested")
    BY <1>5, <1>t, <2>1, WritesRow DEF WriteCancel, Status, Active
  <2>3. PICK p \in {"idle", "create"} : ManagerMoved(m, p, NoJob)
    BY <1>5, ManagerHasStopped DEF WriteCancel
  <2> QED
    BY <2>1, <2>2, <2>3, ManagerStepKeeps DEF RowSet
<1>6. CASE CreateJob(m)
  <2>1. PICK j \in Job \ Created :
          /\ row' = [row EXCEPT ![j] = [status |-> "queued", stop |-> FALSE,
                       worker |-> manager[m].worker, service |-> manager[m].service,
                       packed |-> FALSE]]
          /\ manager' = [manager EXCEPT ![m].at = "pack", ![m].job = j]
    BY <1>6 DEF CreateJob
  <2>2. /\ manager[m].worker \in Worker \cup {NoWorker}
        /\ manager[m].service \in Service \cup {NoService}
    BY DEF ManagerTypeOK, ManagerRec
  <2>3. RowSet(j, "queued")
    BY <2>1, <2>2, CreatesRow
  <2>4. ManagerMoved(m, "pack", j)
    BY <2>1, ManagerCreates
  <2>5. row[j].status = "absent" /\ agent' = agent /\ proc' = proc
    BY <1>6, <2>1 DEF Created, CreateJob
  <2> QED
    BY <2>3, <2>4, <2>5, ManagerStepKeeps DEF RowSet
<1>7. CASE PackArtifact(m)
  <2>1. t \in Job /\ agent' = agent /\ proc' = proc
    BY <1>7, <1>t DEF PackArtifact, ManagerAt
  <2>2. RowSet(t, row[t].status)
    BY <1>7, <2>1, PacksRow DEF PackArtifact
  <2>3. ManagerMoved(m, "idle", NoJob)
    BY <1>7, ManagerRests DEF PackArtifact
  <2> QED
    BY <2>1, <2>2, <2>3, ManagerStepKeeps DEF RowSet
<1>8. CASE StartFails(m)
  <2>1. ManagerMoved(m, "idle", NoJob)
    BY <1>8, ManagerRests DEF StartFails
  <2> QED
    BY <1>8, <2>1, QuietManager DEF StartFails
<1> QED
  BY <1>1, <1>2, <1>3, <1>4, <1>5, <1>6, <1>7, <1>8 DEF ManagerStep

LEMMA ClaimKeeps ==
  ASSUME IInv, NEW w \in Worker, Claim(w)
  PROVE  IInv' /\ Once /\ Stays
<1> USE Types
<1>1. agent[w].job = NoJob /\ UNCHANGED <<manager, proc>>
  BY DEF Claim, AgentAt, IInv, AgentsHaveJob, Jobless
<1>2. CASE AgentGoto(w, "idle") /\ UNCHANGED row
  <2>1. AgentMoved(w, "idle", NoJob)
    BY <1>1, <1>2, Goes DEF Place
  <2> QED
    BY <1>1, <1>2, <2>1, JoblessAgent DEF Jobless
<1>3. CASE \E j \in QueuedFor(w) :
             /\ row' = [row EXCEPT ![j].status = "claimed"]
             /\ agent' = [agent EXCEPT ![w].at = "fetch", ![w].job = j]
  <2>1. PICK j \in QueuedFor(w) :
             /\ row' = [row EXCEPT ![j].status = "claimed"]
             /\ agent' = [agent EXCEPT ![w].at = "fetch", ![w].job = j]
    BY <1>3
  <2>2. j \in Job /\ row[j].status = "queued"
    BY DEF QueuedFor
  <2>3. AgentMoved(w, "fetch", j)
    BY <2>1, <2>2, Takes
  <2>4. RowSet(j, "claimed")
    BY <2>1, <2>2, ClaimsRow
  <2>5. proc[j] = "none"
    BY <2>2 DEF IInv, ProcessesFit
  <2>6. \A v \in Worker : agent[v].job # j
    BY <2>2, NoJobIsNone DEF IInv, AgentsHaveJob, Taken
  <2>7. ProcTypeOK'
    BY <1>1 DEF ProcTypeOK
  <2>8. "fetch" \notin Jobless \cup StatusSeen \cup Launched \cup Ended /\ "claimed" \in Taken
    BY DEF Jobless, StatusSeen, Launched, Ended, Taken
  <2> QED
    BY <1>1, <2>2, <2>3, <2>4, <2>5, <2>6, <2>7, <2>8, AgentStepKeeps DEF RowSet
<1> QED
  BY <1>2, <1>3 DEF Claim

LEMMA FetchKeeps ==
  ASSUME IInv, NEW w \in Worker, Fetch(w)
  PROVE  IInv' /\ Once /\ Stays
<1> USE Types
<1> DEFINE t == agent[w].job
<1>1. UNCHANGED <<row, manager, proc>> /\ agent[w].at = "fetch"
  BY DEF Fetch, AgentAt, OnlyAgent
<1>2. t \in Job /\ row[t].status \in Taken /\ \A v \in Worker \ {w} : agent[v].job # t
  BY <1>1, AtWork DEF Jobless
<1>3. CASE AgentGoto(w, "build")
  <2>1. AgentMoved(w, "build", t)
    BY <1>3, Goes DEF Place
  <2>2. RowTypeOK' /\ ProcTypeOK' /\ proc[t] = "none"
    BY <1>1 DEF RowTypeOK, ProcTypeOK, IInv, ProcessesFit, Preparing
  <2>3. "build" \notin Jobless \cup StatusSeen \cup Launched \cup Ended
    BY DEF Jobless, StatusSeen, Launched, Ended
  <2>4. row[t].status \notin {"absent", "queued", "completed", "failed"}
    BY <1>2 DEF Taken
  <2> QED
    BY <1>1, <1>2, <2>1, <2>2, <2>3, <2>4, AgentStepKeeps
<1>4. CASE agent' = [agent EXCEPT ![w] = Agent("dead")]
  <2>1. AgentMoved(w, "dead", NoJob)
    BY <1>4, Resets DEF Place
  <2> QED
    BY <1>1, <2>1, JoblessAgent DEF Jobless
<1> QED
  BY <1>3, <1>4 DEF Fetch

LEMMA BuildKeeps ==
  ASSUME IInv, NEW w \in Worker, BuildCommand(w)
  PROVE  IInv' /\ Once /\ Stays
<1> USE Types
<1> DEFINE t == agent[w].job
<1>1. UNCHANGED <<row, manager>> /\ agent[w].at = "build"
  BY DEF BuildCommand, AgentAt
<1>2. t \in Job /\ row[t].status \in Taken /\ \A v \in Worker \ {w} : agent[v].job # t
  BY <1>1, AtWork DEF Jobless
<1>3. CASE proc' = [proc EXCEPT ![t] = "running"] /\ AgentGoto(w, "started")
  <2>1. AgentMoved(w, "started", t)
    BY <1>3, Goes DEF Place
  <2>2. ProcTypeOK' /\ proc'[t] = "running" /\ \A k \in Job \ {t} : proc'[k] = proc[k]
    BY <1>2, <1>3 DEF ProcTypeOK
  <2>3. RowTypeOK' /\ proc[t] = "none"
    BY <1>1 DEF RowTypeOK, IInv, ProcessesFit, Preparing
  <2>4. "started" \notin Jobless \cup Preparing \cup StatusSeen \cup Ended
    BY DEF Jobless, Preparing, StatusSeen, Ended
  <2>5. row[t].status \notin {"absent", "queued", "completed", "failed"}
    BY <1>2 DEF Taken
  <2> QED
    BY <1>1, <1>2, <2>1, <2>2, <2>3, <2>4, <2>5, AgentStepKeeps
<1>4. CASE agent' = [agent EXCEPT ![w] = Agent("dead")] /\ UNCHANGED proc
  <2>1. AgentMoved(w, "dead", NoJob)
    BY <1>4, Resets DEF Place
  <2> QED
    BY <1>1, <1>4, <2>1, JoblessAgent DEF Jobless
<1> QED
  BY <1>3, <1>4 DEF BuildCommand, StartProcess

(* An agent writes a status and goes on.                                   *)
LEMMA StatusKeeps ==
  ASSUME IInv, NEW w \in Worker, agent[w].at \in Launched, NEW s \in Taken,
         NEW b \in BOOLEAN, WriteRow(agent[w].job, s, b),
         NEW p \in Launched \ StatusSeen, AgentMoved(w, p, agent[w].job),
         UNCHANGED <<manager, proc>>,
         p \in Ended => agent[w].at \in Ended
  PROVE  IInv' /\ Once /\ Stays
<1> DEFINE t == agent[w].job
<1>1. agent[w].at \notin Jobless /\ p \notin Jobless /\ p \notin Preparing /\ s \in Status
  BY DEF Launched, Ended, Jobless, Preparing, Taken, Status, Active, Final
<1>2. t \in Job /\ row[t].status \in Taken /\ \A v \in Worker \ {w} : agent[v].job # t
  BY <1>1, AtWork
<1>3. RowSet(t, s)
  BY <1>1, <1>2, Types, WritesRow
<1>4. proc[t] # "none" /\ (p \in Ended => proc[t] \in Gone)
  BY DEF IInv, ProcessesFit
<1>5. ProcTypeOK'
  BY Types DEF ProcTypeOK
<1>6. s \notin {"absent", "queued", "completed", "failed"}
  BY DEF Taken
<1> QED
  BY <1>1, <1>2, <1>3, <1>4, <1>5, <1>6, AgentStepKeeps DEF RowSet

LEMMA ReportKeeps ==
  ASSUME IInv, NEW w \in Worker, Report(w)
  PROVE  IInv' /\ Once /\ Stays
<1> DEFINE t == agent[w].job
<1>1. agent[w].at = "report" /\ UNCHANGED <<manager, proc>>
  BY DEF Report, AgentAt
<1>2. t \in Job /\ row[t].status \in Taken /\ \A v \in Worker \ {w} : agent[v].job # t
  BY <1>1, AtWork DEF Jobless
<1>3. PICK s \in {"stopped", "completed", "failed"} :
        WriteRow(t, s, FALSE) /\ (agent[w].stopping => s = "stopped")
  BY DEF Report
<1>4. RowSet(t, s)
  BY <1>2, <1>3, Types, WritesRow DEF Status, Final
<1>5. AgentMoved(w, "idle", NoJob)
  BY Types, Resets DEF Report, Place
<1>6. proc[t] \in Gone /\ (proc[t] = "left" => agent[w].stopping) /\ ProcTypeOK'
  BY <1>1, Types DEF IInv, ProcessesFit, LeftStops, Jobless, Ended, ProcTypeOK
<1>a. s \in {"completed", "failed"} => proc[t] = "ended"
  BY <1>3, <1>6 DEF Gone
<1>7. "idle" \in Jobless /\ "idle" \notin Preparing \cup StatusSeen \cup Launched \cup Ended
  BY DEF Jobless, Preparing, StatusSeen, Launched, Ended
<1> QED
  BY <1>1, <1>2, <1>3, <1>4, <1>5, <1>6, <1>7, <1>a, AgentStepKeeps DEF RowSet

LEMMA BeatKeeps ==
  ASSUME IInv, NEW w \in Worker, HeartbeatBusy(w)
  PROVE  IInv' /\ Once /\ Stays
<1> USE Types
<1> DEFINE t == agent[w].job
<1>1. UNCHANGED <<row, manager>> /\ agent[w].at = "beat"
  BY DEF HeartbeatBusy, AgentAt
<1>2. "beat" \in Launched /\ "beat" \notin Jobless /\ "poll" \in Place /\
      "poll" \in Launched /\ "poll" \notin Jobless \cup Preparing \cup StatusSeen \cup Ended
  BY DEF Launched, Preparing, Jobless, StatusSeen, Ended, Place
<1>3. CASE AgentGoto(w, "poll") /\ UNCHANGED proc
  BY <1>1, <1>2, <1>3, Goes, QuietAgent
<1>4. CASE /\ \E end \in Gone : proc' = [proc EXCEPT ![t] = end]
           /\ agent' = [agent EXCEPT ![w].at = "poll", ![w].stopping = TRUE]
  <2>1. t \in Job /\ row[t].status \in Taken /\ \A v \in Worker \ {w} : agent[v].job # t
    BY <1>1, <1>2, AtWork
  <2>2. AgentMoved(w, "poll", t) /\ agent'[w].stopping
    BY <1>4, Stops
  <2>a. PICK end \in Gone : proc' = [proc EXCEPT ![t] = end]
    BY <1>4
  <2>3. ProcTypeOK' /\ proc'[t] \in Gone /\ \A k \in Job \ {t} : proc'[k] = proc[k]
    BY <2>a, <2>1 DEF ProcTypeOK, Gone
  <2>b. proc'[t] # "none"
    BY <2>3 DEF Gone
  <2>4. RowTypeOK' /\ row[t].status \notin {"absent", "queued", "completed", "failed"}
    BY <1>1, <2>1 DEF RowTypeOK, Taken
  <2> QED
    BY <1>1, <1>2, <2>1, <2>2, <2>3, <2>b, <2>4, AgentStepKeeps
<1> QED
  BY <1>3, <1>4 DEF HeartbeatBusy, Gone

LEMMA AgentKeeps ==
  ASSUME IInv, NEW w \in Worker, AgentStep(w)
  PROVE  IInv' /\ Once /\ Stays
<1> USE Types
<1>1. CASE HeartbeatIdle(w)
  <2>1. agent[w].job = NoJob /\ UNCHANGED <<row, manager, proc>>
    BY <1>1 DEF HeartbeatIdle, AgentAt, OnlyAgent, IInv, AgentsHaveJob, Jobless
  <2>2. AgentMoved(w, "claim", NoJob)
    BY <1>1, <2>1, Goes DEF HeartbeatIdle, Place
  <2> QED
    BY <2>1, <2>2, JoblessAgent DEF Jobless
<1>2. CASE ReadForRunning(w)
  <2>1. agent[w].at = "started" /\ UNCHANGED <<row, manager, proc>>
    BY <1>2 DEF ReadForRunning, AgentAt, OnlyAgent
  <2>2. row[agent[w].job].stop \in BOOLEAN
    BY <2>1, AtWork DEF Jobless
  <2>3. AgentMoved(w, "running", agent[w].job)
    BY <1>2, <2>2, SeesStop DEF ReadForRunning
  <2> QED
    BY <2>1, <2>3, QuietAgent DEF Launched, Ended, StatusSeen
<1>3. CASE WriteRunning(w)
  <2>1. agent[w].at = "running" /\ UNCHANGED <<manager, proc>>
    BY <1>3 DEF WriteRunning, AgentAt
  <2>2. agent[w].saw.stop \in BOOLEAN
    BY <2>1, AtWork DEF Jobless
  <2>3. AgentMoved(w, "poll", agent[w].job)
    BY <1>3, Forgets DEF WriteRunning, Place
  <2>4. /\ agent[w].at \in Launched /\ "running" \in Taken
        /\ "poll" \in Launched \ StatusSeen /\ "poll" \notin Ended
    BY <2>1 DEF Launched, Taken, StatusSeen, Ended
  <2> QED
    BY <1>3, <2>1, <2>2, <2>3, <2>4, StatusKeeps DEF WriteRunning
<1>4. CASE Poll(w)
  <2>1. agent[w].at = "poll" /\ UNCHANGED <<row, manager, proc>>
    BY <1>4 DEF Poll, AgentAt, OnlyAgent
  <2>2. agent[w].job \in Job /\ proc[agent[w].job] # "none"
    BY <2>1, AtWork DEF Jobless, IInv, ProcessesFit, Launched
  <2>3. PICK p \in {"drain", "last drain"} :
          /\ AgentGoto(w, p)
          /\ p = "last drain" => proc[agent[w].job] \in Gone
    BY <1>4, <2>2 DEF Poll, ProcTypeOK, Gone
  <2>4. AgentMoved(w, p, agent[w].job)
    BY <2>3, Goes DEF Place
  <2>5. /\ p \in Launched /\ p \notin StatusSeen /\ agent[w].at \in Launched
        /\ p \in Ended => p = "last drain"
    BY <2>1 DEF Launched, Ended, StatusSeen
  <2> QED
    BY <2>1, <2>3, <2>4, <2>5, QuietAgent
<1>5. CASE ReadForLog(w)
  <2> DEFINE p == IF agent[w].at = "log" THEN "log again" ELSE "last log again"
  <2>1. agent[w].at \in {"log", "last log"} /\ UNCHANGED <<row, manager, proc>>
    BY <1>5 DEF ReadForLog, AgentAt, OnlyAgent
  <2>2. row[agent[w].job].status \in Status \cap Taken
    BY <2>1, AtWork DEF Jobless
  <2>a. /\ agent' = [agent EXCEPT ![w].at = p, ![w].saw.status = row[agent[w].job].status]
        /\ p \in Place
    BY <1>5 DEF ReadForLog, Place
  <2>b. /\ AgentMoved(w, p, agent[w].job)
        /\ agent'[w].saw.status = row[agent[w].job].status
    BY <2>a, <2>2, SeesStatus, ZenonT(40)
  <2>3. AgentMoved(w, p, agent[w].job) /\ agent'[w].saw.status \in Taken
    BY <2>2, <2>b
  <2>4. /\ p \in Launched /\ agent[w].at \in Launched
        /\ p \in Ended => agent[w].at \in Ended
    BY <2>1 DEF Launched, Ended
  <2> QED
    BY <2>1, <2>3, <2>4, QuietAgent DEF IInv, ProcessesFit
<1>6. CASE ReadAgainForLog(w)
  <2> DEFINE p == IF agent[w].at = "log again" THEN "log write" ELSE "last log write"
  <2>1. agent[w].at \in {"log again", "last log again"} /\ UNCHANGED <<row, manager, proc>>
    BY <1>6 DEF ReadAgainForLog, AgentAt, OnlyAgent
  <2>2. row[agent[w].job].stop \in BOOLEAN
    BY <2>1, AtWork DEF Jobless
  <2>3. AgentMoved(w, p, agent[w].job) /\ agent'[w].saw.status = agent[w].saw.status
    BY <1>6, <2>2, SeesStopToo DEF ReadAgainForLog, Place
  <2>4. /\ p \in Launched /\ agent[w].at \in Launched /\ agent[w].at \in StatusSeen
        /\ p \in Ended => agent[w].at \in Ended
    BY <2>1 DEF Launched, Ended, StatusSeen
  <2> QED
    BY <2>1, <2>3, <2>4, QuietAgent DEF IInv, ProcessesFit, SawTaken
<1>7. CASE WriteLog(w)
  <2> DEFINE p == IF agent[w].at = "log write" THEN "beat" ELSE "report"
  <2>1. agent[w].at \in {"log write", "last log write"} /\ UNCHANGED <<manager, proc>>
    BY <1>7 DEF WriteLog, AgentAt
  <2>2. agent[w].saw.stop \in BOOLEAN /\ agent[w].saw.status \in Taken
    BY <2>1, AtWork DEF Jobless, IInv, SawTaken, StatusSeen
  <2>3. AgentMoved(w, p, agent[w].job)
    BY <1>7, Forgets DEF WriteLog, Place
  <2>4. /\ agent[w].at \in Launched /\ p \in Launched \ StatusSeen
        /\ p \in Ended => agent[w].at \in Ended
    BY <2>1 DEF Launched, StatusSeen, Ended
  <2> QED
    BY <1>7, <2>1, <2>2, <2>3, <2>4, StatusKeeps DEF WriteLog
<1> QED
  BY <1>1, <1>2, <1>3, <1>4, <1>5, <1>6, <1>7, ClaimKeeps, FetchKeeps, BuildKeeps, ReportKeeps,
    BeatKeeps DEF AgentStep

LEMMA DrainKeeps ==
  ASSUME IInv, NEW w \in Worker, Drained(w)
  PROVE  IInv' /\ Once /\ Stays
<1>1. PICK p \in {"log", "beat", "last log", "report"} :
        /\ AgentGoto(w, p)
        /\ p \in {"last log", "report"} => agent[w].at = "last drain"
  BY DEF Drained, AgentAt
<1>2. agent[w].at \in {"drain", "last drain"} /\ UNCHANGED <<row, manager, proc>>
  BY DEF Drained, AgentAt, OnlyAgent
<1>3. AgentMoved(w, p, agent[w].job)
  BY <1>1, Types, Goes DEF Place
<1>4. /\ p \in Launched /\ p \notin StatusSeen /\ agent[w].at \in Launched
      /\ p \in Ended => agent[w].at \in Ended
  BY <1>1, <1>2 DEF Launched, Ended, StatusSeen
<1> QED
  BY <1>2, <1>3, <1>4, QuietAgent DEF IInv, ProcessesFit

LEMMA CrashKeeps ==
  ASSUME IInv, NEW w \in Worker, Crash(w) \/ Restart(w)
  PROVE  IInv' /\ Once /\ Stays
<1>1. UNCHANGED <<row, manager, proc>>
  BY DEF Crash, Restart, OnlyAgent
<1>2. CASE Crash(w)
  BY <1>1, <1>2, Types, Resets, JoblessAgent DEF Crash, Place, Jobless
<1>3. CASE Restart(w)
  <2>1. agent[w].job = NoJob
    BY <1>3 DEF Restart, AgentAt, IInv, AgentsHaveJob, Jobless
  <2> QED
    BY <1>1, <1>3, <2>1, Types, Goes, JoblessAgent DEF Restart, Place, Jobless
<1> QED
  BY <1>2, <1>3

LEMMA ProcessKeeps ==
  ASSUME IInv, NEW j \in Job, ProcessEnds(j)
  PROVE  IInv' /\ Once /\ Stays
<1>1. /\ UNCHANGED <<row, manager, agent>> /\ proc[j] \in {"running", "left"}
      /\ proc' = [proc EXCEPT ![j] = "ended"]
  BY DEF ProcessEnds
<1>2. /\ ProcTypeOK' /\ proc'[j] = "ended"
      /\ \A k \in Job \ {j} : proc'[k] = proc[k]
  BY <1>1, Types DEF ProcTypeOK
<1>3. TypeOK' /\ ManagersHaveJob' /\ AgentsHaveJob' /\ SawTaken'
  BY <1>1, <1>2, Types, TypeParts DEF IInv, ManagersHaveJob, AgentsHaveJob, SawTaken,
    RowTypeOK, ManagerTypeOK, AgentTypeOK
<1>4. \A w \in Worker : agent[w].at \in Preparing => agent[w].job # j
  BY <1>1 DEF IInv, ProcessesFit
<1>5. \A w \in Worker : agent[w].at \in Preparing \cup Launched \cup Ended =>
        agent[w].job \in Job
  BY DEF IInv, AgentsHaveJob, Preparing, Launched, Ended, Jobless
<1>6. ProcessesFit'
  BY <1>1, <1>2, <1>4, <1>5 DEF IInv, ProcessesFit, Gone
<1>8. LeftStops'
  BY <1>1, <1>2 DEF IInv, LeftStops, AgentsHaveJob
<1>7. Once /\ Stays
  BY <1>1, <1>2 DEF Once, Stays
<1> QED
  BY <1>3, <1>6, <1>7, <1>8 DEF IInv

LEMMA NextInv == IInv /\ [Next]_vars => IInv' /\ Once /\ Stays
<1> SUFFICES ASSUME IInv, [Next]_vars PROVE IInv' /\ Once /\ Stays
  OBVIOUS
<1>1. CASE UNCHANGED vars
  <2>1. UNCHANGED <<row, manager, agent, proc>>
    BY <1>1 DEF vars
  <2>2. /\ TypeOK' /\ ManagersHaveJob' /\ AgentsHaveJob' /\ SawTaken'
        /\ ProcessesFit' /\ LeftStops'
    BY <2>1 DEF IInv, TypeOK, ManagersHaveJob, AgentsHaveJob, SawTaken, ProcessesFit, LeftStops
  <2> QED
    BY <2>1, <2>2 DEF IInv, Once, Stays
<1> QED
  BY <1>1, StartKeeps, StopKeeps, ManagerKeeps, AgentKeeps, DrainKeeps, CrashKeeps,
    ProcessKeeps
  DEF Next

LEMMA Invariance == SafeSpec => []IInv
<1>1. IInv /\ [Next]_vars => IInv'
  BY NextInv
<1> QED
  BY <1>1, InitInv, PTL DEF SafeSpec

(* The table, the handlers, the agents and the processes are well typed.   *)
THEOREM TypeCorrect == SafeSpec => []TypeOK
<1>1. IInv => TypeOK
  BY DEF IInv
<1> QED
  BY <1>1, Invariance, PTL

(* A job leaves the queue once and its process is started at most once,    *)
(* whatever is written back stale and whenever agents crash.               *)
THEOREM JobsRunOnce == SafeSpec => RunsOnce
<1>1. IInv /\ [Next]_vars => [Once]_vars
  BY NextInv
<1> QED
  BY <1>1, Invariance, PTL DEF SafeSpec, RunsOnce, Once

(* What is reported as completed or failed has ended, and only a stop      *)
(* request past its decision writes over the report.                       *)
THEOREM OutcomesAreReported == SafeSpec => ReportedOutcome
<1>1. IInv => \A j \in Job : row[j].status \in {"completed", "failed"} => proc[j] = "ended"
  BY DEF IInv, ProcessesFit
<1>2. IInv /\ [Next]_vars => [Stays]_vars
  BY NextInv
<1> QED
  BY <1>1, <1>2, Invariance, PTL DEF SafeSpec, ReportedOutcome, Stays

-----------------------------------------------------------------------------
(* Local mode.  The invariant speaks of the shapes of the state, of what   *)
(* overlapping requests have noted of each other, of the entries of the    *)
(* processes and of the ports that starts and processes know.              *)

Entry == [process: Processes \cup {0}, port: Ports \cup {0}, backend: Backends \cup {"none"}]

ProcessRecord ==
  [id: Processes, service: Services, port: Ports, backend: Backends,
   urls: [Services -> Ports], stale: SUBSET Services, left: BOOLEAN]

AtStart == {"network", "starting", "replacing", "launching"}
Handler ==
  [pc: {"idle", "stopping", "ending"} \cup AtStart, op: {"none", "start", "stop"},
   selected: SUBSET Services, cluster: Clusters \cup {0}, backend: Backends \cup {"none"},
   ports: [Services -> Ports \cup {0}], fresh: SUBSET Services, todo: SUBSET Services,
   now: SUBSET Services, old: Entry, missed: SUBSET Services]

HandlerFits(th) ==
  /\ th \in Handler
  /\ th.op = "start" <=> th.pc \in AtStart
  /\ th.op = "none" <=> th.pc = "idle"
  /\ th.op = "start" =>
       /\ th.cluster # 0 /\ th.ports \in [Services -> Ports] /\ th.backend \in Backends
       /\ th.todo \subseteq th.selected /\ th.now \subseteq th.selected
  /\ th.op # "start" => th.selected = {}
  /\ th.todo # {} => th.cluster # 0
  /\ th.old # NoEntry => th.pc \in {"replacing", "ending"}

LocalShapes ==
  /\ current \in Clusters \cup {0}
  /\ members \in [Clusters -> [Services -> Entry]]
  /\ alive \subseteq ProcessRecord
  /\ thread \in [Threads -> Handler]
  /\ \A t \in Threads : HandlerFits(thread[t])
  /\ raced \subseteq Services

\* What requests that overlap have noted of each other.
StopsRace ==
  \A t, u \in Threads : thread[t].op = "stop" => thread[u].selected \subseteq raced
StartsRace ==
  \A t, u \in Threads : t # u => thread[t].selected \cap thread[u].selected \subseteq raced
StartsTell ==
  \A t, u \in Threads :
    (t # u /\ thread[u].op = "start") => thread[t].selected \subseteq thread[u].missed

\* A start works on the cluster that can be found, and what a stop cannot see
\* there was started while it was under way.
StartsAtCurrent ==
  \A t \in Threads : thread[t].selected \subseteq raced \/ thread[t].cluster = current
StopsAtCurrent ==
  \A t \in Threads :
    (thread[t].op = "stop" /\ current # 0 /\ thread[t].cluster # current) =>
      \A s \in Services : members[current][s] # NoEntry => s \in raced

Overlaps == StopsRace /\ StartsRace /\ StartsTell /\ StartsAtCurrent /\ StopsAtCurrent

\* An entry, in its cluster or taken out of it, is of the process with its number.
EntriesTell ==
  \A p \in alive :
    /\ \A c \in Clusters, s \in Services :
         members[c][s].process = p.id =>
           s = p.service /\ members[c][s].port = p.port /\ ~p.left
    /\ \A t \in Threads :
         thread[t].old.process = p.id => p.service \in thread[t].now /\ ~p.left

\* The entry that is being replaced is gone and does not come back meanwhile.
ReplacedIsGone ==
  \A t \in Threads :
    thread[t].pc \in {"replacing", "launching"} =>
      \A s \in thread[t].now \ raced : members[thread[t].cluster][s] = NoEntry

Ours(p) == ~p.left /\ p.service \notin raced
HasEntry(p) ==
  \/ current # 0 /\ members[current][p.service].process = p.id
  \/ \E t \in Threads : thread[t].old.process = p.id
AllHaveEntries == \A p \in alive : Ours(p) => HasEntry(p)

\* The ports a start has chosen: of a service that ran when it chose them, the one
\* all others know, and of every service that runs, its own.
RunningKeepTheirs ==
  \A t \in Threads : \A s \in thread[t].selected \ (thread[t].fresh \cup raced) :
    \A p \in alive :
      (Ours(p) /\ p.service # s) => s \in p.stale \/ p.urls[s] = thread[t].ports[s]
StartsKnowRunning ==
  \A t \in Threads : \A q \in alive :
    (Ours(q) /\ ~(thread[t].selected \subseteq raced) /\ q.service \notin thread[t].missed) =>
      thread[t].ports[q.service] = q.port
PortsAgree == RunningKeepTheirs /\ StartsKnowRunning /\ PortsAreKnown

LocalInv ==
  /\ LocalShapes
  /\ Overlaps
  /\ EntriesTell
  /\ ReplacedIsGone
  /\ AllHaveEntries
  /\ PortsAgree

-----------------------------------------------------------------------------

SameRequest(n, th) ==
  /\ n.op = th.op /\ n.selected = th.selected /\ n.cluster = th.cluster
  /\ n.ports = th.ports /\ n.fresh = th.fresh /\ n.missed = th.missed

LEMMA NoEntryIsAnEntry == NoEntry \in Entry /\ NoEntry.process = 0
  BY DEF NoEntry, Entry

LEMMA RestFits ==
    /\ HandlerFits(Rest)
    /\ Rest.pc = "idle" /\ Rest.op = "none" /\ Rest.selected = {} /\ Rest.old = NoEntry
    /\ Rest.todo = {} /\ Rest.now = {}
  <1>1. PICK r : r = Rest
    OBVIOUS
  <1>2. /\ r.pc = "idle" /\ r.op = "none" /\ r.selected = {} /\ r.old = NoEntry
        /\ r.todo = {} /\ r.now = {}
    BY <1>1 DEF Rest
  <1>3. r \in Handler
    BY <1>1, NoEntryIsAnEntry DEF Rest, Handler, AtStart
  <1>4. HandlerFits(r)
    BY <1>2, <1>3 DEF HandlerFits, AtStart
  <1> QED BY <1>1, <1>2, <1>4

LEMMA NumbersOfProcesses ==
    ASSUME LocalShapes, NEW p \in alive
    PROVE  p.id \in Processes /\ p.id # 0 /\ p.service \in Services
  BY LocalAssumption DEF LocalShapes, ProcessRecord

\* A handler goes on with its request or ends it.
Moves(n, th) == SameRequest(n, th) \/ n = Rest

LEMMA RequestsStay ==
    ASSUME StopsRace, StartsRace, StartsTell, raced' = raced,
           \A t \in Threads : Moves(thread'[t], thread[t])
    PROVE  StopsRace' /\ StartsRace' /\ StartsTell'
  <1>1. \A t \in Threads : \/ /\ thread'[t].op = thread[t].op
                              /\ thread'[t].selected = thread[t].selected
                              /\ thread'[t].missed = thread[t].missed
                           \/ thread'[t].op = "none" /\ thread'[t].selected = {}
    BY RestFits DEF Moves, SameRequest
  <1>2. StopsRace'
    BY <1>1 DEF StopsRace
  <1>3. StartsRace'
    BY <1>1 DEF StartsRace
  <1>4. StartsTell'
    BY <1>1 DEF StartsTell
  <1> QED BY <1>2, <1>3, <1>4

\* Steps that start nothing: no process and no entry is added, no request begins.
LEMMA QuietOverlaps ==
    ASSUME Overlaps, raced' = raced, current' = current \/ current' = 0,
           current' = 0 => \A t \in Threads : thread'[t].selected \subseteq raced \/ current = 0,
           \A t \in Threads : Moves(thread'[t], thread[t]),
           \A c \in Clusters, s \in Services : members'[c][s] \in {members[c][s], NoEntry},
           current \in Clusters \cup {0}
    PROVE  Overlaps'
  <1>1. \A t \in Threads : \/ /\ thread'[t].op = thread[t].op
                              /\ thread'[t].selected = thread[t].selected
                              /\ thread'[t].cluster = thread[t].cluster
                           \/ thread'[t].op = "none" /\ thread'[t].selected = {}
    BY RestFits DEF Moves, SameRequest
  <1>2. StopsRace' /\ StartsRace' /\ StartsTell'
    BY RequestsStay DEF Overlaps
  <1>3. StartsAtCurrent'
    BY <1>1 DEF Overlaps, StartsAtCurrent
  <1>4. StopsAtCurrent'
    BY <1>1 DEF Overlaps, StopsAtCurrent
  <1> QED BY <1>2, <1>3, <1>4 DEF Overlaps

\* q is the process p, with perhaps more known of it.
SameProcess(p, q) ==
  /\ q.id = p.id /\ q.service = p.service /\ q.port = p.port /\ q.urls = p.urls
  /\ q.left = p.left /\ p.stale \subseteq q.stale

LEMMA QuietPorts ==
    ASSUME PortsAgree, raced \subseteq raced',
           \A t \in Threads : Moves(thread'[t], thread[t]),
           \A q \in alive' : \E p \in alive : SameProcess(p, q)
    PROVE  PortsAgree'
  <1>1. \A t \in Threads : \/ /\ thread'[t].selected = thread[t].selected
                              /\ thread'[t].fresh = thread[t].fresh
                              /\ thread'[t].missed = thread[t].missed
                              /\ thread'[t].ports = thread[t].ports
                           \/ thread'[t].selected = {}
    BY RestFits DEF Moves, SameRequest
  <1>2. RunningKeepTheirs'
    <2> SUFFICES ASSUME NEW t \in Threads, NEW s \in thread'[t].selected \ (thread'[t].fresh \cup raced'),
                        NEW q \in alive', Ours(q)', q.service # s
                 PROVE  s \in q.stale \/ q.urls[s] = thread'[t].ports[s]
      BY DEF RunningKeepTheirs
    <2>1. PICK p \in alive : SameProcess(p, q)
      OBVIOUS
    <2>2. Ours(p) /\ p.service # s
      BY <2>1 DEF Ours, SameProcess
    <2>3. s \in p.stale \/ p.urls[s] = thread[t].ports[s]
      BY <1>1, <2>2 DEF PortsAgree, RunningKeepTheirs
    <2> QED BY <1>1, <2>1, <2>3 DEF SameProcess
  <1>3. StartsKnowRunning'
    <2> SUFFICES ASSUME NEW t \in Threads, NEW q \in alive', Ours(q)',
                        ~(thread'[t].selected \subseteq raced'), q.service \notin thread'[t].missed
                 PROVE  thread'[t].ports[q.service] = q.port
      BY DEF StartsKnowRunning
    <2>1. PICK p \in alive : SameProcess(p, q)
      OBVIOUS
    <2>2. Ours(p)
      BY <2>1 DEF Ours, SameProcess
    <2>3. thread[t].ports[p.service] = p.port
      BY <1>1, <2>1, <2>2 DEF PortsAgree, StartsKnowRunning, SameProcess
    <2> QED BY <1>1, <2>1, <2>3 DEF SameProcess
  <1>4. PortsAreKnown'
    <2> SUFFICES ASSUME NEW p \in alive', NEW q \in alive', p.service # q.service,
                        {p.service, q.service} \intersect raced' = {},
                        ~p.left, ~q.left, q.service \notin p.stale
                 PROVE  p.urls[q.service] = q.port
      BY DEF PortsAreKnown
    <2>1. PICK pp \in alive : SameProcess(pp, p)
      OBVIOUS
    <2>2. PICK qq \in alive : SameProcess(qq, q)
      OBVIOUS
    <2>3. /\ pp.service # qq.service /\ {pp.service, qq.service} \intersect raced = {}
          /\ ~pp.left /\ ~qq.left /\ qq.service \notin pp.stale
      BY <2>1, <2>2 DEF SameProcess
    <2>4. pp.urls[qq.service] = qq.port
      BY <2>3 DEF PortsAgree, PortsAreKnown
    <2> QED BY <2>1, <2>2, <2>4 DEF SameProcess
  <1> QED BY <1>2, <1>3, <1>4 DEF PortsAgree

\* Where the entry that a handler is to stop comes from.
OldTold(t) ==
  \/ thread'[t].old = NoEntry
  \/ thread'[t].old = thread[t].old /\ thread'[t].now = thread[t].now
  \/ \E c \in Clusters, s \in Services :
        thread'[t].old = members[c][s] /\ s \in thread'[t].now

LEMMA QuietEntries ==
    ASSUME LocalShapes, EntriesTell, alive' \subseteq alive,
           \A c \in Clusters, s \in Services : members'[c][s] \in {members[c][s], NoEntry},
           \A t \in Threads : OldTold(t)
    PROVE  EntriesTell'
  <1> SUFFICES ASSUME NEW p \in alive'
               PROVE  /\ \A c \in Clusters, s \in Services :
                           members'[c][s].process = p.id =>
                             s = p.service /\ members'[c][s].port = p.port /\ ~p.left
                      /\ \A t \in Threads :
                           thread'[t].old.process = p.id => p.service \in thread'[t].now /\ ~p.left
    BY DEF EntriesTell
  <1>1. p \in alive /\ p.id # 0
    BY NumbersOfProcesses
  <1>2. ASSUME NEW c \in Clusters, NEW s \in Services, members'[c][s].process = p.id
        PROVE  s = p.service /\ members'[c][s].port = p.port /\ ~p.left
    <2>1. members'[c][s] = members[c][s]
      BY <1>1, <1>2, NoEntryIsAnEntry
    <2> QED BY <1>1, <1>2, <2>1 DEF EntriesTell
  <1>3. ASSUME NEW t \in Threads, thread'[t].old.process = p.id
        PROVE  p.service \in thread'[t].now /\ ~p.left
    BY <1>1, <1>3, NoEntryIsAnEntry DEF EntriesTell, OldTold
  <1> QED BY <1>2, <1>3

\* A step of the request that starts nothing.
LEMMA QuietStep ==
    ASSUME LocalInv, LocalShapes', raced' = raced, current' = current,
           \A t \in Threads : thread'[t] = thread[t] \/ Moves(thread'[t], thread[t]),
           \A t \in Threads : OldTold(t),
           \A c \in Clusters, s \in Services : members'[c][s] \in {members[c][s], NoEntry},
           alive' \subseteq alive,
           AllHaveEntries',
           \A t \in Threads : thread'[t] = thread[t] \/ thread'[t].pc \notin {"replacing", "launching"}
                \/ \A s \in thread'[t].now \ raced : members'[thread'[t].cluster][s] = NoEntry
    PROVE  LocalInv'
  <1>1. \A t \in Threads : Moves(thread'[t], thread[t])
    BY DEF Moves, SameRequest
  <1>2. Overlaps'
    <2>1. current' = 0 => \A t \in Threads : thread'[t].selected \subseteq raced \/ current = 0
      OBVIOUS
    <2>2. current \in Clusters \cup {0}
      BY DEF LocalInv, LocalShapes
    <2> QED BY <1>1, <2>1, <2>2, QuietOverlaps DEF LocalInv
  <1>3. EntriesTell'
    BY QuietEntries DEF LocalInv
  <1>4. PortsAgree'
    <2>1. \A q \in alive' : \E p \in alive : SameProcess(p, q)
      BY DEF SameProcess
    <2> QED BY <1>1, <2>1, QuietPorts DEF LocalInv
  <1>5. ReplacedIsGone'
    <2> SUFFICES ASSUME NEW t \in Threads, thread'[t] = thread[t],
                        thread'[t].pc \in {"replacing", "launching"},
                        NEW s \in thread'[t].now \ raced
                 PROVE  members'[thread'[t].cluster][s] = NoEntry
      BY DEF ReplacedIsGone
    <2>1. members[thread[t].cluster][s] = NoEntry
      BY DEF LocalInv, ReplacedIsGone
    <2>2. HandlerFits(thread[t])
      BY DEF LocalInv, LocalShapes
    <2>3. thread[t].cluster \in Clusters /\ s \in Services
      BY <2>2 DEF HandlerFits, Handler, AtStart
    <2> QED BY <2>1, <2>3
  <1> QED BY <1>2, <1>3, <1>4, <1>5 DEF LocalInv

-----------------------------------------------------------------------------
(* The steps that start nothing.                                           *)

LEMMA OneHandler ==
    ASSUME LocalShapes, NEW t \in Threads, NEW n, HandlerFits(n),
           thread' = [thread EXCEPT ![t] = n],
           current' = current, raced' = raced,
           members' \in [Clusters -> [Services -> Entry]],
           alive' \subseteq ProcessRecord
    PROVE  LocalShapes'
  <1>1. n \in Handler
    BY DEF HandlerFits
  <1>2. thread' \in [Threads -> Handler]
    BY <1>1 DEF LocalShapes
  <1>3. ASSUME NEW u \in Threads PROVE HandlerFits(thread'[u])
    BY <1>3 DEF LocalShapes
  <1> QED BY <1>2, <1>3 DEF LocalShapes, HandlerFits

\* A process keeps its entry when one handler goes on and nothing is taken out.
LEMMA EntriesStay ==
    ASSUME LocalInv, raced' = raced, current' = current, members' = members,
           alive' \subseteq alive,
           NEW t \in Threads,
           \A u \in Threads \ {t} : thread'[u] = thread[u],
           \A p \in alive' : thread[t].old.process = p.id => thread'[t].old = thread[t].old
    PROVE  AllHaveEntries'
  <1> SUFFICES ASSUME NEW p \in alive', Ours(p)' PROVE HasEntry(p)'
    BY DEF AllHaveEntries
  <1>1. p \in alive /\ HasEntry(p)
    BY DEF Ours, LocalInv, AllHaveEntries
  <1>2. CASE current # 0 /\ members[current][p.service].process = p.id
    BY <1>2 DEF HasEntry
  <1>3. ASSUME NEW u \in Threads, thread[u].old.process = p.id PROVE HasEntry(p)'
    <2>1. thread'[u].old = thread[u].old
      BY <1>3
    <2> QED BY <1>3, <2>1 DEF HasEntry
  <1> QED BY <1>1, <1>2, <1>3 DEF HasEntry

\* A handler that only goes on, with no entry to stop before and after.
LEMMA PlainStep ==
    ASSUME LocalInv, NEW t \in Threads, NEW n, HandlerFits(n), Moves(n, thread[t]),
           n.pc \notin {"replacing", "launching"},
           n.old = NoEntry, thread[t].old = NoEntry,
           thread' = [thread EXCEPT ![t] = n],
           UNCHANGED <<current, members, alive, raced>>
    PROVE  LocalInv'
  <1>1. thread'[t] = n /\ \A u \in Threads \ {t} : thread'[u] = thread[u]
    BY DEF LocalInv, LocalShapes
  <1>2. LocalShapes'
    BY OneHandler DEF LocalInv, LocalShapes
  <1>3. AllHaveEntries'
    BY <1>1, EntriesStay
  <1>4. \A u \in Threads : thread'[u] = thread[u] \/ Moves(thread'[u], thread[u])
    BY <1>1
  <1>5. \A u \in Threads : OldTold(u)
    BY <1>1 DEF OldTold
  <1>6. \A u \in Threads : thread'[u] = thread[u] \/ thread'[u].pc \notin {"replacing", "launching"}
                \/ \A s \in thread'[u].now \ raced : members'[thread'[u].cluster][s] = NoEntry
    BY <1>1
  <1> QED BY <1>2, <1>3, <1>4, <1>5, <1>6, QuietStep

LEMMA OneHandlerFits ==
    ASSUME LocalInv, NEW t \in Threads
    PROVE  HandlerFits(thread[t]) /\ thread[t] \in Handler
  BY DEF LocalInv, LocalShapes, HandlerFits

LEMMA NetworkKeeps ==
    ASSUME LocalInv, NEW t \in Threads, NEW ok \in BOOLEAN, EnsureNetwork(t, ok)
    PROVE  LocalInv'
  <1> PICK th : th = thread[t]
    OBVIOUS
  <1>1. HandlerFits(th) /\ th \in Handler /\ th.pc = "network"
    BY OneHandlerFits DEF EnsureNetwork
  <1>2. th.old = NoEntry /\ th.op = "start"
    BY <1>1 DEF HandlerFits, AtStart
  <1>3. PICK go : go = [th EXCEPT !.pc = "starting"]
    OBVIOUS
  <1>4. go \in Handler /\ SameRequest(go, th) /\ go.pc = "starting" /\ go.old = NoEntry
    BY <1>1, <1>2, <1>3 DEF Handler, AtStart, SameRequest
  <1>5. HandlerFits(go)
    BY <1>1, <1>2, <1>3, <1>4 DEF HandlerFits, Handler, AtStart
  <1>6. PICK n \in {go, Rest} : thread' = [thread EXCEPT ![t] = n]
    BY <1>3 DEF EnsureNetwork
  <1>7. /\ HandlerFits(n) /\ Moves(n, th) /\ n.old = NoEntry
        /\ n.pc \notin {"replacing", "launching"}
    BY <1>4, <1>5, RestFits DEF Moves
  <1>8. UNCHANGED <<current, members, alive, raced>>
    BY DEF EnsureNetwork
  <1> QED BY <1>2, <1>6, <1>7, <1>8, PlainStep

\* A request that ends, or a pop that raises.
LEMMA EndKeeps ==
    ASSUME LocalInv, NEW t \in Threads, thread[t].pc \in {"launching", "stopping", "starting"},
           thread' = [thread EXCEPT ![t] = Rest],
           UNCHANGED <<current, members, alive, raced>>
    PROVE  LocalInv'
  <1>1. thread[t].old = NoEntry
    BY OneHandlerFits DEF HandlerFits
  <1>2. /\ HandlerFits(Rest) /\ Moves(Rest, thread[t]) /\ Rest.old = NoEntry
        /\ Rest.pc \notin {"replacing", "launching"}
    BY RestFits DEF Moves
  <1> QED BY <1>1, <1>2, PlainStep

LEMMA RaiseKeeps ==
    ASSUME LocalInv, NEW t \in Threads,
           LaunchRaises(t) \/ \E s \in Services : PopRaises(t, s)
    PROVE  LocalInv'
  BY EndKeeps DEF LaunchRaises, PopRaises

LEMMA TakeOutKeeps ==
    ASSUME LocalInv, NEW t \in Threads, NEW s \in Services, NEW pc,
           s \in thread[t].todo,
           \/ thread[t].pc = "starting" /\ pc = "replacing"
           \/ thread[t].pc = "starting" /\ pc = "launching" /\ members[thread[t].cluster][s] = NoEntry
           \/ thread[t].pc = "stopping" /\ pc = "ending",
           TakeOut(t, s, pc),
           UNCHANGED <<current, alive, raced>>
    PROVE  LocalInv'
  <1> PICK th, c : th = thread[t] /\ c = thread[t].cluster
    OBVIOUS
  <1>1. HandlerFits(th) /\ th \in Handler
    BY OneHandlerFits
  <1>2. c \in Clusters /\ th.old = NoEntry
    BY <1>1 DEF HandlerFits, Handler
  <1>3. PICK e : e = members[c][s]
    OBVIOUS
  <1>4. e \in Entry
    BY <1>2, <1>3 DEF LocalInv, LocalShapes
  <1>5. PICK n : n = [th EXCEPT !.pc = pc, !.now = {s}, !.todo = th.todo \ {s}, !.old = e]
    OBVIOUS
  <1>6. /\ n \in Handler /\ SameRequest(n, th)
        /\ n.pc = pc /\ n.now = {s} /\ n.todo = th.todo \ {s} /\ n.old = e
        /\ n.cluster = c /\ n.backend = th.backend
    BY <1>1, <1>4, <1>5 DEF Handler, AtStart, SameRequest
  <1>7. HandlerFits(n)
    BY <1>1, <1>3, <1>6 DEF HandlerFits, AtStart, SameRequest
  <1>8. thread' = [thread EXCEPT ![t] = n]
    BY <1>3, <1>5 DEF TakeOut
  <1>9. /\ members' = [members EXCEPT ![c][s] = NoEntry]
        /\ members' \in [Clusters -> [Services -> Entry]]
        /\ members'[c][s] = NoEntry
        /\ \A d \in Clusters, r \in Services :
             members'[d][r] = members[d][r] \/ (d = c /\ r = s /\ members'[d][r] = NoEntry)
    <2>1. members \in [Clusters -> [Services -> Entry]] /\ NoEntry \in Entry
      BY NoEntryIsAnEntry DEF LocalInv, LocalShapes
    <2>2. members' = [members EXCEPT ![c][s] = NoEntry]
      BY DEF TakeOut
    <2> QED BY <1>2, <2>1, <2>2
  <1>10. thread'[t] = n /\ \A u \in Threads \ {t} : thread'[u] = thread[u]
    BY <1>8 DEF LocalInv, LocalShapes
  <1>11. LocalShapes'
    <2>1. alive' \subseteq ProcessRecord /\ LocalShapes
      BY DEF LocalInv, LocalShapes
    <2> QED BY <1>7, <1>8, <1>9, <2>1, OneHandler
  <1>12. AllHaveEntries'
    <2> SUFFICES ASSUME NEW p \in alive', Ours(p)' PROVE HasEntry(p)'
      BY DEF AllHaveEntries
    <2>1. p \in alive /\ HasEntry(p) /\ p.id # 0 /\ p.service \in Services
      BY NumbersOfProcesses DEF Ours, LocalInv, AllHaveEntries
    <2>2. CASE current # 0 /\ members[current][p.service].process = p.id
      <3>1. CASE current = c /\ p.service = s
        <4>1. thread'[t].old.process = p.id
          BY <1>3, <1>6, <1>10, <2>2, <3>1
        <4> QED BY <4>1 DEF HasEntry
      <3>2. CASE ~(current = c /\ p.service = s)
        <4>1. current \in Clusters
          BY <2>2 DEF LocalInv, LocalShapes
        <4>2. members'[current][p.service] = members[current][p.service]
          BY <1>9, <2>1, <3>2, <4>1
        <4> QED BY <2>2, <4>2 DEF HasEntry
      <3> QED BY <3>1, <3>2
    <2>3. ASSUME NEW u \in Threads, thread[u].old.process = p.id PROVE HasEntry(p)'
      <3>1. u # t
        BY <1>2, <2>1, <2>3, NoEntryIsAnEntry
      <3>2. thread'[u].old = thread[u].old
        BY <1>10, <3>1
      <3> QED BY <2>3, <3>2 DEF HasEntry
    <2> QED BY <2>1, <2>2, <2>3 DEF HasEntry
  <1>13. \A u \in Threads : thread'[u] = thread[u] \/ Moves(thread'[u], thread[u])
    BY <1>6, <1>10 DEF Moves
  <1>14. \A u \in Threads : OldTold(u)
    <2>1. OldTold(t)
      BY <1>2, <1>3, <1>6, <1>10 DEF OldTold
    <2>2. \A u \in Threads \ {t} : OldTold(u)
      BY <1>10 DEF OldTold
    <2> QED BY <2>1, <2>2
  <1>15. \A d \in Clusters, r \in Services : members'[d][r] \in {members[d][r], NoEntry}
    BY <1>9
  <1>16. \A u \in Threads : thread'[u] = thread[u] \/ thread'[u].pc \notin {"replacing", "launching"}
                \/ \A r \in thread'[u].now \ raced : members'[thread'[u].cluster][r] = NoEntry
    BY <1>6, <1>9, <1>10
  <1> QED BY <1>11, <1>12, <1>13, <1>14, <1>15, <1>16, QuietStep

LEMMA NextServiceKeeps ==
    ASSUME LocalInv, NEW t \in Threads, NEW s \in Services, NextService(t, s) \/ PopWorker(t, s)
    PROVE  LocalInv'
  <1>1. CASE NextService(t, s)
    <2>1. PICK pc : pc = IF members[thread[t].cluster][s] = NoEntry THEN "launching" ELSE "replacing"
      OBVIOUS
    <2>2. /\ TakeOut(t, s, pc) /\ UNCHANGED <<current, alive, raced>>
          /\ thread[t].pc = "starting" /\ s \in thread[t].todo
      BY <1>1, <2>1 DEF NextService
    <2> QED BY <2>1, <2>2, TakeOutKeeps
  <1>2. CASE PopWorker(t, s)
    <2>1. /\ TakeOut(t, s, "ending") /\ UNCHANGED <<current, alive, raced>>
          /\ thread[t].pc = "stopping" /\ s \in thread[t].todo
      BY <1>2 DEF PopWorker
    <2> QED BY <2>1, TakeOutKeeps
  <1> QED BY <1>1, <1>2

LEMMA StopWorkerKeeps ==
    ASSUME LocalInv, NEW t \in Threads, StopWorker(t)
    PROVE  LocalInv'
  <1> PICK th : th = thread[t]
    OBVIOUS
  <1>1. HandlerFits(th) /\ th \in Handler /\ th.pc \in {"replacing", "ending"}
    BY OneHandlerFits DEF StopWorker
  <1>2. PICK s \in th.now : alive' = Survivors(th.old, s)
    BY DEF StopWorker
  <1>3. alive' \subseteq alive /\ \A p \in alive' : p.id # th.old.process
    BY <1>2 DEF Survivors
  <1>4. PICK pc : pc = IF th.pc = "replacing" THEN "launching" ELSE "stopping"
    OBVIOUS
  <1>5. PICK n : n = [th EXCEPT !.pc = pc, !.old = NoEntry]
    OBVIOUS
  <1>6. /\ n \in Handler /\ SameRequest(n, th) /\ n.pc = pc /\ n.old = NoEntry
        /\ n.now = th.now /\ n.todo = th.todo /\ n.cluster = th.cluster /\ n.backend = th.backend
    BY <1>1, <1>4, <1>5, NoEntryIsAnEntry, ZenonT(40) DEF Handler, AtStart, SameRequest
  <1>7. HandlerFits(n)
    BY <1>1, <1>4, <1>6 DEF HandlerFits, AtStart, SameRequest
  <1>8. thread' = [thread EXCEPT ![t] = n]
    BY <1>4, <1>5 DEF StopWorker
  <1>9. thread'[t] = n /\ \A u \in Threads \ {t} : thread'[u] = thread[u]
    BY <1>8 DEF LocalInv, LocalShapes
  <1>10. UNCHANGED <<current, members, raced>>
    BY DEF StopWorker
  <1>11. LocalShapes'
    <2>1. alive' \subseteq ProcessRecord /\ LocalShapes /\ members' \in [Clusters -> [Services -> Entry]]
      BY <1>3, <1>10 DEF LocalInv, LocalShapes
    <2> QED BY <1>7, <1>8, <1>10, <2>1, OneHandler
  <1>12. AllHaveEntries'
    BY <1>3, <1>9, <1>10, EntriesStay
  <1>13. \A u \in Threads : thread'[u] = thread[u] \/ Moves(thread'[u], thread[u])
    BY <1>6, <1>9 DEF Moves
  <1>14. \A u \in Threads : OldTold(u)
    BY <1>6, <1>9 DEF OldTold
  <1>15. \A u \in Threads : thread'[u] = thread[u] \/ thread'[u].pc \notin {"replacing", "launching"}
                \/ \A r \in thread'[u].now \ raced : members'[thread'[u].cluster][r] = NoEntry
    <2>1. th.pc = "replacing" => \A r \in th.now \ raced : members[th.cluster][r] = NoEntry
      BY DEF LocalInv, ReplacedIsGone
    <2>2. n.pc \in {"replacing", "launching"} => th.pc = "replacing"
      BY <1>4, <1>6
    <2> QED BY <1>6, <1>9, <1>10, <2>1, <2>2
  <1> QED BY <1>3, <1>10, <1>11, <1>12, <1>13, <1>14, <1>15, QuietStep

LEMMA DiesKeeps ==
    ASSUME LocalInv, NEW q \in alive, Dies(q)
    PROVE  LocalInv'
  <1>1. alive' \subseteq alive /\ UNCHANGED <<current, members, thread, raced>>
    BY DEF Dies
  <1>2. LocalShapes'
    BY <1>1 DEF LocalInv, LocalShapes
  <1>3. AllHaveEntries'
    BY <1>1 DEF LocalInv, AllHaveEntries, HasEntry, Ours
  <1>4. \A t \in Threads : OldTold(t)
    BY <1>1 DEF OldTold
  <1> QED BY <1>1, <1>2, <1>3, <1>4, QuietStep

-----------------------------------------------------------------------------
(* A stop ends, the server ends, the server is killed.                     *)

LEMMA StopEndsKeeps ==
    ASSUME LocalInv, NEW t \in Threads, StopEnds(t)
    PROVE  LocalInv'
  <1> PICK c : c = thread[t].cluster
    OBVIOUS
  <1>1. /\ HandlerFits(thread[t]) /\ thread[t].pc = "stopping"
        /\ thread[t].op = "stop" /\ thread[t].old = NoEntry
    <2>1. HandlerFits(thread[t]) /\ thread[t] \in Handler /\ thread[t].pc = "stopping"
      BY OneHandlerFits DEF StopEnds
    <2> QED BY <2>1 DEF HandlerFits, Handler, AtStart
  <1>2. /\ thread' = [thread EXCEPT ![t] = Rest] /\ UNCHANGED <<members, alive, raced>>
        /\ current' = current \/ (current' = 0 /\ Empty(c))
    BY DEF StopEnds
  <1>3. thread'[t] = Rest /\ \A u \in Threads \ {t} : thread'[u] = thread[u]
    BY <1>2 DEF LocalInv, LocalShapes
  <1>4. LocalShapes'
    <2>1. thread' \in [Threads -> Handler]
      BY <1>2, RestFits DEF LocalInv, LocalShapes, HandlerFits
    <2>2. \A u \in Threads : HandlerFits(thread'[u])
      BY <1>3, RestFits DEF LocalInv, LocalShapes
    <2> QED BY <1>2, <2>1, <2>2 DEF LocalInv, LocalShapes, HandlerFits
  <1>5. \A u \in Threads : Moves(thread'[u], thread[u])
    BY <1>3 DEF Moves, SameRequest
  <1>6. Overlaps'
    <2>1. \A u \in Threads : thread'[u].selected \subseteq raced
      BY <1>1, <1>3, RestFits DEF LocalInv, Overlaps, StopsRace
    <2>2. current \in Clusters \cup {0}
      BY DEF LocalInv, LocalShapes
    <2> QED BY <1>2, <1>5, <2>1, <2>2, QuietOverlaps DEF LocalInv
  <1>7. EntriesTell'
    <2>1. \A u \in Threads : OldTold(u)
      BY <1>3, RestFits DEF OldTold
    <2> QED BY <1>2, <2>1, QuietEntries DEF LocalInv
  <1>8. ReplacedIsGone'
    BY <1>2, <1>3, RestFits DEF LocalInv, ReplacedIsGone
  <1>9. AllHaveEntries'
    <2> SUFFICES ASSUME NEW p \in alive', Ours(p)' PROVE HasEntry(p)'
      BY DEF AllHaveEntries
    <2>1. /\ p \in alive /\ HasEntry(p) /\ p.id # 0 /\ p.service \in Services
          /\ p.service \notin raced
      BY <1>2, NumbersOfProcesses DEF Ours, LocalInv, AllHaveEntries
    <2>2. CASE current # 0 /\ members[current][p.service].process = p.id
      <3>1. members[current][p.service] # NoEntry
        BY <2>1, <2>2, NoEntryIsAnEntry
      <3>2. c = current
        BY <1>1, <2>1, <2>2, <3>1 DEF LocalInv, Overlaps, StopsAtCurrent
      <3>3. ~Empty(c)
        BY <2>1, <2>2, <3>1, <3>2 DEF Empty
      <3> QED BY <1>2, <2>2, <3>3 DEF HasEntry
    <2>3. ASSUME NEW u \in Threads, thread[u].old.process = p.id PROVE HasEntry(p)'
      <3>1. u # t
        BY <1>1, <2>1, <2>3, NoEntryIsAnEntry
      <3>2. thread'[u].old = thread[u].old
        BY <1>3, <3>1
      <3> QED BY <2>3, <3>2 DEF HasEntry
    <2> QED BY <2>1, <2>2, <2>3 DEF HasEntry
  <1>10. PortsAgree'
    <2>1. \A q \in alive' : \E p \in alive : SameProcess(p, q)
      BY <1>2 DEF SameProcess
    <2> QED BY <1>2, <1>5, <2>1, QuietPorts DEF LocalInv
  <1> QED BY <1>4, <1>6, <1>7, <1>8, <1>9, <1>10 DEF LocalInv

\* When the server forgets everything, nothing that runs may still be its own.
LEMMA ForgetKeeps ==
    ASSUME Forget, raced' \subseteq Services, alive' \subseteq ProcessRecord,
           \A p \in alive' : ~Ours(p)'
    PROVE  LocalInv'
  <1>1. /\ current' = 0
        /\ members' = [c \in Clusters |-> [s \in Services |-> NoEntry]]
        /\ thread' = [t \in Threads |-> Rest]
    BY DEF Forget
  <1>2. /\ members' \in [Clusters -> [Services -> Entry]]
        /\ \A c \in Clusters, s \in Services : members'[c][s] = NoEntry
    BY <1>1, NoEntryIsAnEntry
  <1>3. thread' \in [Threads -> Handler] /\ \A t \in Threads : HandlerFits(thread'[t])
    BY <1>1, RestFits DEF HandlerFits
  <1>4. \A t \in Threads : /\ thread'[t].selected = {} /\ thread'[t].op = "none"
                           /\ thread'[t].old = NoEntry /\ thread'[t].pc = "idle"
    BY <1>1, RestFits
  <1>5. LocalShapes'
    BY <1>1, <1>2, <1>3 DEF LocalShapes, HandlerFits
  <1>6. Overlaps'
    BY <1>1, <1>4 DEF Overlaps, StopsRace, StartsRace, StartsTell, StartsAtCurrent, StopsAtCurrent
  <1>7. EntriesTell'
    <2>1. \A p \in alive' : p.id # 0
      BY LocalAssumption DEF ProcessRecord
    <2> QED BY <1>2, <1>4, <2>1, NoEntryIsAnEntry DEF EntriesTell
  <1>8. ReplacedIsGone' /\ AllHaveEntries'
    BY <1>4 DEF ReplacedIsGone, AllHaveEntries
  <1>9. PortsAgree'
    <2>1. RunningKeepTheirs' /\ StartsKnowRunning'
      BY <1>4 DEF RunningKeepTheirs, StartsKnowRunning
    <2>2. PortsAreKnown'
      BY DEF PortsAreKnown, Ours
    <2> QED BY <2>1, <2>2 DEF PortsAgree
  <1> QED BY <1>5, <1>6, <1>7, <1>8, <1>9 DEF LocalInv

LEMMA CrashKeepsLocal ==
    ASSUME LocalInv, ServerCrash
    PROVE  LocalInv'
  <1>1. \A q \in alive' : q \in ProcessRecord /\ q.left
    <2> SUFFICES ASSUME NEW q \in alive' PROVE q \in ProcessRecord /\ q.left
      OBVIOUS
    <2>1. PICK p \in alive : q = [p EXCEPT !.left = TRUE]
      BY DEF ServerCrash
    <2>2. p \in ProcessRecord
      BY DEF LocalInv, LocalShapes
    <2> QED BY <2>1, <2>2 DEF ProcessRecord
  <1>2. raced' \subseteq Services /\ Forget
    BY DEF ServerCrash, LocalInv, LocalShapes
  <1> QED BY <1>1, <1>2, ForgetKeeps DEF Ours

\* close stops every process that has an entry, and notes the others.
LEMMA CloseKeeps ==
    ASSUME LocalInv, Close
    PROVE  LocalInv'
  <1>1. /\ current # 0 /\ Forget
        /\ alive' = {p \in alive : \A s \in Services : p \in Survivors(members[current][s], s)}
    BY DEF Close
  <1> PICK busy, begun, underWay :
        /\ busy = {u \in Threads : Busy(u)}
        /\ begun = UNION {thread[t].selected : t \in busy}
        /\ underWay = UNION {thread[t].now : t \in Threads}
    OBVIOUS
  <1>5. raced' = raced \cup begun \cup underWay
    BY Zenon DEF Close
  <1>6. /\ \A t \in Threads : thread[t].now \subseteq raced'
        /\ \A s \in begun : \E t \in Threads : s \in thread[t].selected
        /\ \A s \in underWay : \E t \in Threads : s \in thread[t].now
    BY <1>5
  <1>2. alive' \subseteq ProcessRecord
    BY <1>1 DEF LocalInv, LocalShapes
  <1>3. raced' \subseteq Services
    <2>1. \A t \in Threads : thread[t].selected \subseteq Services /\ thread[t].now \subseteq Services
      BY OneHandlerFits DEF Handler
    <2>2. raced \subseteq Services
      BY DEF LocalInv, LocalShapes
    <2> QED BY <1>5, <1>6, <2>1, <2>2
  <1>4. ASSUME NEW p \in alive', Ours(p)' PROVE FALSE
    <2>1. p \in alive /\ p.service \notin raced' /\ ~p.left
      BY <1>1, <1>4 DEF Ours
    <2>6. p.service \in Services /\ p.service \notin raced
      BY <1>5, <2>1, NumbersOfProcesses DEF LocalInv
    <2>2. HasEntry(p)
      BY <2>1, <2>6 DEF LocalInv, AllHaveEntries, Ours
    <2>3. members[current][p.service].process # p.id
      BY <1>1, <1>4, <2>6 DEF Survivors
    <2>4. PICK t \in Threads : thread[t].old.process = p.id
      BY <2>2, <2>3 DEF HasEntry
    <2>5. p.service \in thread[t].now
      BY <2>1, <2>4 DEF LocalInv, EntriesTell
    <2> QED BY <1>6, <2>1, <2>5
  <1> QED BY <1>1, <1>2, <1>3, <1>4, ForgetKeeps

-----------------------------------------------------------------------------
(* Requests begin.                                                         *)

LEMMA StopRaces ==
    ASSUME LocalInv, NEW selected \in SUBSET Services,
           raced' = raced \union NewRaces("stop", selected)
    PROVE  /\ raced \subseteq raced' /\ raced' \subseteq Services
           /\ \A u \in Threads : thread[u].selected \subseteq raced'
  <1> PICK new : new = NewRaces("stop", selected)
    OBVIOUS
  <1>1. new = UNION {IF thread[u].op = "start" THEN thread[u].selected ELSE {}
                     : u \in {v \in Threads : Busy(v)}}
    BY DEF NewRaces
  <1>2. \A s \in new : \E u \in Threads : s \in thread[u].selected
    BY <1>1
  <1>3. \A u \in Threads : (Busy(u) /\ thread[u].op = "start") => thread[u].selected \subseteq new
    BY <1>1
  <1>4. \A u \in Threads : /\ thread[u].selected \subseteq Services
                           /\ thread[u].op = "start" => Busy(u)
                           /\ thread[u].op # "start" => thread[u].selected = {}
    BY OneHandlerFits DEF HandlerFits, Handler, AtStart, Busy
  <1>5. raced \subseteq Services
    BY DEF LocalInv, LocalShapes
  <1> QED BY <1>2, <1>3, <1>4, <1>5

LEMMA StartRaces ==
    ASSUME LocalInv, NEW selected \in SUBSET Services,
           raced' = raced \union NewRaces("start", selected)
    PROVE  /\ raced \subseteq raced' /\ raced' \subseteq Services
           /\ \A u \in Threads : /\ thread[u].op = "stop" => selected \subseteq raced'
                                 /\ selected \cap thread[u].selected \subseteq raced'
  <1> PICK new : new = NewRaces("start", selected)
    OBVIOUS
  <1>1. new = UNION {IF thread[u].op = "start" THEN selected \cap thread[u].selected ELSE selected
                     : u \in {v \in Threads : Busy(v)}}
    BY DEF NewRaces
  <1>2. new \subseteq selected
    BY <1>1
  <1>3. \A u \in Threads : Busy(u) => /\ thread[u].op = "start" => selected \cap thread[u].selected \subseteq new
                                      /\ thread[u].op # "start" => selected \subseteq new
    BY <1>1
  <1>4. \A u \in Threads : /\ thread[u].op \in {"start", "stop"} => Busy(u)
                           /\ thread[u].op # "start" => thread[u].selected = {}
    BY OneHandlerFits DEF HandlerFits, Handler, AtStart, Busy
  <1>5. raced \subseteq Services
    BY DEF LocalInv, LocalShapes
  <1> QED BY <1>2, <1>3, <1>4, <1>5

LEMMA StopLocalKeeps ==
    ASSUME LocalInv, NEW t \in Threads, NEW selected \in SUBSET Services, StopLocal(t, selected)
    PROVE  LocalInv'
  <1>1. /\ UNCHANGED <<current, members, alive>>
        /\ raced' = raced \union NewRaces("stop", selected)
        /\ thread[t].pc = "idle"
    BY DEF StopLocal, Busy
  <1>2. /\ raced \subseteq raced' /\ raced' \subseteq Services
        /\ \A u \in Threads : thread[u].selected \subseteq raced'
    BY <1>1, StopRaces
  <1>3. PICK todo : todo = IF current = 0 THEN {} ELSE {s \in selected : members[current][s] # NoEntry}
    OBVIOUS
  <1> PICK rest : rest = Rest
    OBVIOUS
  <1>4. PICK n : n = [rest EXCEPT !.pc = "stopping", !.op = "stop", !.cluster = current,
                                 !.todo = todo]
    OBVIOUS
  <1>5. /\ n \in Handler /\ n.pc = "stopping" /\ n.op = "stop" /\ n.cluster = current
        /\ n.todo = todo /\ n.selected = {} /\ n.old = NoEntry
    <2>1. /\ rest \in Handler /\ rest.selected = {} /\ rest.old = NoEntry
      BY <1>4, RestFits DEF HandlerFits
    <2>2. current \in Clusters \cup {0} /\ todo \subseteq Services
      BY <1>3 DEF LocalInv, LocalShapes
    <2> QED BY <1>4, <2>1, <2>2 DEF Handler
  <1>6. HandlerFits(n)
    BY <1>3, <1>5 DEF HandlerFits, AtStart
  <1>7. thread' = [thread EXCEPT ![t] = n]
    BY <1>3, <1>4 DEF StopLocal
  <1>8. thread'[t] = n /\ \A u \in Threads \ {t} : thread'[u] = thread[u]
    BY <1>7 DEF LocalInv, LocalShapes
  <1>9. LocalShapes'
    <2>1. thread' \in [Threads -> Handler]
      BY <1>5, <1>7 DEF LocalInv, LocalShapes
    <2>2. \A u \in Threads : HandlerFits(thread'[u])
      BY <1>6, <1>8 DEF LocalInv, LocalShapes
    <2> QED BY <1>1, <1>2, <2>1, <2>2 DEF LocalInv, LocalShapes, HandlerFits
  <1>10. Overlaps'
    <2>1. StopsRace' /\ StartsRace'
      BY <1>2, <1>5, <1>8 DEF StopsRace, StartsRace
    <2>2. StartsTell'
      BY <1>5, <1>8 DEF LocalInv, Overlaps, StartsTell
    <2>3. StartsAtCurrent' /\ StopsAtCurrent'
      BY <1>1, <1>2, <1>5, <1>8 DEF LocalInv, Overlaps, StartsAtCurrent, StopsAtCurrent
    <2> QED BY <2>1, <2>2, <2>3 DEF Overlaps
  <1>11. EntriesTell'
    <2>1. \A u \in Threads : OldTold(u)
      BY <1>5, <1>8 DEF OldTold
    <2> QED BY <1>1, <2>1, QuietEntries DEF LocalInv
  <1>12. ReplacedIsGone'
    BY <1>1, <1>2, <1>5, <1>8 DEF LocalInv, ReplacedIsGone
  <1>13. thread[t].old = NoEntry
    BY <1>1, OneHandlerFits DEF HandlerFits
  <1>14. AllHaveEntries'
    <2> SUFFICES ASSUME NEW p \in alive', Ours(p)' PROVE HasEntry(p)'
      BY DEF AllHaveEntries
    <2>1. p \in alive /\ HasEntry(p) /\ p.id # 0
      BY <1>1, <1>2, NumbersOfProcesses DEF Ours, LocalInv, AllHaveEntries
    <2>2. \A u \in Threads : thread[u].old.process = p.id => thread'[u].old = thread[u].old
      BY <1>8, <1>13, <2>1, NoEntryIsAnEntry
    <2> QED BY <1>1, <2>1, <2>2 DEF HasEntry
  <1>15. PortsAgree'
    <2>1. RunningKeepTheirs' /\ StartsKnowRunning'
      BY <1>1, <1>2, <1>5, <1>8
         DEF LocalInv, PortsAgree, RunningKeepTheirs, StartsKnowRunning, Ours
    <2>2. PortsAreKnown'
      BY <1>1, <1>2 DEF LocalInv, PortsAgree, PortsAreKnown
    <2> QED BY <2>1, <2>2 DEF PortsAgree
  <1> QED BY <1>9, <1>10, <1>11, <1>12, <1>14, <1>15 DEF LocalInv

Written(n, t, selected, backend, c, cluster, ports) ==
  n = NewStart(t, selected, backend, c, cluster, ports)

LEMMA NewStartFits ==
    ASSUME LocalInv, NEW t \in Threads, NEW selected \in SUBSET Services, NEW backend \in Backends,
           NEW c \in Clusters, NEW cluster, NEW ports \in [Services -> Ports],
           NEW n, Written(n, t, selected, backend, c, cluster, ports)
    PROVE  /\ HandlerFits(n) /\ n \in Handler
           /\ n.pc \in {"network", "starting"} /\ n.op = "start" /\ n.selected = selected
           /\ n.cluster = c /\ n.old = NoEntry /\ n.ports = ports
           /\ \A u \in Threads : thread[u].selected \subseteq n.missed
           /\ \A s \in Services \ n.fresh : Running(cluster[s])
  <1> PICK rest : rest = Rest
    OBVIOUS
  <1>1. PICK pc : pc = IF backend = "container" THEN "network" ELSE "starting"
    OBVIOUS
  <1>2. PICK missed : missed = StartedBesides(t)
    OBVIOUS
  <1>3. PICK fresh : fresh = {s \in Services : ~Running(cluster[s])}
    OBVIOUS
  <1>4. \A u \in Threads : thread[u].selected \subseteq Services /\ (thread[u].op # "start" => thread[u].selected = {})
    BY OneHandlerFits DEF HandlerFits, Handler
  <1>5. missed \subseteq Services
    BY <1>2, <1>4 DEF StartedBesides
  <1>6. \A u \in Threads : thread[u].selected \subseteq missed
    BY <1>2, <1>4 DEF StartedBesides
  <1>11. PICK half : half = [rest EXCEPT !.pc = pc, !.op = "start", !.selected = selected,
                                        !.todo = selected, !.cluster = c]
    OBVIOUS
  <1>12. PICK more : more = [half EXCEPT !.backend = backend, !.ports = ports]
    OBVIOUS
  <1>7. n = [more EXCEPT !.missed = missed, !.fresh = fresh]
    BY <1>1, <1>2, <1>3, <1>11, <1>12, Zenon DEF NewStart, Written
  <1>8. rest \in Handler /\ rest.old = NoEntry /\ rest.now = {}
    BY RestFits DEF HandlerFits
  <1>9. /\ n \in Handler /\ n.pc = pc /\ n.op = "start" /\ n.selected = selected /\ n.todo = selected
        /\ n.cluster = c /\ n.old = NoEntry /\ n.ports = ports /\ n.missed = missed
        /\ n.fresh = fresh /\ n.now = {} /\ n.backend = backend
    <2>1. pc \in AtStart /\ fresh \subseteq Services
      BY <1>1, <1>3 DEF AtStart
    <2>2. /\ half \in Handler /\ half.pc = pc /\ half.op = "start" /\ half.selected = selected
          /\ half.todo = selected /\ half.cluster = c /\ half.old = NoEntry /\ half.now = {}
      BY <1>8, <1>11, <2>1 DEF Handler
    <2>3. ports \in [Services -> Ports \cup {0}] /\ backend \in Backends \cup {"none"}
      OBVIOUS
    <2>4. /\ more \in Handler /\ more.pc = pc /\ more.op = "start" /\ more.selected = selected
          /\ more.todo = selected /\ more.cluster = c /\ more.old = NoEntry /\ more.now = {}
          /\ more.backend = backend /\ more.ports = ports
      BY <1>12, <2>2, <2>3 DEF Handler
    <2> QED BY <1>5, <1>7, <2>1, <2>4 DEF Handler
  <1>10. HandlerFits(n)
    <2>1. c # 0
      BY LocalAssumption
    <2> QED BY <1>1, <1>9, <2>1 DEF HandlerFits, AtStart
  <1> QED BY <1>1, <1>3, <1>6, <1>9, <1>10

\* What a start finds and writes down.
LEMMA StartFinds ==
    ASSUME LocalInv, NEW t \in Threads, NEW selected \in SUBSET Services, NEW backend \in Backends,
           StartLocal(t, selected, backend)
    PROVE  \E c, cluster, ports, n :
             /\ c \in Clusters /\ ports \in ResolvedPorts(cluster)
             /\ n = NewStart(t, selected, backend, c, cluster, ports)
             /\ cluster = IF current = 0 THEN [s \in Services |-> NoEntry] ELSE members[c]
             /\ current # 0 => c = current
             /\ current' = c
             /\ members' = [members EXCEPT ![c] = cluster]
             /\ thread' = [TellOthers(t, selected) EXCEPT ![t] = n]
             /\ thread[t].pc = "idle" /\ alive' = alive
             /\ raced' = raced \union NewRaces("start", selected)
  <1> PICK c : c = IF current = 0 THEN AnyOf(FreeClusters) ELSE current
    OBVIOUS
  <1> PICK cluster : cluster = IF current = 0 THEN [s \in Services |-> NoEntry] ELSE members[c]
    OBVIOUS
  <1>1. c \in Clusters
    <2>1. current = 0 => FreeClusters # {} /\ FreeClusters \subseteq Clusters
      BY DEF StartLocal, FreeClusters
    <2>2. current = 0 => AnyOf(FreeClusters) \in Clusters
      BY <2>1 DEF AnyOf
    <2> QED BY <2>2 DEF LocalInv, LocalShapes
  <1>2. /\ current' = c /\ members' = [members EXCEPT ![c] = cluster]
        /\ \E ports \in ResolvedPorts(cluster) :
              thread' = [TellOthers(t, selected) EXCEPT
                           ![t] = NewStart(t, selected, backend, c, cluster, ports)]
    BY Zenon DEF StartLocal
  <1>3. PICK ports \in ResolvedPorts(cluster) :
              thread' = [TellOthers(t, selected) EXCEPT
                           ![t] = NewStart(t, selected, backend, c, cluster, ports)]
    BY <1>2
  <1>4. /\ thread[t].pc = "idle" /\ alive' = alive
        /\ raced' = raced \union NewRaces("start", selected)
    BY DEF StartLocal, Busy
  <1>5. current # 0 => c = current
    OBVIOUS
  <1> QED BY <1>1, <1>2, <1>3, <1>4, <1>5

\* The others go on with what they were told.
ToldOf(later, th, selected) ==
  /\ later.pc = th.pc /\ later.op = th.op /\ later.selected = th.selected
  /\ later.cluster = th.cluster /\ later.ports = th.ports /\ later.fresh = th.fresh
  /\ later.now = th.now /\ later.old = th.old
  /\ th.missed \subseteq later.missed
  /\ th.op = "start" => selected \subseteq later.missed

LEMMA OthersAreTold ==
    ASSUME LocalInv, NEW t \in Threads, NEW selected \in SUBSET Services, NEW n, HandlerFits(n),
           thread' = [TellOthers(t, selected) EXCEPT ![t] = n]
    PROVE  /\ thread' \in [Threads -> Handler] /\ \A u \in Threads : HandlerFits(thread'[u])
           /\ thread'[t] = n
           /\ \A u \in Threads \ {t} : ToldOf(thread'[u], thread[u], selected)
  <1> PICK told : told = TellOthers(t, selected)
    OBVIOUS
  <1>1. told = [u \in Threads |->
                  IF thread[u].op = "start"
                  THEN [thread[u] EXCEPT !.missed = thread[u].missed \union selected] ELSE thread[u]]
    BY DEF TellOthers
  <1>2. ASSUME NEW u \in Threads
        PROVE  HandlerFits(told[u]) /\ ToldOf(told[u], thread[u], selected)
    <2> PICK th : th = thread[u]
      OBVIOUS
    <2>1. HandlerFits(th) /\ th \in Handler
      BY OneHandlerFits
    <2>2. CASE th.op = "start"
      <3>1. PICK later : later = [th EXCEPT !.missed = th.missed \union selected]
        OBVIOUS
      <3>2. told[u] = later
        BY <1>1, <2>2, <3>1
      <3>3. later \in Handler /\ ToldOf(later, th, selected)
        BY <2>1, <3>1 DEF Handler, ToldOf
      <3>4. later.todo = th.todo /\ later.backend = th.backend
        BY <2>1, <3>1 DEF Handler
      <3>5. HandlerFits(later)
        BY <2>1, <3>3, <3>4 DEF HandlerFits, ToldOf
      <3> QED BY <3>2, <3>3, <3>5
    <2>3. CASE th.op # "start"
      <3>1. told[u] = th
        BY <1>1, <2>3
      <3> QED BY <2>1, <2>3, <3>1 DEF ToldOf
    <2> QED BY <2>2, <2>3
  <1>3. thread' = [told EXCEPT ![t] = n] /\ DOMAIN told = Threads
    BY <1>1
  <1>4. thread'[t] = n /\ \A u \in Threads \ {t} : thread'[u] = told[u]
    BY <1>3
  <1>5. \A u \in Threads : HandlerFits(thread'[u])
    BY <1>2, <1>4
  <1>6. thread' \in [Threads -> Handler]
    <2>1. \A u \in Threads : thread'[u] \in Handler
      BY <1>5 DEF HandlerFits
    <2>2. thread' = [u \in Threads |-> thread'[u]]
      BY <1>1, <1>3
    <2> QED BY <2>1, <2>2
  <1> QED BY <1>2, <1>4, <1>5, <1>6

LEMMA StartLocalKeeps ==
    ASSUME LocalInv, NEW t \in Threads, NEW selected \in SUBSET Services, NEW backend \in Backends,
           StartLocal(t, selected, backend)
    PROVE  LocalInv'
  <1>1. PICK c, cluster, ports, n :
             /\ c \in Clusters /\ ports \in ResolvedPorts(cluster)
             /\ n = NewStart(t, selected, backend, c, cluster, ports)
             /\ cluster = IF current = 0 THEN [s \in Services |-> NoEntry] ELSE members[c]
             /\ current # 0 => c = current
             /\ current' = c
             /\ members' = [members EXCEPT ![c] = cluster]
             /\ thread' = [TellOthers(t, selected) EXCEPT ![t] = n]
             /\ thread[t].pc = "idle" /\ alive' = alive
             /\ raced' = raced \union NewRaces("start", selected)
    BY StartFinds
  <1>2. /\ raced \subseteq raced' /\ raced' \subseteq Services
        /\ \A u \in Threads : thread[u].op = "stop" => selected \subseteq raced'
        /\ \A u \in Threads : selected \cap thread[u].selected \subseteq raced'
    BY <1>1, StartRaces
  <1>3. /\ ports \in [Services -> Ports]
        /\ \A s \in Services : Running(cluster[s]) => ports[s] = cluster[s].port
    BY <1>1 DEF ResolvedPorts
  <1>4. /\ HandlerFits(n) /\ n \in Handler
        /\ n.pc \in {"network", "starting"} /\ n.op = "start" /\ n.selected = selected
        /\ n.cluster = c /\ n.old = NoEntry /\ n.ports = ports
        /\ \A u \in Threads : thread[u].selected \subseteq n.missed
        /\ \A s \in Services \ n.fresh : Running(cluster[s])
    <2>1. c \in Clusters /\ ports \in [Services -> Ports]
      BY <1>1, <1>3
    <2>2. Written(n, t, selected, backend, c, cluster, ports)
      BY <1>1 DEF Written
    <2> QED BY <2>1, <2>2, NewStartFits, Zenon
  <1>5. /\ thread' \in [Threads -> Handler] /\ \A u \in Threads : HandlerFits(thread'[u])
        /\ thread'[t] = n
        /\ \A u \in Threads \ {t} : ToldOf(thread'[u], thread[u], selected)
    BY <1>1, <1>4, OthersAreTold
  <1>6. /\ members' \in [Clusters -> [Services -> Entry]]
        /\ \A d \in Clusters, s \in Services : members'[d][s] \in {members[d][s], NoEntry}
        /\ current # 0 => members' = members
        /\ current = 0 => \A s \in Services : members'[c][s] = NoEntry
        /\ cluster \in [Services -> Entry]
    <2>1. members \in [Clusters -> [Services -> Entry]]
      BY DEF LocalInv, LocalShapes
    <2>2. cluster \in [Services -> Entry]
      BY <1>1, <2>1, NoEntryIsAnEntry
    <2>3. CASE current = 0
      <3>1. \A s \in Services : cluster[s] = NoEntry
        BY <1>1, <2>3
      <3> QED BY <1>1, <2>1, <2>2, <2>3, <3>1
    <2>4. CASE current # 0
      BY <1>1, <2>1, <2>2, <2>4
    <2> QED BY <2>3, <2>4
  <1>7. thread[t].old = NoEntry /\ thread[t].op = "none" /\ thread[t].selected = {}
    BY <1>1, OneHandlerFits DEF HandlerFits
  <1>8. LocalShapes'
    <2>1. current' \in Clusters \cup {0} /\ alive' \subseteq ProcessRecord
      BY <1>1 DEF LocalInv, LocalShapes
    <2> QED BY <1>2, <1>5, <1>6, <2>1 DEF LocalShapes, HandlerFits
  <1>9. Overlaps'
    <2>1. StopsRace'
      BY <1>2, <1>4, <1>5 DEF LocalInv, Overlaps, StopsRace, ToldOf
    <2>2. StartsRace'
      BY <1>2, <1>4, <1>5 DEF LocalInv, Overlaps, StartsRace, ToldOf
    <2>3. StartsTell'
      BY <1>4, <1>5 DEF LocalInv, Overlaps, StartsTell, ToldOf
    <2>4. StartsAtCurrent'
      <3> SUFFICES ASSUME NEW u \in Threads, u # t, ~(thread'[u].selected \subseteq raced')
                   PROVE  thread'[u].cluster = current'
        BY <1>1, <1>4, <1>5 DEF StartsAtCurrent
      <3>1. ToldOf(thread'[u], thread[u], selected) /\ ~(thread[u].selected \subseteq raced)
        BY <1>2, <1>5 DEF ToldOf
      <3>2. thread[u].cluster = current
        BY <3>1 DEF LocalInv, Overlaps, StartsAtCurrent
      <3>3. thread[u].op = "start" /\ thread[u].cluster # 0
        BY <3>1, OneHandlerFits DEF HandlerFits
      <3> QED BY <1>1, <3>1, <3>2, <3>3 DEF ToldOf
    <2>5. StopsAtCurrent'
      <3> SUFFICES ASSUME NEW u \in Threads, thread'[u].op = "stop", current' # 0,
                          thread'[u].cluster # current',
                          NEW s \in Services, members'[current'][s] # NoEntry
                   PROVE  s \in raced'
        BY DEF StopsAtCurrent
      <3>1. u # t
        BY <1>4, <1>5
      <3>2. ToldOf(thread'[u], thread[u], selected)
        BY <1>5, <3>1
      <3>3. current # 0
        BY <1>1, <1>6
      <3> QED BY <1>1, <1>2, <1>6, <3>2, <3>3 DEF LocalInv, Overlaps, StopsAtCurrent, ToldOf
    <2> QED BY <2>1, <2>2, <2>3, <2>4, <2>5 DEF Overlaps
  <1>10. EntriesTell'
    <2>1. \A u \in Threads : OldTold(u)
      BY <1>4, <1>5 DEF OldTold, ToldOf
    <2> QED BY <1>1, <1>6, <2>1, QuietEntries DEF LocalInv
  <1>11. ReplacedIsGone'
    <2> SUFFICES ASSUME NEW u \in Threads, thread'[u].pc \in {"replacing", "launching"},
                        NEW s \in thread'[u].now \ raced'
                 PROVE  members'[thread'[u].cluster][s] = NoEntry
      BY DEF ReplacedIsGone
    <2>1. u # t
      BY <1>4, <1>5
    <2>2. ToldOf(thread'[u], thread[u], selected)
      BY <1>5, <2>1
    <2>3. members[thread[u].cluster][s] = NoEntry
      BY <1>2, <2>2 DEF LocalInv, ReplacedIsGone, ToldOf
    <2>4. thread[u].cluster \in Clusters /\ s \in Services
      BY <2>2, OneHandlerFits DEF HandlerFits, Handler, AtStart, ToldOf
    <2> QED BY <1>6, <2>2, <2>3, <2>4 DEF ToldOf
  <1>12. AllHaveEntries'
    <2> SUFFICES ASSUME NEW p \in alive', Ours(p)' PROVE HasEntry(p)'
      BY DEF AllHaveEntries
    <2>1. p \in alive /\ HasEntry(p) /\ p.id # 0
      BY <1>1, <1>2, NumbersOfProcesses DEF Ours, LocalInv, AllHaveEntries
    <2>2. CASE current # 0 /\ members[current][p.service].process = p.id
      BY <1>1, <1>6, <2>2 DEF HasEntry
    <2>3. ASSUME NEW u \in Threads, thread[u].old.process = p.id PROVE HasEntry(p)'
      <3>1. u # t
        BY <1>7, <2>1, <2>3, NoEntryIsAnEntry
      <3>2. thread'[u].old = thread[u].old
        BY <1>5, <3>1 DEF ToldOf
      <3> QED BY <2>3, <3>2 DEF HasEntry
    <2> QED BY <2>1, <2>2, <2>3 DEF HasEntry
  <1>13. ASSUME NEW q \in alive, Running(cluster[q.service]), cluster[q.service].process = q.id
         PROVE  ports[q.service] = q.port /\ ~q.left
    <2>1. q.service \in Services /\ q.id # 0
      BY <1>13, NumbersOfProcesses DEF LocalInv
    <2>2. current # 0
      BY <1>1, <1>13, <2>1, NoEntryIsAnEntry
    <2>3. cluster = members[c] /\ c \in Clusters
      BY <1>1, <2>2
    <2>4. members[c][q.service].port = q.port /\ ~q.left
      BY <1>13, <2>1, <2>3 DEF LocalInv, EntriesTell
    <2> QED BY <1>3, <1>13, <2>1, <2>3, <2>4
  <1>14. RunningKeepTheirs'
    <2> SUFFICES ASSUME NEW u \in Threads, NEW s \in thread'[u].selected \ (thread'[u].fresh \cup raced'),
                        NEW p \in alive', Ours(p)', p.service # s
                 PROVE  s \in p.stale \/ p.urls[s] = thread'[u].ports[s]
      BY DEF RunningKeepTheirs
    <2>1. p \in alive /\ Ours(p) /\ s \notin raced
      BY <1>1, <1>2 DEF Ours
    <2>2. CASE u # t
      <3>1. ToldOf(thread'[u], thread[u], selected)
        BY <1>5, <2>2
      <3> QED BY <2>1, <3>1 DEF LocalInv, PortsAgree, RunningKeepTheirs, ToldOf
    <2>3. CASE u = t
      <3>1. s \in Services /\ Running(cluster[s])
        BY <1>4, <1>5, <2>3
      <3>2. PICK q \in alive : q.id = cluster[s].process
        BY <3>1 DEF Running
      <3>3. q.id # 0
        BY <3>2, NumbersOfProcesses DEF LocalInv
      <3>4. current # 0
        BY <1>1, <3>1, <3>2, <3>3, NoEntryIsAnEntry
      <3>5. cluster = members[c] /\ c \in Clusters
        BY <1>1, <3>4
      <3>6. s = q.service
        BY <3>1, <3>2, <3>5 DEF LocalInv, EntriesTell
      <3>7. ports[s] = q.port /\ ~q.left
        BY <1>13, <3>1, <3>2, <3>6
      <3>8. s \in p.stale \/ p.urls[s] = q.port
        BY <2>1, <3>6, <3>7 DEF LocalInv, PortsAgree, PortsAreKnown, Ours
      <3> QED BY <1>4, <1>5, <2>3, <3>7, <3>8
    <2> QED BY <2>2, <2>3
  <1>15. StartsKnowRunning'
    <2> SUFFICES ASSUME NEW u \in Threads, NEW q \in alive', Ours(q)',
                        ~(thread'[u].selected \subseteq raced'), q.service \notin thread'[u].missed
                 PROVE  thread'[u].ports[q.service] = q.port
      BY DEF StartsKnowRunning
    <2>1. q \in alive /\ Ours(q)
      BY <1>1, <1>2 DEF Ours
    <2>2. CASE u # t
      <3>1. ToldOf(thread'[u], thread[u], selected)
        BY <1>5, <2>2
      <3>2. ~(thread[u].selected \subseteq raced) /\ q.service \notin thread[u].missed
        BY <1>2, <3>1 DEF ToldOf
      <3>3. thread[u].ports[q.service] = q.port
        BY <2>1, <3>2 DEF LocalInv, PortsAgree, StartsKnowRunning
      <3> QED BY <3>1, <3>3 DEF ToldOf
    <2>3. CASE u = t
      <3>1. HasEntry(q)
        BY <2>1 DEF LocalInv, AllHaveEntries
      <3>2. CASE current # 0 /\ members[current][q.service].process = q.id
        <4>1. cluster[q.service].process = q.id
          BY <1>1, <3>2
        <4>2. Running(cluster[q.service])
          BY <2>1, <4>1 DEF Running
        <4> QED BY <1>4, <1>5, <1>13, <2>1, <2>3, <4>1, <4>2
      <3>3. ASSUME NEW v \in Threads, thread[v].old.process = q.id PROVE FALSE
        <4>1. q.service \in thread[v].now /\ q.id # 0
          BY <2>1, <3>3, NumbersOfProcesses DEF LocalInv, EntriesTell
        <4>2. HandlerFits(thread[v]) /\ thread[v].old # NoEntry
          BY <3>3, <4>1, OneHandlerFits, NoEntryIsAnEntry
        <4>3. thread[v].pc \in {"replacing", "ending"}
          BY <4>2 DEF HandlerFits
        <4>4. CASE thread[v].op = "start"
          <5>1. q.service \in thread[v].selected
            BY <4>1, <4>2, <4>4 DEF HandlerFits
          <5> QED BY <1>4, <1>5, <2>3, <5>1
        <4>5. CASE thread[v].op = "stop"
          BY <1>2, <1>4, <1>5, <2>3, <4>5
        <4>6. thread[v].op \in {"start", "stop"}
          BY <4>2, <4>3 DEF HandlerFits, Handler
        <4> QED BY <4>4, <4>5, <4>6
      <3> QED BY <3>1, <3>2, <3>3 DEF HasEntry
    <2> QED BY <2>2, <2>3
  <1>16. PortsAreKnown'
    BY <1>1, <1>2 DEF LocalInv, PortsAgree, PortsAreKnown
  <1> QED BY <1>8, <1>9, <1>10, <1>11, <1>12, <1>14, <1>15, <1>16 DEF LocalInv, PortsAgree

-----------------------------------------------------------------------------
(* A service is started.                                                   *)

LEMMA NotesKeepProcesses ==
    ASSUME LocalShapes, NEW t \in Threads, NEW s \in Services,
           NEW q \in NoteNewPort(t, s, alive)
    PROVE  /\ q \in ProcessRecord
           /\ \E p \in alive :
                /\ SameProcess(p, q)
                /\ s \in thread[t].fresh => p.urls = thread[t].ports \/ s \in q.stale
  <1>1. CASE s \in thread[t].fresh
    <2>1. PICK p \in alive :
             q = IF p.urls = thread[t].ports THEN p ELSE [p EXCEPT !.stale = p.stale \union {s}]
      BY <1>1 DEF NoteNewPort
    <2>2. p \in ProcessRecord
      BY DEF LocalShapes
    <2>3. CASE p.urls = thread[t].ports
      BY <2>1, <2>2, <2>3 DEF SameProcess
    <2>4. CASE p.urls # thread[t].ports
      <3>1. q = [p EXCEPT !.stale = p.stale \union {s}]
        BY <2>1, <2>4
      <3>2. q \in ProcessRecord /\ SameProcess(p, q) /\ s \in q.stale
        BY <2>2, <3>1 DEF ProcessRecord, SameProcess
      <3> QED BY <3>2
    <2> QED BY <2>3, <2>4
  <1>2. CASE s \notin thread[t].fresh
    <2>1. q \in alive
      BY <1>2 DEF NoteNewPort
    <2> QED BY <1>2, <2>1 DEF SameProcess, LocalShapes
  <1> QED BY <1>1, <1>2

LEMMA NewNumbers ==
    ASSUME LocalInv, FreeProcesses # {}, NEW id, id = AnyOf(FreeProcesses)
    PROVE  /\ id \in Processes /\ id # 0
           /\ \A p \in alive : p.id # id
           /\ \A u \in Threads : thread[u].old.process # id
           /\ \A c \in Clusters, s \in Services : members[c][s].process # id
  <1>1. id \in FreeProcesses
    BY DEF AnyOf
  <1> QED BY <1>1, LocalAssumption DEF FreeProcesses

\* What a launch does, with the worker w and the process that may stay alive.
LEMMA LaunchDoes ==
    ASSUME LocalInv, NEW t \in Threads, Launch(t)
    PROVE  \E s, w, new, n :
             /\ s \in thread[t].now /\ thread[t].pc = "launching"
             /\ w = [process |-> new.id, port |-> new.port, backend |-> thread[t].backend]
             /\ FreeProcesses # {} /\ new = Process(t, s, AnyOf(FreeProcesses))
             /\ NoteNewPort(t, s, alive) \subseteq alive'
             /\ alive' \subseteq NoteNewPort(t, s, alive) \union {new}
             /\ members' = [members EXCEPT ![thread[t].cluster][s] = w]
             /\ n = Rest \/ n = [thread[t] EXCEPT !.pc = "starting", !.now = {}]
             /\ thread' = [thread EXCEPT ![t] = n]
             /\ UNCHANGED <<current, raced>>
  <1>1. thread[t].pc = "launching" /\ FreeProcesses # {} /\ UNCHANGED <<current, raced>>
    BY DEF Launch
  <1> PICK id : id = AnyOf(FreeProcesses)
    OBVIOUS
  <1> PICK n : n = IF thread[t].todo = {} THEN Rest ELSE [thread[t] EXCEPT !.pc = "starting", !.now = {}]
    OBVIOUS
  <1>2. PICK s \in thread[t].now :
          /\ alive' = NoteNewPort(t, s, alive)
                        \union (IF StaysAlive(t, s) THEN {Process(t, s, id)} ELSE {})
          /\ members' = [members EXCEPT ![thread[t].cluster][s] =
                [process |-> id, port |-> thread[t].ports[s], backend |-> thread[t].backend]]
          /\ thread' = [thread EXCEPT ![t] = n]
    BY DEF Launch
  <1> PICK new : new = Process(t, s, id)
    OBVIOUS
  <1>3. new.id = id /\ new.port = thread[t].ports[s]
    BY DEF Process
  <1>4. /\ NoteNewPort(t, s, alive) \subseteq alive'
        /\ alive' \subseteq NoteNewPort(t, s, alive) \union {new}
    BY <1>2
  <1> QED BY <1>1, <1>2, <1>3, <1>4, ZenonT(40)

LEMMA NewProcess ==
    ASSUME LocalInv, NEW t \in Threads, thread[t].pc = "launching", NEW s \in thread[t].now,
           FreeProcesses # {}, NEW new, new = Process(t, s, AnyOf(FreeProcesses))
    PROVE  /\ new \in ProcessRecord /\ new.id # 0
           /\ new.service = s /\ new.port = thread[t].ports[s] /\ new.urls = thread[t].ports
           /\ new.stale = thread[t].missed /\ ~new.left
           /\ \A p \in alive : p.id # new.id
           /\ \A u \in Threads : thread[u].old.process # new.id
           /\ \A c \in Clusters, r \in Services : members[c][r].process # new.id
  <1>1. PICK id : id = AnyOf(FreeProcesses)
    OBVIOUS
  <1>2. new = [id |-> id, service |-> s, port |-> thread[t].ports[s], backend |-> thread[t].backend,
               urls |-> thread[t].ports, stale |-> thread[t].missed, left |-> FALSE]
    BY <1>1 DEF Process
  <1>3. HandlerFits(thread[t]) /\ thread[t].op = "start"
    BY OneHandlerFits DEF HandlerFits, AtStart
  <1>4. /\ s \in Services /\ thread[t].ports \in [Services -> Ports] /\ thread[t].backend \in Backends
        /\ thread[t].missed \subseteq Services
    BY <1>3 DEF HandlerFits, Handler
  <1>5. /\ id \in Processes /\ id # 0
        /\ \A p \in alive : p.id # id
        /\ \A u \in Threads : thread[u].old.process # id
        /\ \A c \in Clusters, r \in Services : members[c][r].process # id
    BY <1>1, NewNumbers
  <1>6. /\ new.id = id /\ new.service = s /\ new.port = thread[t].ports[s]
        /\ new.urls = thread[t].ports /\ new.stale = thread[t].missed /\ ~new.left
    BY <1>2
  <1>7. new \in ProcessRecord
    BY <1>2, <1>4, <1>5 DEF ProcessRecord
  <1> QED BY <1>5, <1>6, <1>7

\* q was there before, or is noted to have missed the new port of s.
Noted(t, s, q) ==
  \E p \in alive : /\ SameProcess(p, q)
                   /\ s \in thread[t].fresh => p.urls = thread[t].ports \/ s \in q.stale

HasLaunched(t, s, new, n) ==
  /\ s \in thread[t].now /\ s \in thread[t].selected /\ s \in Services
  /\ thread[t].pc = "launching" /\ thread[t].op = "start" /\ thread[t].old = NoEntry
  /\ thread[t].cluster \in Clusters
  /\ new \in ProcessRecord /\ new.id # 0
  /\ new.service = s /\ new.port = thread[t].ports[s] /\ new.urls = thread[t].ports
  /\ new.stale = thread[t].missed /\ ~new.left
  /\ \A p \in alive : p.id # new.id
  /\ \A u \in Threads : thread[u].old.process # new.id
  /\ \A c \in Clusters, r \in Services : members[c][r].process # new.id
  /\ \A q \in alive' : q \in ProcessRecord /\ (q = new \/ Noted(t, s, q))
  /\ members' \in [Clusters -> [Services -> Entry]]
  /\ members'[thread[t].cluster][s].process = new.id
  /\ members'[thread[t].cluster][s].port = new.port
  /\ \A c \in Clusters, r \in Services :
        (c = thread[t].cluster /\ r = s) \/ members'[c][r] = members[c][r]
  /\ HandlerFits(n) /\ Moves(n, thread[t]) /\ n.old = NoEntry
  /\ n.pc \notin {"replacing", "launching"} /\ n.op # "stop"
  /\ thread' = [thread EXCEPT ![t] = n]
  /\ UNCHANGED <<current, raced>>

LEMMA LaunchIsLaunched ==
    ASSUME LocalInv, NEW t \in Threads, Launch(t)
    PROVE  \E s, new, n : HasLaunched(t, s, new, n)
  <1>1. PICK s, w, new, n :
             /\ s \in thread[t].now /\ thread[t].pc = "launching"
             /\ w = [process |-> new.id, port |-> new.port, backend |-> thread[t].backend]
             /\ FreeProcesses # {} /\ new = Process(t, s, AnyOf(FreeProcesses))
             /\ NoteNewPort(t, s, alive) \subseteq alive'
             /\ alive' \subseteq NoteNewPort(t, s, alive) \union {new}
             /\ members' = [members EXCEPT ![thread[t].cluster][s] = w]
             /\ n = Rest \/ n = [thread[t] EXCEPT !.pc = "starting", !.now = {}]
             /\ thread' = [thread EXCEPT ![t] = n]
             /\ UNCHANGED <<current, raced>>
    BY LaunchDoes, Zenon
  <1>2. /\ new \in ProcessRecord /\ new.id # 0
        /\ new.service = s /\ new.port = thread[t].ports[s] /\ new.urls = thread[t].ports
        /\ new.stale = thread[t].missed /\ ~new.left
        /\ \A p \in alive : p.id # new.id
        /\ \A u \in Threads : thread[u].old.process # new.id
        /\ \A c \in Clusters, r \in Services : members[c][r].process # new.id
    BY <1>1, NewProcess
  <1> PICK th : th = thread[t]
    OBVIOUS
  <1>3. HandlerFits(th) /\ th \in Handler
    BY OneHandlerFits
  <1>4. /\ s \in th.selected /\ s \in Services /\ th.op = "start" /\ th.old = NoEntry
        /\ th.cluster \in Clusters /\ th.backend \in Backends
    BY <1>1, <1>3 DEF HandlerFits, Handler, AtStart
  <1>5. ASSUME NEW q \in alive' PROVE q \in ProcessRecord /\ (q = new \/ Noted(t, s, q))
    <2>1. q = new \/ q \in NoteNewPort(t, s, alive)
      BY <1>1
    <2>2. CASE q \in NoteNewPort(t, s, alive)
      BY <1>4, <2>2, NotesKeepProcesses DEF Noted, LocalInv
    <2> QED BY <1>2, <2>1, <2>2
  <1>6. w \in Entry /\ w.process = new.id /\ w.port = new.port
    BY <1>1, <1>2, <1>4 DEF Entry, ProcessRecord
  <1>7. /\ members' \in [Clusters -> [Services -> Entry]]
        /\ members'[th.cluster][s] = w
        /\ \A c \in Clusters, r \in Services :
              (c = th.cluster /\ r = s) \/ members'[c][r] = members[c][r]
    <2>1. members \in [Clusters -> [Services -> Entry]]
      BY DEF LocalInv, LocalShapes
    <2>2. members' = [members EXCEPT ![th.cluster][s] = w]
      BY <1>1
    <2> QED BY <1>4, <1>6, <2>1, <2>2
  <1>8. HandlerFits(n) /\ Moves(n, th) /\ n.old = NoEntry
        /\ n.pc \notin {"replacing", "launching"} /\ n.op # "stop"
    <2>1. CASE n = Rest
      BY <2>1, RestFits DEF Moves
    <2>2. CASE n = [th EXCEPT !.pc = "starting", !.now = {}]
      <3>1. /\ n \in Handler /\ n.pc = "starting" /\ n.now = {} /\ n.todo = th.todo
            /\ n.old = th.old /\ n.backend = th.backend /\ SameRequest(n, th)
        BY <1>3, <2>2 DEF Handler, AtStart, SameRequest
      <3>2. HandlerFits(n)
        BY <1>3, <1>4, <3>1 DEF HandlerFits, AtStart, SameRequest
      <3> QED BY <1>4, <3>1, <3>2 DEF Moves, SameRequest
    <2> QED BY <1>1, <2>1, <2>2
  <1>9. thread' = [thread EXCEPT ![t] = n] /\ UNCHANGED <<current, raced>>
    BY <1>1
  <1>10. s \in thread[t].now /\ thread[t].pc = "launching"
    BY <1>1
  <1>11. HasLaunched(t, s, new, n)
    BY <1>2, <1>4, <1>5, <1>6, <1>7, <1>8, <1>9, <1>10, Zenon DEF HasLaunched
  <1> QED BY <1>11, Zenon

LEMMA LaunchedOverlaps ==
    ASSUME LocalInv, NEW t \in Threads, NEW s, NEW new, NEW n, HasLaunched(t, s, new, n)
    PROVE  LocalShapes' /\ Overlaps' /\ ReplacedIsGone'
  <1>1. /\ s \in thread[t].now /\ s \in thread[t].selected /\ s \in Services
        /\ thread[t].pc = "launching" /\ thread[t].op = "start"
        /\ thread[t].cluster \in Clusters
        /\ \A q \in alive' : q \in ProcessRecord
        /\ members' \in [Clusters -> [Services -> Entry]]
        /\ \A c \in Clusters, r \in Services :
              (c = thread[t].cluster /\ r = s) \/ members'[c][r] = members[c][r]
    BY DEF HasLaunched
  <1>2. /\ HandlerFits(n) /\ Moves(n, thread[t]) /\ n.op # "stop"
        /\ n.pc \notin {"replacing", "launching"}
        /\ thread' = [thread EXCEPT ![t] = n]
        /\ current' = current /\ raced' = raced
    BY DEF HasLaunched
  <1>3. /\ thread'[t] = n /\ \A u \in Threads \ {t} : thread'[u] = thread[u]
        /\ \A u \in Threads : HandlerFits(thread[u]) /\ thread[u] \in Handler
    BY <1>2, OneHandlerFits DEF LocalInv, LocalShapes
  <1>4. LocalShapes'
    BY <1>1, <1>2, OneHandler DEF LocalInv
  <1>5. \A u \in Threads : Moves(thread'[u], thread[u])
    BY <1>2, <1>3 DEF Moves, SameRequest
  <1>6. StopsRace' /\ StartsRace' /\ StartsTell'
    BY <1>2, <1>5, RequestsStay DEF LocalInv, Overlaps
  <1>7. StartsAtCurrent'
    <2> SUFFICES ASSUME NEW u \in Threads
                 PROVE  thread'[u].selected \subseteq raced' \/ thread'[u].cluster = current'
      BY DEF StartsAtCurrent
    <2>1. thread[u].selected \subseteq raced \/ thread[u].cluster = current
      BY DEF LocalInv, Overlaps, StartsAtCurrent
    <2>2. SameRequest(thread'[u], thread[u]) \/ thread'[u].selected = {}
      BY <1>5, RestFits DEF Moves
    <2> QED BY <1>2, <2>1, <2>2 DEF SameRequest
  <1>8. StopsAtCurrent'
    <2> SUFFICES ASSUME NEW u \in Threads, thread'[u].op = "stop", current' # 0,
                        thread'[u].cluster # current',
                        NEW r \in Services, members'[current'][r] # NoEntry
                 PROVE  r \in raced'
      BY DEF StopsAtCurrent
    <2>1. thread'[u] = thread[u]
      BY <1>2, <1>3
    <2>2. thread[t].selected \subseteq raced
      BY <2>1 DEF LocalInv, Overlaps, StopsRace
    <2>3. current \in Clusters
      BY <1>2 DEF LocalInv, LocalShapes
    <2>4. CASE r = s
      BY <1>1, <1>2, <2>2, <2>4
    <2>5. CASE r # s
      <3>1. members[current][r] # NoEntry
        BY <1>1, <1>2, <2>3, <2>5
      <3> QED BY <1>2, <2>1, <3>1 DEF LocalInv, Overlaps, StopsAtCurrent
    <2> QED BY <2>4, <2>5
  <1>9. ReplacedIsGone'
    <2> SUFFICES ASSUME NEW u \in Threads, thread'[u].pc \in {"replacing", "launching"},
                        NEW r \in thread'[u].now \ raced'
                 PROVE  members'[thread'[u].cluster][r] = NoEntry
      BY DEF ReplacedIsGone
    <2>1. u # t /\ thread'[u] = thread[u]
      BY <1>2, <1>3
    <2>2. members[thread[u].cluster][r] = NoEntry
      BY <1>2, <2>1 DEF LocalInv, ReplacedIsGone
    <2>3. thread[u].op = "start"
      BY <1>3, <2>1 DEF HandlerFits, AtStart
    <2>4. r \in thread[u].selected /\ r \in Services /\ thread[u].cluster \in Clusters
      BY <1>3, <2>1, <2>3 DEF HandlerFits, Handler
    <2>5. r # s
      BY <1>1, <1>2, <2>1, <2>4 DEF LocalInv, Overlaps, StartsRace
    <2> QED BY <1>1, <2>1, <2>2, <2>4, <2>5
  <1> QED BY <1>4, <1>6, <1>7, <1>8, <1>9 DEF Overlaps

LEMMA LaunchedEntries ==
    ASSUME LocalInv, NEW t \in Threads, NEW s, NEW new, NEW n, HasLaunched(t, s, new, n)
    PROVE  EntriesTell' /\ AllHaveEntries'
  <1>1. /\ s \in thread[t].now /\ s \in thread[t].selected /\ s \in Services
        /\ thread[t].pc = "launching" /\ thread[t].old = NoEntry
        /\ thread[t].cluster \in Clusters
        /\ new.id # 0 /\ new.service = s /\ ~new.left
    BY DEF HasLaunched
  <1>2. /\ \A p \in alive : p.id # new.id
        /\ \A u \in Threads : thread[u].old.process # new.id
        /\ \A c \in Clusters, r \in Services : members[c][r].process # new.id
        /\ \A q \in alive' : q = new \/ Noted(t, s, q)
    BY DEF HasLaunched
  <1>3. /\ members'[thread[t].cluster][s].process = new.id
        /\ members'[thread[t].cluster][s].port = new.port
        /\ \A c \in Clusters, r \in Services :
              (c = thread[t].cluster /\ r = s) \/ members'[c][r] = members[c][r]
    BY DEF HasLaunched
  <1>4. /\ n.old = NoEntry /\ thread' = [thread EXCEPT ![t] = n]
        /\ current' = current /\ raced' = raced
    BY DEF HasLaunched
  <1>5. thread'[t] = n /\ \A u \in Threads \ {t} : thread'[u] = thread[u]
    BY <1>4 DEF LocalInv, LocalShapes
  <1>6. ASSUME NEW p \in alive, NEW c \in Clusters, NEW r \in Services,
               members'[c][r].process = p.id
        PROVE  members'[c][r] = members[c][r]
    BY <1>2, <1>3, <1>6
  <1>7. ASSUME NEW p \in alive, NEW u \in Threads, thread'[u].old.process = p.id
        PROVE  thread'[u] = thread[u]
    <2>1. p.id # 0
      BY NumbersOfProcesses DEF LocalInv
    <2> QED BY <1>4, <1>5, <1>7, <2>1, NoEntryIsAnEntry
  <1>8. EntriesTell'
    <2> SUFFICES ASSUME NEW q \in alive'
                 PROVE  /\ \A c \in Clusters, r \in Services :
                             members'[c][r].process = q.id =>
                               r = q.service /\ members'[c][r].port = q.port /\ ~q.left
                        /\ \A u \in Threads :
                             thread'[u].old.process = q.id => q.service \in thread'[u].now /\ ~q.left
      BY DEF EntriesTell
    <2>1. CASE q = new
      <3>1. ASSUME NEW c \in Clusters, NEW r \in Services, members'[c][r].process = q.id
            PROVE  r = q.service /\ members'[c][r].port = q.port /\ ~q.left
        BY <1>1, <1>2, <1>3, <2>1, <3>1
      <3>2. ASSUME NEW u \in Threads, thread'[u].old.process = q.id PROVE FALSE
        BY <1>1, <1>2, <1>4, <1>5, <2>1, <3>2, NoEntryIsAnEntry
      <3> QED BY <3>1, <3>2
    <2>2. CASE Noted(t, s, q)
      <3>1. PICK p \in alive : SameProcess(p, q)
        BY <2>2 DEF Noted
      <3>2. p.id = q.id /\ p.service = q.service /\ p.port = q.port /\ p.left = q.left
        BY <3>1 DEF SameProcess
      <3>3. ASSUME NEW c \in Clusters, NEW r \in Services, members'[c][r].process = q.id
            PROVE  r = q.service /\ members'[c][r].port = q.port /\ ~q.left
        <4>1. members'[c][r] = members[c][r]
          BY <1>6, <3>2, <3>3
        <4> QED BY <3>2, <3>3, <4>1 DEF LocalInv, EntriesTell
      <3>4. ASSUME NEW u \in Threads, thread'[u].old.process = q.id
            PROVE  q.service \in thread'[u].now /\ ~q.left
        <4>1. thread'[u] = thread[u]
          BY <1>7, <3>2, <3>4
        <4> QED BY <3>2, <3>4, <4>1 DEF LocalInv, EntriesTell
      <3> QED BY <3>3, <3>4
    <2> QED BY <1>2, <2>1, <2>2
  <1>9. AllHaveEntries'
    <2> SUFFICES ASSUME NEW q \in alive', Ours(q)' PROVE HasEntry(q)'
      BY DEF AllHaveEntries
    <2>1. CASE q = new
      <3>1. s \notin raced
        BY <1>1, <1>4, <2>1 DEF Ours
      <3>2. thread[t].cluster = current
        BY <1>1, <3>1 DEF LocalInv, Overlaps, StartsAtCurrent
      <3>3. current # 0
        BY <1>1, <3>2, LocalAssumption
      <3> QED BY <1>1, <1>3, <1>4, <2>1, <3>2, <3>3 DEF HasEntry
    <2>2. CASE Noted(t, s, q)
      <3>1. PICK p \in alive : SameProcess(p, q)
        BY <2>2 DEF Noted
      <3>2. p.id = q.id /\ p.service = q.service /\ p.left = q.left
        BY <3>1 DEF SameProcess
      <3>3. Ours(p) /\ HasEntry(p)
        BY <1>4, <3>2 DEF Ours, LocalInv, AllHaveEntries
      <3>4. p.id # 0 /\ p.service \in Services
        BY NumbersOfProcesses DEF LocalInv
      <3>5. CASE current # 0 /\ members[current][p.service].process = p.id
        <4>1. current \in Clusters
          BY <3>5 DEF LocalInv, LocalShapes
        <4>2. ~(current = thread[t].cluster /\ p.service = s)
          <5> SUFFICES ASSUME current = thread[t].cluster, p.service = s PROVE FALSE
            OBVIOUS
          <5>1. members[current][s] = NoEntry
            BY <1>1, <3>3 DEF LocalInv, ReplacedIsGone, Ours
          <5> QED BY <3>4, <3>5, <5>1, NoEntryIsAnEntry
        <4>3. members'[current][p.service] = members[current][p.service]
          BY <1>3, <3>4, <4>1, <4>2
        <4> QED BY <1>4, <3>2, <3>5, <4>3 DEF HasEntry
      <3>6. ASSUME NEW u \in Threads, thread[u].old.process = p.id PROVE HasEntry(q)'
        <4>1. u # t
          BY <1>1, <3>4, <3>6, NoEntryIsAnEntry
        <4> QED BY <1>5, <3>2, <3>6, <4>1 DEF HasEntry
      <3> QED BY <3>3, <3>5, <3>6 DEF HasEntry
    <2> QED BY <1>2, <2>1, <2>2
  <1> QED BY <1>8, <1>9

LEMMA LaunchedPorts ==
    ASSUME LocalInv, NEW t \in Threads, NEW s, NEW new, NEW n, HasLaunched(t, s, new, n)
    PROVE  PortsAgree'
  <1>1. /\ s \in thread[t].selected /\ s \in Services /\ thread[t].op = "start"
        /\ new.service = s /\ new.port = thread[t].ports[s] /\ new.urls = thread[t].ports
        /\ new.stale = thread[t].missed /\ ~new.left
        /\ \A q \in alive' : q = new \/ Noted(t, s, q)
    BY DEF HasLaunched
  <1>2. /\ Moves(n, thread[t]) /\ thread' = [thread EXCEPT ![t] = n]
        /\ current' = current /\ raced' = raced
    BY DEF HasLaunched
  <1>3. \A u \in Threads : \/ /\ thread'[u].selected = thread[u].selected
                              /\ thread'[u].fresh = thread[u].fresh
                              /\ thread'[u].missed = thread[u].missed
                              /\ thread'[u].ports = thread[u].ports
                           \/ thread'[u].selected = {}
    BY <1>2, RestFits DEF Moves, SameRequest, LocalInv, LocalShapes
  <1>4. ASSUME NEW u \in Threads, u # t
        PROVE  /\ thread[u].selected \subseteq thread[t].missed
               /\ thread[u].selected # {} => s \in thread[u].missed
    <2>1. thread[u].selected # {} => thread[u].op = "start"
      BY OneHandlerFits DEF HandlerFits
    <2>2. thread[u].selected \subseteq thread[t].missed
      BY <1>1, <1>4 DEF LocalInv, Overlaps, StartsTell
    <2>3. thread[u].op = "start" => thread[t].selected \subseteq thread[u].missed
      BY <1>4 DEF LocalInv, Overlaps, StartsTell
    <2> QED BY <1>1, <2>1, <2>2, <2>3
  <1>5. RunningKeepTheirs'
    <2> SUFFICES ASSUME NEW u \in Threads, NEW r \in thread'[u].selected \ (thread'[u].fresh \cup raced'),
                        NEW q \in alive', Ours(q)', q.service # r
                 PROVE  r \in q.stale \/ q.urls[r] = thread'[u].ports[r]
      BY DEF RunningKeepTheirs
    <2>1. CASE q = new
      <3>1. CASE u = t
        BY <1>1, <1>3, <2>1, <3>1
      <3>2. CASE u # t
        <4>1. r \in thread[u].selected
          BY <1>3
        <4>2. thread[u].selected \subseteq thread[t].missed
          BY <1>4, <3>2
        <4> QED BY <1>1, <2>1, <4>1, <4>2
      <3> QED BY <3>1, <3>2
    <2>2. CASE Noted(t, s, q)
      <3>1. PICK p \in alive : SameProcess(p, q)
        BY <2>2 DEF Noted
      <3>2. Ours(p) /\ p.service # r /\ r \in thread[u].selected \ (thread[u].fresh \cup raced)
        BY <1>2, <1>3, <3>1 DEF Ours, SameProcess
      <3>3. r \in p.stale \/ p.urls[r] = thread[u].ports[r]
        BY <3>2 DEF LocalInv, PortsAgree, RunningKeepTheirs
      <3> QED BY <1>3, <3>1, <3>3 DEF SameProcess
    <2> QED BY <1>1, <2>1, <2>2
  <1>6. StartsKnowRunning'
    <2> SUFFICES ASSUME NEW u \in Threads, NEW q \in alive', Ours(q)',
                        ~(thread'[u].selected \subseteq raced'), q.service \notin thread'[u].missed
                 PROVE  thread'[u].ports[q.service] = q.port
      BY DEF StartsKnowRunning
    <2>0. /\ thread[u].selected # {} /\ ~(thread[u].selected \subseteq raced)
          /\ q.service \notin thread[u].missed /\ thread'[u].ports = thread[u].ports
      BY <1>2, <1>3
    <2>1. CASE q = new
      <3>1. CASE u = t
        <4>1. thread'[u].ports = thread[t].ports
          BY <2>0, <3>1
        <4> QED BY <1>1, <2>1, <4>1
      <3>2. CASE u # t
        <4>1. s \in thread[u].missed
          BY <1>4, <2>0, <3>2
        <4> QED BY <1>1, <2>0, <2>1, <4>1
      <3> QED BY <3>1, <3>2
    <2>2. CASE Noted(t, s, q)
      <3>1. PICK p \in alive : SameProcess(p, q)
        BY <2>2 DEF Noted
      <3>2. Ours(p) /\ p.service = q.service /\ p.port = q.port
        BY <1>2, <3>1 DEF Ours, SameProcess
      <3> QED BY <2>0, <3>2 DEF LocalInv, PortsAgree, StartsKnowRunning
    <2> QED BY <1>1, <2>1, <2>2
  <1>7. PortsAreKnown'
    <2> SUFFICES ASSUME NEW p \in alive', NEW q \in alive', p.service # q.service,
                        p.service \notin raced, q.service \notin raced,
                        ~p.left, ~q.left, q.service \notin p.stale
                 PROVE  p.urls[q.service] = q.port
      BY <1>2 DEF PortsAreKnown
    <2>1. CASE p = new
      <3>1. Noted(t, s, q)
        BY <1>1, <2>1
      <3>2. PICK qq \in alive : SameProcess(qq, q)
        BY <3>1 DEF Noted
      <3>3. Ours(qq) /\ qq.service = q.service /\ qq.port = q.port
        BY <3>2 DEF Ours, SameProcess
      <3>4. ~(thread[t].selected \subseteq raced) /\ qq.service \notin thread[t].missed
        BY <1>1, <2>1, <3>3
      <3>5. thread[t].ports[qq.service] = qq.port
        BY <3>3, <3>4 DEF LocalInv, PortsAgree, StartsKnowRunning
      <3> QED BY <1>1, <2>1, <3>3, <3>5
    <2>2. CASE Noted(t, s, p)
      <3>1. PICK pp \in alive : /\ SameProcess(pp, p)
                                /\ s \in thread[t].fresh => pp.urls = thread[t].ports \/ s \in p.stale
        BY <2>2 DEF Noted
      <3>2. /\ Ours(pp) /\ pp.service = p.service /\ pp.urls = p.urls /\ pp.stale \subseteq p.stale
            /\ ~pp.left
        BY <3>1 DEF Ours, SameProcess
      <3>3. CASE q = new
        <4>1. CASE s \in thread[t].fresh
          BY <1>1, <3>1, <3>2, <3>3, <4>1
        <4>2. CASE s \notin thread[t].fresh
          <5>1. s \in thread[t].selected \ (thread[t].fresh \cup raced) /\ pp.service # s
            BY <1>1, <3>2, <3>3, <4>2
          <5>2. s \in pp.stale \/ pp.urls[s] = thread[t].ports[s]
            BY <3>2, <5>1 DEF LocalInv, PortsAgree, RunningKeepTheirs
          <5> QED BY <1>1, <3>2, <3>3, <5>2
        <4> QED BY <4>1, <4>2
      <3>4. CASE Noted(t, s, q)
        <4>1. PICK qq \in alive : SameProcess(qq, q)
          BY <3>4 DEF Noted
        <4>2. qq.service = q.service /\ qq.port = q.port /\ ~qq.left
          BY <4>1 DEF SameProcess
        <4>3. /\ pp.service # qq.service /\ {pp.service, qq.service} \intersect raced = {}
              /\ qq.service \notin pp.stale
          BY <3>2, <4>2
        <4>4. pp.urls[qq.service] = qq.port
          BY <3>2, <4>2, <4>3 DEF LocalInv, PortsAgree, PortsAreKnown
        <4> QED BY <3>2, <4>2, <4>4
      <3> QED BY <1>1, <3>3, <3>4
    <2> QED BY <1>1, <2>1, <2>2
  <1> QED BY <1>5, <1>6, <1>7 DEF PortsAgree

LEMMA LaunchKeeps ==
    ASSUME LocalInv, NEW t \in Threads, Launch(t)
    PROVE  LocalInv'
  <1>1. PICK s, new, n : HasLaunched(t, s, new, n)
    BY LaunchIsLaunched, Zenon
  <1>2. LocalShapes' /\ Overlaps' /\ ReplacedIsGone'
    BY <1>1, LaunchedOverlaps, Zenon
  <1>3. EntriesTell' /\ AllHaveEntries'
    BY <1>1, LaunchedEntries, Zenon
  <1>4. PortsAgree'
    BY <1>1, LaunchedPorts, Zenon
  <1> QED BY <1>2, <1>3, <1>4 DEF LocalInv

-----------------------------------------------------------------------------
(* The theorems.                                                           *)

LEMMA LocalInitHolds == LocalInit => LocalInv
  <1> SUFFICES ASSUME LocalInit PROVE LocalInv
    OBVIOUS
  <1>1. /\ current = 0 /\ alive = {} /\ raced = {}
        /\ members = [c \in Clusters |-> [s \in Services |-> NoEntry]]
        /\ thread = [t \in Threads |-> Rest]
    BY DEF LocalInit
  <1>2. /\ \A t \in Threads : thread[t] = Rest
        /\ Rest \in Handler
    BY <1>1, RestFits DEF HandlerFits
  <1>3. LocalShapes
    <2>1. members \in [Clusters -> [Services -> Entry]]
      BY <1>1, NoEntryIsAnEntry
    <2>2. thread \in [Threads -> Handler]
      BY <1>1, <1>2
    <2>3. \A t \in Threads : HandlerFits(thread[t])
      BY <1>2, RestFits
    <2> QED BY <1>1, <2>1, <2>2, <2>3 DEF LocalShapes
  <1>4. Overlaps
    BY <1>1, <1>2, RestFits
       DEF Overlaps, StopsRace, StartsRace, StartsTell, StartsAtCurrent, StopsAtCurrent
  <1>5. EntriesTell /\ AllHaveEntries
    BY <1>1 DEF EntriesTell, AllHaveEntries
  <1>6. ReplacedIsGone
    BY <1>2, RestFits DEF ReplacedIsGone
  <1>7. PortsAgree
    BY <1>1 DEF PortsAgree, RunningKeepTheirs, StartsKnowRunning, PortsAreKnown
  <1> QED BY <1>3, <1>4, <1>5, <1>6, <1>7 DEF LocalInv

LEMMA LocalRestKeeps ==
    ASSUME LocalInv, UNCHANGED localVars
    PROVE  LocalInv'
  BY DEF LocalInv, localVars, LocalShapes, HandlerFits, Overlaps, StopsRace, StartsRace, StartsTell,
         StartsAtCurrent, StopsAtCurrent, EntriesTell, ReplacedIsGone, AllHaveEntries, Ours, HasEntry,
         PortsAgree, RunningKeepTheirs, StartsKnowRunning, PortsAreKnown

LEMMA LocalNextKeeps == LocalInv /\ [LocalNext]_localVars => LocalInv'
  <1> SUFFICES ASSUME LocalInv, [LocalNext]_localVars PROVE LocalInv'
    OBVIOUS
  <1>1. ASSUME NEW t \in Threads, NEW selected \in SUBSET Services \ {{}},
               NEW backend \in Backends, StartLocal(t, selected, backend)
        PROVE  LocalInv'
    BY <1>1, StartLocalKeeps
  <1>2. ASSUME NEW t \in Threads, NEW selected \in SUBSET Services \ {{}}, StopLocal(t, selected)
        PROVE  LocalInv'
    BY <1>2, StopLocalKeeps
  <1>3. ASSUME NEW t \in Threads, NEW ok \in BOOLEAN, EnsureNetwork(t, ok)
        PROVE  LocalInv'
    BY <1>3, NetworkKeeps
  <1>4. ASSUME NEW t \in Threads, NEW s \in Services, NextService(t, s) \/ PopWorker(t, s)
        PROVE  LocalInv'
    BY <1>4, NextServiceKeeps
  <1>5. ASSUME NEW t \in Threads, NEW s \in Services, PopRaises(t, s)
        PROVE  LocalInv'
    BY <1>5, RaiseKeeps
  <1>6. ASSUME NEW t \in Threads, StopWorker(t) PROVE LocalInv'
    BY <1>6, StopWorkerKeeps
  <1>7. ASSUME NEW t \in Threads, Launch(t) PROVE LocalInv'
    BY <1>7, LaunchKeeps
  <1>8. ASSUME NEW t \in Threads, LaunchRaises(t) PROVE LocalInv'
    BY <1>8, RaiseKeeps
  <1>9. ASSUME NEW t \in Threads, StopEnds(t) PROVE LocalInv'
    BY <1>9, StopEndsKeeps
  <1>10. CASE Close
    BY <1>10, CloseKeeps
  <1>11. CASE ServerCrash
    BY <1>11, CrashKeepsLocal
  <1>12. ASSUME NEW p \in alive, Dies(p) PROVE LocalInv'
    BY <1>12, DiesKeeps
  <1>13. CASE UNCHANGED localVars
    BY <1>13, LocalRestKeeps
  <1> QED BY <1>1, <1>2, <1>3, <1>4, <1>5, <1>6, <1>7, <1>8, <1>9, <1>10, <1>11, <1>12, <1>13
          DEF LocalNext

\* Whatever starts, stops, failures and ends come, and however they overlap, a service
\* that runs is in reach of a stop, unless a start of it overlapped a stop or another
\* start of it, or the server crashed.  (_start_local, _stop_local, stop_project.)
THEOREM NoWorkerIsLost == LocalSpec => []NoWorkerLost
  <1>1. LocalInv => NoWorkerLost
    BY DEF LocalInv, AllHaveEntries, Ours, HasEntry, NoWorkerLost, InReach
  <1> QED BY <1>1, LocalInitHolds, LocalNextKeeps, PTL DEF LocalSpec

\* A restart of a running service keeps its port, so that what runs knows the ports of
\* what runs, except of a service that somebody else started anew meanwhile.
\* (_resolve_ports, _service_env.)
THEOREM PortsStayKnown == LocalSpec => []PortsAreKnown
  <1>1. LocalInv => PortsAreKnown
    BY DEF LocalInv, PortsAgree
  <1> QED BY <1>1, LocalInitHolds, LocalNextKeeps, PTL DEF LocalSpec
=============================================================================
