------------------------------ MODULE Playground -----------------------------
(***************************************************************************)
(* The distributed playground in local mode                                *)
(* (DistributedPlaygroundService, distributed.py): the server itself runs  *)
(* the services of a project as processes or containers and keeps them in  *)
(* _clusters, a dictionary of dictionaries that all handler threads change *)
(* without a lock.  The remote mode is module DispatchJobs.                *)
(*                                                                         *)
(* The module has one project.  A cluster is the dictionary of its         *)
(* services; clusters are numbered because a start may hold one that a     *)
(* stop has meanwhile taken out of _clusters.  Starting and stopping one   *)
(* service takes seconds, so every service is a step of its own.           *)
(***************************************************************************)
EXTENDS Naturals, FiniteSets

CONSTANTS
    Threads,        \* handler threads
    Services,       \* the services of topology.json
    FixedPort,      \* FixedPort[s]: the port it gives for a service, or 0
    Ports,          \* the ports of the machine
    Backends,       \* what resolve_backend may return
    Processes,      \* bound: numbers of processes
    Clusters,       \* bound: numbers of clusters
    MaxRequests,    \* bound: starts and stops
    MaxFaults       \* bound: services that end by themselves, crashes

\* Numbers of processes and clusters; 0 stands for none.
ASSUME LocalAssumption == 0 \notin Processes /\ 0 \notin Clusters

VARIABLES
    current,    \* the cluster in _clusters, or 0
    members,    \* members[c][s]: the worker of a service in a cluster, or NoEntry
    alive,      \* the processes that run
    network,    \* the container network of the project exists
    thread,     \* what each handler thread is doing
    raced,      \* services started while somebody else started or stopped
    requests, faults

localVars == <<current, members, alive, network, thread, raced, requests, faults>>

NoEntry == [process |-> 0, port |-> 0, backend |-> "none"]
Rest == [pc |-> "idle", op |-> "none", selected |-> {}, cluster |-> 0, backend |-> "none",
         ports |-> [s \in Services |-> 0], fresh |-> {}, todo |-> {}, now |-> {},
         old |-> NoEntry, missed |-> {}]

Running(w) == \E p \in alive : p.id = w.process
Busy(t) == thread[t].pc # "idle"
EmptyAlways(c) == TRUE    \* mutant: every stop forgets the cluster
Empty(c) == c = 0 \/ \A s \in Services : members[c][s] = NoEntry

\* Numbers nobody refers to; a new process or cluster is given one of them.
FreeProcesses ==
    {id \in Processes : /\ \A p \in alive : p.id # id
                        /\ \A t \in Threads : thread[t].old.process # id
                        /\ \A c \in Clusters, s \in Services : members[c][s].process # id}
FreeClusters == Clusters \ ({current} \union {thread[t].cluster : t \in Threads})
AnyOf(numbers) == CHOOSE n \in numbers : TRUE

-----------------------------------------------------------------------------
(* Starting. *)

\* mutant: the port of a running service is not kept
PortsChosenAnew(cluster) ==
    {f \in [Services -> Ports] :
        \A s \in Services : IF FixedPort[s] # 0 THEN f[s] = FixedPort[s]
                            ELSE \A p \in alive : p.port # f[s]}
\* _resolve_ports: a running service keeps its port; else the one of the topology,
\* else any that is free at this moment (_find_free_port).
ResolvedPorts(cluster) ==
    {f \in [Services -> Ports] :
        \A s \in Services :
            IF Running(cluster[s]) THEN f[s] = cluster[s].port
            ELSE IF FixedPort[s] # 0 THEN f[s] = FixedPort[s]
            ELSE \A p \in alive : p.port # f[s]}

\* Services for which a new request races with those under way: a stop with the
\* starts, a start with the stops and with the starts of the same services.
NewRaces(op, selected) ==
    UNION {IF op = "start" /\ thread[t].op = "start" THEN selected \intersect thread[t].selected
           ELSE IF op = "start" THEN selected
           ELSE IF thread[t].op = "start" THEN thread[t].selected ELSE {}
           : t \in {u \in Threads : Busy(u)}}

\* Two starts under way may each miss the ports of the other's services.
TellOthers(t, selected) ==
    [u \in Threads |-> IF thread[u].op = "start"
                       THEN [thread[u] EXCEPT !.missed = @ \union selected] ELSE thread[u]]
StartedBesides(t) == UNION {thread[u].selected : u \in {v \in Threads : thread[v].op = "start"}}

\* What a start writes down, with the ports it has chosen for the services of c.
NewStart(t, selected, backend, c, cluster, ports) ==
    [Rest EXCEPT !.pc = IF backend = "container" THEN "network" ELSE "starting",
                 !.op = "start", !.selected = selected, !.todo = selected,
                 !.cluster = c, !.backend = backend, !.ports = ports,
                 !.missed = StartedBesides(t),
                 !.fresh = {s \in Services : ~Running(cluster[s])}]

\* _start_local up to the network: the cluster is found or made, ports are chosen
\* for all services, also for those that are not started.
StartLocal(t, selected, backend) ==
    /\ ~Busy(t) /\ requests < MaxRequests
    /\ current = 0 => FreeClusters # {}
    /\ requests' = requests + 1
    /\ LET c == IF current = 0 THEN AnyOf(FreeClusters) ELSE current
           cluster == IF current = 0 THEN [s \in Services |-> NoEntry] ELSE members[c]
       IN /\ current' = c
          /\ members' = [members EXCEPT ![c] = cluster]
          /\ \E ports \in ResolvedPorts(cluster) :
                thread' = [TellOthers(t, selected) EXCEPT
                    ![t] = NewStart(t, selected, backend, c, cluster, ports)]
    /\ raced' = raced \union NewRaces("start", selected)
    /\ UNCHANGED <<alive, network, faults>>

\* _ensure_network, without which nothing is started.
EnsureNetwork(t, ok) ==
    /\ thread[t].pc = "network"
    /\ network' = (network \/ ok)
    /\ thread' = [thread EXCEPT ![t] = IF network \/ ok THEN [@ EXCEPT !.pc = "starting"] ELSE Rest]
    /\ UNCHANGED <<current, members, alive, raced, requests, faults>>

\* The worker of a service is taken out of the cluster, to be stopped.
TakeOut(t, s, pc) ==
    /\ members' = [members EXCEPT ![thread[t].cluster][s] = NoEntry]
    /\ thread' = [thread EXCEPT ![t] = [@ EXCEPT !.pc = pc, !.now = {s}, !.todo = thread[t].todo \ {s},
                                                 !.old = members[thread[t].cluster][s]]]

\* The next service; its old worker, running or not, is stopped first.
NextService(t, s) ==
    /\ thread[t].pc = "starting" /\ s \in thread[t].todo
    /\ TakeOut(t, s, IF members[thread[t].cluster][s] = NoEntry THEN "launching" ELSE "replacing")
    /\ UNCHANGED <<current, alive, network, raced, requests, faults>>

\* _stop_worker: the container of that name, whoever has started it, and the
\* process, with terminate and, if that does not help, kill.
Survivors(w, s) ==
    {p \in alive : /\ p.id # w.process
                   /\ ~(w.backend = "container" /\ p.backend = "container" /\ p.service = s)}

StopWorker(t) ==
    /\ thread[t].pc \in {"replacing", "ending"}
    /\ \E s \in thread[t].now : alive' = Survivors(thread[t].old, s)
    /\ thread' = [thread EXCEPT ![t] =
            [@ EXCEPT !.pc = IF thread[t].pc = "replacing" THEN "launching" ELSE "stopping",
                      !.old = NoEntry]]
    /\ UNCHANGED <<current, members, network, raced, requests, faults>>

\* A process that cannot have its port, its name or its network ends at once.
StaysAlive(t, s) ==
    LET th == thread[t]
    IN /\ \A p \in alive : p.port # th.ports[s]
       /\ th.backend = "container" =>
             network /\ \A p \in alive : p.backend = "container" => p.service # s

\* _service_env: a service learns the ports of all services when it is started.
\* For the properties it is noted whose port somebody has chosen anew since then.
Process(t, s, id) ==
    [id |-> id, service |-> s, port |-> thread[t].ports[s], backend |-> thread[t].backend,
     urls |-> thread[t].ports, stale |-> thread[t].missed, left |-> FALSE]

\* The port of a service that did not run is news for those started before.
NoteNewPort(t, s, ps) ==
    IF s \in thread[t].fresh
    THEN {IF p.urls = thread[t].ports THEN p ELSE [p EXCEPT !.stale = @ \union {s}] : p \in ps}
    ELSE ps
\* The workspace is copied anew, the process started and put into the cluster the
\* start has found at its beginning.
Launch(t) ==
    /\ thread[t].pc = "launching" /\ FreeProcesses # {}
    /\ \E s \in thread[t].now :
         LET id == AnyOf(FreeProcesses)
             w == [process |-> id, port |-> thread[t].ports[s], backend |-> thread[t].backend]
         IN /\ alive' = NoteNewPort(t, s, alive)
                        \union (IF StaysAlive(t, s) THEN {Process(t, s, id)} ELSE {})
            /\ members' = [members EXCEPT ![thread[t].cluster][s] = w]
            /\ thread' = [thread EXCEPT ![t] =
                             IF @.todo = {} THEN Rest ELSE [@ EXCEPT !.pc = "starting", !.now = {}]]
    /\ UNCHANGED <<current, network, raced, requests, faults>>

\* The copy or the command fails: the request ends there, the old worker is gone.
LaunchRaises(t) ==
    /\ thread[t].pc = "launching"
    /\ thread' = [thread EXCEPT ![t] = Rest]
    /\ UNCHANGED <<current, members, alive, network, raced, requests, faults>>

-----------------------------------------------------------------------------
(* Stopping. *)

\* _stop_local: the names are listed once; no names asked for means all.
StopLocal(t, selected) ==
    /\ ~Busy(t) /\ requests < MaxRequests
    /\ requests' = requests + 1
    /\ thread' = [thread EXCEPT ![t] =
            [Rest EXCEPT !.pc = "stopping", !.op = "stop", !.cluster = current,
                         !.todo = IF current = 0 THEN {}
                                  ELSE {s \in selected : members[current][s] # NoEntry}]]
    /\ raced' = raced \union NewRaces("stop", selected)
    /\ UNCHANGED <<current, members, alive, network, faults>>

PopWorker(t, s) ==
    /\ thread[t].pc = "stopping" /\ s \in thread[t].todo
    /\ members[thread[t].cluster][s] # NoEntry
    /\ TakeOut(t, s, "ending")
    /\ UNCHANGED <<current, alive, network, raced, requests, faults>>

\* Somebody else has taken the worker meanwhile: pop raises KeyError.
PopRaises(t, s) ==
    /\ thread[t].pc = "stopping" /\ s \in thread[t].todo
    /\ members[thread[t].cluster][s] = NoEntry
    /\ thread' = [thread EXCEPT ![t] = Rest]
    /\ UNCHANGED <<current, members, alive, network, raced, requests, faults>>

\* An empty cluster leaves _clusters, whichever is there by now, and takes the
\* network with it unless a container is still attached.
StopEnds(t) ==
    /\ thread[t].pc = "stopping" /\ thread[t].todo = {}
    /\ current' = IF Empty(thread[t].cluster) THEN 0 ELSE current
    /\ network' = /\ network
                  /\ Empty(thread[t].cluster) => \E p \in alive : p.backend = "container"
    /\ thread' = [thread EXCEPT ![t] = Rest]
    /\ UNCHANGED <<members, alive, raced, requests, faults>>

-----------------------------------------------------------------------------
(* The service ends, and the world around. *)

\* The server forgets everything; what runs goes on.
Forget == /\ current' = 0
          /\ members' = [c \in Clusters |-> [s \in Services |-> NoEntry]]
          /\ thread' = [t \in Threads |-> Rest]

\* close and stop_project: the workers of the cluster are stopped, then the network
\* is removed and the server exits.
Close ==
    /\ current # 0
    /\ alive' = {p \in alive : \A s \in Services : p \in Survivors(members[current][s], s)}
    /\ network' = (network /\ \E p \in alive' : p.backend = "container")
    /\ raced' = raced \union (UNION {thread[t].selected : t \in {u \in Threads : Busy(u)}})
                      \union (UNION {thread[t].now : t \in Threads})
    /\ Forget
    /\ UNCHANGED <<requests, faults>>

ServerCrash ==
    /\ faults < MaxFaults /\ faults' = faults + 1
    /\ alive' = {[p EXCEPT !.left = TRUE] : p \in alive}
    /\ Forget
    /\ UNCHANGED <<network, raced, requests>>

\* A service ends by itself.
Dies(p) ==
    /\ faults < MaxFaults /\ faults' = faults + 1
    /\ alive' = alive \ {p}
    /\ UNCHANGED <<current, members, network, thread, raced, requests>>

LocalInit ==
    /\ current = 0
    /\ members = [c \in Clusters |-> [s \in Services |-> NoEntry]]
    /\ alive = {} /\ network = FALSE
    /\ thread = [t \in Threads |-> Rest]
    /\ raced = {} /\ requests = 0 /\ faults = 0

LocalNext ==
    \/ \E t \in Threads :
          \/ \E selected \in SUBSET Services \ {{}} :
                \/ \E backend \in Backends : StartLocal(t, selected, backend)
                \/ StopLocal(t, selected)
          \/ \E ok \in BOOLEAN : EnsureNetwork(t, ok)
          \/ \E s \in Services : NextService(t, s) \/ PopWorker(t, s) \/ PopRaises(t, s)
          \/ StopWorker(t) \/ Launch(t) \/ LaunchRaises(t) \/ StopEnds(t)
    \/ Close \/ ServerCrash
    \/ \E p \in alive : Dies(p)

LocalSpec == LocalInit /\ [][LocalNext]_localVars

-----------------------------------------------------------------------------
(* What must hold. *)

\* A stop of everything reaches the process: through its entry in _clusters, for a
\* container through any entry of its service; or somebody is stopping it.
InReach(p) ==
    \/ /\ current # 0
       /\ LET w == members[current][p.service]
          IN w.process = p.id \/ (w.backend = "container" /\ p.backend = "container")
    \/ \E t \in Threads : thread[t].old.process = p.id

\* No running service gets out of reach: whatever starts, stops, failures and ends
\* come one after the other, and however stops or starts of different services
\* overlap.  Only a start that overlaps a stop or a start of the same service can
\* lose a process, and so does a crash of the server.
\* (_start_local, _stop_local, stop_project.)
NoWorkerLost == \A p \in alive : p.left \/ p.service \in raced \/ InReach(p)

\* A running service knows the port of every other one, unless that one did not run
\* when its last start chose its port, and somebody else had started the first one:
\* a restart of a running service keeps its port.  (_resolve_ports, _service_env.)
PortsAreKnown ==
    \A p, q \in alive :
        (p.service # q.service /\ {p.service, q.service} \intersect raced = {}
         /\ ~p.left /\ ~q.left /\ q.service \notin p.stale)
            => p.urls[q.service] = q.port

=============================================================================
