------------------------------- MODULE LiveRuns -------------------------------
(***************************************************************************)
(* Live runs over the project WebSocket: LiveRunManager and the part of    *)
(* RealtimeService.handle_project_socket that drives it (realtime.py), on  *)
(* top of CodeRunner.prepare_live_run and the shared RunScheduler.         *)
(*                                                                         *)
(* Per client there is one handler thread. It reads one message at a time  *)
(* and executes it to its end, waiting for a lease included. A live run    *)
(* that gets a process also gets a watcher thread, which waits for the     *)
(* process or its deadline, reports the exit, returns the lease and        *)
(* forgets the session, and a pump thread, which forwards the output.      *)
(* All three send on the client's connection, and a send on a connection   *)
(* whose peer is gone may raise. A request is one run.start message.       *)
(***************************************************************************)
EXTENDS RunScheduler, Sequences

CONSTANTS
  Client,     (* WebSocket connections, each with its handler thread *)
  ClientOf,   (* the connection a run.start message arrives on       *)
  StoredLimits, (* the four limits, which stay as they are           *)
  NoRun,
  MaxChunks   (* bound: pieces of output a process writes            *)

ASSUME LiveRunsAssumption ==
  /\ ClientOf \in [Request -> Client]
  /\ StoredLimits \in [SettingKey -> Int]
  /\ NoRun \notin Request
  /\ MaxChunks \in Nat

VARIABLES
  conn,      (* per client: "open", "broken" (peer gone), "closed" (by us)  *)
  pc,        (* per client: where its handler thread is                     *)
  cur,       (* per client: the run.start message being executed            *)
  todo,      (* per client: stop_for_client's list of sessions              *)
  asked,     (* the run.start messages received so far                      *)
  sessions,  (* `_sessions` of LiveRunManager                               *)
  proc,      (* per run: "none", "running", "exited"                        *)
  watcher,   (* per run: where its watcher thread is; "dead": it raised     *)
  pump,      (* per run: its output thread                                  *)
  output,    (* per run: pieces of output the pump may still have to read   *)
  sent,      (* history, per run: what the client has received              *)
  released   (* history, per run: how often its lease was released          *)

handlerVars == <<pc, cur, todo, asked>>
runVars == <<sessions, proc, watcher, pump>>
historyVars == <<sent, released>>
vars == <<schedulerVars, conn, handlerVars, runVars, output, historyVars>>

PC == {"receive", "acquire", "prepare", "spawn", "announce", "report",
       "report exit", "release again", "error", "cleanup", "done", "aborted"}
RunsOf(c) == {r \in Request : ClientOf[r] = c}

Init ==
  /\ SchedulerInit
  /\ settings = StoredLimits
  /\ conn = [c \in Client |-> "open"]
  /\ pc = [c \in Client |-> "receive"]
  /\ cur = [c \in Client |-> NoRun]
  /\ todo = [c \in Client |-> {}]
  /\ asked = {}
  /\ sessions = {}
  /\ proc = [r \in Request |-> "none"]
  /\ watcher = [r \in Request |-> "none"]
  /\ pump = [r \in Request |-> "none"]
  /\ output = [r \in Request |-> MaxChunks]
  /\ sent = [r \in Request |-> <<>>]
  /\ released = [r \in Request |-> 0]

-----------------------------------------------------------------------------
(* WebSocketConnection.                                                    *)

(* send_json about run r succeeds: the peer gets it, or nobody does (a     *)
(* closed connection returns at once; the kernel accepts the first bytes   *)
(* written to a broken one).                                               *)
SendOf(r, message) ==
  sent' = IF conn[ClientOf[r]] = "open" THEN [sent EXCEPT ![r] = Append(@, message)]
          ELSE sent

(* ... or it raises OSError.                                               *)
SendRaises(c) ==
  /\ conn[c] = "broken"
  /\ UNCHANGED sent

(* The peer goes away without a word, or its close frame is not read yet.  *)
PeerLeaves(c) ==
  /\ conn[c] = "open"
  /\ conn' = [conn EXCEPT ![c] = "broken"]
  /\ UNCHANGED <<schedulerVars, handlerVars, runVars, output, historyVars>>

-----------------------------------------------------------------------------
(* The handler thread: run.start.                                          *)

Goto(c, place) == pc' = [pc EXCEPT ![c] = place]

(* The handler has dealt with the message of its run, or that raised.      *)
Leave(c, place) ==
  /\ Goto(c, place)
  /\ cur' = [cur EXCEPT ![c] = NoRun]

ReleaseLease(r) ==
  /\ Release(r)
  /\ released' = [released EXCEPT ![r] = @ + 1]

NoLease == UNCHANGED <<schedulerVars, released>>

(* A run.start message; messages read from a broken connection were sent   *)
(* before it broke. An HTML preview or a syntax error is reported without  *)
(* a lease, everything else queues for one. A permission error raises.     *)
StartRun(c, r) ==
  /\ pc[c] = "receive" /\ conn[c] # "closed"
  /\ r \in RunsOf(c) \ asked
  /\ asked' = asked \cup {r}
  /\ \/ /\ cur' = [cur EXCEPT ![c] = r]
        /\ \/ Goto(c, "acquire") /\ Enqueue(r)
           \/ Goto(c, "report") /\ UNCHANGED schedulerVars
     \/ Leave(c, "error") /\ UNCHANGED schedulerVars
  /\ UNCHANGED <<conn, todo, runVars, output, historyVars>>

GetLease(c) ==
  /\ pc[c] = "acquire"
  /\ Activate(cur[c])
  /\ Goto(c, "prepare")
  /\ UNCHANGED <<conn, cur, todo, asked, runVars, output, historyVars>>

(* Mutant: prepare_live_run without its `except: release`.                 *)
PrepareKeepingLease(c) ==
  /\ pc[c] = "prepare"
  /\ \/ (Goto(c, "spawn") \/ Goto(c, "report")) /\ UNCHANGED cur
     \/ Leave(c, "error")
  /\ NoLease
  /\ UNCHANGED <<conn, todo, asked, runVars, output, sent>>

(* The rest of prepare_live_run: ready to start, or a compiler or package  *)
(* manager failed and there is only a result to report, or it raised.      *)
Prepare(c) ==
  /\ pc[c] = "prepare"
  /\ \/ (Goto(c, "spawn") \/ Goto(c, "report")) /\ UNCHANGED cur /\ NoLease
     \/ Leave(c, "error") /\ ReleaseLease(cur[c])
  /\ UNCHANGED <<conn, todo, asked, runVars, output, sent>>

(* LiveRunManager.start, `failed_returncode is not None`: run.started and  *)
(* the output, ...                                                         *)
ReportFailure(c) ==
  /\ pc[c] = "report"
  /\ \/ SendOf(cur[c], "started") /\ Goto(c, "report exit") /\ UNCHANGED cur
     \/ SendRaises(c) /\ Leave(c, "error")
  /\ UNCHANGED <<schedulerVars, conn, todo, asked, runVars, output, released>>

(* ... then _emit_exit, whose emitter comes before its try: only when it   *)
(* returns is the lease released. A run without a lease releases None.     *)
ReportFailureExit(c) ==
  /\ pc[c] = "report exit"
  /\ LET r == cur[c] IN
     \/ /\ SendOf(r, "exit")
        /\ Goto(c, "release again")
        /\ UNCHANGED cur
        /\ IF r \in held THEN ReleaseLease(r) ELSE NoLease
     \/ SendRaises(c) /\ Leave(c, "error") /\ NoLease
  /\ UNCHANGED <<conn, todo, asked, runVars, output>>

(* ... and then start() releases it itself.                                *)
ReleaseAgain(c) ==
  /\ pc[c] = "release again"
  /\ Leave(c, "receive")
  /\ IF released[cur[c]] > 0 THEN ReleaseLease(cur[c]) ELSE NoLease
  /\ UNCHANGED <<conn, todo, asked, runVars, output, sent>>

(* Mutant: the pump and the watcher start before run.started is sent.      *)
SpawnWithThreads(c) ==
  /\ pc[c] = "spawn"
  /\ proc' = [proc EXCEPT ![cur[c]] = "running"]
  /\ sessions' = sessions \cup {cur[c]}
  /\ pump' = [pump EXCEPT ![cur[c]] = "reading"]
  /\ Goto(c, "announce")
  /\ NoLease
  /\ UNCHANGED <<conn, cur, todo, asked, watcher, output, sent>>

(* Popen or create_pty_process, and the entry in `_sessions`.              *)
Spawn(c) ==
  /\ pc[c] = "spawn"
  /\ LET r == cur[c] IN
     \/ /\ proc' = [proc EXCEPT ![r] = "running"]
        /\ sessions' = sessions \cup {r}
        /\ Goto(c, "announce")
        /\ UNCHANGED cur
        /\ NoLease
     \/ Leave(c, "error") /\ ReleaseLease(r) /\ UNCHANGED <<proc, sessions>>
  /\ UNCHANGED <<conn, todo, asked, watcher, pump, output, sent>>

(* run.started; only then do the pump and the watcher start.               *)
Announce(c) ==
  /\ pc[c] = "announce"
  /\ LET r == cur[c] IN
     \/ /\ SendOf(r, "started")
        /\ pump' = [pump EXCEPT ![r] = "reading"]
        /\ watcher' = [watcher EXCEPT ![r] = "watching"]
        /\ Leave(c, "receive")
     \/ SendRaises(c) /\ Leave(c, "error") /\ UNCHANGED <<pump, watcher>>
  /\ NoLease
  /\ UNCHANGED <<conn, todo, asked, sessions, proc, output>>

(* run.stop, by the owner or any teacher: SIGTERM, which a process may     *)
(* ignore. Stopping, typing into or resizing what is no session raises (a   *)
(* broken connection holds no endless supply of such messages).            *)
StopRun(c, r) ==
  /\ pc[c] = "receive" /\ conn[c] # "closed"
  /\ \E q \in RunsOf(c) : OwnerOf[q] = OwnerOf[r] \/ RoleOf[q] # "student"
  /\ \/ /\ r \in sessions /\ proc[r] = "running"
        /\ proc' = [proc EXCEPT ![r] = "exited"]
        /\ UNCHANGED pc
     \/ /\ conn[c] = "open" /\ r \in asked \ sessions
        /\ Goto(c, "error")
        /\ UNCHANGED proc
  /\ UNCHANGED <<schedulerVars, conn, cur, todo, asked, sessions, watcher, pump,
                 output, historyVars>>

-----------------------------------------------------------------------------
(* The handler thread: its end.                                            *)

(* stop_for_client takes its list of sessions under the lock.              *)
BeginCleanup(c) ==
  /\ Goto(c, "cleanup")
  /\ todo' = [todo EXCEPT ![c] = sessions \cap RunsOf(c)]

(* A message raised: the client is told, or that raises too.               *)
ReportError(c) ==
  /\ pc[c] = "error"
  /\ \/ Goto(c, "receive") /\ UNCHANGED <<todo, sent>>
     \/ SendRaises(c) /\ BeginCleanup(c)
  /\ UNCHANGED <<schedulerVars, conn, cur, asked, runVars, output, released>>

(* recv_json raises: at the end of the stream, at a close frame, which     *)
(* closes our side, or, with the client still there, at a message that is  *)
(* not JSON or a frame of a kind the server does not know.                 *)
ReceiveFails(c) ==
  /\ pc[c] = "receive" /\ conn[c] # "closed"
  /\ conn' \in {conn, [conn EXCEPT ![c] = "closed"]}
  /\ BeginCleanup(c)
  /\ UNCHANGED <<schedulerVars, cur, asked, runVars, output, historyVars>>

(* Mutant: without force, which a process may ignore.                      *)
TerminateNextGently(c, r) ==
  /\ pc[c] = "cleanup" /\ r \in todo[c]
  /\ r \in sessions
  /\ proc' \in {proc, [proc EXCEPT ![r] = "exited"]}
  /\ todo' = [todo EXCEPT ![c] = @ \ {r}]
  /\ UNCHANGED <<schedulerVars, conn, pc, cur, asked, sessions, watcher, pump,
                 output, historyVars>>

(* _terminate(force=True) for the next session of the list: kill and wait. *)
(* If the watcher has popped the session meanwhile, `_session` raises and  *)
(* the rest of the `finally` block does not happen.                        *)
TerminateNext(c, r) ==
  /\ pc[c] = "cleanup" /\ r \in todo[c]
  /\ \/ /\ r \in sessions
        /\ proc' = [proc EXCEPT ![r] = "exited"]
        /\ todo' = [todo EXCEPT ![c] = @ \ {r}]
        /\ UNCHANGED pc
     \/ /\ r \notin sessions
        /\ Goto(c, "aborted")
        /\ UNCHANGED <<proc, todo>>
  /\ UNCHANGED <<schedulerVars, conn, cur, asked, sessions, watcher, pump,
                 output, historyVars>>

EndHandler(c) ==
  /\ pc[c] = "cleanup" /\ todo[c] = {}
  /\ conn' = [conn EXCEPT ![c] = "closed"]
  /\ Goto(c, "done")
  /\ UNCHANGED <<schedulerVars, cur, todo, asked, runVars, output, historyVars>>

-----------------------------------------------------------------------------
(* The process, its pump and its watcher.                                  *)

Exit(r) ==
  /\ proc[r] = "running"
  /\ proc' = [proc EXCEPT ![r] = "exited"]
  /\ UNCHANGED <<schedulerVars, conn, handlerVars, sessions, watcher, pump,
                 output, historyVars>>

(* _pump_stream and _pump_terminal read what the process has written, if   *)
(* anything, before or after its exit. _emit_chunk drops what belongs to   *)
(* no session of `_sessions`, and a raising send ends the thread.          *)
PumpChunk(r) ==
  /\ pump[r] = "reading" /\ output[r] > 0
  /\ output' = [output EXCEPT ![r] = @ - 1]
  /\ \/ /\ IF r \in sessions THEN SendOf(r, "output") ELSE UNCHANGED sent
        /\ UNCHANGED pump
     \/ /\ r \in sessions /\ SendRaises(ClientOf[r])
        /\ pump' = [pump EXCEPT ![r] = "dead"]
  /\ UNCHANGED <<schedulerVars, conn, handlerVars, sessions, proc, watcher, released>>

WatcherAt(r, from, to) ==
  /\ watcher[r] = from
  /\ watcher' = [watcher EXCEPT ![r] = to]

(* Mutants: no deadline; a deadline that does not terminate the process.   *)
WatchEndsWithoutDeadline(r) ==
  /\ proc[r] = "exited"
  /\ WatcherAt(r, "watching", "reporting")
  /\ UNCHANGED <<schedulerVars, conn, handlerVars, sessions, proc, pump, output,
                 historyVars>>
WatchEndsWithoutKill(r) ==
  /\ WatcherAt(r, "watching", "reporting")
  /\ UNCHANGED <<schedulerVars, conn, handlerVars, sessions, proc, pump, output,
                 historyVars>>

(* The polling loop of _watch_process: the process has ended, or the       *)
(* deadline has passed and it is killed.                                   *)
WatchEnds(r) ==
  /\ WatcherAt(r, "watching", "reporting")
  /\ proc' = [proc EXCEPT ![r] = "exited"]
  /\ UNCHANGED <<schedulerVars, conn, handlerVars, sessions, pump, output,
                 historyVars>>

(* _emit_exit_from_handle emits before its try ... finally release.        *)
ReportExit(r) ==
  /\ \/ WatcherAt(r, "reporting", "releasing") /\ SendOf(r, "exit")
     \/ WatcherAt(r, "reporting", "dead") /\ SendRaises(ClientOf[r])
  /\ UNCHANGED <<schedulerVars, conn, handlerVars, sessions, proc, pump,
                 output, released>>

(* Mutant: a failing audit entry leaves without the `finally`.             *)
WatcherReleasesIfAudited(r) ==
  \/ WatcherAt(r, "releasing", "popping") /\ ReleaseLease(r)
       /\ UNCHANGED <<conn, handlerVars, sessions, proc, pump, output, sent>>
  \/ WatcherAt(r, "releasing", "dead") /\ NoLease
       /\ UNCHANGED <<conn, handlerVars, sessions, proc, pump, output, sent>>

WatcherReleases(r) ==
  /\ WatcherAt(r, "releasing", "popping")
  /\ ReleaseLease(r)
  /\ UNCHANGED <<conn, handlerVars, sessions, proc, pump, output, sent>>

WatcherPops(r) ==
  /\ WatcherAt(r, "popping", "done")
  /\ sessions' = sessions \ {r}
  /\ UNCHANGED <<schedulerVars, conn, handlerVars, proc, pump, output,
                 historyVars>>

-----------------------------------------------------------------------------
HandlerStep(c) ==
  \/ GetLease(c) \/ Prepare(c) \/ Spawn(c) \/ Announce(c)
  \/ ReportFailure(c) \/ ReportFailureExit(c) \/ ReleaseAgain(c)
  \/ ReportError(c) \/ ReceiveFails(c)
  \/ \E r \in todo[c] : TerminateNext(c, r)
  \/ EndHandler(c)

WatcherStep(r) ==
  WatchEnds(r) \/ ReportExit(r) \/ WatcherReleases(r) \/ WatcherPops(r)

Next ==
  \/ \E c \in Client :
       \/ PeerLeaves(c)
       \/ HandlerStep(c)
       \/ \E r \in Request : StartRun(c, r) \/ StopRun(c, r)
  \/ \E r \in Request : Exit(r) \/ PumpChunk(r) \/ WatcherStep(r)

(* The handler waits for a message of a client that is there.              *)
Listening(c) == pc[c] = "receive" /\ conn[c] = "open"

(* The server's threads run. Nobody has to send a message, readable or     *)
(* not, leave, or let a process write or end by itself: a watcher's        *)
(* deadline ends it.                                                       *)
Fairness ==
  /\ \A c \in Client : WF_vars(~Listening(c) /\ HandlerStep(c))
  /\ \A r \in Request : WF_vars(WatcherStep(r))

SafeSpec == Init /\ [][Next]_vars
Spec == SafeSpec /\ Fairness

-----------------------------------------------------------------------------
(* Type correctness of the threads, the sessions and the history.          *)
TypeOK ==
  /\ SchedulerTypeOK
  /\ conn \in [Client -> {"open", "broken", "closed"}]
  /\ pc \in [Client -> PC]
  /\ cur \in [Client -> Request \cup {NoRun}]
  /\ todo \in [Client -> SUBSET Request]
  /\ asked \subseteq Request
  /\ sessions \subseteq Request
  /\ proc \in [Request -> {"none", "running", "exited"}]
  /\ watcher \in [Request -> {"none", "watching", "reporting", "releasing",
                              "popping", "done", "dead"}]
  /\ pump \in [Request -> {"none", "reading", "dead"}]
  /\ output \in [Request -> 0..MaxChunks]
  /\ sent \in [Request -> Seq({"started", "output", "exit"})]
  /\ released \in [Request -> Nat]

(* However often a lease is released, the counters never say that more     *)
(* executions are under way than there are: the clamped decrements of      *)
(* release() cannot make acquire() turn away a request that has room.      *)
NeverOvercounts ==
  /\ activeTotal <= Cardinality(held)
  /\ \A o \in Owner : activeByOwner[o] <= Cardinality(HeldBy(o))

(* The only way the counters of acquire() and release() part from the      *)
(* leases that are out is the second release of a failed preparation: a    *)
(* watcher, an error path and a failure report each return a lease once.   *)
ExactUnlessReleasedTwice ==
  (\A r \in Request : released[r] <= 1) =>
    /\ activeTotal = Cardinality(held)
    /\ \A o \in Owner : activeByOwner[o] = Cardinality(HeldBy(o))

KeptByHandler(r) ==
  LET c == ClientOf[r] IN
    cur[c] = r /\ pc[c] \in {"prepare", "spawn", "announce", "report", "report exit"}
KeptByWatcher(r) == watcher[r] \in {"watching", "reporting", "releasing"}

(* While the client is there, every lease that is out is in the hands of   *)
(* one thread that is going to return it: no path through start() or       *)
(* _watch_process forgets it or hands it to two. (With the client gone a   *)
(* raising send in start() or before the try of _emit_exit loses it.)      *)
LeaseHasKeeper ==
  \A r \in held :
    \/ conn[ClientOf[r]] # "open"
    \/ KeptByHandler(r) /\ ~ KeptByWatcher(r)
    \/ KeptByWatcher(r) /\ ~ KeptByHandler(r)

(* What runs can be stopped: the watcher forgets a session only after its  *)
(* process has ended, so run.stop and the cleanup find every running one.  *)
RunningIsStoppable == \A r \in Request : proc[r] = "running" => r \in sessions

(* A handler thread that reaches the end of its finally block leaves no    *)
(* process of its client behind, whatever its watchers do in the meantime. *)
CleanEndKillsRuns ==
  \A c \in Client : pc[c] = "done" => \A r \in RunsOf(c) : proc[r] # "running"

IndicesOf(r, message) == {i \in DOMAIN sent[r] : sent[r][i] = message}

(* The protocol a client sees, with three threads sending: run.started     *)
(* comes first and once, run.exit at most once.                            *)
RunProtocol ==
  \A r \in Request :
    /\ sent[r] # <<>> => IndicesOf(r, "started") = {1}
    /\ Cardinality(IndicesOf(r, "exit")) <= 1

(* A granted lease comes back as long as its client stays: the process is  *)
(* ended by the deadline if by nothing else, and its watcher releases.     *)
LeaseReturns ==
  \A r \in Request :
    r \in held ~> r \notin held \/ conn[ClientOf[r]] # "open"

(* A process ends by its deadline or with its client, unless its handler   *)
(* thread cannot clean up: it aborted, or waits for another lease.         *)
RunEnds ==
  \A r \in Request :
    proc[r] = "running" ~>
      \/ proc[r] = "exited"
      \/ pc[ClientOf[r]] \in {"aborted", "acquire"}

-----------------------------------------------------------------------------
(* What the documentation and a test say.                                  *)

(* wiki/Lehrer_Admin/04_Systembetrieb_Sicherheit_und_Workspaces.md: the    *)
(* scheduler limits simultaneous executions globally.                      *)
GlobalLimitKept == Cardinality(held) <= Limit("global")

(* wiki/Lehrer_Admin/01_Serverstart_und_Bootstrap.md: there is a timeout   *)
(* for live sessions, so every process of one ends.                        *)
LiveRunsTimeOut == \A r \in Request : proc[r] = "running" ~> proc[r] = "exited"
=============================================================================
