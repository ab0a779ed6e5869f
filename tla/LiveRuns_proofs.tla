---------------------------- MODULE LiveRuns_proofs ----------------------------
(***************************************************************************)
(* Proofs about LiveRuns for any clients, runs, limits and output: who     *)
(* returns a lease, what the counters can say, which processes can be      *)
(* found and are ended, and what a client is sent.                         *)
(***************************************************************************)
EXTENDS LiveRuns, FiniteSetTheorems, TLAPS

-----------------------------------------------------------------------------
(* The operations of the scheduler (RunScheduler) on its state.            *)

(* Each operation of the scheduler keeps its state well typed.              *)
LEMMA EnqueueType ==
  ASSUME SchedulerTypeOK, NEW r \in Request, Enqueue(r)
  PROVE  SchedulerTypeOK'
BY DEF SchedulerTypeOK, Enqueue, counterVars

LEMMA ActivateType ==
  ASSUME SchedulerTypeOK, NEW r \in Request, Activate(r)
  PROVE  SchedulerTypeOK'
<1>1. OwnerOf[r] \in Owner
  BY RequestsAreOwned
<1>2. activeByOwner' \in [Owner -> Nat]
  BY <1>1 DEF SchedulerTypeOK, Activate
<1> QED
  BY <1>2 DEF SchedulerTypeOK, Activate

LEMMA ReleaseType ==
  ASSUME SchedulerTypeOK, NEW r \in Request, Release(r)
  PROVE  SchedulerTypeOK'
<1>1. OwnerOf[r] \in Owner
  BY RequestsAreOwned
<1>2. AtLeast(0, activeTotal - 1) \in Nat
  BY DEF SchedulerTypeOK, AtLeast
<1>3. AtLeast(0, activeByOwner[OwnerOf[r]] - 1) \in Nat
  BY <1>1 DEF SchedulerTypeOK, AtLeast
<1>4. activeByOwner' \in [Owner -> Nat]
  BY <1>1, <1>3 DEF SchedulerTypeOK, Release
<1> QED
  BY <1>2, <1>4 DEF SchedulerTypeOK, Release, queueVars

LEMMA HeldByFinite ==
  ASSUME IsFiniteSet(held), NEW o
  PROVE  IsFiniteSet(HeldBy(o)) /\ Cardinality(HeldBy(o)) \in Nat
BY FS_Subset, FS_CardinalityType DEF HeldBy

-----------------------------------------------------------------------------
(* How many leases are out, in total and per owner, and what the counters  *)
(* say, after a grant and after a release.                                 *)
Mine(r, o) == IF OwnerOf[r] = o THEN 1 ELSE 0

(* A new lease is counted once in total and once for its owner.            *)
LEMMA ActivateCounts ==
  ASSUME SchedulerTypeOK, IsFiniteSet(held), waiting \cap held = {},
         NEW r \in Request, Activate(r)
  PROVE  /\ IsFiniteSet(held')
         /\ Cardinality(held') = Cardinality(held) + 1
         /\ activeTotal' = activeTotal + 1
         /\ \A o \in Owner :
              /\ Cardinality(HeldBy(o)') = Cardinality(HeldBy(o)) + Mine(r, o)
              /\ activeByOwner'[o] = activeByOwner[o] + Mine(r, o)
<1>1. r \notin held /\ held' = held \cup {r}
  BY DEF Activate, IsFirst
<1>2. IsFiniteSet(held') /\ Cardinality(held') = Cardinality(held) + 1
  BY <1>1, FS_AddElement
<1>3. ASSUME NEW o \in Owner
      PROVE  /\ Cardinality(HeldBy(o)') = Cardinality(HeldBy(o)) + Mine(r, o)
             /\ activeByOwner'[o] = activeByOwner[o] + Mine(r, o)
  <2>1. activeByOwner[o] \in Nat /\ Cardinality(HeldBy(o)) \in Nat
    BY HeldByFinite DEF SchedulerTypeOK
  <2>2. CASE OwnerOf[r] = o
    <3>1. HeldBy(o)' = HeldBy(o) \cup {r} /\ r \notin HeldBy(o)
      BY <1>1, <2>2 DEF HeldBy
    <3>2. Cardinality(HeldBy(o)') = Cardinality(HeldBy(o)) + 1
      BY <3>1, HeldByFinite, FS_AddElement
    <3>3. activeByOwner'[o] = activeByOwner[o] + 1
      BY <2>2 DEF Activate, SchedulerTypeOK
    <3> QED
      BY <2>2, <3>2, <3>3 DEF Mine
  <2>3. CASE OwnerOf[r] # o
    <3>1. HeldBy(o)' = HeldBy(o)
      BY <1>1, <2>3 DEF HeldBy
    <3>2. activeByOwner'[o] = activeByOwner[o]
      BY <2>3 DEF Activate, SchedulerTypeOK
    <3> QED
      BY <2>1, <2>3, <3>1, <3>2 DEF Mine
  <2> QED
    BY <2>2, <2>3
<1> QED
  BY <1>2, <1>3 DEF Activate

(* What release() does to the counters, whoever's lease it is given.       *)
LEMMA ReleaseClamps ==
  ASSUME SchedulerTypeOK, NEW r \in Request, Release(r)
  PROVE  /\ activeTotal' = AtLeast(0, activeTotal - 1)
         /\ \A o \in Owner :
              activeByOwner'[o] = AtLeast(0, activeByOwner[o] - Mine(r, o))
<1>1. ASSUME NEW o \in Owner
      PROVE  activeByOwner'[o] = AtLeast(0, activeByOwner[o] - Mine(r, o))
  <2>1. CASE OwnerOf[r] = o
    BY <2>1 DEF Release, SchedulerTypeOK, Mine
  <2>2. CASE OwnerOf[r] # o
    <3>1. activeByOwner'[o] = activeByOwner[o] /\ activeByOwner[o] \in Nat
      BY <2>2 DEF Release, SchedulerTypeOK
    <3> QED
      BY <2>2, <3>1 DEF Mine, AtLeast
  <2> QED
    BY <2>1, <2>2
<1> QED
  BY <1>1 DEF Release

(* Of the leases that are out, one less, if the lease was out.             *)
LEMMA ReleaseCounts ==
  ASSUME IsFiniteSet(held), NEW r \in held, Release(r)
  PROVE  /\ IsFiniteSet(held')
         /\ Cardinality(held') = Cardinality(held) - 1
         /\ Cardinality(held') \in Nat
         /\ \A o \in Owner :
              /\ Cardinality(HeldBy(o)') = Cardinality(HeldBy(o)) - Mine(r, o)
              /\ Cardinality(HeldBy(o)') \in Nat
<1>1. held' = held \ {r}
  BY DEF Release
<1>2. /\ IsFiniteSet(held')
      /\ Cardinality(held') = Cardinality(held) - 1
      /\ Cardinality(held') \in Nat
  BY <1>1, FS_RemoveElement, FS_CardinalityType
<1>3. ASSUME NEW o \in Owner
      PROVE  /\ Cardinality(HeldBy(o)') = Cardinality(HeldBy(o)) - Mine(r, o)
             /\ Cardinality(HeldBy(o)') \in Nat
  <2>1. IsFiniteSet(HeldBy(o)) /\ Cardinality(HeldBy(o)) \in Nat
    BY HeldByFinite
  <2>2. CASE OwnerOf[r] = o
    <3>1. HeldBy(o)' = HeldBy(o) \ {r} /\ r \in HeldBy(o)
      BY <1>1, <2>2 DEF HeldBy
    <3>2. /\ Cardinality(HeldBy(o)') = Cardinality(HeldBy(o)) - 1
          /\ Cardinality(HeldBy(o)') \in Nat
      BY <2>1, <3>1, FS_RemoveElement, FS_CardinalityType
    <3> QED
      BY <2>2, <3>2 DEF Mine
  <2>3. CASE OwnerOf[r] # o
    <3>1. HeldBy(o)' = HeldBy(o)
      BY <1>1, <2>3 DEF HeldBy
    <3> QED
      BY <2>1, <2>3, <3>1 DEF Mine
  <2> QED
    BY <2>2, <2>3
<1> QED
  BY <1>2, <1>3

-----------------------------------------------------------------------------
(* What the threads of a client and of a run are doing.                    *)

(* Where the handler thread is busy with a run.                            *)
Busy == {"acquire", "prepare", "spawn", "announce", "report", "report exit",
         "release again"}

(* A busy handler thread works on a run of its own client that no watcher  *)
(* has taken over.                                                         *)
HandlerHasRun ==
  \A c \in Client : pc[c] \in Busy =>
    cur[c] \in RunsOf(c) /\ cur[c] \in asked /\ watcher[cur[c]] = "none"

(* Nothing has happened to a run that was not asked for.                   *)
UnaskedUntouched ==
  \A r \in Request \ asked :
    /\ watcher[r] = "none" /\ pump[r] = "none" /\ released[r] = 0 /\ sent[r] = <<>>
    /\ r \notin waiting \cup held

Basics == TypeOK /\ HandlerHasRun /\ UnaskedUntouched

LEMMA InitBasics == Init => Basics
<1> SUFFICES ASSUME Init PROVE Basics
  OBVIOUS
<1>1. SchedulerTypeOK
  BY LiveRunsAssumption DEF Init, SchedulerInit, SchedulerTypeOK
<1> QED
  BY <1>1, LiveRunsAssumption
  DEF Init, SchedulerInit, Basics, TypeOK, HandlerHasRun, UnaskedUntouched, PC, Busy

(* The handler's current run, as a request and as its client's.            *)
LEMMA BusyRun ==
  ASSUME Basics, NEW c \in Client, pc[c] \in Busy
  PROVE  /\ cur[c] \in Request /\ ClientOf[cur[c]] = c
         /\ cur[c] \in asked /\ watcher[cur[c]] = "none"
BY DEF Basics, HandlerHasRun, RunsOf

-----------------------------------------------------------------------------
(* Type correctness, by the group of variables an action changes.          *)
HandlerTypeOK ==
  /\ conn \in [Client -> {"open", "broken", "closed"}]
  /\ pc \in [Client -> PC]
  /\ cur \in [Client -> Request \cup {NoRun}]
  /\ todo \in [Client -> SUBSET Request]
  /\ asked \subseteq Request
RunTypeOK ==
  /\ sessions \subseteq Request
  /\ proc \in [Request -> {"none", "running", "exited"}]
  /\ watcher \in [Request -> {"none", "watching", "reporting", "releasing",
                              "popping", "done", "dead"}]
  /\ pump \in [Request -> {"none", "reading", "dead"}]
  /\ output \in [Request -> 0..MaxChunks]
HistoryTypeOK ==
  /\ sent \in [Request -> Seq({"started", "output", "exit"})]
  /\ released \in [Request -> Nat]

LEMMA TypeParts ==
  TypeOK <=> SchedulerTypeOK /\ HandlerTypeOK /\ RunTypeOK /\ HistoryTypeOK
BY DEF TypeOK, HandlerTypeOK, RunTypeOK, HistoryTypeOK

LEMMA SendType ==
  ASSUME HistoryTypeOK, NEW r \in Request, NEW m \in {"started", "output", "exit"},
         SendOf(r, m)
  PROVE  sent' \in [Request -> Seq({"started", "output", "exit"})]
<1>1. Append(sent[r], m) \in Seq({"started", "output", "exit"})
  BY DEF HistoryTypeOK
<1> QED
  BY <1>1 DEF HistoryTypeOK, SendOf

LEMMA ReleasedType ==
  ASSUME HistoryTypeOK, NEW r \in Request, ReleaseLease(r)
  PROVE  released' \in [Request -> Nat]
BY DEF HistoryTypeOK, ReleaseLease

LEMMA CleanupType ==
  ASSUME HandlerTypeOK, NEW c \in Client, BeginCleanup(c)
  PROVE  pc' \in [Client -> PC] /\ todo' \in [Client -> SUBSET Request]
<1>1. sessions \cap RunsOf(c) \in SUBSET Request
  BY DEF RunsOf
<1> QED
  BY <1>1 DEF HandlerTypeOK, BeginCleanup, Goto, PC

(* The scheduler's state.                                                  *)
LEMMA NextSchedulerType == Basics /\ [Next]_vars => SchedulerTypeOK'
<1> SUFFICES ASSUME Basics, [Next]_vars PROVE SchedulerTypeOK'
  OBVIOUS
<1>f. ASSUME UNCHANGED <<waiting, ahead, activeTotal, activeByOwner, settings,
  held>> PROVE SchedulerTypeOK'
  BY <1>f DEF Basics, TypeOK, SchedulerTypeOK
<1>0. CASE UNCHANGED vars
  BY <1>0, <1>f DEF vars, schedulerVars, queueVars, counterVars
<1>1. ASSUME NEW c \in Client, PeerLeaves(c) PROVE SchedulerTypeOK'
  BY <1>1, <1>f DEF PeerLeaves, schedulerVars, counterVars, queueVars
<1>2. ASSUME NEW c \in Client, GetLease(c) PROVE SchedulerTypeOK'
  <2>1. CASE UNCHANGED schedulerVars
    BY <1>f, <2>1 DEF schedulerVars, queueVars, counterVars
  <2>2. CASE Activate(cur[c])
    BY <1>2, <2>2, ActivateType, BusyRun DEF GetLease, Busy, Basics, TypeOK
  <2> QED
    BY <1>2, <2>1, <2>2 DEF GetLease
<1>3. ASSUME NEW c \in Client, Prepare(c) PROVE SchedulerTypeOK'
  <2>1. CASE UNCHANGED schedulerVars
    BY <1>f, <2>1 DEF schedulerVars, queueVars, counterVars
  <2>2. CASE Release(cur[c])
    BY <1>3, <2>2, ReleaseType, BusyRun DEF Prepare, Busy, Basics, TypeOK
  <2> QED
    BY <1>3, <2>1, <2>2 DEF Prepare, ReleaseLease, NoLease
<1>4. ASSUME NEW c \in Client, Spawn(c) PROVE SchedulerTypeOK'
  <2>1. CASE UNCHANGED schedulerVars
    BY <1>f, <2>1 DEF schedulerVars, queueVars, counterVars
  <2>2. CASE Release(cur[c])
    BY <1>4, <2>2, ReleaseType, BusyRun DEF Spawn, Busy, Basics, TypeOK
  <2> QED
    BY <1>4, <2>1, <2>2 DEF Spawn, ReleaseLease, NoLease
<1>5. ASSUME NEW c \in Client, Announce(c) PROVE SchedulerTypeOK'
  BY <1>5, <1>f DEF Announce, NoLease, schedulerVars, counterVars, queueVars
<1>6. ASSUME NEW c \in Client, ReportFailure(c) PROVE SchedulerTypeOK'
  BY <1>6, <1>f DEF ReportFailure, schedulerVars, counterVars, queueVars
<1>7. ASSUME NEW c \in Client, ReportFailureExit(c) PROVE SchedulerTypeOK'
  <2>1. CASE UNCHANGED schedulerVars
    BY <1>f, <2>1 DEF schedulerVars, queueVars, counterVars
  <2>2. CASE Release(cur[c])
    BY <1>7, <2>2, ReleaseType, BusyRun DEF ReportFailureExit, Busy, Basics,
      TypeOK
  <2> QED
    BY <1>7, <2>1, <2>2 DEF ReportFailureExit, ReleaseLease, NoLease
<1>8. ASSUME NEW c \in Client, ReleaseAgain(c) PROVE SchedulerTypeOK'
  <2>1. CASE UNCHANGED schedulerVars
    BY <1>f, <2>1 DEF schedulerVars, queueVars, counterVars
  <2>2. CASE Release(cur[c])
    BY <1>8, <2>2, ReleaseType, BusyRun DEF ReleaseAgain, Busy, Basics, TypeOK
  <2> QED
    BY <1>8, <2>1, <2>2 DEF ReleaseAgain, ReleaseLease, NoLease
<1>9. ASSUME NEW c \in Client, ReportError(c) PROVE SchedulerTypeOK'
  BY <1>9, <1>f DEF ReportError, schedulerVars, counterVars, queueVars
<1>10. ASSUME NEW c \in Client, ReceiveFails(c) PROVE SchedulerTypeOK'
  BY <1>10, <1>f DEF ReceiveFails, schedulerVars, counterVars, queueVars
<1>11. ASSUME NEW c \in Client, NEW r, TerminateNext(c, r)
       PROVE  SchedulerTypeOK'
  BY <1>11, <1>f DEF TerminateNext, schedulerVars, counterVars, queueVars
<1>12. ASSUME NEW c \in Client, EndHandler(c) PROVE SchedulerTypeOK'
  BY <1>12, <1>f DEF EndHandler, schedulerVars, counterVars, queueVars
<1>13. ASSUME NEW c \in Client, NEW r \in Request, StartRun(c, r)
       PROVE  SchedulerTypeOK'
  <2>1. CASE UNCHANGED schedulerVars
    BY <1>f, <2>1 DEF schedulerVars, queueVars, counterVars
  <2>2. CASE Enqueue(r)
    BY <2>2, EnqueueType DEF Basics, TypeOK
  <2> QED
    BY <1>13, <2>1, <2>2 DEF StartRun
<1>14. ASSUME NEW c \in Client, NEW r \in Request, StopRun(c, r)
       PROVE  SchedulerTypeOK'
  BY <1>14, <1>f DEF StopRun, schedulerVars, counterVars, queueVars
<1>15. ASSUME NEW r \in Request, Exit(r) PROVE SchedulerTypeOK'
  BY <1>15, <1>f DEF Exit, schedulerVars, counterVars, queueVars
<1>16. ASSUME NEW r \in Request, PumpChunk(r) PROVE SchedulerTypeOK'
  BY <1>16, <1>f DEF PumpChunk, schedulerVars, counterVars, queueVars
<1>17. ASSUME NEW r \in Request, WatchEnds(r) PROVE SchedulerTypeOK'
  BY <1>17, <1>f DEF WatchEnds, schedulerVars, counterVars, queueVars
<1>18. ASSUME NEW r \in Request, ReportExit(r) PROVE SchedulerTypeOK'
  BY <1>18, <1>f DEF ReportExit, schedulerVars, counterVars, queueVars
<1>19. ASSUME NEW r \in Request, WatcherReleases(r) PROVE SchedulerTypeOK'
  <2>1. CASE UNCHANGED schedulerVars
    BY <1>f, <2>1 DEF schedulerVars, queueVars, counterVars
  <2>2. CASE Release(r)
    BY <1>19, <2>2, ReleaseType DEF WatcherReleases, Basics, TypeOK
  <2> QED
    BY <1>19, <2>1, <2>2 DEF WatcherReleases, ReleaseLease
<1>20. ASSUME NEW r \in Request, WatcherPops(r) PROVE SchedulerTypeOK'
  BY <1>20, <1>f DEF WatcherPops, schedulerVars, counterVars, queueVars
<1> QED
  BY <1>0, <1>1, <1>2, <1>3, <1>4, <1>5, <1>6, <1>7, <1>8, <1>9, <1>10, <1>11,
    <1>12, <1>13, <1>14, <1>15, <1>16, <1>17, <1>18, <1>19, <1>20
  DEF Next, HandlerStep, WatcherStep

(* The connections and handler threads.                                    *)
LEMMA NextHandlerType == Basics /\ [Next]_vars => HandlerTypeOK'
<1> SUFFICES ASSUME Basics, [Next]_vars PROVE HandlerTypeOK'
  OBVIOUS
<1>f. ASSUME UNCHANGED <<conn, pc, cur, todo, asked>> PROVE HandlerTypeOK'
  BY <1>f, TypeParts DEF HandlerTypeOK, Basics
<1>0. CASE UNCHANGED vars
  BY <1>0, <1>f DEF vars, handlerVars
<1>1. ASSUME NEW c \in Client, PeerLeaves(c) PROVE HandlerTypeOK'
  BY <1>1, TypeParts DEF PeerLeaves, handlerVars, HandlerTypeOK, PC, Basics
<1>2. ASSUME NEW c \in Client, GetLease(c) PROVE HandlerTypeOK'
  BY <1>2, TypeParts DEF GetLease, Goto, HandlerTypeOK, PC, Basics
<1>3. ASSUME NEW c \in Client, Prepare(c) PROVE HandlerTypeOK'
  BY <1>3, TypeParts DEF Prepare, Leave, Goto, HandlerTypeOK, PC, Basics
<1>4. ASSUME NEW c \in Client, Spawn(c) PROVE HandlerTypeOK'
  BY <1>4, TypeParts DEF Spawn, Leave, Goto, HandlerTypeOK, PC, Basics
<1>5. ASSUME NEW c \in Client, Announce(c) PROVE HandlerTypeOK'
  BY <1>5, TypeParts DEF Announce, Leave, Goto, SendRaises, SendOf,
    HandlerTypeOK, PC, Basics
<1>6. ASSUME NEW c \in Client, ReportFailure(c) PROVE HandlerTypeOK'
  BY <1>6, TypeParts DEF ReportFailure, Leave, Goto, SendRaises, SendOf,
    HandlerTypeOK, PC, Basics
<1>7. ASSUME NEW c \in Client, ReportFailureExit(c) PROVE HandlerTypeOK'
  BY <1>7, TypeParts DEF ReportFailureExit, Leave, Goto, SendRaises, SendOf,
    HandlerTypeOK, PC, Basics
<1>8. ASSUME NEW c \in Client, ReleaseAgain(c) PROVE HandlerTypeOK'
  BY <1>8, TypeParts DEF ReleaseAgain, Leave, Goto, HandlerTypeOK, PC, Basics
<1>9. ASSUME NEW c \in Client, ReportError(c) PROVE HandlerTypeOK'
  BY <1>9, CleanupType, TypeParts DEF ReportError, Goto, HandlerTypeOK, PC,
    Basics
<1>10. ASSUME NEW c \in Client, ReceiveFails(c) PROVE HandlerTypeOK'
  BY <1>10, CleanupType, TypeParts DEF ReceiveFails, HandlerTypeOK, Basics
<1>11. ASSUME NEW c \in Client, NEW r, TerminateNext(c, r)
       PROVE  HandlerTypeOK'
  BY <1>11, TypeParts DEF TerminateNext, Goto, HandlerTypeOK, PC, Basics
<1>12. ASSUME NEW c \in Client, EndHandler(c) PROVE HandlerTypeOK'
  BY <1>12, TypeParts DEF EndHandler, Goto, HandlerTypeOK, PC, Basics
<1>13. ASSUME NEW c \in Client, NEW r \in Request, StartRun(c, r)
       PROVE  HandlerTypeOK'
  BY <1>13, TypeParts DEF StartRun, Leave, Goto, HandlerTypeOK, PC, Basics
<1>14. ASSUME NEW c \in Client, NEW r \in Request, StopRun(c, r)
       PROVE  HandlerTypeOK'
  BY <1>14, TypeParts DEF StopRun, Goto, HandlerTypeOK, PC, Basics
<1>15. ASSUME NEW r \in Request, Exit(r) PROVE HandlerTypeOK'
  BY <1>15, <1>f DEF Exit, handlerVars
<1>16. ASSUME NEW r \in Request, PumpChunk(r) PROVE HandlerTypeOK'
  BY <1>16, <1>f DEF PumpChunk, handlerVars, SendRaises, SendOf
<1>17. ASSUME NEW r \in Request, WatchEnds(r) PROVE HandlerTypeOK'
  BY <1>17, <1>f DEF WatchEnds, handlerVars
<1>18. ASSUME NEW r \in Request, ReportExit(r) PROVE HandlerTypeOK'
  BY <1>18, <1>f DEF ReportExit, handlerVars, SendRaises, SendOf
<1>19. ASSUME NEW r \in Request, WatcherReleases(r) PROVE HandlerTypeOK'
  BY <1>19, <1>f DEF WatcherReleases, handlerVars
<1>20. ASSUME NEW r \in Request, WatcherPops(r) PROVE HandlerTypeOK'
  BY <1>20, <1>f DEF WatcherPops, handlerVars
<1> QED
  BY <1>0, <1>1, <1>2, <1>3, <1>4, <1>5, <1>6, <1>7, <1>8, <1>9, <1>10, <1>11,
    <1>12, <1>13, <1>14, <1>15, <1>16, <1>17, <1>18, <1>19, <1>20
  DEF Next, HandlerStep, WatcherStep

(* Sessions, processes, watchers and pumps.                                *)
LEMMA NextRunType == Basics /\ [Next]_vars => RunTypeOK'
<1> SUFFICES ASSUME Basics, [Next]_vars PROVE RunTypeOK'
  OBVIOUS
<1>f. ASSUME UNCHANGED <<sessions, proc, watcher, pump, output>> PROVE
  RunTypeOK'
  BY <1>f, TypeParts DEF RunTypeOK, Basics
<1>0. CASE UNCHANGED vars
  BY <1>0, <1>f DEF vars, runVars
<1>1. ASSUME NEW c \in Client, PeerLeaves(c) PROVE RunTypeOK'
  BY <1>1, <1>f DEF PeerLeaves, runVars
<1>2. ASSUME NEW c \in Client, GetLease(c) PROVE RunTypeOK'
  BY <1>2, <1>f DEF GetLease, runVars
<1>3. ASSUME NEW c \in Client, Prepare(c) PROVE RunTypeOK'
  BY <1>3, <1>f DEF Prepare, runVars
<1>4. ASSUME NEW c \in Client, Spawn(c) PROVE RunTypeOK'
  <2>1. cur[c] \in Request
    BY <1>4, BusyRun DEF Spawn, Busy
  <2> QED
    BY <1>4, <2>1, TypeParts DEF Spawn, RunTypeOK, Basics
<1>5. ASSUME NEW c \in Client, Announce(c) PROVE RunTypeOK'
  <2>1. cur[c] \in Request
    BY <1>5, BusyRun DEF Announce, Busy
  <2> QED
    BY <1>5, <2>1, TypeParts DEF Announce, RunTypeOK, Basics
<1>6. ASSUME NEW c \in Client, ReportFailure(c) PROVE RunTypeOK'
  BY <1>6, <1>f DEF ReportFailure, runVars
<1>7. ASSUME NEW c \in Client, ReportFailureExit(c) PROVE RunTypeOK'
  BY <1>7, <1>f DEF ReportFailureExit, runVars
<1>8. ASSUME NEW c \in Client, ReleaseAgain(c) PROVE RunTypeOK'
  BY <1>8, <1>f DEF ReleaseAgain, runVars
<1>9. ASSUME NEW c \in Client, ReportError(c) PROVE RunTypeOK'
  BY <1>9, <1>f DEF ReportError, runVars, BeginCleanup
<1>10. ASSUME NEW c \in Client, ReceiveFails(c) PROVE RunTypeOK'
  BY <1>10, <1>f DEF ReceiveFails, runVars, BeginCleanup
<1>11. ASSUME NEW c \in Client, NEW r, TerminateNext(c, r) PROVE RunTypeOK'
  BY <1>11, TypeParts DEF TerminateNext, RunTypeOK, Basics
<1>12. ASSUME NEW c \in Client, EndHandler(c) PROVE RunTypeOK'
  BY <1>12, <1>f DEF EndHandler, runVars
<1>13. ASSUME NEW c \in Client, NEW r \in Request, StartRun(c, r)
       PROVE  RunTypeOK'
  BY <1>13, <1>f DEF StartRun, runVars
<1>14. ASSUME NEW c \in Client, NEW r \in Request, StopRun(c, r)
       PROVE  RunTypeOK'
  BY <1>14, TypeParts DEF StopRun, RunTypeOK, Basics
<1>15. ASSUME NEW r \in Request, Exit(r) PROVE RunTypeOK'
  BY <1>15, TypeParts DEF Exit, RunTypeOK, Basics
<1>16. ASSUME NEW r \in Request, PumpChunk(r) PROVE RunTypeOK'
  <2>1. output[r] - 1 \in 0..MaxChunks
    BY <1>16, TypeParts, LiveRunsAssumption DEF PumpChunk, RunTypeOK, Basics
  <2> QED
    BY <1>16, <2>1, TypeParts DEF PumpChunk, RunTypeOK, Basics
<1>17. ASSUME NEW r \in Request, WatchEnds(r) PROVE RunTypeOK'
  BY <1>17, TypeParts DEF WatchEnds, WatcherAt, RunTypeOK, Basics
<1>18. ASSUME NEW r \in Request, ReportExit(r) PROVE RunTypeOK'
  BY <1>18, TypeParts DEF ReportExit, WatcherAt, RunTypeOK, Basics
<1>19. ASSUME NEW r \in Request, WatcherReleases(r) PROVE RunTypeOK'
  BY <1>19, TypeParts DEF WatcherReleases, WatcherAt, RunTypeOK, Basics
<1>20. ASSUME NEW r \in Request, WatcherPops(r) PROVE RunTypeOK'
  BY <1>20, TypeParts DEF WatcherPops, WatcherAt, RunTypeOK, Basics
<1> QED
  BY <1>0, <1>1, <1>2, <1>3, <1>4, <1>5, <1>6, <1>7, <1>8, <1>9, <1>10, <1>11,
    <1>12, <1>13, <1>14, <1>15, <1>16, <1>17, <1>18, <1>19, <1>20
  DEF Next, HandlerStep, WatcherStep

(* What was sent and released.                                             *)
LEMMA NextHistoryType == Basics /\ [Next]_vars => HistoryTypeOK'
<1> SUFFICES ASSUME Basics, [Next]_vars PROVE HistoryTypeOK'
  OBVIOUS
<1>f. ASSUME UNCHANGED <<sent, released>> PROVE HistoryTypeOK'
  BY <1>f, TypeParts DEF HistoryTypeOK, Basics
<1>0. CASE UNCHANGED vars
  BY <1>0, <1>f DEF vars, historyVars
<1>1. ASSUME NEW c \in Client, PeerLeaves(c) PROVE HistoryTypeOK'
  BY <1>1, <1>f DEF PeerLeaves, historyVars
<1>2. ASSUME NEW c \in Client, GetLease(c) PROVE HistoryTypeOK'
  BY <1>2, <1>f DEF GetLease, historyVars
<1>3. ASSUME NEW c \in Client, Prepare(c) PROVE HistoryTypeOK'
  <2>1. cur[c] \in Request
    BY <1>3, BusyRun DEF Prepare, Busy
  <2>2. sent' \in [Request -> Seq({"started", "output", "exit"})]
    BY <1>3, TypeParts DEF Prepare, Basics, HistoryTypeOK
  <2>3. released' \in [Request -> Nat]
    BY <1>3, <2>1, ReleasedType, TypeParts DEF Prepare, NoLease, Basics,
      HistoryTypeOK
  <2> QED
    BY <2>2, <2>3 DEF HistoryTypeOK
<1>4. ASSUME NEW c \in Client, Spawn(c) PROVE HistoryTypeOK'
  <2>1. cur[c] \in Request
    BY <1>4, BusyRun DEF Spawn, Busy
  <2>2. sent' \in [Request -> Seq({"started", "output", "exit"})]
    BY <1>4, TypeParts DEF Spawn, Basics, HistoryTypeOK
  <2>3. released' \in [Request -> Nat]
    BY <1>4, <2>1, ReleasedType, TypeParts DEF Spawn, NoLease, Basics,
      HistoryTypeOK
  <2> QED
    BY <2>2, <2>3 DEF HistoryTypeOK
<1>5. ASSUME NEW c \in Client, Announce(c) PROVE HistoryTypeOK'
  <2>1. cur[c] \in Request
    BY <1>5, BusyRun DEF Announce, Busy
  <2>2. sent' \in [Request -> Seq({"started", "output", "exit"})]
    BY <1>5, <2>1, SendType, TypeParts DEF Announce, SendRaises, Basics,
      HistoryTypeOK
  <2>3. released' \in [Request -> Nat]
    BY <1>5, TypeParts DEF Announce, NoLease, Basics, HistoryTypeOK
  <2> QED
    BY <2>2, <2>3 DEF HistoryTypeOK
<1>6. ASSUME NEW c \in Client, ReportFailure(c) PROVE HistoryTypeOK'
  <2>1. cur[c] \in Request
    BY <1>6, BusyRun DEF ReportFailure, Busy
  <2>2. sent' \in [Request -> Seq({"started", "output", "exit"})]
    BY <1>6, <2>1, SendType, TypeParts DEF ReportFailure, SendRaises, Basics,
      HistoryTypeOK
  <2>3. released' \in [Request -> Nat]
    BY <1>6, TypeParts DEF ReportFailure, NoLease, Basics, HistoryTypeOK
  <2> QED
    BY <2>2, <2>3 DEF HistoryTypeOK
<1>7. ASSUME NEW c \in Client, ReportFailureExit(c) PROVE HistoryTypeOK'
  <2>1. cur[c] \in Request
    BY <1>7, BusyRun DEF ReportFailureExit, Busy
  <2>2. sent' \in [Request -> Seq({"started", "output", "exit"})]
    BY <1>7, <2>1, SendType, TypeParts DEF ReportFailureExit, SendRaises,
      Basics, HistoryTypeOK
  <2>3. released' \in [Request -> Nat]
    BY <1>7, <2>1, ReleasedType, TypeParts DEF ReportFailureExit, NoLease,
      Basics, HistoryTypeOK
  <2> QED
    BY <2>2, <2>3 DEF HistoryTypeOK
<1>8. ASSUME NEW c \in Client, ReleaseAgain(c) PROVE HistoryTypeOK'
  <2>1. cur[c] \in Request
    BY <1>8, BusyRun DEF ReleaseAgain, Busy
  <2>2. sent' \in [Request -> Seq({"started", "output", "exit"})]
    BY <1>8, TypeParts DEF ReleaseAgain, Basics, HistoryTypeOK
  <2>3. released' \in [Request -> Nat]
    BY <1>8, <2>1, ReleasedType, TypeParts DEF ReleaseAgain, NoLease, Basics,
      HistoryTypeOK
  <2> QED
    BY <2>2, <2>3 DEF HistoryTypeOK
<1>9. ASSUME NEW c \in Client, ReportError(c) PROVE HistoryTypeOK'
  BY <1>9, <1>f DEF ReportError, SendRaises
<1>10. ASSUME NEW c \in Client, ReceiveFails(c) PROVE HistoryTypeOK'
  BY <1>10, <1>f DEF ReceiveFails, historyVars
<1>11. ASSUME NEW c \in Client, NEW r, TerminateNext(c, r)
       PROVE  HistoryTypeOK'
  BY <1>11, <1>f DEF TerminateNext, historyVars
<1>12. ASSUME NEW c \in Client, EndHandler(c) PROVE HistoryTypeOK'
  BY <1>12, <1>f DEF EndHandler, historyVars
<1>13. ASSUME NEW c \in Client, NEW r \in Request, StartRun(c, r)
       PROVE  HistoryTypeOK'
  BY <1>13, <1>f DEF StartRun, historyVars
<1>14. ASSUME NEW c \in Client, NEW r \in Request, StopRun(c, r)
       PROVE  HistoryTypeOK'
  BY <1>14, <1>f DEF StopRun, historyVars
<1>15. ASSUME NEW r \in Request, Exit(r) PROVE HistoryTypeOK'
  BY <1>15, <1>f DEF Exit, historyVars
<1>16. ASSUME NEW r \in Request, PumpChunk(r) PROVE HistoryTypeOK'
  BY <1>16, SendType, TypeParts DEF PumpChunk, SendRaises, Basics,
    HistoryTypeOK
<1>17. ASSUME NEW r \in Request, WatchEnds(r) PROVE HistoryTypeOK'
  BY <1>17, <1>f DEF WatchEnds, historyVars
<1>18. ASSUME NEW r \in Request, ReportExit(r) PROVE HistoryTypeOK'
  BY <1>18, SendType, TypeParts DEF ReportExit, SendRaises, Basics,
    HistoryTypeOK
<1>19. ASSUME NEW r \in Request, WatcherReleases(r) PROVE HistoryTypeOK'
  BY <1>19, ReleasedType, TypeParts DEF WatcherReleases, Basics, HistoryTypeOK
<1>20. ASSUME NEW r \in Request, WatcherPops(r) PROVE HistoryTypeOK'
  BY <1>20, <1>f DEF WatcherPops, historyVars
<1> QED
  BY <1>0, <1>1, <1>2, <1>3, <1>4, <1>5, <1>6, <1>7, <1>8, <1>9, <1>10, <1>11,
    <1>12, <1>13, <1>14, <1>15, <1>16, <1>17, <1>18, <1>19, <1>20
  DEF Next, HandlerStep, WatcherStep

(* A handler thread moves itself only.                                     *)
HandlerMove(c) ==
  HandlerStep(c) \/ \E r \in Request : StartRun(c, r) \/ StopRun(c, r)

LEMMA OwnPlace ==
  ASSUME TypeOK, NEW c \in Client, HandlerMove(c), NEW d \in Client, d # c
  PROVE  pc'[d] = pc[d] /\ cur'[d] = cur[d] /\ todo'[d] = todo[d]
<1> USE TypeParts DEF HandlerTypeOK, Goto
<1>1. CASE GetLease(c)
  BY <1>1 DEF GetLease
<1>2. CASE Prepare(c)
  BY <1>2 DEF Prepare, Leave
<1>3. CASE Spawn(c)
  BY <1>3 DEF Spawn, Leave
<1>4. CASE Announce(c)
  BY <1>4 DEF Announce, Leave
<1>5. CASE ReportFailure(c)
  BY <1>5 DEF ReportFailure, Leave
<1>6. CASE ReportFailureExit(c)
  BY <1>6 DEF ReportFailureExit, Leave
<1>7. CASE ReleaseAgain(c)
  BY <1>7 DEF ReleaseAgain, Leave
<1>8. CASE ReportError(c)
  BY <1>8 DEF ReportError, BeginCleanup
<1>9. CASE ReceiveFails(c)
  BY <1>9 DEF ReceiveFails, BeginCleanup
<1>10. ASSUME NEW r, TerminateNext(c, r)
      PROVE  pc'[d] = pc[d] /\ cur'[d] = cur[d] /\ todo'[d] = todo[d]
  BY <1>10 DEF TerminateNext
<1>11. CASE EndHandler(c)
  BY <1>11 DEF EndHandler
<1>12. ASSUME NEW r \in Request, StartRun(c, r)
      PROVE  pc'[d] = pc[d] /\ cur'[d] = cur[d] /\ todo'[d] = todo[d]
  BY <1>12 DEF StartRun, Leave
<1>13. ASSUME NEW r \in Request, StopRun(c, r)
      PROVE  pc'[d] = pc[d] /\ cur'[d] = cur[d] /\ todo'[d] = todo[d]
  BY <1>13 DEF StopRun
<1> QED
  BY <1>1, <1>2, <1>3, <1>4, <1>5, <1>6, <1>7, <1>8, <1>9, <1>10, <1>11,
    <1>12, <1>13
  DEF HandlerMove, HandlerStep

(* A run changes hands from its handler to its watcher.                    *)
LEMMA NextHandlerHasRun == Basics /\ [Next]_vars => HandlerHasRun'
<1> SUFFICES ASSUME Basics, [Next]_vars PROVE HandlerHasRun'
  OBVIOUS
<1>f. ASSUME UNCHANGED <<pc, cur, asked, watcher>> PROVE HandlerHasRun'
  BY <1>f DEF HandlerHasRun, Basics
<1>o. ASSUME NEW c \in Client, HandlerMove(c), NEW d \in Client, d # c
      PROVE  pc'[d] = pc[d] /\ cur'[d] = cur[d]
  BY <1>o, OwnPlace DEF Basics
<1>0. CASE UNCHANGED vars
  BY <1>0, <1>f DEF vars, handlerVars, runVars
<1>1. ASSUME NEW c \in Client, PeerLeaves(c) PROVE HandlerHasRun'
  BY <1>1, <1>f DEF PeerLeaves, runVars, handlerVars
<1>2. ASSUME NEW c \in Client, GetLease(c) PROVE HandlerHasRun'
  <2>1. pc'[c] \in Busy => pc[c] \in Busy /\ cur'[c] = cur[c]
    BY <1>2, TypeParts DEF GetLease, Goto, Busy, HandlerTypeOK, Basics
  <2>2. UNCHANGED <<asked, watcher>>
    BY <1>2 DEF GetLease, runVars
  <2>3. HandlerMove(c)
    BY <1>2 DEF HandlerMove, HandlerStep
  <2> QED
    BY <1>o, <2>1, <2>2, <2>3, BusyRun DEF HandlerHasRun, RunsOf
<1>3. ASSUME NEW c \in Client, Prepare(c) PROVE HandlerHasRun'
  <2>1. pc'[c] \in Busy => pc[c] \in Busy /\ cur'[c] = cur[c]
    BY <1>3, TypeParts DEF Prepare, Leave, Goto, Busy, HandlerTypeOK, Basics
  <2>2. UNCHANGED <<asked, watcher>>
    BY <1>3 DEF Prepare, runVars
  <2>3. HandlerMove(c)
    BY <1>3 DEF HandlerMove, HandlerStep
  <2> QED
    BY <1>o, <2>1, <2>2, <2>3, BusyRun DEF HandlerHasRun, RunsOf
<1>4. ASSUME NEW c \in Client, Spawn(c) PROVE HandlerHasRun'
  <2>1. pc'[c] \in Busy => pc[c] \in Busy /\ cur'[c] = cur[c]
    BY <1>4, TypeParts DEF Spawn, Leave, Goto, Busy, HandlerTypeOK, Basics
  <2>2. UNCHANGED <<asked, watcher>>
    BY <1>4 DEF Spawn
  <2>3. HandlerMove(c)
    BY <1>4 DEF HandlerMove, HandlerStep
  <2> QED
    BY <1>o, <2>1, <2>2, <2>3, BusyRun DEF HandlerHasRun, RunsOf
<1>5. ASSUME NEW c \in Client, Announce(c) PROVE HandlerHasRun'
  <2>1. pc'[c] \notin Busy
    BY <1>5, TypeParts DEF Announce, Leave, Goto, Busy, HandlerTypeOK, Basics
  <2>2. asked' = asked
    BY <1>5 DEF Announce
  <2>3. ASSUME NEW q \in Request, q # cur[c] PROVE watcher'[q] = watcher[q]
    BY <1>5, <2>3, TypeParts DEF Announce, RunTypeOK, Basics
  <2>4. cur[c] \in Request /\ ClientOf[cur[c]] = c
    BY <1>5, BusyRun DEF Announce, Busy
  <2> QED
    BY <1>5, <1>o, <2>1, <2>2, <2>3, <2>4, BusyRun DEF HandlerHasRun, RunsOf,
      HandlerMove, HandlerStep
<1>6. ASSUME NEW c \in Client, ReportFailure(c) PROVE HandlerHasRun'
  <2>1. pc'[c] \in Busy => pc[c] \in Busy /\ cur'[c] = cur[c]
    BY <1>6, TypeParts DEF ReportFailure, Leave, Goto, Busy, HandlerTypeOK,
      Basics
  <2>2. UNCHANGED <<asked, watcher>>
    BY <1>6 DEF ReportFailure, runVars
  <2>3. HandlerMove(c)
    BY <1>6 DEF HandlerMove, HandlerStep
  <2> QED
    BY <1>o, <2>1, <2>2, <2>3, BusyRun DEF HandlerHasRun, RunsOf
<1>7. ASSUME NEW c \in Client, ReportFailureExit(c) PROVE HandlerHasRun'
  <2>1. pc'[c] \in Busy => pc[c] \in Busy /\ cur'[c] = cur[c]
    BY <1>7, TypeParts DEF ReportFailureExit, Leave, Goto, Busy,
      HandlerTypeOK, Basics
  <2>2. UNCHANGED <<asked, watcher>>
    BY <1>7 DEF ReportFailureExit, runVars
  <2>3. HandlerMove(c)
    BY <1>7 DEF HandlerMove, HandlerStep
  <2> QED
    BY <1>o, <2>1, <2>2, <2>3, BusyRun DEF HandlerHasRun, RunsOf
<1>8. ASSUME NEW c \in Client, ReleaseAgain(c) PROVE HandlerHasRun'
  <2>1. pc'[c] \in Busy => pc[c] \in Busy /\ cur'[c] = cur[c]
    BY <1>8, TypeParts DEF ReleaseAgain, Leave, Goto, Busy, HandlerTypeOK,
      Basics
  <2>2. UNCHANGED <<asked, watcher>>
    BY <1>8 DEF ReleaseAgain, runVars
  <2>3. HandlerMove(c)
    BY <1>8 DEF HandlerMove, HandlerStep
  <2> QED
    BY <1>o, <2>1, <2>2, <2>3, BusyRun DEF HandlerHasRun, RunsOf
<1>9. ASSUME NEW c \in Client, ReportError(c) PROVE HandlerHasRun'
  <2>1. pc'[c] \in Busy => pc[c] \in Busy /\ cur'[c] = cur[c]
    BY <1>9, TypeParts DEF ReportError, BeginCleanup, Goto, Busy,
      HandlerTypeOK, Basics
  <2>2. UNCHANGED <<asked, watcher>>
    BY <1>9 DEF ReportError, runVars
  <2>3. HandlerMove(c)
    BY <1>9 DEF HandlerMove, HandlerStep
  <2> QED
    BY <1>o, <2>1, <2>2, <2>3, BusyRun DEF HandlerHasRun, RunsOf
<1>10. ASSUME NEW c \in Client, ReceiveFails(c) PROVE HandlerHasRun'
  <2>1. pc'[c] \in Busy => pc[c] \in Busy /\ cur'[c] = cur[c]
    BY <1>10, TypeParts DEF ReceiveFails, BeginCleanup, Goto, Busy,
      HandlerTypeOK, Basics
  <2>2. UNCHANGED <<asked, watcher>>
    BY <1>10 DEF ReceiveFails, runVars
  <2>3. HandlerMove(c)
    BY <1>10 DEF HandlerMove, HandlerStep
  <2> QED
    BY <1>o, <2>1, <2>2, <2>3, BusyRun DEF HandlerHasRun, RunsOf
<1>11. ASSUME NEW c \in Client, NEW r, TerminateNext(c, r)
       PROVE  HandlerHasRun'
  <2>1. pc'[c] \in Busy => pc[c] \in Busy /\ cur'[c] = cur[c]
    BY <1>11, TypeParts DEF TerminateNext, Goto, Busy, HandlerTypeOK, Basics
  <2>2. UNCHANGED <<asked, watcher>>
    BY <1>11 DEF TerminateNext
  <2>3. HandlerMove(c)
    BY <1>11 DEF HandlerMove, HandlerStep, TerminateNext
  <2> QED
    BY <1>o, <2>1, <2>2, <2>3, BusyRun DEF HandlerHasRun, RunsOf
<1>12. ASSUME NEW c \in Client, EndHandler(c) PROVE HandlerHasRun'
  <2>1. pc'[c] \in Busy => pc[c] \in Busy /\ cur'[c] = cur[c]
    BY <1>12, TypeParts DEF EndHandler, Goto, Busy, HandlerTypeOK, Basics
  <2>2. UNCHANGED <<asked, watcher>>
    BY <1>12 DEF EndHandler, runVars
  <2>3. HandlerMove(c)
    BY <1>12 DEF HandlerMove, HandlerStep
  <2> QED
    BY <1>o, <2>1, <2>2, <2>3, BusyRun DEF HandlerHasRun, RunsOf
<1>13. ASSUME NEW c \in Client, NEW r \in Request, StartRun(c, r)
       PROVE  HandlerHasRun'
  <2>1. \/ cur'[c] = r /\ watcher[r] = "none" /\ watcher' = watcher
        \/ pc'[c] \notin Busy
    BY <1>13, TypeParts DEF StartRun, Leave, Goto, Busy, HandlerTypeOK,
      Basics, UnaskedUntouched, runVars
  <2>2. ClientOf[r] = c /\ asked' = asked \cup {r}
    BY <1>13 DEF StartRun, RunsOf
  <2>3. watcher' = watcher
    BY <1>13 DEF StartRun, runVars
  <2> QED
    BY <1>13, <1>o, <2>1, <2>2, <2>3, BusyRun DEF HandlerHasRun, RunsOf,
      HandlerMove
<1>14. ASSUME NEW c \in Client, NEW r \in Request, StopRun(c, r)
       PROVE  HandlerHasRun'
  <2>1. pc'[c] \in Busy => pc[c] \in Busy /\ cur'[c] = cur[c]
    BY <1>14, TypeParts DEF StopRun, Goto, Busy, HandlerTypeOK, Basics
  <2>2. UNCHANGED <<asked, watcher>>
    BY <1>14 DEF StopRun
  <2>3. HandlerMove(c)
    BY <1>14 DEF HandlerMove
  <2> QED
    BY <1>o, <2>1, <2>2, <2>3, BusyRun DEF HandlerHasRun, RunsOf
<1>15. ASSUME NEW r \in Request, Exit(r) PROVE HandlerHasRun'
  BY <1>15, <1>f DEF Exit, handlerVars
<1>16. ASSUME NEW r \in Request, PumpChunk(r) PROVE HandlerHasRun'
  BY <1>16, <1>f DEF PumpChunk, handlerVars
<1>17. ASSUME NEW r \in Request, WatchEnds(r) PROVE HandlerHasRun'
  <2>1. UNCHANGED <<pc, cur, asked>>
    BY <1>17 DEF WatchEnds, handlerVars
  <2>2. watcher[r] # "none" /\ \A q \in Request \ {r} : watcher'[q] =
    watcher[q]
    BY <1>17, TypeParts DEF WatchEnds, WatcherAt, RunTypeOK, Basics
  <2> QED
    BY <2>1, <2>2, BusyRun DEF HandlerHasRun, RunsOf
<1>18. ASSUME NEW r \in Request, ReportExit(r) PROVE HandlerHasRun'
  <2>1. UNCHANGED <<pc, cur, asked>>
    BY <1>18 DEF ReportExit, handlerVars
  <2>2. watcher[r] # "none" /\ \A q \in Request \ {r} : watcher'[q] =
    watcher[q]
    BY <1>18, TypeParts DEF ReportExit, WatcherAt, RunTypeOK, Basics
  <2> QED
    BY <2>1, <2>2, BusyRun DEF HandlerHasRun, RunsOf
<1>19. ASSUME NEW r \in Request, WatcherReleases(r) PROVE HandlerHasRun'
  <2>1. UNCHANGED <<pc, cur, asked>>
    BY <1>19 DEF WatcherReleases, handlerVars
  <2>2. watcher[r] # "none" /\ \A q \in Request \ {r} : watcher'[q] =
    watcher[q]
    BY <1>19, TypeParts DEF WatcherReleases, WatcherAt, RunTypeOK, Basics
  <2> QED
    BY <2>1, <2>2, BusyRun DEF HandlerHasRun, RunsOf
<1>20. ASSUME NEW r \in Request, WatcherPops(r) PROVE HandlerHasRun'
  <2>1. UNCHANGED <<pc, cur, asked>>
    BY <1>20 DEF WatcherPops, handlerVars
  <2>2. watcher[r] # "none" /\ \A q \in Request \ {r} : watcher'[q] =
    watcher[q]
    BY <1>20, TypeParts DEF WatcherPops, WatcherAt, RunTypeOK, Basics
  <2> QED
    BY <2>1, <2>2, BusyRun DEF HandlerHasRun, RunsOf
<1> QED
  BY <1>0, <1>1, <1>2, <1>3, <1>4, <1>5, <1>6, <1>7, <1>8, <1>9, <1>10, <1>11,
    <1>12, <1>13, <1>14, <1>15, <1>16, <1>17, <1>18, <1>19, <1>20
  DEF Next, HandlerStep, WatcherStep

(* What is touched was asked for.                                          *)
LEMMA NextUnaskedUntouched == Basics /\ [Next]_vars => UnaskedUntouched'
<1> SUFFICES ASSUME Basics, [Next]_vars PROVE UnaskedUntouched'
  OBVIOUS
<1>f. ASSUME UNCHANGED <<waiting, held, asked, watcher, pump, sent, released>>
  PROVE UnaskedUntouched'
  BY <1>f DEF UnaskedUntouched, Basics
<1>0. CASE UNCHANGED vars
  BY <1>0, <1>f DEF vars, schedulerVars, queueVars, counterVars, handlerVars,
    runVars, historyVars
<1>1. ASSUME NEW c \in Client, PeerLeaves(c) PROVE UnaskedUntouched'
  BY <1>1, <1>f DEF PeerLeaves, historyVars, runVars, handlerVars,
    schedulerVars, counterVars, queueVars
<1>2. ASSUME NEW c \in Client, GetLease(c) PROVE UnaskedUntouched'
  <2>1. asked' = asked /\ waiting' \cup held' \subseteq waiting \cup held 
    BY <1>2 DEF GetLease, Activate, IsFirst
  <2>2. cur[c] \in asked
    BY <1>2, BusyRun DEF GetLease, Busy
  <2>3. \A q \in Request \ {cur[c]} :
          watcher'[q] = watcher[q] /\ pump'[q] = pump[q]
          /\ released'[q] = released[q] /\ sent'[q] = sent[q]
    BY <1>2, TypeParts DEF GetLease, historyVars, runVars, RunTypeOK,
      HistoryTypeOK, Basics
  <2> QED
    BY <2>1, <2>2, <2>3 DEF UnaskedUntouched, Basics
<1>3. ASSUME NEW c \in Client, Prepare(c) PROVE UnaskedUntouched'
  <2>1. asked' = asked /\ waiting' \cup held' \subseteq waiting \cup held 
    BY <1>3 DEF Prepare, ReleaseLease, Release, queueVars, NoLease,
      schedulerVars, counterVars
  <2>2. cur[c] \in asked
    BY <1>3, BusyRun DEF Prepare, Busy
  <2>3. \A q \in Request \ {cur[c]} :
          watcher'[q] = watcher[q] /\ pump'[q] = pump[q]
          /\ released'[q] = released[q] /\ sent'[q] = sent[q]
    BY <1>3, TypeParts DEF Prepare, runVars, ReleaseLease, NoLease, RunTypeOK,
      HistoryTypeOK, Basics
  <2> QED
    BY <2>1, <2>2, <2>3 DEF UnaskedUntouched, Basics
<1>4. ASSUME NEW c \in Client, Spawn(c) PROVE UnaskedUntouched'
  <2>1. asked' = asked /\ waiting' \cup held' \subseteq waiting \cup held 
    BY <1>4 DEF Spawn, ReleaseLease, Release, queueVars, NoLease,
      schedulerVars, counterVars
  <2>2. cur[c] \in asked
    BY <1>4, BusyRun DEF Spawn, Busy
  <2>3. \A q \in Request \ {cur[c]} :
          watcher'[q] = watcher[q] /\ pump'[q] = pump[q]
          /\ released'[q] = released[q] /\ sent'[q] = sent[q]
    BY <1>4, TypeParts DEF Spawn, ReleaseLease, NoLease, RunTypeOK,
      HistoryTypeOK, Basics
  <2> QED
    BY <2>1, <2>2, <2>3 DEF UnaskedUntouched, Basics
<1>5. ASSUME NEW c \in Client, Announce(c) PROVE UnaskedUntouched'
  <2>1. asked' = asked /\ waiting' \cup held' \subseteq waiting \cup held 
    BY <1>5 DEF Announce, NoLease, schedulerVars, counterVars, queueVars
  <2>2. cur[c] \in asked
    BY <1>5, BusyRun DEF Announce, Busy
  <2>3. \A q \in Request \ {cur[c]} :
          watcher'[q] = watcher[q] /\ pump'[q] = pump[q]
          /\ released'[q] = released[q] /\ sent'[q] = sent[q]
    BY <1>5, TypeParts DEF Announce, NoLease, SendRaises, SendOf, RunTypeOK,
      HistoryTypeOK, Basics
  <2> QED
    BY <2>1, <2>2, <2>3 DEF UnaskedUntouched, Basics
<1>6. ASSUME NEW c \in Client, ReportFailure(c) PROVE UnaskedUntouched'
  <2>1. asked' = asked /\ waiting' \cup held' \subseteq waiting \cup held 
    BY <1>6 DEF ReportFailure, schedulerVars, counterVars, queueVars
  <2>2. cur[c] \in asked
    BY <1>6, BusyRun DEF ReportFailure, Busy
  <2>3. \A q \in Request \ {cur[c]} :
          watcher'[q] = watcher[q] /\ pump'[q] = pump[q]
          /\ released'[q] = released[q] /\ sent'[q] = sent[q]
    BY <1>6, TypeParts DEF ReportFailure, runVars, SendRaises, SendOf,
      RunTypeOK, HistoryTypeOK, Basics
  <2> QED
    BY <2>1, <2>2, <2>3 DEF UnaskedUntouched, Basics
<1>7. ASSUME NEW c \in Client, ReportFailureExit(c) PROVE UnaskedUntouched'
  <2>1. asked' = asked /\ waiting' \cup held' \subseteq waiting \cup held 
    BY <1>7 DEF ReportFailureExit, NoLease, schedulerVars, counterVars,
      queueVars, ReleaseLease, Release
  <2>2. cur[c] \in asked
    BY <1>7, BusyRun DEF ReportFailureExit, Busy
  <2>3. \A q \in Request \ {cur[c]} :
          watcher'[q] = watcher[q] /\ pump'[q] = pump[q]
          /\ released'[q] = released[q] /\ sent'[q] = sent[q]
    BY <1>7, TypeParts DEF ReportFailureExit, runVars, NoLease, SendRaises,
      ReleaseLease, SendOf, RunTypeOK, HistoryTypeOK, Basics
  <2> QED
    BY <2>1, <2>2, <2>3 DEF UnaskedUntouched, Basics
<1>8. ASSUME NEW c \in Client, ReleaseAgain(c) PROVE UnaskedUntouched'
  <2>1. asked' = asked /\ waiting' \cup held' \subseteq waiting \cup held 
    BY <1>8 DEF ReleaseAgain, NoLease, schedulerVars, counterVars, queueVars,
      ReleaseLease, Release
  <2>2. cur[c] \in asked
    BY <1>8, BusyRun DEF ReleaseAgain, Busy
  <2>3. \A q \in Request \ {cur[c]} :
          watcher'[q] = watcher[q] /\ pump'[q] = pump[q]
          /\ released'[q] = released[q] /\ sent'[q] = sent[q]
    BY <1>8, TypeParts DEF ReleaseAgain, runVars, NoLease, ReleaseLease,
      RunTypeOK, HistoryTypeOK, Basics
  <2> QED
    BY <2>1, <2>2, <2>3 DEF UnaskedUntouched, Basics
<1>9. ASSUME NEW c \in Client, ReportError(c) PROVE UnaskedUntouched'
  BY <1>9, <1>f DEF ReportError, runVars, schedulerVars, counterVars,
    queueVars, SendRaises
<1>10. ASSUME NEW c \in Client, ReceiveFails(c) PROVE UnaskedUntouched'
  BY <1>10, <1>f DEF ReceiveFails, historyVars, runVars, schedulerVars,
    counterVars, queueVars
<1>11. ASSUME NEW c \in Client, NEW r, TerminateNext(c, r)
       PROVE  UnaskedUntouched'
  BY <1>11, <1>f DEF TerminateNext, historyVars, schedulerVars, counterVars,
    queueVars
<1>12. ASSUME NEW c \in Client, EndHandler(c) PROVE UnaskedUntouched'
  BY <1>12, <1>f DEF EndHandler, historyVars, runVars, schedulerVars,
    counterVars, queueVars
<1>13. ASSUME NEW c \in Client, NEW r \in Request, StartRun(c, r)
       PROVE  UnaskedUntouched'
  <2>1. UNCHANGED <<watcher, pump, released, sent, held>> /\ waiting'
    \subseteq waiting \cup {r}
    BY <1>13 DEF StartRun, historyVars, runVars, schedulerVars, counterVars,
      queueVars, Enqueue
  <2> QED
    BY <1>13, <2>1 DEF StartRun, UnaskedUntouched, Basics
<1>14. ASSUME NEW c \in Client, NEW r \in Request, StopRun(c, r)
       PROVE  UnaskedUntouched'
  BY <1>14, <1>f DEF StopRun, historyVars, schedulerVars, counterVars,
    queueVars
<1>15. ASSUME NEW r \in Request, Exit(r) PROVE UnaskedUntouched'
  BY <1>15, <1>f DEF Exit, historyVars, handlerVars, schedulerVars,
    counterVars, queueVars
<1>16. ASSUME NEW r \in Request, PumpChunk(r) PROVE UnaskedUntouched'
  <2>1. asked' = asked /\ waiting' \cup held' \subseteq waiting \cup held 
    BY <1>16 DEF PumpChunk, handlerVars, schedulerVars, counterVars, queueVars
  <2>2. r \in asked
    BY <1>16 DEF PumpChunk, handlerVars, schedulerVars, counterVars,
      queueVars, SendRaises, SendOf, UnaskedUntouched, Basics
  <2>3. \A q \in Request \ {r} :
          watcher'[q] = watcher[q] /\ pump'[q] = pump[q]
          /\ released'[q] = released[q] /\ sent'[q] = sent[q]
    BY <1>16, TypeParts DEF PumpChunk, SendRaises, SendOf, RunTypeOK,
      HistoryTypeOK, Basics
  <2> QED
    BY <2>1, <2>2, <2>3 DEF UnaskedUntouched, Basics
<1>17. ASSUME NEW r \in Request, WatchEnds(r) PROVE UnaskedUntouched'
  <2>1. asked' = asked /\ waiting' \cup held' \subseteq waiting \cup held 
    BY <1>17 DEF WatchEnds, handlerVars, schedulerVars, counterVars, queueVars
  <2>2. r \in asked
    BY <1>17 DEF WatchEnds, historyVars, handlerVars, schedulerVars,
      counterVars, queueVars, WatcherAt, UnaskedUntouched, Basics
  <2>3. \A q \in Request \ {r} :
          watcher'[q] = watcher[q] /\ pump'[q] = pump[q]
          /\ released'[q] = released[q] /\ sent'[q] = sent[q]
    BY <1>17, TypeParts DEF WatchEnds, historyVars, WatcherAt, RunTypeOK,
      HistoryTypeOK, Basics
  <2> QED
    BY <2>1, <2>2, <2>3 DEF UnaskedUntouched, Basics
<1>18. ASSUME NEW r \in Request, ReportExit(r) PROVE UnaskedUntouched'
  <2>1. asked' = asked /\ waiting' \cup held' \subseteq waiting \cup held 
    BY <1>18 DEF ReportExit, handlerVars, schedulerVars, counterVars,
      queueVars
  <2>2. r \in asked
    BY <1>18 DEF ReportExit, handlerVars, schedulerVars, counterVars,
      queueVars, SendRaises, WatcherAt, SendOf, UnaskedUntouched, Basics
  <2>3. \A q \in Request \ {r} :
          watcher'[q] = watcher[q] /\ pump'[q] = pump[q]
          /\ released'[q] = released[q] /\ sent'[q] = sent[q]
    BY <1>18, TypeParts DEF ReportExit, SendRaises, WatcherAt, SendOf,
      RunTypeOK, HistoryTypeOK, Basics
  <2> QED
    BY <2>1, <2>2, <2>3 DEF UnaskedUntouched, Basics
<1>19. ASSUME NEW r \in Request, WatcherReleases(r) PROVE UnaskedUntouched'
  <2>1. asked' = asked /\ waiting' \cup held' \subseteq waiting \cup held 
    BY <1>19 DEF WatcherReleases, handlerVars, ReleaseLease, Release,
      queueVars
  <2>2. r \in asked
    BY <1>19 DEF WatcherReleases, handlerVars, ReleaseLease, Release,
      queueVars, WatcherAt, UnaskedUntouched, Basics
  <2>3. \A q \in Request \ {r} :
          watcher'[q] = watcher[q] /\ pump'[q] = pump[q]
          /\ released'[q] = released[q] /\ sent'[q] = sent[q]
    BY <1>19, TypeParts DEF WatcherReleases, ReleaseLease, WatcherAt,
      RunTypeOK, HistoryTypeOK, Basics
  <2> QED
    BY <2>1, <2>2, <2>3 DEF UnaskedUntouched, Basics
<1>20. ASSUME NEW r \in Request, WatcherPops(r) PROVE UnaskedUntouched'
  <2>1. asked' = asked /\ waiting' \cup held' \subseteq waiting \cup held 
    BY <1>20 DEF WatcherPops, handlerVars, schedulerVars, counterVars,
      queueVars
  <2>2. r \in asked
    BY <1>20 DEF WatcherPops, historyVars, handlerVars, schedulerVars,
      counterVars, queueVars, WatcherAt, UnaskedUntouched, Basics
  <2>3. \A q \in Request \ {r} :
          watcher'[q] = watcher[q] /\ pump'[q] = pump[q]
          /\ released'[q] = released[q] /\ sent'[q] = sent[q]
    BY <1>20, TypeParts DEF WatcherPops, historyVars, WatcherAt, RunTypeOK,
      HistoryTypeOK, Basics
  <2> QED
    BY <2>1, <2>2, <2>3 DEF UnaskedUntouched, Basics
<1> QED
  BY <1>0, <1>1, <1>2, <1>3, <1>4, <1>5, <1>6, <1>7, <1>8, <1>9, <1>10, <1>11,
    <1>12, <1>13, <1>14, <1>15, <1>16, <1>17, <1>18, <1>19, <1>20
  DEF Next, HandlerStep, WatcherStep

LEMMA NextBasics == Basics /\ [Next]_vars => Basics'
BY NextSchedulerType, NextHandlerType, NextRunType, NextHistoryType,
  NextHandlerHasRun, NextUnaskedUntouched, TypeParts DEF Basics, TypeOK,
  HandlerTypeOK, RunTypeOK, HistoryTypeOK

LEMMA BasicsInvariant == SafeSpec => []Basics
BY InitBasics, NextBasics, PTL DEF SafeSpec

(* The state of the server's threads is well typed, for any clients and    *)
(* runs.                                                                   *)
THEOREM TypeCorrect == SafeSpec => []TypeOK
<1>1. Basics => TypeOK
  BY DEF Basics
<1> QED
  BY <1>1, BasicsInvariant, PTL

-----------------------------------------------------------------------------
(* Leases.                                                                 *)

(* A lease that is waited for or out was never returned before, ...        *)
FreshLeases ==
  /\ IsFiniteSet(held)
  /\ waiting \cap held = {}
  /\ \A r \in waiting \cup held : released[r] = 0

(* ... what a thread is going to return is out, ...                        *)
Preparing == {"prepare", "spawn", "announce"}
KeepersHold ==
  /\ \A c \in Client : pc[c] \in Preparing => cur[c] \in held
  /\ \A r \in Request : KeptByWatcher(r) => r \in held

(* ... and what is out will be returned, unless the client is gone.        *)
HeldIsKept ==
  \A r \in held :
    conn[ClientOf[r]] = "open" => KeptByHandler(r) \/ KeptByWatcher(r)

Leases == FreshLeases /\ KeepersHold /\ HeldIsKept

LEMMA InitLeases == Init => Leases
BY FS_EmptySet DEF Init, SchedulerInit, Leases, FreshLeases, KeepersHold, HeldIsKept,
  Preparing, KeptByWatcher

LEMMA EnqueueFresh ==
  ASSUME Basics, FreshLeases, NEW r \in Request \ asked, Enqueue(r), UNCHANGED released
  PROVE  FreshLeases'
<1>1. held' = held /\ waiting' = waiting \cup {r}
  BY DEF Enqueue, counterVars
<1>2. r \notin held /\ released[r] = 0
  BY DEF Basics, UnaskedUntouched
<1> QED
  BY <1>1, <1>2 DEF FreshLeases

LEMMA GrantFresh ==
  ASSUME Basics, FreshLeases, NEW r \in Request, Activate(r), UNCHANGED released
  PROVE  FreshLeases'
<1>1. held' = held \cup {r} /\ waiting' = waiting \ {r} /\ r \in waiting
  BY DEF Activate, IsFirst
<1>2. IsFiniteSet(held')
  BY <1>1, FS_AddElement DEF FreshLeases
<1> QED
  BY <1>1, <1>2 DEF FreshLeases

LEMMA ReturnFresh ==
  ASSUME Basics, FreshLeases, NEW r \in Request, r \notin waiting, ReleaseLease(r)
  PROVE  FreshLeases'
<1>1. held' = held \ {r} /\ waiting' = waiting
  BY DEF ReleaseLease, Release, queueVars
<1>2. IsFiniteSet(held')
  BY <1>1, FS_Subset DEF FreshLeases
<1>3. \A q \in Request \ {r} : released'[q] = released[q]
  BY TypeParts DEF ReleaseLease, Basics, HistoryTypeOK
<1>4. waiting \cup held \subseteq Request
  BY DEF Basics, TypeOK, SchedulerTypeOK
<1> QED
  BY <1>1, <1>2, <1>3, <1>4 DEF FreshLeases

(* Leases are granted and returned once.                                   *)
LEMMA NextFreshLeases == Basics /\ Leases /\ [Next]_vars => FreshLeases'
<1> SUFFICES ASSUME Basics /\ Leases, [Next]_vars PROVE FreshLeases'
  OBVIOUS
<1>f. ASSUME UNCHANGED <<waiting, held, released>> PROVE FreshLeases'
  BY <1>f DEF FreshLeases, Leases
<1>0. CASE UNCHANGED vars
  BY <1>0, <1>f DEF vars, schedulerVars, queueVars, counterVars, historyVars
<1>1. ASSUME NEW c \in Client, PeerLeaves(c) PROVE FreshLeases'
  BY <1>1, <1>f DEF PeerLeaves, historyVars, schedulerVars, counterVars,
    queueVars
<1>2. ASSUME NEW c \in Client, GetLease(c) PROVE FreshLeases'
  <2>1. cur[c] \in Request
    BY <1>2, BusyRun DEF GetLease, Busy
  <2> QED
    BY <1>2, <2>1, GrantFresh DEF GetLease, historyVars, Leases
<1>3. ASSUME NEW c \in Client, Prepare(c) PROVE FreshLeases'
  <2>1. cur[c] \in Request
    BY <1>3, BusyRun DEF Prepare, Busy
  <2>2. CASE NoLease
    BY <1>f, <2>2 DEF NoLease, schedulerVars, queueVars, counterVars
  <2>3. CASE ReleaseLease(cur[c])
    <3>1. cur[c] \notin waiting
      BY <1>3, <2>1 DEF Prepare, Preparing, KeepersHold, FreshLeases, Leases
    <3> QED
      BY <2>1, <2>3, <3>1, ReturnFresh DEF Leases
  <2> QED
    BY <1>3, <2>2, <2>3 DEF Prepare
<1>4. ASSUME NEW c \in Client, Spawn(c) PROVE FreshLeases'
  <2>1. cur[c] \in Request
    BY <1>4, BusyRun DEF Spawn, Busy
  <2>2. CASE NoLease
    BY <1>f, <2>2 DEF NoLease, schedulerVars, queueVars, counterVars
  <2>3. CASE ReleaseLease(cur[c])
    <3>1. cur[c] \notin waiting
      BY <1>4, <2>1 DEF Spawn, Preparing, KeepersHold, FreshLeases, Leases
    <3> QED
      BY <2>1, <2>3, <3>1, ReturnFresh DEF Leases
  <2> QED
    BY <1>4, <2>2, <2>3 DEF Spawn
<1>5. ASSUME NEW c \in Client, Announce(c) PROVE FreshLeases'
  BY <1>5, <1>f DEF Announce, NoLease, schedulerVars, counterVars, queueVars
<1>6. ASSUME NEW c \in Client, ReportFailure(c) PROVE FreshLeases'
  BY <1>6, <1>f DEF ReportFailure, schedulerVars, counterVars, queueVars
<1>7. ASSUME NEW c \in Client, ReportFailureExit(c) PROVE FreshLeases'
  <2>1. cur[c] \in Request
    BY <1>7, BusyRun DEF ReportFailureExit, Busy
  <2>2. CASE NoLease
    BY <1>f, <2>2 DEF NoLease, schedulerVars, queueVars, counterVars
  <2>3. CASE cur[c] \in held /\ ReleaseLease(cur[c])
    BY <2>1, <2>3, ReturnFresh DEF Leases, FreshLeases
  <2> QED
    BY <1>7, <2>2, <2>3 DEF ReportFailureExit
<1>8. ASSUME NEW c \in Client, ReleaseAgain(c) PROVE FreshLeases'
  <2>1. cur[c] \in Request
    BY <1>8, BusyRun DEF ReleaseAgain, Busy
  <2>2. CASE NoLease
    BY <1>f, <2>2 DEF NoLease, schedulerVars, queueVars, counterVars
  <2>3. CASE released[cur[c]] > 0 /\ ReleaseLease(cur[c])
    BY <2>1, <2>3, ReturnFresh DEF Leases, FreshLeases
  <2> QED
    BY <1>8, <2>2, <2>3 DEF ReleaseAgain
<1>9. ASSUME NEW c \in Client, ReportError(c) PROVE FreshLeases'
  BY <1>9, <1>f DEF ReportError, schedulerVars, counterVars, queueVars
<1>10. ASSUME NEW c \in Client, ReceiveFails(c) PROVE FreshLeases'
  BY <1>10, <1>f DEF ReceiveFails, historyVars, schedulerVars, counterVars,
    queueVars
<1>11. ASSUME NEW c \in Client, NEW r, TerminateNext(c, r) PROVE FreshLeases'
  BY <1>11, <1>f DEF TerminateNext, historyVars, schedulerVars, counterVars,
    queueVars
<1>12. ASSUME NEW c \in Client, EndHandler(c) PROVE FreshLeases'
  BY <1>12, <1>f DEF EndHandler, historyVars, schedulerVars, counterVars,
    queueVars
<1>13. ASSUME NEW c \in Client, NEW r \in Request, StartRun(c, r)
       PROVE  FreshLeases'
  <2>1. r \in Request \ asked /\ UNCHANGED released
    BY <1>13 DEF StartRun, historyVars
  <2>2. CASE Enqueue(r)
    BY <2>1, <2>2, EnqueueFresh DEF Leases
  <2>3. CASE UNCHANGED schedulerVars
    BY <1>f, <2>1, <2>3 DEF schedulerVars, queueVars, counterVars
  <2> QED
    BY <1>13, <2>2, <2>3 DEF StartRun
<1>14. ASSUME NEW c \in Client, NEW r \in Request, StopRun(c, r)
       PROVE  FreshLeases'
  BY <1>14, <1>f DEF StopRun, historyVars, schedulerVars, counterVars,
    queueVars
<1>15. ASSUME NEW r \in Request, Exit(r) PROVE FreshLeases'
  BY <1>15, <1>f DEF Exit, historyVars, schedulerVars, counterVars, queueVars
<1>16. ASSUME NEW r \in Request, PumpChunk(r) PROVE FreshLeases'
  BY <1>16, <1>f DEF PumpChunk, schedulerVars, counterVars, queueVars
<1>17. ASSUME NEW r \in Request, WatchEnds(r) PROVE FreshLeases'
  BY <1>17, <1>f DEF WatchEnds, historyVars, schedulerVars, counterVars,
    queueVars
<1>18. ASSUME NEW r \in Request, ReportExit(r) PROVE FreshLeases'
  BY <1>18, <1>f DEF ReportExit, schedulerVars, counterVars, queueVars
<1>19. ASSUME NEW r \in Request, WatcherReleases(r) PROVE FreshLeases'
  <2>1. r \notin waiting
    BY <1>19 DEF WatcherReleases, WatcherAt, KeptByWatcher, KeepersHold,
      FreshLeases, Leases
  <2> QED
    BY <1>19, <2>1, ReturnFresh DEF WatcherReleases, Leases
<1>20. ASSUME NEW r \in Request, WatcherPops(r) PROVE FreshLeases'
  BY <1>20, <1>f DEF WatcherPops, historyVars, schedulerVars, counterVars,
    queueVars
<1> QED
  BY <1>0, <1>1, <1>2, <1>3, <1>4, <1>5, <1>6, <1>7, <1>8, <1>9, <1>10, <1>11,
    <1>12, <1>13, <1>14, <1>15, <1>16, <1>17, <1>18, <1>19, <1>20
  DEF Next, HandlerStep, WatcherStep


(* What a handler step must do to the leases of others: nothing.           *)
LEMMA HandlerKeeps ==
  ASSUME Basics, KeepersHold, NEW c \in Client, HandlerMove(c), UNCHANGED watcher,
         held \subseteq held' \/ (pc[c] \in Busy /\ held \ {cur[c]} \subseteq held'),
         pc'[c] \in Preparing => cur'[c] \in held'
  PROVE  KeepersHold'
<1>1. ASSUME NEW d \in Client, pc'[d] \in Preparing, d # c PROVE cur'[d] \in held'
  <2>1. pc[d] \in Preparing /\ cur'[d] = cur[d]
    BY <1>1, OwnPlace DEF Basics
  <2>2. cur[d] \in held /\ ClientOf[cur[d]] = d
    BY <2>1, BusyRun DEF KeepersHold, Preparing, Busy
  <2> QED
    BY <1>1, <2>1, <2>2, BusyRun
<1>2. ASSUME NEW r \in Request, KeptByWatcher(r)' PROVE r \in held'
  <2>1. KeptByWatcher(r) /\ watcher[r] # "none"
    BY <1>2 DEF KeptByWatcher
  <2> QED
    BY <2>1, BusyRun DEF KeepersHold
<1> QED
  BY <1>1, <1>2 DEF KeepersHold

(* ... and what it must do to its own.                                     *)
Kept == {"prepare", "spawn", "announce", "report", "report exit"}
LEMMA HandlerStaysKept ==
  ASSUME Basics, HeldIsKept, NEW c \in Client, HandlerMove(c),
         \A d \in Client : conn'[d] = "open" => conn[d] = "open",
         \A q \in Request : KeptByWatcher(q) => KeptByWatcher(q)',
         held' \subseteq held \/ (pc[c] \in Busy /\ held' \subseteq held \cup {cur[c]}),
         pc[c] \in Busy /\ cur[c] \in held' /\ conn'[c] = "open" =>
           watcher'[cur[c]] = "watching" \/ (pc'[c] \in Kept /\ cur'[c] = cur[c])
  PROVE  HeldIsKept'
<1> SUFFICES ASSUME NEW q \in held', conn'[ClientOf[q]] = "open"
             PROVE  (KeptByHandler(q) \/ KeptByWatcher(q))'
  BY DEF HeldIsKept
<1>1. CASE pc[c] \in Busy /\ q = cur[c]
  <2>1. ClientOf[q] = c
    BY <1>1, BusyRun
  <2> QED
    BY <1>1, <2>1 DEF KeptByHandler, KeptByWatcher, Kept
<1>2. CASE ~ (pc[c] \in Busy /\ q = cur[c])
  <2>1. q \in held /\ q \in Request /\ ClientOf[q] \in Client
    BY <1>2, LiveRunsAssumption DEF Basics, TypeOK, SchedulerTypeOK
  <2>2. CASE KeptByWatcher(q)
    BY <2>1, <2>2
  <2>3. CASE KeptByHandler(q)
    <3>1. ClientOf[q] # c
      BY <1>2, <2>3 DEF KeptByHandler, Busy
    <3> QED
      BY <2>1, <2>3, <3>1, OwnPlace DEF KeptByHandler, Basics
  <2> QED
    BY <2>1, <2>2, <2>3 DEF HeldIsKept
<1> QED
  BY <1>1, <1>2

(* Whoever is going to return a lease has one to return.                   *)
LEMMA NextKeepersHold == Basics /\ Leases /\ [Next]_vars => KeepersHold'
<1> SUFFICES ASSUME Basics /\ Leases, [Next]_vars PROVE KeepersHold'
  OBVIOUS
<1>f. ASSUME UNCHANGED <<held, pc, cur, watcher>> PROVE KeepersHold'
  BY <1>f DEF KeepersHold, KeptByWatcher, Leases
<1>0. CASE UNCHANGED vars
  BY <1>0, <1>f DEF vars, schedulerVars, counterVars, handlerVars, runVars
<1>1. ASSUME NEW c \in Client, PeerLeaves(c) PROVE KeepersHold'
  BY <1>1, <1>f DEF PeerLeaves, runVars, handlerVars, schedulerVars,
    counterVars
<1>2. ASSUME NEW c \in Client, GetLease(c) PROVE KeepersHold'
  <2>1. HandlerMove(c)
    BY <1>2 DEF HandlerMove, HandlerStep
  <2>2. UNCHANGED watcher
    BY <1>2 DEF GetLease, runVars
  <2>3. held \subseteq held'
    BY <1>2 DEF GetLease, Activate
  <2>4. pc'[c] \in Preparing => cur'[c] \in held'
    BY <1>2, TypeParts DEF GetLease, Goto, Activate, KeepersHold, Leases,
      Preparing, HandlerTypeOK, Basics
  <2> QED
    BY <2>1, <2>2, <2>3, <2>4, HandlerKeeps DEF Leases
<1>3. ASSUME NEW c \in Client, Prepare(c) PROVE KeepersHold'
  <2>1. HandlerMove(c)
    BY <1>3 DEF HandlerMove, HandlerStep
  <2>2. UNCHANGED watcher
    BY <1>3 DEF Prepare, runVars
  <2>3. pc[c] \in Busy /\ held \ {cur[c]} \subseteq held'
    BY <1>3 DEF Prepare, ReleaseLease, Release, NoLease, schedulerVars,
      counterVars, Busy
  <2>4. pc'[c] \in Preparing => cur'[c] \in held'
    BY <1>3, TypeParts DEF Prepare, ReleaseLease, Release, Leave, Goto,
      NoLease, schedulerVars, counterVars, KeepersHold, Leases, Preparing,
      HandlerTypeOK, Basics
  <2> QED
    BY <2>1, <2>2, <2>3, <2>4, HandlerKeeps DEF Leases
<1>4. ASSUME NEW c \in Client, Spawn(c) PROVE KeepersHold'
  <2>1. HandlerMove(c)
    BY <1>4 DEF HandlerMove, HandlerStep
  <2>2. UNCHANGED watcher
    BY <1>4 DEF Spawn
  <2>3. pc[c] \in Busy /\ held \ {cur[c]} \subseteq held'
    BY <1>4 DEF Spawn, ReleaseLease, Release, NoLease, schedulerVars,
      counterVars, Busy
  <2>4. pc'[c] \in Preparing => cur'[c] \in held'
    BY <1>4, TypeParts DEF Spawn, ReleaseLease, Release, Leave, Goto, NoLease,
      schedulerVars, counterVars, KeepersHold, Leases, Preparing,
      HandlerTypeOK, Basics
  <2> QED
    BY <2>1, <2>2, <2>3, <2>4, HandlerKeeps DEF Leases
<1>5. ASSUME NEW c \in Client, Announce(c) PROVE KeepersHold'
  <2>1. cur[c] \in Request
    BY <1>5, BusyRun DEF Announce, Busy
  <2>2. cur[c] \in held /\ held' = held
    BY <1>5 DEF Announce, NoLease, schedulerVars, counterVars, Preparing,
      KeepersHold, Leases
  <2>3. pc'[c] \notin Preparing
    BY <1>5, TypeParts DEF Announce, Leave, Goto, Preparing, HandlerTypeOK,
      Basics
  <2>4. \A q \in Request \ {cur[c]} : watcher'[q] = watcher[q]
    BY <1>5, TypeParts DEF Announce, RunTypeOK, Basics
  <2>5. HandlerMove(c)
    BY <1>5 DEF HandlerMove, HandlerStep
  <2>6. ASSUME NEW d \in Client, pc'[d] \in Preparing PROVE cur'[d] \in held'
    BY <2>2, <2>3, <2>5, <2>6, OwnPlace DEF KeepersHold, Leases, Basics
  <2> QED
    BY <2>2, <2>4, <2>6 DEF KeepersHold, KeptByWatcher, Leases
<1>6. ASSUME NEW c \in Client, ReportFailure(c) PROVE KeepersHold'
  <2>1. HandlerMove(c)
    BY <1>6 DEF HandlerMove, HandlerStep
  <2>2. UNCHANGED watcher
    BY <1>6 DEF ReportFailure, runVars
  <2>3. held \subseteq held'
    BY <1>6 DEF ReportFailure, schedulerVars, counterVars
  <2>4. pc'[c] \in Preparing => cur'[c] \in held'
    BY <1>6, TypeParts DEF ReportFailure, schedulerVars, counterVars, Leave,
      Goto, KeepersHold, Leases, Preparing, HandlerTypeOK, Basics
  <2> QED
    BY <2>1, <2>2, <2>3, <2>4, HandlerKeeps DEF Leases
<1>7. ASSUME NEW c \in Client, ReportFailureExit(c) PROVE KeepersHold'
  <2>1. HandlerMove(c)
    BY <1>7 DEF HandlerMove, HandlerStep
  <2>2. UNCHANGED watcher
    BY <1>7 DEF ReportFailureExit, runVars
  <2>3. pc[c] \in Busy /\ held \ {cur[c]} \subseteq held'
    BY <1>7 DEF ReportFailureExit, NoLease, schedulerVars, counterVars,
      ReleaseLease, Release, Busy
  <2>4. pc'[c] \in Preparing => cur'[c] \in held'
    BY <1>7, TypeParts DEF ReportFailureExit, NoLease, schedulerVars,
      counterVars, Leave, Goto, ReleaseLease, Release, KeepersHold, Leases,
      Preparing, HandlerTypeOK, Basics
  <2> QED
    BY <2>1, <2>2, <2>3, <2>4, HandlerKeeps DEF Leases
<1>8. ASSUME NEW c \in Client, ReleaseAgain(c) PROVE KeepersHold'
  <2>1. HandlerMove(c)
    BY <1>8 DEF HandlerMove, HandlerStep
  <2>2. UNCHANGED watcher
    BY <1>8 DEF ReleaseAgain, runVars
  <2>3. pc[c] \in Busy /\ held \ {cur[c]} \subseteq held'
    BY <1>8 DEF ReleaseAgain, NoLease, schedulerVars, counterVars,
      ReleaseLease, Release, Busy
  <2>4. pc'[c] \in Preparing => cur'[c] \in held'
    BY <1>8, TypeParts DEF ReleaseAgain, NoLease, schedulerVars, counterVars,
      ReleaseLease, Release, Leave, Goto, KeepersHold, Leases, Preparing,
      HandlerTypeOK, Basics
  <2> QED
    BY <2>1, <2>2, <2>3, <2>4, HandlerKeeps DEF Leases
<1>9. ASSUME NEW c \in Client, ReportError(c) PROVE KeepersHold'
  <2>1. HandlerMove(c)
    BY <1>9 DEF HandlerMove, HandlerStep
  <2>2. UNCHANGED watcher
    BY <1>9 DEF ReportError, runVars
  <2>3. held \subseteq held'
    BY <1>9 DEF ReportError, schedulerVars, counterVars
  <2>4. pc'[c] \in Preparing => cur'[c] \in held'
    BY <1>9, TypeParts DEF ReportError, schedulerVars, counterVars,
      BeginCleanup, Goto, KeepersHold, Leases, Preparing, HandlerTypeOK,
      Basics
  <2> QED
    BY <2>1, <2>2, <2>3, <2>4, HandlerKeeps DEF Leases
<1>10. ASSUME NEW c \in Client, ReceiveFails(c) PROVE KeepersHold'
  <2>1. HandlerMove(c)
    BY <1>10 DEF HandlerMove, HandlerStep
  <2>2. UNCHANGED watcher
    BY <1>10 DEF ReceiveFails, runVars
  <2>3. held \subseteq held'
    BY <1>10 DEF ReceiveFails, schedulerVars, counterVars
  <2>4. pc'[c] \in Preparing => cur'[c] \in held'
    BY <1>10, TypeParts DEF ReceiveFails, schedulerVars, counterVars,
      BeginCleanup, Goto, KeepersHold, Leases, Preparing, HandlerTypeOK,
      Basics
  <2> QED
    BY <2>1, <2>2, <2>3, <2>4, HandlerKeeps DEF Leases
<1>11. ASSUME NEW c \in Client, NEW r, TerminateNext(c, r) PROVE KeepersHold'
  <2>1. HandlerMove(c)
    BY <1>11 DEF HandlerMove, HandlerStep, TerminateNext
  <2>2. UNCHANGED watcher
    BY <1>11 DEF TerminateNext
  <2>3. held \subseteq held'
    BY <1>11 DEF TerminateNext, schedulerVars, counterVars
  <2>4. pc'[c] \in Preparing => cur'[c] \in held'
    BY <1>11, TypeParts DEF TerminateNext, schedulerVars, counterVars, Goto,
      KeepersHold, Leases, Preparing, HandlerTypeOK, Basics
  <2> QED
    BY <2>1, <2>2, <2>3, <2>4, HandlerKeeps DEF Leases
<1>12. ASSUME NEW c \in Client, EndHandler(c) PROVE KeepersHold'
  <2>1. HandlerMove(c)
    BY <1>12 DEF HandlerMove, HandlerStep
  <2>2. UNCHANGED watcher
    BY <1>12 DEF EndHandler, runVars
  <2>3. held \subseteq held'
    BY <1>12 DEF EndHandler, schedulerVars, counterVars
  <2>4. pc'[c] \in Preparing => cur'[c] \in held'
    BY <1>12, TypeParts DEF EndHandler, schedulerVars, counterVars, Goto,
      KeepersHold, Leases, Preparing, HandlerTypeOK, Basics
  <2> QED
    BY <2>1, <2>2, <2>3, <2>4, HandlerKeeps DEF Leases
<1>13. ASSUME NEW c \in Client, NEW r \in Request, StartRun(c, r)
       PROVE  KeepersHold'
  <2>1. HandlerMove(c)
    BY <1>13 DEF HandlerMove
  <2>2. UNCHANGED watcher
    BY <1>13 DEF StartRun, runVars
  <2>3. held \subseteq held'
    BY <1>13 DEF StartRun, schedulerVars, counterVars, Enqueue
  <2>4. pc'[c] \in Preparing => cur'[c] \in held'
    BY <1>13, TypeParts DEF StartRun, schedulerVars, counterVars, Leave, Goto,
      Enqueue, KeepersHold, Leases, Preparing, HandlerTypeOK, Basics
  <2> QED
    BY <2>1, <2>2, <2>3, <2>4, HandlerKeeps DEF Leases
<1>14. ASSUME NEW c \in Client, NEW r \in Request, StopRun(c, r)
       PROVE  KeepersHold'
  <2>1. HandlerMove(c)
    BY <1>14 DEF HandlerMove
  <2>2. UNCHANGED watcher
    BY <1>14 DEF StopRun
  <2>3. held \subseteq held'
    BY <1>14 DEF StopRun, schedulerVars, counterVars
  <2>4. pc'[c] \in Preparing => cur'[c] \in held'
    BY <1>14, TypeParts DEF StopRun, schedulerVars, counterVars, Goto,
      KeepersHold, Leases, Preparing, HandlerTypeOK, Basics
  <2> QED
    BY <2>1, <2>2, <2>3, <2>4, HandlerKeeps DEF Leases
<1>15. ASSUME NEW r \in Request, Exit(r) PROVE KeepersHold'
  BY <1>15, <1>f DEF Exit, handlerVars, schedulerVars, counterVars
<1>16. ASSUME NEW r \in Request, PumpChunk(r) PROVE KeepersHold'
  BY <1>16, <1>f DEF PumpChunk, handlerVars, schedulerVars, counterVars
<1>17. ASSUME NEW r \in Request, WatchEnds(r) PROVE KeepersHold'
  <2>1. UNCHANGED <<pc, cur, held>>
    BY <1>17 DEF WatchEnds, handlerVars, schedulerVars, counterVars
  <2>2. ASSUME NEW q \in Request, KeptByWatcher(q)' PROVE KeptByWatcher(q)
    BY <1>17, <2>2, TypeParts DEF WatchEnds, WatcherAt, KeptByWatcher,
      RunTypeOK, Basics
  <2> QED
    BY <2>1, <2>2 DEF KeepersHold, Leases
<1>18. ASSUME NEW r \in Request, ReportExit(r) PROVE KeepersHold'
  <2>1. UNCHANGED <<pc, cur, held>>
    BY <1>18 DEF ReportExit, handlerVars, schedulerVars, counterVars
  <2>2. ASSUME NEW q \in Request, KeptByWatcher(q)' PROVE KeptByWatcher(q)
    BY <1>18, <2>2, TypeParts DEF ReportExit, WatcherAt, KeptByWatcher,
      RunTypeOK, Basics
  <2> QED
    BY <2>1, <2>2 DEF KeepersHold, Leases
<1>19. ASSUME NEW r \in Request, WatcherReleases(r) PROVE KeepersHold'
  <2>1. UNCHANGED <<pc, cur>> /\ held' = held \ {r}
    BY <1>19 DEF WatcherReleases, handlerVars, ReleaseLease, Release
  <2>2. watcher[r] = "releasing" /\ watcher' = [watcher EXCEPT ![r] =
    "popping"]
    BY <1>19 DEF WatcherReleases, WatcherAt
  <2>3. ASSUME NEW c \in Client, pc[c] \in Preparing PROVE cur[c] \in held'
    BY <2>1, <2>2, <2>3, BusyRun DEF KeepersHold, Leases, Preparing, Busy
  <2>4. ASSUME NEW q \in Request, KeptByWatcher(q)' PROVE q \in held'
    BY <2>1, <2>2, <2>4, TypeParts DEF KeptByWatcher, KeepersHold, Leases,
      RunTypeOK, Basics
  <2> QED
    BY <2>1, <2>3, <2>4 DEF KeepersHold
<1>20. ASSUME NEW r \in Request, WatcherPops(r) PROVE KeepersHold'
  <2>1. UNCHANGED <<pc, cur, held>>
    BY <1>20 DEF WatcherPops, handlerVars, schedulerVars, counterVars
  <2>2. ASSUME NEW q \in Request, KeptByWatcher(q)' PROVE KeptByWatcher(q)
    BY <1>20, <2>2, TypeParts DEF WatcherPops, WatcherAt, KeptByWatcher,
      RunTypeOK, Basics
  <2> QED
    BY <2>1, <2>2 DEF KeepersHold, Leases
<1> QED
  BY <1>0, <1>1, <1>2, <1>3, <1>4, <1>5, <1>6, <1>7, <1>8, <1>9, <1>10, <1>11,
    <1>12, <1>13, <1>14, <1>15, <1>16, <1>17, <1>18, <1>19, <1>20
  DEF Next, HandlerStep, WatcherStep

(* No lease is forgotten while its client is there.                        *)
LEMMA NextHeldIsKept == Basics /\ Leases /\ [Next]_vars => HeldIsKept'
<1> SUFFICES ASSUME Basics /\ Leases, [Next]_vars PROVE HeldIsKept'
  OBVIOUS
<1>f. ASSUME UNCHANGED <<held, conn, pc, cur, watcher>> PROVE HeldIsKept'
  BY <1>f DEF HeldIsKept, KeptByHandler, KeptByWatcher, Leases
<1>0. CASE UNCHANGED vars
  BY <1>0, <1>f DEF vars, schedulerVars, counterVars, handlerVars, runVars
<1>1. ASSUME NEW c \in Client, PeerLeaves(c) PROVE HeldIsKept'
  <2>1. UNCHANGED <<pc, cur, held, watcher>>
    BY <1>1 DEF PeerLeaves, runVars, handlerVars, schedulerVars, counterVars
  <2>2. \A d \in Client : conn'[d] = "open" => conn[d] = "open"
    BY <1>1, TypeParts DEF PeerLeaves, HandlerTypeOK, Basics
  <2>3. \A q \in held : ClientOf[q] \in Client
    BY LiveRunsAssumption DEF Basics, TypeOK, SchedulerTypeOK
  <2> QED
    BY <2>1, <2>2, <2>3 DEF HeldIsKept, KeptByHandler, KeptByWatcher, Leases
<1>2. ASSUME NEW c \in Client, GetLease(c) PROVE HeldIsKept'
  <2>1. HandlerMove(c)
    BY <1>2 DEF HandlerMove, HandlerStep
  <2>2. \A d \in Client : conn'[d] = "open" => conn[d] = "open"
    BY <1>2, TypeParts DEF GetLease, HandlerTypeOK, Basics
  <2>3. \A q \in Request : KeptByWatcher(q) => KeptByWatcher(q)'
    BY <1>2 DEF GetLease, runVars, KeptByWatcher
  <2>4. held' \subseteq held
         \/ (pc[c] \in Busy /\ held' \subseteq held \cup {cur[c]})
    BY <1>2 DEF GetLease, Activate, Busy
  <2>5. pc[c] \in Busy /\ cur[c] \in held' /\ conn'[c] = "open" =>
          pc'[c] \in Kept /\ cur'[c] = cur[c]
    BY <1>2, TypeParts DEF GetLease, historyVars, Goto, Activate, Busy, Kept,
      HandlerTypeOK, Basics
  <2> QED
    BY <2>1, <2>2, <2>3, <2>4, <2>5, HandlerStaysKept DEF Leases
<1>3. ASSUME NEW c \in Client, Prepare(c) PROVE HeldIsKept'
  <2>1. HandlerMove(c)
    BY <1>3 DEF HandlerMove, HandlerStep
  <2>2. \A d \in Client : conn'[d] = "open" => conn[d] = "open"
    BY <1>3, TypeParts DEF Prepare, HandlerTypeOK, Basics
  <2>3. \A q \in Request : KeptByWatcher(q) => KeptByWatcher(q)'
    BY <1>3 DEF Prepare, runVars, KeptByWatcher
  <2>4. held' \subseteq held
         \/ (pc[c] \in Busy /\ held' \subseteq held \cup {cur[c]})
    BY <1>3 DEF Prepare, ReleaseLease, Release, NoLease, schedulerVars,
      counterVars, Busy
  <2>5. pc[c] \in Busy /\ cur[c] \in held' /\ conn'[c] = "open" =>
          pc'[c] \in Kept /\ cur'[c] = cur[c]
    BY <1>3, TypeParts, BusyRun DEF Prepare, ReleaseLease, Release, Leave,
      Goto, NoLease, schedulerVars, counterVars, Busy, Kept, HandlerTypeOK,
      Basics
  <2> QED
    BY <2>1, <2>2, <2>3, <2>4, <2>5, HandlerStaysKept DEF Leases
<1>4. ASSUME NEW c \in Client, Spawn(c) PROVE HeldIsKept'
  <2>1. HandlerMove(c)
    BY <1>4 DEF HandlerMove, HandlerStep
  <2>2. \A d \in Client : conn'[d] = "open" => conn[d] = "open"
    BY <1>4, TypeParts DEF Spawn, HandlerTypeOK, Basics
  <2>3. \A q \in Request : KeptByWatcher(q) => KeptByWatcher(q)'
    BY <1>4 DEF Spawn, KeptByWatcher
  <2>4. held' \subseteq held
         \/ (pc[c] \in Busy /\ held' \subseteq held \cup {cur[c]})
    BY <1>4 DEF Spawn, ReleaseLease, Release, NoLease, schedulerVars,
      counterVars, Busy
  <2>5. pc[c] \in Busy /\ cur[c] \in held' /\ conn'[c] = "open" =>
          pc'[c] \in Kept /\ cur'[c] = cur[c]
    BY <1>4, TypeParts, BusyRun DEF Spawn, ReleaseLease, Release, Leave, Goto,
      NoLease, schedulerVars, counterVars, Busy, Kept, HandlerTypeOK, Basics
  <2> QED
    BY <2>1, <2>2, <2>3, <2>4, <2>5, HandlerStaysKept DEF Leases
<1>5. ASSUME NEW c \in Client, Announce(c) PROVE HeldIsKept'
  <2>1. HandlerMove(c)
    BY <1>5 DEF HandlerMove, HandlerStep
  <2>2. \A d \in Client : conn'[d] = "open" => conn[d] = "open"
    BY <1>5, TypeParts DEF Announce, SendRaises, SendOf, HandlerTypeOK, Basics
  <2>3. \A q \in Request : KeptByWatcher(q) => KeptByWatcher(q)'
    BY <1>5, TypeParts DEF Announce, KeptByWatcher, RunTypeOK, Basics
  <2>4. held' \subseteq held
         \/ (pc[c] \in Busy /\ held' \subseteq held \cup {cur[c]})
    BY <1>5 DEF Announce, NoLease, schedulerVars, counterVars, Busy
  <2>5. conn' = conn /\ pc[c] \in Busy
    BY <1>5 DEF Announce, Busy
  <2>6. cur[c] \in Request
    BY <1>5, BusyRun DEF Announce, Busy
  <2>7. conn[c] = "open" => watcher'[cur[c]] = "watching"
    BY <1>5, <2>6, TypeParts DEF Announce, SendRaises, RunTypeOK, Basics
  <2>8. pc[c] \in Busy /\ cur[c] \in held' /\ conn'[c] = "open" =>
          watcher'[cur[c]] = "watching" \/ (pc'[c] \in Kept /\ cur'[c] =
            cur[c])
    BY <2>5, <2>7
  <2> QED
    BY <2>1, <2>2, <2>3, <2>4, <2>8, HandlerStaysKept DEF Leases
<1>6. ASSUME NEW c \in Client, ReportFailure(c) PROVE HeldIsKept'
  <2>1. HandlerMove(c)
    BY <1>6 DEF HandlerMove, HandlerStep
  <2>2. \A d \in Client : conn'[d] = "open" => conn[d] = "open"
    BY <1>6, TypeParts DEF ReportFailure, SendRaises, SendOf, HandlerTypeOK,
      Basics
  <2>3. \A q \in Request : KeptByWatcher(q) => KeptByWatcher(q)'
    BY <1>6 DEF ReportFailure, runVars, KeptByWatcher
  <2>4. held' \subseteq held
         \/ (pc[c] \in Busy /\ held' \subseteq held \cup {cur[c]})
    BY <1>6 DEF ReportFailure, schedulerVars, counterVars, Busy
  <2>5. pc[c] \in Busy /\ cur[c] \in held' /\ conn'[c] = "open" =>
          pc'[c] \in Kept /\ cur'[c] = cur[c]
    BY <1>6, TypeParts DEF ReportFailure, schedulerVars, counterVars, Leave,
      Goto, SendRaises, SendOf, Busy, Kept, HandlerTypeOK, Basics
  <2> QED
    BY <2>1, <2>2, <2>3, <2>4, <2>5, HandlerStaysKept DEF Leases
<1>7. ASSUME NEW c \in Client, ReportFailureExit(c) PROVE HeldIsKept'
  <2>1. HandlerMove(c)
    BY <1>7 DEF HandlerMove, HandlerStep
  <2>2. \A d \in Client : conn'[d] = "open" => conn[d] = "open"
    BY <1>7, TypeParts DEF ReportFailureExit, SendRaises, SendOf,
      HandlerTypeOK, Basics
  <2>3. \A q \in Request : KeptByWatcher(q) => KeptByWatcher(q)'
    BY <1>7 DEF ReportFailureExit, runVars, KeptByWatcher
  <2>4. held' \subseteq held
         \/ (pc[c] \in Busy /\ held' \subseteq held \cup {cur[c]})
    BY <1>7 DEF ReportFailureExit, NoLease, schedulerVars, counterVars,
      ReleaseLease, Release, Busy
  <2>5. pc[c] \in Busy /\ cur[c] \in held' /\ conn'[c] = "open" =>
          pc'[c] \in Kept /\ cur'[c] = cur[c]
    BY <1>7, TypeParts, BusyRun, ZenonT(40) DEF ReportFailureExit, NoLease, schedulerVars,
      counterVars, Leave, Goto, SendRaises, ReleaseLease, Release, SendOf,
      Busy, Kept, HandlerTypeOK, Basics
  <2> QED
    BY <2>1, <2>2, <2>3, <2>4, <2>5, HandlerStaysKept DEF Leases
<1>8. ASSUME NEW c \in Client, ReleaseAgain(c) PROVE HeldIsKept'
  <2>1. HandlerMove(c)
    BY <1>8 DEF HandlerMove, HandlerStep
  <2>2. \A d \in Client : conn'[d] = "open" => conn[d] = "open"
    BY <1>8, TypeParts DEF ReleaseAgain, HandlerTypeOK, Basics
  <2>3. \A q \in Request : KeptByWatcher(q) => KeptByWatcher(q)'
    BY <1>8 DEF ReleaseAgain, runVars, KeptByWatcher
  <2>4. held' \subseteq held
         \/ (pc[c] \in Busy /\ held' \subseteq held \cup {cur[c]})
    BY <1>8 DEF ReleaseAgain, NoLease, schedulerVars, counterVars,
      ReleaseLease, Release, Busy
  <2>6. cur[c] \in Request
    BY <1>8, BusyRun DEF ReleaseAgain, Busy
  <2>7. ClientOf[cur[c]] = c /\ watcher[cur[c]] = "none"
        /\ pc[c] = "release again"
    BY <1>8, BusyRun DEF ReleaseAgain, Busy
  <2>8. conn[c] = "open" => cur[c] \notin held
    BY <2>7 DEF HeldIsKept, KeptByHandler, KeptByWatcher, Leases
  <2>9. conn' = conn /\ held' \subseteq held
    BY <1>8 DEF ReleaseAgain, NoLease, schedulerVars, counterVars,
      ReleaseLease, Release
  <2> QED
    BY <2>1, <2>2, <2>3, <2>4, <2>8, <2>9, HandlerStaysKept DEF Leases
<1>9. ASSUME NEW c \in Client, ReportError(c) PROVE HeldIsKept'
  <2>1. HandlerMove(c)
    BY <1>9 DEF HandlerMove, HandlerStep
  <2>2. \A d \in Client : conn'[d] = "open" => conn[d] = "open"
    BY <1>9, TypeParts DEF ReportError, SendRaises, HandlerTypeOK, Basics
  <2>3. \A q \in Request : KeptByWatcher(q) => KeptByWatcher(q)'
    BY <1>9 DEF ReportError, runVars, KeptByWatcher
  <2>4. held' \subseteq held
         \/ (pc[c] \in Busy /\ held' \subseteq held \cup {cur[c]})
    BY <1>9 DEF ReportError, schedulerVars, counterVars, Busy
  <2>5. pc[c] \in Busy /\ cur[c] \in held' /\ conn'[c] = "open" =>
          pc'[c] \in Kept /\ cur'[c] = cur[c]
    BY <1>9, TypeParts DEF ReportError, schedulerVars, counterVars,
      BeginCleanup, Goto, SendRaises, Busy, Kept, HandlerTypeOK, Basics
  <2> QED
    BY <2>1, <2>2, <2>3, <2>4, <2>5, HandlerStaysKept DEF Leases
<1>10. ASSUME NEW c \in Client, ReceiveFails(c) PROVE HeldIsKept'
  <2>1. HandlerMove(c)
    BY <1>10 DEF HandlerMove, HandlerStep
  <2>2. \A d \in Client : conn'[d] = "open" => conn[d] = "open"
    BY <1>10, TypeParts DEF ReceiveFails, HandlerTypeOK, Basics
  <2>3. \A q \in Request : KeptByWatcher(q) => KeptByWatcher(q)'
    BY <1>10 DEF ReceiveFails, runVars, KeptByWatcher
  <2>4. held' \subseteq held
         \/ (pc[c] \in Busy /\ held' \subseteq held \cup {cur[c]})
    BY <1>10 DEF ReceiveFails, schedulerVars, counterVars, Busy
  <2>5. pc[c] \in Busy /\ cur[c] \in held' /\ conn'[c] = "open" =>
          pc'[c] \in Kept /\ cur'[c] = cur[c]
    BY <1>10, TypeParts DEF ReceiveFails, historyVars, schedulerVars,
      counterVars, BeginCleanup, Goto, Busy, Kept, HandlerTypeOK, Basics
  <2> QED
    BY <2>1, <2>2, <2>3, <2>4, <2>5, HandlerStaysKept DEF Leases
<1>11. ASSUME NEW c \in Client, NEW r, TerminateNext(c, r) PROVE HeldIsKept'
  <2>1. HandlerMove(c)
    BY <1>11 DEF HandlerMove, HandlerStep, TerminateNext
  <2>2. \A d \in Client : conn'[d] = "open" => conn[d] = "open"
    BY <1>11, TypeParts DEF TerminateNext, HandlerTypeOK, Basics
  <2>3. \A q \in Request : KeptByWatcher(q) => KeptByWatcher(q)'
    BY <1>11 DEF TerminateNext, KeptByWatcher
  <2>4. held' \subseteq held
         \/ (pc[c] \in Busy /\ held' \subseteq held \cup {cur[c]})
    BY <1>11 DEF TerminateNext, schedulerVars, counterVars, Busy
  <2>5. pc[c] \in Busy /\ cur[c] \in held' /\ conn'[c] = "open" =>
          pc'[c] \in Kept /\ cur'[c] = cur[c]
    BY <1>11, TypeParts DEF TerminateNext, historyVars, schedulerVars,
      counterVars, Goto, Busy, Kept, HandlerTypeOK, Basics
  <2> QED
    BY <2>1, <2>2, <2>3, <2>4, <2>5, HandlerStaysKept DEF Leases
<1>12. ASSUME NEW c \in Client, EndHandler(c) PROVE HeldIsKept'
  <2>1. HandlerMove(c)
    BY <1>12 DEF HandlerMove, HandlerStep
  <2>2. \A d \in Client : conn'[d] = "open" => conn[d] = "open"
    BY <1>12, TypeParts DEF EndHandler, HandlerTypeOK, Basics
  <2>3. \A q \in Request : KeptByWatcher(q) => KeptByWatcher(q)'
    BY <1>12 DEF EndHandler, runVars, KeptByWatcher
  <2>4. held' \subseteq held
         \/ (pc[c] \in Busy /\ held' \subseteq held \cup {cur[c]})
    BY <1>12 DEF EndHandler, schedulerVars, counterVars, Busy
  <2>5. pc[c] \in Busy /\ cur[c] \in held' /\ conn'[c] = "open" =>
          pc'[c] \in Kept /\ cur'[c] = cur[c]
    BY <1>12, TypeParts DEF EndHandler, historyVars, schedulerVars,
      counterVars, Goto, Busy, Kept, HandlerTypeOK, Basics
  <2> QED
    BY <2>1, <2>2, <2>3, <2>4, <2>5, HandlerStaysKept DEF Leases
<1>13. ASSUME NEW c \in Client, NEW r \in Request, StartRun(c, r)
       PROVE  HeldIsKept'
  <2>1. HandlerMove(c)
    BY <1>13 DEF HandlerMove
  <2>2. \A d \in Client : conn'[d] = "open" => conn[d] = "open"
    BY <1>13, TypeParts DEF StartRun, HandlerTypeOK, Basics
  <2>3. \A q \in Request : KeptByWatcher(q) => KeptByWatcher(q)'
    BY <1>13 DEF StartRun, runVars, KeptByWatcher
  <2>4. held' \subseteq held
         \/ (pc[c] \in Busy /\ held' \subseteq held \cup {cur[c]})
    BY <1>13 DEF StartRun, schedulerVars, counterVars, Enqueue, Busy
  <2>5. pc[c] \in Busy /\ cur[c] \in held' /\ conn'[c] = "open" =>
          pc'[c] \in Kept /\ cur'[c] = cur[c]
    BY <1>13, TypeParts DEF StartRun, historyVars, schedulerVars, counterVars,
      Leave, Goto, Enqueue, Busy, Kept, HandlerTypeOK, Basics
  <2> QED
    BY <2>1, <2>2, <2>3, <2>4, <2>5, HandlerStaysKept DEF Leases
<1>14. ASSUME NEW c \in Client, NEW r \in Request, StopRun(c, r)
       PROVE  HeldIsKept'
  <2>1. HandlerMove(c)
    BY <1>14 DEF HandlerMove
  <2>2. \A d \in Client : conn'[d] = "open" => conn[d] = "open"
    BY <1>14, TypeParts DEF StopRun, HandlerTypeOK, Basics
  <2>3. \A q \in Request : KeptByWatcher(q) => KeptByWatcher(q)'
    BY <1>14 DEF StopRun, KeptByWatcher
  <2>4. held' \subseteq held
         \/ (pc[c] \in Busy /\ held' \subseteq held \cup {cur[c]})
    BY <1>14 DEF StopRun, schedulerVars, counterVars, Busy
  <2>5. pc[c] \in Busy /\ cur[c] \in held' /\ conn'[c] = "open" =>
          pc'[c] \in Kept /\ cur'[c] = cur[c]
    BY <1>14, TypeParts DEF StopRun, historyVars, schedulerVars, counterVars,
      Goto, Busy, Kept, HandlerTypeOK, Basics
  <2> QED
    BY <2>1, <2>2, <2>3, <2>4, <2>5, HandlerStaysKept DEF Leases
<1>15. ASSUME NEW r \in Request, Exit(r) PROVE HeldIsKept'
  BY <1>15, <1>f DEF Exit, handlerVars, schedulerVars, counterVars
<1>16. ASSUME NEW r \in Request, PumpChunk(r) PROVE HeldIsKept'
  BY <1>16, <1>f DEF PumpChunk, handlerVars, schedulerVars, counterVars,
    SendRaises, SendOf
<1>17. ASSUME NEW r \in Request, WatchEnds(r) PROVE HeldIsKept'
  <2>1. UNCHANGED <<conn, pc, cur, held>>
    BY <1>17 DEF WatchEnds, handlerVars, schedulerVars, counterVars
  <2>2. ASSUME NEW q \in held, KeptByWatcher(q) PROVE KeptByWatcher(q)'
    BY <1>17, <2>2, TypeParts DEF WatchEnds, WatcherAt, KeptByWatcher,
      RunTypeOK, Basics
  <2> QED
    BY <2>1, <2>2 DEF HeldIsKept, KeptByHandler, Leases
<1>18. ASSUME NEW r \in Request, ReportExit(r) PROVE HeldIsKept'
  <2>1. UNCHANGED <<conn, pc, cur, held>>
    BY <1>18 DEF ReportExit, handlerVars, schedulerVars, counterVars,
      SendRaises, SendOf
  <2>2. ASSUME NEW q \in held, conn[ClientOf[q]] = "open", KeptByWatcher(q)
        PROVE  KeptByWatcher(q)'
    <3>1. q \in Request
      BY DEF Basics, TypeOK, SchedulerTypeOK
    <3>2. watcher \in [Request -> {"none", "watching", "reporting",
      "releasing",
                                  "popping", "done", "dead"}]
      BY TypeParts DEF RunTypeOK, Basics
    <3>3. CASE q = r
      BY <1>18, <2>2, <3>1, <3>2, <3>3 DEF ReportExit, WatcherAt, SendRaises,
        KeptByWatcher
    <3>4. CASE q # r
      BY <1>18, <2>2, <3>1, <3>2, <3>4 DEF ReportExit, WatcherAt,
        KeptByWatcher
    <3> QED
      BY <3>3, <3>4
  <2> QED
    BY <2>1, <2>2 DEF HeldIsKept, KeptByHandler, Leases
<1>19. ASSUME NEW r \in Request, WatcherReleases(r) PROVE HeldIsKept'
  <2>1. UNCHANGED <<conn, pc, cur>> /\ held' = held \ {r}
    BY <1>19 DEF WatcherReleases, handlerVars, ReleaseLease, Release
  <2>2. ASSUME NEW q \in held', KeptByWatcher(q) PROVE KeptByWatcher(q)'
    BY <1>19, <2>1, <2>2, TypeParts DEF WatcherReleases, WatcherAt,
      KeptByWatcher, RunTypeOK, Basics
  <2> QED
    BY <2>1, <2>2 DEF HeldIsKept, KeptByHandler, Leases
<1>20. ASSUME NEW r \in Request, WatcherPops(r) PROVE HeldIsKept'
  <2>1. UNCHANGED <<conn, pc, cur, held>>
    BY <1>20 DEF WatcherPops, handlerVars, schedulerVars, counterVars
  <2>2. ASSUME NEW q \in held, KeptByWatcher(q) PROVE KeptByWatcher(q)'
    BY <1>20, <2>2, TypeParts DEF WatcherPops, WatcherAt, KeptByWatcher,
      RunTypeOK, Basics
  <2> QED
    BY <2>1, <2>2 DEF HeldIsKept, KeptByHandler, Leases
<1> QED
  BY <1>0, <1>1, <1>2, <1>3, <1>4, <1>5, <1>6, <1>7, <1>8, <1>9, <1>10, <1>11,
    <1>12, <1>13, <1>14, <1>15, <1>16, <1>17, <1>18, <1>19, <1>20
  DEF Next, HandlerStep, WatcherStep


LEMMA LeasesInvariant == SafeSpec => [](Basics /\ Leases)
<1>1. Basics /\ Leases /\ [Next]_vars => (Basics /\ Leases)'
  BY NextBasics, NextFreshLeases, NextKeepersHold, NextHeldIsKept DEF Leases
<1> QED
  BY <1>1, InitBasics, InitLeases, PTL DEF SafeSpec

(* As long as its client is there, every lease that is out is in the hands *)
(* of exactly one thread: the handler thread or the watcher.               *)
THEOREM LeasesHaveKeepers == SafeSpec => []LeaseHasKeeper
<1>1. Basics /\ Leases => LeaseHasKeeper
  <2> SUFFICES ASSUME Basics, Leases, NEW r \in held, conn[ClientOf[r]] = "open"
               PROVE  \/ KeptByHandler(r) /\ ~ KeptByWatcher(r)
                      \/ KeptByWatcher(r) /\ ~ KeptByHandler(r)
    BY DEF LeaseHasKeeper
  <2>1. KeptByHandler(r) \/ KeptByWatcher(r)
    BY DEF Leases, HeldIsKept
  <2>2. ClientOf[r] \in Client
    BY LiveRunsAssumption DEF Basics, TypeOK, SchedulerTypeOK
  <2>3. KeptByHandler(r) => watcher[r] = "none"
    BY <2>2, BusyRun DEF KeptByHandler, Busy
  <2> QED
    BY <2>1, <2>3 DEF KeptByWatcher
<1> QED
  BY <1>1, LeasesInvariant, PTL

-----------------------------------------------------------------------------
(* Counters.                                                               *)
Counts == NeverOvercounts /\ ExactUnlessReleasedTwice

LEMMA InitCounts == Init => Counts
<1> SUFFICES ASSUME Init PROVE Counts
  OBVIOUS
<1>1. held = {} /\ activeTotal = 0 /\ \A o \in Owner : activeByOwner[o] = 0
  BY DEF Init, SchedulerInit
<1>2. Cardinality(held) = 0 /\ \A o \in Owner : Cardinality(HeldBy(o)) = 0
  BY <1>1, FS_EmptySet DEF HeldBy
<1> QED
  BY <1>1, <1>2 DEF Counts, NeverOvercounts, ExactUnlessReleasedTwice

(* What the counters and the leases are, as numbers.                       *)
LEMMA Numbers ==
  ASSUME Basics, FreshLeases
  PROVE  /\ activeTotal \in Nat /\ Cardinality(held) \in Nat
         /\ \A o \in Owner :
              activeByOwner[o] \in Nat /\ Cardinality(HeldBy(o)) \in Nat
BY HeldByFinite, FS_CardinalityType
DEF Basics, TypeOK, SchedulerTypeOK, FreshLeases

(* A grant counts one more of both, ...                                    *)
LEMMA GrantCounts ==
  ASSUME Basics, Leases, Counts, NEW r \in Request, Activate(r),
         UNCHANGED released
  PROVE  Counts'
<1>1. /\ Cardinality(held') = Cardinality(held) + 1
      /\ activeTotal' = activeTotal + 1
      /\ \A o \in Owner :
           /\ Cardinality(HeldBy(o)') = Cardinality(HeldBy(o)) + Mine(r, o)
           /\ activeByOwner'[o] = activeByOwner[o] + Mine(r, o)
  BY ActivateCounts DEF Leases, FreshLeases, Basics, TypeOK
<1>2. \A o \in Owner : Mine(r, o) \in Nat
  BY DEF Mine
<1>3. NeverOvercounts'
  BY <1>1, <1>2, Numbers DEF Counts, NeverOvercounts, Leases
<1>4. ExactUnlessReleasedTwice'
  BY <1>1 DEF Counts, ExactUnlessReleasedTwice
<1> QED
  BY <1>3, <1>4 DEF Counts

(* ... the return of a lease that is out one less, ...                     *)
LEMMA ReturnCounts ==
  ASSUME Basics, Leases, Counts, NEW r \in held, ReleaseLease(r)
  PROVE  Counts'
<1>1. r \in Request /\ Release(r) /\ released' = [released EXCEPT ![r] = @ + 1]
  BY DEF ReleaseLease, Basics, TypeOK, SchedulerTypeOK
<1>2. /\ activeTotal' = AtLeast(0, activeTotal - 1)
      /\ \A o \in Owner :
           activeByOwner'[o] = AtLeast(0, activeByOwner[o] - Mine(r, o))
  BY <1>1, ReleaseClamps DEF Basics, TypeOK
<1>3. /\ Cardinality(held') = Cardinality(held) - 1
      /\ Cardinality(held') \in Nat
      /\ \A o \in Owner :
           /\ Cardinality(HeldBy(o)') = Cardinality(HeldBy(o)) - Mine(r, o)
           /\ Cardinality(HeldBy(o)') \in Nat
  BY <1>1, ReleaseCounts DEF Leases, FreshLeases
<1>4. \A o \in Owner : Mine(r, o) \in Nat
  BY DEF Mine
<1>5. NeverOvercounts'
  BY <1>2, <1>3, <1>4, Numbers DEF Counts, NeverOvercounts, Leases, AtLeast
<1>6. ASSUME \A q \in Request : released'[q] <= 1
      PROVE  \A q \in Request : released[q] <= 1
  BY <1>1, <1>6, TypeParts DEF Basics, HistoryTypeOK
<1>7. ExactUnlessReleasedTwice'
  BY <1>2, <1>3, <1>4, <1>6, Numbers
  DEF Counts, ExactUnlessReleasedTwice, Leases, AtLeast
<1> QED
  BY <1>5, <1>7 DEF Counts

(* ... and a second release at most one less, which is then seen in the    *)
(* history.                                                                *)
LEMMA AgainCounts ==
  ASSUME Basics, Leases, Counts, NEW r \in Request, released[r] > 0,
         ReleaseLease(r)
  PROVE  Counts'
<1>1. held' = held
  BY DEF ReleaseLease, Release, Leases, FreshLeases
<1>2. /\ activeTotal' = AtLeast(0, activeTotal - 1)
      /\ \A o \in Owner :
           activeByOwner'[o] = AtLeast(0, activeByOwner[o] - Mine(r, o))
  BY ReleaseClamps DEF ReleaseLease, Basics, TypeOK
<1>3. \A o \in Owner : Mine(r, o) \in Nat /\ HeldBy(o)' = HeldBy(o)
  BY <1>1 DEF Mine, HeldBy
<1>4. NeverOvercounts'
  BY <1>1, <1>2, <1>3, Numbers DEF Counts, NeverOvercounts, Leases, AtLeast
<1>5. released'[r] > 1
  BY TypeParts DEF ReleaseLease, Basics, HistoryTypeOK
<1>6. released'[r] \in Nat
  BY ReleasedType, TypeParts DEF Basics
<1>7. ExactUnlessReleasedTwice'
  BY <1>5, <1>6 DEF ExactUnlessReleasedTwice
<1> QED
  BY <1>4, <1>7 DEF Counts

(* The counters never say too much, and are exact but for second releases. *)
LEMMA NextCounts == Basics /\ Leases /\ Counts /\ [Next]_vars => Counts'
<1> SUFFICES ASSUME Basics /\ Leases /\ Counts, [Next]_vars PROVE Counts'
  OBVIOUS
<1>f. ASSUME UNCHANGED <<activeTotal, activeByOwner, held, released>> PROVE
  Counts'
  BY <1>f DEF Counts, NeverOvercounts, ExactUnlessReleasedTwice, HeldBy
<1>0. CASE UNCHANGED vars
  BY <1>0, <1>f DEF vars, schedulerVars, counterVars, historyVars
<1>1. ASSUME NEW c \in Client, PeerLeaves(c) PROVE Counts'
  BY <1>1, <1>f DEF PeerLeaves, historyVars, schedulerVars, counterVars
<1>2. ASSUME NEW c \in Client, GetLease(c) PROVE Counts'
  <2>1. cur[c] \in Request
    BY <1>2, BusyRun DEF GetLease, Busy
  <2> QED
    BY <1>2, <2>1, GrantCounts DEF GetLease, historyVars
<1>3. ASSUME NEW c \in Client, Prepare(c) PROVE Counts'
  <2>1. CASE NoLease
    BY <1>f, <2>1 DEF NoLease, schedulerVars, counterVars
  <2>2. CASE ReleaseLease(cur[c])
    BY <1>3, <2>2, ReturnCounts DEF Prepare, Preparing, KeepersHold, Leases
  <2> QED
    BY <1>3, <2>1, <2>2 DEF Prepare
<1>4. ASSUME NEW c \in Client, Spawn(c) PROVE Counts'
  <2>1. CASE NoLease
    BY <1>f, <2>1 DEF NoLease, schedulerVars, counterVars
  <2>2. CASE ReleaseLease(cur[c])
    BY <1>4, <2>2, ReturnCounts DEF Spawn, Preparing, KeepersHold, Leases
  <2> QED
    BY <1>4, <2>1, <2>2 DEF Spawn
<1>5. ASSUME NEW c \in Client, Announce(c) PROVE Counts'
  BY <1>5, <1>f DEF Announce, NoLease, schedulerVars, counterVars
<1>6. ASSUME NEW c \in Client, ReportFailure(c) PROVE Counts'
  BY <1>6, <1>f DEF ReportFailure, schedulerVars, counterVars
<1>7. ASSUME NEW c \in Client, ReportFailureExit(c) PROVE Counts'
  <2>1. CASE NoLease
    BY <1>f, <2>1 DEF NoLease, schedulerVars, counterVars
  <2>2. CASE cur[c] \in held /\ ReleaseLease(cur[c])
    BY <2>2, ReturnCounts
  <2> QED
    BY <1>7, <2>1, <2>2 DEF ReportFailureExit
<1>8. ASSUME NEW c \in Client, ReleaseAgain(c) PROVE Counts'
  <2>1. cur[c] \in Request
    BY <1>8, BusyRun DEF ReleaseAgain, Busy
  <2>2. CASE NoLease
    BY <1>f, <2>2 DEF NoLease, schedulerVars, counterVars
  <2>3. CASE released[cur[c]] > 0 /\ ReleaseLease(cur[c])
    BY <2>1, <2>3, AgainCounts
  <2> QED
    BY <1>8, <2>2, <2>3 DEF ReleaseAgain
<1>9. ASSUME NEW c \in Client, ReportError(c) PROVE Counts'
  BY <1>9, <1>f DEF ReportError, schedulerVars, counterVars
<1>10. ASSUME NEW c \in Client, ReceiveFails(c) PROVE Counts'
  BY <1>10, <1>f DEF ReceiveFails, historyVars, schedulerVars, counterVars
<1>11. ASSUME NEW c \in Client, NEW r, TerminateNext(c, r) PROVE Counts'
  BY <1>11, <1>f DEF TerminateNext, historyVars, schedulerVars, counterVars
<1>12. ASSUME NEW c \in Client, EndHandler(c) PROVE Counts'
  BY <1>12, <1>f DEF EndHandler, historyVars, schedulerVars, counterVars
<1>13. ASSUME NEW c \in Client, NEW r \in Request, StartRun(c, r)
       PROVE  Counts'
  BY <1>13, <1>f DEF StartRun, Enqueue, schedulerVars, counterVars,
    historyVars
<1>14. ASSUME NEW c \in Client, NEW r \in Request, StopRun(c, r) PROVE Counts'
  BY <1>14, <1>f DEF StopRun, historyVars, schedulerVars, counterVars
<1>15. ASSUME NEW r \in Request, Exit(r) PROVE Counts'
  BY <1>15, <1>f DEF Exit, historyVars, schedulerVars, counterVars
<1>16. ASSUME NEW r \in Request, PumpChunk(r) PROVE Counts'
  BY <1>16, <1>f DEF PumpChunk, schedulerVars, counterVars
<1>17. ASSUME NEW r \in Request, WatchEnds(r) PROVE Counts'
  BY <1>17, <1>f DEF WatchEnds, historyVars, schedulerVars, counterVars
<1>18. ASSUME NEW r \in Request, ReportExit(r) PROVE Counts'
  BY <1>18, <1>f DEF ReportExit, schedulerVars, counterVars
<1>19. ASSUME NEW r \in Request, WatcherReleases(r) PROVE Counts'
  <2>1. r \in held
    BY <1>19 DEF WatcherReleases, WatcherAt, KeptByWatcher, KeepersHold,
      Leases
  <2> QED
    BY <1>19, <2>1, ReturnCounts DEF WatcherReleases
<1>20. ASSUME NEW r \in Request, WatcherPops(r) PROVE Counts'
  BY <1>20, <1>f DEF WatcherPops, historyVars, schedulerVars, counterVars
<1> QED
  BY <1>0, <1>1, <1>2, <1>3, <1>4, <1>5, <1>6, <1>7, <1>8, <1>9, <1>10, <1>11,
    <1>12, <1>13, <1>14, <1>15, <1>16, <1>17, <1>18, <1>19, <1>20
  DEF Next, HandlerStep, WatcherStep


LEMMA CountsInvariant == SafeSpec => []Counts
<1>1. Init => Basics /\ Leases /\ Counts
  BY InitBasics, InitLeases, InitCounts
<1>2. Basics /\ Leases /\ Counts /\ [Next]_vars => (Basics /\ Leases /\ Counts)'
  BY NextBasics, NextFreshLeases, NextKeepersHold, NextHeldIsKept, NextCounts
  DEF Leases
<1> QED
  BY <1>1, <1>2, PTL DEF SafeSpec

(* The counters of acquire() never say that more executions are under way  *)
(* than there are, however often leases are released.                      *)
THEOREM CountersNeverOvercount == SafeSpec => []NeverOvercounts
<1>1. Counts => NeverOvercounts
  BY DEF Counts
<1> QED
  BY <1>1, CountsInvariant, PTL

(* Until some lease has been released twice the counters are exact: every  *)
(* path but the failure report returns a lease at most once.               *)
THEOREM CountersExactUntilSecondRelease == SafeSpec => []ExactUnlessReleasedTwice
<1>1. Counts => ExactUnlessReleasedTwice
  BY DEF Counts
<1> QED
  BY <1>1, CountsInvariant, PTL

-----------------------------------------------------------------------------
(* Processes.                                                              *)

(* A watcher that has stopped watching has seen its process end, ...       *)
Past == {"reporting", "releasing", "popping", "done", "dead"}
WatchedToTheEnd ==
  \A r \in Request : watcher[r] \in Past => proc[r] # "running"

(* ... and the cleanup's list names all that is left to end.               *)
CleanupKnows ==
  \A c \in Client : pc[c] = "cleanup" =>
    \A r \in RunsOf(c) : proc[r] = "running" => r \in todo[c]

Processes ==
  RunningIsStoppable /\ WatchedToTheEnd /\ CleanupKnows /\ CleanEndKillsRuns

LEMMA InitProcesses == Init => Processes
BY DEF Init, Processes, RunningIsStoppable, WatchedToTheEnd, CleanupKnows,
  CleanEndKillsRuns, RunsOf

(* A step that starts no process, drops no session and is not the cleanup's *)
(* keeps these facts.                                                      *)
LEMMA NothingStarts ==
  ASSUME Basics, Processes, NEW c \in Client, HandlerMove(c),
         pc'[c] \notin {"cleanup", "done"}, sessions' = sessions,
         \A r \in Request : proc'[r] = "running" => proc[r] = "running",
         \A r \in Request : watcher'[r] \in Past => watcher[r] \in Past
  PROVE  Processes'
<1>1. RunningIsStoppable' /\ WatchedToTheEnd'
  BY DEF Processes, RunningIsStoppable, WatchedToTheEnd
<1>2. \A d \in Client : pc'[d] \in {"cleanup", "done"} =>
        pc[d] = pc'[d] /\ todo'[d] = todo[d]
  BY OwnPlace DEF Basics
<1>3. \A d \in Client : RunsOf(d) \subseteq Request
  BY DEF RunsOf
<1>4. CleanupKnows'
  BY <1>2, <1>3 DEF Processes, CleanupKnows, RunsOf
<1>5. CleanEndKillsRuns'
  BY <1>2, <1>3 DEF Processes, CleanEndKillsRuns, RunsOf
<1> QED
  BY <1>1, <1>4, <1>5 DEF Processes

(* The cleanup's list is complete because what runs is a session.          *)
LEMMA CleanupBegins ==
  ASSUME Basics, Processes, NEW c \in Client, HandlerMove(c), BeginCleanup(c),
         UNCHANGED <<sessions, proc, watcher>>
  PROVE  Processes'
<1>1. RunningIsStoppable' /\ WatchedToTheEnd'
  BY DEF Processes, RunningIsStoppable, WatchedToTheEnd
<1>2. pc'[c] = "cleanup" /\ todo'[c] = sessions \cap RunsOf(c)
  BY TypeParts DEF BeginCleanup, Goto, HandlerTypeOK, Basics
<1>3. \A d \in Client \ {c} : pc'[d] = pc[d] /\ todo'[d] = todo[d]
  BY OwnPlace DEF Basics
<1>4. CleanupKnows'
  BY <1>2, <1>3 DEF Processes, CleanupKnows, RunningIsStoppable, RunsOf
<1>5. CleanEndKillsRuns'
  BY <1>2, <1>3 DEF Processes, CleanEndKillsRuns, RunsOf
<1> QED
  BY <1>1, <1>4, <1>5 DEF Processes

(* What runs is found, and the cleanup ends it.                            *)
LEMMA NextProcesses == Basics /\ Processes /\ [Next]_vars => Processes'
<1> SUFFICES ASSUME Basics /\ Processes, [Next]_vars PROVE Processes'
  OBVIOUS
<1>f. ASSUME UNCHANGED <<pc, todo, sessions, proc, watcher>> PROVE Processes'
  BY <1>f DEF Processes, RunningIsStoppable, WatchedToTheEnd, CleanupKnows,
    CleanEndKillsRuns, RunsOf
<1>0. CASE UNCHANGED vars
  BY <1>0, <1>f DEF vars, handlerVars, runVars
<1>1. ASSUME NEW c \in Client, PeerLeaves(c) PROVE Processes'
  BY <1>1, <1>f DEF PeerLeaves, runVars, handlerVars
<1>2. ASSUME NEW c \in Client, GetLease(c) PROVE Processes'
  <2>1. HandlerMove(c)
    BY <1>2 DEF HandlerMove, HandlerStep
  <2>2. pc'[c] \notin {"cleanup", "done"}
    BY <1>2, TypeParts DEF GetLease, Goto, HandlerTypeOK, Basics
  <2>3. UNCHANGED <<sessions, proc, watcher>>
    BY <1>2 DEF GetLease, runVars
  <2> QED
    BY <2>1, <2>2, <2>3, NothingStarts
<1>3. ASSUME NEW c \in Client, Prepare(c) PROVE Processes'
  <2>1. HandlerMove(c)
    BY <1>3 DEF HandlerMove, HandlerStep
  <2>2. pc'[c] \notin {"cleanup", "done"}
    BY <1>3, TypeParts DEF Prepare, Leave, Goto, HandlerTypeOK, Basics
  <2>3. UNCHANGED <<sessions, proc, watcher>>
    BY <1>3 DEF Prepare, runVars
  <2> QED
    BY <2>1, <2>2, <2>3, NothingStarts
<1>4. ASSUME NEW c \in Client, Spawn(c) PROVE Processes'
  <2>1. HandlerMove(c)
    BY <1>4 DEF HandlerMove, HandlerStep
  <2>2. cur[c] \in Request /\ ClientOf[cur[c]] = c /\ watcher[cur[c]] = "none"
    BY <1>4, BusyRun DEF Spawn, Busy
  <2>3. pc'[c] \notin {"cleanup", "done"}
    BY <1>4, TypeParts DEF Spawn, Leave, Goto, HandlerTypeOK, Basics
  <2>4. CASE UNCHANGED <<proc, sessions>>
    BY <1>4, <2>1, <2>3, <2>4, NothingStarts DEF Spawn
  <2>5. CASE proc' = [proc EXCEPT ![cur[c]] = "running"]
            /\ sessions' = sessions \cup {cur[c]}
    <3>1. \A q \in Request : proc'[q] = "running" => q = cur[c] \/ proc[q] =
      "running"
      BY <2>5, TypeParts DEF RunTypeOK, Basics
    <3>2. \A d \in Client : pc'[d] \in {"cleanup", "done"} =>
            d # c /\ pc'[d] = pc[d] /\ todo'[d] = todo[d]
      BY <2>1, <2>3, OwnPlace DEF Basics
    <3>3. RunningIsStoppable'
      BY <2>5, <3>1 DEF Processes, RunningIsStoppable
    <3>4. WatchedToTheEnd'
      BY <1>4, <2>2, <3>1 DEF Spawn, Processes, WatchedToTheEnd, Past
    <3>5. CleanupKnows'
      BY <2>2, <3>1, <3>2 DEF Processes, CleanupKnows, RunsOf
    <3>6. CleanEndKillsRuns'
      BY <2>2, <3>1, <3>2 DEF Processes, CleanEndKillsRuns, RunsOf
    <3> QED
      BY <3>3, <3>4, <3>5, <3>6 DEF Processes
  <2> QED
    BY <1>4, <2>4, <2>5 DEF Spawn
<1>5. ASSUME NEW c \in Client, Announce(c) PROVE Processes'
  <2>1. HandlerMove(c)
    BY <1>5 DEF HandlerMove, HandlerStep
  <2>2. pc'[c] \notin {"cleanup", "done"}
    BY <1>5, TypeParts DEF Announce, Leave, Goto, HandlerTypeOK, Basics
  <2>3. sessions' = sessions /\ proc' = proc
    BY <1>5 DEF Announce
  <2>4. \A r \in Request : watcher'[r] \in Past => watcher[r] \in Past
    BY <1>5, TypeParts DEF Announce, Past, RunTypeOK, Basics
  <2> QED
    BY <2>1, <2>2, <2>3, <2>4, NothingStarts
<1>6. ASSUME NEW c \in Client, ReportFailure(c) PROVE Processes'
  <2>1. HandlerMove(c)
    BY <1>6 DEF HandlerMove, HandlerStep
  <2>2. pc'[c] \notin {"cleanup", "done"}
    BY <1>6, TypeParts DEF ReportFailure, Leave, Goto, HandlerTypeOK, Basics
  <2>3. UNCHANGED <<sessions, proc, watcher>>
    BY <1>6 DEF ReportFailure, runVars
  <2> QED
    BY <2>1, <2>2, <2>3, NothingStarts
<1>7. ASSUME NEW c \in Client, ReportFailureExit(c) PROVE Processes'
  <2>1. HandlerMove(c)
    BY <1>7 DEF HandlerMove, HandlerStep
  <2>2. pc'[c] \notin {"cleanup", "done"}
    BY <1>7, TypeParts DEF ReportFailureExit, Leave, Goto, HandlerTypeOK,
      Basics
  <2>3. UNCHANGED <<sessions, proc, watcher>>
    BY <1>7 DEF ReportFailureExit, runVars
  <2> QED
    BY <2>1, <2>2, <2>3, NothingStarts
<1>8. ASSUME NEW c \in Client, ReleaseAgain(c) PROVE Processes'
  <2>1. HandlerMove(c)
    BY <1>8 DEF HandlerMove, HandlerStep
  <2>2. pc'[c] \notin {"cleanup", "done"}
    BY <1>8, TypeParts DEF ReleaseAgain, Leave, Goto, HandlerTypeOK, Basics
  <2>3. UNCHANGED <<sessions, proc, watcher>>
    BY <1>8 DEF ReleaseAgain, runVars
  <2> QED
    BY <2>1, <2>2, <2>3, NothingStarts
<1>9. ASSUME NEW c \in Client, ReportError(c) PROVE Processes'
  <2>1. HandlerMove(c)
    BY <1>9 DEF HandlerMove, HandlerStep
  <2>2. UNCHANGED <<sessions, proc, watcher>>
    BY <1>9 DEF ReportError, runVars
  <2>3. CASE BeginCleanup(c)
    BY <2>1, <2>2, <2>3, CleanupBegins
  <2>4. CASE Goto(c, "receive")
    <3>1. pc'[c] = "receive"
      BY <2>4, TypeParts DEF Goto, HandlerTypeOK, Basics
    <3> QED
      BY <2>1, <2>2, <3>1, NothingStarts
  <2> QED
    BY <1>9, <2>3, <2>4 DEF ReportError
<1>10. ASSUME NEW c \in Client, ReceiveFails(c) PROVE Processes'
  <2>1. HandlerMove(c)
    BY <1>10 DEF HandlerMove, HandlerStep
  <2>2. UNCHANGED <<sessions, proc, watcher>> /\ BeginCleanup(c)
    BY <1>10 DEF ReceiveFails, runVars
  <2> QED
    BY <2>1, <2>2, CleanupBegins
<1>11. ASSUME NEW c \in Client, NEW r, TerminateNext(c, r) PROVE Processes'
  <2>1. HandlerMove(c)
    BY <1>11 DEF HandlerMove, HandlerStep, TerminateNext
  <2>2. UNCHANGED <<sessions, watcher>> /\ r \in todo[c] /\ r \in Request
    BY <1>11, TypeParts DEF TerminateNext, HandlerTypeOK, Basics
  <2>3. CASE Goto(c, "aborted") /\ UNCHANGED <<proc, todo>>
    <3>1. pc'[c] = "aborted"
      BY <2>3, TypeParts DEF Goto, HandlerTypeOK, Basics
    <3> QED
      BY <2>1, <2>2, <2>3, <3>1, NothingStarts
  <2>4. CASE /\ proc' = [proc EXCEPT ![r] = "exited"]
             /\ todo' = [todo EXCEPT ![c] = @ \ {r}]
             /\ UNCHANGED pc
    <3>1. \A q \in Request : proc'[q] = "running" => q # r /\ proc[q] =
      "running"
      BY <2>2, <2>4, TypeParts DEF RunTypeOK, Basics
    <3>2. \A d \in Client : todo[d] \ {r} \subseteq todo'[d]
      BY <2>4, TypeParts DEF HandlerTypeOK, Basics
    <3>3. RunningIsStoppable' /\ WatchedToTheEnd'
      BY <2>2, <3>1 DEF Processes, RunningIsStoppable, WatchedToTheEnd
    <3>4. CleanupKnows' /\ CleanEndKillsRuns'
      BY <2>4, <3>1, <3>2 DEF Processes, CleanupKnows, CleanEndKillsRuns,
        RunsOf
    <3> QED
      BY <3>3, <3>4 DEF Processes
  <2> QED
    BY <1>11, <2>3, <2>4 DEF TerminateNext
<1>12. ASSUME NEW c \in Client, EndHandler(c) PROVE Processes'
  <2>1. UNCHANGED <<sessions, proc, watcher, todo>>
    BY <1>12 DEF EndHandler, runVars
  <2>2. pc[c] = "cleanup" /\ todo[c] = {} /\ pc'[c] = "done"
    BY <1>12, TypeParts DEF EndHandler, Goto, HandlerTypeOK, Basics
  <2>3. \A d \in Client \ {c} : pc'[d] = pc[d]
    BY <1>12, TypeParts DEF EndHandler, Goto, HandlerTypeOK, Basics
  <2>4. RunningIsStoppable' /\ WatchedToTheEnd' /\ CleanupKnows'
    BY <2>1, <2>2, <2>3 DEF Processes, RunningIsStoppable, WatchedToTheEnd,
      CleanupKnows, RunsOf
  <2>5. CleanEndKillsRuns'
    BY <2>1, <2>2, <2>3 DEF Processes, CleanupKnows, CleanEndKillsRuns, RunsOf
  <2> QED
    BY <2>4, <2>5 DEF Processes
<1>13. ASSUME NEW c \in Client, NEW r \in Request, StartRun(c, r)
       PROVE  Processes'
  <2>1. HandlerMove(c)
    BY <1>13 DEF HandlerMove
  <2>2. pc'[c] \notin {"cleanup", "done"}
    BY <1>13, TypeParts DEF StartRun, Leave, Goto, HandlerTypeOK, Basics
  <2>3. UNCHANGED <<sessions, proc, watcher>>
    BY <1>13 DEF StartRun, runVars
  <2> QED
    BY <2>1, <2>2, <2>3, NothingStarts
<1>14. ASSUME NEW c \in Client, NEW r \in Request, StopRun(c, r)
       PROVE  Processes'
  <2>1. HandlerMove(c)
    BY <1>14 DEF HandlerMove
  <2>2. pc'[c] \notin {"cleanup", "done"}
    BY <1>14, TypeParts DEF StopRun, Goto, HandlerTypeOK, Basics
  <2>3. sessions' = sessions /\ watcher' = watcher
    BY <1>14 DEF StopRun
  <2>4. \A q \in Request : proc'[q] = "running" => proc[q] = "running"
    BY <1>14, TypeParts DEF StopRun, RunTypeOK, Basics
  <2> QED
    BY <2>1, <2>2, <2>3, <2>4, NothingStarts
<1>15. ASSUME NEW r \in Request, Exit(r) PROVE Processes'
  <2>1. UNCHANGED <<pc, todo, sessions, watcher>>
    BY <1>15 DEF Exit, handlerVars
  <2>2. \A q \in Request : proc'[q] = "running" => proc[q] = "running"
    BY <1>15, TypeParts DEF Exit, RunTypeOK, Basics
  <2> QED
    BY <2>1, <2>2 DEF Processes, RunningIsStoppable, WatchedToTheEnd,
      CleanupKnows, CleanEndKillsRuns, RunsOf
<1>16. ASSUME NEW r \in Request, PumpChunk(r) PROVE Processes'
  BY <1>16, <1>f DEF PumpChunk, handlerVars
<1>17. ASSUME NEW r \in Request, WatchEnds(r) PROVE Processes'
  <2>1. UNCHANGED <<pc, todo, sessions>>
    BY <1>17 DEF WatchEnds, handlerVars
  <2>2. \A q \in Request : proc'[q] = "running" => q # r /\ proc[q] =
    "running"
    BY <1>17, TypeParts DEF WatchEnds, RunTypeOK, Basics
  <2>3. \A q \in Request \ {r} : watcher'[q] = watcher[q]
    BY <1>17, TypeParts DEF WatchEnds, WatcherAt, RunTypeOK, Basics
  <2> QED
    BY <2>1, <2>2, <2>3 DEF Processes, RunningIsStoppable, WatchedToTheEnd,
      CleanupKnows, CleanEndKillsRuns, RunsOf
<1>18. ASSUME NEW r \in Request, ReportExit(r) PROVE Processes'
  <2>1. UNCHANGED <<pc, todo, sessions, proc>>
    BY <1>18 DEF ReportExit, handlerVars
  <2>2. \A q \in Request : watcher'[q] \in Past => watcher[q] \in Past
    BY <1>18, TypeParts DEF ReportExit, WatcherAt, Past, RunTypeOK, Basics
  <2> QED
    BY <2>1, <2>2 DEF Processes, RunningIsStoppable, WatchedToTheEnd,
      CleanupKnows, CleanEndKillsRuns, RunsOf
<1>19. ASSUME NEW r \in Request, WatcherReleases(r) PROVE Processes'
  <2>1. UNCHANGED <<pc, todo, sessions, proc>>
    BY <1>19 DEF WatcherReleases, handlerVars
  <2>2. \A q \in Request : watcher'[q] \in Past => watcher[q] \in Past
    BY <1>19, TypeParts DEF WatcherReleases, WatcherAt, Past, RunTypeOK,
      Basics
  <2> QED
    BY <2>1, <2>2 DEF Processes, RunningIsStoppable, WatchedToTheEnd,
      CleanupKnows, CleanEndKillsRuns, RunsOf
<1>20. ASSUME NEW r \in Request, WatcherPops(r) PROVE Processes'
  <2>1. UNCHANGED <<pc, todo, proc>> /\ sessions' = sessions \ {r}
    BY <1>20 DEF WatcherPops, handlerVars
  <2>2. \A q \in Request : watcher'[q] \in Past => watcher[q] \in Past
    BY <1>20, TypeParts DEF WatcherPops, WatcherAt, Past, RunTypeOK, Basics
  <2>3. proc[r] # "running"
    BY <1>20 DEF WatcherPops, WatcherAt, Past, Processes, WatchedToTheEnd
  <2> QED
    BY <2>1, <2>2, <2>3 DEF Processes, RunningIsStoppable, WatchedToTheEnd,
      CleanupKnows, CleanEndKillsRuns, RunsOf
<1> QED
  BY <1>0, <1>1, <1>2, <1>3, <1>4, <1>5, <1>6, <1>7, <1>8, <1>9, <1>10, <1>11,
    <1>12, <1>13, <1>14, <1>15, <1>16, <1>17, <1>18, <1>19, <1>20
  DEF Next, HandlerStep, WatcherStep


LEMMA ProcessesInvariant == SafeSpec => []Processes
<1>1. Basics /\ Processes /\ [Next]_vars => (Basics /\ Processes)'
  BY NextBasics, NextProcesses
<1> QED
  BY <1>1, InitBasics, InitProcesses, PTL DEF SafeSpec

(* A running process is in the table run.stop and the cleanup look it up   *)
(* in: the watcher forgets a session only after its process has ended.     *)
THEOREM RunningProcessesAreStoppable == SafeSpec => []RunningIsStoppable
<1>1. Processes => RunningIsStoppable
  BY DEF Processes
<1> QED
  BY <1>1, ProcessesInvariant, PTL

(* A handler thread that gets through its finally block has ended all the  *)
(* processes of its client.                                                *)
THEOREM CleanEndsKillRuns == SafeSpec => []CleanEndKillsRuns
<1>1. Processes => CleanEndKillsRuns
  BY DEF Processes
<1> QED
  BY <1>1, ProcessesInvariant, PTL

-----------------------------------------------------------------------------
(* Messages.                                                               *)
Open(r) == conn[ClientOf[r]] = "open"
Message == {"started", "output", "exit"}

StartsOnce(s) == \A i \in DOMAIN s : s[i] = "started" <=> i = 1
ExitsOnce(s) == \A i, j \in DOMAIN s : s[i] = "exit" /\ s[j] = "exit" => i = j
NoExit(s) == \A i \in DOMAIN s : s[i] # "exit"

(* Every client has seen a correct sequence, ...                           *)
WellSent == \A r \in Request : StartsOnce(sent[r]) /\ ExitsOnce(sent[r])

(* ... the handler has sent nothing of a run it has not announced, and     *)
(* run.started but not run.exit of a run it reports as failed, ...         *)
Unannounced == {"acquire", "prepare", "spawn", "announce", "report"}
HandlerSends ==
  \A c \in Client :
    /\ pc[c] \in Unannounced => sent[cur[c]] = <<>>
    /\ pc[c] = "report exit" =>
         (Open(cur[c]) => sent[cur[c]] # <<>>) /\ NoExit(sent[cur[c]])

(* ... and the run's own threads start after run.started; its watcher has  *)
(* not sent run.exit before it does.                                       *)
Reporting == {"watching", "reporting"}
ThreadsSend ==
  \A r \in Request :
    /\ pump[r] # "none" => watcher[r] # "none"
    /\ pump[r] = "reading" \/ watcher[r] \in Reporting =>
         (Open(r) => sent[r] # <<>>)
    /\ watcher[r] \in Reporting => NoExit(sent[r])

Messages == WellSent /\ HandlerSends /\ ThreadsSend

LEMMA InitMessages == Init => Messages
BY LiveRunsAssumption DEF Init, Messages, WellSent, HandlerSends, ThreadsSend, StartsOnce,
  ExitsOnce, Unannounced, Reporting

LEMMA OneMore ==
  ASSUME NEW s \in Seq(Message), NEW m \in Message
  PROVE  /\ Append(s, m) # <<>>
         /\ DOMAIN Append(s, m) = DOMAIN s \cup {Len(s) + 1}
         /\ Len(s) + 1 \notin DOMAIN s
         /\ Append(s, m)[Len(s) + 1] = m
         /\ \A i \in DOMAIN s : Append(s, m)[i] = s[i]
         /\ (s = <<>>) <=> (Len(s) + 1 = 1)
OBVIOUS

(* What a message does to a correct sequence.                              *)
LEMMA SendsWell ==
  ASSUME NEW s \in Seq(Message), StartsOnce(s), ExitsOnce(s), NEW m \in Message,
         \/ m = "started" /\ s = <<>>
         \/ m = "output" /\ s # <<>>
         \/ m = "exit" /\ s # <<>> /\ NoExit(s)
  PROVE  StartsOnce(Append(s, m)) /\ ExitsOnce(Append(s, m))
<1>1. StartsOnce(Append(s, m))
  BY OneMore DEF StartsOnce
<1>2. ExitsOnce(Append(s, m))
  BY OneMore DEF ExitsOnce, NoExit
<1> QED
  BY <1>1, <1>2

LEMMA NoExitYet ==
  ASSUME NEW s \in Seq(Message), NoExit(s), NEW m \in Message, m # "exit"
  PROVE  NoExit(Append(s, m))
BY OneMore DEF NoExit

(* What a send does to the history.                                        *)
LEMMA Sent ==
  ASSUME Basics, NEW r \in Request, NEW m \in Message, SendOf(r, m)
  PROVE  /\ sent[r] \in Seq(Message)
         /\ \A q \in Request \ {r} : sent'[q] = sent[q]
         /\ sent'[r] = IF Open(r) THEN Append(sent[r], m) ELSE sent[r]
BY TypeParts DEF SendOf, Open, HistoryTypeOK, Message, Basics

LEMMA SendKeepsWell ==
  ASSUME Basics, WellSent, NEW r \in Request, NEW m \in Message, SendOf(r, m),
         Open(r) => \/ m = "started" /\ sent[r] = <<>>
                    \/ m = "output" /\ sent[r] # <<>>
                    \/ m = "exit" /\ sent[r] # <<>> /\ NoExit(sent[r])
  PROVE  WellSent'
<1>1. CASE Open(r)
  BY <1>1, Sent, SendsWell DEF WellSent
<1>2. CASE ~ Open(r)
  BY <1>2, Sent DEF WellSent
<1> QED
  BY <1>1, <1>2

(* A handler step that sends nothing ...                                   *)
LEMMA QuietHandler ==
  ASSUME Basics, Messages, NEW c \in Client, HandlerMove(c),
         UNCHANGED <<sent, pump, watcher>>,
         \A d \in Client : conn'[d] = "open" => conn[d] = "open",
         pc'[c] # "report exit",
         pc'[c] \in Unannounced => sent[cur'[c]] = <<>>
  PROVE  Messages'
<1>1. \A q \in Request : Open(q)' => Open(q)
  BY LiveRunsAssumption DEF Open
<1>2. WellSent' /\ ThreadsSend'
  BY <1>1 DEF Messages, WellSent, ThreadsSend
<1>3. ASSUME NEW d \in Client, d # c, pc'[d] \in Unannounced \cup {"report exit"}
      PROVE  pc'[d] = pc[d] /\ cur'[d] = cur[d] /\ cur[d] \in Request
  <2>1. pc'[d] = pc[d] /\ cur'[d] = cur[d]
    BY <1>3, OwnPlace DEF Basics
  <2>2. pc[d] \in Busy
    BY <1>3, <2>1 DEF Unannounced, Busy
  <2> QED
    BY <2>1, <2>2, BusyRun
<1>4. ASSUME NEW d \in Client, pc'[d] \in Unannounced PROVE sent'[cur'[d]] = <<>>
  BY <1>3, <1>4 DEF Messages, HandlerSends
<1>5. ASSUME NEW d \in Client, pc'[d] = "report exit"
      PROVE  (Open(cur[d])' => sent'[cur'[d]] # <<>>) /\ NoExit(sent'[cur'[d]])
  <2>1. d # c
    BY <1>5
  <2>2. pc[d] = "report exit" /\ cur'[d] = cur[d] /\ cur[d] \in Request
    BY <1>3, <1>5, <2>1
  <2>3. Open(cur[d])' => Open(cur[d])
    BY <2>2, LiveRunsAssumption DEF Open
  <2> QED
    BY <2>2, <2>3 DEF Messages, HandlerSends
<1>6. HandlerSends'
  BY <1>4, <1>5 DEF HandlerSends
<1> QED
  BY <1>2, <1>6 DEF Messages

(* ... and one that sends something about its run leave the other handlers *)
(* and the threads of the other runs where they are.                       *)
LEMMA OtherHandlers ==
  ASSUME Basics, Messages, NEW c \in Client, HandlerMove(c), UNCHANGED conn,
         pc[c] \in Busy, NEW m \in Message, SendOf(cur[c], m)
  PROVE  /\ \A d \in Client \ {c} :
              /\ pc'[d] \in Unannounced => sent'[cur'[d]] = <<>>
              /\ pc'[d] = "report exit" =>
                   /\ Open(cur[d]) => sent'[cur'[d]] # <<>>
                   /\ cur'[d] = cur[d] /\ NoExit(sent'[cur'[d]])
         /\ \A q \in Request : watcher[q] # "none" => sent'[q] = sent[q]
<1>1. cur[c] \in Request /\ ClientOf[cur[c]] = c /\ watcher[cur[c]] = "none"
  BY BusyRun
<1>2. \A q \in Request \ {cur[c]} : sent'[q] = sent[q]
  BY <1>1, Sent
<1>3. ASSUME NEW d \in Client, d # c, pc'[d] \in Unannounced \cup {"report exit"}
      PROVE  /\ pc'[d] = pc[d] /\ cur'[d] = cur[d]
             /\ cur[d] \in Request /\ cur[d] # cur[c]
  BY <1>1, <1>3, OwnPlace, BusyRun DEF Basics, Unannounced, Busy
<1> QED
  BY <1>1, <1>2, <1>3, ZenonT(40) DEF Messages, HandlerSends

(* A thread of a run sends nothing that concerns a handler.                *)
LEMMA ThreadsLeaveHandlers ==
  ASSUME Basics, Messages, NEW r \in Request, watcher[r] # "none",
         NEW m \in Message, SendOf(r, m), UNCHANGED <<conn, pc, cur>>
  PROVE  HandlerSends'
<1>1. \A q \in Request \ {r} : sent'[q] = sent[q]
  BY Sent
<1>2. ASSUME NEW c \in Client, pc[c] \in Unannounced \cup {"report exit"}
      PROVE  cur[c] \in Request \ {r}
  BY <1>2, BusyRun DEF Unannounced, Busy
<1> QED
  BY <1>1, <1>2 DEF Messages, HandlerSends, Open

(* run.started alone is no exit.                                           *)
LEMMA NothingIsNoExit == NoExit(<<>>)
BY DEF NoExit
LEMMA StartedIsNoExit ==
  Append(<<>>, "started") # <<>> /\ NoExit(Append(<<>>, "started"))
BY DEF NoExit

(* Every message finds the sequence it continues.                          *)
LEMMA NextMessages == Basics /\ Messages /\ [Next]_vars => Messages'
<1> SUFFICES ASSUME Basics /\ Messages, [Next]_vars PROVE Messages'
  OBVIOUS
<1>f. ASSUME UNCHANGED <<conn, pc, cur, watcher, pump, sent>> PROVE Messages'
  BY <1>f DEF Messages, WellSent, HandlerSends, ThreadsSend, Open
<1>0. CASE UNCHANGED vars
  BY <1>0, <1>f DEF vars, handlerVars, runVars, historyVars
<1>1. ASSUME NEW c \in Client, PeerLeaves(c) PROVE Messages'
  <2>1. UNCHANGED <<pc, cur, watcher, pump, sent>>
    BY <1>1 DEF PeerLeaves, handlerVars, runVars, historyVars
  <2>2. \A d \in Client : conn'[d] = "open" => conn[d] = "open"
    BY <1>1, TypeParts DEF PeerLeaves, HandlerTypeOK, Basics
  <2>3. \A q \in Request : Open(q)' => Open(q)
    BY <2>2, LiveRunsAssumption DEF Open
  <2>4. WellSent' /\ ThreadsSend'
    BY <2>1, <2>3 DEF Messages, WellSent, ThreadsSend
  <2>5. ASSUME NEW d \in Client, pc[d] = "report exit" PROVE Open(cur[d])' =>
    Open(cur[d])
    BY <2>1, <2>2, <2>5, BusyRun DEF Open, Busy
  <2>6. HandlerSends'
    BY <2>1, <2>5 DEF Messages, HandlerSends
  <2> QED
    BY <2>4, <2>6 DEF Messages
<1>2. ASSUME NEW c \in Client, GetLease(c) PROVE Messages'
  <2>1. HandlerMove(c)
    BY <1>2 DEF HandlerMove, HandlerStep
  <2>2. UNCHANGED <<sent, pump, watcher>>
    BY <1>2 DEF GetLease, historyVars, runVars
  <2>3. \A d \in Client : conn'[d] = "open" => conn[d] = "open"
    BY <1>2, TypeParts DEF GetLease, HandlerTypeOK, Basics
  <2>4. pc'[c] # "report exit"
    BY <1>2, TypeParts DEF GetLease, Goto, HandlerTypeOK, Basics
  <2>5. pc'[c] \in Unannounced => pc[c] \in Unannounced /\ cur'[c] = cur[c]
    BY <1>2, TypeParts DEF GetLease, Goto, Unannounced, HandlerTypeOK, Basics
  <2> QED
    BY <2>1, <2>2, <2>3, <2>4, <2>5, QuietHandler DEF Messages, HandlerSends
<1>3. ASSUME NEW c \in Client, Prepare(c) PROVE Messages'
  <2>1. HandlerMove(c)
    BY <1>3 DEF HandlerMove, HandlerStep
  <2>2. UNCHANGED <<sent, pump, watcher>>
    BY <1>3 DEF Prepare, runVars
  <2>3. \A d \in Client : conn'[d] = "open" => conn[d] = "open"
    BY <1>3, TypeParts DEF Prepare, HandlerTypeOK, Basics
  <2>4. pc'[c] # "report exit"
    BY <1>3, TypeParts DEF Prepare, Leave, Goto, HandlerTypeOK, Basics
  <2>5. pc'[c] \in Unannounced => pc[c] \in Unannounced /\ cur'[c] = cur[c]
    BY <1>3, TypeParts DEF Prepare, Leave, Goto, Unannounced, HandlerTypeOK,
      Basics
  <2> QED
    BY <2>1, <2>2, <2>3, <2>4, <2>5, QuietHandler DEF Messages, HandlerSends
<1>4. ASSUME NEW c \in Client, Spawn(c) PROVE Messages'
  <2>1. HandlerMove(c)
    BY <1>4 DEF HandlerMove, HandlerStep
  <2>2. UNCHANGED <<sent, pump, watcher>>
    BY <1>4 DEF Spawn
  <2>3. \A d \in Client : conn'[d] = "open" => conn[d] = "open"
    BY <1>4, TypeParts DEF Spawn, HandlerTypeOK, Basics
  <2>4. pc'[c] # "report exit"
    BY <1>4, TypeParts DEF Spawn, Leave, Goto, HandlerTypeOK, Basics
  <2>5. pc'[c] \in Unannounced => pc[c] \in Unannounced /\ cur'[c] = cur[c]
    BY <1>4, TypeParts DEF Spawn, Leave, Goto, Unannounced, HandlerTypeOK,
      Basics
  <2> QED
    BY <2>1, <2>2, <2>3, <2>4, <2>5, QuietHandler DEF Messages, HandlerSends
<1>5. ASSUME NEW c \in Client, Announce(c) PROVE Messages'
  <2>1. HandlerMove(c)
    BY <1>5 DEF HandlerMove, HandlerStep
  <2>2. cur[c] \in Request /\ pc[c] \in Busy /\ watcher[cur[c]] = "none"
    BY <1>5, BusyRun DEF Announce, Busy
  <2>3. UNCHANGED conn
    BY <1>5 DEF Announce
  <2>4. CASE SendRaises(c) /\ Leave(c, "error") /\ UNCHANGED <<pump, watcher>>
    <3>1. pc'[c] = "error"
      BY <2>4, TypeParts DEF Leave, Goto, HandlerTypeOK, Basics
    <3>2. UNCHANGED <<sent, pump, watcher>>
      BY <1>5, <2>4 DEF Announce, SendRaises, runVars
    <3> QED
      BY <2>1, <2>3, <3>1, <3>2, QuietHandler DEF Unannounced
  <2>5. CASE /\ SendOf(cur[c], "started") /\ Leave(c, "receive")
             /\ pump' = [pump EXCEPT ![cur[c]] = "reading"]
             /\ watcher' = [watcher EXCEPT ![cur[c]] = "watching"]
    <3>1. sent[cur[c]] = <<>> /\ "started" \in Message
      BY <1>5 DEF Announce, Messages, HandlerSends, Unannounced, Message
    <3>2. WellSent'
      BY <2>2, <2>5, <3>1, SendKeepsWell DEF Messages
    <3>3. pc'[c] = "receive"
      BY <2>5, TypeParts DEF Leave, Goto, HandlerTypeOK, Basics
    <3>4. sent'[cur[c]] = IF Open(cur[c]) THEN Append(sent[cur[c]], "started")
      ELSE sent[cur[c]]
      BY <2>2, <2>5, <3>1, Sent
    <3>5. (Open(cur[c]) => sent'[cur[c]] # <<>>) /\ NoExit(sent'[cur[c]])
      BY <3>1, <3>4, NothingIsNoExit, StartedIsNoExit
    <3>6. HandlerSends'
      BY <2>1, <2>2, <2>3, <2>5, <3>1, <3>3, OtherHandlers DEF HandlerSends,
        Open, Unannounced
    <3>7. \A q \in Request \ {cur[c]} : pump'[q] = pump[q] /\ watcher'[q] =
      watcher[q]
      BY <2>2, <2>5, TypeParts DEF RunTypeOK, Basics
    <3>8. watcher'[cur[c]] # "none"
      BY <2>2, <2>5, TypeParts DEF RunTypeOK, Basics
    <3>9. \A q \in Request : watcher[q] # "none" => sent'[q] = sent[q]
      BY <2>1, <2>2, <2>3, <2>5, <3>1, OtherHandlers
    <3>10. ThreadsSend'
      BY <2>3, <3>5, <3>7, <3>8, <3>9 DEF Messages, ThreadsSend, Open,
        Reporting
    <3> QED
      BY <3>2, <3>6, <3>10 DEF Messages
  <2> QED
    BY <1>5, <2>4, <2>5 DEF Announce
<1>6. ASSUME NEW c \in Client, ReportFailure(c) PROVE Messages'
  <2>1. HandlerMove(c)
    BY <1>6 DEF HandlerMove, HandlerStep
  <2>2. cur[c] \in Request /\ pc[c] \in Busy /\ watcher[cur[c]] = "none"
    BY <1>6, BusyRun DEF ReportFailure, Busy
  <2>3. UNCHANGED conn
    BY <1>6 DEF ReportFailure
  <2>4. CASE SendRaises(c) /\ Leave(c, "error")
    <3>1. pc'[c] = "error"
      BY <2>4, TypeParts DEF Leave, Goto, HandlerTypeOK, Basics
    <3>2. UNCHANGED <<sent, pump, watcher>>
      BY <1>6, <2>4 DEF ReportFailure, SendRaises, runVars
    <3> QED
      BY <2>1, <2>3, <3>1, <3>2, QuietHandler DEF Unannounced
  <2>5. CASE SendOf(cur[c], "started") /\ Goto(c, "report exit") /\ UNCHANGED
    cur
    <3>1. sent[cur[c]] = <<>> /\ "started" \in Message
      BY <1>6 DEF ReportFailure, Messages, HandlerSends, Unannounced, Message
    <3>2. WellSent'
      BY <2>2, <2>5, <3>1, SendKeepsWell DEF Messages
    <3>3. pc'[c] = "report exit" /\ cur'[c] = cur[c]
      BY <2>5, TypeParts DEF Goto, HandlerTypeOK, Basics
    <3>4. sent'[cur[c]] = IF Open(cur[c]) THEN Append(sent[cur[c]], "started")
      ELSE sent[cur[c]]
      BY <2>2, <2>5, <3>1, Sent
    <3>5. (Open(cur[c]) => sent'[cur[c]] # <<>>) /\ NoExit(sent'[cur[c]])
      BY <3>1, <3>4, NothingIsNoExit, StartedIsNoExit
    <3>6. HandlerSends'
      BY <2>1, <2>2, <2>3, <2>5, <3>1, <3>3, <3>5, OtherHandlers DEF
        HandlerSends, Open, Unannounced
    <3>7. ThreadsSend'
      BY <1>6, <2>1, <2>2, <2>3, <2>5, <3>1, OtherHandlers DEF ReportFailure,
        runVars, Messages, ThreadsSend, Open, Reporting
    <3> QED
      BY <3>2, <3>6, <3>7 DEF Messages
  <2> QED
    BY <1>6, <2>4, <2>5 DEF ReportFailure
<1>7. ASSUME NEW c \in Client, ReportFailureExit(c) PROVE Messages'
  <2>1. HandlerMove(c)
    BY <1>7 DEF HandlerMove, HandlerStep
  <2>2. cur[c] \in Request /\ pc[c] \in Busy /\ watcher[cur[c]] = "none"
    BY <1>7, BusyRun DEF ReportFailureExit, Busy
  <2>3. UNCHANGED conn
    BY <1>7 DEF ReportFailureExit
  <2>4. CASE SendRaises(c) /\ Leave(c, "error")
    <3>1. pc'[c] = "error"
      BY <2>4, TypeParts DEF Leave, Goto, HandlerTypeOK, Basics
    <3>2. UNCHANGED <<sent, pump, watcher>>
      BY <1>7, <2>4 DEF ReportFailureExit, SendRaises, runVars
    <3> QED
      BY <2>1, <2>3, <3>1, <3>2, QuietHandler DEF Unannounced
  <2>5. CASE SendOf(cur[c], "exit") /\ Goto(c, "release again") /\ UNCHANGED
    cur
    <3>1. (Open(cur[c]) => sent[cur[c]] # <<>>) /\ NoExit(sent[cur[c]]) /\
      "exit" \in Message
      BY <1>7 DEF ReportFailureExit, Messages, HandlerSends, Message
    <3>2. WellSent'
      BY <2>2, <2>5, <3>1, SendKeepsWell DEF Messages
    <3>3. pc'[c] = "release again"
      BY <2>5, TypeParts DEF Goto, HandlerTypeOK, Basics
    <3>4. HandlerSends'
      BY <2>1, <2>2, <2>3, <2>5, <3>1, <3>3, OtherHandlers DEF HandlerSends,
        Open, Unannounced
    <3>5. ThreadsSend'
      BY <1>7, <2>1, <2>2, <2>3, <2>5, <3>1, OtherHandlers DEF
        ReportFailureExit, runVars, Messages, ThreadsSend, Open, Reporting
    <3> QED
      BY <3>2, <3>4, <3>5 DEF Messages
  <2> QED
    BY <1>7, <2>4, <2>5 DEF ReportFailureExit
<1>8. ASSUME NEW c \in Client, ReleaseAgain(c) PROVE Messages'
  <2>1. HandlerMove(c)
    BY <1>8 DEF HandlerMove, HandlerStep
  <2>2. UNCHANGED <<sent, pump, watcher>>
    BY <1>8 DEF ReleaseAgain, runVars
  <2>3. \A d \in Client : conn'[d] = "open" => conn[d] = "open"
    BY <1>8, TypeParts DEF ReleaseAgain, HandlerTypeOK, Basics
  <2>4. pc'[c] # "report exit"
    BY <1>8, TypeParts DEF ReleaseAgain, Leave, Goto, HandlerTypeOK, Basics
  <2>5. pc'[c] \in Unannounced => pc[c] \in Unannounced /\ cur'[c] = cur[c]
    BY <1>8, TypeParts DEF ReleaseAgain, Leave, Goto, Unannounced,
      HandlerTypeOK, Basics
  <2> QED
    BY <2>1, <2>2, <2>3, <2>4, <2>5, QuietHandler DEF Messages, HandlerSends
<1>9. ASSUME NEW c \in Client, ReportError(c) PROVE Messages'
  <2>1. HandlerMove(c)
    BY <1>9 DEF HandlerMove, HandlerStep
  <2>2. UNCHANGED <<sent, pump, watcher>>
    BY <1>9 DEF ReportError, runVars, SendRaises
  <2>3. \A d \in Client : conn'[d] = "open" => conn[d] = "open"
    BY <1>9, TypeParts DEF ReportError, SendRaises, HandlerTypeOK, Basics
  <2>4. pc'[c] # "report exit"
    BY <1>9, TypeParts DEF ReportError, BeginCleanup, Goto, HandlerTypeOK,
      Basics
  <2>5. pc'[c] \in Unannounced => pc[c] \in Unannounced /\ cur'[c] = cur[c]
    BY <1>9, TypeParts DEF ReportError, BeginCleanup, Goto, Unannounced,
      HandlerTypeOK, Basics
  <2> QED
    BY <2>1, <2>2, <2>3, <2>4, <2>5, QuietHandler DEF Messages, HandlerSends
<1>10. ASSUME NEW c \in Client, ReceiveFails(c) PROVE Messages'
  <2>1. HandlerMove(c)
    BY <1>10 DEF HandlerMove, HandlerStep
  <2>2. UNCHANGED <<sent, pump, watcher>>
    BY <1>10 DEF ReceiveFails, historyVars, runVars
  <2>3. \A d \in Client : conn'[d] = "open" => conn[d] = "open"
    BY <1>10, TypeParts DEF ReceiveFails, HandlerTypeOK, Basics
  <2>4. pc'[c] # "report exit"
    BY <1>10, TypeParts DEF ReceiveFails, BeginCleanup, Goto, HandlerTypeOK,
      Basics
  <2>5. pc'[c] \in Unannounced => pc[c] \in Unannounced /\ cur'[c] = cur[c]
    BY <1>10, TypeParts DEF ReceiveFails, BeginCleanup, Goto, Unannounced,
      HandlerTypeOK, Basics
  <2> QED
    BY <2>1, <2>2, <2>3, <2>4, <2>5, QuietHandler DEF Messages, HandlerSends
<1>11. ASSUME NEW c \in Client, NEW r, TerminateNext(c, r) PROVE Messages'
  <2>1. HandlerMove(c)
    BY <1>11 DEF HandlerMove, HandlerStep, TerminateNext
  <2>2. UNCHANGED <<sent, pump, watcher>>
    BY <1>11 DEF TerminateNext, historyVars
  <2>3. \A d \in Client : conn'[d] = "open" => conn[d] = "open"
    BY <1>11, TypeParts DEF TerminateNext, HandlerTypeOK, Basics
  <2>4. pc'[c] # "report exit"
    BY <1>11, TypeParts DEF TerminateNext, Goto, HandlerTypeOK, Basics
  <2>5. pc'[c] \in Unannounced => pc[c] \in Unannounced /\ cur'[c] = cur[c]
    BY <1>11, TypeParts DEF TerminateNext, Goto, Unannounced, HandlerTypeOK,
      Basics
  <2> QED
    BY <2>1, <2>2, <2>3, <2>4, <2>5, QuietHandler DEF Messages, HandlerSends
<1>12. ASSUME NEW c \in Client, EndHandler(c) PROVE Messages'
  <2>1. HandlerMove(c)
    BY <1>12 DEF HandlerMove, HandlerStep
  <2>2. UNCHANGED <<sent, pump, watcher>>
    BY <1>12 DEF EndHandler, historyVars, runVars
  <2>3. \A d \in Client : conn'[d] = "open" => conn[d] = "open"
    BY <1>12, TypeParts DEF EndHandler, HandlerTypeOK, Basics
  <2>4. pc'[c] # "report exit"
    BY <1>12, TypeParts DEF EndHandler, Goto, HandlerTypeOK, Basics
  <2>5. pc'[c] \in Unannounced => pc[c] \in Unannounced /\ cur'[c] = cur[c]
    BY <1>12, TypeParts DEF EndHandler, Goto, Unannounced, HandlerTypeOK,
      Basics
  <2> QED
    BY <2>1, <2>2, <2>3, <2>4, <2>5, QuietHandler DEF Messages, HandlerSends
<1>13. ASSUME NEW c \in Client, NEW r \in Request, StartRun(c, r)
       PROVE  Messages'
  <2>1. HandlerMove(c)
    BY <1>13 DEF HandlerMove
  <2>2. UNCHANGED <<sent, pump, watcher>>
    BY <1>13 DEF StartRun, historyVars, runVars
  <2>3. \A d \in Client : conn'[d] = "open" => conn[d] = "open"
    BY <1>13, TypeParts DEF StartRun, HandlerTypeOK, Basics
  <2>4. sent[r] = <<>>
    BY <1>13 DEF StartRun, Basics, UnaskedUntouched
  <2>5. pc'[c] # "report exit" /\ (pc'[c] \in Unannounced => cur'[c] = r)
    BY <1>13, TypeParts DEF StartRun, Leave, Goto, Unannounced, HandlerTypeOK,
      Basics
  <2> QED
    BY <2>1, <2>2, <2>3, <2>4, <2>5, QuietHandler
<1>14. ASSUME NEW c \in Client, NEW r \in Request, StopRun(c, r)
       PROVE  Messages'
  <2>1. HandlerMove(c)
    BY <1>14 DEF HandlerMove
  <2>2. UNCHANGED <<sent, pump, watcher>>
    BY <1>14 DEF StopRun, historyVars
  <2>3. \A d \in Client : conn'[d] = "open" => conn[d] = "open"
    BY <1>14, TypeParts DEF StopRun, HandlerTypeOK, Basics
  <2>4. pc'[c] # "report exit"
    BY <1>14, TypeParts DEF StopRun, Goto, HandlerTypeOK, Basics
  <2>5. pc'[c] \in Unannounced => pc[c] \in Unannounced /\ cur'[c] = cur[c]
    BY <1>14, TypeParts DEF StopRun, Goto, Unannounced, HandlerTypeOK, Basics
  <2> QED
    BY <2>1, <2>2, <2>3, <2>4, <2>5, QuietHandler DEF Messages, HandlerSends
<1>15. ASSUME NEW r \in Request, Exit(r) PROVE Messages'
  BY <1>15, <1>f DEF Exit, historyVars, handlerVars
<1>16. ASSUME NEW r \in Request, PumpChunk(r) PROVE Messages'
  <2>1. UNCHANGED <<conn, pc, cur, watcher>>
    BY <1>16 DEF PumpChunk, handlerVars
  <2>2. pump[r] = "reading" /\ watcher[r] # "none" /\ "output" \in Message
    BY <1>16 DEF PumpChunk, Messages, ThreadsSend, Message
  <2>3. \A q \in Request : pump'[q] = pump[q] \/ (q = r /\ pump'[q] = "dead")
    BY <1>16, TypeParts DEF PumpChunk, RunTypeOK, Basics
  <2>4. CASE UNCHANGED sent
    BY <2>1, <2>2, <2>3, <2>4 DEF Messages, WellSent, HandlerSends,
      ThreadsSend, Open
  <2>5. CASE SendOf(r, "output")
    <3>1. Open(r) => sent[r] # <<>>
      BY <2>2 DEF Messages, ThreadsSend
    <3>2. WellSent'
      BY <2>2, <2>5, <3>1, SendKeepsWell DEF Messages
    <3>3. HandlerSends'
      BY <2>1, <2>2, <2>5, ThreadsLeaveHandlers
    <3>4. (sent[r] # <<>> => sent'[r] # <<>>) /\ (NoExit(sent[r]) =>
      NoExit(sent'[r]))
      <4>1. sent[r] \in Seq(Message) /\ sent'[r] \in {sent[r], Append(sent[r],
        "output")}
        BY <2>2, <2>5, Sent
      <4>2. CASE sent'[r] = sent[r]
        BY <4>2
      <4>3. CASE sent'[r] = Append(sent[r], "output")
        BY <2>2, <4>1, <4>3, OneMore, NoExitYet
      <4> QED
        BY <4>1, <4>2, <4>3
    <3>5. \A q \in Request \ {r} : sent'[q] = sent[q]
      BY <2>2, <2>5, Sent
    <3>6. ThreadsSend'
      BY <2>1, <2>2, <2>3, <3>4, <3>5 DEF Messages, ThreadsSend, Open
    <3> QED
      BY <3>2, <3>3, <3>6 DEF Messages
  <2> QED
    BY <1>16, <2>4, <2>5 DEF PumpChunk, SendRaises
<1>17. ASSUME NEW r \in Request, WatchEnds(r) PROVE Messages'
  <2>1. UNCHANGED <<conn, pc, cur, pump, sent>>
    BY <1>17 DEF WatchEnds, historyVars, handlerVars
  <2>2. \A q \in Request :
          /\ watcher'[q] \in Reporting => watcher[q] \in Reporting
          /\ watcher[q] # "none" => watcher'[q] # "none"
    BY <1>17, TypeParts DEF WatchEnds, WatcherAt, Reporting, RunTypeOK, Basics
  <2> QED
    BY <2>1, <2>2 DEF Messages, WellSent, HandlerSends, ThreadsSend, Open
<1>18. ASSUME NEW r \in Request, ReportExit(r) PROVE Messages'
  <2>1. UNCHANGED <<conn, pc, cur, pump>>
    BY <1>18 DEF ReportExit, handlerVars
  <2>2. watcher[r] = "reporting" /\ "exit" \in Message
    BY <1>18 DEF ReportExit, WatcherAt, Message
  <2>3. watcher'[r] \notin Reporting \cup {"none"}
        /\ \A q \in Request \ {r} : watcher'[q] = watcher[q]
    BY <1>18, TypeParts DEF ReportExit, WatcherAt, Reporting, RunTypeOK,
      Basics
  <2>4. CASE UNCHANGED sent
    BY <2>1, <2>2, <2>3, <2>4 DEF Messages, WellSent, HandlerSends,
      ThreadsSend, Open, Reporting
  <2>5. CASE SendOf(r, "exit")
    <3>1. (Open(r) => sent[r] # <<>>) /\ NoExit(sent[r])
      BY <2>2 DEF Messages, ThreadsSend, Reporting
    <3>2. WellSent'
      BY <2>2, <2>5, <3>1, SendKeepsWell DEF Messages
    <3>3. HandlerSends'
      BY <2>1, <2>2, <2>5, ThreadsLeaveHandlers
    <3>4. Open(r) => sent'[r] # <<>>
      <4>1. sent[r] \in Seq(Message) /\ (Open(r) => sent'[r] = Append(sent[r],
        "exit"))
        BY <2>2, <2>5, Sent
      <4> QED
        BY <2>2, <4>1, OneMore
    <3>5. \A q \in Request \ {r} : sent'[q] = sent[q]
      BY <2>2, <2>5, Sent
    <3>6. ThreadsSend'
      BY <2>1, <2>2, <2>3, <3>4, <3>5 DEF Messages, ThreadsSend, Open
    <3> QED
      BY <3>2, <3>3, <3>6 DEF Messages
  <2> QED
    BY <1>18, <2>4, <2>5 DEF ReportExit, SendRaises
<1>19. ASSUME NEW r \in Request, WatcherReleases(r) PROVE Messages'
  <2>1. UNCHANGED <<conn, pc, cur, pump, sent>>
    BY <1>19 DEF WatcherReleases, handlerVars
  <2>2. \A q \in Request :
          /\ watcher'[q] \in Reporting => watcher[q] \in Reporting
          /\ watcher[q] # "none" => watcher'[q] # "none"
    BY <1>19, TypeParts DEF WatcherReleases, WatcherAt, Reporting, RunTypeOK,
      Basics
  <2> QED
    BY <2>1, <2>2 DEF Messages, WellSent, HandlerSends, ThreadsSend, Open
<1>20. ASSUME NEW r \in Request, WatcherPops(r) PROVE Messages'
  <2>1. UNCHANGED <<conn, pc, cur, pump, sent>>
    BY <1>20 DEF WatcherPops, historyVars, handlerVars
  <2>2. \A q \in Request :
          /\ watcher'[q] \in Reporting => watcher[q] \in Reporting
          /\ watcher[q] # "none" => watcher'[q] # "none"
    BY <1>20, TypeParts DEF WatcherPops, WatcherAt, Reporting, RunTypeOK,
      Basics
  <2> QED
    BY <2>1, <2>2 DEF Messages, WellSent, HandlerSends, ThreadsSend, Open
<1> QED
  BY <1>0, <1>1, <1>2, <1>3, <1>4, <1>5, <1>6, <1>7, <1>8, <1>9, <1>10, <1>11,
    <1>12, <1>13, <1>14, <1>15, <1>16, <1>17, <1>18, <1>19, <1>20
  DEF Next, HandlerStep, WatcherStep


LEMMA MessagesInvariant == SafeSpec => [](Basics /\ Messages)
<1>1. Basics /\ Messages /\ [Next]_vars => (Basics /\ Messages)'
  BY NextBasics, NextMessages
<1> QED
  BY <1>1, InitBasics, InitMessages, PTL DEF SafeSpec

(* With three threads sending on its connection, a client receives         *)
(* run.started of each run first and once, and run.exit at most once.      *)
THEOREM RunsFollowProtocol == SafeSpec => []RunProtocol
<1>1. Basics /\ Messages => RunProtocol
  <2> SUFFICES ASSUME Basics, Messages, NEW r \in Request
               PROVE  /\ sent[r] # <<>> => IndicesOf(r, "started") = {1}
                      /\ Cardinality(IndicesOf(r, "exit")) <= 1
    BY DEF RunProtocol
  <2>1. StartsOnce(sent[r]) /\ ExitsOnce(sent[r])
    BY DEF Messages, WellSent
  <2>2. sent[r] \in Seq(Message)
    BY TypeParts DEF HistoryTypeOK, Message, Basics
  <2>3. sent[r] # <<>> => IndicesOf(r, "started") = {1}
    BY <2>1, <2>2 DEF IndicesOf, StartsOnce
  <2>4. CASE IndicesOf(r, "exit") = {}
    BY <2>3, <2>4, FS_EmptySet
  <2>5. ASSUME NEW i \in IndicesOf(r, "exit")
        PROVE  Cardinality(IndicesOf(r, "exit")) <= 1
    <3>1. IndicesOf(r, "exit") = {i}
      BY <2>1, <2>5 DEF IndicesOf, ExitsOnce
    <3>2. Cardinality({i}) = 1
      BY FS_Singleton
    <3> QED
      BY <3>1, <3>2
  <2> QED
    BY <2>3, <2>4, <2>5
<1> QED
  BY <1>1, MessagesInvariant, PTL

=============================================================================
