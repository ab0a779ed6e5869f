------------------------------ MODULE Execution ------------------------------
(***************************************************************************)
(* One run of a program in CodeRunner (code_runner.py), from the request   *)
(* to its end: the checks, the private copy of the project, the lease of   *)
(* the scheduler, the container runtime, the Python packages with their    *)
(* cache on disk, the GUI image, the compiler and the program itself.      *)
(*                                                                         *)
(* Each member of Runs is a thread that serves requests one after the      *)
(* other.  The threads share the package cache, the cached verdict about   *)
(* the container runtime, the images and the preview file of the project.  *)
(* A request is a record (see Requests in MCExecution); a package is known *)
(* by its name and by what it was installed for.  A cache is copied and     *)
(* removed package by package, and a package can be there in part, since   *)
(* shutil.copytree and shutil.rmtree list its directories one by one.  The  *)
(* scheduler is reduced to its count: RunScheduler has it in full, and     *)
(* LiveRuns the ways in which a live session loses or doubles a release.   *)
(***************************************************************************)
EXTENDS Naturals, Sequences, FiniteSets

CONSTANTS
    Runs,           \* the threads that serve requests
    Image, Package, \* the container images, and the packages that are known
    Requests,       \* the requests, with the session and the project they come from
    Settings,       \* what the administrator may have set when a request reads it
    Slots,          \* runs the scheduler lets go at once
    HealthyFor,     \* how long a good verdict about the runtime is kept
    FailedFor,      \* how long a bad one is kept
    CheckTime,      \* the time limit of a check of the runtime
    MaxBegun,       \* bound: requests in a behaviour
    MaxFaults       \* bound: failures and returns of the runtime, and crashes

\* A request: what is sent (its language, whether it is a live session, the
\* backend it asks for, whether it carries the text, whether that is valid
\* Python, whether it opens a window), what the session allows (web access, a
\* teacher's rights), and the project with its requirements.
Request ==
    [language: {"python", "compiled", "script", "npm install", "npm run", "html"},
     live: BOOLEAN, backend: {"unset", "process", "container"}, image: Image,
     web: BOOLEAN, teacher: BOOLEAN, allowed: BOOLEAN, code: BOOLEAN, valid: BOOLEAN,
     project: {"complete", "empty", "linked"}, needs: SUBSET Package, gui: BOOLEAN]

\* Only Python programs are looked at for a window.
ASSUME ExecutionAssumption ==
    /\ Requests # {} /\ Requests \subseteq Request
    /\ \A q \in Requests : q.gui => q.language = "python"
    /\ Settings \subseteq [backend: {"process", "container"}, unsafe: BOOLEAN,
                           proxy: {"missing", "open"}]
    /\ {Slots, HealthyFor, FailedFor, CheckTime, MaxBegun, MaxFaults} \subseteq Nat

VARIABLES
    run,        \* run[r]: the local state of a thread
    active,     \* leases the scheduler counts as given out (_active_total)
    leaked,     \* of those, leases of live sessions that ended without a release
    doubled,    \* releases beyond the one that was due
    cache,      \* cache[k]: the directory of one set of requirements
    shaky,      \* caches whose last store was overlapped, failed or was cut off
    verdict,    \* the cached answer about the container runtime
    up,         \* the container runtime answers
    changed,    \* how long ago that changed (capped)
    guiImage,   \* the base images for which there is a GUI image
    preview,    \* the run that wrote the preview file of the project
    begun, faults

slots == <<active, leaked, doubled>>
shared == <<cache, shaky, verdict, guiImage, preview>>
world == <<up, changed, begun, faults>>
vars == <<run, slots, shared, world>>

-----------------------------------------------------------------------------
(* What a request asks for. *)

\* _runner_backend: the request's own choice comes before the setting.
RunnerBackend(q, s) == IF q.backend # "unset" THEN q.backend ELSE s.backend

\* resolve_backend: host processes only where they are enabled, and for teachers.
ResolveBackend(q, s) ==
    IF RunnerBackend(q, s) = "container" THEN "container"
    ELSE IF s.unsafe /\ q.teacher THEN "process" ELSE "refused"

\* HTML runs nothing, so it needs no permission for a backend.
Backend(q, s) == IF q.language = "html" THEN RunnerBackend(q, s) ELSE ResolveBackend(q, s)

\* The text a run is to use: the one sent with it, else the saved file.
WantedText(q) == IF q.code THEN "sent" ELSE "saved"

\* _python_dependency_cache_dir: packages for one backend and image only.
Marker(q) == IF q.backend = "process" THEN "process" ELSE q.image
KeyOfRequirements(q) == <<"any", q.needs>>    \* mutant: the marker forgotten
CacheKey(q) == <<Marker(q), q.needs>>
Packages(q) == {<<p, Marker(q)>> : p \in q.needs}

\* Requests as they are at work, with the backend they were given.
Given == {[q EXCEPT !.backend = "process"] : q \in Requests}
         \union {[q EXCEPT !.backend = "container"] : q \in Requests}
Keys == {CacheKey(q) : q \in Given}

\* Whether the directory is there, and the packages in it, whole and in part.
NoCache == [exists |-> FALSE, has |-> {}, part |-> {}]

\* A run at work: where it is, the steps before it, its request with the backend
\* it was given, the program text and the whole packages its program can reach,
\* what a copy or removal has still to handle, whether a copy has failed, whether
\* its packages come from a cache that was shaky or being stored, and the age of
\* its check of the runtime.
Fresh(q, where) ==
    [pc |-> where, plan |-> <<>>, job |-> q, text |-> "none", site |-> {}, todo |-> {},
     torn |-> FALSE, doubt |-> FALSE, probed |-> 0]
Idle == Fresh(CHOOSE q \in Requests : TRUE, "idle")

At(r, where) == run[r].pc = where
Job(r) == run[r].job

\* Runs at work on the cache of a key.
Storing(k) == {r \in Runs : /\ run[r].pc \in {"clearing", "making", "storing"}
                            /\ CacheKey(Job(r)) = k}

\* The steps for which a run needs a slot.
Leased == {"health", "probing", "inspect", "raise", "tool", "packages", "listing",
           "restoring", "installing", "clearing", "making", "storing", "gui", "building",
           "compiling", "starting", "handed", "running", "failed"}
Holding == {r \in Runs : run[r].pc \in Leased}

-----------------------------------------------------------------------------
(* Steps and ends of a run.  An HTTP run releases its lease in a finally.   *)
(* A live one keeps it with the prepared session, even when a step has      *)
(* failed, and gives it back at once only when the preparation raises.      *)

Become(r, state) == run' = [run EXCEPT ![r] = state]
Goto(r, where) == Become(r, [run[r] EXCEPT !.pc = where])
Continue(r, where) == Goto(r, where) /\ UNCHANGED slots

\* The next step of the plan.
Advanced(state) == [state EXCEPT !.pc = Head(state.plan), !.plan = Tail(state.plan)]
Advance(r) == Become(r, Advanced(run[r])) /\ UNCHANGED slots

\* release never counts below zero.
Less(n) == IF active > n THEN active - n ELSE 0

\* The end of a run: before it had a lease, with its release, without the release
\* that was due, and with one too many.
Left(r) == Become(r, Idle) /\ UNCHANGED slots
Ended(r) == Become(r, Idle) /\ active' = Less(1) /\ UNCHANGED <<leaked, doubled>>
EndedHolding(r) == Become(r, Idle) /\ leaked' = leaked + 1 /\ UNCHANGED <<active, doubled>>
EndedTwice(r) ==
    Become(r, Idle) /\ active' = Less(2) /\ doubled' = doubled + 1 /\ UNCHANGED leaked

\* mutant: only the good end of an HTTP run releases the lease
FailedKeepingLease(r) ==
    IF Job(r).live THEN Continue(r, "failed") ELSE Continue(r, "idle")
Failed(r) == IF Job(r).live THEN Continue(r, "failed") ELSE Ended(r)

\* A live session reports its failed preparation.  When a message cannot be sent
\* it raises with the lease in hand; else _emit_exit releases it, and start once more.
ReportFailure(r, sent) ==
    /\ At(r, "failed")
    /\ IF sent THEN EndedTwice(r) ELSE EndedHolding(r)
    /\ UNCHANGED <<shared, world>>

-----------------------------------------------------------------------------
(* The plan of a run: its steps from the lease to the start of its program. *)
(* "script" stands for JavaScript and Rust with cargo, "compiled" for C++,  *)
(* Java and rustc.                                                          *)

\* npm install and npm ci raise without web access, except in HTTP runs in a
\* container, where they fail for want of a network.
NpmRaises(q) == q.language = "npm install" /\ ~q.web

\* On the host an interpreter or a compiler may be missing.
HostSteps(q) ==
    CASE q.language = "python" -> <<"packages", "tool", "starting">>
      [] q.language = "compiled" -> <<"tool", "compiling", "starting">>
      [] OTHER -> IF NpmRaises(q) THEN <<"raise">> ELSE <<"tool", "starting">>

\* In a container the runtime and the image are tested first.
ContainerSteps(q) ==
    CASE q.language = "python" -> IF q.gui THEN <<"packages", "gui", "starting">>
                                  ELSE <<"packages", "starting">>
      [] q.language = "compiled" -> <<"compiling", "starting">>
      [] OTHER -> <<"starting">>

RunContainerized(q) == <<"health", "inspect">> \o ContainerSteps(q)
PrepareLiveContainerized(q) ==
    <<"health", "inspect">> \o IF NpmRaises(q) THEN <<"raise">> ELSE ContainerSteps(q)
PrepareLiveProcess(q) == HostSteps(q)

Plan(q) == IF q.backend = "process" THEN IF q.live THEN PrepareLiveProcess(q) ELSE HostSteps(q)
           ELSE IF q.live THEN PrepareLiveContainerized(q) ELSE RunContainerized(q)

-----------------------------------------------------------------------------
(* From the request to the lease. *)

\* The request is checked; a refusal changes nothing.
Accept(r, q, s) ==
    /\ At(r, "idle") /\ begun < MaxBegun
    /\ q.allowed /\ Backend(q, s) # "refused"
    /\ Become(r, Fresh([q EXCEPT !.backend = Backend(q, s)],
                       IF q.language = "html" THEN "html" ELSE "copy"))
    /\ begun' = begun + 1
    /\ UNCHANGED <<slots, shared, up, changed, faults>>

\* run() and prepare_live_run() take their requests alike.
Run(r, q, s) == ~q.live /\ Accept(r, q, s)
PrepareLiveRun(r, q, s) == q.live /\ Accept(r, q, s)

\* _execution_env raises where web access needs a proxy and none is set.
EnvironmentRaises(q, s) == q.web /\ s.proxy = "missing"

\* _prepare_html_preview: text that was sent goes into the one preview file of
\* the project; a saved page is shown from where it is.  A live session asks for
\* its environment after that, although it runs nothing.
PrepareHtmlPreview(r, s) ==
    /\ At(r, "html")
    /\ preview' = IF Job(r).code THEN r ELSE preview
    /\ IF Job(r).live /\ EnvironmentRaises(Job(r), s) THEN Left(r) ELSE Continue(r, "preview")
    /\ UNCHANGED <<cache, shaky, verdict, guiImage, world>>

\* The browser loads the path it was given.
PreviewText(r) ==
    IF ~Job(r).code THEN "saved" ELSE IF preview = r THEN "sent" ELSE "another's"

LoadPreview(r) ==
    /\ At(r, "preview")
    /\ Become(r, [run[r] EXCEPT !.pc = "shown", !.text = PreviewText(r)])
    /\ UNCHANGED <<slots, shared, world>>

ClosePreview(r) == At(r, "shown") /\ Left(r) /\ UNCHANGED <<shared, world>>

\* _mirror_tree_securely raises at the first link or special file.
CopyRaises(q) == q.project = "linked"

\* _prepare_execution_workspace: the copy, then the text that was sent; without
\* it the file must be in the copy.
WorkspaceText(q) ==
    IF q.code THEN "sent" ELSE IF q.project = "complete" THEN "saved" ELSE "none"

PrepareExecutionWorkspace(r) ==
    /\ At(r, "copy")
    /\ LET written == WorkspaceText(Job(r))
       IN IF CopyRaises(Job(r)) \/ written = "none" THEN Left(r)
          ELSE /\ Become(r, [run[r] EXCEPT !.pc = "syntax", !.text = written])
               /\ UNCHANGED slots
    /\ UNCHANGED <<shared, world>>

\* _python_syntax_error: only Python is compiled on the server itself.
SyntaxError(q) == q.language = "python" /\ ~q.valid

CheckSyntax(r, s) ==
    /\ At(r, "syntax")
    /\ IF SyntaxError(Job(r)) \/ EnvironmentRaises(Job(r), s)
       THEN Left(r) ELSE Continue(r, "waiting")
    /\ UNCHANGED <<shared, world>>

\* scheduler.acquire lets the run go when there is a slot for it.
AcquireLease(r) ==
    /\ At(r, "waiting") /\ active < Slots
    /\ active' = active + 1 /\ UNCHANGED <<leaked, doubled>>
    /\ Become(r, Advanced([run[r] EXCEPT !.plan = Plan(Job(r))]))
    /\ UNCHANGED <<shared, world>>

-----------------------------------------------------------------------------
(* The container runtime. *)

\* How long an answer is kept, counted from the beginning of its check.
KeptAlike(ok) == HealthyFor    \* mutant: one time for good and bad verdicts
KeptFor(ok) == IF ok THEN HealthyFor ELSE FailedFor
Verdict(ok, age) ==
    [ok |-> ok, left |-> IF age < KeptFor(ok) THEN KeptFor(ok) - age ELSE 0]
NoVerdict == [ok |-> FALSE, left |-> 0]

\* _container_runtime_health: a verdict that is still valid is used, else the
\* runtime is asked.
CheckHealth(r) ==
    /\ At(r, "health")
    /\ IF verdict.left = 0 THEN Continue(r, "probing")
       ELSE IF verdict.ok THEN Advance(r) ELSE Failed(r)
    /\ UNCHANGED <<shared, world>>

\* The runtime has answered, or its check has failed or run out of time.
HealthAnswer(r) ==
    /\ At(r, "probing")
    /\ verdict' = Verdict(up, run[r].probed)
    /\ IF up
       THEN Become(r, Advanced([run[r] EXCEPT !.probed = 0])) /\ UNCHANGED slots
       ELSE Failed(r)
    /\ UNCHANGED <<cache, shaky, guiImage, preview, world>>

\* The workspace is copied once more for the container (it has no links by now),
\* and the image must be there.
InspectImage(r, found) ==
    /\ At(r, "inspect")
    /\ IF found /\ up THEN Advance(r) ELSE Failed(r)
    /\ UNCHANGED <<shared, world>>

\* The preparation raises: for npm, or because a program is not installed.
Raise(r) == At(r, "raise") /\ Ended(r) /\ UNCHANGED <<shared, world>>

FindTool(r, installed) ==
    /\ At(r, "tool")
    /\ IF installed THEN Advance(r) ELSE Ended(r)
    /\ UNCHANGED <<shared, world>>

\* The compiler's own result ends the run unless it is 0.
Compile(r, ok) ==
    /\ At(r, "compiling")
    /\ IF ok THEN Advance(r) ELSE Failed(r)
    /\ UNCHANGED <<shared, world>>

-----------------------------------------------------------------------------
(* Python packages. *)

\* _ensure_python_dependencies_*: nothing to do without requirements; else the
\* cache if it exists, else pip, for which the session needs web access.
EnsurePackages(r) ==
    /\ At(r, "packages")
    /\ LET k == CacheKey(Job(r))
       IN IF Job(r).needs = {} THEN Advance(r)
          ELSE IF cache[k].exists
          THEN /\ Become(r, [run[r] EXCEPT !.pc = "listing",
                                           !.doubt = k \in shaky \/ Storing(k) # {}])
               /\ UNCHANGED slots
          ELSE IF Job(r).web THEN Continue(r, "installing")
          ELSE Failed(r)
    /\ UNCHANGED <<shared, world>>

EnsurePackagesProcess(r) == Job(r).backend = "process" /\ EnsurePackages(r)
EnsurePackagesContainer(r) == Job(r).backend = "container" /\ EnsurePackages(r)

\* One package of those a copy or removal has still to handle.
Handle(r, p) == [run[r] EXCEPT !.todo = @ \ {p}]

\* _restore_dependency_cache: shutil.copytree lists the directory, which may be
\* gone since it was seen, before it copies.
ListCache(r) ==
    /\ At(r, "listing")
    /\ LET k == CacheKey(Job(r))
       IN IF cache[k].exists
          THEN /\ Become(r, [run[r] EXCEPT !.pc = "restoring",
                                           !.todo = cache[k].has \union cache[k].part])
               /\ UNCHANGED slots
          ELSE Ended(r)
    /\ UNCHANGED <<shared, world>>

\* A package that is there in part is copied as it is; it is noticed only if a
\* file is gone that has been listed.
RestoreCache(r) ==
    /\ At(r, "restoring")
    /\ LET k == CacheKey(Job(r))
       IN \E p \in run[r].todo :
            \/ p \in cache[k].has /\ Become(r, [Handle(r, p) EXCEPT !.site = @ \union {p}])
            \/ p \in cache[k].part /\ Become(r, Handle(r, p))
            \/ p \notin cache[k].has /\ Become(r, [Handle(r, p) EXCEPT !.torn = TRUE])
    /\ UNCHANGED <<slots, shared, world>>

\* copytree raises at its end if a copy has failed.
RestoreEnds(r) ==
    /\ At(r, "restoring") /\ run[r].todo = {}
    /\ IF run[r].torn THEN Ended(r) ELSE Advance(r)
    /\ UNCHANGED <<shared, world>>

\* pip has ended; a failure, or its time limit, ends the run and stores nothing.
\* _store_dependency_cache then begins, with rmtree if there is a cache by now:
\* whoever restores that cache has it removed under its hands.
Stores(r) ==
    LET k == CacheKey(Job(r))
    IN [run[r] EXCEPT !.pc = IF cache[k].exists THEN "clearing" ELSE "making",
                      !.site = Packages(Job(r)), !.todo = cache[k].has \union cache[k].part]
Restores(r, k) == run[r].pc \in {"listing", "restoring"} /\ CacheKey(Job(r)) = k

Install(r, ok) ==
    /\ At(r, "installing")
    /\ LET k == CacheKey(Job(r))
       IN IF ok
          THEN /\ run' = [o \in Runs |-> IF o = r THEN Stores(r)
                                         ELSE IF Restores(o, k) THEN [run[o] EXCEPT !.doubt = TRUE]
                                         ELSE run[o]]
               /\ shaky' = IF Storing(k) = {} THEN shaky \ {k} ELSE shaky \union {k}
               /\ UNCHANGED slots
          ELSE Failed(r) /\ UNCHANGED shaky
    /\ UNCHANGED <<cache, verdict, guiImage, preview, world>>

InstallOnHost(r, ok) == Job(r).backend = "process" /\ Install(r, ok)
InstallInContainer(r, ok) == Job(r).backend = "container" /\ Install(r, ok)

\* rmtree with ignore_errors removes what it has listed, one after the other,
\* passes over what it cannot remove, and removes the directory if it is empty then.
ClearCache(r) ==
    /\ At(r, "clearing")
    /\ LET k == CacheKey(Job(r))
       IN \/ \E p \in run[r].todo :
                \/ /\ p \in cache[k].has
                   /\ cache' = [cache EXCEPT ![k].has = @ \ {p}, ![k].part = @ \union {p}]
                   /\ UNCHANGED run
                \/ /\ p \notin cache[k].has
                   /\ cache' = [cache EXCEPT ![k].part = @ \ {p}]
                   /\ Become(r, Handle(r, p))
                \/ Become(r, Handle(r, p)) /\ UNCHANGED cache
          \/ /\ run[r].todo = {}
             /\ cache' = [cache EXCEPT ![k].exists = cache[k].has \union cache[k].part # {}]
             /\ Goto(r, "making")
    /\ UNCHANGED <<slots, shaky, verdict, guiImage, preview, world>>

\* A store that raises leaves what it has done.
StoreRaises(r) == Ended(r) /\ shaky' = shaky \union {CacheKey(Job(r))}

\* copytree begins with the directory, which may exist again.
MakeCache(r, ok) ==
    /\ At(r, "making")
    /\ IF ok
       THEN /\ cache' = [cache EXCEPT ![CacheKey(Job(r))].exists = TRUE]
            /\ Become(r, [run[r] EXCEPT !.pc = "storing", !.todo = run[r].site])
            /\ UNCHANGED <<slots, shaky>>
       ELSE StoreRaises(r) /\ UNCHANGED cache
    /\ UNCHANGED <<verdict, guiImage, preview, world>>

\* A package is in part until all its files are copied, and stays so where a
\* copy fails, or where another store has removed files of it again.
StoreCache(r) ==
    /\ At(r, "storing")
    /\ LET k == CacheKey(Job(r))
       IN \E p \in run[r].todo :
            \/ /\ p \notin cache[k].part
               /\ cache' = [cache EXCEPT ![k] = [exists |-> TRUE, has |-> @.has \ {p},
                                                part |-> @.part \union {p}]]
               /\ UNCHANGED run
            \/ /\ p \in cache[k].part
               /\ cache' = [cache EXCEPT ![k].has = @ \union {p}, ![k].part = @ \ {p}]
               /\ Become(r, Handle(r, p))
            \/ k \in shaky /\ Become(r, Handle(r, p)) /\ UNCHANGED cache
            \/ Become(r, [Handle(r, p) EXCEPT !.torn = TRUE]) /\ UNCHANGED cache
    /\ UNCHANGED <<slots, shaky, verdict, guiImage, preview, world>>

\* copytree raises at its end if a copy has failed.
StoreEnds(r) ==
    /\ At(r, "storing") /\ run[r].todo = {}
    /\ IF run[r].torn THEN StoreRaises(r) ELSE Advance(r) /\ UNCHANGED shaky
    /\ UNCHANGED <<cache, verdict, guiImage, preview, world>>

-----------------------------------------------------------------------------
(* Python programs with a window, and the start of the program. *)

\* _ensure_python_gui_container_image: one image for each base image.
EnsureGuiImage(r) ==
    /\ At(r, "gui")
    /\ IF Job(r).image \in guiImage THEN Advance(r)
       ELSE IF Job(r).web THEN Continue(r, "building")
       ELSE Failed(r)
    /\ UNCHANGED <<shared, world>>

BuildGuiImage(r, ok) ==
    /\ At(r, "building")
    /\ IF ok /\ up
       THEN guiImage' = guiImage \union {Job(r).image} /\ Advance(r)
       ELSE Failed(r) /\ UNCHANGED guiImage
    /\ UNCHANGED <<cache, shaky, verdict, preview, world>>

\* _python_entry_env tells the bootstrap where the packages are.  The scripts that
\* open a window in a container run "python -I" without the bootstrap.
Windowed(q) == q.gui /\ q.backend = "container"
Reachable(q, site) == IF Windowed(q) THEN {} ELSE site

\* An HTTP run executes its command at once; a live one is handed to its session.
Start(r) ==
    /\ At(r, "starting")
    /\ Become(r, [run[r] EXCEPT !.pc = IF Job(r).live THEN "handed" ELSE "running",
                                !.site = Reachable(Job(r), @)])
    /\ UNCHANGED <<slots, shared, world>>

\* The live session starts the command it was handed, or fails to and raises.
StartLive(r, ok) ==
    /\ At(r, "handed")
    /\ IF ok THEN Continue(r, "running") ELSE Ended(r)
    /\ UNCHANGED <<shared, world>>

\* The program ends, or its time limit has it killed.  A live session whose
\* run.started or run.exit cannot be sent never releases its lease.
Execute(r) == At(r, "running") /\ ~Job(r).live /\ Ended(r) /\ UNCHANGED <<shared, world>>

LiveEnds(r, sent) ==
    /\ At(r, "running") /\ Job(r).live
    /\ IF sent THEN Ended(r) ELSE EndedHolding(r)
    /\ UNCHANGED <<shared, world>>

-----------------------------------------------------------------------------
(* The world around. *)

\* The container runtime stops answering, or answers again.
RuntimeFlips ==
    /\ faults < MaxFaults
    /\ up' = ~up /\ changed' = 0 /\ faults' = faults + 1
    /\ UNCHANGED <<run, slots, shared, begun>>

\* Time passes; no check of the runtime outlives its time limit.
Tick ==
    /\ \A r \in Runs : At(r, "probing") => run[r].probed < CheckTime
    /\ run' = [r \in Runs |-> IF At(r, "probing")
                              THEN [run[r] EXCEPT !.probed = @ + 1] ELSE run[r]]
    /\ verdict' = IF verdict.left > 1 THEN [verdict EXCEPT !.left = @ - 1] ELSE NoVerdict
    /\ changed' = IF changed < HealthyFor THEN changed + 1 ELSE changed
    /\ UNCHANGED <<slots, cache, shaky, up, guiImage, preview, begun, faults>>

\* The server dies: threads, counts and verdict are gone, the disk stays.
Crash ==
    /\ faults < MaxFaults
    /\ faults' = faults + 1
    /\ run' = [r \in Runs |-> Idle]
    /\ active' = 0 /\ leaked' = 0 /\ doubled' = 0 /\ verdict' = NoVerdict
    /\ shaky' = shaky \union {k \in Keys : Storing(k) # {}}
    /\ UNCHANGED <<cache, up, changed, guiImage, preview, begun>>

Init ==
    /\ run = [r \in Runs |-> Idle]
    /\ active = 0 /\ leaked = 0 /\ doubled = 0
    /\ cache = [k \in Keys |-> NoCache] /\ shaky = {}
    /\ verdict = NoVerdict
    /\ up \in BOOLEAN /\ changed = HealthyFor
    /\ guiImage = {} /\ preview \in Runs
    /\ begun = 0 /\ faults = 0

RunStep(r) ==
    \/ \E q \in Requests, s \in Settings : Run(r, q, s) \/ PrepareLiveRun(r, q, s)
    \/ LoadPreview(r) \/ ClosePreview(r)
    \/ PrepareExecutionWorkspace(r) \/ AcquireLease(r)
    \/ \E s \in Settings : PrepareHtmlPreview(r, s) \/ CheckSyntax(r, s)
    \/ CheckHealth(r) \/ HealthAnswer(r)
    \/ EnsurePackagesProcess(r) \/ EnsurePackagesContainer(r)
    \/ ListCache(r) \/ RestoreCache(r) \/ RestoreEnds(r)
    \/ ClearCache(r) \/ StoreCache(r) \/ StoreEnds(r)
    \/ EnsureGuiImage(r)
    \/ \E ok \in BOOLEAN :
          \/ InspectImage(r, ok) \/ FindTool(r, ok) \/ Compile(r, ok)
          \/ InstallOnHost(r, ok) \/ InstallInContainer(r, ok) \/ BuildGuiImage(r, ok)
          \/ MakeCache(r, ok) \/ StartLive(r, ok) \/ LiveEnds(r, ok) \/ ReportFailure(r, ok)
    \/ Raise(r) \/ Start(r) \/ Execute(r)

Next == (\E r \in Runs : RunStep(r)) \/ RuntimeFlips \/ Tick \/ Crash

Spec == Init /\ [][Next]_vars

-----------------------------------------------------------------------------
(* What must hold. *)

\* A program starts with what its request asked for: the text that was sent,
\* else the saved file; packages installed for its own backend and image only,
\* and all of its requirements, whole, unless their cache was restored while a
\* run was storing it, or after a store that was overlapped, failed or was cut
\* off, or unless it opens a window in a container, where it reaches none; and
\* for such a window the GUI image of its base image.  A saved page is shown as
\* it is, and a page that was sent may be replaced by another one that was
\* sent, never by a saved one.
\* (run, prepare_live_run, _ensure_python_dependencies_*, _prepare_html_preview.)
RunsAsRequested ==
    \A r \in Runs :
        /\ run[r].pc \in {"handed", "running"} =>
              /\ run[r].text = WantedText(Job(r))
              /\ run[r].site \subseteq Packages(Job(r))
              /\ (Job(r).language = "python" /\ ~Windowed(Job(r)) /\ ~run[r].doubt)
                     => run[r].site = Packages(Job(r))
              /\ Windowed(Job(r)) => Job(r).image \in guiImage
        /\ At(r, "shown") => \/ run[r].text = WantedText(Job(r))
                             \/ Job(r).code /\ run[r].text = "another's"

\* Whatever step fails, raises or runs out of time, an HTTP run and a preparation
\* that raises return their lease exactly once, so that only live sessions make
\* the scheduler's count drift: it is above the runs that may have something to
\* execute by no more than the leases such sessions have leaked, below that by no
\* more than the releases they have doubled, and never above the slots.
\* (The try and finally of run, the except of prepare_live_run.)
LeaseCoversRun ==
    /\ active =< Cardinality(Holding) + leaked
    /\ Cardinality(Holding) + leaked =< active + doubled
    /\ active =< Slots

\* A verdict in force about the container runtime is of recent times: a runtime
\* called healthy has answered within HealthyFor, one called broken has failed
\* within FailedFor, although threads store their verdicts in any order.
\* (_container_runtime_health.)
VerdictIsRecent ==
    verdict.left > 0 =>
        /\ (verdict.ok /\ ~up) => changed < HealthyFor
        /\ (~verdict.ok /\ up) => changed < FailedFor

=============================================================================
