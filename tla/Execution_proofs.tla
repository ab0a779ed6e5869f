--------------------------- MODULE Execution_proofs ---------------------------
(***************************************************************************)
(* Proofs about Execution for any threads, requests, settings and slots:   *)
(* only live sessions make the count of leases drift, a verdict in force   *)
(* is recent, and a program starts with the text and the packages its      *)
(* request asked for.                                                      *)
(***************************************************************************)
EXTENDS Execution, FiniteSetTheorems, TLAPS

Mark == Image \cup {"process"}
Installed == Package \X Mark
PlanStep == {"health", "inspect", "raise", "tool", "packages", "gui", "compiling", "starting"}
Place == Leased \cup {"idle", "html", "preview", "shown", "copy", "syntax", "waiting"}

\* Places from which a run goes on with its plan, in three groups.
PackageSteps == {"packages", "listing", "restoring", "installing", "clearing", "making", "storing"}
StoreSteps == {"clearing", "making", "storing"}
CacheSteps == StoreSteps \cup {"listing", "restoring"}
After == {"tool", "gui", "building", "starting", "handed", "running"}
Advancing == {"health", "probing", "inspect", "tool", "compiling", "gui", "building"}
             \cup PackageSteps

RunRec ==
    [pc: Place, plan: Seq(PlanStep), job: Request, text: {"none", "sent", "saved", "another's"},
     site: SUBSET Installed, todo: SUBSET Installed, torn: BOOLEAN, doubt: BOOLEAN, probed: Nat]

\* The packages that belong into a cache.
PackagesOf(k) == {<<p, k[1]>> : p \in k[2]}

-----------------------------------------------------------------------------
(* The inductive invariant. *)

Cache == [exists: BOOLEAN, has: SUBSET Installed, part: SUBSET Installed]

Types ==
    /\ run \in [Runs -> RunRec]
    /\ active \in Nat /\ leaked \in Nat /\ doubled \in Nat
    /\ IsFiniteSet(Holding)
    /\ cache \in [Keys -> Cache]
    /\ shaky \in SUBSET Keys
    /\ verdict \in [ok: BOOLEAN, left: Nat]
    /\ up \in BOOLEAN
    /\ changed \in Nat
    /\ guiImage \in SUBSET Image
    /\ begun \in Nat /\ faults \in Nat

\* What is left of the plan at each place.
GuiPlan(q) == IF q.gui THEN <<"gui", "starting">> ELSE <<"starting">>

PlanFits(s) ==
    LET q == s.job IN
    /\ s.pc \in {"health", "probing"} =>
          /\ q.backend = "container"
          /\ \/ s.plan = <<"inspect">> \o ContainerSteps(q)
             \/ s.plan = <<"inspect">> \o <<"raise">>
    /\ s.pc = "inspect" =>
          /\ q.backend = "container"
          /\ s.plan = ContainerSteps(q) \/ s.plan = <<"raise">>
    /\ s.pc \in PackageSteps =>
          /\ q.language = "python"
          /\ q.backend = "container" => s.plan = GuiPlan(q)
          /\ q.backend = "process" => s.plan = <<"tool", "starting">>
    /\ s.pc = "tool" =>
          /\ q.backend = "process"
          /\ s.plan = IF q.language = "compiled" THEN <<"compiling", "starting">>
                      ELSE <<"starting">>
    /\ s.pc = "compiling" => q.language = "compiled" /\ s.plan = <<"starting">>
    /\ s.pc \in {"gui", "building"} => s.plan = <<"starting">>

\* The text in the workspace, and the page that is shown.
TextFits(s) ==
    /\ s.pc \in Leased \cup {"syntax", "waiting"} => s.text = WantedText(s.job)
    /\ s.pc = "shown" => \/ s.text = WantedText(s.job)
                         \/ s.job.code /\ s.text = "another's"

\* The packages in the workspace and on their way, and the image for a window,
\* with g the images there are.
SiteFits(s, g) ==
    /\ s.pc \in {"copy", "syntax", "waiting"} => s.site = {}
    /\ s.pc \in Leased => s.site \subseteq Packages(s.job)
    /\ s.pc = "restoring" =>
          /\ s.todo \subseteq Packages(s.job)
          /\ (~s.doubt /\ ~s.torn) => s.site \cup s.todo = Packages(s.job)
    /\ s.pc \in StoreSteps => s.site = Packages(s.job)
    /\ s.pc = "storing" => s.todo \subseteq Packages(s.job)
    /\ (/\ s.pc \in After /\ s.job.language = "python" /\ ~s.doubt
        /\ ~(s.pc \in {"handed", "running"} /\ Windowed(s.job))) => s.site = Packages(s.job)
    /\ (s.pc \in {"starting", "handed", "running"} /\ s.job.gui
           /\ s.job.backend = "container") => s.job.image \in g

RunFits(s, g) ==
    s.pc # "idle" => s.job \in Given /\ PlanFits(s) /\ TextFits(s) /\ SiteFits(s, g)

RunsFit == \A r \in Runs : RunFits(run[r], guiImage)

\* A cache that is not shaky: nobody is at work on it and it is complete, or one
\* run is, which will have stored all it has.  A run without doubt restores a
\* cache that is complete and that nobody is at work on.
Clean(k) == cache[k].exists /\ k \notin shaky /\ Storing(k) = {}

CacheFits(k) ==
    /\ cache[k].has \subseteq PackagesOf(k) /\ cache[k].part \subseteq PackagesOf(k)
    /\ ~cache[k].exists => cache[k].has = {} /\ cache[k].part = {}
    /\ k \notin shaky =>
          /\ (Storing(k) = {} /\ cache[k].exists) =>
                cache[k].has = PackagesOf(k) /\ cache[k].part = {}
          /\ \A r \in Storing(k) :
                /\ Storing(k) = {r}
                /\ (At(r, "storing") /\ ~run[r].torn) =>
                      /\ cache[k].exists
                      /\ PackagesOf(k) \subseteq cache[k].has \cup run[r].todo
                      /\ cache[k].part \subseteq run[r].todo
    /\ \A r \in Runs : (Restores(r, k) /\ ~run[r].doubt) => Clean(k)

CachesFit == \A k \in Keys : CacheFits(k)

\* A verdict is older than a change that contradicts it, by what it has left.
VerdictFits ==
    /\ verdict.left =< KeptFor(verdict.ok)
    /\ (verdict.left > 0 /\ verdict.ok /\ ~up) => changed + verdict.left =< HealthyFor
    /\ (verdict.left > 0 /\ ~verdict.ok /\ up) => changed + verdict.left =< FailedFor

IInv == Types /\ RunsFit /\ LeaseCoversRun /\ CachesFit /\ VerdictFits

-----------------------------------------------------------------------------
(* Requests, keys and plans. *)

LEMMA GivenFacts ==
    ASSUME NEW q \in Given
    PROVE  /\ q \in Request
           /\ q.backend \in {"process", "container"}
           /\ q.gui => q.language = "python"
           /\ CacheKey(q) \in Keys
           /\ Packages(q) = PackagesOf(CacheKey(q))
           /\ Packages(q) \in SUBSET Installed
  <1>1. PICK p \in Requests, b \in {"process", "container"} : q = [p EXCEPT !.backend = b]
    BY DEF Given
  <1>2. p \in Request /\ (p.gui => p.language = "python")
    BY ExecutionAssumption
  <1>3. q \in Request /\ q.backend = b /\ q.gui = p.gui /\ q.language = p.language
    BY <1>1, <1>2 DEF Request
  <1>4. CacheKey(q) \in Keys
    BY <1>1 DEF Keys
  <1>5. Packages(q) = PackagesOf(CacheKey(q))
    BY DEF Packages, PackagesOf, CacheKey
  <1>6. Marker(q) \in Mark
    BY <1>3 DEF Marker, Mark, Request
  <1>7. q.needs \subseteq Package
    BY <1>3 DEF Request
  <1>8. Packages(q) \in SUBSET Installed
    BY <1>6, <1>7 DEF Packages, Installed
  <1> QED BY <1>2, <1>3, <1>4, <1>5, <1>8

LEMMA IdleFits == Idle \in RunRec /\ Idle.pc = "idle"
  <1>1. (CHOOSE q \in Requests : TRUE) \in Request
    BY ExecutionAssumption
  <1>2. <<>> \in Seq(PlanStep)
    OBVIOUS
  <1> QED BY <1>1, <1>2 DEF Idle, Fresh, RunRec, Place

LEMMA Prefixed ==
    ASSUME NEW S, NEW a \in S, NEW b \in S, NEW s \in Seq(S)
    PROVE  /\ <<a, b>> \o s \in Seq(S)
           /\ <<b>> \o s \in Seq(S)
           /\ Head(<<a, b>> \o s) = a /\ Tail(<<a, b>> \o s) = <<b>> \o s
           /\ Head(<<b>> \o s) = b /\ Tail(<<b>> \o s) = s
  <1>1. <<a, b>> \o s \in Seq(S) /\ <<b>> \o s \in Seq(S)
    OBVIOUS
  <1>2. Len(<<a, b>> \o s) = 2 + Len(s) /\ Len(<<b>> \o s) = 1 + Len(s)
    OBVIOUS
  <1>3. Head(<<a, b>> \o s) = a
    OBVIOUS
  <1>4. Head(<<b>> \o s) = b
    OBVIOUS
  <1>5. Tail(<<b>> \o s) = s
    OBVIOUS
  <1>6. Tail(<<a, b>> \o s) = <<b>> \o s
    BY <1>1, <1>2
  <1> QED BY <1>1, <1>3, <1>4, <1>5, <1>6

LEMMA Tuples ==
    ASSUME NEW S, NEW a \in S, NEW b \in S, NEW c \in S
    PROVE  /\ <<>> \in Seq(S) /\ <<a>> \in Seq(S) /\ <<a, b>> \in Seq(S)
           /\ <<a, b, c>> \in Seq(S)
           /\ Head(<<a>>) = a /\ Head(<<a, b>>) = a /\ Head(<<a, b, c>>) = a
           /\ Tail(<<a>>) = <<>> /\ Tail(<<a, b>>) = <<b>> /\ Tail(<<a, b, c>>) = <<b, c>>
  OBVIOUS

LEMMA StepSequences ==
    /\ <<"raise">> \in Seq(PlanStep) /\ <<"starting">> \in Seq(PlanStep)
    /\ <<"gui", "starting">> \in Seq(PlanStep) /\ <<"tool", "starting">> \in Seq(PlanStep)
    /\ <<"packages", "starting">> \in Seq(PlanStep)
    /\ <<"compiling", "starting">> \in Seq(PlanStep)
    /\ <<"packages", "gui", "starting">> \in Seq(PlanStep)
    /\ <<"tool", "compiling", "starting">> \in Seq(PlanStep)
    /\ <<"packages", "tool", "starting">> \in Seq(PlanStep)
    /\ <<>> \in Seq(PlanStep)
  <1>1. {"raise", "starting", "gui", "tool", "packages", "compiling"} \subseteq PlanStep
    BY DEF PlanStep
  <1> HIDE DEF PlanStep
  <1> QED BY <1>1

LEMMA ContainerPlans ==
    ASSUME NEW q \in Given
    PROVE  ContainerSteps(q) \in Seq(PlanStep) /\ GuiPlan(q) \in Seq(PlanStep)
  <1>1. GuiPlan(q) \in Seq(PlanStep)
    BY StepSequences DEF GuiPlan
  <1>2. CASE q.language = "python"
    BY <1>1, <1>2, StepSequences DEF ContainerSteps
  <1>3. CASE q.language = "compiled"
    BY <1>1, <1>3, StepSequences DEF ContainerSteps
  <1>4. CASE q.language \notin {"python", "compiled"}
    BY <1>1, <1>4, StepSequences DEF ContainerSteps
  <1> QED BY <1>2, <1>3, <1>4

\* The step after each place, and what is left then.
LEMMA NextStep ==
    ASSUME NEW s \in RunRec, s.job \in Given, s.pc \in Advancing, PlanFits(s)
    PROVE  LET t == Advanced(s) IN
           /\ t \in RunRec
           /\ t.pc \in PlanStep
           /\ PlanFits(t)
           /\ t.pc \notin CacheSteps
           /\ (t.pc \in After /\ s.job.language = "python") =>
                 s.pc \in PackageSteps \cup {"tool", "gui", "building"}
           /\ (t.pc \in {"starting", "handed", "running"} /\ s.job.gui
                  /\ s.job.backend = "container") => s.pc \in {"gui", "building"}
  <1> DEFINE q == s.job
             t == Advanced(s)
  <1>1. /\ q \in Request /\ q.backend \in {"process", "container"}
        /\ q.gui => q.language = "python"
    BY GivenFacts
  <1>2. t = [s EXCEPT !.pc = Head(s.plan), !.plan = Tail(s.plan)]
    BY DEF Advanced
  <1>3. ASSUME Head(s.plan) \in PlanStep, Tail(s.plan) \in Seq(PlanStep)
        PROVE  /\ t \in RunRec
               /\ t.pc = Head(s.plan) /\ t.plan = Tail(s.plan) /\ t.job = q
    BY <1>2, <1>3 DEF RunRec, Place, PlanStep, Leased
  <1> DEFINE Good ==
        /\ t.pc \in PlanStep
        /\ PlanFits(t)
        /\ t.pc \notin CacheSteps
        /\ (t.pc \in After /\ q.language = "python") =>
              s.pc \in PackageSteps \cup {"tool", "gui", "building"}
        /\ (t.pc \in {"starting", "handed", "running"} /\ q.gui /\ q.backend = "container") =>
              s.pc \in {"gui", "building"}
  <1> SUFFICES t \in RunRec /\ Good
    OBVIOUS
  <1> HIDE DEF t
  <1>a. /\ "raise" \in PlanStep /\ "starting" \in PlanStep /\ "gui" \in PlanStep
        /\ "tool" \in PlanStep /\ "packages" \in PlanStep /\ "compiling" \in PlanStep
        /\ "inspect" \in PlanStep
    BY DEF PlanStep
  <1>4. CASE s.pc \in {"health", "probing"}
    <2>1. PICK c \in Seq(PlanStep) :
            s.plan = <<"inspect">> \o c /\ (c = ContainerSteps(q) \/ c = <<"raise">>)
      BY <1>4, ContainerPlans, StepSequences DEF PlanFits
    <2>2. q.backend = "container"
      BY <1>4 DEF PlanFits
    <2>3. Head(s.plan) = "inspect" /\ Tail(s.plan) = c
      BY <1>a, <2>1, Prefixed
    <2>4. t \in RunRec /\ t.pc = "inspect" /\ t.plan = c /\ t.job = q
      BY <1>3, <1>a, <2>3
    <2> QED BY <1>a, <2>1, <2>2, <2>4 DEF PlanFits, CacheSteps, StoreSteps, PackageSteps, After
  <1>5. ASSUME s.plan = <<"starting">>, q.gui /\ q.backend = "container" => s.pc \in {"gui", "building"},
               q.language = "python" => s.pc \in PackageSteps \cup {"tool", "gui", "building"}
        PROVE  t \in RunRec /\ Good
    <2>1. Head(s.plan) = "starting" /\ Tail(s.plan) = <<>>
      BY <1>5
    <2>2. t \in RunRec /\ t.pc = "starting" /\ t.plan = <<>> /\ t.job = q
      BY <1>3, <1>a, <2>1, StepSequences
    <2> QED BY <1>5, <1>a, <2>2 DEF PlanFits, CacheSteps, StoreSteps, PackageSteps
  <1>6. ASSUME s.plan = <<"compiling", "starting">>, q.language = "compiled"
        PROVE  t \in RunRec /\ Good
    <2>1. Head(s.plan) = "compiling" /\ Tail(s.plan) = <<"starting">>
      BY <1>6
    <2>2. t \in RunRec /\ t.pc = "compiling" /\ t.plan = <<"starting">> /\ t.job = q
      BY <1>3, <1>a, <2>1, StepSequences
    <2> QED BY <1>6, <1>a, <2>2 DEF PlanFits, CacheSteps, StoreSteps, PackageSteps, After
  <1>7. CASE s.pc = "inspect"
    <2>1. q.backend = "container" /\ (s.plan = ContainerSteps(q) \/ s.plan = <<"raise">>)
      BY <1>7 DEF PlanFits
    <2>2. CASE s.plan = <<"raise">>
      <3>1. Head(s.plan) = "raise" /\ Tail(s.plan) = <<>>
        BY <2>2
      <3>2. t \in RunRec /\ t.pc = "raise" /\ t.plan = <<>> /\ t.job = q
        BY <1>3, <1>a, <3>1, StepSequences
      <3> QED BY <1>a, <3>2 DEF PlanFits, CacheSteps, StoreSteps, PackageSteps, After
    <2>3. CASE s.plan = ContainerSteps(q) /\ q.language = "python"
      <3>2. Head(s.plan) = "packages" /\ Tail(s.plan) = GuiPlan(q)
        <4>1. CASE q.gui
          <5>1. s.plan = <<"packages", "gui", "starting">>
            BY <2>3, <4>1 DEF ContainerSteps
          <5>2. Head(s.plan) = "packages" /\ Tail(s.plan) = <<"gui", "starting">>
            BY <5>1
          <5> QED BY <4>1, <5>2 DEF GuiPlan
        <4>2. CASE ~q.gui
          <5>1. s.plan = <<"packages", "starting">>
            BY <2>3, <4>2 DEF ContainerSteps
          <5>2. Head(s.plan) = "packages" /\ Tail(s.plan) = <<"starting">>
            BY <5>1
          <5> QED BY <4>2, <5>2 DEF GuiPlan
        <4> QED BY <4>1, <4>2
      <3>3. t \in RunRec /\ t.pc = "packages" /\ t.plan = GuiPlan(q) /\ t.job = q
        BY <1>3, <1>a, <3>2, ContainerPlans
      <3> QED BY <1>a, <2>1, <2>3, <3>3 DEF PlanFits, CacheSteps, StoreSteps, PackageSteps, After
    <2>4. CASE s.plan = ContainerSteps(q) /\ q.language = "compiled"
      <3>1. s.plan = <<"compiling", "starting">>
        BY <2>4 DEF ContainerSteps
      <3> QED BY <1>6, <2>4, <3>1
    <2>5. CASE s.plan = ContainerSteps(q) /\ q.language \notin {"python", "compiled"}
      <3>1. s.plan = <<"starting">>
        BY <2>5 DEF ContainerSteps
      <3> QED BY <1>1, <1>5, <2>5, <3>1
    <2> QED BY <2>1, <2>2, <2>3, <2>4, <2>5
  <1>8. CASE s.pc \in PackageSteps
    <2>1. q.language = "python"
      BY <1>8 DEF PlanFits
    <2>2. CASE q.backend = "process"
      <3>1. s.plan = <<"tool", "starting">>
        BY <1>8, <2>2 DEF PlanFits
      <3>2. Head(s.plan) = "tool" /\ Tail(s.plan) = <<"starting">>
        BY <3>1
      <3>3. t \in RunRec /\ t.pc = "tool" /\ t.plan = <<"starting">> /\ t.job = q
        BY <1>3, <1>a, <3>2, StepSequences
      <3> QED BY <1>8, <1>a, <2>1, <2>2, <3>3 DEF PlanFits, CacheSteps, StoreSteps, PackageSteps, After
    <2>3. CASE q.backend = "container" /\ q.gui
      <3>1. s.plan = <<"gui", "starting">>
        BY <1>8, <2>3 DEF PlanFits, GuiPlan
      <3>2. Head(s.plan) = "gui" /\ Tail(s.plan) = <<"starting">>
        BY <3>1
      <3>3. t \in RunRec /\ t.pc = "gui" /\ t.plan = <<"starting">> /\ t.job = q
        BY <1>3, <1>a, <3>2, StepSequences
      <3> QED BY <1>8, <1>a, <3>3 DEF PlanFits, CacheSteps, StoreSteps, PackageSteps, After
    <2>4. CASE q.backend = "container" /\ ~q.gui
      <3>1. s.plan = <<"starting">>
        BY <1>8, <2>4 DEF PlanFits, GuiPlan
      <3> QED BY <1>5, <1>8, <2>4, <3>1
    <2> QED BY <1>1, <2>2, <2>3, <2>4
  <1>9. CASE s.pc \in {"tool", "compiling", "gui", "building"}
    <2>1. /\ s.pc = "tool" =>
               /\ q.backend = "process"
               /\ s.plan = IF q.language = "compiled" THEN <<"compiling", "starting">>
                           ELSE <<"starting">>
          /\ s.pc = "compiling" => q.language = "compiled" /\ s.plan = <<"starting">>
          /\ s.pc \in {"gui", "building"} => s.plan = <<"starting">>
      BY DEF PlanFits
    <2> QED BY <1>1, <1>5, <1>6, <1>9, <2>1
  <1> QED BY <1>4, <1>7, <1>8, <1>9 DEF Advancing

\* A place that needs no plan keeps what a run has.
LEMMA AdvanceFits ==
    ASSUME NEW s \in RunRec, NEW g,
           s.job \in Given, s.pc \in Advancing, PlanFits(s),
           s.text = WantedText(s.job), s.site \subseteq Packages(s.job),
           (s.pc \in PackageSteps /\ ~s.doubt) => s.site = Packages(s.job),
           (s.pc \in {"tool", "gui", "building"} /\ s.job.language = "python" /\ ~s.doubt)
               => s.site = Packages(s.job),
           s.pc \in {"gui", "building"} => s.job.image \in g
    PROVE  LET t == Advanced(s) IN
           t \in RunRec /\ t.pc \in PlanStep /\ t.pc \in Leased /\ RunFits(t, g)
  <1> DEFINE t == Advanced(s)
  <1>1. /\ t \in RunRec
        /\ t.pc \in PlanStep
        /\ PlanFits(t)
        /\ t.pc \notin CacheSteps
        /\ (t.pc \in After /\ s.job.language = "python") =>
              s.pc \in PackageSteps \cup {"tool", "gui", "building"}
        /\ (t.pc \in {"starting", "handed", "running"} /\ s.job.gui
               /\ s.job.backend = "container") => s.pc \in {"gui", "building"}
    BY NextStep
  <1>2. t.job = s.job /\ t.text = s.text /\ t.site = s.site /\ t.doubt = s.doubt /\ t.todo = s.todo
    BY DEF Advanced, RunRec
  <1> HIDE DEF t
  <1>3. t.pc \in Leased /\ t.pc \notin {"shown", "copy", "syntax", "waiting"}
    BY <1>1 DEF PlanStep, Leased
  <1>4. TextFits(t)
    BY <1>2, <1>3 DEF TextFits
  <1>5. SiteFits(t, g)
    BY <1>1, <1>2, <1>3 DEF SiteFits, CacheSteps, StoreSteps, PlanStep
  <1> QED BY <1>1, <1>2, <1>3, <1>4, <1>5 DEF RunFits, t

\* A run that has its lease begins with the first step of its plan.
LEMMA AcquireFits ==
    ASSUME NEW s \in RunRec, NEW g, s.pc = "waiting", RunFits(s, g)
    PROVE  LET t == Advanced([s EXCEPT !.plan = Plan(s.job)]) IN
           t \in RunRec /\ t.pc \in PlanStep /\ t.pc \in Leased /\ RunFits(t, g)
  <1> DEFINE q == s.job
             t == Advanced([s EXCEPT !.plan = Plan(q)])
  <1>1. s.job \in Given /\ s.text = WantedText(q) /\ s.site = {}
    BY DEF RunFits, TextFits, SiteFits
  <1>2. q \in Request /\ q.backend \in {"process", "container"}
    BY <1>1, GivenFacts
  <1>3. /\ t = [s EXCEPT !.plan = Tail(Plan(q)), !.pc = Head(Plan(q))]
        /\ t.job = q /\ t.text = s.text /\ t.site = {} /\ t.doubt = s.doubt /\ t.todo = s.todo
    BY <1>1 DEF Advanced, RunRec
  <1>4. ASSUME Head(Plan(q)) \in PlanStep, Tail(Plan(q)) \in Seq(PlanStep)
        PROVE  t \in RunRec /\ t.pc = Head(Plan(q)) /\ t.plan = Tail(Plan(q))
    BY <1>3, <1>4 DEF RunRec, Place, PlanStep, Leased
  <1> HIDE DEF t
  <1>5. /\ "raise" \in PlanStep /\ "starting" \in PlanStep /\ "health" \in PlanStep
        /\ "tool" \in PlanStep /\ "packages" \in PlanStep /\ "inspect" \in PlanStep
    BY DEF PlanStep
  <1>6. t \in RunRec /\ t.pc \in {"health", "raise", "tool", "packages"} /\ PlanFits(t)
        /\ (q.language = "python" => t.pc # "tool")
    <2>1. CASE q.backend = "container"
      <3>1. PICK c \in Seq(PlanStep) :
              Plan(q) = <<"health", "inspect">> \o c /\ (c = ContainerSteps(q) \/ c = <<"raise">>)
        BY <1>1, <2>1, ContainerPlans, StepSequences
           DEF Plan, RunContainerized, PrepareLiveContainerized
      <3>2. /\ <<"inspect">> \o c \in Seq(PlanStep)
            /\ Head(Plan(q)) = "health" /\ Tail(Plan(q)) = <<"inspect">> \o c
        BY <1>5, <3>1, Prefixed
      <3>3. t \in RunRec /\ t.pc = "health" /\ t.plan = <<"inspect">> \o c
        BY <1>4, <1>5, <3>2
      <3> QED BY <1>3, <2>1, <3>1, <3>3 DEF PlanFits, PackageSteps
    <2>2. CASE q.backend = "process"
      <3>1. Plan(q) = HostSteps(q)
        BY <2>2 DEF Plan, PrepareLiveProcess
      <3>2. CASE q.language = "python"
        <4>1. Plan(q) = <<"packages", "tool", "starting">>
          BY <3>1, <3>2 DEF HostSteps
        <4>2. Head(Plan(q)) = "packages" /\ Tail(Plan(q)) = <<"tool", "starting">>
          BY <4>1
        <4>3. t \in RunRec /\ t.pc = "packages" /\ t.plan = <<"tool", "starting">>
          BY <1>4, <1>5, <4>2, StepSequences
        <4> QED BY <1>3, <2>2, <3>2, <4>3 DEF PlanFits, PackageSteps
      <3>3. CASE q.language = "compiled"
        <4>1. Plan(q) = <<"tool", "compiling", "starting">>
          BY <3>1, <3>3 DEF HostSteps
        <4>2. Head(Plan(q)) = "tool" /\ Tail(Plan(q)) = <<"compiling", "starting">>
          BY <4>1
        <4>3. t \in RunRec /\ t.pc = "tool" /\ t.plan = <<"compiling", "starting">>
          BY <1>4, <1>5, <4>2, StepSequences
        <4> QED BY <1>3, <2>2, <3>3, <4>3 DEF PlanFits, PackageSteps
      <3>4. CASE q.language \notin {"python", "compiled"}
        <4>1. Plan(q) = IF NpmRaises(q) THEN <<"raise">> ELSE <<"tool", "starting">>
          BY <3>1, <3>4 DEF HostSteps
        <4>2. CASE NpmRaises(q)
          <5>1. Head(Plan(q)) = "raise" /\ Tail(Plan(q)) = <<>>
            BY <4>1, <4>2
          <5>2. t \in RunRec /\ t.pc = "raise"
            BY <1>4, <1>5, <5>1, StepSequences
          <5> QED BY <5>2 DEF PlanFits, PackageSteps
        <4>3. CASE ~NpmRaises(q)
          <5>1. Head(Plan(q)) = "tool" /\ Tail(Plan(q)) = <<"starting">>
            BY <4>1, <4>3
          <5>2. t \in RunRec /\ t.pc = "tool" /\ t.plan = <<"starting">>
            BY <1>4, <1>5, <5>1, StepSequences
          <5> QED BY <1>3, <2>2, <3>4, <5>2 DEF PlanFits, PackageSteps
        <4> QED BY <4>2, <4>3
      <3> QED BY <3>2, <3>3, <3>4
    <2> QED BY <1>2, <2>1, <2>2
  <1>7. t.pc \in Leased /\ t.pc \in PlanStep
    BY <1>6 DEF Leased, PlanStep
  <1>8. TextFits(t)
    BY <1>1, <1>3, <1>6 DEF TextFits
  <1>9. SiteFits(t, g)
    BY <1>3, <1>6 DEF SiteFits, StoreSteps, After
  <1> QED BY <1>1, <1>3, <1>6, <1>7, <1>8, <1>9 DEF RunFits, t

-----------------------------------------------------------------------------
(* One run moves, and what that leaves of the invariant to be shown. *)

Local == /\ run \in [Runs -> RunRec]
         /\ active \in Nat /\ leaked \in Nat /\ doubled \in Nat
         /\ IsFiniteSet(Holding)
         /\ RunsFit
         /\ LeaseCoversRun

\* Any move of one run to a state that fits; others may come into doubt.
LEMMA Moves ==
    ASSUME Local, guiImage \subseteq guiImage', NEW r \in Runs, NEW s \in RunRec,
           run' \in [Runs -> RunRec], run'[r] = s, RunFits(s, guiImage'),
           \A o \in Runs \ {r} : \/ run'[o] = run[o]
                                 \/ run'[o] = [run[o] EXCEPT !.doubt = TRUE]
    PROVE  /\ RunsFit'
           /\ Holding' = IF s.pc \in Leased THEN Holding \cup {r} ELSE Holding \ {r}
  <1>1. ASSUME NEW o \in Runs, o # r
        PROVE  run'[o].pc = run[o].pc /\ RunFits(run'[o], guiImage')
    <2>1. run[o] \in RunRec /\ RunFits(run[o], guiImage)
      BY DEF Local, RunsFit
    <2>2. RunFits(run[o], guiImage')
      BY <2>1 DEF RunFits, SiteFits
    <2>3. CASE run'[o] = run[o]
      BY <2>2, <2>3
    <2>4. CASE run'[o] = [run[o] EXCEPT !.doubt = TRUE]
      <3>1. /\ run'[o].pc = run[o].pc /\ run'[o].plan = run[o].plan /\ run'[o].job = run[o].job
            /\ run'[o].text = run[o].text /\ run'[o].site = run[o].site
            /\ run'[o].todo = run[o].todo /\ run'[o].torn = run[o].torn /\ run'[o].doubt
        BY <2>1, <2>4 DEF RunRec
      <3> QED BY <2>2, <3>1 DEF RunFits, PlanFits, TextFits, SiteFits
    <2> QED BY <1>1, <2>3, <2>4
  <1>2. RunsFit'
    <2>1. ASSUME NEW o \in Runs
          PROVE  RunFits(run'[o], guiImage')
      BY <1>1
    <2> QED BY <2>1 DEF RunsFit
  <1>3. \A o : o \in Holding' <=> IF o = r THEN s.pc \in Leased ELSE o \in Holding
    BY <1>1 DEF Holding
  <1>4. r \notin Holding \ {r} /\ r \in Holding \cup {r}
    OBVIOUS
  <1>5. CASE s.pc \in Leased
    BY <1>3, <1>5
  <1>6. CASE s.pc \notin Leased
    BY <1>3, <1>6
  <1> QED BY <1>2, <1>5, <1>6

\* A move between two places that both need a lease, or both do not.
LEMMA Stays ==
    ASSUME Local, guiImage \subseteq guiImage', NEW r \in Runs, NEW s \in RunRec,
           run' \in [Runs -> RunRec], run'[r] = s, RunFits(s, guiImage'), UNCHANGED slots,
           \A o \in Runs \ {r} : \/ run'[o] = run[o]
                                 \/ run'[o] = [run[o] EXCEPT !.doubt = TRUE],
           run[r].pc \in Leased <=> s.pc \in Leased
    PROVE  Local'
  <1>1. RunsFit' /\ Holding' = IF s.pc \in Leased THEN Holding \cup {r} ELSE Holding \ {r}
    BY Moves
  <1>2. r \in Holding <=> s.pc \in Leased
    BY DEF Holding
  <1>3. Holding' = Holding
    BY <1>1, <1>2
  <1> QED BY <1>1, <1>3 DEF Local, LeaseCoversRun, slots

LEMMA Continues ==
    ASSUME Local, guiImage \subseteq guiImage', NEW r \in Runs, NEW s \in RunRec,
           Become(r, s), UNCHANGED slots, RunFits(s, guiImage'),
           run[r].pc \in Leased <=> s.pc \in Leased
    PROVE  Local'
  <1>1. run' \in [Runs -> RunRec] /\ run'[r] = s /\ \A o \in Runs \ {r} : run'[o] = run[o]
    BY DEF Local, Become
  <1> QED BY <1>1, Stays

\* The ends of a run that has a lease, and what each makes of the count.
Over(r) == Ended(r) \/ EndedHolding(r) \/ EndedTwice(r)

LEMMA Ends ==
    ASSUME Local, guiImage \subseteq guiImage', NEW r \in Runs, Over(r), run[r].pc \in Leased
    PROVE  Local'
  <1>1. Idle \in RunRec /\ Idle.pc \notin Leased /\ RunFits(Idle, guiImage')
    BY IdleFits DEF RunFits, Leased
  <1>2. run' = [run EXCEPT ![r] = Idle]
    BY DEF Over, Ended, EndedHolding, EndedTwice, Become
  <1>3. run' \in [Runs -> RunRec] /\ run'[r] = Idle /\ \A o \in Runs \ {r} : run'[o] = run[o]
    BY <1>1, <1>2 DEF Local
  <1>4. RunsFit' /\ Holding' = Holding \ {r}
    BY <1>1, <1>3, Moves
  <1>5. IsFiniteSet(Holding) /\ r \in Holding
    BY DEF Local, Holding
  <1>6. IsFiniteSet(Holding') /\ Cardinality(Holding') = Cardinality(Holding) - 1
    BY <1>4, <1>5, FS_RemoveElement
  <1>7. PICK n \in Nat : n = Cardinality(Holding)
    BY <1>5, FS_CardinalityType
  <1>8. n > 0
    BY <1>5, <1>7, FS_EmptySet
  <1>9. /\ active \in Nat /\ leaked \in Nat /\ doubled \in Nat /\ Slots \in Nat
        /\ active =< n + leaked /\ n + leaked =< active + doubled /\ active =< Slots
    BY <1>7, ExecutionAssumption DEF Local, LeaseCoversRun
  <1>10. /\ active' \in Nat /\ leaked' \in Nat /\ doubled' \in Nat
         /\ active' =< (n - 1) + leaked' /\ (n - 1) + leaked' =< active' + doubled'
         /\ active' =< Slots
    <2>1. CASE Ended(r)
      BY <1>8, <1>9, <2>1 DEF Ended, Less
    <2>2. CASE EndedHolding(r)
      BY <1>8, <1>9, <2>2 DEF EndedHolding
    <2>3. CASE EndedTwice(r)
      BY <1>8, <1>9, <2>3 DEF EndedTwice, Less
    <2> QED BY <2>1, <2>2, <2>3 DEF Over
  <1>11. LeaseCoversRun'
    <2>1. Cardinality(Holding)' = n - 1
      BY <1>6, <1>7
    <2> QED BY <1>10, <2>1 DEF LeaseCoversRun
  <1> QED BY <1>3, <1>4, <1>6, <1>10, <1>11 DEF Local

\* The end of a run that has no lease yet.
LEMMA Leaves ==
    ASSUME Local, guiImage \subseteq guiImage', NEW r \in Runs, Left(r), run[r].pc \notin Leased
    PROVE  Local'
  <1>1. Idle \in RunRec /\ Idle.pc \notin Leased /\ RunFits(Idle, guiImage')
    BY IdleFits DEF RunFits, Leased
  <1> QED BY <1>1, Continues DEF Left

\* A failure: a live session keeps its lease until it has reported it.
LEMMA Fails ==
    ASSUME Local, guiImage \subseteq guiImage', NEW r \in Runs, Failed(r),
           run[r].pc \in Leased
    PROVE  Local'
  <1>1. CASE Ended(r)
    BY <1>1, Ends DEF Over
  <1>2. CASE Continue(r, "failed")
    <2> DEFINE s == [run[r] EXCEPT !.pc = "failed"]
    <2>1. run[r] \in RunRec /\ RunFits(run[r], guiImage)
      BY DEF Local, RunsFit
    <2>2. /\ s \in RunRec /\ s.pc = "failed" /\ s.job = run[r].job
          /\ s.text = run[r].text /\ s.site = run[r].site
      BY <2>1 DEF RunRec, Place, Leased
    <2>3. Become(r, s) /\ UNCHANGED slots
      BY <1>2 DEF Continue, Goto
    <2>4. run[r].pc # "idle" /\ "failed" \in Leased
      BY DEF Leased
    <2> HIDE DEF s
    <2>5. RunFits(s, guiImage')
      BY <2>1, <2>2, <2>4
         DEF RunFits, PlanFits, TextFits, SiteFits, PackageSteps, StoreSteps, After
    <2> QED BY <2>2, <2>3, <2>4, <2>5, Continues
  <1> QED BY <1>1, <1>2 DEF Failed

LEMMA Works ==
    ASSUME Local, NEW r \in Runs, run[r].pc \in Leased
    PROVE  /\ run[r] \in RunRec /\ run[r].job \in Given
           /\ PlanFits(run[r]) /\ SiteFits(run[r], guiImage)
           /\ run[r].text = WantedText(run[r].job)
           /\ run[r].site \subseteq Packages(run[r].job)
  <1>1. run[r] \in RunRec /\ RunFits(run[r], guiImage) /\ run[r].pc # "idle"
    BY DEF Local, RunsFit, Leased
  <1> QED BY <1>1 DEF RunFits, TextFits, SiteFits

\* The next step of the plan; s is the run with what the last step has changed.
LEMMA Advances ==
    ASSUME Local, guiImage \subseteq guiImage', NEW r \in Runs, NEW s \in RunRec,
           run[r].pc \in Advancing, Become(r, Advanced(s)), UNCHANGED slots,
           s.pc = run[r].pc, s.plan = run[r].plan, s.job = run[r].job,
           s.text = run[r].text, s.doubt = run[r].doubt, s.site \subseteq Packages(s.job),
           (s.pc \in PackageSteps /\ ~s.doubt) => s.site = Packages(s.job),
           s.pc \notin PackageSteps => s.site = run[r].site,
           s.pc \in {"gui", "building"} => s.job.image \in guiImage'
    PROVE  Local' /\ Advanced(s).pc \notin CacheSteps
  <1>1. run[r].pc \in Leased
    BY DEF Advancing, PackageSteps, Leased
  <1>2. /\ run[r] \in RunRec /\ run[r].job \in Given
        /\ PlanFits(run[r]) /\ SiteFits(run[r], guiImage)
        /\ run[r].text = WantedText(run[r].job)
    BY <1>1, Works
  <1>3. PlanFits(s)
    BY <1>2 DEF PlanFits
  <1>4. (s.pc \in {"tool", "gui", "building"} /\ s.job.language = "python" /\ ~s.doubt)
           => s.site = Packages(s.job)
    BY <1>2 DEF SiteFits, After, PackageSteps
  <1> DEFINE t == Advanced(s)
  <1>5. t \in RunRec /\ t.pc \in PlanStep /\ t.pc \in Leased /\ RunFits(t, guiImage')
    BY <1>2, <1>3, <1>4, AdvanceFits
  <1>6. t.pc \notin CacheSteps
    BY <1>5 DEF PlanStep, CacheSteps, StoreSteps
  <1> QED BY <1>1, <1>5, <1>6, Continues

\* Caches are left alone by runs that do not store.
LEMMA CachesStay ==
    ASSUME Local, CachesFit, UNCHANGED <<cache, shaky>>, NEW r \in Runs, NEW s,
           Become(r, s), run[r].pc \notin StoreSteps,
           s.pc \in CacheSteps =>
               s.pc \in {"listing", "restoring"} /\ (~s.doubt => Clean(CacheKey(s.job)))
    PROVE  CachesFit'
  <1>1. \A o \in Runs : run'[o] = IF o = r THEN s ELSE run[o]
    BY DEF Local, Become
  <1>a. /\ s.pc \notin StoreSteps
        /\ (s.pc \in {"listing", "restoring"} /\ ~s.doubt) => Clean(CacheKey(s.job))
    BY DEF CacheSteps, StoreSteps
  <1>2. \A k : Storing(k)' = Storing(k)
    BY <1>1, <1>a DEF Storing, StoreSteps, Job
  <1>3. \A k : \A o \in Storing(k) : o # r /\ o \in Runs
    BY DEF Storing, StoreSteps
  <1>4. ASSUME NEW k \in Keys
        PROVE  CacheFits(k)'
    <2>1. CacheFits(k)
      BY DEF CachesFit
    <2>2. \A o \in Storing(k) : run'[o] = run[o]
      BY <1>1, <1>3
    <2>3. Clean(k)' <=> Clean(k)
      BY <1>2 DEF Clean
    <2>4. \A o \in Runs : (Restores(o, k)' /\ ~run'[o].doubt) => Clean(k)
      BY <1>1, <1>a, <2>1 DEF CacheFits, Restores, Job
    <2> QED BY <1>2, <2>1, <2>2, <2>3, <2>4 DEF CacheFits, At
  <1>5. Keys' = Keys
    BY DEF Keys, Given, CacheKey, Marker
  <1> QED BY <1>4, <1>5 DEF CachesFit

\* A run ends, or fails, that is not storing packages.
LEMMA CachesStayAtEnd ==
    ASSUME Local, CachesFit, UNCHANGED <<cache, shaky>>, NEW r \in Runs,
           run[r].pc \notin StoreSteps, Over(r) \/ Left(r) \/ Failed(r)
    PROVE  CachesFit'
  <1>1. CASE Over(r) \/ Left(r)
    <2>1. Idle.pc \notin CacheSteps
      BY IdleFits DEF CacheSteps, StoreSteps
    <2> QED BY <1>1, <2>1, CachesStay
         DEF Over, Ended, EndedHolding, EndedTwice, Left
  <1>2. CASE Continue(r, "failed")
    <2>1. [run[r] EXCEPT !.pc = "failed"].pc \notin CacheSteps
      BY DEF Local, RunRec, CacheSteps, StoreSteps
    <2> QED BY <1>2, <2>1, CachesStay DEF Continue, Goto
  <1> QED BY <1>1, <1>2 DEF Failed, Over

\* A step to another place, with nothing else changed.
LEMMA Goes ==
    ASSUME Local, guiImage \subseteq guiImage', NEW r \in Runs, NEW where \in Place,
           Continue(r, where), RunFits([run[r] EXCEPT !.pc = where], guiImage'),
           run[r].pc \in Leased <=> where \in Leased
    PROVE  /\ Local'
           /\ (CachesFit /\ UNCHANGED <<cache, shaky>> /\ run[r].pc \notin StoreSteps
                 /\ where \notin CacheSteps) => CachesFit'
  <1> DEFINE s == [run[r] EXCEPT !.pc = where]
  <1>1. run[r] \in RunRec
    BY DEF Local
  <1>2. s \in RunRec /\ s.pc = where
    BY <1>1 DEF RunRec
  <1>3. Become(r, s) /\ UNCHANGED slots
    BY DEF Continue, Goto
  <1> HIDE DEF s
  <1> QED BY <1>2, <1>3, Continues, CachesStay DEF s

-----------------------------------------------------------------------------
(* The steps of a run, in four groups: what each leaves of the invariant's  *)
(* part about runs, leases and caches.                                      *)

LEMMA GivenBackend ==
    ASSUME NEW q \in Requests, NEW s \in Settings, Backend(q, s) # "refused"
    PROVE  [q EXCEPT !.backend = Backend(q, s)] \in Given
  <1>1. q \in Request /\ s.backend \in {"process", "container"}
    BY ExecutionAssumption
  <1>2. Backend(q, s) \in {"process", "container"}
    BY <1>1 DEF Request, Backend, RunnerBackend, ResolveBackend
  <1>3. \A b \in {"process", "container"} : [q EXCEPT !.backend = b] \in Given
    BY DEF Given
  <1> QED BY <1>2, <1>3

LEMMA UpToTheLease ==
    ASSUME Local, CachesFit, UNCHANGED <<cache, shaky, guiImage>>, NEW r \in Runs,
           \/ \E q \in Requests, s \in Settings : Run(r, q, s) \/ PrepareLiveRun(r, q, s)
           \/ LoadPreview(r) \/ ClosePreview(r)
           \/ PrepareExecutionWorkspace(r) \/ AcquireLease(r)
           \/ \E s \in Settings : PrepareHtmlPreview(r, s) \/ CheckSyntax(r, s)
    PROVE  Local' /\ CachesFit'
  <1> DEFINE w == run[r]
  <1>1. w \in RunRec /\ RunFits(w, guiImage) /\ guiImage \subseteq guiImage'
    BY DEF Local, RunsFit
  <1>2. {"html", "preview", "shown", "copy", "syntax", "waiting", "idle"} \cap Leased = {}
        /\ {"html", "preview", "shown", "copy", "syntax", "waiting", "idle"} \subseteq Place
        /\ {"html", "preview", "shown", "copy", "syntax", "waiting", "idle"} \cap
              (StoreSteps \cup CacheSteps \cup PackageSteps \cup After
                 \cup {"health", "probing", "inspect", "tool", "compiling", "gui", "building"}) = {}
    BY DEF Leased, Place, StoreSteps, CacheSteps, PackageSteps, After
  <1>3. ASSUME NEW q \in Requests, NEW s \in Settings, Accept(r, q, s)
        PROVE  Local' /\ CachesFit'
    <2> DEFINE g == [q EXCEPT !.backend = Backend(q, s)]
               where == IF q.language = "html" THEN "html" ELSE "copy"
               t == Fresh(g, where)
    <2>1. g \in Given /\ g \in Request
      BY <1>3, GivenBackend, GivenFacts DEF Accept
    <2>2. t \in RunRec /\ t.pc = where /\ t.job = g /\ t.site = {}
      BY <1>2, <2>1, StepSequences DEF Fresh, RunRec
    <2>3. Become(r, t) /\ UNCHANGED slots /\ run[r].pc = "idle"
      BY <1>3 DEF Accept, At
    <2>4. where \in {"html", "copy"}
      OBVIOUS
    <2> HIDE DEF t, g, where
    <2>5. RunFits(t, guiImage')
      BY <1>2, <2>1, <2>2, <2>4 DEF RunFits, PlanFits, TextFits, SiteFits
    <2>6. Local'
      BY <1>1, <1>2, <2>2, <2>3, <2>4, <2>5, Continues
    <2> QED BY <1>2, <2>2, <2>3, <2>4, <2>6, CachesStay
  <1>4. ASSUME NEW s \in Settings, PrepareHtmlPreview(r, s)
        PROVE  Local' /\ CachesFit'
    <2>1. w.pc = "html" /\ (Left(r) \/ Continue(r, "preview"))
      BY <1>4 DEF PrepareHtmlPreview, At
    <2>2. RunFits([w EXCEPT !.pc = "preview"], guiImage')
      BY <1>1, <1>2, <2>1 DEF RunRec, RunFits, PlanFits, TextFits, SiteFits
    <2> QED BY <1>1, <1>2, <2>1, <2>2, Goes, Leaves, CachesStayAtEnd
  <1>5. CASE LoadPreview(r)
    <2> DEFINE t == [w EXCEPT !.pc = "shown", !.text = PreviewText(r)]
    <2>1. w.pc = "preview" /\ Become(r, t) /\ UNCHANGED slots
      BY <1>5 DEF LoadPreview, At
    <2>2. /\ t \in RunRec /\ t.pc = "shown" /\ t.job = w.job
          /\ t.text = WantedText(w.job) \/ (w.job.code /\ t.text = "another's")
      <3>1. PreviewText(r) = WantedText(w.job) \/ (w.job.code /\ PreviewText(r) = "another's")
        BY DEF PreviewText, WantedText, Job
      <3>2. PreviewText(r) \in {"none", "sent", "saved", "another's"}
        BY DEF PreviewText
      <3> QED BY <1>1, <1>2, <3>1, <3>2 DEF RunRec
    <2> HIDE DEF t
    <2>3. RunFits(t, guiImage')
      BY <1>1, <1>2, <2>1, <2>2 DEF RunFits, PlanFits, TextFits, SiteFits
    <2>4. Local'
      BY <1>1, <1>2, <2>1, <2>2, <2>3, Continues
    <2> QED BY <1>2, <2>1, <2>2, <2>4, CachesStay
  <1>6. CASE ClosePreview(r)
    <2>1. Left(r) /\ w.pc = "shown"
      BY <1>6 DEF ClosePreview, At
    <2> QED BY <1>1, <1>2, <2>1, Leaves, CachesStayAtEnd
  <1>7. CASE PrepareExecutionWorkspace(r)
    <2> DEFINE written == WorkspaceText(Job(r))
               t == [w EXCEPT !.pc = "syntax", !.text = written]
    <2>1. w.pc = "copy" /\ (Left(r) \/ (written # "none" /\ Become(r, t) /\ UNCHANGED slots))
      <3>1. w.pc = "copy"
        BY <1>7 DEF PrepareExecutionWorkspace, At
      <3>2. CASE CopyRaises(Job(r)) \/ written = "none"
        BY <1>7, <3>1, <3>2 DEF PrepareExecutionWorkspace
      <3>3. CASE ~(CopyRaises(Job(r)) \/ written = "none")
        BY <1>7, <3>1, <3>3 DEF PrepareExecutionWorkspace
      <3> QED BY <3>2, <3>3
    <2>2. CASE Left(r)
      BY <1>1, <1>2, <2>1, <2>2, Leaves, CachesStayAtEnd
    <2>3. CASE written # "none" /\ Become(r, t) /\ UNCHANGED slots
      <3>1. t \in RunRec /\ t.pc = "syntax" /\ t.job = w.job /\ t.site = w.site
            /\ t.text = WantedText(w.job)
        BY <1>1, <1>2, <2>3 DEF RunRec, WorkspaceText, WantedText, Job
      <3> HIDE DEF t
      <3>2. RunFits(t, guiImage')
        BY <1>1, <1>2, <2>1, <3>1 DEF RunFits, PlanFits, TextFits, SiteFits
      <3>3. Local'
        BY <1>1, <1>2, <2>1, <2>3, <3>1, <3>2, Continues
      <3> QED BY <1>2, <2>1, <2>3, <3>1, <3>3, CachesStay
    <2> QED BY <2>1, <2>2, <2>3
  <1>8. CASE AcquireLease(r)
    <2> DEFINE t == Advanced([w EXCEPT !.plan = Plan(w.job)])
    <2>1. /\ w.pc = "waiting" /\ active < Slots
          /\ active' = active + 1 /\ UNCHANGED <<leaked, doubled>> /\ Become(r, t)
      BY <1>8 DEF AcquireLease, At, Job
    <2>2. t \in RunRec /\ t.pc \in PlanStep /\ t.pc \in Leased /\ RunFits(t, guiImage)
      BY <1>1, <2>1, AcquireFits
    <2>3. t.pc \notin CacheSteps
      BY <2>2 DEF PlanStep, CacheSteps, StoreSteps
    <2> HIDE DEF t
    <2>4. run' \in [Runs -> RunRec] /\ run'[r] = t /\ \A o \in Runs \ {r} : run'[o] = run[o]
      BY <2>1, <2>2 DEF Local, Become
    <2>5. RunsFit' /\ Holding' = Holding \cup {r}
      BY <1>1, <2>2, <2>4, Moves
    <2>6. r \notin Holding /\ IsFiniteSet(Holding)
      BY <1>2, <2>1 DEF Local, Holding
    <2>7. IsFiniteSet(Holding') /\ Cardinality(Holding') = Cardinality(Holding) + 1
      BY <2>5, <2>6, FS_AddElement
    <2>8. PICK n \in Nat : n = Cardinality(Holding)
      BY <2>6, FS_CardinalityType
    <2>9. /\ active \in Nat /\ leaked \in Nat /\ doubled \in Nat /\ Slots \in Nat
          /\ active =< n + leaked /\ n + leaked =< active + doubled
      BY <2>8, ExecutionAssumption DEF Local, LeaseCoversRun
    <2>10. Cardinality(Holding)' = n + 1
      BY <2>7, <2>8
    <2>11. LeaseCoversRun' /\ active' \in Nat
      BY <2>1, <2>9, <2>10 DEF LeaseCoversRun
    <2>12. Local'
      BY <2>1, <2>4, <2>5, <2>7, <2>9, <2>11 DEF Local
    <2> QED BY <1>2, <2>1, <2>3, <2>12, CachesStay
  <1>9. ASSUME NEW s \in Settings, CheckSyntax(r, s)
        PROVE  Local' /\ CachesFit'
    <2>1. w.pc = "syntax" /\ (Left(r) \/ Continue(r, "waiting"))
      BY <1>9 DEF CheckSyntax, At
    <2>2. RunFits([w EXCEPT !.pc = "waiting"], guiImage')
      BY <1>1, <1>2, <2>1 DEF RunRec, RunFits, PlanFits, TextFits, SiteFits
    <2> QED BY <1>1, <1>2, <2>1, <2>2, Goes, Leaves, CachesStayAtEnd
  <1> QED BY <1>3, <1>4, <1>5, <1>6, <1>7, <1>8, <1>9 DEF Run, PrepareLiveRun

\* A run that goes on with its plan unchanged.
LEMMA AdvancesAsItIs ==
    ASSUME Local, CachesFit, UNCHANGED <<cache, shaky>>, guiImage \subseteq guiImage',
           NEW r \in Runs, Advance(r),
           run[r].pc \in {"health", "probing", "inspect", "tool", "compiling", "gui", "building"},
           run[r].pc \in {"gui", "building"} => run[r].job.image \in guiImage'
    PROVE  Local' /\ CachesFit'
  <1>1. run[r].pc \in Leased /\ run[r].pc \in Advancing /\ run[r].pc \notin PackageSteps \cup StoreSteps
    BY DEF Leased, Advancing, PackageSteps, StoreSteps
  <1>2. run[r] \in RunRec /\ run[r].site \subseteq Packages(run[r].job)
    BY <1>1, Works
  <1>3. Become(r, Advanced(run[r])) /\ UNCHANGED slots
    BY DEF Advance
  <1>4. Local' /\ Advanced(run[r]).pc \notin CacheSteps
    BY <1>1, <1>2, <1>3, Advances
  <1> QED BY <1>1, <1>3, <1>4, CachesStay

\* A run at work that ends, or fails, without storing packages.
LEMMA EndsOrFails ==
    ASSUME Local, CachesFit, UNCHANGED <<cache, shaky>>, guiImage \subseteq guiImage',
           NEW r \in Runs, Over(r) \/ Failed(r),
           run[r].pc \in Leased, run[r].pc \notin StoreSteps
    PROVE  Local' /\ CachesFit'
  BY Ends, Fails, CachesStayAtEnd

LEMMA RuntimeAndStart ==
    ASSUME Local, CachesFit, UNCHANGED <<cache, shaky>>, NEW r \in Runs,
           \/ CheckHealth(r) \/ HealthAnswer(r) \/ EnsureGuiImage(r)
           \/ \E ok \in BOOLEAN : \/ InspectImage(r, ok) \/ FindTool(r, ok) \/ Compile(r, ok)
                                  \/ BuildGuiImage(r, ok) \/ StartLive(r, ok)
                                  \/ LiveEnds(r, ok) \/ ReportFailure(r, ok)
           \/ Raise(r) \/ Start(r) \/ Execute(r)
    PROVE  Local' /\ CachesFit' /\ guiImage \subseteq guiImage'
  <1> DEFINE w == run[r]
             Calm == {"health", "probing", "inspect", "tool", "compiling", "gui", "building",
                      "raise", "starting", "handed", "running", "failed"}
  <1>1. Calm \subseteq Leased /\ Calm \cap CacheSteps = {} /\ Calm \cap StoreSteps = {}
        /\ Leased \subseteq Place
    BY DEF Leased, Place, CacheSteps, StoreSteps
  <1>2. ASSUME w.pc \in Calm, UNCHANGED guiImage, Over(r) \/ Failed(r)
        PROVE  Local' /\ CachesFit' /\ guiImage \subseteq guiImage'
    BY <1>1, <1>2, EndsOrFails
  <1>3. ASSUME w.pc \in {"health", "inspect", "tool", "compiling", "gui"}, UNCHANGED guiImage,
               Advance(r), w.pc = "gui" => w.job.image \in guiImage
        PROVE  Local' /\ CachesFit' /\ guiImage \subseteq guiImage'
    BY <1>3, AdvancesAsItIs
  <1>4. ASSUME NEW where \in {"probing", "building", "running"}, UNCHANGED guiImage,
               Continue(r, where),
               \/ where = "probing" /\ w.pc = "health"
               \/ where = "building" /\ w.pc = "gui"
               \/ where = "running" /\ w.pc = "handed"
        PROVE  Local' /\ CachesFit' /\ guiImage \subseteq guiImage'
    <2> DEFINE t == [w EXCEPT !.pc = where]
    <2>1. w.pc \in Leased /\ where \in Leased /\ where \in Place
          /\ w.pc \notin StoreSteps /\ where \notin CacheSteps
      BY <1>1, <1>4
    <2>2. /\ w \in RunRec /\ w.job \in Given
          /\ PlanFits(w) /\ SiteFits(w, guiImage)
          /\ w.text = WantedText(w.job)
          /\ w.site \subseteq Packages(w.job)
      BY <2>1, Works
    <2>3. /\ t.pc = where /\ t.plan = w.plan /\ t.job = w.job /\ t.text = w.text
          /\ t.site = w.site /\ t.todo = w.todo /\ t.doubt = w.doubt
      BY <2>2 DEF RunRec
    <2> HIDE DEF t
    <2>4. PlanFits(t)
      BY <1>4, <2>2, <2>3 DEF PlanFits, PackageSteps
    <2>5. TextFits(t)
      BY <1>4, <2>2, <2>3 DEF TextFits
    <2>6. SiteFits(t, guiImage')
      BY <1>4, <2>2, <2>3 DEF SiteFits, StoreSteps, After
    <2>7. RunFits(t, guiImage')
      BY <2>2, <2>3, <2>4, <2>5, <2>6 DEF RunFits
    <2> QED BY <1>4, <2>1, <2>7, Goes DEF t
  <1>5. CASE CheckHealth(r)
    <2>1. w.pc = "health" /\ UNCHANGED guiImage
          /\ (Continue(r, "probing") \/ Advance(r) \/ Failed(r))
      BY <1>5 DEF CheckHealth, At, shared
    <2> QED BY <1>2, <1>3, <1>4, <2>1
  <1>6. CASE HealthAnswer(r)
    <2>1. w.pc = "probing" /\ UNCHANGED guiImage
      BY <1>6 DEF HealthAnswer, At
    <2>2. CASE up
      <3> DEFINE s == [w EXCEPT !.probed = 0]
      <3>1. Become(r, Advanced(s)) /\ UNCHANGED slots
        BY <1>6, <2>2 DEF HealthAnswer
      <3>2. w \in RunRec /\ w.site \subseteq Packages(w.job)
        BY <1>1, <2>1, Works
      <3>3. /\ s \in RunRec /\ s.pc = w.pc /\ s.plan = w.plan /\ s.job = w.job
            /\ s.text = w.text /\ s.doubt = w.doubt /\ s.site = w.site
        BY <3>2 DEF RunRec
      <3>4. w.pc \in Advancing /\ w.pc \notin PackageSteps /\ w.pc \notin StoreSteps
        BY <2>1 DEF Advancing, PackageSteps, StoreSteps
      <3> HIDE DEF s
      <3>5. Local' /\ Advanced(s).pc \notin CacheSteps
        BY <2>1, <3>1, <3>2, <3>3, <3>4, Advances
      <3> QED BY <2>1, <3>1, <3>4, <3>5, CachesStay
    <2>3. CASE ~up
      BY <1>2, <1>6, <2>1, <2>3 DEF HealthAnswer
    <2> QED BY <2>2, <2>3
  <1>7. CASE EnsureGuiImage(r)
    <2>1. /\ w.pc = "gui" /\ UNCHANGED guiImage
          /\ \/ w.job.image \in guiImage /\ Advance(r)
             \/ Continue(r, "building")
             \/ Failed(r)
      BY <1>7 DEF EnsureGuiImage, At, shared, Job
    <2> QED BY <1>2, <1>3, <1>4, <2>1
  <1>8. ASSUME NEW ok \in BOOLEAN, InspectImage(r, ok) \/ FindTool(r, ok) \/ Compile(r, ok)
        PROVE  Local' /\ CachesFit' /\ guiImage \subseteq guiImage'
    <2>1. /\ w.pc \in {"inspect", "tool", "compiling"} /\ UNCHANGED guiImage
          /\ Advance(r) \/ Failed(r) \/ Over(r)
      BY <1>8 DEF InspectImage, FindTool, Compile, At, shared, Over
    <2> QED BY <1>2, <1>3, <2>1
  <1>9. ASSUME NEW ok \in BOOLEAN, BuildGuiImage(r, ok)
        PROVE  Local' /\ CachesFit' /\ guiImage \subseteq guiImage'
    <2>1. w.pc = "building"
      BY <1>9 DEF BuildGuiImage, At
    <2>2. CASE ok /\ up
      <3>1. Advance(r) /\ guiImage' = guiImage \cup {w.job.image}
        BY <1>9, <2>2 DEF BuildGuiImage, Job
      <3> QED BY <2>1, <3>1, AdvancesAsItIs
    <2>3. CASE ~(ok /\ up)
      <3>1. Failed(r) /\ UNCHANGED guiImage
        BY <1>9, <2>3 DEF BuildGuiImage
      <3> QED BY <1>2, <2>1, <3>1
    <2> QED BY <2>2, <2>3
  <1>10. CASE Start(r)
    <2> DEFINE where == IF Job(r).live THEN "handed" ELSE "running"
               site == Reachable(Job(r), w.site)
               t == [w EXCEPT !.pc = where, !.site = site]
    <2>1. /\ w.pc = "starting" /\ UNCHANGED <<guiImage, slots>>
          /\ Become(r, t) /\ where \in {"handed", "running"}
      BY <1>10 DEF Start, At, shared
    <2>2. /\ w \in RunRec /\ w.job \in Given
          /\ SiteFits(w, guiImage)
          /\ w.text = WantedText(w.job)
          /\ w.site \subseteq Packages(w.job)
      BY <1>1, <2>1, Works
    <2>3. site \subseteq Packages(w.job) /\ (~Windowed(w.job) => site = w.site)
          /\ site \in SUBSET Installed
      BY <2>2 DEF Reachable, Job, RunRec
    <2>4. where \in Place /\ where \in Leased /\ where \notin CacheSteps /\ where \in After
          /\ where \notin PackageSteps /\ w.pc \in After
      BY <1>1, <2>1 DEF After, PackageSteps
    <2> HIDE DEF where, site
    <2>5. /\ t \in RunRec /\ t.pc = where /\ t.job = w.job /\ t.text = w.text
          /\ t.site = site /\ t.doubt = w.doubt
      BY <2>2, <2>3, <2>4 DEF RunRec
    <2> HIDE DEF t
    <2>6. PlanFits(t)
      BY <2>1, <2>4, <2>5 DEF PlanFits
    <2>7. TextFits(t)
      BY <2>1, <2>2, <2>4, <2>5 DEF TextFits
    <2>8. SiteFits(t, guiImage')
      BY <2>1, <2>2, <2>3, <2>4, <2>5 DEF SiteFits, CacheSteps, StoreSteps
    <2>9. RunFits(t, guiImage')
      BY <2>2, <2>5, <2>6, <2>7, <2>8 DEF RunFits
    <2>10. Local'
      BY <1>1, <2>1, <2>4, <2>5, <2>9, Continues
    <2> QED BY <1>1, <2>1, <2>4, <2>5, <2>10, CachesStay
  <1>11. ASSUME NEW ok \in BOOLEAN, StartLive(r, ok)
         PROVE  Local' /\ CachesFit' /\ guiImage \subseteq guiImage'
    <2>1. w.pc = "handed" /\ UNCHANGED guiImage /\ (Continue(r, "running") \/ Over(r))
      BY <1>11 DEF StartLive, At, shared, Over
    <2> QED BY <1>2, <1>4, <2>1
  <1>12. ASSUME NEW ok \in BOOLEAN, LiveEnds(r, ok) \/ ReportFailure(r, ok)
         PROVE  Local' /\ CachesFit' /\ guiImage \subseteq guiImage'
    <2>1. w.pc \in {"running", "failed"} /\ UNCHANGED guiImage /\ Over(r)
      BY <1>12 DEF LiveEnds, ReportFailure, At, shared, Over
    <2> QED BY <1>2, <2>1
  <1>13. CASE Raise(r) \/ Execute(r)
    <2>1. w.pc \in {"raise", "running"} /\ UNCHANGED guiImage /\ Over(r)
      BY <1>13 DEF Raise, Execute, At, shared, Over
    <2> QED BY <1>2, <2>1
  <1> QED BY <1>5, <1>6, <1>7, <1>8, <1>9, <1>10, <1>11, <1>12, <1>13

\* What the others keep when a run moves: it may only bring them into doubt.
Kept(o) == /\ run'[o].pc = run[o].pc /\ run'[o].job = run[o].job
           /\ run'[o].todo = run[o].todo /\ run'[o].torn = run[o].torn
           /\ run[o].doubt => run'[o].doubt

\* The threads that store packages, when one run moves.
LEMMA StoringMoves ==
    ASSUME NEW r \in Runs, \A o \in Runs \ {r} : Kept(o)
    PROVE  /\ \A k, o : o \in Storing(k)' <=>
                 IF o = r THEN run'[r].pc \in StoreSteps /\ CacheKey(run'[r].job) = k
                 ELSE o \in Storing(k)
           /\ \A k, o : o \in Storing(k) <=>
                 o \in Runs /\ run[o].pc \in StoreSteps /\ CacheKey(run[o].job) = k
           /\ Keys' = Keys
  <1>1. \A k, o : o \in Storing(k) <=>
          o \in Runs /\ run[o].pc \in StoreSteps /\ CacheKey(run[o].job) = k
    BY DEF Storing, StoreSteps, Job
  <1>2. \A k, o : o \in Storing(k)' <=>
          o \in Runs /\ run'[o].pc \in StoreSteps /\ CacheKey(run'[o].job) = k
    BY DEF Storing, StoreSteps, Job
  <1>3. ASSUME NEW k, NEW o
        PROVE  o \in Storing(k)' <=>
                 IF o = r THEN run'[r].pc \in StoreSteps /\ CacheKey(run'[r].job) = k
                 ELSE o \in Storing(k)
    <2>1. CASE o = r
      BY <1>2, <2>1
    <2>2. CASE o # r
      <3>1. o \in Runs => run'[o].pc = run[o].pc /\ run'[o].job = run[o].job
        BY <2>2 DEF Kept
      <3> QED BY <1>1, <1>2, <2>2, <3>1
    <2> QED BY <2>1, <2>2
  <1>4. Keys' = Keys
    BY DEF Keys, Given, CacheKey, Marker
  <1> QED BY <1>1, <1>3, <1>4

CacheTypes == cache \in [Keys -> Cache] /\ shaky \in SUBSET Keys

\* A run moves from one state of its own to another.
LEMMA Moved ==
    ASSUME Local, NEW r \in Runs, NEW s \in RunRec, Become(r, s)
    PROVE  run'[r] = s /\ \A o \in Runs \ {r} : run'[o] = run[o] /\ Kept(o)
  BY DEF Local, Become, Kept

\* Restoring leaves the caches alone.
LEMMA RestoringFits ==
    ASSUME Local, CachesFit, CacheTypes, UNCHANGED <<cache, shaky, guiImage>>, NEW r \in Runs,
           EnsurePackages(r) \/ ListCache(r) \/ RestoreCache(r) \/ RestoreEnds(r)
    PROVE  Local' /\ CachesFit'
  <1> DEFINE w == run[r]
             k == CacheKey(w.job)
  <1>1. w.pc \in {"packages", "listing", "restoring"} /\ w.pc \in Leased /\ w.pc \in Advancing
        /\ w.pc \notin StoreSteps /\ w.pc \in PackageSteps /\ guiImage \subseteq guiImage'
    BY DEF EnsurePackages, ListCache, RestoreCache, RestoreEnds, At, Leased, Advancing,
           PackageSteps, StoreSteps
  <1>2. /\ w \in RunRec /\ w.job \in Given
        /\ PlanFits(w) /\ SiteFits(w, guiImage)
        /\ w.text = WantedText(w.job) /\ w.site \subseteq Packages(w.job)
    BY <1>1, Works
  <1>3. k \in Keys /\ Packages(w.job) = PackagesOf(k) /\ Packages(w.job) \in SUBSET Installed
    BY <1>2, GivenFacts
  <1>4. CASE Failed(r) \/ Ended(r)
    BY <1>1, <1>4, EndsOrFails DEF Over
  <1>5. /\ cache[k].has \subseteq PackagesOf(k) /\ cache[k].part \subseteq PackagesOf(k)
        /\ Clean(k) => cache[k].has = PackagesOf(k) /\ cache[k].part = {}
        /\ (w.pc \in {"listing", "restoring"} /\ ~w.doubt) => Clean(k)
    BY <1>3 DEF CachesFit, CacheFits, Clean, Restores, Job
  \* The run goes to t, to list or to restore the cache.
  <1>6. ASSUME NEW t \in RunRec, Become(r, t), UNCHANGED slots, t.pc \in {"listing", "restoring"},
               t.plan = w.plan, t.job = w.job, t.text = w.text, t.site \subseteq Packages(w.job),
               ~t.doubt => Clean(k),
               t.pc = "restoring" =>
                  /\ t.todo \subseteq Packages(w.job)
                  /\ (~t.doubt /\ ~t.torn) => t.site \cup t.todo = Packages(w.job)
        PROVE  Local' /\ CachesFit'
    <2>1. /\ t.pc \in Leased /\ t.pc \in PackageSteps /\ t.pc \notin StoreSteps /\ t.pc \notin After
          /\ t.pc \notin {"copy", "syntax", "waiting", "shown", "handed", "running", "starting"}
          /\ t.pc \in CacheSteps
      BY <1>6 DEF Leased, PackageSteps, StoreSteps, After, CacheSteps
    <2>2. PlanFits(t)
      BY <1>1, <1>2, <1>6, <2>1 DEF PlanFits, PackageSteps
    <2>3. TextFits(t)
      BY <1>2, <1>6, <2>1 DEF TextFits
    <2>4. SiteFits(t, guiImage')
      BY <1>6, <2>1 DEF SiteFits, StoreSteps
    <2>5. RunFits(t, guiImage')
      BY <1>2, <1>6, <2>2, <2>3, <2>4 DEF RunFits
    <2>6. Local'
      BY <1>1, <1>6, <2>1, <2>5, Continues
    <2> QED BY <1>1, <1>6, <2>6, CachesStay
  <1>7. CASE EnsurePackages(r) /\ w.job.needs = {}
    <2>1. Become(r, Advanced(w)) /\ UNCHANGED slots
      BY <1>7 DEF EnsurePackages, Advance, Job
    <2>2. w.site = Packages(w.job)
      BY <1>2, <1>7 DEF Packages
    <2>3. Local' /\ Advanced(w).pc \notin CacheSteps
      BY <1>1, <1>2, <2>1, <2>2, Advances
    <2> QED BY <1>1, <2>1, <2>3, CachesStay
  <1>8. CASE EnsurePackages(r) /\ w.job.needs # {} /\ cache[k].exists
    <2> DEFINE t == [w EXCEPT !.pc = "listing", !.doubt = k \in shaky \/ Storing(k) # {}]
    <2>1. w.pc = "packages" /\ Become(r, t) /\ UNCHANGED slots
      BY <1>8 DEF EnsurePackages, Job, At
    <2>2. /\ t \in RunRec /\ t.pc = "listing" /\ t.plan = w.plan /\ t.job = w.job
          /\ t.text = w.text /\ t.site = w.site
          /\ ~t.doubt => Clean(k)
      BY <1>2, <1>8 DEF RunRec, Place, Leased, Clean
    <2> HIDE DEF t
    <2> QED BY <1>2, <1>6, <2>1, <2>2
  <1>9. CASE EnsurePackages(r) /\ Continue(r, "installing")
    <2> DEFINE t == [w EXCEPT !.pc = "installing"]
    <2>1. w.pc = "packages"
      BY <1>9 DEF EnsurePackages, At
    <2>2. /\ t.pc = "installing" /\ t.plan = w.plan /\ t.job = w.job
          /\ t.text = w.text /\ t.site = w.site
      BY <1>2 DEF RunRec
    <2> HIDE DEF t
    <2>3. RunFits(t, guiImage')
      <3>1. PlanFits(t)
        BY <1>1, <1>2, <2>2 DEF PlanFits, PackageSteps
      <3>2. TextFits(t)
        BY <1>2, <2>2 DEF TextFits
      <3>3. SiteFits(t, guiImage')
        BY <1>2, <2>2 DEF SiteFits, StoreSteps, After
      <3> QED BY <1>2, <2>2, <3>1, <3>2, <3>3 DEF RunFits
    <2>4. "installing" \in Leased /\ "installing" \notin CacheSteps /\ "installing" \in Place
      BY DEF Leased, CacheSteps, StoreSteps, Place
    <2> QED BY <1>1, <1>9, <2>3, <2>4, Goes DEF t
  <1>10. CASE ListCache(r) /\ cache[k].exists
    <2> DEFINE t == [w EXCEPT !.pc = "restoring", !.todo = cache[k].has \cup cache[k].part]
    <2>1. w.pc = "listing" /\ Become(r, t) /\ UNCHANGED slots
      BY <1>10 DEF ListCache, Job, At
    <2>2. cache[k].has \cup cache[k].part \in SUBSET Installed
      BY <1>3 DEF CacheTypes, Cache
    <2>3. /\ t \in RunRec /\ t.pc = "restoring" /\ t.plan = w.plan /\ t.job = w.job
          /\ t.text = w.text /\ t.site = w.site /\ t.doubt = w.doubt
          /\ t.todo = cache[k].has \cup cache[k].part
      BY <1>2, <2>2 DEF RunRec, Place, Leased
    <2> HIDE DEF t
    <2>4. t.todo \subseteq Packages(w.job) /\ (~t.doubt => Clean(k) /\ t.todo = Packages(w.job))
      BY <1>3, <1>5, <2>1, <2>3
    <2> QED BY <1>2, <1>6, <2>1, <2>3, <2>4
  <1>11. CASE RestoreCache(r)
    <2>1. w.pc = "restoring" /\ UNCHANGED slots
      BY <1>11 DEF RestoreCache, At
    <2>2. PICK p \in w.todo :
             \/ p \in cache[k].has /\ Become(r, [Handle(r, p) EXCEPT !.site = @ \cup {p}])
             \/ p \in cache[k].part /\ Become(r, Handle(r, p))
             \/ p \notin cache[k].has /\ Become(r, [Handle(r, p) EXCEPT !.torn = TRUE])
      BY <1>11 DEF RestoreCache, Job
    <2> DEFINE h == Handle(r, p)
    <2>3. /\ h \in RunRec /\ h.pc = w.pc /\ h.plan = w.plan /\ h.job = w.job /\ h.text = w.text
          /\ h.site = w.site /\ h.doubt = w.doubt /\ h.torn = w.torn /\ h.todo = w.todo \ {p}
      BY <1>2 DEF Handle, RunRec
    <2>4. /\ w.todo \subseteq Packages(w.job) /\ p \in Packages(w.job) /\ p \in Installed
          /\ (~w.doubt /\ ~w.torn) => w.site \cup w.todo = Packages(w.job)
          /\ ~w.doubt => Clean(k) /\ cache[k].part = {}
      BY <1>2, <1>3, <1>5, <2>1, <2>2 DEF SiteFits
    <2> HIDE DEF h
    <2>5. CASE p \in cache[k].has /\ Become(r, [h EXCEPT !.site = @ \cup {p}])
      <3> DEFINE t == [h EXCEPT !.site = @ \cup {p}]
      <3>1. /\ t \in RunRec /\ t.pc = "restoring" /\ t.plan = w.plan /\ t.job = w.job
            /\ t.text = w.text /\ t.site = w.site \cup {p} /\ t.doubt = w.doubt
            /\ t.torn = w.torn /\ t.todo = w.todo \ {p}
        BY <2>1, <2>3, <2>4 DEF RunRec
      <3>2. t.site \cup t.todo = w.site \cup w.todo /\ t.site \subseteq Packages(w.job)
        BY <1>2, <2>2, <2>4, <3>1
      <3>3. t.todo \subseteq Packages(w.job)
        BY <2>4, <3>1
      <3>4. Become(r, t)
        BY <2>5
      <3> HIDE DEF t
      <3> QED BY <1>6, <2>1, <2>4, <3>1, <3>2, <3>3, <3>4
    <2>6. CASE p \in cache[k].part /\ Become(r, h)
      <3>1. w.doubt /\ h.todo \subseteq Packages(w.job)
        BY <2>3, <2>4, <2>6
      <3> QED BY <1>2, <1>6, <2>1, <2>3, <2>6, <3>1
    <2>7. CASE Become(r, [h EXCEPT !.torn = TRUE])
      <3> DEFINE t == [h EXCEPT !.torn = TRUE]
      <3>1. /\ t \in RunRec /\ t.pc = "restoring" /\ t.plan = w.plan /\ t.job = w.job
            /\ t.text = w.text /\ t.site = w.site /\ t.doubt = w.doubt
            /\ t.torn /\ t.todo = w.todo \ {p}
        BY <2>1, <2>3 DEF RunRec
      <3>2. t.todo \subseteq Packages(w.job) /\ Become(r, t)
        BY <2>4, <2>7, <3>1
      <3> HIDE DEF t
      <3> QED BY <1>2, <1>6, <2>1, <2>4, <3>1, <3>2
    <2> QED BY <2>2, <2>5, <2>6, <2>7 DEF h
  <1>12. CASE RestoreEnds(r) /\ ~w.torn
    <2>1. w.pc = "restoring" /\ w.todo = {} /\ Become(r, Advanced(w)) /\ UNCHANGED slots
      BY <1>12 DEF RestoreEnds, Advance, At
    <2>2. ~w.doubt => w.site = Packages(w.job)
      BY <1>2, <1>12, <2>1 DEF SiteFits
    <2>3. w.pc \notin {"gui", "building"}
      BY <2>1
    <2>4. Local' /\ Advanced(w).pc \notin CacheSteps
      BY <1>1, <1>2, <2>1, <2>2, <2>3, Advances
    <2> QED BY <1>1, <2>1, <2>4, CachesStay
  <1>13. EnsurePackages(r) =>
           \/ w.job.needs = {}
           \/ w.job.needs # {} /\ cache[k].exists
           \/ Continue(r, "installing")
           \/ Failed(r)
    BY DEF EnsurePackages, Job
  <1>14. ListCache(r) => cache[k].exists \/ Ended(r)
    BY DEF ListCache, Job
  <1>15. RestoreEnds(r) => ~w.torn \/ Ended(r)
    BY DEF RestoreEnds
  <1> QED BY <1>4, <1>7, <1>8, <1>9, <1>10, <1>11, <1>12, <1>13, <1>14, <1>15

\* The caches of other keys, when one run works on its own.
LEMMA OtherCaches ==
    ASSUME CachesFit, NEW r \in Runs, \A o \in Runs \ {r} : Kept(o),
           run'[r].pc \notin CacheSteps \/ run'[r].job = run[r].job,
           NEW k \in Keys, k # CacheKey(run[r].job),
           cache'[k] = cache[k], k \in shaky' <=> k \in shaky
    PROVE  CacheFits(k)'
  <1>1. /\ \A o : o \in Storing(k)' <=>
              IF o = r THEN run'[r].pc \in StoreSteps /\ CacheKey(run'[r].job) = k
              ELSE o \in Storing(k)
        /\ \A o : o \in Storing(k) <=>
              o \in Runs /\ run[o].pc \in StoreSteps /\ CacheKey(run[o].job) = k
    BY StoringMoves
  <1>2. run'[r].pc \in StoreSteps \cup {"listing", "restoring"} => CacheKey(run'[r].job) # k
    BY DEF CacheSteps
  <1>3. Storing(k)' = Storing(k) /\ r \notin Storing(k)
    BY <1>1, <1>2
  <1>4. \A o \in Storing(k) : Kept(o)
    BY <1>1, <1>3
  <1>5. CacheFits(k) /\ (Clean(k)' <=> Clean(k))
    BY <1>3 DEF CachesFit, Clean
  <1>6. \A o \in Runs : (Restores(o, k)' /\ ~run'[o].doubt) => Clean(k)'
    <2>1. \A o \in Runs \ {r} : (Restores(o, k)' /\ ~run'[o].doubt) => Clean(k)
      BY <1>5 DEF Kept, Restores, Job, CacheFits
    <2>2. ~Restores(r, k)'
      BY <1>2 DEF Restores, Job
    <2> QED BY <1>5, <2>1, <2>2
  <1> QED BY <1>3, <1>4, <1>5, <1>6 DEF CacheFits, At, Kept

\* Nobody without doubt restores a cache that is being stored.
LEMMA StoredAlone ==
    ASSUME CachesFit, NEW r \in Runs, run[r].pc \in StoreSteps, NEW k \in Keys,
           k = CacheKey(run[r].job), \A o \in Runs \ {r} : Kept(o),
           run'[r].pc \notin {"listing", "restoring"}
    PROVE  \A o \in Runs : (Restores(o, k)' /\ ~run'[o].doubt) => FALSE
  <1>1. r \in Storing(k)
    BY DEF Storing, StoreSteps, Job
  <1>2. \A o \in Runs : ~(Restores(o, k) /\ ~run[o].doubt)
    BY <1>1 DEF CachesFit, CacheFits, Clean
  <1> QED BY <1>2 DEF Kept, Restores, Job

LEMMA InstallFits ==
    ASSUME Local, CachesFit, CacheTypes, UNCHANGED <<cache, guiImage>>, NEW r \in Runs,
           NEW ok \in BOOLEAN, Install(r, ok)
    PROVE  Local' /\ CachesFit'
  <1> DEFINE w == run[r]
  <1>1. w.pc = "installing" /\ w.pc \in Leased /\ w.pc \notin StoreSteps /\ w.pc \in PackageSteps
        /\ guiImage \subseteq guiImage'
    BY DEF Install, At, Leased, PackageSteps, StoreSteps
  <1>2. /\ w \in RunRec /\ w.job \in Given
        /\ PlanFits(w) /\ SiteFits(w, guiImage)
        /\ w.text = WantedText(w.job)
    BY <1>1, Works
  <1>3. PICK k \in Keys : /\ k = CacheKey(w.job)
                          /\ Packages(w.job) = PackagesOf(k) /\ Packages(w.job) \in SUBSET Installed
    BY <1>2, GivenFacts
  <1>4. CASE ~ok
    <2>1. Failed(r) /\ UNCHANGED shaky
      BY <1>4 DEF Install
    <2> QED BY <1>1, <2>1, EndsOrFails
  <1>5. CASE ok
    <2> DEFINE t == Stores(r)
               Doubting(o) == [run[o] EXCEPT !.doubt = TRUE]
               Now(o) == IF o = r THEN t ELSE IF Restores(o, k) THEN Doubting(o) ELSE run[o]
    <2>1. /\ run' = [o \in Runs |-> Now(o)] /\ UNCHANGED slots
          /\ shaky' = IF Storing(k) = {} THEN shaky \ {k} ELSE shaky \cup {k}
      BY <1>3, <1>5 DEF Install, Job
    <2>2. cache[k].has \cup cache[k].part \in SUBSET Installed
      BY <1>3 DEF CacheTypes, Cache
    <2>3. /\ t \in RunRec /\ t.plan = w.plan /\ t.job = w.job /\ t.text = w.text
          /\ t.site = Packages(w.job)
          /\ t.pc \in {"clearing", "making"}
      BY <1>2, <1>3, <2>2 DEF Stores, Job, RunRec, Place, Leased
    <2>4. t.pc \in StoreSteps /\ t.pc \in Leased /\ t.pc \in PackageSteps /\ t.pc # "storing"
          /\ t.pc \notin {"listing", "restoring"} /\ t.pc \notin After
      BY <2>3 DEF StoreSteps, Leased, PackageSteps, After
    <2> HIDE DEF t
    <2>5. RunFits(t, guiImage')
      <3>1. PlanFits(t)
        BY <1>1, <1>2, <2>3, <2>4 DEF PlanFits, PackageSteps
      <3>2. TextFits(t)
        BY <1>2, <2>3, <2>4 DEF TextFits
      <3>3. SiteFits(t, guiImage')
        BY <2>3, <2>4 DEF SiteFits, After
      <3> QED BY <1>2, <2>3, <3>1, <3>2, <3>3 DEF RunFits
    <2>6. ASSUME NEW o \in Runs \ {r}
          PROVE  /\ run'[o] = run[o] \/ run'[o] = Doubting(o)
                 /\ run'[o] \in RunRec /\ Kept(o)
                 /\ Restores(o, k) => run'[o].doubt
      <3>1. run'[o] = IF Restores(o, k) THEN Doubting(o) ELSE run[o]
        BY <2>1
      <3>2. run[o] \in RunRec
        BY DEF Local
      <3> QED BY <3>1, <3>2 DEF RunRec, Kept
    <2>7. run'[r] = t
      <3> HIDE DEF Now
      <3>1. run'[r] = Now(r)
        BY <2>1
      <3> QED BY <3>1 DEF Now
    <2>8. run' \in [Runs -> RunRec]
      <3>1. \A o \in Runs : run'[o] \in RunRec
        BY <2>3, <2>6, <2>7
      <3> HIDE DEF Now
      <3> QED BY <2>1, <3>1
    <2> HIDE DEF Now
    <2>9. Local'
      BY <1>1, <2>1, <2>3, <2>4, <2>5, <2>6, <2>7, <2>8, Stays
    <2>10. /\ \A o : o \in Storing(k)' <=> IF o = r THEN TRUE ELSE o \in Storing(k)
           /\ Keys' = Keys
      BY <1>3, <2>3, <2>4, <2>6, <2>7, StoringMoves
    <2>11. CacheFits(k)'
      <3>1. CacheFits(k)
        BY <1>3 DEF CachesFit
      <3>2. k \notin shaky' => Storing(k)' = {r}
        BY <2>1, <2>10
      <3>3. \A o \in Runs : (Restores(o, k)' /\ ~run'[o].doubt) => FALSE
        <4>1. \A o \in Runs \ {r} : Restores(o, k)' => Restores(o, k)
          BY <2>6 DEF Kept, Restores, Job
        <4>2. ~Restores(r, k)'
          BY <2>4, <2>7 DEF Restores
        <4> QED BY <2>6, <4>1, <4>2
      <3> QED BY <2>4, <2>7, <3>1, <3>2, <3>3 DEF CacheFits, At
    <2>12. ASSUME NEW x \in Keys, x # k
           PROVE  CacheFits(x)'
      <3>1. cache'[x] = cache[x] /\ (x \in shaky' <=> x \in shaky)
        BY <2>1, <2>12
      <3> QED BY <1>3, <2>3, <2>6, <2>7, <2>12, <3>1, OtherCaches
    <2> QED BY <2>9, <2>10, <2>11, <2>12 DEF CachesFit
  <1> QED BY <1>4, <1>5

\* The steps of a store; what one run has to know of its own cache.
LEMMA StoreFits ==
    ASSUME Local, CachesFit, CacheTypes, UNCHANGED guiImage, NEW r \in Runs,
           \/ ClearCache(r) \/ StoreCache(r) \/ StoreEnds(r)
           \/ \E ok \in BOOLEAN : MakeCache(r, ok)
    PROVE  Local' /\ CachesFit' /\ CacheTypes'
  <1> DEFINE w == run[r]
  <1>1. w.pc \in StoreSteps /\ w.pc \in Leased /\ w.pc \in PackageSteps /\ w.pc \in Advancing
        /\ guiImage \subseteq guiImage'
    BY DEF ClearCache, MakeCache, StoreCache, StoreEnds, At, Leased, PackageSteps, StoreSteps,
           Advancing
  <1>2. /\ w \in RunRec /\ w.job \in Given
        /\ PlanFits(w) /\ SiteFits(w, guiImage)
        /\ w.text = WantedText(w.job)
    BY <1>1, Works
  <1>3. PICK k \in Keys : /\ k = CacheKey(w.job)
                          /\ Packages(w.job) = PackagesOf(k) /\ Packages(w.job) \in SUBSET Installed
    BY <1>2, GivenFacts
  <1>4. w.site = PackagesOf(k) /\ (w.pc = "storing" => w.todo \subseteq PackagesOf(k))
    BY <1>1, <1>2, <1>3 DEF SiteFits
  <1>5. /\ cache[k] \in Cache
        /\ cache[k].has \subseteq PackagesOf(k) /\ cache[k].part \subseteq PackagesOf(k)
        /\ ~cache[k].exists => cache[k].has = {} /\ cache[k].part = {}
        /\ k \notin shaky =>
              /\ Storing(k) = {r}
              /\ (w.pc = "storing" /\ ~w.torn) =>
                    /\ cache[k].exists /\ PackagesOf(k) \subseteq cache[k].has \cup w.todo
                    /\ cache[k].part \subseteq w.todo
    <2>1. CacheFits(k) /\ r \in Storing(k)
      BY <1>1, <1>3 DEF CachesFit, Storing, StoreSteps, Job
    <2> QED BY <1>3, <2>1 DEF CacheFits, CacheTypes, At
  \* Each step takes the run to t and its cache to c.
  <1>6. ASSUME NEW t \in RunRec, NEW c \in Cache,
               Become(r, t), UNCHANGED <<slots, shaky>>, cache' = [cache EXCEPT ![k] = c],
               t.pc \in StoreSteps, t.plan = w.plan, t.job = w.job, t.text = w.text, t.site = w.site,
               t.pc = "storing" => t.todo \subseteq PackagesOf(k),
               c.has \subseteq PackagesOf(k), c.part \subseteq PackagesOf(k),
               ~c.exists => c.has = {} /\ c.part = {},
               (k \notin shaky /\ t.pc = "storing" /\ ~t.torn) =>
                  /\ c.exists /\ PackagesOf(k) \subseteq c.has \cup t.todo
                  /\ c.part \subseteq t.todo
        PROVE  Local' /\ CachesFit' /\ CacheTypes'
    <2>1. t.pc \in Leased /\ t.pc \in PackageSteps /\ t.pc \notin {"listing", "restoring"}
          /\ t.pc \notin After
      BY <1>6 DEF StoreSteps, Leased, PackageSteps, After
    <2>2. RunFits(t, guiImage')
      <3>1. PlanFits(t)
        BY <1>1, <1>2, <1>6, <2>1 DEF PlanFits, PackageSteps
      <3>2. TextFits(t)
        BY <1>2, <1>6, <2>1 DEF TextFits
      <3>3. SiteFits(t, guiImage')
        <4>1. t.site = Packages(t.job) /\ (t.pc = "storing" => t.todo \subseteq Packages(t.job))
          BY <1>3, <1>4, <1>6
        <4> QED BY <1>6, <2>1, <4>1 DEF SiteFits, After, StoreSteps
      <3> QED BY <1>2, <1>6, <3>1, <3>2, <3>3 DEF RunFits
    <2>3. Local'
      BY <1>1, <1>6, <2>1, <2>2, Continues
    <2>4. run'[r] = t /\ \A o \in Runs \ {r} : Kept(o)
      BY <1>6, Moved
    <2>5. /\ \A o : o \in Storing(k)' <=> IF o = r THEN TRUE ELSE o \in Storing(k)
          /\ Keys' = Keys
      BY <1>3, <1>6, <2>4, StoringMoves
    <2>6. cache'[k] = c /\ (\A x \in Keys : x # k => cache'[x] = cache[x]) /\ CacheTypes'
      BY <1>3, <1>6, <2>5 DEF CacheTypes
    <2>7. CacheFits(k)'
      <3>1. k \notin shaky => Storing(k)' = {r}
        BY <1>5, <2>5
      <3>2. \A o : k \notin shaky /\ o \in Storing(k)' => o = r
        BY <3>1
      <3>3. \A o \in Runs : (Restores(o, k)' /\ ~run'[o].doubt) => FALSE
        BY <1>1, <1>3, <2>1, <2>4, StoredAlone
      <3> QED BY <1>6, <2>4, <2>6, <3>1, <3>2, <3>3 DEF CacheFits, At
    <2>8. ASSUME NEW x \in Keys, x # k
          PROVE  CacheFits(x)'
      BY <1>3, <1>6, <2>4, <2>6, <2>8, OtherCaches
    <2> QED BY <2>3, <2>5, <2>6, <2>7, <2>8 DEF CachesFit
  \* The store ends, and the run is no more at work on its cache.
  <1>7. ASSUME NEW t \in RunRec, Become(r, t), t.pc \notin CacheSteps, UNCHANGED cache,
               \/ shaky' = shaky \cup {k}
               \/ UNCHANGED shaky /\ w.pc = "storing" /\ w.todo = {} /\ ~w.torn
        PROVE  CachesFit' /\ CacheTypes'
    <2>1. run'[r] = t /\ (\A o \in Runs \ {r} : Kept(o)) /\ t.pc \notin StoreSteps
          /\ t.pc \notin {"listing", "restoring"}
      BY <1>7, Moved DEF CacheSteps
    <2>2. /\ \A o : o \in Storing(k)' <=> IF o = r THEN FALSE ELSE o \in Storing(k)
          /\ Keys' = Keys
      BY <2>1, StoringMoves
    <2>3. CacheFits(k)'
      <3>1. \A o \in Runs : (Restores(o, k)' /\ ~run'[o].doubt) => FALSE
        BY <1>1, <1>3, <2>1, StoredAlone
      <3>2. k \notin shaky' => /\ Storing(k)' = {}
                               /\ cache[k].has = PackagesOf(k) /\ cache[k].part = {}
        <4>1. CASE shaky' = shaky \cup {k}
          BY <4>1
        <4>2. CASE UNCHANGED shaky /\ w.pc = "storing" /\ w.todo = {} /\ ~w.torn
          BY <1>5, <2>2, <4>2
        <4> QED BY <1>7, <4>1, <4>2
      <3> QED BY <1>5, <1>7, <3>1, <3>2 DEF CacheFits
    <2>4. ASSUME NEW x \in Keys, x # k
          PROVE  CacheFits(x)'
      BY <1>3, <1>7, <2>1, <2>4, OtherCaches
    <2> QED BY <1>3, <1>7, <2>2, <2>3, <2>4 DEF CachesFit, CacheTypes
  <1>8. ASSUME StoreRaises(r), UNCHANGED cache
        PROVE  Local' /\ CachesFit' /\ CacheTypes'
    <2>1. Ended(r) /\ shaky' = shaky \cup {k}
      BY <1>3, <1>8 DEF StoreRaises, Job
    <2>2. Idle \in RunRec /\ Idle.pc \notin CacheSteps /\ Become(r, Idle)
      BY <2>1, IdleFits DEF CacheSteps, StoreSteps, Ended
    <2> QED BY <1>1, <1>7, <1>8, <2>1, <2>2, Ends DEF Over
  <1>9. UNCHANGED run => Become(r, w)
    BY DEF Become, Local
  <1>10. ASSUME NEW p \in w.todo
         PROVE  /\ Handle(r, p) \in RunRec
                /\ Handle(r, p).pc = w.pc /\ Handle(r, p).plan = w.plan /\ Handle(r, p).job = w.job
                /\ Handle(r, p).text = w.text /\ Handle(r, p).site = w.site
                /\ Handle(r, p).torn = w.torn /\ Handle(r, p).todo = w.todo \ {p}
    BY <1>2 DEF Handle, RunRec
  <1>11. UNCHANGED cache => cache' = [cache EXCEPT ![k] = cache[k]]
    BY <1>3 DEF CacheTypes
  <1>12. CASE ClearCache(r)
    <2>1. w.pc = "clearing" /\ UNCHANGED <<slots, shaky>>
      BY <1>12 DEF ClearCache, At
    <2>2. ASSUME NEW p \in w.todo, p \in cache[k].has, UNCHANGED run,
                 cache' = [cache EXCEPT ![k].has = @ \ {p}, ![k].part = @ \cup {p}]
          PROVE  Local' /\ CachesFit' /\ CacheTypes'
      <3> DEFINE c == [cache[k] EXCEPT !.has = @ \ {p}, !.part = @ \cup {p}]
      <3>1. /\ c \in Cache /\ c.exists = cache[k].exists
            /\ c.has = cache[k].has \ {p} /\ c.part = cache[k].part \cup {p}
        BY <1>5, <2>2 DEF Cache
      <3>2. cache' = [cache EXCEPT ![k] = c]
        BY <2>2
      <3> HIDE DEF c
      <3> QED BY <1>1, <1>2, <1>5, <1>6, <1>9, <2>1, <2>2, <3>1, <3>2
    <2>3. ASSUME NEW p \in w.todo, p \notin cache[k].has, Become(r, Handle(r, p)),
                 cache' = [cache EXCEPT ![k].part = @ \ {p}]
          PROVE  Local' /\ CachesFit' /\ CacheTypes'
      <3> DEFINE c == [cache[k] EXCEPT !.part = @ \ {p}]
      <3>1. /\ c \in Cache /\ c.exists = cache[k].exists
            /\ c.has = cache[k].has /\ c.part = cache[k].part \ {p}
        BY <1>5 DEF Cache
      <3>2. cache' = [cache EXCEPT ![k] = c]
        BY <2>3
      <3> HIDE DEF c
      <3> QED BY <1>1, <1>5, <1>6, <1>10, <2>1, <2>3, <3>1, <3>2
    <2>4. ASSUME NEW p \in w.todo, Become(r, Handle(r, p)), UNCHANGED cache
          PROVE  Local' /\ CachesFit' /\ CacheTypes'
      BY <1>1, <1>5, <1>6, <1>10, <1>11, <2>1, <2>4
    <2>5. ASSUME Goto(r, "making"),
                 cache' = [cache EXCEPT ![k].exists = cache[k].has \cup cache[k].part # {}]
          PROVE  Local' /\ CachesFit' /\ CacheTypes'
      <3> DEFINE t == [w EXCEPT !.pc = "making"]
                 c == [cache[k] EXCEPT !.exists = cache[k].has \cup cache[k].part # {}]
      <3>1. /\ t \in RunRec /\ t.pc = "making" /\ t.plan = w.plan /\ t.job = w.job
            /\ t.text = w.text /\ t.site = w.site
        BY <1>2 DEF RunRec, Place, Leased
      <3>2. /\ c \in Cache /\ c.exists = (cache[k].has \cup cache[k].part # {})
            /\ c.has = cache[k].has /\ c.part = cache[k].part
        BY <1>5 DEF Cache
      <3>3. cache' = [cache EXCEPT ![k] = c] /\ Become(r, t)
        BY <2>5 DEF Goto
      <3> HIDE DEF t, c
      <3>4. t.pc \in StoreSteps /\ (~c.exists => c.has = {} /\ c.part = {})
        BY <3>1, <3>2 DEF StoreSteps
      <3> QED BY <1>5, <1>6, <2>1, <3>1, <3>2, <3>3, <3>4
    <2>6. \/ \E p \in w.todo :
               \/ /\ p \in cache[k].has /\ UNCHANGED run
                  /\ cache' = [cache EXCEPT ![k].has = @ \ {p}, ![k].part = @ \cup {p}]
               \/ /\ p \notin cache[k].has /\ Become(r, Handle(r, p))
                  /\ cache' = [cache EXCEPT ![k].part = @ \ {p}]
               \/ Become(r, Handle(r, p)) /\ UNCHANGED cache
          \/ /\ cache' = [cache EXCEPT ![k].exists = cache[k].has \cup cache[k].part # {}]
             /\ Goto(r, "making")
      BY <1>3, <1>12 DEF ClearCache, Job
    <2> QED BY <2>2, <2>3, <2>4, <2>5, <2>6
  <1>13. CASE StoreCache(r)
    <2>1. w.pc = "storing" /\ UNCHANGED <<slots, shaky>>
      BY <1>13 DEF StoreCache, At
    <2>2. ASSUME NEW p \in w.todo
          PROVE  p \in PackagesOf(k) /\ p \in Installed
      BY <1>3, <1>4, <2>1, <2>2
    <2>3. ASSUME NEW p \in w.todo, UNCHANGED run,
                 cache' = [cache EXCEPT ![k] = [exists |-> TRUE, has |-> @.has \ {p},
                                                part |-> @.part \cup {p}]]
          PROVE  Local' /\ CachesFit' /\ CacheTypes'
      <3> DEFINE c == [exists |-> TRUE, has |-> cache[k].has \ {p}, part |-> cache[k].part \cup {p}]
      <3>1. /\ c \in Cache /\ c.exists
            /\ c.has = cache[k].has \ {p} /\ c.part = cache[k].part \cup {p}
        BY <1>5, <2>2 DEF Cache
      <3>2. cache' = [cache EXCEPT ![k] = c]
        BY <2>3
      <3> HIDE DEF c
      <3>3. /\ c.has \subseteq PackagesOf(k) /\ c.part \subseteq PackagesOf(k)
            /\ (k \notin shaky /\ ~w.torn) =>
                  PackagesOf(k) \subseteq c.has \cup w.todo /\ c.part \subseteq w.todo
        BY <1>5, <2>1, <2>2, <3>1
      <3> QED BY <1>1, <1>2, <1>4, <1>6, <1>9, <2>1, <2>3, <3>1, <3>2, <3>3
    <2>4. ASSUME NEW p \in w.todo, p \in cache[k].part, Become(r, Handle(r, p)),
                 cache' = [cache EXCEPT ![k].has = @ \cup {p}, ![k].part = @ \ {p}]
          PROVE  Local' /\ CachesFit' /\ CacheTypes'
      <3> DEFINE c == [cache[k] EXCEPT !.has = @ \cup {p}, !.part = @ \ {p}]
      <3>1. /\ c \in Cache /\ c.exists
            /\ c.has = cache[k].has \cup {p} /\ c.part = cache[k].part \ {p}
        BY <1>5, <2>2, <2>4 DEF Cache
      <3>2. cache' = [cache EXCEPT ![k] = c]
        BY <2>4
      <3> HIDE DEF c
      <3>3. /\ c.has \subseteq PackagesOf(k) /\ c.part \subseteq PackagesOf(k)
            /\ (k \notin shaky /\ ~w.torn) =>
                  /\ PackagesOf(k) \subseteq c.has \cup (w.todo \ {p})
                  /\ c.part \subseteq w.todo \ {p}
        BY <1>5, <2>1, <2>2, <3>1
      <3>4. w.todo \ {p} \subseteq PackagesOf(k)
        BY <1>4, <2>1
      <3> QED BY <1>1, <1>6, <1>10, <2>1, <2>4, <3>1, <3>2, <3>3, <3>4
    <2>5. ASSUME NEW p \in w.todo, k \in shaky, Become(r, Handle(r, p)), UNCHANGED cache
          PROVE  Local' /\ CachesFit' /\ CacheTypes'
      <3>1. w.todo \ {p} \subseteq PackagesOf(k)
        BY <1>4, <2>1
      <3> QED BY <1>1, <1>5, <1>6, <1>10, <1>11, <2>1, <2>5, <3>1
    <2>6. ASSUME NEW p \in w.todo, Become(r, [Handle(r, p) EXCEPT !.torn = TRUE]), UNCHANGED cache
          PROVE  Local' /\ CachesFit' /\ CacheTypes'
      <3> DEFINE t == [Handle(r, p) EXCEPT !.torn = TRUE]
      <3>1. /\ t \in RunRec /\ t.pc = w.pc /\ t.plan = w.plan /\ t.job = w.job
            /\ t.text = w.text /\ t.site = w.site /\ t.torn /\ t.todo = w.todo \ {p}
        BY <1>10 DEF RunRec
      <3>2. Become(r, t) /\ t.todo \subseteq PackagesOf(k)
        BY <1>4, <2>1, <2>6, <3>1
      <3> HIDE DEF t
      <3> QED BY <1>1, <1>5, <1>6, <1>11, <2>1, <2>6, <3>1, <3>2
    <2>7. \E p \in w.todo :
            \/ /\ UNCHANGED run
               /\ cache' = [cache EXCEPT ![k] = [exists |-> TRUE, has |-> @.has \ {p},
                                                part |-> @.part \cup {p}]]
            \/ /\ p \in cache[k].part /\ Become(r, Handle(r, p))
               /\ cache' = [cache EXCEPT ![k].has = @ \cup {p}, ![k].part = @ \ {p}]
            \/ k \in shaky /\ Become(r, Handle(r, p)) /\ UNCHANGED cache
            \/ Become(r, [Handle(r, p) EXCEPT !.torn = TRUE]) /\ UNCHANGED cache
      BY <1>3, <1>13 DEF StoreCache, Job
    <2> QED BY <2>3, <2>4, <2>5, <2>6, <2>7
  <1>14. ASSUME NEW ok \in BOOLEAN, MakeCache(r, ok)
         PROVE  Local' /\ CachesFit' /\ CacheTypes'
    <2>1. CASE ok
      <3> DEFINE t == [w EXCEPT !.pc = "storing", !.todo = w.site]
                 c == [cache[k] EXCEPT !.exists = TRUE]
      <3>1. /\ UNCHANGED <<slots, shaky>>
            /\ cache' = [cache EXCEPT ![k] = c] /\ Become(r, t)
        BY <1>3, <1>14, <2>1 DEF MakeCache, Job
      <3>2. /\ t \in RunRec /\ t.pc = "storing" /\ t.plan = w.plan /\ t.job = w.job
            /\ t.text = w.text /\ t.site = w.site /\ t.todo = w.site
        BY <1>2 DEF RunRec, Place, Leased
      <3>3. c \in Cache /\ c.exists /\ c.has = cache[k].has /\ c.part = cache[k].part
        BY <1>5 DEF Cache
      <3> HIDE DEF t, c
      <3>4. t.pc \in StoreSteps
        BY <3>2 DEF StoreSteps
      <3> QED BY <1>4, <1>5, <1>6, <3>1, <3>2, <3>3, <3>4
    <2>2. CASE ~ok
      BY <1>8, <1>14, <2>2 DEF MakeCache
    <2> QED BY <2>1, <2>2
  <1>15. CASE StoreEnds(r)
    <2>1. w.pc = "storing" /\ w.todo = {} /\ UNCHANGED cache
      BY <1>15 DEF StoreEnds, At
    <2>2. CASE w.torn
      BY <1>8, <1>15, <2>1, <2>2 DEF StoreEnds
    <2>3. CASE ~w.torn
      <3>1. Become(r, Advanced(w)) /\ UNCHANGED <<slots, shaky>>
        BY <1>15, <2>3 DEF StoreEnds, Advance
      <3>2. w.site = Packages(w.job) /\ w.pc \notin {"gui", "building"}
        BY <1>3, <1>4, <2>1
      <3>3. Local' /\ Advanced(w).pc \notin CacheSteps
        BY <1>1, <1>2, <3>1, <3>2, Advances
      <3>4. run'[r] = Advanced(w) /\ run'[r] \in RunRec
        BY <3>1, <3>3 DEF Local, Become
      <3> QED BY <1>7, <2>1, <2>3, <3>1, <3>3, <3>4
    <2> QED BY <2>2, <2>3
  <1> QED BY <1>12, <1>13, <1>14, <1>15

-----------------------------------------------------------------------------
(* All steps.                                                               *)

Rest == /\ CacheTypes
        /\ verdict \in [ok: BOOLEAN, left: Nat]
        /\ up \in BOOLEAN
        /\ changed \in Nat
        /\ guiImage \in SUBSET Image
        /\ begun \in Nat /\ faults \in Nat
        /\ VerdictFits

LEMMA Parts == IInv <=> Local /\ CachesFit /\ Rest
  BY DEF IInv, Local, Rest, Types, CacheTypes

LEMMA PartsNext == IInv' <=> Local' /\ CachesFit' /\ Rest'
  BY DEF IInv, Local, Rest, Types, CacheTypes

LEMMA TimesAreNumbers == HealthyFor \in Nat /\ FailedFor \in Nat /\ CheckTime \in Nat
  BY ExecutionAssumption

LEMMA RunStepKeeps ==
    ASSUME IInv, NEW r \in Runs, RunStep(r)
    PROVE  IInv'
  <1>1. Local /\ CachesFit /\ Rest /\ CacheTypes
    BY Parts DEF Rest
  <1>2. UNCHANGED <<up, changed, faults>>
    BY DEF RunStep, Run, PrepareLiveRun, Accept, PrepareHtmlPreview, LoadPreview, ClosePreview,
           PrepareExecutionWorkspace, AcquireLease, CheckSyntax, CheckHealth, HealthAnswer,
           EnsurePackagesProcess, EnsurePackagesContainer, EnsurePackages, ListCache,
           RestoreCache, RestoreEnds,
           ClearCache, MakeCache, StoreCache, StoreEnds, EnsureGuiImage, InspectImage, FindTool,
           Compile, InstallOnHost, InstallInContainer, Install, BuildGuiImage, StartLive, Raise,
           Start, Execute, LiveEnds, ReportFailure, world
  <1>3. ASSUME UNCHANGED <<verdict, begun>>, CacheTypes', guiImage' \in SUBSET Image
        PROVE  Rest'
    <2>1. VerdictFits'
      BY <1>1, <1>2, <1>3 DEF Rest, VerdictFits, KeptFor
    <2> QED BY <1>1, <1>2, <1>3, <2>1 DEF Rest
  <1>4. CASE \E q \in Requests, s \in Settings : Run(r, q, s) \/ PrepareLiveRun(r, q, s)
    <2>1. UNCHANGED <<cache, shaky, guiImage, verdict>> /\ begun' = begun + 1
      BY <1>4 DEF Run, PrepareLiveRun, Accept, shared
    <2>2. Local' /\ CachesFit'
      BY <1>1, <1>4, <2>1, UpToTheLease
    <2>3. CacheTypes' /\ VerdictFits'
      BY <1>1, <1>2, <2>1 DEF Rest, CacheTypes, VerdictFits, KeptFor, Keys, Given, CacheKey, Marker
    <2> QED BY <1>1, <1>2, <2>1, <2>2, <2>3, PartsNext DEF Rest
  <1>5. CASE \/ LoadPreview(r) \/ ClosePreview(r)
             \/ PrepareExecutionWorkspace(r) \/ AcquireLease(r)
             \/ \E s \in Settings : PrepareHtmlPreview(r, s) \/ CheckSyntax(r, s)
    <2>1. UNCHANGED <<cache, shaky, guiImage, verdict, begun>>
      BY <1>5 DEF PrepareHtmlPreview, LoadPreview, ClosePreview, PrepareExecutionWorkspace,
                  AcquireLease, CheckSyntax, shared, world
    <2>2. Local' /\ CachesFit'
      BY <1>1, <1>5, <2>1, UpToTheLease
    <2>3. CacheTypes' /\ guiImage' \in SUBSET Image
      BY <1>1, <2>1 DEF Rest, CacheTypes
    <2> QED BY <1>3, <2>1, <2>2, <2>3, PartsNext
  <1>6. CASE \/ CheckHealth(r) \/ EnsureGuiImage(r)
             \/ \E ok \in BOOLEAN : \/ InspectImage(r, ok) \/ FindTool(r, ok) \/ Compile(r, ok)
                                    \/ BuildGuiImage(r, ok) \/ StartLive(r, ok)
                                    \/ LiveEnds(r, ok) \/ ReportFailure(r, ok)
             \/ Raise(r) \/ Start(r) \/ Execute(r)
    <2>1. UNCHANGED <<cache, shaky, verdict, begun>>
      BY <1>6 DEF CheckHealth, EnsureGuiImage, InspectImage, FindTool, Compile, BuildGuiImage,
                  StartLive, Raise, Start, Execute, LiveEnds, ReportFailure, shared, world
    <2>2. Local' /\ CachesFit'
      BY <1>1, <1>6, <2>1, RuntimeAndStart
    <2>3. guiImage' = guiImage \/ guiImage' = guiImage \cup {run[r].job.image}
      BY <1>6 DEF CheckHealth, EnsureGuiImage, InspectImage, FindTool, Compile, BuildGuiImage,
                  StartLive, Raise, Start, Execute, LiveEnds, ReportFailure, shared, Job
    <2>4. run[r].job.image \in Image
      BY <1>1 DEF Local, RunRec, Request
    <2>5. CacheTypes' /\ guiImage' \in SUBSET Image
      BY <1>1, <2>1, <2>3, <2>4 DEF Rest, CacheTypes
    <2> QED BY <1>3, <2>1, <2>2, <2>5, PartsNext
  <1>7. CASE HealthAnswer(r)
    <2>1. UNCHANGED <<cache, shaky, guiImage, begun>> /\ verdict' = Verdict(up, run[r].probed)
      BY <1>7 DEF HealthAnswer, world
    <2>2. Local' /\ CachesFit'
      BY <1>1, <1>7, <2>1, RuntimeAndStart
    <2>3. run[r].probed \in Nat /\ up \in BOOLEAN
      BY <1>1 DEF Local, RunRec, Rest
    <2>4. KeptFor(up) \in Nat
      BY TimesAreNumbers DEF KeptFor
    <2>5. verdict' \in [ok: BOOLEAN, left: Nat] /\ verdict'.ok = up /\ verdict'.left =< KeptFor(up)
      BY <2>1, <2>3, <2>4 DEF Verdict
    <2>6. VerdictFits'
      BY <1>2, <2>5 DEF VerdictFits, KeptFor
    <2> QED BY <1>1, <1>2, <2>1, <2>2, <2>5, <2>6, PartsNext DEF Rest, CacheTypes
  <1>8. CASE \/ EnsurePackagesProcess(r) \/ EnsurePackagesContainer(r)
             \/ ListCache(r) \/ RestoreCache(r) \/ RestoreEnds(r)
    <2>1. UNCHANGED <<cache, shaky, guiImage, verdict, begun>>
      BY <1>8 DEF EnsurePackagesProcess, EnsurePackagesContainer, EnsurePackages, ListCache,
                  RestoreCache, RestoreEnds, shared, world
    <2>2. Local' /\ CachesFit'
      BY <1>1, <1>8, <2>1, RestoringFits
         DEF EnsurePackagesProcess, EnsurePackagesContainer
    <2> QED BY <1>1, <1>3, <2>1, <2>2, PartsNext DEF Rest, CacheTypes
  <1>9. ASSUME NEW ok \in BOOLEAN, Install(r, ok)
        PROVE  IInv'
    <2>1. UNCHANGED <<cache, guiImage, verdict, begun>>
      BY <1>9 DEF Install, world
    <2>2. Local' /\ CachesFit'
      BY <1>1, <1>9, <2>1, InstallFits
    <2>3. CacheTypes'
      <3>1. run[r].job \in Given
        BY <1>1, <1>9, Works DEF Install, At, Leased
      <3>2. CacheKey(run[r].job) \in Keys
        BY <3>1, GivenFacts
      <3>3. shaky' \subseteq shaky \cup {CacheKey(run[r].job)}
        BY <1>9 DEF Install, Job
      <3> QED BY <1>1, <2>1, <3>2, <3>3 DEF CacheTypes
    <2> QED BY <1>1, <1>3, <2>1, <2>2, <2>3, PartsNext DEF Rest
  <1>10. CASE \/ ClearCache(r) \/ StoreCache(r) \/ StoreEnds(r)
              \/ \E ok \in BOOLEAN : MakeCache(r, ok)
    <2>1. UNCHANGED <<guiImage, verdict, begun>>
      BY <1>10 DEF ClearCache, MakeCache, StoreCache, StoreEnds, world
    <2>2. Local' /\ CachesFit' /\ CacheTypes'
      BY <1>1, <1>10, <2>1, StoreFits
    <2> QED BY <1>1, <1>3, <2>1, <2>2, PartsNext DEF Rest
  <1> QED BY <1>4, <1>5, <1>6, <1>7, <1>8, <1>9, <1>10 DEF RunStep, InstallOnHost, InstallInContainer

LEMMA TickKeeps ==
    ASSUME IInv, Tick
    PROVE  IInv'
  <1>1. Local /\ CachesFit /\ Rest
    BY Parts
  <1>2. UNCHANGED <<slots, cache, shaky, up, guiImage, begun, faults>>
    BY DEF Tick
  <1> DEFINE Older(r) == IF At(r, "probing")
                         THEN [run[r] EXCEPT !.probed = @ + 1] ELSE run[r]
  <1>a. run' = [r \in Runs |-> Older(r)]
    BY DEF Tick
  <1>b. \A r \in Runs : run'[r] = Older(r)
    <2> HIDE DEF Older
    <2> QED BY <1>a
  <1>3. ASSUME NEW r \in Runs
        PROVE  /\ run'[r] \in RunRec /\ run'[r].pc = run[r].pc /\ run'[r].job = run[r].job
               /\ run'[r].plan = run[r].plan /\ run'[r].text = run[r].text
               /\ run'[r].site = run[r].site /\ run'[r].todo = run[r].todo
               /\ run'[r].doubt = run[r].doubt /\ run'[r].torn = run[r].torn
    <2>1. run[r] \in RunRec
      BY <1>1 DEF Local
    <2>2. run'[r] = run[r] \/ run'[r] = [run[r] EXCEPT !.probed = run[r].probed + 1]
      BY <1>b
    <2> QED BY <2>1, <2>2 DEF RunRec
  <1>4. run' \in [Runs -> RunRec]
    <2>1. \A r \in Runs : Older(r) \in RunRec
      BY <1>3, <1>b
    <2> HIDE DEF Older
    <2> QED BY <1>a, <2>1
  <1>5. RunsFit'
    <2>1. ASSUME NEW r \in Runs
          PROVE  RunFits(run'[r], guiImage')
      <3>1. RunFits(run[r], guiImage)
        BY <1>1 DEF Local, RunsFit
      <3> QED BY <1>2, <1>3, <3>1 DEF RunFits, PlanFits, TextFits, SiteFits
    <2> QED BY <2>1 DEF RunsFit
  <1>6. Local'
    <2>1. Holding' = Holding
      BY <1>3 DEF Holding
    <2> QED BY <1>1, <1>2, <1>4, <1>5, <2>1 DEF Local, LeaseCoversRun, slots
  <1>7. CachesFit'
    <2>1. \A k : Storing(k)' = Storing(k)
      BY <1>3 DEF Storing, Job
    <2>2. \A k : \A r \in Storing(k) : r \in Runs
      BY DEF Storing
    <2>3. Keys' = Keys
      BY DEF Keys, Given, CacheKey, Marker
    <2>4. ASSUME NEW k \in Keys
          PROVE  CacheFits(k)'
      <3>1. CacheFits(k)
        BY <1>1 DEF CachesFit
      <3>2. \A o \in Runs : Restores(o, k)' <=> Restores(o, k)
        BY <1>3 DEF Restores, Job
      <3>3. Clean(k)' <=> Clean(k)
        BY <1>2, <2>1 DEF Clean
      <3> QED BY <1>2, <1>3, <2>1, <2>2, <3>1, <3>2, <3>3 DEF CacheFits, At
    <2> QED BY <2>3, <2>4 DEF CachesFit
  <1>8. Rest'
    <2>1. /\ verdict \in [ok: BOOLEAN, left: Nat] /\ changed \in Nat /\ up \in BOOLEAN
          /\ VerdictFits
      BY <1>1 DEF Rest
    <2>2. verdict' = IF verdict.left > 1 THEN [verdict EXCEPT !.left = @ - 1] ELSE NoVerdict
      BY DEF Tick
    <2>3. changed' = (IF changed < HealthyFor THEN changed + 1 ELSE changed) /\ changed' \in Nat
          /\ changed' =< changed + 1
      BY <2>1, TimesAreNumbers DEF Tick
    <2>5. CASE verdict.left > 1
      <3>1. /\ verdict' \in [ok: BOOLEAN, left: Nat]
            /\ verdict'.ok = verdict.ok /\ verdict'.left = verdict.left - 1
        BY <2>1, <2>2, <2>5
      <3>2. VerdictFits'
        BY <1>2, <2>1, <2>3, <2>5, <3>1, TimesAreNumbers DEF VerdictFits, KeptFor
      <3> QED BY <1>1, <1>2, <2>3, <3>1, <3>2 DEF Rest, CacheTypes
    <2>6. CASE ~(verdict.left > 1)
      <3>1. verdict' \in [ok: BOOLEAN, left: Nat] /\ verdict'.left = 0 /\ verdict'.ok = FALSE
        BY <2>2, <2>6 DEF NoVerdict
      <3>2. VerdictFits'
        BY <3>1, TimesAreNumbers DEF VerdictFits, KeptFor
      <3> QED BY <1>1, <1>2, <2>3, <3>1, <3>2 DEF Rest, CacheTypes
    <2> QED BY <2>5, <2>6
  <1> QED BY <1>6, <1>7, <1>8, PartsNext

LEMMA FlipKeeps ==
    ASSUME IInv, RuntimeFlips
    PROVE  IInv'
  <1>1. Local /\ CachesFit /\ Rest
    BY Parts
  <1>2. /\ UNCHANGED <<run, slots, cache, shaky, verdict, guiImage, begun>>
        /\ up' = ~up /\ changed' = 0 /\ faults' = faults + 1
    BY DEF RuntimeFlips, shared
  <1>3. Local'
    BY <1>1, <1>2 DEF Local, RunsFit, LeaseCoversRun, Holding, slots
  <1>4. CachesFit'
    <2>1. \A k : Storing(k)' = Storing(k)
      BY <1>2 DEF Storing, Job
    <2>2. Keys' = Keys
      BY DEF Keys, Given, CacheKey, Marker
    <2>3. ASSUME NEW k \in Keys
          PROVE  CacheFits(k)'
      <3>1. CacheFits(k)
        BY <1>1 DEF CachesFit
      <3>2. (Clean(k)' <=> Clean(k)) /\ \A o \in Runs : Restores(o, k)' <=> Restores(o, k)
        BY <1>2, <2>1 DEF Clean, Restores, Job
      <3> QED BY <1>2, <2>1, <3>1, <3>2 DEF CacheFits, At
    <2> QED BY <2>2, <2>3 DEF CachesFit
  <1>5. VerdictFits'
    <2>1. verdict \in [ok: BOOLEAN, left: Nat] /\ verdict.left =< KeptFor(verdict.ok)
      BY <1>1 DEF Rest, VerdictFits
    <2>2. verdict.left =< (IF verdict.ok THEN HealthyFor ELSE FailedFor)
      BY <2>1 DEF KeptFor
    <2> QED BY <1>2, <2>1, <2>2, TimesAreNumbers DEF VerdictFits, KeptFor
  <1>6. Rest'
    BY <1>1, <1>2, <1>5 DEF Rest, CacheTypes
  <1> QED BY <1>3, <1>4, <1>6, PartsNext

LEMMA CrashKeeps ==
    ASSUME IInv, Crash
    PROVE  IInv'
  <1>1. Local /\ CachesFit /\ Rest
    BY Parts
  <1>2. /\ run' = [r \in Runs |-> Idle] /\ verdict' = NoVerdict
        /\ active' = 0 /\ leaked' = 0 /\ doubled' = 0
        /\ shaky' = shaky \cup {k \in Keys : Storing(k) # {}}
        /\ UNCHANGED <<cache, up, changed, guiImage, begun>> /\ faults' = faults + 1
    BY DEF Crash
  <1>3. Idle \in RunRec /\ Idle.pc = "idle" /\ Idle.pc \notin Leased /\ Idle.pc \notin StoreSteps
        /\ Idle.pc \notin {"listing", "restoring"}
    BY IdleFits DEF Leased, StoreSteps
  <1>4. \A r \in Runs : run'[r] = Idle
    BY <1>2
  <1>5. Local'
    <2>1. run' \in [Runs -> RunRec]
      BY <1>2, <1>3
    <2>2. IsFiniteSet(Holding') /\ Cardinality(Holding)' = 0
      <3>1. Holding' = {}
        BY <1>3, <1>4 DEF Holding
      <3> QED BY <3>1, FS_EmptySet
    <2>3. RunsFit'
      BY <1>3, <1>4 DEF RunsFit, RunFits
    <2>4. Slots \in Nat
      BY ExecutionAssumption
    <2> QED BY <1>2, <1>3, <1>4, <2>1, <2>2, <2>3, <2>4 DEF Local, LeaseCoversRun
  <1>6. CachesFit'
    <2>1. \A k : Storing(k)' = {}
      BY <1>3, <1>4 DEF Storing, StoreSteps
    <2>2. Keys' = Keys
      BY DEF Keys, Given, CacheKey, Marker
    <2>3. ASSUME NEW k \in Keys
          PROVE  CacheFits(k)'
      <3>1. CacheFits(k) /\ (k \notin shaky' => k \notin shaky /\ Storing(k) = {})
        BY <1>1, <1>2 DEF CachesFit
      <3>2. \A o \in Runs : ~Restores(o, k)'
        BY <1>3, <1>4 DEF Restores
      <3> QED BY <1>2, <2>1, <3>1, <3>2 DEF CacheFits
    <2> QED BY <2>2, <2>3 DEF CachesFit
  <1>7. VerdictFits'
    BY <1>2, TimesAreNumbers DEF VerdictFits, NoVerdict, KeptFor
  <1>8. Rest'
    <2>1. verdict' \in [ok: BOOLEAN, left: Nat]
      BY <1>2 DEF NoVerdict
    <2> QED BY <1>1, <1>2, <1>7, <2>1 DEF Rest, CacheTypes
  <1> QED BY <1>5, <1>6, <1>8, PartsNext

-----------------------------------------------------------------------------
(* The theorems.                                                            *)

LEMMA InitFits == Init => IInv
  <1> SUFFICES ASSUME Init PROVE IInv
    OBVIOUS
  <1>1. Idle \in RunRec /\ Idle.pc = "idle" /\ Idle.pc \notin Leased /\ Idle.pc \notin StoreSteps
        /\ Idle.pc \notin {"listing", "restoring"}
    BY IdleFits DEF Leased, StoreSteps
  <1>2. /\ run = [r \in Runs |-> Idle] /\ verdict = NoVerdict
        /\ active = 0 /\ leaked = 0 /\ doubled = 0
        /\ cache = [k \in Keys |-> NoCache] /\ shaky = {}
        /\ up \in BOOLEAN /\ changed = HealthyFor /\ guiImage = {} /\ begun = 0 /\ faults = 0
    BY DEF Init
  <1>3. \A r \in Runs : run[r] = Idle
    BY <1>2
  <1>4. Local
    <2>1. run \in [Runs -> RunRec]
      BY <1>1, <1>2
    <2>2. IsFiniteSet(Holding) /\ Cardinality(Holding) = 0
      <3>1. Holding = {}
        BY <1>1, <1>3 DEF Holding
      <3> QED BY <3>1, FS_EmptySet
    <2>3. RunsFit
      BY <1>1, <1>3 DEF RunsFit, RunFits
    <2>4. Slots \in Nat
      BY ExecutionAssumption
    <2> QED BY <1>1, <1>2, <1>3, <2>1, <2>2, <2>3, <2>4 DEF Local, LeaseCoversRun
  <1>5. CachesFit
    <2>1. \A k : Storing(k) = {}
      BY <1>1, <1>3 DEF Storing, StoreSteps
    <2>2. \A k : \A r \in Runs : ~Restores(r, k)
      BY <1>1, <1>3 DEF Restores
    <2> QED BY <1>2, <2>1, <2>2 DEF CachesFit, CacheFits, NoCache
  <1>6. Rest
    BY <1>2, TimesAreNumbers DEF Rest, CacheTypes, Cache, NoCache, NoVerdict, VerdictFits, KeptFor
  <1> QED BY <1>4, <1>5, <1>6, Parts

LEMMA NextKeeps == IInv /\ [Next]_vars => IInv'
  <1> SUFFICES ASSUME IInv, [Next]_vars PROVE IInv'
    OBVIOUS
  <1>1. CASE UNCHANGED vars
    <2>1. UNCHANGED <<run, slots, cache, shaky, verdict, guiImage, up, changed, begun, faults>>
      BY <1>1 DEF vars, shared, world
    <2>2. Local /\ CachesFit /\ Rest
      BY Parts
    <2>3. Local'
      BY <2>1, <2>2 DEF Local, RunsFit, LeaseCoversRun, Holding, slots
    <2>4. CachesFit'
      <3>1. \A k : Storing(k)' = Storing(k)
        BY <2>1 DEF Storing, Job
      <3>2. Keys' = Keys
        BY DEF Keys, Given, CacheKey, Marker
      <3>3. ASSUME NEW k \in Keys
            PROVE  CacheFits(k)'
        <4>1. CacheFits(k)
          BY <2>2 DEF CachesFit
        <4>2. (Clean(k)' <=> Clean(k)) /\ \A o \in Runs : Restores(o, k)' <=> Restores(o, k)
          BY <2>1, <3>1 DEF Clean, Restores, Job
        <4> QED BY <2>1, <3>1, <4>1, <4>2 DEF CacheFits, At
      <3> QED BY <3>2, <3>3 DEF CachesFit
    <2>5. VerdictFits'
      BY <2>1, <2>2 DEF Rest, VerdictFits, KeptFor
    <2>6. Rest'
      BY <2>1, <2>2, <2>5 DEF Rest, CacheTypes
    <2> QED BY <2>3, <2>4, <2>6, PartsNext
  <1>2. CASE Next
    BY <1>2, RunStepKeeps, TickKeeps, FlipKeeps, CrashKeeps DEF Next
  <1> QED BY <1>1, <1>2

LEMMA Invariance == Spec => []IInv
  BY InitFits, NextKeeps, PTL DEF Spec

\* Whatever fails or raises on its way, an HTTP run and a preparation that raises
\* return their lease exactly once: the scheduler's count of leases differs from
\* the runs that may have something to execute only by what live sessions have
\* leaked and doubled, and never exceeds the slots, for any number of threads,
\* requests and settings. (run, prepare_live_run.)
THEOREM LeasesCoverRuns == Spec => []LeaseCoversRun
  <1>1. IInv => LeaseCoversRun
    BY DEF IInv
  <1> QED BY <1>1, Invariance, PTL

\* The cached verdict about the container runtime is recent, in whatever order
\* threads that began their checks at different times store their answers.
\* (_container_runtime_health.)
THEOREM VerdictsAreRecent == Spec => []VerdictIsRecent
  <1>1. IInv => VerdictIsRecent
    <2> SUFFICES ASSUME IInv PROVE VerdictIsRecent
      OBVIOUS
    <2>1. verdict \in [ok: BOOLEAN, left: Nat] /\ changed \in Nat /\ VerdictFits
      BY DEF IInv, Types
    <2> QED BY <2>1, TimesAreNumbers DEF VerdictFits, VerdictIsRecent
  <1> QED BY <1>1, Invariance, PTL

\* A program starts with the text and the packages that its request asked for,
\* and with the image its window needs, unless it opens that window in a container,
\* where it reaches no packages, or a store of its packages has been overlapped,
\* has failed or was cut off: a cache that nobody stores and that was not left
\* behind half stored is complete, and a restore that no store overlaps copies
\* all of it. (run, prepare_live_run, _ensure_python_dependencies_*,
\* _restore_dependency_cache, _store_dependency_cache.)
THEOREM ProgramsRunAsRequested == Spec => []RunsAsRequested
  <1>1. IInv => RunsAsRequested
    <2> SUFFICES ASSUME IInv, NEW r \in Runs
                 PROVE  /\ run[r].pc \in {"handed", "running"} =>
                              /\ run[r].text = WantedText(Job(r))
                              /\ run[r].site \subseteq Packages(Job(r))
                              /\ (/\ Job(r).language = "python" /\ ~Windowed(Job(r))
                                  /\ ~run[r].doubt) => run[r].site = Packages(Job(r))
                              /\ Windowed(Job(r)) => Job(r).image \in guiImage
                        /\ At(r, "shown") => \/ run[r].text = WantedText(Job(r))
                                             \/ Job(r).code /\ run[r].text = "another's"
      BY DEF RunsAsRequested
    <2>1. RunFits(run[r], guiImage)
      BY DEF IInv, RunsFit
    <2>2. run[r].pc \in {"handed", "running"} => run[r].pc \in Leased
      BY DEF Leased
    <2> QED BY <2>1, <2>2 DEF RunFits, TextFits, SiteFits, After, Job, At, Windowed
  <1> QED BY <1>1, Invariance, PTL
=============================================================================
