--------------------------- MODULE Curriculum_proofs ---------------------------
(***************************************************************************)
(* Proofs about Curriculum, for any courses, learners, tabs and bounds:    *)
(* nobody skips a module, certificates are earned and issued, stored       *)
(* scores fit, and whatever course is accepted can be passed.              *)
(*                                                                         *)
(* The argument: attempts are never deleted, and stamps only grow and are  *)
(* given out once.  What a submission has found passed therefore stays so  *)
(* and is older than its own stamp, and what a thread is about to write    *)
(* into a certificate, or copies from one, stays backed by attempts.       *)
(* That who has passed is certified needs a second invariant, Certified:   *)
(* who has completed the course has a certificate or a request under way   *)
(* that has still to issue it.  Scores and histories are defined by        *)
(* recursive functions over the questions and by ranks; lemmas about them  *)
(* are proved by induction in the form of a least element of a set of      *)
(* numbers.                                                                *)
(***************************************************************************)
EXTENDS Curriculum, FiniteSetTheorems, SequenceTheorems, WellFoundedInduction, TLAPS

\* Each of the items was passed by an attempt stamped before a time.
Cleared(l, items, atts, time) ==
  \A m \in items : \E b \in atts : b.learner = l /\ b.item = m /\ b.passed /\ b.stamp < time

\* A student may submit an item: all before it is passed, or it is itself.
Allowed(l, required, item, atts, time) ==
  \/ Cleared(l, required, atts, time)
  \/ item # Final /\ Cleared(l, {item}, atts, time)

\* The attempts back a certificate for a course's modules and a result.
ModulesBacked(l, items, atts) ==
  \A m \in items : \E a \in atts : a.learner = l /\ a.item = m /\ a.passed
ScoreBacked(l, score, atts) ==
  \E a \in atts : a.learner = l /\ a.item = Final /\ a.passed /\ a.score = score
ResultBacked(l, score, max, atts) ==
  \E a \in atts : a.learner = l /\ a.item = Final /\ a.passed /\ a.score = score /\ a.max = max

TabFits(th) ==
  th # Idle => DOMAIN th = {"at", "course", "item", "released", "score", "max", "passed", "stamp"}

\* What the attempts and the clock say of a submission at work.
TabAgrees(th, l, atts, time) ==
  /\ (th.at = "stamp" /\ l \notin Teacher) =>
        Allowed(l, Before(th.course, th.item), th.item, atts, time + 1)
  /\ (th.at = "insert" /\ l \notin Teacher) =>
        Allowed(l, Before(th.course, th.item), th.item, atts, th.stamp)
  /\ th.at = "insert" => th.stamp \in 1 .. time /\ \A a \in atts : a.stamp # th.stamp
  /\ (th.at \in {"refresh", "decide"} /\ th.item = Final /\ th.passed) =>
        ResultBacked(l, th.score, th.max, atts)
  /\ th.at = "issue" => /\ ModulesBacked(l, ModulesOf(th.course), atts)
                        /\ ResultBacked(l, th.score, th.max, atts)

StampsAreUnique(ts, atts) ==
  /\ \A a, b \in atts : a.stamp = b.stamp => a = b
  /\ \A r, t \in Tab : (ts[r].at = "insert" /\ ts[t].at = "insert" /\ ts[r].stamp = ts[t].stamp) => r = t

CertificateFits(c, issued, l, atts) ==
  c # NoCertificate =>
    /\ DOMAIN c = {"score", "shown", "signed"}
    /\ ModulesBacked(l, issued, atts)
    /\ ScoreBacked(l, c.score, atts)
    /\ ResultBacked(l, c.shown.score, c.shown.max, atts)

DownloadFits(d, c, l, atts) ==
  d # NoDownload =>
    /\ c # NoCertificate
    /\ ResultBacked(l, d.shown.score, d.shown.max, atts)

AttemptsFit(atts, time) ==
  \A a \in atts :
    /\ a.stamp \in 1 .. time
    /\ a.learner \notin Teacher => Allowed(a.learner, a.required, a.item, atts, a.stamp)

IInv ==
  /\ clock \in Nat
  /\ DOMAIN tab = Tab /\ DOMAIN certificate = Learner /\ DOMAIN download = Window
  /\ DOMAIN issuedFor = Learner
  /\ \A t \in Tab : TabFits(tab[t]) /\ TabAgrees(tab[t], LearnerOf[t], attempts, clock)
  /\ StampsAreUnique(tab, attempts)
  /\ AttemptsFit(attempts, clock)
  /\ \A l \in Learner : CertificateFits(certificate[l], issuedFor[l], l, attempts)
  /\ \A d \in Window : DownloadFits(download[d], certificate[HolderOf[d]], HolderOf[d], attempts)

-----------------------------------------------------------------------------
(* More attempts, and a later time, take nothing back.                     *)

LEMMA AllowedStays ==
    ASSUME NEW l, NEW required, NEW item, NEW atts, NEW more, atts \subseteq more, NEW time,
           Allowed(l, required, item, atts, time)
    PROVE  Allowed(l, required, item, more, time)
  BY DEF Allowed, Cleared

LEMMA BackedStays ==
    ASSUME NEW l, NEW atts, NEW more, atts \subseteq more
    PROVE  /\ \A items : ModulesBacked(l, items, atts) => ModulesBacked(l, items, more)
           /\ \A score : ScoreBacked(l, score, atts) => ScoreBacked(l, score, more)
           /\ \A score, max : ResultBacked(l, score, max, atts) => ResultBacked(l, score, max, more)
  BY DEF ModulesBacked, ScoreBacked, ResultBacked

LEMMA CertificateStays ==
    ASSUME NEW c, NEW l, NEW atts, NEW more, atts \subseteq more
    PROVE  /\ \A issued : CertificateFits(c, issued, l, atts) => CertificateFits(c, issued, l, more)
           /\ \A d : DownloadFits(d, c, l, atts) => DownloadFits(d, c, l, more)
  BY BackedStays DEF CertificateFits, DownloadFits

LEMMA IdleFits ==
    ASSUME NEW l, NEW atts, NEW time
    PROVE  /\ TabFits(Idle) /\ TabAgrees(Idle, l, atts, time)
           /\ Idle.at = "idle"
  BY DEF Idle, TabFits, TabAgrees

-----------------------------------------------------------------------------
(* Steps that change one submission only.                                  *)

LEMMA Facts ==
    ASSUME IInv
    PROVE  /\ clock \in Nat
           /\ DOMAIN tab = Tab /\ DOMAIN certificate = Learner /\ DOMAIN download = Window
           /\ DOMAIN issuedFor = Learner
           /\ \A t \in Tab : TabFits(tab[t]) /\ TabAgrees(tab[t], LearnerOf[t], attempts, clock)
           /\ \A t \in Tab : LearnerOf[t] \in Learner
           /\ \A d \in Window : HolderOf[d] \in Learner
           /\ StampsAreUnique(tab, attempts)
           /\ AttemptsFit(attempts, clock)
           /\ \A l \in Learner : CertificateFits(certificate[l], issuedFor[l], l, attempts)
           /\ \A d \in Window :
                DownloadFits(download[d], certificate[HolderOf[d]], HolderOf[d], attempts)
  BY CurriculumAssumption DEF IInv

LEMMA TabStep ==
    ASSUME IInv, NEW t \in Tab, NEW th, tab' = [tab EXCEPT ![t] = th],
           UNCHANGED <<attempts, certificate, download, clock, issuedFor>>,
           TabFits(th), TabAgrees(th, LearnerOf[t], attempts, clock), th.at # "insert"
    PROVE  IInv'
  <1>1. /\ DOMAIN tab' = Tab /\ tab'[t] = th
        /\ \A r \in Tab : r # t => tab'[r] = tab[r]
    BY Facts
  <1>2. StampsAreUnique(tab', attempts)
    BY <1>1, Facts DEF StampsAreUnique
  <1> QED BY <1>1, <1>2, Facts DEF IInv

LEMMA SubmitKeeps ==
    ASSUME IInv, NEW t \in Tab, NEW item, NEW answers, Submit(t, item, answers)
    PROVE  IInv'
  <1> DEFINE g == Grade(course, item, answers)
             th == [at |-> "release", course |-> course, item |-> item, released |-> FALSE,
                    score |-> g.score, max |-> g.max, passed |-> g.passed, stamp |-> 0]
  <1> HIDE DEF g
  <1>1. /\ tab' = [tab EXCEPT ![t] = th]
        /\ UNCHANGED <<attempts, certificate, download, clock, issuedFor>>
    BY DEF Submit, Goto, g
  <1>2. /\ DOMAIN th = {"at", "course", "item", "released", "score", "max", "passed", "stamp"}
        /\ th.at = "release"
    OBVIOUS
  <1> HIDE DEF th
  <1>3. TabFits(th) /\ TabAgrees(th, LearnerOf[t], attempts, clock)
    BY <1>2 DEF TabFits, TabAgrees
  <1> QED BY <1>1, <1>2, <1>3, TabStep

\* What the four steps that read the releases make of a submission.
Reads(w, th) ==
  \/ th = Idle
  \/ /\ DOMAIN th = DOMAIN w /\ th.at \in {"groups", "payload", "regroup", "unlocked"}
     /\ th.course = w.course /\ th.score = w.score /\ th.max = w.max /\ th.passed = w.passed

LEMMA ReadSteps ==
    ASSUME IInv, NEW t \in Tab,
           CheckRelease(t) \/ CheckGroups(t) \/ ReadRelease(t) \/ ReadGroups(t)
    PROVE  /\ tab[t].at \in {"release", "groups", "payload", "regroup"}
           /\ \E th : Reads(tab[t], th) /\ tab' = [tab EXCEPT ![t] = th]
           /\ UNCHANGED <<course, release, attempts, certificate, download, clock, edits, changes,
                          crashes, issuedFor, raced>>
  <1> DEFINE w == tab[t]
             own == OwnRelease(LearnerOf[t])
             on == GroupRelease(LearnerOf[t])
             groups == [w EXCEPT !.at = "groups"]
             payload == [w EXCEPT !.at = "payload"]
             regroup == [w EXCEPT !.at = "regroup", !.released = (own = "on")]
             decided == [w EXCEPT !.at = "unlocked", !.released = (own = "on")]
             unlocked == [w EXCEPT !.at = "unlocked", !.released = on]
  <1>1. /\ w.at \in {"release", "groups", "payload", "regroup"}
        /\ \/ tab' = [tab EXCEPT ![t] = Idle] \/ tab' = [tab EXCEPT ![t] = groups]
           \/ tab' = [tab EXCEPT ![t] = payload] \/ tab' = [tab EXCEPT ![t] = regroup]
           \/ tab' = [tab EXCEPT ![t] = decided] \/ tab' = [tab EXCEPT ![t] = unlocked]
        /\ UNCHANGED <<course, release, attempts, certificate, download, clock, edits, changes,
                       crashes, issuedFor, raced>>
    <2>1. CASE CheckRelease(t)
      <3>1. \/ tab' = [tab EXCEPT ![t] = Idle] \/ tab' = [tab EXCEPT ![t] = groups]
            \/ tab' = [tab EXCEPT ![t] = payload]
        BY <2>1, Zenon DEF CheckRelease, Goto
      <3> QED BY <2>1, <3>1 DEF CheckRelease, counters
    <2>2. CASE CheckGroups(t)
      BY <2>2 DEF CheckGroups, Goto, counters
    <2>3. CASE ReadRelease(t)
      BY <2>3 DEF ReadRelease, Goto, counters
    <2>4. CASE ReadGroups(t)
      BY <2>4 DEF ReadGroups, Goto, counters
    <2> QED BY <2>1, <2>2, <2>3, <2>4
  <1>2. DOMAIN w = {"at", "course", "item", "released", "score", "max", "passed", "stamp"}
    BY <1>1, Facts, IdleFits DEF TabFits
  <1>3. Reads(w, groups) /\ Reads(w, payload)
    BY <1>2 DEF Reads
  <1>4. Reads(w, regroup) /\ Reads(w, decided) /\ Reads(w, unlocked)
    <2> HIDE DEF own, on
    <2> QED BY <1>2 DEF Reads
  <1>5. Reads(w, Idle)
    BY DEF Reads
  <1> HIDE DEF groups, payload, regroup, decided, unlocked
  <1> QED BY <1>1, <1>3, <1>4, <1>5

LEMMA ReleaseKeeps ==
    ASSUME IInv, NEW t \in Tab,
           CheckRelease(t) \/ CheckGroups(t) \/ ReadRelease(t) \/ ReadGroups(t)
    PROVE  IInv'
  <1>1. PICK th : Reads(tab[t], th) /\ tab' = [tab EXCEPT ![t] = th]
    BY ReadSteps
  <1>2. /\ tab[t].at \in {"release", "groups", "payload", "regroup"}
        /\ UNCHANGED <<attempts, certificate, download, clock, issuedFor>>
    BY ReadSteps
  <1>3. DOMAIN tab[t] = {"at", "course", "item", "released", "score", "max", "passed", "stamp"}
    BY <1>2, Facts, IdleFits DEF TabFits
  <1>4. /\ TabFits(th) /\ TabAgrees(th, LearnerOf[t], attempts, clock)
        /\ th.at # "insert"
    BY <1>1, <1>3, IdleFits DEF Reads, TabFits, TabAgrees
  <1> QED BY <1>1, <1>2, <1>4, TabStep

\* Who has passed an item has an attempt for it that is older than the clock.
LEMMA PassedIsOld ==
    ASSUME IInv, NEW l, NEW m, Passed(l, m)
    PROVE  \E b \in attempts : b.learner = l /\ b.item = m /\ b.passed /\ b.stamp < clock + 1
  <1>1. PICK b \in Tries(l, m) : b.passed
    BY DEF Passed
  <1>2. b \in attempts /\ b.learner = l /\ b.item = m
    BY DEF Tries
  <1>3. b.stamp \in 1 .. clock /\ clock \in Nat
    BY <1>2, Facts DEF AttemptsFit
  <1> QED BY <1>1, <1>2, <1>3

LEMMA UnlockedKeeps ==
    ASSUME IInv, NEW t \in Tab, CheckUnlocked(t)
    PROVE  IInv'
  <1> DEFINE w == tab[t]
             th == [w EXCEPT !.at = "stamp"]
             l == LearnerOf[t]
             open == Unlocked(l, w.course, w.item, w.released)
  <1>1. /\ w.at = "unlocked" /\ tab' = [tab EXCEPT ![t] = IF open THEN th ELSE Idle]
        /\ UNCHANGED <<attempts, certificate, download, clock, issuedFor>>
    BY DEF CheckUnlocked, Goto
  <1>2. DOMAIN w = {"at", "course", "item", "released", "score", "max", "passed", "stamp"}
    BY <1>1, Facts, IdleFits DEF TabFits
  <1>3. /\ DOMAIN th = DOMAIN w /\ th.at = "stamp" /\ th.course = w.course /\ th.item = w.item
    BY <1>2
  <1> HIDE DEF th
  <1>4. CASE open
    <2>1. l \notin Teacher => Allowed(l, Before(w.course, w.item), w.item, attempts, clock + 1)
      BY <1>4, PassedIsOld DEF Unlocked, Allowed, Cleared
    <2>2. TabFits(th) /\ TabAgrees(th, l, attempts, clock)
      BY <1>2, <1>3, <2>1 DEF TabFits, TabAgrees
    <2> QED BY <1>1, <1>3, <1>4, <2>2, TabStep
  <1>5. CASE ~open
    <2>1. tab' = [tab EXCEPT ![t] = Idle]
      BY <1>1, <1>5
    <2> QED BY <1>1, <2>1, IdleFits, TabStep
  <1> QED BY <1>4, <1>5

LEMMA RefreshKeeps ==
    ASSUME IInv, NEW t \in Tab, RefreshCourse(t)
    PROVE  IInv'
  <1> DEFINE w == tab[t]
             th == [w EXCEPT !.at = "decide", !.course = course]
  <1>1. /\ w.at = "refresh" /\ tab' = [tab EXCEPT ![t] = th]
        /\ UNCHANGED <<attempts, certificate, download, clock, issuedFor>>
    BY DEF RefreshCourse, Goto
  <1>2. DOMAIN w = {"at", "course", "item", "released", "score", "max", "passed", "stamp"}
    BY <1>1, Facts, IdleFits DEF TabFits
  <1>3. /\ DOMAIN th = DOMAIN w /\ th.at = "decide" /\ th.item = w.item
        /\ th.passed = w.passed /\ th.score = w.score /\ th.max = w.max
    BY <1>2
  <1> HIDE DEF th
  <1>4. TabFits(th) /\ TabAgrees(th, LearnerOf[t], attempts, clock)
    BY <1>1, <1>2, <1>3, Facts DEF TabFits, TabAgrees
  <1> QED BY <1>1, <1>3, <1>4, TabStep

\* The latest attempt at an item that is passed is a passed one.
LEMMA LatestPassed ==
    ASSUME IInv, NEW l, NEW item, Passed(l, item)
    PROVE  \E a \in attempts : /\ a.learner = l /\ a.item = item /\ a.passed
                               /\ LatestScore(l, item).score = a.score
                               /\ LatestScore(l, item).max = a.max
  <1> DEFINE Newest(x) == \A b \in Tries(l, item) : b.stamp <= x.stamp
             c == CHOOSE x \in Tries(l, item) : Newest(x)
  <1>1. PICK a \in Tries(l, item) : a.passed /\ Newest(a)
    BY DEF Passed
  <1>2. c \in Tries(l, item) /\ Newest(c)
    BY <1>1
  <1>3. \A x \in Tries(l, item) : x \in attempts /\ x.learner = l /\ x.item = item /\ x.stamp \in Int
    BY Facts DEF Tries, AttemptsFit
  <1>4. LatestScore(l, item) = [score |-> c.score, max |-> c.max]
    BY DEF LatestScore
  <1> HIDE DEF c
  <1>5. a.stamp <= c.stamp /\ c.stamp <= a.stamp
    BY <1>1, <1>2
  <1>6. a = c
    BY <1>1, <1>2, <1>3, <1>5, Facts DEF StampsAreUnique
  <1> QED BY <1>1, <1>3, <1>4, <1>6

LEMMA DecideKeeps ==
    ASSUME IInv, NEW t \in Tab, Decide(t)
    PROVE  IInv'
  <1> DEFINE w == tab[t]
             l == LearnerOf[t]
             s == LatestScore(l, Final)
             own == [w EXCEPT !.at = "issue"]
             old == [w EXCEPT !.at = "issue", !.score = s.score, !.max = s.max]
  <1>1. /\ w.at = "decide"
        /\ tab' = [tab EXCEPT ![t] = IF ~Earns(t) THEN Idle
                                     ELSE IF w.item = Final THEN own ELSE old]
        /\ UNCHANGED <<attempts, certificate, download, clock, issuedFor>>
    BY DEF Decide, Goto
  <1>2. DOMAIN w = {"at", "course", "item", "released", "score", "max", "passed", "stamp"}
    BY <1>1, Facts, IdleFits DEF TabFits
  <1>3. /\ DOMAIN own = DOMAIN w /\ own.at = "issue" /\ own.course = w.course
        /\ own.score = w.score /\ own.max = w.max
        /\ DOMAIN old = DOMAIN w /\ old.at = "issue" /\ old.course = w.course
        /\ old.score = s.score /\ old.max = s.max
    BY <1>2
  <1> HIDE DEF own, old, s
  <1>4. CASE ~Earns(t)
    <2>1. tab' = [tab EXCEPT ![t] = Idle]
      BY <1>1, <1>4
    <2> QED BY <1>1, <2>1, IdleFits, TabStep
  <1>5. CASE Earns(t)
    <2>1. ModulesBacked(l, ModulesOf(w.course), attempts)
      BY <1>5, PassedIsOld DEF Earns, ModulesBacked
    <2>2. CASE w.item = Final
      <3>1. ResultBacked(l, w.score, w.max, attempts)
        BY <1>1, <1>5, <2>2, Facts DEF Earns, TabAgrees
      <3>2. TabFits(own) /\ TabAgrees(own, l, attempts, clock)
        BY <1>2, <1>3, <2>1, <3>1 DEF TabFits, TabAgrees
      <3>3. tab' = [tab EXCEPT ![t] = own]
        BY <1>1, <1>5, <2>2
      <3> QED BY <1>1, <1>3, <3>2, <3>3, TabStep
    <2>3. CASE w.item # Final
      <3>1. ResultBacked(l, s.score, s.max, attempts)
        BY <1>5, <2>3, LatestPassed DEF Earns, ResultBacked, s
      <3>2. TabFits(old) /\ TabAgrees(old, l, attempts, clock)
        BY <1>2, <1>3, <2>1, <3>1 DEF TabFits, TabAgrees
      <3>3. tab' = [tab EXCEPT ![t] = old]
        BY <1>1, <1>5, <2>3
      <3> QED BY <1>1, <1>3, <3>2, <3>3, TabStep
    <2> QED BY <2>2, <2>3
  <1> QED BY <1>4, <1>5

\* Time passes: what was allowed stays so, the stamps in use stay apart.
LEMMA StampKeeps ==
    ASSUME IInv, NEW t \in Tab, Stamp(t)
    PROVE  IInv'
  <1> DEFINE w == tab[t]
             th == [w EXCEPT !.at = "insert", !.stamp = clock + 1]
  <1>1. /\ w.at = "stamp" /\ tab' = [tab EXCEPT ![t] = th] /\ clock' = clock + 1
        /\ UNCHANGED <<attempts, certificate, download, issuedFor>>
    BY DEF Stamp, Goto
  <1>2. DOMAIN w = {"at", "course", "item", "released", "score", "max", "passed", "stamp"}
    BY <1>1, Facts, IdleFits DEF TabFits
  <1>3. /\ DOMAIN th = DOMAIN w /\ th.at = "insert" /\ th.stamp = clock + 1
        /\ th.item = w.item /\ th.course = w.course
    BY <1>2
  <1> HIDE DEF th
  <1>4. /\ DOMAIN tab' = Tab /\ tab'[t] = th
        /\ \A r \in Tab : r # t => tab'[r] = tab[r]
    BY <1>1, Facts
  <1>5. \A a \in attempts : a.stamp \in 1 .. clock
    BY Facts DEF AttemptsFit
  <1>6. clock \in Nat /\ clock' \in Nat
    BY <1>1, Facts
  <1>7. ASSUME NEW l, NEW required, NEW item, Allowed(l, required, item, attempts, clock + 1)
        PROVE  Allowed(l, required, item, attempts, clock + 1 + 1)
    <2>1. \A b \in attempts : b.stamp < clock + 1 => b.stamp < clock + 1 + 1
      BY <1>5, <1>6
    <2> QED BY <1>7, <2>1 DEF Allowed, Cleared
  <1>8. \A r \in Tab : TabFits(tab'[r]) /\ TabAgrees(tab'[r], LearnerOf[r], attempts, clock')
    <2>1. TabFits(th) /\ TabAgrees(th, LearnerOf[t], attempts, clock')
      BY <1>1, <1>2, <1>3, <1>5, <1>6, Facts DEF TabFits, TabAgrees
    <2>2. ASSUME NEW r \in Tab, r # t
          PROVE  TabFits(tab[r]) /\ TabAgrees(tab[r], LearnerOf[r], attempts, clock')
      <3>1. TabFits(tab[r]) /\ TabAgrees(tab[r], LearnerOf[r], attempts, clock)
        BY Facts
      <3> QED BY <1>1, <1>6, <1>7, <3>1 DEF TabAgrees
    <2> QED BY <1>4, <2>1, <2>2
  <1>9. StampsAreUnique(tab', attempts)
    <2>1. \A r \in Tab : (r # t /\ tab'[r].at = "insert") => tab'[r].stamp # clock + 1
      BY <1>4, <1>6, Facts DEF TabAgrees
    <2> QED BY <1>3, <1>4, <2>1, Facts DEF StampsAreUnique
  <1>10. AttemptsFit(attempts, clock')
    BY <1>1, <1>6, Facts DEF AttemptsFit
  <1> QED BY <1>1, <1>4, <1>6, <1>8, <1>9, <1>10, Facts DEF IInv

\* An attempt joins the others; it was allowed when its stamp was taken.
LEMMA InsertKeeps ==
    ASSUME IInv, NEW t \in Tab, Insert(t)
    PROVE  IInv'
  <1> DEFINE w == tab[t]
             l == LearnerOf[t]
             th == [w EXCEPT !.at = "refresh"]
             own == [learner |-> l, item |-> w.item, score |-> w.score, max |-> w.max,
                     passed |-> w.passed, stamp |-> w.stamp,
                     required |-> Before(w.course, w.item)]
  <1>1. /\ w.at = "insert" /\ tab' = [tab EXCEPT ![t] = th]
        /\ attempts' = attempts \cup {own}
        /\ UNCHANGED <<certificate, download, clock, issuedFor>>
    BY DEF Insert, Goto
  <1>2. DOMAIN w = {"at", "course", "item", "released", "score", "max", "passed", "stamp"}
    BY <1>1, Facts, IdleFits DEF TabFits
  <1>3. /\ DOMAIN th = DOMAIN w /\ th.at = "refresh" /\ th.item = w.item
        /\ th.passed = w.passed /\ th.score = w.score /\ th.max = w.max
        /\ own.learner = l /\ own.item = w.item /\ own.score = w.score /\ own.max = w.max
        /\ own.passed = w.passed /\ own.stamp = w.stamp
        /\ own.required = Before(w.course, w.item)
    BY <1>2
  <1> HIDE DEF th, own
  <1>4. /\ DOMAIN tab' = Tab /\ tab'[t] = th
        /\ \A r \in Tab : r # t => tab'[r] = tab[r]
        /\ own \in attempts' /\ attempts \subseteq attempts'
    BY <1>1, Facts
  <1>5. /\ w.stamp \in 1 .. clock /\ \A a \in attempts : a.stamp # w.stamp
        /\ l \notin Teacher => Allowed(l, Before(w.course, w.item), w.item, attempts, w.stamp)
    BY <1>1, Facts DEF TabAgrees
  <1>6. \A r \in Tab : TabFits(tab'[r]) /\ TabAgrees(tab'[r], LearnerOf[r], attempts', clock)
    <2>1. TabFits(th) /\ TabAgrees(th, l, attempts', clock)
      BY <1>2, <1>3, <1>4 DEF TabFits, TabAgrees, ResultBacked
    <2>2. ASSUME NEW r \in Tab, r # t
          PROVE  TabFits(tab[r]) /\ TabAgrees(tab[r], LearnerOf[r], attempts', clock)
      <3>1. TabFits(tab[r]) /\ TabAgrees(tab[r], LearnerOf[r], attempts, clock)
        BY Facts
      <3>2. tab[r].at = "insert" => tab[r].stamp # w.stamp
        BY <1>1, <2>2, Facts DEF StampsAreUnique
      <3>3. tab[r].at = "insert" => \A a \in attempts' : a.stamp # tab[r].stamp
        BY <1>1, <1>3, <3>1, <3>2 DEF TabAgrees
      <3>4. \A required, item, time :
              Allowed(LearnerOf[r], required, item, attempts, time)
              => Allowed(LearnerOf[r], required, item, attempts', time)
        BY <1>4, AllowedStays
      <3>5. /\ \A items : ModulesBacked(LearnerOf[r], items, attempts)
                          => ModulesBacked(LearnerOf[r], items, attempts')
            /\ \A score, max : ResultBacked(LearnerOf[r], score, max, attempts)
                               => ResultBacked(LearnerOf[r], score, max, attempts')
        BY <1>4, BackedStays
      <3> QED BY <3>1, <3>3, <3>4, <3>5 DEF TabAgrees
    <2> QED BY <1>4, <2>1, <2>2
  <1>7. StampsAreUnique(tab', attempts')
    BY <1>1, <1>3, <1>4, <1>5, Facts DEF StampsAreUnique
  <1>8. AttemptsFit(attempts', clock)
    <2>1. own.stamp \in 1 .. clock
      BY <1>3, <1>5
    <2>2. own.learner \notin Teacher =>
            Allowed(own.learner, own.required, own.item, attempts', own.stamp)
      BY <1>3, <1>4, <1>5, AllowedStays
    <2>3. \A a \in attempts : a.learner \notin Teacher =>
            Allowed(a.learner, a.required, a.item, attempts', a.stamp)
      BY <1>4, AllowedStays, Facts DEF AttemptsFit
    <2> QED BY <1>1, <2>1, <2>2, <2>3, Facts DEF AttemptsFit
  <1>9. /\ \A k \in Learner : CertificateFits(certificate[k], issuedFor[k], k, attempts')
        /\ \A d \in Window :
             DownloadFits(download[d], certificate[HolderOf[d]], HolderOf[d], attempts')
    BY <1>4, CertificateStays, Facts
  <1> QED BY <1>1, <1>4, <1>6, <1>7, <1>8, <1>9, Facts DEF IInv

-----------------------------------------------------------------------------
(* Steps that change certificates and downloads.                           *)

LEMMA IssueKeeps ==
    ASSUME IInv, NEW t \in Tab, Issue(t)
    PROVE  IInv'
  <1> DEFINE w == tab[t]
             l == LearnerOf[t]
             shown == [score |-> w.score, max |-> w.max]
             c == [score |-> w.score, shown |-> shown, signed |-> FALSE]
  <1>1. /\ w.at = "issue" /\ tab' = [tab EXCEPT ![t] = Idle]
        /\ certificate' = [certificate EXCEPT ![l] = c]
        /\ issuedFor' = [issuedFor EXCEPT ![l] = ModulesOf(w.course)]
        /\ UNCHANGED <<attempts, download, clock>>
    BY DEF Issue, Goto
  <1>2. /\ DOMAIN c = {"score", "shown", "signed"} /\ c.score = w.score
        /\ c.shown.score = w.score /\ c.shown.max = w.max
    OBVIOUS
  <1>3. c # NoCertificate
    <2>1. DOMAIN NoCertificate = {"none"}
      BY DEF NoCertificate
    <2> QED BY <1>2, <2>1
  <1> HIDE DEF c
  <1>4. /\ DOMAIN tab' = Tab /\ tab'[t] = Idle
        /\ \A r \in Tab : r # t => tab'[r] = tab[r]
        /\ DOMAIN certificate' = Learner /\ certificate'[l] = c
        /\ \A k \in Learner : k # l => certificate'[k] = certificate[k]
        /\ DOMAIN issuedFor' = Learner /\ issuedFor'[l] = ModulesOf(w.course)
        /\ \A k \in Learner : k # l => issuedFor'[k] = issuedFor[k]
    BY <1>1, Facts
  <1>5. ModulesBacked(l, ModulesOf(w.course), attempts) /\ ResultBacked(l, w.score, w.max, attempts)
    BY <1>1, Facts DEF TabAgrees
  <1>6. CertificateFits(c, ModulesOf(w.course), l, attempts)
    BY <1>2, <1>5 DEF CertificateFits, ScoreBacked, ResultBacked
  <1>7. /\ \A k \in Learner : CertificateFits(certificate'[k], issuedFor'[k], k, attempts)
        /\ \A d \in Window :
             DownloadFits(download[d], certificate'[HolderOf[d]], HolderOf[d], attempts)
    BY <1>3, <1>4, <1>6, Facts DEF DownloadFits
  <1>8. \A r \in Tab : TabFits(tab'[r]) /\ TabAgrees(tab'[r], LearnerOf[r], attempts, clock)
    BY <1>4, IdleFits, Facts
  <1>9. StampsAreUnique(tab', attempts)
    BY <1>4, IdleFits, Facts DEF StampsAreUnique
  <1> QED BY <1>1, <1>4, <1>7, <1>8, <1>9, Facts DEF IInv

LEMMA PrepareReadKeeps ==
    ASSUME IInv, NEW d \in Window, PrepareRead(d)
    PROVE  IInv'
  <1> DEFINE l == HolderOf[d]
             copy == [at |-> "write", shown |-> certificate[l].shown]
  <1>1. /\ certificate[l] # NoCertificate /\ download' = [download EXCEPT ![d] = copy]
        /\ UNCHANGED <<attempts, certificate, tab, clock, issuedFor>>
    BY DEF PrepareRead
  <1>2. copy.shown = certificate[l].shown
    OBVIOUS
  <1> HIDE DEF copy
  <1>3. DownloadFits(copy, certificate[l], l, attempts)
    BY <1>1, <1>2, Facts DEF CertificateFits, DownloadFits
  <1>4. /\ DOMAIN download' = Window /\ download'[d] = copy
        /\ \A e \in Window : e # d => download'[e] = download[e]
    BY <1>1, Facts
  <1> QED BY <1>1, <1>3, <1>4, Facts DEF IInv

\* The metadata written back was some certificate's, of an attempt still there.
LEMMA PrepareWriteKeeps ==
    ASSUME IInv, NEW d \in Window, PrepareWrite(d)
    PROVE  IInv'
  <1> DEFINE l == HolderOf[d]
             old == certificate[l]
             c == [old EXCEPT !.shown = download[d].shown, !.signed = TRUE]
  <1>1. /\ download[d] # NoDownload
        /\ certificate' = [certificate EXCEPT ![l] = c]
        /\ download' = [download EXCEPT ![d] = NoDownload]
        /\ UNCHANGED <<attempts, tab, clock, issuedFor>>
    BY DEF PrepareWrite
  <1>2. old # NoCertificate /\ ResultBacked(l, download[d].shown.score, download[d].shown.max, attempts)
    BY <1>1, Facts DEF DownloadFits
  <1>3. /\ DOMAIN old = {"score", "shown", "signed"}
        /\ ModulesBacked(l, issuedFor[l], attempts) /\ ScoreBacked(l, old.score, attempts)
    BY <1>2, Facts DEF CertificateFits
  <1>4. DOMAIN c = DOMAIN old /\ c.score = old.score /\ c.shown = download[d].shown
    BY <1>3
  <1>5. c # NoCertificate
    <2>1. DOMAIN NoCertificate = {"none"}
      BY DEF NoCertificate
    <2> QED BY <1>3, <1>4, <2>1
  <1> HIDE DEF c
  <1>6. CertificateFits(c, issuedFor[l], l, attempts)
    BY <1>2, <1>3, <1>4 DEF CertificateFits
  <1>7. /\ DOMAIN download' = Window /\ download'[d] = NoDownload
        /\ \A e \in Window : e # d => download'[e] = download[e]
        /\ DOMAIN certificate' = Learner /\ certificate'[l] = c
        /\ \A k \in Learner : k # l => certificate'[k] = certificate[k]
    BY <1>1, Facts
  <1>8. \A k \in Learner : CertificateFits(certificate'[k], issuedFor[k], k, attempts)
    BY <1>6, <1>7, Facts
  <1>9. \A e \in Window :
          DownloadFits(download'[e], certificate'[HolderOf[e]], HolderOf[e], attempts)
    BY <1>5, <1>7, Facts DEF DownloadFits
  <1> QED BY <1>1, <1>7, <1>8, <1>9, Facts DEF IInv

LEMMA CrashKeeps ==
    ASSUME IInv, Crash
    PROVE  IInv'
  <1>1. /\ DOMAIN tab' = Tab /\ \A t \in Tab : tab'[t] = Idle
        /\ DOMAIN download' = Window /\ \A d \in Window : download'[d] = NoDownload
        /\ UNCHANGED <<attempts, certificate, clock, issuedFor>>
    BY DEF Crash
  <1>2. StampsAreUnique(tab', attempts)
    BY <1>1, IdleFits, Facts DEF StampsAreUnique
  <1>3. \A d \in Window :
          DownloadFits(download'[d], certificate[HolderOf[d]], HolderOf[d], attempts)
    BY <1>1 DEF DownloadFits
  <1> QED BY <1>1, <1>2, <1>3, IdleFits, Facts DEF IInv

-----------------------------------------------------------------------------
(* The invariant, and what follows from it.                                *)

LEMMA InitFits ==
    Init => IInv
  <1> SUFFICES ASSUME Init PROVE IInv
    OBVIOUS
  <1>1. /\ clock = 0 /\ attempts = {}
        /\ DOMAIN tab = Tab /\ DOMAIN certificate = Learner /\ DOMAIN download = Window
        /\ DOMAIN issuedFor = Learner
        /\ \A t \in Tab : tab[t] = Idle
        /\ \A l \in Learner : certificate[l] = NoCertificate
        /\ \A d \in Window : download[d] = NoDownload
    BY DEF Init
  <1>2. StampsAreUnique(tab, attempts)
    BY <1>1, IdleFits DEF StampsAreUnique
  <1>3. /\ \A l \in Learner : CertificateFits(certificate[l], issuedFor[l], l, attempts)
        /\ \A d \in Window :
             DownloadFits(download[d], certificate[HolderOf[d]], HolderOf[d], attempts)
    BY <1>1 DEF CertificateFits, DownloadFits
  <1>4. AttemptsFit(attempts, clock)
    BY <1>1 DEF AttemptsFit
  <1> QED BY <1>1, <1>2, <1>3, <1>4, IdleFits DEF IInv

LEMMA NextKeeps ==
    IInv /\ [Next]_vars => IInv'
  <1> SUFFICES ASSUME IInv, [Next]_vars PROVE IInv'
    OBVIOUS
  <1>1. ASSUME NEW t \in Tab, Serve(t) PROVE IInv'
    BY <1>1, ReleaseKeeps, UnlockedKeeps, StampKeeps, InsertKeeps, RefreshKeeps, DecideKeeps,
       IssueKeeps DEF Serve
  <1>2. ASSUME NEW t \in Tab, NEW item, NEW answers, Submit(t, item, answers) PROVE IInv'
    BY <1>2, SubmitKeeps
  <1>3. ASSUME NEW d \in Window, PrepareRead(d) \/ PrepareWrite(d) PROVE IInv'
    BY <1>3, PrepareReadKeeps, PrepareWriteKeeps
  <1>4. ASSUME NEW scope, NEW enabled, SetRelease(scope, enabled) PROVE IInv'
    BY <1>4, Facts DEF SetRelease, IInv
  <1>5. ASSUME NEW raw, SaveCourse(raw) PROVE IInv'
    BY <1>5, Facts DEF SaveCourse, IInv
  <1>6. ASSUME Crash PROVE IInv'
    BY <1>6, CrashKeeps
  <1>7. ASSUME UNCHANGED vars PROVE IInv'
    BY <1>7, Facts DEF vars, IInv
  <1> QED BY <1>1, <1>2, <1>3, <1>4, <1>5, <1>6, <1>7 DEF Next

LEMMA Invariance ==
    Spec => []IInv
  BY InitFits, NextKeeps, PTL DEF Spec

(* Whoever has an attempt at an item stored, and is no teacher, had passed *)
(* all the course puts before it, or that very item, by older attempts:    *)
(* submit_assessment, for any courses, edits, releases, tabs and restarts. *)
THEOREM NobodySkips ==
    Spec => []NoSkipping
  <1>1. IInv => NoSkipping
    <2> SUFFICES ASSUME IInv, NEW a \in attempts, a.learner \notin Teacher
                 PROVE  \/ \A m \in a.required :
                             \E b \in Tries(a.learner, m) : b.passed /\ b.stamp < a.stamp
                        \/ /\ a.item # Final
                           /\ \E b \in Tries(a.learner, a.item) : b.passed /\ b.stamp < a.stamp
      BY DEF NoSkipping
    <2>1. Allowed(a.learner, a.required, a.item, attempts, a.stamp)
      BY Facts DEF AttemptsFit
    <2> QED BY <2>1 DEF Allowed, Cleared, Tries
  <1> QED BY <1>1, Invariance, PTL

(* A certificate, and the metadata shown on it, are backed by attempts of  *)
(* its holder: all modules of the course it was issued for passed, and a   *)
(* passed final with the stated result (_refresh_certificate and           *)
(* prepare_certificate_metadata, however they overlap).                    *)
THEOREM CertificatesAreEarned ==
    Spec => []CertificateEarned
  <1>1. IInv => CertificateEarned
    <2> SUFFICES ASSUME IInv, NEW l \in Learner, certificate[l] # NoCertificate
                 PROVE  /\ \A m \in issuedFor[l] : \E a \in Tries(l, m) : a.passed
                        /\ \E a \in Tries(l, Final) : a.passed /\ a.score = Verification(l).score
                        /\ \E a \in Tries(l, Final) : /\ a.passed
                                                      /\ a.score = certificate[l].shown.score
                                                      /\ a.max = certificate[l].shown.max
      BY DEF CertificateEarned
    <2>1. /\ ModulesBacked(l, issuedFor[l], attempts)
          /\ ScoreBacked(l, certificate[l].score, attempts)
          /\ ResultBacked(l, certificate[l].shown.score, certificate[l].shown.max, attempts)
      BY Facts DEF CertificateFits
    <2>2. Verification(l).score = certificate[l].score
      BY DEF Verification
    <2> QED BY <2>1, <2>2 DEF ModulesBacked, ScoreBacked, ResultBacked, Tries
  <1> QED BY <1>1, Invariance, PTL

-----------------------------------------------------------------------------
(* Who has passed everything is certified.                                 *)

\* The final attempt that counts, and what a certificate shows of it.
Counts(a, l, atts) ==
  /\ a \in atts /\ a.learner = l /\ a.item = Final
  /\ \A b \in atts : b.learner = l /\ b.item = Final => b.stamp <= a.stamp
Result(a) == [score |-> a.score, max |-> a.max]

PassedAll(l) == (\A m \in ModulesOf(course) : Passed(l, m)) /\ Passed(l, Final)
Calm == crashes = 0 /\ edits = 0

\* A submission whose attempt is in; one that will issue the certificate to
\* a learner who has passed everything.
Stored(th) == th.at \in {"refresh", "decide", "issue"}
WillIssue(th) ==
  \/ th.at \in {"refresh", "decide"} /\ (th.item = Final => th.passed)
  \/ th.at = "issue"
LooksAfter(l) == \E t \in Tab : LearnerOf[t] = l /\ WillIssue(tab[t])

\* A submission knows the result of the final that counts.
KnowsFinal(th, l, atts) ==
  (Stored(th) /\ (th.at = "issue" \/ th.item = Final)) =>
    \E a \in atts : /\ Counts(a, l, atts) /\ th.score = a.score /\ th.max = a.max
                    /\ th.at # "issue" => th.passed = a.passed

\* Until two requests of a learner overlap, one attempt after the other is
\* stored and looked after.
InTurn(l) ==
  l \notin raced =>
    /\ \A t, u \in Tab : (/\ LearnerOf[t] = l /\ LearnerOf[u] = l
                          /\ Stored(tab[t]) /\ Stored(tab[u])) => t = u
    /\ \A t \in Tab : LearnerOf[t] = l =>
         /\ Stored(tab[t]) => Downloads(l) = {}
         /\ tab[t].at = "insert" => \A a \in attempts : a.learner = l => a.stamp < tab[t].stamp
         /\ KnowsFinal(tab[t], l, attempts)

\* The certificate is there, or a submission is about to issue it ...
Attended(l) ==
  (Calm /\ PassedAll(l)) => certificate[l] # NoCertificate \/ LooksAfter(l)

\* ... and it shows the final that counts, or a submission will see to it.
ShowsFinal(a, l) ==
  /\ Counts(a, l, attempts)
  /\ certificate[l] # NoCertificate
  /\ certificate[l].score = a.score /\ certificate[l].shown = Result(a)
  /\ \A d \in Downloads(l) : download[d].shown = Result(a)
UpToDate(l) ==
  (l \notin raced /\ Calm /\ PassedAll(l)) =>
    LooksAfter(l) \/ \E a \in attempts : ShowsFinal(a, l)

CoursesAgree == edits = 0 => \A t \in Tab : tab[t] # Idle => tab[t].course = course

Certified ==
  /\ edits \in Nat /\ crashes \in Nat /\ IsFiniteSet(attempts)
  /\ CoursesAgree
  /\ \A l \in Learner : InTurn(l) /\ Attended(l) /\ UpToDate(l)

LEMMA IdleWaits ==
    /\ ~Stored(Idle) /\ ~WillIssue(Idle) /\ Idle.at # "insert"
    /\ \A l, atts : KnowsFinal(Idle, l, atts)
  BY DEF Idle, Stored, WillIssue, KnowsFinal

LEMMA WillIssueIsStored ==
    ASSUME NEW th, WillIssue(th)
    PROVE  Stored(th)
  BY DEF WillIssue, Stored

\* A step of one submission that does not store its attempt and does not
\* leave undone what it was to do.
LEMMA QuietStep ==
    ASSUME IInv, Certified, NEW t \in Tab, NEW th, tab' = [tab EXCEPT ![t] = th],
           UNCHANGED <<attempts, certificate, download, course, edits, crashes, raced>>,
           (edits = 0 /\ th # Idle) => th.course = course,
           th.at = "insert" =>
             \A a \in attempts : a.learner = LearnerOf[t] => a.stamp < th.stamp,
           Stored(th) => Stored(tab[t]),
           LearnerOf[t] \notin raced => KnowsFinal(th, LearnerOf[t], attempts),
           (Calm /\ PassedAll(LearnerOf[t]) /\ WillIssue(tab[t])) => WillIssue(th)
    PROVE  Certified'
  <1>1. /\ tab'[t] = th /\ \A r \in Tab : r # t => tab'[r] = tab[r]
    BY Facts
  <1>2. CoursesAgree'
    BY <1>1 DEF Certified, CoursesAgree
  <1>3. \A r \in Tab : Stored(tab'[r]) => Stored(tab[r])
    BY <1>1
  <1>4. ASSUME NEW l \in Learner PROVE InTurn(l)'
    <2>1. InTurn(l)
      BY DEF Certified
    <2>2. SUFFICES ASSUME l \notin raced
                   PROVE  /\ \A q, u \in Tab : (/\ LearnerOf[q] = l /\ LearnerOf[u] = l
                                                /\ Stored(tab'[q]) /\ Stored(tab'[u])) => q = u
                          /\ \A q \in Tab : LearnerOf[q] = l =>
                               /\ Stored(tab'[q]) => Downloads(l) = {}
                               /\ tab'[q].at = "insert" =>
                                    \A a \in attempts : a.learner = l => a.stamp < tab'[q].stamp
                               /\ KnowsFinal(tab'[q], l, attempts)
      BY DEF InTurn, Stored, KnowsFinal, Counts, Downloads
    <2>3. \A q, u \in Tab : (/\ LearnerOf[q] = l /\ LearnerOf[u] = l
                             /\ Stored(tab'[q]) /\ Stored(tab'[u])) => q = u
      BY <1>3, <2>1, <2>2 DEF InTurn
    <2>4. ASSUME NEW q \in Tab, LearnerOf[q] = l
          PROVE  /\ Stored(tab'[q]) => Downloads(l) = {}
                 /\ tab'[q].at = "insert" =>
                      \A a \in attempts : a.learner = l => a.stamp < tab'[q].stamp
                 /\ KnowsFinal(tab'[q], l, attempts)
      BY <1>1, <1>3, <2>1, <2>2, <2>4 DEF InTurn
    <2> QED BY <2>3, <2>4
  <1>5. \A l \in Learner : PassedAll(l)' <=> PassedAll(l)
    BY DEF PassedAll, Passed, Tries
  <1>6. Calm' <=> Calm
    BY DEF Calm
  <1>7. ASSUME NEW l \in Learner, Calm, PassedAll(l), LooksAfter(l) PROVE LooksAfter(l)'
    <2>1. PICK r \in Tab : LearnerOf[r] = l /\ WillIssue(tab[r])
      BY <1>7 DEF LooksAfter
    <2>2. WillIssue(tab'[r])
      BY <1>1, <1>7, <2>1
    <2> QED BY <2>1, <2>2 DEF LooksAfter, WillIssue
  <1>8. ASSUME NEW l \in Learner PROVE Attended(l)'
    BY <1>5, <1>6, <1>7 DEF Certified, Attended
  <1>9. ASSUME NEW l \in Learner PROVE UpToDate(l)'
    <2>1. \A a \in attempts : ShowsFinal(a, l) => ShowsFinal(a, l)'
      BY DEF ShowsFinal, Counts, Result, Downloads
    <2> QED BY <1>5, <1>6, <1>7, <2>1 DEF Certified, UpToDate
  <1> QED BY <1>2, <1>4, <1>8, <1>9 DEF Certified

LEMMA SubmitCertifies ==
    ASSUME IInv, Certified, NEW t \in Tab, NEW item, NEW answers, Submit(t, item, answers)
    PROVE  Certified'
  <1> DEFINE g == Grade(course, item, answers)
             th == [at |-> "release", course |-> course, item |-> item, released |-> FALSE,
                    score |-> g.score, max |-> g.max, passed |-> g.passed, stamp |-> 0]
  <1> HIDE DEF g
  <1>1. /\ tab[t] = Idle /\ tab' = [tab EXCEPT ![t] = th]
        /\ UNCHANGED <<attempts, certificate, download, course, edits, crashes, raced>>
    BY DEF Submit, Goto, g, counters
  <1>2. th.at = "release" /\ th.course = course
    OBVIOUS
  <1> HIDE DEF th
  <1>3. ~Stored(th) /\ KnowsFinal(th, LearnerOf[t], attempts)
    BY <1>2 DEF Stored, KnowsFinal
  <1>4. ~WillIssue(tab[t])
    BY <1>1, IdleWaits
  <1> QED BY <1>1, <1>2, <1>3, <1>4, QuietStep

LEMMA CheckCertifies ==
    ASSUME IInv, Certified, NEW t \in Tab,
           \/ CheckRelease(t) \/ CheckGroups(t) \/ ReadRelease(t) \/ ReadGroups(t)
           \/ CheckUnlocked(t)
    PROVE  Certified'
  <1> DEFINE w == tab[t]
             c == [w EXCEPT !.at = "stamp"]
  <1>1. /\ w.at \in {"release", "groups", "payload", "regroup", "unlocked"}
        /\ \E th : (Reads(w, th) \/ th = c) /\ tab' = [tab EXCEPT ![t] = th]
        /\ UNCHANGED <<attempts, certificate, download, course, edits, crashes, raced>>
    <2>1. CASE CheckUnlocked(t)
      <3>1. Reads(w, Idle)
        BY DEF Reads
      <3>2. /\ w.at = "unlocked"
            /\ tab' = [tab EXCEPT ![t] = c] \/ tab' = [tab EXCEPT ![t] = Idle]
            /\ UNCHANGED <<attempts, certificate, download, course, edits, crashes, raced>>
        BY <2>1 DEF CheckUnlocked, Goto, counters
      <3> HIDE DEF c
      <3> QED BY <3>1, <3>2
    <2>2. CASE CheckRelease(t) \/ CheckGroups(t) \/ ReadRelease(t) \/ ReadGroups(t)
      <3> HIDE DEF c
      <3> QED BY <2>2, ReadSteps
    <2> QED BY <2>1, <2>2
  <1>2. w # Idle
    BY <1>1 DEF Idle
  <1>3. DOMAIN w = {"at", "course", "item", "released", "score", "max", "passed", "stamp"}
    BY <1>2, Facts DEF TabFits
  <1>4. PICK th : (Reads(w, th) \/ th = c) /\ tab' = [tab EXCEPT ![t] = th]
    BY <1>1
  <1>5. ~WillIssue(w)
    BY <1>1 DEF WillIssue
  <1>6. edits = 0 => w.course = course
    BY <1>2 DEF Certified, CoursesAgree
  <1>7. CASE th = Idle
    BY <1>1, <1>4, <1>5, <1>7, IdleWaits, QuietStep
  <1>8. CASE th # Idle
    <2>1. c.at = "stamp" /\ c.course = w.course
      BY <1>3
    <2> HIDE DEF c
    <2>2. /\ th.at \in {"groups", "payload", "regroup", "unlocked", "stamp"}
          /\ th.course = w.course
      BY <1>3, <1>4, <1>8, <2>1 DEF Reads
    <2>3. ~Stored(th) /\ th.at # "insert" /\ KnowsFinal(th, LearnerOf[t], attempts)
      BY <2>2 DEF Stored, KnowsFinal
    <2> QED BY <1>1, <1>4, <1>5, <1>6, <2>2, <2>3, QuietStep
  <1> QED BY <1>7, <1>8

LEMMA StampCertifies ==
    ASSUME IInv, Certified, NEW t \in Tab, Stamp(t)
    PROVE  Certified'
  <1> DEFINE w == tab[t]
             th == [w EXCEPT !.at = "insert", !.stamp = clock + 1]
  <1>1. /\ w.at = "stamp" /\ tab' = [tab EXCEPT ![t] = th]
        /\ UNCHANGED <<attempts, certificate, download, course, edits, crashes, raced>>
    BY DEF Stamp, Goto, counters
  <1>2. w # Idle
    BY <1>1 DEF Idle
  <1>3. DOMAIN w = {"at", "course", "item", "released", "score", "max", "passed", "stamp"}
    BY <1>2, Facts DEF TabFits
  <1>4. th.at = "insert" /\ th.stamp = clock + 1 /\ th.course = w.course
    BY <1>3
  <1> HIDE DEF th
  <1>5. ~Stored(th) /\ KnowsFinal(th, LearnerOf[t], attempts) /\ ~WillIssue(w)
    BY <1>1, <1>4 DEF Stored, KnowsFinal, WillIssue
  <1>6. \A a \in attempts : a.stamp < th.stamp
    BY <1>4, Facts DEF AttemptsFit
  <1>7. edits = 0 => th.course = course
    BY <1>2, <1>4 DEF Certified, CoursesAgree
  <1> QED BY <1>1, <1>5, <1>6, <1>7, QuietStep

LEMMA RefreshCertifies ==
    ASSUME IInv, Certified, NEW t \in Tab, RefreshCourse(t)
    PROVE  Certified'
  <1> DEFINE w == tab[t]
             th == [w EXCEPT !.at = "decide", !.course = course]
             l == LearnerOf[t]
  <1>1. /\ w.at = "refresh" /\ tab' = [tab EXCEPT ![t] = th]
        /\ UNCHANGED <<attempts, certificate, download, course, edits, crashes, raced>>
    BY DEF RefreshCourse, Goto, counters
  <1>2. DOMAIN w = {"at", "course", "item", "released", "score", "max", "passed", "stamp"}
    BY <1>1, Facts, IdleFits DEF TabFits
  <1>3. /\ th.at = "decide" /\ th.course = course /\ th.item = w.item
        /\ th.passed = w.passed /\ th.score = w.score /\ th.max = w.max
    BY <1>2
  <1> HIDE DEF th
  <1>4. l \notin raced => KnowsFinal(w, l, attempts)
    BY Facts DEF Certified, InTurn
  <1>5. l \notin raced => KnowsFinal(th, l, attempts)
    BY <1>1, <1>3, <1>4 DEF KnowsFinal, Stored
  <1>6. WillIssue(w) => WillIssue(th)
    BY <1>1, <1>3 DEF WillIssue
  <1>7. Stored(w)
    BY <1>1 DEF Stored
  <1> QED BY <1>1, <1>3, <1>5, <1>6, <1>7, QuietStep

\* LatestScore is the result of the final that counts.
LEMMA LatestCounts ==
    ASSUME IInv, NEW l, Passed(l, Final)
    PROVE  \E a \in attempts : /\ Counts(a, l, attempts)
                               /\ LatestScore(l, Final).score = a.score
                               /\ LatestScore(l, Final).max = a.max
  <1> DEFINE Newest(x) == \A b \in Tries(l, Final) : b.stamp <= x.stamp
             c == CHOOSE x \in Tries(l, Final) : Newest(x)
  <1>1. \E a \in Tries(l, Final) : Newest(a)
    BY DEF Passed
  <1>2. c \in Tries(l, Final) /\ Newest(c)
    BY <1>1
  <1>3. LatestScore(l, Final) = [score |-> c.score, max |-> c.max]
    BY DEF LatestScore
  <1> HIDE DEF c
  <1>4. Counts(c, l, attempts)
    BY <1>2 DEF Counts, Tries
  <1> QED BY <1>3, <1>4 DEF Counts

\* The decision: if the learner has passed everything, it is to issue.
LEMMA DecideCertifies ==
    ASSUME IInv, Certified, NEW t \in Tab, Decide(t)
    PROVE  Certified'
  <1> DEFINE w == tab[t]
             l == LearnerOf[t]
             s == LatestScore(l, Final)
             own == [w EXCEPT !.at = "issue"]
             old == [w EXCEPT !.at = "issue", !.score = s.score, !.max = s.max]
  <1>1. /\ w.at = "decide"
        /\ tab' = [tab EXCEPT ![t] = IF ~Earns(t) THEN Idle
                                     ELSE IF w.item = Final THEN own ELSE old]
        /\ UNCHANGED <<attempts, certificate, download, course, edits, crashes, raced>>
    BY DEF Decide, Goto, counters
  <1>2. w # Idle
    BY <1>1 DEF Idle
  <1>3. DOMAIN w = {"at", "course", "item", "released", "score", "max", "passed", "stamp"}
    BY <1>2, Facts DEF TabFits
  <1>4. /\ own.at = "issue" /\ own.course = w.course /\ own.score = w.score /\ own.max = w.max
        /\ old.at = "issue" /\ old.course = w.course /\ old.score = s.score /\ old.max = s.max
    BY <1>3
  <1> HIDE DEF own, old, s
  <1>5. edits = 0 => w.course = course
    BY <1>2 DEF Certified, CoursesAgree
  <1>6. Stored(w)
    BY <1>1 DEF Stored
  <1>7. l \notin raced => KnowsFinal(w, l, attempts)
    BY Facts DEF Certified, InTurn
  <1>8. CASE ~Earns(t)
    <2>1. tab' = [tab EXCEPT ![t] = Idle]
      BY <1>1, <1>8
    <2>2. ~(Calm /\ PassedAll(l) /\ WillIssue(w))
      BY <1>1, <1>5, <1>8 DEF Calm, PassedAll, WillIssue, Earns
    <2>10. (edits = 0 /\ Idle # Idle) => Idle.course = course
      BY Zenon
    <2>11. Idle.at = "insert" =>
             \A a \in attempts : a.learner = LearnerOf[t] => a.stamp < Idle.stamp
      BY IdleWaits
    <2>12. Stored(Idle) => Stored(tab[t])
      BY <1>6
    <2>13. LearnerOf[t] \notin raced => KnowsFinal(Idle, LearnerOf[t], attempts)
      BY IdleWaits
    <2>14. (Calm /\ PassedAll(LearnerOf[t]) /\ WillIssue(tab[t])) => WillIssue(Idle)
      BY <2>2
    <2> QED BY <1>1, <2>1, <2>10, <2>11, <2>12, <2>13, <2>14, QuietStep, Zenon
  <1>9. CASE Earns(t) /\ w.item = Final
    <2>1. tab' = [tab EXCEPT ![t] = own]
      BY <1>1, <1>9
    <2>2. l \notin raced => KnowsFinal(own, l, attempts)
      BY <1>1, <1>4, <1>6, <1>7, <1>9 DEF KnowsFinal
    <2>3. WillIssue(own)
      BY <1>4 DEF WillIssue
    <2>4. own.at # "insert" /\ (edits = 0 => own.course = course)
      BY <1>4, <1>5
    <2>10. (edits = 0 /\ own # Idle) => own.course = course
      BY <2>4
    <2>11. own.at = "insert" =>
             \A a \in attempts : a.learner = LearnerOf[t] => a.stamp < own.stamp
      BY <2>4
    <2>12. Stored(own) => Stored(tab[t])
      BY <1>6
    <2>13. LearnerOf[t] \notin raced => KnowsFinal(own, LearnerOf[t], attempts)
      BY <2>2
    <2>14. (Calm /\ PassedAll(LearnerOf[t]) /\ WillIssue(tab[t])) => WillIssue(own)
      BY <2>3
    <2> QED BY <1>1, <2>1, <2>10, <2>11, <2>12, <2>13, <2>14, QuietStep, Zenon
  <1>10. CASE Earns(t) /\ w.item # Final
    <2>1. tab' = [tab EXCEPT ![t] = old]
      BY <1>1, <1>10
    <2>2. Passed(l, Final)
      BY <1>10 DEF Earns
    <2>3. KnowsFinal(old, l, attempts)
      BY <1>4, <2>2, LatestCounts DEF KnowsFinal, s
    <2>4. WillIssue(old)
      BY <1>4 DEF WillIssue
    <2>10. (edits = 0 /\ old # Idle) => old.course = course
      BY <1>4, <1>5
    <2>11. old.at = "insert" =>
             \A a \in attempts : a.learner = LearnerOf[t] => a.stamp < old.stamp
      BY <1>4
    <2>12. Stored(old) => Stored(tab[t])
      BY <1>6
    <2>13. LearnerOf[t] \notin raced => KnowsFinal(old, LearnerOf[t], attempts)
      BY <2>3
    <2>14. (Calm /\ PassedAll(LearnerOf[t]) /\ WillIssue(tab[t])) => WillIssue(old)
      BY <2>4
    <2> QED BY <1>1, <2>1, <2>10, <2>11, <2>12, <2>13, <2>14, QuietStep, Zenon
  <1> QED BY <1>8, <1>9, <1>10

\* The attempt is stored: if the learner has passed everything only now, by
\* this attempt; and if nobody else is at work on the learner's data, it is
\* the latest.
LEMMA InsertCertifies ==
    ASSUME IInv, Certified, NEW t \in Tab, Insert(t)
    PROVE  Certified'
  <1> DEFINE w == tab[t]
             l == LearnerOf[t]
             th == [w EXCEPT !.at = "refresh"]
             own == [learner |-> l, item |-> w.item, score |-> w.score, max |-> w.max,
                     passed |-> w.passed, stamp |-> w.stamp,
                     required |-> Before(w.course, w.item)]
             busy == Writing(l) # {t} \/ Downloads(l) # {}
  <1>1. /\ w.at = "insert" /\ tab' = [tab EXCEPT ![t] = th]
        /\ attempts' = attempts \cup {own}
        /\ raced' = IF busy THEN raced \cup {l} ELSE raced
        /\ UNCHANGED <<certificate, download, course, edits, crashes>>
    BY DEF Insert, Goto, counters
  <1>2. w # Idle
    BY <1>1 DEF Idle
  <1>3. DOMAIN w = {"at", "course", "item", "released", "score", "max", "passed", "stamp"}
    BY <1>2, Facts DEF TabFits
  <1>4. /\ th.at = "refresh" /\ th.item = w.item /\ th.course = w.course
        /\ th.passed = w.passed /\ th.score = w.score /\ th.max = w.max
        /\ own.learner = l /\ own.item = w.item /\ own.score = w.score /\ own.max = w.max
        /\ own.passed = w.passed /\ own.stamp = w.stamp
    BY <1>3
  <1> HIDE DEF th, own
  <1>5. /\ tab'[t] = th /\ \A r \in Tab : r # t => tab'[r] = tab[r]
        /\ l \in Learner /\ raced \subseteq raced'
    BY <1>1, Facts
  <1>6. w.stamp \in Nat /\ \A a \in attempts : a.stamp \in Nat
    BY <1>1, Facts DEF TabAgrees, AttemptsFit
  <1>7. IsFiniteSet(attempts')
    BY <1>1, FS_AddElement DEF Certified
  <1>8. CoursesAgree'
    BY <1>1, <1>2, <1>4, <1>5 DEF Certified, CoursesAgree
  <1>9. ASSUME NEW k \in Learner, k # l
        PROVE  InTurn(k)' /\ Attended(k)' /\ UpToDate(k)'
    <2>1. InTurn(k) /\ Attended(k) /\ UpToDate(k)
      BY DEF Certified
    <2>2. \A a : a \in attempts' /\ a.learner = k <=> a \in attempts /\ a.learner = k
      BY <1>1, <1>4, <1>9
    <2>3. \A a : Counts(a, k, attempts') <=> Counts(a, k, attempts)
      BY <2>2 DEF Counts
    <2>4. k \notin raced' <=> k \notin raced
      BY <1>1, <1>9
    <2>5. \A q \in Tab : LearnerOf[q] = k => tab'[q] = tab[q]
      BY <1>5, <1>9
    <2>6. InTurn(k)'
      <3>1. SUFFICES ASSUME k \notin raced
                     PROVE  /\ \A q, u \in Tab : (/\ LearnerOf[q] = k /\ LearnerOf[u] = k
                                                  /\ Stored(tab'[q]) /\ Stored(tab'[u])) => q = u
                            /\ \A q \in Tab : LearnerOf[q] = k =>
                                 /\ Stored(tab'[q]) => Downloads(k)' = {}
                                 /\ tab'[q].at = "insert" =>
                                      \A a \in attempts' : a.learner = k => a.stamp < tab'[q].stamp
                                 /\ KnowsFinal(tab'[q], k, attempts')
        BY <2>4 DEF InTurn, Stored, KnowsFinal, Counts, Downloads
      <3>2. \A q \in Tab : LearnerOf[q] = k => KnowsFinal(tab[q], k, attempts')
        BY <2>1, <2>3, <3>1 DEF InTurn, KnowsFinal, Counts
      <3> QED BY <1>1, <2>1, <2>2, <2>5, <3>1, <3>2 DEF InTurn, Downloads
    <2>7. PassedAll(k)' <=> PassedAll(k)
      <3>1. \A m : Tries(k, m)' = Tries(k, m)
        BY <2>2 DEF Tries
      <3> QED BY <1>1, <3>1 DEF PassedAll, Passed
    <2>8. LooksAfter(k) => LooksAfter(k)'
      BY <2>5 DEF LooksAfter, WillIssue
    <2>9. Calm' <=> Calm
      BY <1>1 DEF Calm
    <2>10. \A a \in attempts : ShowsFinal(a, k) => a \in attempts' /\ ShowsFinal(a, k)'
      BY <1>1, <2>3 DEF ShowsFinal, Result, Counts, Downloads
    <2>11. Attended(k)'
      BY <1>1, <2>1, <2>7, <2>8, <2>9 DEF Attended
    <2>12. UpToDate(k)'
      BY <2>1, <2>4, <2>7, <2>8, <2>9, <2>10 DEF UpToDate
    <2> QED BY <2>6, <2>11, <2>12
  <1>10. InTurn(l)'
    <2>1. SUFFICES ASSUME l \notin raced'
                   PROVE  /\ \A q, u \in Tab : (/\ LearnerOf[q] = l /\ LearnerOf[u] = l
                                                /\ Stored(tab'[q]) /\ Stored(tab'[u])) => q = u
                          /\ \A q \in Tab : LearnerOf[q] = l =>
                               /\ Stored(tab'[q]) => Downloads(l)' = {}
                               /\ tab'[q].at = "insert" =>
                                    \A a \in attempts' : a.learner = l => a.stamp < tab'[q].stamp
                               /\ KnowsFinal(tab'[q], l, attempts')
      BY DEF InTurn, Stored, KnowsFinal, Counts, Downloads
    <2>2. l \notin raced /\ Writing(l) = {t} /\ Downloads(l) = {}
      BY <1>1, <2>1
    <2>3. \A q \in Tab : (LearnerOf[q] = l /\ q # t) => tab'[q].at # "insert" /\ ~Stored(tab'[q])
      BY <1>5, <2>2 DEF Writing, Stored
    <2>4. \A a \in attempts : a.learner = l => a.stamp < w.stamp
      BY <1>1, <1>5, <2>2 DEF Certified, InTurn
    <2>5. w.item = Final => Counts(own, l, attempts')
      BY <1>1, <1>4, <1>6, <2>4 DEF Counts
    <2>6. KnowsFinal(th, l, attempts')
      BY <1>1, <1>4, <2>5 DEF KnowsFinal, Stored
    <2>7. \A q \in Tab : (LearnerOf[q] = l /\ q # t) => KnowsFinal(tab'[q], l, attempts')
      BY <2>3 DEF KnowsFinal
    <2>8. \A q, u \in Tab : (/\ LearnerOf[q] = l /\ LearnerOf[u] = l
                            /\ Stored(tab'[q]) /\ Stored(tab'[u])) => q = u
      BY <2>3
    <2>9. Downloads(l)' = {} /\ tab'[t] = th /\ th.at # "insert"
      BY <1>1, <1>4, <1>5, <2>2 DEF Downloads
    <2>10. ASSUME NEW q \in Tab, LearnerOf[q] = l
           PROVE  /\ tab'[q].at # "insert" /\ KnowsFinal(tab'[q], l, attempts')
      BY <2>3, <2>6, <2>7, <2>9, <2>10
    <2> QED BY <2>8, <2>9, <2>10
  <1>11. (Calm' /\ PassedAll(l)') => PassedAll(l) \/ WillIssue(th)
    <2> SUFFICES ASSUME Calm', PassedAll(l)', ~PassedAll(l)
                 PROVE  WillIssue(th)
      OBVIOUS
    <2>1. \A m : m # w.item => Tries(l, m)' = Tries(l, m)
      BY <1>1, <1>4 DEF Tries
    <2>2. SUFFICES ASSUME w.item = Final, ~w.passed PROVE FALSE
      BY <1>4 DEF WillIssue
    <2>3. PICK a \in Tries(l, Final)' : a.passed /\ \A b \in Tries(l, Final)' : b.stamp <= a.stamp
      BY DEF PassedAll, Passed
    <2>4. a \in Tries(l, Final) /\ Tries(l, Final) \subseteq Tries(l, Final)'
      BY <1>1, <1>4, <2>2, <2>3 DEF Tries
    <2>5. Passed(l, Final)
      BY <2>3, <2>4 DEF Passed
    <2>6. \A m \in ModulesOf(course) : Passed(l, m)
      <3> SUFFICES ASSUME NEW m \in ModulesOf(course) PROVE Passed(l, m)
        OBVIOUS
      <3>1. Passed(l, m)'
        BY <1>1 DEF PassedAll
      <3> QED BY <2>1, <2>2, <2>5, <3>1 DEF Passed
    <2> QED BY <2>5, <2>6 DEF PassedAll
  <1>12. /\ WillIssue(th) => LooksAfter(l)'
         /\ LooksAfter(l) => LooksAfter(l)'
    <2>1. ~WillIssue(w)
      BY <1>1 DEF WillIssue
    <2> QED BY <1>5, <2>1 DEF LooksAfter, WillIssue
  <1>13. Attended(l)'
    <2>1. Attended(l)
      BY <1>5 DEF Certified
    <2> QED BY <1>1, <1>11, <1>12, <2>1 DEF Attended, Calm
  <1>14. UpToDate(l)'
    <2> SUFFICES ASSUME l \notin raced', Calm', PassedAll(l)', ~LooksAfter(l)'
                 PROVE  FALSE
      BY DEF UpToDate
    <2>1. ~WillIssue(th) /\ ~LooksAfter(l) /\ PassedAll(l)
      BY <1>11, <1>12
    <2>2. w.item = Final /\ ~w.passed
      BY <1>4, <2>1 DEF WillIssue
    <2>3. KnowsFinal(th, l, attempts')
      BY <1>10, <1>5 DEF InTurn, KnowsFinal, Stored, Counts
    <2>4. PICK a \in attempts' : Counts(a, l, attempts') /\ ~a.passed
      BY <1>4, <2>2, <2>3 DEF KnowsFinal, Stored
    <2>5. PICK b \in Tries(l, Final)' : b.passed /\ \A c \in Tries(l, Final)' : c.stamp <= b.stamp
      BY DEF PassedAll, Passed
    <2>6. a \in Tries(l, Final)'
      BY <2>4 DEF Counts, Tries
    <2>7. /\ a.stamp <= b.stamp /\ b.stamp <= a.stamp
          /\ b \in attempts'
      BY <2>4, <2>5, <2>6 DEF Counts, Tries
    <2>8. a.stamp \in Nat /\ b.stamp \in Nat
      BY <1>1, <1>4, <1>6, <2>4, <2>7 DEF Counts
    <2>9. a = b
      <3>1. IInv'
        BY InsertKeeps
      <3>2. StampsAreUnique(tab', attempts')
        BY <3>1 DEF IInv
      <3> QED BY <2>4, <2>7, <2>8, <3>2 DEF StampsAreUnique
    <2> QED BY <2>4, <2>5, <2>9
  <1> QED BY <1>1, <1>7, <1>8, <1>9, <1>10, <1>13, <1>14 DEF Certified

\* The certificate is written with the result the submission knows.
LEMMA IssueCertifies ==
    ASSUME IInv, Certified, NEW t \in Tab, Issue(t)
    PROVE  Certified'
  <1> DEFINE w == tab[t]
             l == LearnerOf[t]
             shown == [score |-> w.score, max |-> w.max]
             c == [score |-> w.score, shown |-> shown, signed |-> FALSE]
  <1>1. /\ w.at = "issue" /\ tab' = [tab EXCEPT ![t] = Idle]
        /\ certificate' = [certificate EXCEPT ![l] = c]
        /\ UNCHANGED <<attempts, download, course, edits, crashes, raced>>
    BY DEF Issue, Goto, counters
  <1>2. /\ DOMAIN c = {"score", "shown", "signed"} /\ c.score = w.score /\ c.shown = shown
    OBVIOUS
  <1>3. c # NoCertificate
    <2>1. DOMAIN NoCertificate = {"none"}
      BY DEF NoCertificate
    <2> QED BY <1>2, <2>1
  <1> HIDE DEF c
  <1>4. /\ tab'[t] = Idle /\ \A r \in Tab : r # t => tab'[r] = tab[r]
        /\ l \in Learner /\ certificate'[l] = c
        /\ \A k \in Learner : k # l => certificate'[k] = certificate[k]
    BY <1>1, Facts
  <1>5. CoursesAgree'
    BY <1>1, <1>4 DEF Certified, CoursesAgree
  <1>6. \A k \in Learner : PassedAll(k)' <=> PassedAll(k)
    BY <1>1 DEF PassedAll, Passed, Tries
  <1>7. ASSUME NEW k \in Learner PROVE InTurn(k)'
    <2>1. InTurn(k)
      BY DEF Certified
    <2>2. SUFFICES ASSUME k \notin raced
                   PROVE  /\ \A q, u \in Tab : (/\ LearnerOf[q] = k /\ LearnerOf[u] = k
                                                /\ Stored(tab'[q]) /\ Stored(tab'[u])) => q = u
                          /\ \A q \in Tab : LearnerOf[q] = k =>
                               /\ Stored(tab'[q]) => Downloads(k) = {}
                               /\ tab'[q].at = "insert" =>
                                    \A a \in attempts : a.learner = k => a.stamp < tab'[q].stamp
                               /\ KnowsFinal(tab'[q], k, attempts)
      BY <1>1 DEF InTurn, Stored, KnowsFinal, Counts, Downloads
    <2> QED BY <1>4, <2>1, <2>2, IdleWaits DEF InTurn
  <1>8. ASSUME NEW k \in Learner, k # l PROVE Attended(k)' /\ UpToDate(k)'
    <2>1. Attended(k) /\ UpToDate(k)
      BY DEF Certified
    <2>2. LooksAfter(k) => LooksAfter(k)'
      BY <1>4, <1>8 DEF LooksAfter, WillIssue
    <2>3. \A a \in attempts : ShowsFinal(a, k) => ShowsFinal(a, k)'
      BY <1>1, <1>4, <1>8 DEF ShowsFinal, Result, Counts, Downloads
    <2> QED BY <1>1, <1>4, <1>6, <1>8, <2>1, <2>2, <2>3 DEF Attended, UpToDate, Calm
  <1>9. Attended(l)'
    BY <1>3, <1>4 DEF Attended
  <1>10. UpToDate(l)'
    <2> SUFFICES ASSUME l \notin raced PROVE \E a \in attempts' : ShowsFinal(a, l)'
      BY <1>1 DEF UpToDate
    <2>1. KnowsFinal(w, l, attempts) /\ (Stored(w) => Downloads(l) = {})
      BY <1>4 DEF Certified, InTurn
    <2>2. PICK a \in attempts : Counts(a, l, attempts) /\ w.score = a.score /\ w.max = a.max
      BY <1>1, <2>1 DEF KnowsFinal, Stored
    <2>3. Downloads(l)' = {}
      BY <1>1, <2>1 DEF Stored, Downloads
    <2>4. ShowsFinal(a, l)'
      BY <1>1, <1>2, <1>3, <1>4, <2>2, <2>3 DEF ShowsFinal, Counts, Result, Downloads
    <2> QED BY <1>1, <2>4
  <1> QED BY <1>1, <1>4, <1>5, <1>7, <1>8, <1>9, <1>10 DEF Certified

LEMMA PrepareReadCertifies ==
    ASSUME IInv, Certified, NEW d \in Window, PrepareRead(d)
    PROVE  Certified'
  <1> DEFINE l == HolderOf[d]
             copy == [at |-> "write", shown |-> certificate[l].shown]
  <1>1. /\ certificate[l] # NoCertificate /\ download' = [download EXCEPT ![d] = copy]
        /\ raced' = IF Writing(l) # {} THEN raced \cup {l} ELSE raced
        /\ UNCHANGED <<attempts, certificate, tab, course, edits, crashes>>
    BY DEF PrepareRead, counters
  <1>2. copy.shown = certificate[l].shown
    OBVIOUS
  <1> HIDE DEF copy
  <1>3. /\ l \in Learner
        /\ download'[d] = copy /\ \A e \in Window : e # d => download'[e] = download[e]
        /\ \A k \in Learner : k # l => Downloads(k)' = Downloads(k)
        /\ Downloads(l)' \subseteq Downloads(l) \cup {d}
        /\ \A k \in Learner : k # l => (k \in raced' <=> k \in raced)
        /\ raced \subseteq raced'
    BY <1>1, Facts DEF Downloads
  <1>4. l \notin raced' => \A q \in Tab : LearnerOf[q] = l => ~Stored(tab[q])
    BY <1>1 DEF Writing, Stored
  <1>5. CoursesAgree'
    BY <1>1 DEF Certified, CoursesAgree
  <1>6. ASSUME NEW k \in Learner PROVE InTurn(k)'
    <2>1. InTurn(k)
      BY DEF Certified
    <2>2. SUFFICES ASSUME k \notin raced'
                   PROVE  /\ \A q, u \in Tab : (/\ LearnerOf[q] = k /\ LearnerOf[u] = k
                                                /\ Stored(tab[q]) /\ Stored(tab[u])) => q = u
                          /\ \A q \in Tab : LearnerOf[q] = k =>
                               /\ Stored(tab[q]) => Downloads(k)' = {}
                               /\ tab[q].at = "insert" =>
                                    \A a \in attempts : a.learner = k => a.stamp < tab[q].stamp
                               /\ KnowsFinal(tab[q], k, attempts)
      BY <1>1 DEF InTurn, Stored, KnowsFinal, Counts, Downloads
    <2>3. k \notin raced
      BY <1>3, <2>2
    <2>4. \A q \in Tab : (LearnerOf[q] = k /\ Stored(tab[q])) => Downloads(k)' = {}
      BY <1>3, <1>4, <2>1, <2>2, <2>3 DEF InTurn
    <2> QED BY <2>1, <2>3, <2>4 DEF InTurn
  <1>7. \A k \in Learner : /\ PassedAll(k)' <=> PassedAll(k)
                           /\ LooksAfter(k)' <=> LooksAfter(k)
                           /\ Calm' <=> Calm
    BY <1>1 DEF PassedAll, Passed, Tries, LooksAfter, WillIssue, Calm
  <1>8. ASSUME NEW k \in Learner PROVE Attended(k)'
    BY <1>1, <1>7 DEF Certified, Attended
  <1>9. ASSUME NEW k \in Learner PROVE UpToDate(k)'
    <2>1. UpToDate(k)
      BY DEF Certified
    <2>2. \A a \in attempts : ShowsFinal(a, k) => ShowsFinal(a, k)'
      <3> SUFFICES ASSUME NEW a \in attempts, ShowsFinal(a, k) PROVE ShowsFinal(a, k)'
        OBVIOUS
      <3>1. \A e \in Downloads(k)' : download'[e].shown = Result(a)
        BY <1>2, <1>3 DEF ShowsFinal, Downloads
      <3> QED BY <1>1, <3>1 DEF ShowsFinal, Result, Counts
    <2> QED BY <1>1, <1>3, <1>7, <2>1, <2>2 DEF UpToDate
  <1> QED BY <1>1, <1>5, <1>6, <1>8, <1>9 DEF Certified

\* A download writes back what the certificate showed; had another result
\* come to count meanwhile, the requests would have overlapped.
LEMMA PrepareWriteCertifies ==
    ASSUME IInv, Certified, NEW d \in Window, PrepareWrite(d)
    PROVE  Certified'
  <1> DEFINE l == HolderOf[d]
             old == certificate[l]
             c == [old EXCEPT !.shown = download[d].shown, !.signed = TRUE]
  <1>1. /\ download[d] # NoDownload
        /\ certificate' = [certificate EXCEPT ![l] = c]
        /\ download' = [download EXCEPT ![d] = NoDownload]
        /\ UNCHANGED <<attempts, tab, course, edits, crashes, raced>>
    BY DEF PrepareWrite, counters
  <1>2. old # NoCertificate
    BY <1>1, Facts DEF DownloadFits
  <1>3. DOMAIN old = {"score", "shown", "signed"}
    BY <1>2, Facts DEF CertificateFits
  <1>4. /\ DOMAIN c = DOMAIN old /\ c.score = old.score /\ c.shown = download[d].shown
    BY <1>3
  <1> HIDE DEF c
  <1>5. c # NoCertificate
    <2>1. DOMAIN NoCertificate = {"none"}
      BY DEF NoCertificate
    <2> QED BY <1>3, <1>4, <2>1
  <1>6. /\ l \in Learner /\ d \in Downloads(l)
        /\ download'[d] = NoDownload /\ \A e \in Window : e # d => download'[e] = download[e]
        /\ certificate'[l] = c /\ \A k \in Learner : k # l => certificate'[k] = certificate[k]
        /\ \A k \in Learner : \A e \in Downloads(k)' :
             e \in Downloads(k) /\ download'[e] = download[e]
    BY <1>1, Facts DEF Downloads
  <1>7. CoursesAgree'
    BY <1>1 DEF Certified, CoursesAgree
  <1>8. ASSUME NEW k \in Learner PROVE InTurn(k)'
    <2>1. InTurn(k)
      BY DEF Certified
    <2>2. SUFFICES ASSUME k \notin raced
                   PROVE  /\ \A q, u \in Tab : (/\ LearnerOf[q] = k /\ LearnerOf[u] = k
                                                /\ Stored(tab[q]) /\ Stored(tab[u])) => q = u
                          /\ \A q \in Tab : LearnerOf[q] = k =>
                               /\ Stored(tab[q]) => Downloads(k)' = {}
                               /\ tab[q].at = "insert" =>
                                    \A a \in attempts : a.learner = k => a.stamp < tab[q].stamp
                               /\ KnowsFinal(tab[q], k, attempts)
      BY <1>1 DEF InTurn, Stored, KnowsFinal, Counts, Downloads
    <2> QED BY <1>6, <2>1, <2>2 DEF InTurn
  <1>9. \A k \in Learner : /\ PassedAll(k)' <=> PassedAll(k)
                           /\ LooksAfter(k)' <=> LooksAfter(k)
                           /\ Calm' <=> Calm
    BY <1>1 DEF PassedAll, Passed, Tries, LooksAfter, WillIssue, Calm
  <1>10. ASSUME NEW k \in Learner PROVE Attended(k)'
    BY <1>5, <1>6, <1>9 DEF Certified, Attended
  <1>11. ASSUME NEW k \in Learner PROVE UpToDate(k)'
    <2>1. UpToDate(k)
      BY DEF Certified
    <2>2. \A a \in attempts : ShowsFinal(a, k) => ShowsFinal(a, k)'
      <3> SUFFICES ASSUME NEW a \in attempts, ShowsFinal(a, k) PROVE ShowsFinal(a, k)'
        OBVIOUS
      <3>1. \A e \in Downloads(k)' : download'[e].shown = Result(a)
        BY <1>6 DEF ShowsFinal
      <3>2. k = l => c.shown = Result(a) /\ c.score = a.score
        BY <1>4, <1>6 DEF ShowsFinal
      <3> QED BY <1>1, <1>5, <1>6, <3>1, <3>2 DEF ShowsFinal, Result, Counts
    <2> QED BY <1>1, <1>9, <2>1, <2>2 DEF UpToDate
  <1> QED BY <1>1, <1>7, <1>8, <1>10, <1>11 DEF Certified

\* After a restart, or an edit, the course is looked at with the next
\* submission; that the requests of a learner take turns stays true.
LEMMA CrashCertifies ==
    ASSUME IInv, Certified, Crash
    PROVE  Certified'
  <1>1. /\ \A t \in Tab : tab'[t] = Idle
        /\ \A d \in Window : download'[d] = NoDownload
        /\ crashes' = crashes + 1
        /\ UNCHANGED <<attempts, certificate, course, edits, raced>>
    BY DEF Crash
  <1>2. crashes' \in Nat /\ ~Calm'
    BY <1>1 DEF Certified, Calm
  <1>3. CoursesAgree'
    BY <1>1 DEF CoursesAgree
  <1>4. ASSUME NEW l \in Learner PROVE InTurn(l)'
    <2>1. \A t \in Tab : /\ ~Stored(tab'[t]) /\ tab'[t].at # "insert"
                         /\ KnowsFinal(tab'[t], l, attempts')
      BY <1>1, IdleWaits
    <2> QED BY <2>1 DEF InTurn, Stored, KnowsFinal, Counts, Downloads
  <1> QED BY <1>1, <1>2, <1>3, <1>4 DEF Certified, Attended, UpToDate

LEMMA SaveCertifies ==
    ASSUME IInv, Certified, NEW raw, SaveCourse(raw)
    PROVE  Certified'
  <1>1. /\ edits' = edits + 1
        /\ UNCHANGED <<attempts, certificate, tab, download, crashes, raced>>
    BY DEF SaveCourse
  <1>2. edits' \in Nat /\ edits' # 0
    BY <1>1 DEF Certified
  <1>3. \A l \in Learner : InTurn(l)'
    BY <1>1 DEF Certified, InTurn, Stored, KnowsFinal, Counts, Downloads
  <1> QED BY <1>1, <1>2, <1>3 DEF Certified, CoursesAgree, Attended, UpToDate, Calm

LEMMA RestCertifies ==
    ASSUME Certified,
           UNCHANGED <<course, attempts, certificate, tab, download, edits, crashes, raced>>
    PROVE  Certified'
  <1>1. CoursesAgree'
    BY DEF Certified, CoursesAgree
  <1>2. \A l \in Learner : InTurn(l)'
    BY DEF Certified, InTurn, Stored, KnowsFinal, Counts, Downloads
  <1>3. \A l \in Learner : /\ PassedAll(l)' <=> PassedAll(l)
                           /\ LooksAfter(l)' <=> LooksAfter(l)
                           /\ Calm' <=> Calm
    BY DEF PassedAll, Passed, Tries, LooksAfter, WillIssue, Calm
  <1>4. \A l \in Learner, a \in attempts : ShowsFinal(a, l) => ShowsFinal(a, l)'
    BY DEF ShowsFinal, Result, Counts, Downloads
  <1>5. \A l \in Learner : Attended(l)' /\ UpToDate(l)'
    BY <1>3, <1>4 DEF Certified, Attended, UpToDate
  <1> QED BY <1>1, <1>2, <1>5 DEF Certified

LEMMA InitCertifies ==
    Init => Certified
  <1> SUFFICES ASSUME Init PROVE Certified
    OBVIOUS
  <1>1. /\ attempts = {} /\ edits = 0 /\ crashes = 0
        /\ \A t \in Tab : tab[t] = Idle
        /\ \A d \in Window : download[d] = NoDownload
    BY DEF Init
  <1>2. IsFiniteSet(attempts)
    BY <1>1, FS_EmptySet
  <1>3. \A l : ~PassedAll(l)
    BY <1>1 DEF PassedAll, Passed, Tries
  <1>4. \A l \in Learner : InTurn(l)
    BY <1>1, IdleWaits DEF InTurn
  <1> QED BY <1>1, <1>2, <1>3, <1>4 DEF Certified, CoursesAgree, Attended, UpToDate

LEMMA NextCertifies ==
    IInv /\ Certified /\ [Next]_vars => Certified'
  <1> SUFFICES ASSUME IInv, Certified, [Next]_vars PROVE Certified'
    OBVIOUS
  <1>1. ASSUME NEW t \in Tab, Serve(t) PROVE Certified'
    BY <1>1, CheckCertifies, StampCertifies, InsertCertifies, RefreshCertifies,
       DecideCertifies, IssueCertifies DEF Serve
  <1>2. ASSUME NEW t \in Tab, NEW item, NEW answers, Submit(t, item, answers) PROVE Certified'
    BY <1>2, SubmitCertifies
  <1>3. ASSUME NEW d \in Window, PrepareRead(d) \/ PrepareWrite(d) PROVE Certified'
    BY <1>3, PrepareReadCertifies, PrepareWriteCertifies
  <1>4. ASSUME NEW scope, NEW enabled, SetRelease(scope, enabled) PROVE Certified'
    BY <1>4, RestCertifies DEF SetRelease
  <1>5. ASSUME NEW raw, SaveCourse(raw) PROVE Certified'
    BY <1>5, SaveCertifies
  <1>6. ASSUME Crash PROVE Certified'
    BY <1>6, CrashCertifies
  <1>7. ASSUME UNCHANGED vars PROVE Certified'
    BY <1>7, RestCertifies DEF vars, counters
  <1> QED BY <1>1, <1>2, <1>3, <1>4, <1>5, <1>6, <1>7 DEF Next

LEMMA CertifiedInvariance ==
    Spec => [](IInv /\ Certified)
  BY InitFits, NextKeeps, InitCertifies, NextCertifies, PTL DEF Spec

\* An attempt stands at a place, and what stands before it is newer.
StandsAt(a, n, l) ==
  LET history == AttemptHistory(l) IN
  /\ n \in Nat /\ history[n] = a
  /\ \A k \in 1 .. n - 1 : /\ history[k] \in attempts /\ history[k].learner = l
                           /\ history[k].stamp > a.stamp

\* In the history, every attempt stands at the place that its age gives it.
LEMMA HistoryIsSorted ==
    ASSUME IInv, IsFiniteSet(attempts), NEW l
    PROVE  \A a \in attempts : a.learner = l =>
             \E n \in DOMAIN AttemptHistory(l) : StandsAt(a, n, l)
  <1> PICK own : own = {a \in attempts : a.learner = l}
    OBVIOUS
  <1> DEFINE Newer(a) == {b \in own : b.stamp >= a.stamp}
             Place(a) == Cardinality(Newer(a))
             history == AttemptHistory(l)
  <1>1. /\ IsFiniteSet(own) /\ Cardinality(own) \in Nat
        /\ \A a \in own : a \in attempts /\ a.learner = l
    BY FS_Subset, FS_CardinalityType
  <1>2. \A a \in own : a.stamp \in Nat /\ \A b \in own : a.stamp = b.stamp => a = b
    BY <1>1, Facts DEF AttemptsFit, StampsAreUnique
  <1>3. ASSUME NEW a \in own
        PROVE  /\ IsFiniteSet(Newer(a)) /\ Place(a) \in 1 .. Cardinality(own)
               /\ Place(a) \in Nat /\ Place(a) <= Cardinality(own)
    <2>1. IsFiniteSet(Newer(a)) /\ Place(a) \in Nat /\ Place(a) <= Cardinality(own)
      BY <1>1, FS_Subset, FS_CardinalityType
    <2>2. a \in Newer(a)
      BY <1>2
    <2>3. Place(a) # 0
      BY <2>1, <2>2, FS_EmptySet
    <2> QED BY <1>1, <2>1, <2>3
  <1>4. ASSUME NEW a \in own, NEW b \in own, a.stamp > b.stamp
        PROVE  Place(a) < Place(b)
    <2>1. Newer(a) \subseteq Newer(b) /\ b \in Newer(b) /\ b \notin Newer(a)
      BY <1>2, <1>4
    <2>2. IsFiniteSet(Newer(b)) /\ Newer(a) \in SUBSET Newer(b) /\ Newer(a) # Newer(b)
      BY <1>3, <2>1
    <2> HIDE DEF Newer
    <2>3. Cardinality(Newer(a)) <= Cardinality(Newer(b))
          /\ Cardinality(Newer(a)) # Cardinality(Newer(b))
      BY <2>2, FS_Subset
    <2> QED BY <1>3, <2>3
  <1>5. history = [n \in 1 .. Cardinality(own) |-> CHOOSE a \in own : Place(a) = n]
    BY DEF AttemptHistory
  <1> HIDE DEF Place, history
  <1>6. \A a, b \in own : Place(a) = Place(b) => a = b
    <2> SUFFICES ASSUME NEW a \in own, NEW b \in own, Place(a) = Place(b), a # b PROVE FALSE
      OBVIOUS
    <2>1. a.stamp > b.stamp \/ b.stamp > a.stamp
      BY <1>2
    <2>2. Place(a) < Place(b) \/ Place(b) < Place(a)
      BY <1>4, <2>1
    <2>3. Place(a) \in Nat /\ Place(b) \in Nat
      BY <1>3
    <2> QED BY <2>2, <2>3
  <1>7. ASSUME NEW a \in own
        PROVE  Place(a) \in DOMAIN history /\ history[Place(a)] = a
    <2>1. PICK n \in 1 .. Cardinality(own) : n = Place(a)
      BY <1>3
    <2>2. DOMAIN history = 1 .. Cardinality(own) /\ history[n] = CHOOSE b \in own : Place(b) = n
      BY <1>5
    <2> DEFINE c == CHOOSE b \in own : Place(b) = n
    <2>3. c \in own /\ Place(c) = n
      BY <2>1
    <2> HIDE DEF c
    <2>4. c = a
      BY <1>6, <2>1, <2>3
    <2> QED BY <2>1, <2>2, <2>4 DEF c
  <1> SUFFICES ASSUME NEW a \in own
               PROVE  \E n \in DOMAIN history :
                        /\ n \in Nat /\ history[n] = a
                        /\ \A k \in 1 .. n - 1 : /\ history[k] \in attempts /\ history[k].learner = l
                                                 /\ history[k].stamp > a.stamp
    BY DEF history, StandsAt
  <1>8. PICK rank : rank = [b \in own |-> Place(b)]
    OBVIOUS
  <1>9. rank \in Injection(own, 1 .. Cardinality(own))
    BY <1>3, <1>6, <1>8, ZenonT(40) DEF Injection, IsInjective
  <1>10. rank \in Surjection(own, 1 .. Cardinality(own))
    <2>1. IsFiniteSet(1 .. Cardinality(own)) /\ Cardinality(1 .. Cardinality(own)) = Cardinality(own)
      BY <1>1, FS_Interval
    <2> QED BY <1>9, <2>1, FS_Injection
  <1>11. ASSUME NEW k \in 1 .. Place(a) - 1
         PROVE  /\ history[k] \in attempts /\ history[k].learner = l
                /\ history[k].stamp > a.stamp
    <2>1. PICK p \in Nat : p = Place(a) /\ p <= Cardinality(own)
      BY <1>3
    <2>2. k \in 1 .. Cardinality(own) /\ k < p
      BY <1>1, <2>1
    <2>3. PICK b \in own : rank[b] = k
      BY <1>10, <2>2 DEF Surjection
    <2>4. Place(b) = k
      BY <1>8, <2>3
    <2>5. ~(p < k) /\ p # k
      BY <2>1, <2>2
    <2>6. ~(a.stamp > b.stamp) /\ a # b
      BY <1>4, <2>1, <2>4, <2>5
    <2>7. b.stamp > a.stamp
      BY <1>2, <2>6
    <2>8. history[k] = b
      BY <1>7, <2>4
    <2> QED BY <1>1, <2>7, <2>8
  <1> QED BY <1>3, <1>7, <1>11

(* Who has passed all modules and the final, with no request under way, is *)
(* certified, and unless two of the learner's requests overlapped, with the*)
(* final that heads the history: _refresh_certificate after the insert of  *)
(* submit_assessment, for any number of tabs and downloads.                *)
THEOREM WhoPassedIsCertified ==
    Spec => []PassedIsCertified
  <1>1. IInv /\ Certified => PassedIsCertified
    <2> SUFFICES ASSUME IInv, Certified, NEW l \in Learner, crashes = 0, edits = 0,
                        \A t \in Tab : LearnerOf[t] = l => tab[t] = Idle,
                        Overview(l).passed = ModulesOf(course), Overview(l).final
                 PROVE  /\ Overview(l).certified
                        /\ l \notin raced =>
                             LET history == AttemptHistory(l) IN
                             \E n \in DOMAIN history :
                               /\ history[n].item = Final
                               /\ \A k \in 1 .. n - 1 : history[k].item # Final
                               /\ certificate[l].shown = [score |-> history[n].score,
                                                          max |-> history[n].max]
                               /\ Verification(l).score = history[n].score
      BY DEF PassedIsCertified
    <2>1. Calm /\ PassedAll(l)
      BY DEF Calm, PassedAll, Overview
    <2>2. ~LooksAfter(l)
      BY IdleWaits DEF LooksAfter
    <2>3. certificate[l] # NoCertificate
      BY <2>1, <2>2 DEF Certified, Attended
    <2>4. Overview(l).certified
      BY <2>3 DEF Overview
    <2>5. ASSUME l \notin raced
          PROVE  \E n \in DOMAIN AttemptHistory(l) :
                   /\ AttemptHistory(l)[n].item = Final
                   /\ \A k \in 1 .. n - 1 : AttemptHistory(l)[k].item # Final
                   /\ certificate[l].shown = [score |-> AttemptHistory(l)[n].score,
                                              max |-> AttemptHistory(l)[n].max]
                   /\ Verification(l).score = AttemptHistory(l)[n].score
      <3>1. PICK a \in attempts : ShowsFinal(a, l)
        BY <2>1, <2>2, <2>5 DEF Certified, UpToDate
      <3>2. a.learner = l /\ a.item = Final
            /\ \A b \in attempts : b.learner = l /\ b.item = Final => b.stamp <= a.stamp
        BY <3>1 DEF ShowsFinal, Counts
      <3>3. PICK n \in DOMAIN AttemptHistory(l) :
              /\ n \in Nat /\ AttemptHistory(l)[n] = a
              /\ \A k \in 1 .. n - 1 :
                   /\ AttemptHistory(l)[k] \in attempts /\ AttemptHistory(l)[k].learner = l
                   /\ AttemptHistory(l)[k].stamp > a.stamp
        <4>1. IsFiniteSet(attempts)
          BY DEF Certified
        <4>2. a.learner = l
          BY <3>2
        <4>3. PICK n \in DOMAIN AttemptHistory(l) : StandsAt(a, n, l)
          BY <4>1, <4>2, HistoryIsSorted
        <4> QED BY <4>3 DEF StandsAt
      <3>4. \A b \in attempts : b.stamp \in Int
        BY Facts DEF AttemptsFit
      <3>5. \A k \in 1 .. n - 1 : AttemptHistory(l)[k].item # Final
        BY <3>1, <3>2, <3>3, <3>4
      <3>6. certificate[l].score = a.score
            /\ certificate[l].shown = [score |-> a.score, max |-> a.max]
        BY <3>1 DEF ShowsFinal, Result
      <3>7. Verification(l).score = a.score
        BY <3>6 DEF Verification
      <3> QED BY <3>2, <3>3, <3>5, <3>6, <3>7
    <2> QED BY <2>4, <2>5
  <1> QED BY <1>1, CertifiedInvariance, PTL

-----------------------------------------------------------------------------
(* What Points adds up, by induction over the questions.                   *)

LEMMA LeastNumber ==
    ASSUME NEW S, S \subseteq Nat, S # {}
    PROVE  \E n \in S : \A k \in S : n <= k
  <1>1. IsWellFoundedOn(OpToRel(<, Nat), Nat)
    BY NatLessThanWellFounded
  <1>2. PICK n \in S : \A k \in S : ~(<<k, n>> \in OpToRel(<, Nat))
    BY <1>1, WFMin
  <1>3. \A k \in S : k \in Nat
    OBVIOUS
  <1>4. \A k \in S : ~(k < n)
    BY <1>2, <1>3 DEF OpToRel
  <1>5. \A k \in S : n <= k
    BY <1>3, <1>4
  <1> QED BY <1>2, <1>5

\* Induction, for a set in the place of a predicate.
LEMMA Induction ==
    ASSUME NEW S, 0 \in S, \A n \in Nat : n \in S => n + 1 \in S
    PROVE  Nat \subseteq S
  <1> SUFFICES ASSUME Nat \ S # {} PROVE FALSE
    OBVIOUS
  <1>1. PICK n \in Nat \ S : \A k \in Nat \ S : n <= k
    BY LeastNumber
  <1>2. n # 0 /\ n - 1 \in Nat
    BY <1>1
  <1>3. n - 1 \in S
    BY <1>1, <1>2
  <1> QED BY <1>1, <1>2, <1>3

\* s holds the sums of the first questions.
AddsUp(s, q, which, m) ==
  s = [n \in 0 .. m |-> IF n = 0 THEN 0
                        ELSE IF n \in which THEN Plus(s[n - 1], q[n].points) ELSE s[n - 1]]

LEMMA SumsExist ==
    ASSUME NEW q, NEW which, NEW m \in Nat
    PROVE  \E s : AddsUp(s, q, which, m)
  <1> DEFINE S == {k \in Nat : \E s : AddsUp(s, q, which, k)}
  <1>1. 0 \in S
    <2>1. PICK s : s = [n \in 0 .. 0 |-> 0]
      OBVIOUS
    <2>2. AddsUp(s, q, which, 0)
      BY <2>1 DEF AddsUp
    <2> QED BY <2>2
  <1>2. ASSUME NEW k \in Nat, k \in S PROVE k + 1 \in S
    <2>1. PICK s : AddsUp(s, q, which, k)
      BY <1>2
    <2> DEFINE Next1 == IF k + 1 \in which THEN Plus(s[k], q[k + 1].points) ELSE s[k]
    <2>2. PICK u : u = [n \in 0 .. k + 1 |-> IF n = k + 1 THEN Next1 ELSE s[n]]
      OBVIOUS
    <2>3. ASSUME NEW n \in 0 .. k + 1
          PROVE  u[n] = IF n = 0 THEN 0
                        ELSE IF n \in which THEN Plus(u[n - 1], q[n].points) ELSE u[n - 1]
      <3>1. CASE n = k + 1
        <4>1. u[n] = Next1 /\ u[n - 1] = s[k]
          BY <2>2, <3>1
        <4> QED BY <3>1, <4>1
      <3>2. CASE n \in 0 .. k
        <4>1. u[n] = s[n] /\ (n # 0 => u[n - 1] = s[n - 1])
          BY <2>2, <3>2
        <4>2. s[n] = IF n = 0 THEN 0
                     ELSE IF n \in which THEN Plus(s[n - 1], q[n].points) ELSE s[n - 1]
          BY <2>1, <3>2 DEF AddsUp
        <4> QED BY <4>1, <4>2
      <3> QED BY <3>1, <3>2
    <2>4. u = [n \in 0 .. k + 1 |-> u[n]]
      BY <2>2
    <2>5. AddsUp(u, q, which, k + 1)
      BY <2>3, <2>4 DEF AddsUp
    <2> QED BY <2>5
  <1> HIDE DEF S
  <1>3. m \in S
    BY <1>1, <1>2, Induction
  <1> QED BY <1>3 DEF S

LEMMA PointsAddUp ==
    ASSUME NEW q, NEW which, Len(q) \in Nat
    PROVE  \E s : AddsUp(s, q, which, Len(q)) /\ Points(q, which) = s[Len(q)]
  <1> DEFINE sum[n \in 0 .. Len(q)] ==
               IF n = 0 THEN 0
               ELSE IF n \in which THEN Plus(sum[n - 1], q[n].points) ELSE sum[n - 1]
  <1>1. Points(q, which) = sum[Len(q)]
    BY DEF Points
  <1>2. \E s : s = [n \in 0 .. Len(q) |->
                    IF n = 0 THEN 0
                    ELSE IF n \in which THEN Plus(s[n - 1], q[n].points) ELSE s[n - 1]]
    <2>1. \E s : AddsUp(s, q, which, Len(q))
      BY SumsExist
    <2> QED BY <2>1 DEF AddsUp
  <1>3. sum = [n \in 0 .. Len(q) |->
                IF n = 0 THEN 0
                ELSE IF n \in which THEN Plus(sum[n - 1], q[n].points) ELSE sum[n - 1]]
    BY <1>2
  <1> HIDE DEF sum
  <1> QED BY <1>1, <1>3 DEF AddsUp

\* An amount of points, and that one is no more than another.
Amount == 0 .. Largest \cup {Infinite}
NoMore(s, u) == u = Infinite \/ (u \in 0 .. Largest /\ s \in 0 .. u)

\* Questions as they are kept: at least one, each worth a point or more.
QuestionsFit(q) ==
  /\ Len(q) \in Nat \ {0} /\ DOMAIN q = 1 .. Len(q)
  /\ \A k \in DOMAIN q : q[k].points \in 1 .. Largest \cup {Infinite}

LEMMA PlusGrows ==
    ASSUME NEW s \in Amount, NEW u \in Amount, NoMore(s, u),
           NEW p \in 1 .. Largest \cup {Infinite}
    PROVE  /\ Plus(s, p) \in Amount /\ Plus(u, p) \in Amount /\ Plus(u, p) # 0
           /\ NoMore(s, Plus(u, p)) /\ NoMore(Plus(s, p), Plus(u, p))
  BY CurriculumAssumption DEF Amount, NoMore, Plus

\* Nobody scores more than the maximum, and the maximum is positive.
LEMMA PointsBounded ==
    ASSUME NEW q, NEW which, QuestionsFit(q)
    PROVE  /\ Points(q, DOMAIN q) \in 1 .. Largest \cup {Infinite}
           /\ Points(q, which) \in Amount
           /\ NoMore(Points(q, which), Points(q, DOMAIN q))
  <1> PICK m : m = Len(q)
    OBVIOUS
  <1>1. /\ m \in Nat /\ m # 0 /\ DOMAIN q = 1 .. m
        /\ \A k \in 1 .. m : q[k].points \in 1 .. Largest \cup {Infinite}
    BY DEF QuestionsFit
  <1>2. PICK s : AddsUp(s, q, which, m) /\ Points(q, which) = s[m]
    BY <1>1, PointsAddUp
  <1>3. PICK u : AddsUp(u, q, DOMAIN q, m) /\ Points(q, DOMAIN q) = u[m]
    BY <1>1, PointsAddUp
  <1>4. s[0] = 0 /\ u[0] = 0
    BY <1>1, <1>2, <1>3 DEF AddsUp
  <1>5. \A n \in 1 .. m : /\ s[n] = IF n \in which THEN Plus(s[n - 1], q[n].points) ELSE s[n - 1]
                          /\ u[n] = Plus(u[n - 1], q[n].points)
    BY <1>1, <1>2, <1>3 DEF AddsUp
  <1> DEFINE S == {n \in Nat : n <= m => /\ s[n] \in Amount /\ u[n] \in Amount
                                         /\ NoMore(s[n], u[n])
                                         /\ n # 0 => u[n] # 0}
  <1>6. 0 \in S
    BY <1>4, CurriculumAssumption DEF Amount, NoMore
  <1>7. ASSUME NEW n \in Nat, n \in S PROVE n + 1 \in S
    <2> SUFFICES ASSUME n + 1 <= m
                 PROVE  /\ s[n + 1] \in Amount /\ u[n + 1] \in Amount
                        /\ NoMore(s[n + 1], u[n + 1]) /\ u[n + 1] # 0
      OBVIOUS
    <2>1. s[n] \in Amount /\ u[n] \in Amount /\ NoMore(s[n], u[n])
      BY <1>1, <1>7
    <2>2. (n + 1) \in 1 .. m /\ (n + 1) - 1 = n
      BY <1>1
    <2>3. PICK p \in 1 .. Largest \cup {Infinite} : p = q[n + 1].points
      <3> PICK k \in 1 .. m : k = n + 1
        BY <2>2
      <3> QED BY <1>1
    <2>4. s[n + 1] \in {s[n], Plus(s[n], p)} /\ u[n + 1] = Plus(u[n], p)
      BY <1>5, <2>2, <2>3
    <2> QED BY <2>1, <2>4, PlusGrows
  <1>8. m \in S
    <2> HIDE DEF S
    <2> QED BY <1>1, <1>6, <1>7, Induction
  <1>9. s[m] \in Amount /\ u[m] \in Amount /\ NoMore(s[m], u[m]) /\ u[m] # 0
    BY <1>1, <1>8
  <1>10. u[m] \in 1 .. Largest \cup {Infinite}
    BY <1>9, CurriculumAssumption DEF Amount
  <1> QED BY <1>2, <1>3, <1>9, <1>10

-----------------------------------------------------------------------------
(* What an accepted course looks like, and that attempts are graded.       *)

LEMMA ListLength ==
    ASSUME NEW n \in Nat, NEW f, f = [k \in 1 .. n |-> f[k]]
    PROVE  /\ Len(f) = n /\ DOMAIN f = 1 .. n
           /\ f # <<>> => n # 0
  <1> PICK S : S = {f[k] : k \in 1 .. n}
    OBVIOUS
  <1>1. f \in [1 .. n -> S]
    OBVIOUS
  <1>2. f \in Seq(S)
    BY <1>1
  <1>3. Len(f) \in Nat /\ DOMAIN f = 1 .. Len(f) /\ DOMAIN f = 1 .. n
    BY <1>1, <1>2, LenProperties
  <1>4. Len(f) = n
    BY <1>3
  <1>5. f # <<>> => Len(f) # 0
    BY <1>2, EmptySeq
  <1> QED BY <1>3, <1>4, <1>5

LEMMA NormalQuestionsFit ==
    ASSUME NEW raws, QuestionsSent(raws), QuestionsAccepted(raws)
    PROVE  /\ QuestionsFit(NormalQuestions(raws))
           /\ DOMAIN NormalQuestions(raws) = DOMAIN raws
           /\ \A k \in DOMAIN raws : NormalQuestions(raws)[k] = NormalQuestion(raws[k])
  <1> PICK n \in Nat : n = Len(raws)
    BY DEF QuestionsSent
  <1> PICK q : q = NormalQuestions(raws)
    OBVIOUS
  <1>1. DOMAIN raws = 1 .. n /\ n # 0
    BY ListLength DEF QuestionsSent, QuestionsAccepted
  <1>2. q = [k \in 1 .. n |-> NormalQuestion(raws[k])]
    BY <1>1 DEF NormalQuestions
  <1>3. Len(q) = n /\ DOMAIN q = 1 .. n
    <2>1. q = [k \in 1 .. n |-> q[k]]
      BY <1>2
    <2> QED BY <2>1, ListLength
  <1>4. \A k \in 1 .. n : q[k].points \in 1 .. Largest \cup {Infinite}
    <2> SUFFICES ASSUME NEW k \in 1 .. n PROVE Worth(raws[k].points) \in 1 .. Largest \cup {Infinite}
      BY <1>2 DEF NormalQuestion
    <2>1. raws[k].points \in {p \in Int : p <= Largest} \cup {Infinite}
      BY <1>1 DEF QuestionsSent
    <2> QED BY <2>1, CurriculumAssumption DEF Worth, Raise
  <1> QED BY <1>1, <1>2, <1>3, <1>4 DEF QuestionsFit

\* A course in force: whatever is asked in it, it can be graded.
CourseFits(c) ==
  \A item \in ModulesOf(c) \cup {Final} :
    QuestionsFit(Assessment(c, item).questions) /\ Assessment(c, item).ratio \in 10 .. 100

\* What is asked is a list of questions the editor has sent.
LEMMA AssessmentSent ==
    ASSUME NEW raw, CourseSent(raw), CourseAccepted(raw),
           NEW item \in ModulesOf(NormalCourse(raw)) \cup {Final}
    PROVE  \E raws :
             /\ raws = raw.final \/ \E k \in DOMAIN raw.modules : raws = raw.modules[k].questions
             /\ QuestionsSent(raws) /\ QuestionsAccepted(raws)
             /\ Assessment(NormalCourse(raw), item).questions = NormalQuestions(raws)
             /\ Assessment(NormalCourse(raw), item).ratio \in 10 .. 100
  <1> PICK c : c = NormalCourse(raw)
    OBVIOUS
  <1>1. /\ c.final = NormalQuestions(raw.final) /\ c.ratio = Ratio(raw.ratio)
        /\ c.modules = [k \in DOMAIN raw.modules |->
                         [id |-> raw.modules[k].id, ratio |-> Ratio(raw.modules[k].ratio),
                          questions |-> NormalQuestions(raw.modules[k].questions)]]
    BY DEF NormalCourse
  <1>2. \A percent \in Int : Ratio(percent) \in 10 .. 100
    BY DEF Ratio, Raise
  <1>3. CASE item = Final
    <2>1. Assessment(c, item) = [questions |-> c.final, ratio |-> c.ratio]
      BY <1>3 DEF Assessment
    <2>2. QuestionsSent(raw.final) /\ QuestionsAccepted(raw.final) /\ raw.ratio \in Int
      BY DEF CourseSent, CourseAccepted
    <2>3. /\ Assessment(c, item).questions = NormalQuestions(raw.final)
          /\ Assessment(c, item).ratio \in 10 .. 100
      BY <1>1, <1>2, <2>1, <2>2
    <2> QED BY <2>2, <2>3
  <1>4. CASE item # Final
    <2>1. \E i \in DOMAIN c.modules : c.modules[i].id = item
      BY <1>4 DEF ModulesOf
    <2> DEFINE k == CHOOSE i \in DOMAIN c.modules : c.modules[i].id = item
    <2>2. k \in DOMAIN c.modules
      BY <2>1
    <2>3. Assessment(c, item) = [questions |-> c.modules[k].questions, ratio |-> c.modules[k].ratio]
      BY <1>4 DEF Assessment
    <2> HIDE DEF k
    <2>4. /\ k \in DOMAIN raw.modules
          /\ c.modules[k].questions = NormalQuestions(raw.modules[k].questions)
          /\ c.modules[k].ratio = Ratio(raw.modules[k].ratio)
      BY <1>1, <2>2
    <2>5. /\ QuestionsSent(raw.modules[k].questions) /\ raw.modules[k].ratio \in Int
          /\ QuestionsAccepted(raw.modules[k].questions)
      BY <2>4 DEF CourseSent, CourseAccepted
    <2> QED BY <1>2, <2>3, <2>4, <2>5
  <1> QED BY <1>3, <1>4

LEMMA NormalCourseFits ==
    ASSUME NEW raw, CourseSent(raw), CourseAccepted(raw)
    PROVE  CourseFits(NormalCourse(raw))
  BY AssessmentSent, NormalQuestionsFit DEF CourseFits

\* A grade: scores are at most the maximum; of an infinite one none passes.
Graded(x) ==
  \/ x.max = Infinite /\ x.score \in Nat \cup {Infinite} /\ ~x.passed
  \/ x.max \in 1 .. Largest /\ x.score \in 0 .. x.max

LEMMA GradeFits ==
    ASSUME NEW c, CourseFits(c), NEW item \in ModulesOf(c) \cup {Final}, NEW answers
    PROVE  Graded(Grade(c, item, answers))
  <1> PICK a : a = Assessment(c, item)
    OBVIOUS
  <1> PICK right : right = {k \in DOMAIN a.questions :
                              Correct(a.questions[k], answers[a.questions[k].id])}
    OBVIOUS
  <1>1. /\ Grade(c, item, answers).score = Points(a.questions, right)
        /\ Grade(c, item, answers).max = Points(a.questions, DOMAIN a.questions)
        /\ Grade(c, item, answers).max = Infinite => ~Grade(c, item, answers).passed
    BY DEF Grade
  <1>2. QuestionsFit(a.questions)
    BY DEF CourseFits
  <1>3. /\ Points(a.questions, DOMAIN a.questions) \in 1 .. Largest \cup {Infinite}
        /\ Points(a.questions, right) \in Amount
        /\ NoMore(Points(a.questions, right), Points(a.questions, DOMAIN a.questions))
    BY <1>2, PointsBounded
  <1> QED BY <1>1, <1>3, CurriculumAssumption DEF Graded, Amount, NoMore

\* Where a submission stands as long as its grade will still be stored.
Grading == {"release", "groups", "payload", "regroup", "unlocked", "stamp", "insert"}

Typed ==
  /\ release \in [Learner \cup Group -> {"none", "on", "off"}]
  /\ clock \in 0 .. MaxAttempts
  /\ edits \in Nat /\ changes \in Nat /\ crashes \in Nat
  /\ raced \subseteq Learner
  /\ CourseFits(course)
  /\ \A t \in Tab :
       /\ tab[t].at \in {"idle", "release", "groups", "payload", "regroup", "unlocked",
                         "stamp", "insert", "refresh", "decide", "issue"}
       /\ tab[t].at \in Grading => Graded(tab[t])
  /\ \A a \in attempts : a.learner \in Learner /\ Graded(a)

\* A step of one submission that gives no grade.
LEMMA TypedStep ==
    ASSUME IInv, Typed, NEW t \in Tab, NEW th, tab' = [tab EXCEPT ![t] = th],
           UNCHANGED <<course, release, attempts, edits, changes, crashes, raced>>,
           clock' \in 0 .. MaxAttempts,
           th.at \in {"idle", "release", "groups", "payload", "regroup", "unlocked",
                      "stamp", "insert", "refresh", "decide", "issue"},
           th.at \in Grading => Graded(th)
    PROVE  Typed'
  <1>1. \A r \in Tab : tab'[r] = IF r = t THEN th ELSE tab[r]
    BY Facts
  <1> QED BY <1>1 DEF Typed, CourseFits, Graded

LEMMA ReadTyped ==
    ASSUME IInv, Typed, NEW t \in Tab,
           CheckRelease(t) \/ CheckGroups(t) \/ ReadRelease(t) \/ ReadGroups(t)
    PROVE  Typed'
  <1>1. PICK th : Reads(tab[t], th) /\ tab' = [tab EXCEPT ![t] = th]
    BY ReadSteps
  <1>2. /\ tab[t].at \in {"release", "groups", "payload", "regroup"}
        /\ UNCHANGED <<course, release, attempts, clock, edits, changes, crashes, raced>>
    BY ReadSteps
  <1>3. Graded(tab[t])
    BY <1>2 DEF Typed, Grading
  <1>4. /\ th.at \in {"idle", "groups", "payload", "regroup", "unlocked"}
        /\ th.at # "idle" => Graded(th)
    BY <1>1, <1>3, IdleFits DEF Reads, Graded
  <1> QED BY <1>1, <1>2, <1>4, TypedStep DEF Typed, Grading

LEMMA ServeTyped ==
    ASSUME IInv, Typed, NEW t \in Tab, CheckUnlocked(t) \/ Stamp(t)
    PROVE  Typed'
  <1> DEFINE w == tab[t]
             c == [w EXCEPT !.at = "stamp"]
             d == [w EXCEPT !.at = "insert", !.stamp = clock + 1]
  <1>1. /\ w.at \in {"unlocked", "stamp"}
        /\ \/ tab' = [tab EXCEPT ![t] = c] \/ tab' = [tab EXCEPT ![t] = d]
           \/ tab' = [tab EXCEPT ![t] = Idle]
        /\ UNCHANGED <<course, release, attempts, edits, changes, crashes, raced>>
        /\ \/ clock' = clock
           \/ clock < MaxAttempts /\ clock' = clock + 1
    <2>1. CASE CheckUnlocked(t)
      BY <2>1 DEF CheckUnlocked, Goto, counters
    <2>2. CASE Stamp(t)
      BY <2>2 DEF Stamp, Goto, counters
    <2> QED BY <2>1, <2>2
  <1>2. DOMAIN w = {"at", "course", "item", "released", "score", "max", "passed", "stamp"}
    BY <1>1, Facts, IdleFits DEF TabFits
  <1>3. Graded(w)
    BY <1>1 DEF Typed, Grading
  <1>4. \A th \in {c, d} : /\ th.at \in {"stamp", "insert"}
                           /\ th.score = w.score /\ th.max = w.max /\ th.passed = w.passed
    BY <1>2
  <1> HIDE DEF c, d
  <1>5. \A th \in {c, d} : Graded(th)
    BY <1>3, <1>4 DEF Graded
  <1>6. clock' \in 0 .. MaxAttempts
    BY <1>1, CurriculumAssumption DEF Typed
  <1>7. PICK th \in {c, d, Idle} : tab' = [tab EXCEPT ![t] = th]
    BY <1>1
  <1>8. /\ th.at \in {"idle", "stamp", "insert"}
        /\ th.at # "idle" => Graded(th)
    BY <1>4, <1>5, <1>7, IdleFits
  <1> QED BY <1>1, <1>6, <1>7, <1>8, TypedStep DEF Grading

LEMMA SubmitTyped ==
    ASSUME IInv, Typed, NEW t \in Tab, NEW item \in ModulesOf(course) \cup {Final},
           NEW answers, Submit(t, item, answers)
    PROVE  Typed'
  <1> DEFINE g == Grade(course, item, answers)
             th == [at |-> "release", course |-> course, item |-> item, released |-> FALSE,
                    score |-> g.score, max |-> g.max, passed |-> g.passed, stamp |-> 0]
  <1>1. Graded(g)
    BY GradeFits DEF Typed
  <1> HIDE DEF g
  <1>2. /\ tab' = [tab EXCEPT ![t] = th]
        /\ UNCHANGED <<course, release, attempts, clock, edits, changes, crashes, raced>>
    BY DEF Submit, Goto, g, counters
  <1>3. th.at = "release" /\ th.score = g.score /\ th.max = g.max /\ th.passed = g.passed
    OBVIOUS
  <1> HIDE DEF th
  <1>4. Graded(th)
    BY <1>1, <1>3 DEF Graded
  <1> QED BY <1>2, <1>3, <1>4, TypedStep DEF Typed

\* After the insert, grades are no longer looked at.
LEMMA RefreshTyped ==
    ASSUME IInv, Typed, NEW t \in Tab, RefreshCourse(t) \/ Decide(t) \/ Issue(t)
    PROVE  Typed'
  <1> DEFINE w == tab[t]
             s == LatestScore(LearnerOf[t], Final)
             a == [w EXCEPT !.at = "decide", !.course = course]
             b == [w EXCEPT !.at = "issue"]
             c == [w EXCEPT !.at = "issue", !.score = s.score, !.max = s.max]
  <1>1. /\ w.at \in {"refresh", "decide", "issue"}
        /\ \E th \in {a, b, c, Idle} : tab' = [tab EXCEPT ![t] = th]
        /\ UNCHANGED <<course, release, attempts, clock, edits, changes, crashes, raced>>
    BY DEF RefreshCourse, Decide, Issue, Goto, counters
  <1>2. DOMAIN w = {"at", "course", "item", "released", "score", "max", "passed", "stamp"}
    BY <1>1, Facts, IdleFits DEF TabFits
  <1> HIDE DEF s
  <1>3. \A th \in {a, b, c} : th.at \in {"decide", "issue"}
    BY <1>2
  <1> HIDE DEF a, b, c
  <1>4. PICK th \in {a, b, c, Idle} : tab' = [tab EXCEPT ![t] = th]
    BY <1>1
  <1>5. th.at \in {"idle", "decide", "issue"} /\ (th.at = "idle" => th = Idle)
    BY <1>3, <1>4, IdleFits
  <1> QED BY <1>1, <1>4, <1>5, TypedStep DEF Typed, Grading

LEMMA InsertTyped ==
    ASSUME IInv, Typed, NEW t \in Tab, Insert(t)
    PROVE  Typed'
  <1> DEFINE w == tab[t]
             th == [w EXCEPT !.at = "refresh"]
             own == [learner |-> LearnerOf[t], item |-> w.item, score |-> w.score, max |-> w.max,
                     passed |-> w.passed, stamp |-> w.stamp,
                     required |-> Before(w.course, w.item)]
  <1>1. /\ w.at = "insert" /\ tab' = [tab EXCEPT ![t] = th]
        /\ attempts' = attempts \cup {own}
        /\ raced' \in {raced, raced \cup {LearnerOf[t]}}
        /\ UNCHANGED <<course, release, clock, edits, changes, crashes>>
    BY DEF Insert, Goto, counters
  <1>2. DOMAIN w = {"at", "course", "item", "released", "score", "max", "passed", "stamp"}
    BY <1>1, Facts, IdleFits DEF TabFits
  <1>3. /\ th.at = "refresh"
        /\ own.learner = LearnerOf[t] /\ own.score = w.score /\ own.max = w.max
        /\ own.passed = w.passed
    BY <1>2
  <1> HIDE DEF th, own
  <1>4. \A r \in Tab : tab'[r] = IF r = t THEN th ELSE tab[r]
    BY <1>1, Facts
  <1>5. own.learner \in Learner /\ Graded(own)
    BY <1>1, <1>3, Facts DEF Typed, Graded, Grading
  <1>6. CourseFits(course') /\ raced' \subseteq Learner
    BY <1>1, Facts DEF Typed
  <1>7. \A r \in Tab :
          /\ tab'[r].at \in {"idle", "release", "groups", "payload", "regroup", "unlocked",
                             "stamp", "insert", "refresh", "decide", "issue"}
          /\ tab'[r].at \in Grading => Graded(tab'[r])
    BY <1>3, <1>4 DEF Typed, Grading
  <1>8. \A a \in attempts' : a.learner \in Learner /\ Graded(a)
    BY <1>1, <1>5 DEF Typed
  <1> QED BY <1>1, <1>6, <1>7, <1>8 DEF Typed, Graded

LEMMA RestTyped ==
    ASSUME Typed,
           \/ UNCHANGED <<course, release, attempts, tab, clock, edits, changes, crashes, raced>>
           \/ \E d \in Window : PrepareRead(d) \/ PrepareWrite(d)
           \/ \E scope \in Learner \cup Group, enabled \in BOOLEAN : SetRelease(scope, enabled)
           \/ \E raw \in RawCourses : SaveCourse(raw)
           \/ Crash
    PROVE  Typed'
  <1>1. CASE UNCHANGED <<course, release, attempts, tab, clock, edits, changes, crashes, raced>>
    BY <1>1 DEF Typed, CourseFits, Graded
  <1>2. CASE \E d \in Window : PrepareRead(d) \/ PrepareWrite(d)
    <2>1. /\ UNCHANGED <<course, release, attempts, tab, clock, edits, changes, crashes>>
          /\ raced' \subseteq raced \cup Learner
      BY <1>2, CurriculumAssumption DEF PrepareRead, PrepareWrite, counters
    <2> QED BY <2>1 DEF Typed, CourseFits, Graded
  <1>3. CASE \E scope \in Learner \cup Group, enabled \in BOOLEAN : SetRelease(scope, enabled)
    <2>1. PICK scope \in Learner \cup Group, enabled \in BOOLEAN : SetRelease(scope, enabled)
      BY <1>3
    <2>2. /\ release' \in [Learner \cup Group -> {"none", "on", "off"}] /\ changes' \in Nat
          /\ UNCHANGED <<course, attempts, tab, clock, edits, crashes, raced>>
      BY <2>1 DEF SetRelease, Typed
    <2> QED BY <2>2 DEF Typed, CourseFits, Graded
  <1>4. CASE \E raw \in RawCourses : SaveCourse(raw)
    <2>1. PICK raw \in RawCourses : SaveCourse(raw)
      BY <1>4
    <2>2. CourseSent(raw) /\ CourseAccepted(raw)
      BY <2>1, CourseAssumption DEF SaveCourse
    <2>3. /\ CourseFits(course') /\ edits' \in Nat
          /\ UNCHANGED <<release, attempts, tab, clock, changes, crashes, raced>>
      BY <2>1, <2>2, NormalCourseFits DEF SaveCourse, Typed
    <2> QED BY <2>3 DEF Typed, Graded
  <1>5. CASE Crash
    <2>1. /\ \A t \in Tab : tab'[t] = Idle
          /\ crashes' = crashes + 1
          /\ UNCHANGED <<course, release, attempts, clock, edits, changes, raced>>
      BY <1>5 DEF Crash
    <2> QED BY <2>1, IdleFits DEF Typed, CourseFits, Graded, Grading
  <1> QED BY <1>1, <1>2, <1>3, <1>4, <1>5

LEMMA InitTyped ==
    Init => Typed
  <1> SUFFICES ASSUME Init PROVE Typed
    OBVIOUS
  <1>1. CourseFits(course)
    BY CourseAssumption, NormalCourseFits DEF Init
  <1> QED BY <1>1, CurriculumAssumption, IdleFits DEF Init, Typed, Grading

LEMMA NextTyped ==
    IInv /\ Typed /\ [Next]_vars => Typed'
  <1> SUFFICES ASSUME IInv, Typed, [Next]_vars PROVE Typed'
    OBVIOUS
  <1>1. ASSUME NEW t \in Tab, Serve(t) PROVE Typed'
    BY <1>1, ReadTyped, ServeTyped, InsertTyped, RefreshTyped DEF Serve
  <1>2. ASSUME NEW t \in Tab, NEW item \in ModulesOf(course) \cup {Final}, NEW answers,
               Submit(t, item, answers)
        PROVE  Typed'
    BY <1>2, SubmitTyped
  <1>3. ASSUME UNCHANGED vars PROVE Typed'
    BY <1>3, RestTyped DEF vars, counters
  <1> QED BY <1>1, <1>2, <1>3, RestTyped DEF Next

(* Attempts have learners, different past stamps, and a score between     *)
(* 0 and a positive maximum, whatever course _grade_assessment is given.   *)
THEOREM TypeCorrect ==
    Spec => []TypeOK
  <1>1. IInv /\ Typed => TypeOK
    BY Facts DEF Typed, TypeOK, Graded, AttemptsFit, StampsAreUnique
  <1> QED BY <1>1, InitFits, NextKeeps, InitTyped, NextTyped, PTL DEF Spec

-----------------------------------------------------------------------------
(* An accepted course can be passed.                                       *)

LEMMA QuestionCanBeAnswered ==
    ASSUME NEW raw, QuestionAccepted(raw), Answerable(raw)
    PROVE  \E answer \in Answer : Correct(NormalQuestion(raw), answer)
  <1> PICK q : q = NormalQuestion(raw)
    OBVIOUS
  <1>1. /\ q.type = raw.type
        /\ q.key = IF raw.type = "text" THEN raw.correct ELSE raw.correct \cap raw.options
    BY DEF NormalQuestion
  <1>2. raw.type \in {"single", "multi", "text"}
    BY DEF QuestionAccepted
  <1>3. CASE raw.type = "multi"
    BY <1>1, <1>3 DEF Answerable, Correct
  <1>4. CASE raw.type \in {"single", "text"}
    <2>1. PICK value : value \in q.key
      <3>1. CASE raw.type = "text"
        BY <1>1, <3>1 DEF QuestionAccepted
      <3>2. CASE raw.type = "single"
        <4>1. Cardinality(raw.correct \cap raw.options) = 1
          BY <3>2 DEF QuestionAccepted
        <4>2. raw.correct \cap raw.options # {}
          BY <4>1, FS_EmptySet
        <4> QED BY <1>1, <3>2, <4>2
      <3> QED BY <1>4, <3>1, <3>2
    <2>2. {value} \in Answer
      BY <1>1, <1>4, <2>1 DEF Answerable
    <2> QED BY <1>1, <1>4, <2>1, <2>2 DEF Correct
  <1> QED BY <1>2, <1>3, <1>4

LEMMA CourseCanBePassed ==
    ASSUME NEW raw \in RawCourses, CourseAccepted(raw),
           NEW item \in ModulesOf(NormalCourse(raw)) \cup {Final}
    PROVE  LET q == Assessment(NormalCourse(raw), item).questions IN
           (\A j, k \in DOMAIN q : q[j].id = q[k].id => j = k)
           => (CanBePassed(NormalCourse(raw), item) <=> Points(q, DOMAIN q) # Infinite)
  <1> PICK c : c = NormalCourse(raw)
    OBVIOUS
  <1> PICK a : a = Assessment(c, item)
    OBVIOUS
  <1> PICK q : q = a.questions
    OBVIOUS
  <1>1. CourseSent(raw)
    BY CourseAssumption
  <1>2. PICK raws :
          /\ raws = raw.final \/ \E k \in DOMAIN raw.modules : raws = raw.modules[k].questions
          /\ QuestionsSent(raws) /\ QuestionsAccepted(raws)
          /\ q = NormalQuestions(raws) /\ a.ratio \in 10 .. 100
    BY <1>1, AssessmentSent
  <1>3. \A k \in DOMAIN raws : Answerable(raws[k]) /\ QuestionAccepted(raws[k])
    BY <1>2, CourseAssumption DEF QuestionsAccepted
  <1>4. QuestionsFit(q) /\ \A k \in DOMAIN q : \E answer \in Answer : Correct(q[k], answer)
    BY <1>2, <1>3, NormalQuestionsFit, QuestionCanBeAnswered
  <1>5. PICK right : right = [k \in DOMAIN q |-> CHOOSE answer \in Answer : Correct(q[k], answer)]
    OBVIOUS
  <1>6. \A k \in DOMAIN q : right[k] \in Answer /\ Correct(q[k], right[k])
    BY <1>4, <1>5
  <1>7. QuestionIds(c, item) = {q[k].id : k \in DOMAIN q}
    BY DEF QuestionIds
  <1> PICK max \in 1 .. Largest \cup {Infinite} : max = Points(q, DOMAIN q)
    BY <1>4, PointsBounded
  <1>18. max = Infinite => ~CanBePassed(c, item)
    BY DEF CanBePassed, Grade
  <1> SUFFICES ASSUME \A j, k \in DOMAIN q : q[j].id = q[k].id => j = k, max # Infinite
               PROVE  \E answers \in [QuestionIds(c, item) -> Answer] : Grade(c, item, answers).passed
    BY <1>18 DEF CanBePassed
  <1>8. PICK at : at = [id \in QuestionIds(c, item) |-> CHOOSE k \in DOMAIN q : q[k].id = id]
    OBVIOUS
  <1>9. \A k \in DOMAIN q : at[q[k].id] = k
    BY <1>7, <1>8
  <1>10. PICK answers : answers = [id \in QuestionIds(c, item) |-> right[at[id]]]
    OBVIOUS
  <1>11. /\ answers \in [QuestionIds(c, item) -> Answer]
         /\ \A k \in DOMAIN q : answers[q[k].id] = right[k]
    BY <1>6, <1>7, <1>9, <1>10
  <1>12. {k \in DOMAIN q : Correct(q[k], answers[q[k].id])} = DOMAIN q
    BY <1>6, <1>11
  <1>13. max \in 1 .. Largest
    OBVIOUS
  <1>14. Grade(c, item, answers).passed = (max > 0 /\ max * 100 >= a.ratio * max)
    BY <1>12 DEF Grade
  <1>15. max * 100 >= a.ratio * max
    <2>1. PICK ratio \in 10 .. 100 : ratio = a.ratio
      BY <1>2
    <2>2. \A m \in Nat, r \in 0 .. 100 : m * 100 >= r * m
      OBVIOUS
    <2>3. max \in Nat
      BY <1>13, CurriculumAssumption
    <2> QED BY <2>1, <2>2, <2>3
  <1>16. max > 0
    BY <1>13, CurriculumAssumption
  <1>17. Grade(c, item, answers).passed
    BY <1>14, <1>15, <1>16, Zenon
  <1> QED BY <1>11, <1>17

(* An assessment of a course that save_custom_course accepts, with no id   *)
(* used twice in it, has answers that _grade_assessment passes exactly if  *)
(* its points have a finite sum.                                           *)
THEOREM AcceptedCoursesCanBePassed ==
    Spec => AcceptedCanBePassed
  <1>1. [Next]_vars =>
          [course' # course =>
             \A item \in ModulesOf(course') \cup {Final} :
               LET q == Assessment(course', item).questions IN
               (\A j, k \in DOMAIN q : q[j].id = q[k].id => j = k)
               => (CanBePassed(course', item) <=> Points(q, DOMAIN q) # Infinite)]_vars
    <2> SUFFICES ASSUME [Next]_vars, course' # course
                 PROVE  \A item \in ModulesOf(course') \cup {Final} :
                          LET q == Assessment(course', item).questions IN
                          (\A j, k \in DOMAIN q : q[j].id = q[k].id => j = k)
                          => (CanBePassed(course', item) <=> Points(q, DOMAIN q) # Infinite)
      OBVIOUS
    <2>1. PICK raw \in RawCourses : SaveCourse(raw)
      BY DEF Next, Serve, CheckRelease, CheckGroups, ReadRelease, ReadGroups, CheckUnlocked, Stamp,
             Insert, RefreshCourse, Decide, Issue, Submit, PrepareRead, PrepareWrite, SetRelease,
             Crash, vars
    <2>2. CourseAccepted(raw) /\ course' = NormalCourse(raw)
      BY <2>1 DEF SaveCourse
    <2> QED BY <2>2, CourseCanBePassed
  <1> QED BY <1>1, PTL DEF Spec, AcceptedCanBePassed
=============================================================================
