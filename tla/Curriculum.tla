------------------------------ MODULE Curriculum ------------------------------
(***************************************************************************)
(* One course of the curriculum (curriculum.py and its routes in           *)
(* server.py): its definition, which an editor may replace, its releases   *)
(* for users and groups, the attempts of the learners and their            *)
(* certificates.                                                           *)
(*                                                                         *)
(* A submission reads the course, the learner's release and the groups'    *)
(* (both twice) and the attempts, takes the time, inserts the attempt,     *)
(* reads the course and the attempts again and then issues the certificate,*)
(* each in a transaction of its own; a learner may have several tabs, and  *)
(* may download the certificate in several windows meanwhile, which reads  *)
(* its metadata and writes it back. Only the latest attempt at an          *)
(* assessment counts, by the time taken before the insert.                 *)
(*                                                                         *)
(* Questions and answers are kept as far as grading goes; texts, themes    *)
(* and the PDF are left out. Ratios are percentages; points are whole      *)
(* numbers, or infinite: floats are, beyond the largest of them.           *)
(***************************************************************************)
EXTENDS Integers, Sequences, FiniteSets

CONSTANTS
  Learner,     (* users with curriculum.use                                *)
  Teacher,     (* those of them with is_teacher                            *)
  Group, GroupsOf,
  Tab, LearnerOf, (* the pages from which assessments are submitted        *)
  Window, HolderOf, (* those in which certificates are downloaded          *)
  FirstCourse,
  RawCourses,  (* the definitions an editor may send for it                *)
  Answer,      (* the answers to a question: sets of values                *)
  Final,       (* FINAL_MODULE_ID                                          *)
  Infinite,    (* float("inf"); an editor may send it as points            *)
  Largest,     (* the largest finite sum of points                         *)
  MaxAttempts, (* bound: submissions that take a time stamp; none begins   *)
               (* after them                                               *)
  FirstReleases, (* the releases at the beginning                          *)
  MaxEvents    (* bound: saves of the course, changes of releases and      *)
               (* restarts, together                                       *)

ASSUME CurriculumAssumption ==
  /\ Teacher \subseteq Learner
  /\ GroupsOf \in [Learner -> SUBSET Group]
  /\ LearnerOf \in [Tab -> Learner] /\ HolderOf \in [Window -> Learner]
  /\ Learner \cap Group = {}
  /\ FirstReleases \in [Learner \cup Group -> {"none", "on", "off"}]
  /\ MaxAttempts \in Nat /\ MaxEvents \in Nat
  /\ Infinite \notin Int /\ Largest \in Nat \ {0}

-----------------------------------------------------------------------------
(* Course definitions.                                                     *)

(* _normalize_question accepts a question ...                              *)
QuestionAccepted(raw) ==
  CASE raw.type = "single" -> /\ Cardinality(raw.options) >= 2
                              /\ Cardinality(raw.correct \cap raw.options) = 1
    [] raw.type = "multi" -> /\ Cardinality(raw.options) >= 2
                             /\ raw.correct \cap raw.options # {}
    [] raw.type = "text" -> raw.correct # {}
    [] OTHER -> FALSE

Raise(value, floor) == IF value < floor THEN floor ELSE value

(* max(1.0, float(points)): infinite points stay so.                       *)
Worth(points) == IF points = Infinite THEN Infinite ELSE Raise(points, 1)

(* Mutant: correct answers need not be among the options.                  *)
KeyAsSent(raw) ==
  [id |-> raw.id, type |-> raw.type, points |-> Worth(raw.points), key |-> raw.correct]

(* ... and what becomes of it: correct answers that are no option are      *)
(* dropped, points are raised to 1. Ids need not be unique.                *)
NormalQuestion(raw) ==
  [id |-> raw.id, type |-> raw.type, points |-> Worth(raw.points),
   key |-> IF raw.type = "text" THEN raw.correct ELSE raw.correct \cap raw.options]

QuestionsAccepted(raws) ==
  /\ raws # <<>>
  /\ \A k \in DOMAIN raws : QuestionAccepted(raws[k])

Ratio(percent) == IF percent > 100 THEN 100 ELSE Raise(percent, 10)

NormalQuestions(raws) == [k \in DOMAIN raws |-> NormalQuestion(raws[k])]

(* _normalize_course_definition: at least one module, unique module ids,   *)
(* questions everywhere.                                                   *)
CourseAccepted(raw) ==
  /\ raw.modules # <<>>
  /\ \A j, k \in DOMAIN raw.modules : raw.modules[j].id = raw.modules[k].id => j = k
  /\ \A k \in DOMAIN raw.modules : QuestionsAccepted(raw.modules[k].questions)
  /\ QuestionsAccepted(raw.final)

NormalCourse(raw) ==
  [modules |-> [k \in DOMAIN raw.modules |->
                  [id |-> raw.modules[k].id,
                   ratio |-> Ratio(raw.modules[k].ratio),
                   questions |-> NormalQuestions(raw.modules[k].questions)]],
   ratio |-> Ratio(raw.ratio),
   final |-> NormalQuestions(raw.final)]

ModulesOf(c) == {c.modules[k].id : k \in DOMAIN c.modules}

(* The modules of course c that come before one.                           *)
Before(c, item) ==
  IF item = Final THEN ModulesOf(c)
  ELSE {c.modules[j].id : j \in {i \in DOMAIN c.modules :
          \E k \in DOMAIN c.modules : i < k /\ c.modules[k].id = item}}

(* _resolve_module: what is asked, and the share of points that passes.    *)
Assessment(c, item) ==
  IF item = Final THEN [questions |-> c.final, ratio |-> c.ratio]
  ELSE LET k == CHOOSE i \in DOMAIN c.modules : c.modules[i].id = item
       IN [questions |-> c.modules[k].questions, ratio |-> c.modules[k].ratio]

(* A single choice or a text is one value of the key, a multiple choice is *)
(* all of it.                                                              *)
Correct(question, answer) ==
  IF question.type = "multi" THEN answer = question.key
  ELSE \E value \in question.key : answer = {value}

(* What += makes of points: beyond the largest float they are infinite.    *)
Plus(sum, points) ==
  IF sum = Infinite \/ points = Infinite \/ sum + points > Largest THEN Infinite
  ELSE sum + points

(* The points of the questions in `which`, added up one after the other.   *)
Points(questions, which) ==
  LET sum[n \in 0 .. Len(questions)] ==
        IF n = 0 THEN 0
        ELSE IF n \in which THEN Plus(sum[n - 1], questions[n].points) ELSE sum[n - 1]
  IN sum[Len(questions)]

(* _grade_assessment; answers are by question id. Of an infinite maximum a *)
(* finite score is no share, and an infinite one is not a number: neither  *)
(* passes.                                                                 *)
Grade(c, item, answers) ==
  LET a == Assessment(c, item)
      right == {k \in DOMAIN a.questions :
                  Correct(a.questions[k], answers[a.questions[k].id])}
      score == Points(a.questions, right)
      max == Points(a.questions, DOMAIN a.questions)
  IN [score |-> score, max |-> max,
      passed |-> max # Infinite /\ max > 0 /\ score * 100 >= a.ratio * max]

QuestionIds(c, item) ==
  LET q == Assessment(c, item).questions IN {q[k].id : k \in DOMAIN q}

(* What a course consists of, as the editor's request is parsed; and that  *)
(* learners can give the answers its questions name.                       *)
QuestionsSent(raws) ==
  /\ raws = [k \in 1 .. Len(raws) |-> raws[k]] /\ Len(raws) \in Nat
  /\ \A k \in DOMAIN raws : raws[k].points \in {n \in Int : n <= Largest} \cup {Infinite}
CourseSent(raw) ==
  /\ raw.modules = [k \in 1 .. Len(raw.modules) |-> raw.modules[k]] /\ Len(raw.modules) \in Nat
  /\ \A k \in DOMAIN raw.modules :
       QuestionsSent(raw.modules[k].questions) /\ raw.modules[k].ratio \in Int
  /\ QuestionsSent(raw.final) /\ raw.ratio \in Int

Answerable(raw) ==
  IF raw.type = "multi" THEN raw.correct \cap raw.options \in Answer
  ELSE \A value \in raw.correct :
         raw.type = "text" \/ value \in raw.options => {value} \in Answer

ASSUME CourseAssumption ==
  /\ CourseSent(FirstCourse) /\ CourseAccepted(FirstCourse)
  /\ \A raw \in RawCourses :
       /\ CourseSent(raw)
       /\ \A k \in DOMAIN raw.modules :
            \A j \in DOMAIN raw.modules[k].questions : Answerable(raw.modules[k].questions[j])
       /\ \A j \in DOMAIN raw.final : Answerable(raw.final[j])

-----------------------------------------------------------------------------
VARIABLES
  course,       (* the definition in force: built-in, or the saved row     *)
  release,      (* curriculum_releases: per learner or group               *)
  attempts,     (* curriculum_attempts                                     *)
  certificate,  (* curriculum_certificates, per learner                    *)
  tab,          (* per tab: the thread that serves its submission          *)
  download,     (* per window: the thread that prepares the certificate    *)
  clock,        (* time stamps given out                                   *)
  edits, changes, crashes,  (* how often each has happened                 *)
  issuedFor,    (* history, per learner: modules of the course of the      *)
                (* latest issue                                            *)
  raced         (* history: learners of whom two threads wrote at a time   *)

counters == <<edits, changes, crashes>>
MoreEvents == edits + changes + crashes < MaxEvents
vars == <<course, release, attempts, certificate, tab, download, clock, counters,
          issuedFor, raced>>

Idle == [at |-> "idle"]
NoDownload == [at |-> "idle"]
NoCertificate == [none |-> TRUE]

Init ==
  /\ course = NormalCourse(FirstCourse)
  /\ release = FirstReleases
  /\ attempts = {}
  /\ certificate = [l \in Learner |-> NoCertificate]
  /\ tab = [t \in Tab |-> Idle]
  /\ download = [d \in Window |-> NoDownload]
  /\ clock = 0
  /\ edits = 0 /\ changes = 0 /\ crashes = 0
  /\ issuedFor = [l \in Learner |-> {}]
  /\ raced = {}

-----------------------------------------------------------------------------
(* What handlers read.                                                     *)

(* _resolve_release: a user's own row decides; else any enabled group. Two *)
(* queries, each in its own transaction.                                   *)
OwnRelease(l) == IF l \in Teacher THEN "on" ELSE release[l]
GroupRelease(l) == \E g \in GroupsOf[l] : release[g] = "on"

Released(l) == OwnRelease(l) = "on" \/ (OwnRelease(l) = "none" /\ GroupRelease(l))

Tries(l, item) == {a \in attempts : a.learner = l /\ a.item = item}

(* _latest_attempts: of the attempts at an item the one with the last      *)
(* stamp counts.                                                           *)
Passed(l, item) ==
  \E a \in Tries(l, item) : a.passed /\ \A b \in Tries(l, item) : b.stamp <= a.stamp

LatestScore(l, item) ==
  LET a == CHOOSE x \in Tries(l, item) : \A b \in Tries(l, item) : b.stamp <= x.stamp
  IN [score |-> a.score, max |-> a.max]

(* Mutant: only the module directly before must be passed.                 *)
UnlockedByNeighbour(l, c, item, released) ==
  \/ l \in Teacher
  \/ released /\ \/ Before(c, item) = {}
                 \/ \E m \in Before(c, item) : Passed(l, m)

(* _course_payload: a module is open to the learner when the course is     *)
(* released and all modules before it are passed; the final when all are.  *)
(* A module already passed may be taken again whatever lies before it.     *)
Unlocked(l, c, item, released) ==
  \/ l \in Teacher
  \/ released /\ \A m \in Before(c, item) : Passed(l, m)
  \/ released /\ item # Final /\ Passed(l, item)

(* _learner_overview: a line of the teachers' table.                       *)
Overview(l) ==
  [released |-> Released(l),
   passed |-> {m \in ModulesOf(course) : Passed(l, m)},
   final |-> Passed(l, Final),
   certified |-> certificate[l] # NoCertificate]

(* attempt_history: what a manager sees of a learner, newest first: an     *)
(* attempt stands where as many are not older.                             *)
AttemptHistory(l) ==
  LET own == {a \in attempts : a.learner = l}
      Place(a) == Cardinality({b \in own : b.stamp >= a.stamp})
  IN [n \in 1 .. Cardinality(own) |-> CHOOSE a \in own : Place(a) = n]

(* certificate_by_id: what the public page says of a certificate.          *)
Verification(l) == [learner |-> l, score |-> certificate[l].score]

-----------------------------------------------------------------------------
(* submit_assessment.                                                      *)

Goto(t, record) == tab' = [tab EXCEPT ![t] = record]

(* The route checks, and the course is read. The grade is computed from    *)
(* what is read here, later but from nothing else. For the properties the  *)
(* thread remembers the modules required before its item.                  *)
Submit(t, item, answers) ==
  /\ tab[t] = Idle
  /\ clock < MaxAttempts
  /\ LET g == Grade(course, item, answers) IN
     Goto(t, [at |-> "release", course |-> course, item |-> item, released |-> FALSE,
              score |-> g.score, max |-> g.max, passed |-> g.passed, stamp |-> 0])
  /\ UNCHANGED <<course, release, attempts, certificate, download, clock, counters,
                 issuedFor, raced>>

(* The release is checked: the learner's own, ...                          *)
CheckRelease(t) ==
  /\ tab[t].at = "release"
  /\ Goto(t, CASE OwnRelease(LearnerOf[t]) = "on" -> [tab[t] EXCEPT !.at = "payload"]
               [] OwnRelease(LearnerOf[t]) = "none" -> [tab[t] EXCEPT !.at = "groups"]
               [] OTHER -> Idle)
  /\ UNCHANGED <<course, release, attempts, certificate, download, clock, counters,
                 issuedFor, raced>>

(* ... without one the groups' ...                                         *)
CheckGroups(t) ==
  /\ tab[t].at = "groups"
  /\ Goto(t, IF GroupRelease(LearnerOf[t]) THEN [tab[t] EXCEPT !.at = "payload"] ELSE Idle)
  /\ UNCHANGED <<course, release, attempts, certificate, download, clock, counters,
                 issuedFor, raced>>

(* ... and both are read again by _course_payload, ...                     *)
ReadRelease(t) ==
  /\ tab[t].at = "payload"
  /\ LET own == OwnRelease(LearnerOf[t]) IN
     Goto(t, [tab[t] EXCEPT !.at = IF own = "none" THEN "regroup" ELSE "unlocked",
                            !.released = (own = "on")])
  /\ UNCHANGED <<course, release, attempts, certificate, download, clock, counters,
                 issuedFor, raced>>

ReadGroups(t) ==
  /\ tab[t].at = "regroup"
  /\ Goto(t, [tab[t] EXCEPT !.at = "unlocked", !.released = GroupRelease(LearnerOf[t])])
  /\ UNCHANGED <<course, release, attempts, certificate, download, clock, counters,
                 issuedFor, raced>>

(* ... which then reads the attempts. A locked item is refused.            *)
CheckUnlocked(t) ==
  /\ tab[t].at = "unlocked"
  /\ Goto(t, IF Unlocked(LearnerOf[t], tab[t].course, tab[t].item, tab[t].released)
             THEN [tab[t] EXCEPT !.at = "stamp"] ELSE Idle)
  /\ UNCHANGED <<course, release, attempts, certificate, download, clock, counters,
                 issuedFor, raced>>

(* Mutant: attempts are numbered by how many there are.                    *)
StampByCount(t) ==
  /\ tab[t].at = "stamp"
  /\ clock < MaxAttempts
  /\ clock' = clock + 1
  /\ Goto(t, [tab[t] EXCEPT !.at = "insert", !.stamp = Cardinality(attempts) + 1])
  /\ UNCHANGED <<course, release, attempts, certificate, download, counters,
                 issuedFor, raced>>

(* `now`; different calls see different times.                             *)
Stamp(t) ==
  /\ tab[t].at = "stamp"
  /\ clock < MaxAttempts
  /\ clock' = clock + 1
  /\ Goto(t, [tab[t] EXCEPT !.at = "insert", !.stamp = clock + 1])
  /\ UNCHANGED <<course, release, attempts, certificate, download, counters,
                 issuedFor, raced>>

Downloads(l) == {d \in Window : HolderOf[d] = l /\ download[d] # NoDownload}
Writing(l) == {t \in Tab : LearnerOf[t] = l /\ tab[t].at \in {"insert", "refresh", "decide", "issue"}}

(* The attempt; `required` and `again` are history.                        *)
Insert(t) ==
  /\ tab[t].at = "insert"
  /\ attempts' = attempts \cup
       {[learner |-> LearnerOf[t], item |-> tab[t].item, score |-> tab[t].score,
         max |-> tab[t].max, passed |-> tab[t].passed, stamp |-> tab[t].stamp,
         required |-> Before(tab[t].course, tab[t].item)]}
  /\ Goto(t, [tab[t] EXCEPT !.at = "refresh"])
  /\ raced' = IF Writing(LearnerOf[t]) # {t} \/ Downloads(LearnerOf[t]) # {}
              THEN raced \cup {LearnerOf[t]} ELSE raced
  /\ UNCHANGED <<course, release, certificate, download, clock, counters, issuedFor>>

(* Mutant: certificates are given for the final alone.                     *)
EarnsByFinal(t) == tab[t].item = Final /\ tab[t].passed

(* _refresh_certificate: all modules of the course, read again, and the    *)
(* final must be passed; a final just graded counts as the latest.         *)
Earns(t) ==
  LET l == LearnerOf[t] IN
  /\ \A m \in ModulesOf(tab[t].course) : Passed(l, m)
  /\ IF tab[t].item = Final THEN tab[t].passed ELSE Passed(l, Final)

(* It reads the course ...                                                 *)
RefreshCourse(t) ==
  /\ tab[t].at = "refresh"
  /\ Goto(t, [tab[t] EXCEPT !.at = "decide", !.course = course])
  /\ UNCHANGED <<course, release, attempts, certificate, download, clock, counters,
                 issuedFor, raced>>

(* ... and the attempts, and decides on them, ...                          *)
Decide(t) ==
  /\ tab[t].at = "decide"
  /\ Goto(t, IF ~Earns(t) THEN Idle
             ELSE IF tab[t].item = Final THEN [tab[t] EXCEPT !.at = "issue"]
             ELSE LET s == LatestScore(LearnerOf[t], Final)
                  IN [tab[t] EXCEPT !.at = "issue", !.score = s.score, !.max = s.max])
  /\ UNCHANGED <<course, release, attempts, certificate, download, clock, counters,
                 issuedFor, raced>>

(* Mutant: a certificate that exists is not renewed.                       *)
IssueOnce(t) ==
  /\ tab[t].at = "issue"
  /\ LET l == LearnerOf[t] IN
     /\ certificate' = IF certificate[l] # NoCertificate THEN certificate
          ELSE [certificate EXCEPT ![l] = [score |-> tab[t].score,
                 shown |-> [score |-> tab[t].score, max |-> tab[t].max], signed |-> FALSE]]
     /\ issuedFor' = [issuedFor EXCEPT ![l] = ModulesOf(tab[t].course)]
  /\ Goto(t, Idle)
  /\ UNCHANGED <<course, release, attempts, download, clock, counters, raced>>

(* ... and the row is written, its metadata (`shown`, with the signatory   *)
(* and link of a download if `signed`) replaced.                           *)
Issue(t) ==
  /\ tab[t].at = "issue"
  /\ LET l == LearnerOf[t] IN
     /\ certificate' = [certificate EXCEPT ![l] =
          [score |-> tab[t].score,
           shown |-> [score |-> tab[t].score, max |-> tab[t].max],
           signed |-> FALSE]]
     /\ issuedFor' = [issuedFor EXCEPT ![l] = ModulesOf(tab[t].course)]
  /\ Goto(t, Idle)
  /\ UNCHANGED <<course, release, attempts, download, clock, counters, raced>>

-----------------------------------------------------------------------------
(* The other handlers.                                                     *)

(* prepare_certificate_metadata reads the certificate ...                  *)
PrepareRead(d) ==
  LET l == HolderOf[d] IN
  /\ download[d] = NoDownload
  /\ certificate[l] # NoCertificate
  /\ download' = [download EXCEPT ![d] = [at |-> "write", shown |-> certificate[l].shown]]
  /\ raced' = IF Writing(l) # {} THEN raced \cup {l} ELSE raced
  /\ UNCHANGED <<course, release, attempts, certificate, tab, clock, counters, issuedFor>>

(* ... and writes its metadata back with signatory and link. The PDF is    *)
(* then made from the row as it is read once more.                         *)
PrepareWrite(d) ==
  /\ download[d] # NoDownload
  /\ certificate' = [certificate EXCEPT ![HolderOf[d]] =
       [@ EXCEPT !.shown = download[d].shown, !.signed = TRUE]]
  /\ download' = [download EXCEPT ![d] = NoDownload]
  /\ UNCHANGED <<course, release, attempts, tab, clock, counters, issuedFor, raced>>

(* set_release by a manager, for a learner or a group. Setting a release   *)
(* to what it is changes nothing and is left out.                          *)
SetRelease(scope, enabled) ==
  /\ MoreEvents
  /\ release' = [release EXCEPT ![scope] = IF enabled THEN "on" ELSE "off"]
  /\ release' # release
  /\ changes' = changes + 1
  /\ UNCHANGED <<course, attempts, certificate, tab, download, clock, edits, crashes,
                 issuedFor, raced>>

(* save_custom_course: an accepted definition replaces the course for all. *)
SaveCourse(raw) ==
  /\ MoreEvents
  /\ CourseAccepted(raw)
  /\ course' = NormalCourse(raw)
  /\ edits' = edits + 1
  /\ UNCHANGED <<release, attempts, certificate, tab, download, clock, changes, crashes,
                 issuedFor, raced>>

(* The server restarts; requests under way are gone.                       *)
Crash ==
  /\ MoreEvents
  /\ crashes' = crashes + 1
  /\ tab' = [t \in Tab |-> Idle]
  /\ download' = [d \in Window |-> NoDownload]
  /\ UNCHANGED <<course, release, attempts, certificate, clock, edits, changes,
                 issuedFor, raced>>

Serve(t) ==
  \/ CheckRelease(t)
  \/ CheckGroups(t)
  \/ ReadRelease(t)
  \/ ReadGroups(t)
  \/ CheckUnlocked(t)
  \/ Stamp(t)
  \/ Insert(t)
  \/ RefreshCourse(t)
  \/ Decide(t)
  \/ Issue(t)

Next ==
  \/ \E t \in Tab : Serve(t)
  \/ \E t \in Tab, item \in ModulesOf(course) \cup {Final} :
       \E answers \in [QuestionIds(course, item) -> Answer] : Submit(t, item, answers)
  \/ \E d \in Window : PrepareRead(d) \/ PrepareWrite(d)
  \/ \E scope \in Learner \cup Group, enabled \in BOOLEAN : SetRelease(scope, enabled)
  \/ \E raw \in RawCourses : SaveCourse(raw)
  \/ Crash

Spec == Init /\ [][Next]_vars

-----------------------------------------------------------------------------
(* Properties.                                                             *)

(* Shapes; that a stamp is given to one submission only; and that scores   *)
(* lie between 0 and a positive maximum, while of an infinite one nothing  *)
(* passes.                                                                 *)
TypeOK ==
  /\ release \in [Learner \cup Group -> {"none", "on", "off"}]
  /\ DOMAIN certificate = Learner /\ DOMAIN tab = Tab /\ DOMAIN download = Window
  /\ clock \in 0 .. MaxAttempts
  /\ edits \in Nat /\ changes \in Nat /\ crashes \in Nat
  /\ raced \subseteq Learner
  /\ \A t \in Tab : tab[t].at \in {"idle", "release", "groups", "payload", "regroup", "unlocked",
                       "stamp", "insert", "refresh", "decide", "issue"}
  /\ \A a \in attempts :
       /\ a.learner \in Learner /\ a.stamp \in 1 .. clock
       /\ \/ a.max = Infinite /\ a.score \in Nat \cup {Infinite} /\ ~a.passed
          \/ a.max \in 1 .. Largest /\ a.score \in 0 .. a.max
       /\ \A b \in attempts : a.stamp = b.stamp => a = b

(* Nobody skips: whenever a student's attempt at a module or the final has *)
(* been stored, every module that the course, as the submission read it,   *)
(* puts before it had been passed by the same student by an earlier        *)
(* attempt, or the student had passed the very module before.              *)
NoSkipping ==
  \A a \in attempts :
    a.learner \notin Teacher =>
      \/ \A m \in a.required : \E b \in Tries(a.learner, m) : b.passed /\ b.stamp < a.stamp
      \/ a.item # Final /\ \E b \in Tries(a.learner, a.item) : b.passed /\ b.stamp < a.stamp

(* A certificate is earned: its holder has passed every module of the      *)
(* course it was issued for and a final with the score it states, and also *)
(* what its metadata shows is the result of a final passed by the holder,  *)
(* whatever retakes, edits, downloads and restarts came in between.        *)
CertificateEarned ==
  \A l \in Learner :
    certificate[l] # NoCertificate =>
      /\ \A m \in issuedFor[l] : \E a \in Tries(l, m) : a.passed
      /\ \E a \in Tries(l, Final) : a.passed /\ a.score = Verification(l).score
      /\ \E a \in Tries(l, Final) : /\ a.passed
                                    /\ a.score = certificate[l].shown.score
                                    /\ a.max = certificate[l].shown.max

(* Who has passed everything is certified: when no request of the learner  *)
(* is under way and the teachers' overview shows all modules and the final *)
(* as passed, it shows the certificate too; and, unless two requests of    *)
(* the learner overlapped, the certificate states the final that comes     *)
(* first in the history, in its row and in its metadata. Excepted are a    *)
(* restart in the middle of a submission and an edited course, which is    *)
(* looked at with the next one.                                            *)
PassedIsCertified ==
  \A l \in Learner :
    (/\ crashes = 0 /\ edits = 0
     /\ \A t \in Tab : LearnerOf[t] = l => tab[t] = Idle
     /\ Overview(l).passed = ModulesOf(course) /\ Overview(l).final)
    => /\ Overview(l).certified
       /\ l \notin raced =>
            LET history == AttemptHistory(l) IN
            \E n \in DOMAIN history :
              /\ history[n].item = Final /\ \A k \in 1 .. n - 1 : history[k].item # Final
              /\ certificate[l].shown = [score |-> history[n].score, max |-> history[n].max]
              /\ Verification(l).score = history[n].score

CanBePassed(c, item) ==
  \E answers \in [QuestionIds(c, item) -> Answer] : Grade(c, item, answers).passed

(* Which of the courses that a save accepts can be passed: an assessment   *)
(* whose questions have different ids has answers that pass it exactly if  *)
(* its points can be added up. The check lets through the others, which    *)
(* nobody can ever pass: points of 1e999, or too many large ones. (With two*)
(* questions of one id there may be no answers either.)                    *)
AcceptedCanBePassed ==
  [][course' # course =>
       \A item \in ModulesOf(course') \cup {Final} :
         LET q == Assessment(course', item).questions IN
         (\A j, k \in DOMAIN q : q[j].id = q[k].id => j = k)
         => (CanBePassed(course', item) <=> Points(q, DOMAIN q) # Infinite)]_vars
=============================================================================
