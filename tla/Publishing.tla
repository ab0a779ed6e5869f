------------------------------ MODULE Publishing ------------------------------
(***************************************************************************)
(* What leaves a project as a copy: submissions to peer review             *)
(* (reviews.py), web shares and exports (deployments.py), on top of        *)
(* copy_project_snapshot (project_files.py).                               *)
(*                                                                         *)
(* A request copies the project's files one after the other while others   *)
(* may write them, and stores its rows only then; quota, users and         *)
(* memberships are read in earlier transactions. Feedback updates an       *)
(* assignment, reads all assignments of the submission and writes the      *)
(* submission's status, in three transactions. A crash leaves copies       *)
(* without rows behind.                                                    *)
(***************************************************************************)
EXTENDS Integers, Sequences, FiniteSets, SequencesExt

CONSTANTS
  User, Teacher,  (* all users; those with the role teacher or admin       *)
  ByName,         (* the users in the order of their names                 *)
  Group, MembersOf, (* groups and their members                            *)
  Scope,          (* per author: the groups whose members may review: the  *)
                  (* project's group, or all groups of the author          *)
  Author,         (* users who may open the project                        *)
  Thread,         (* handler threads for their requests                    *)
  File, Index,    (* the project's files, one of them index.html           *)
  Limit,          (* the quotas for "share" and "export"; <= 0: none       *)
  FirstProjects,  (* the versions of its files at the beginning; 0 is none *)
  MaxCopies,      (* bound: copies made                                    *)
  MaxReviews,     (* bound: of them, those for a review                    *)
  MaxEvents       (* bound: writes, deactivations and restarts             *)

Id == 1 .. MaxCopies
Kind == {"review", "share", "export"}

ASSUME PublishingAssumption ==
  /\ Teacher \subseteq User /\ Author \subseteq User
  /\ IsInjective(ByName) /\ ToSet(ByName) = User
  /\ MembersOf \in [Group -> SUBSET User]
  /\ Scope \in [Author -> SUBSET Group]
  /\ Index \in File
  /\ IsFiniteSet(Thread)
  /\ Limit \in [{"share", "export"} -> Int]
  /\ FirstProjects \subseteq [File -> Nat]
  /\ MaxCopies \in Nat /\ MaxReviews \in Nat /\ MaxEvents \in Nat

VARIABLES
  events,     (* writes, deactivations and restarts so far                 *)
  project,    (* per file its version in the workspace                     *)
  active,     (* users whose status is "active"                            *)
  thread,     (* per thread: the request it executes                       *)
  next,       (* the next artifact or submission id                        *)
  copy,       (* per id: the copied files on disk                          *)
  artifacts,  (* deployment_artifacts                                      *)
  submission, (* review_submissions: per id its review_status              *)
  assigned,   (* review_assignments: records [id, nr, reviewer]            *)
  done,       (* those of them with status "completed"                     *)
  feedback,   (* per user: the thread of its feedback request              *)
  crashed,    (* history: the server has been restarted                    *)
  began,      (* history, per id: the project when the copy began          *)
  ended,      (* history, per id: the project when its row was stored      *)
  overtaken   (* history: submissions whose status two threads refreshed at once *)

reviewVars == <<submission, assigned, done>>
vars == <<events, project, active, thread, next, copy, artifacts, reviewVars, feedback,
          crashed, began, ended, overtaken>>

Nothing == [f \in File |-> 0]
Idle == [at |-> "idle"]

Init ==
  /\ events = 0
  /\ project \in FirstProjects
  /\ active = User
  /\ thread = [t \in Thread |-> Idle]
  /\ next = 1
  /\ copy = [n \in Id |-> Nothing]
  /\ artifacts = {}
  /\ submission = [n \in Id |-> "none"]
  /\ assigned = {} /\ done = {}
  /\ feedback = [u \in User |-> Idle]
  /\ crashed = FALSE
  /\ began = [n \in Id |-> Nothing]
  /\ ended = [n \in Id |-> Nothing]
  /\ overtaken = {}

-----------------------------------------------------------------------------
(* Copies.                                                                 *)

(* Mutant: one artifact more than the quota.                               *)
QuotaReachedLate(kind) == Limit[kind] > 0 /\ Cardinality(artifacts) > Limit[kind]

(* _enforce_quota: all artifacts count, of both kinds and of everybody.    *)
QuotaReached(kind) == Limit[kind] > 0 /\ Cardinality(artifacts) >= Limit[kind]

(* For the bound on them.                                                 *)
Reviews == Cardinality({n \in Id : submission[n] # "none"})
           + Cardinality({t \in Thread : thread[t] # Idle /\ thread[t].kind = "review"})

(* uuid4().hex[:12]: taken to be new.                                      *)
FreshId == next

Set(t, record) == thread' = [thread EXCEPT ![t] = record]

(* The route, and create_share's, create_export's check of the quota;      *)
(* submit has none.                                                        *)
Request(t, author, kind) ==
  /\ thread[t] = Idle
  /\ next \in Id
  /\ IF kind = "review" THEN Reviews < MaxReviews ELSE ~QuotaReached(kind)
  /\ Set(t, [at |-> "list", kind |-> kind, by |-> author, id |-> FreshId,
             files |-> {}, reviewers |-> <<>>])
  /\ next' = next + 1
  /\ UNCHANGED <<events, project, active, copy, artifacts, reviewVars, feedback, crashed,
                 began, ended, overtaken>>

(* copy_project_snapshot: the files there are, ...                         *)
ListFiles(t) ==
  /\ thread[t].at = "list"
  /\ Set(t, [thread[t] EXCEPT !.at = "copy", !.files = {f \in File : project[f] > 0}])
  /\ began' = [began EXCEPT ![thread[t].id] = project]
  /\ UNCHANGED <<events, project, active, next, copy, artifacts, reviewVars, feedback, crashed,
                 ended, overtaken>>

Left(t) == {f \in thread[t].files : copy[thread[t].id][f] = 0}

(* ... copied one by one; their order does not matter here.                *)
CopyFile(t, f) ==
  /\ thread[t].at = "copy" /\ f \in Left(t)
  /\ copy' = [copy EXCEPT ![thread[t].id][f] = project[f]]
  /\ UNCHANGED <<events, project, active, thread, next, artifacts, reviewVars, feedback, crashed,
                 began, ended, overtaken>>

(* Mutant: a share is stored without an index.html.                        *)
CopiedWhatever(t) ==
  /\ thread[t].at = "copy" /\ Left(t) = {}
  /\ Set(t, [thread[t] EXCEPT !.at = IF thread[t].kind = "review" THEN "select" ELSE "store"])
  /\ UNCHANGED <<events, project, active, next, copy, artifacts, reviewVars, feedback, crashed,
                 began, ended, overtaken>>

(* A share without index.html is refused; its copy stays on the disk. An   *)
(* export is built and packed (_prepare_bundle), whether its program       *)
(* compiles or not.                                                        *)
Copied(t) ==
  /\ thread[t].at = "copy" /\ Left(t) = {}
  /\ Set(t, CASE thread[t].kind = "review" -> [thread[t] EXCEPT !.at = "select"]
              [] thread[t].kind = "share" /\ Index \notin thread[t].files -> Idle
              [] OTHER -> [thread[t] EXCEPT !.at = "store"])
  /\ UNCHANGED <<events, project, active, next, copy, artifacts, reviewVars, feedback, crashed,
                 began, ended, overtaken>>

(* A build or a file operation raises; nothing is stored.                  *)
Fail(t) ==
  /\ thread[t].at = "copy"
  /\ Set(t, Idle)
  /\ UNCHANGED <<events, project, active, next, copy, artifacts, reviewVars, feedback, crashed,
                 began, ended, overtaken>>

(* _store_artifact.                                                        *)
StoreArtifact(t) ==
  /\ thread[t].at = "store" /\ thread[t].kind \in {"share", "export"}
  /\ artifacts' = artifacts \cup {[id |-> thread[t].id, kind |-> thread[t].kind,
                                   owner |-> thread[t].by]}
  /\ ended' = [ended EXCEPT ![thread[t].id] = project]
  /\ Set(t, Idle)
  /\ UNCHANGED <<events, project, active, next, copy, reviewVars, feedback, crashed, began, overtaken>>

(* list_snapshot_files.                                                    *)
FilesOf(n) == {f \in File : copy[n][f] > 0}

(* list_artifacts: one's own, for teachers all.                            *)
ArtifactsFor(u) == {a \in artifacts : u \in Teacher \/ a.owner = u}

(* resolve_share_path, resolve_download_path: what an id serves.           *)
Served(n, kind) ==
  IF \E a \in artifacts : a.id = n /\ a.kind = kind THEN copy[n] ELSE Nothing

-----------------------------------------------------------------------------
(* Peer review.                                                            *)

FirstTwo(seq) == [k \in DOMAIN seq \cap 1 .. 2 |-> seq[k]]

Shared(author, u) == {g \in Scope[author] : u \in MembersOf[g]}

(* _select_reviewers: the first two active members of the groups, in the   *)
(* order of their names, each as often as it shares a group with the       *)
(* author; then active teachers.                                           *)
Reviewers(author) ==
  LET Often(u) == [k \in 1 .. Cardinality(Shared(author, u)) |-> u]
      members == FlattenSeq([k \in DOMAIN ByName |->
                   IF ByName[k] \in active \ {author} THEN Often(ByName[k]) ELSE <<>>])
      others == SelectSeq(ByName, LAMBDA u : u \in (Teacher \cap active) \ {author}
                                             /\ ~Contains(members, u))
  IN FirstTwo(members \o others)

(* Without a reviewer the request is refused; the snapshot stays behind.   *)
SelectReviewers(t) ==
  /\ thread[t].at = "select"
  /\ LET chosen == Reviewers(thread[t].by) IN
     Set(t, IF chosen = <<>> THEN Idle
            ELSE [thread[t] EXCEPT !.at = "store", !.reviewers = chosen])
  /\ UNCHANGED <<events, project, active, next, copy, artifacts, reviewVars, feedback, crashed,
                 began, ended, overtaken>>

(* submit: the submission and its assignments, in one transaction.         *)
StoreSubmission(t) ==
  /\ thread[t].at = "store" /\ thread[t].kind = "review"
  /\ LET n == thread[t].id
         chosen == thread[t].reviewers
     IN /\ submission' = [submission EXCEPT ![n] = "pending"]
        /\ assigned' = assigned \cup
             {[id |-> n, nr |-> k, reviewer |-> chosen[k], by |-> thread[t].by] : k \in DOMAIN chosen}
        /\ ended' = [ended EXCEPT ![n] = project]
  /\ Set(t, Idle)
  /\ UNCHANGED <<events, project, active, next, copy, artifacts, done, feedback, crashed, began,
                 overtaken>>

Refreshing(n) == {u \in User : feedback[u] # Idle /\ feedback[u].id = n}

(* submit_feedback: the reviewer, or any teacher, completes an assignment, *)
(* again if it likes.                                                      *)
GiveFeedback(u, a) ==
  /\ feedback[u] = Idle /\ u \in active
  /\ u = a.reviewer \/ u \in Teacher
  /\ done' = done \cup {a}
  /\ feedback' = [feedback EXCEPT ![u] = [at |-> "read", id |-> a.id, complete |-> FALSE]]
  /\ overtaken' = IF Refreshing(a.id) # {} THEN overtaken \cup {a.id} ELSE overtaken
  /\ UNCHANGED <<events, project, active, thread, next, copy, artifacts, submission, assigned,
                 crashed, began, ended>>

AllDone(n) == {a \in assigned : a.id = n} \subseteq done

(* _refresh_submission_status reads the assignments ...                    *)
RefreshRead(u) ==
  /\ feedback[u].at = "read"
  /\ feedback' = [feedback EXCEPT ![u].at = "write", ![u].complete = AllDone(feedback[u].id)]
  /\ UNCHANGED <<events, project, active, thread, next, copy, artifacts, reviewVars, crashed,
                 began, ended, overtaken>>

(* Mutant: the status is "completed" as soon as there is feedback.         *)
RefreshCompleted(u) ==
  /\ feedback[u].at = "write"
  /\ submission' = [submission EXCEPT ![feedback[u].id] = "completed"]
  /\ feedback' = [feedback EXCEPT ![u] = Idle]
  /\ UNCHANGED <<events, project, active, thread, next, copy, artifacts, assigned, done, crashed,
                 began, ended, overtaken>>

(* ... and writes the status.                                              *)
RefreshWrite(u) ==
  /\ feedback[u].at = "write"
  /\ submission' = [submission EXCEPT
       ![feedback[u].id] = IF feedback[u].complete THEN "completed" ELSE "in_review"]
  /\ feedback' = [feedback EXCEPT ![u] = Idle]
  /\ UNCHANGED <<events, project, active, thread, next, copy, artifacts, assigned, done, crashed,
                 began, ended, overtaken>>

(* dashboard: a user's submissions and assignments, for teachers all.      *)
SubmissionsFor(u) == {n \in Id : submission[n] # "none" /\ (u \in Teacher \/
                        \E a \in assigned : a.id = n /\ a.by = u)}
AssignmentsFor(u) == {a \in assigned : u \in Teacher \/ a.reviewer = u}

-----------------------------------------------------------------------------
(* The rest of the system.                                                 *)

Event == events < MaxEvents /\ events' = events + 1

(* A file of the project is written, by the editor or by a run.            *)
WriteFile(f) ==
  /\ Event
  /\ project' = [project EXCEPT ![f] = @ + 1]
  /\ UNCHANGED <<active, thread, next, copy, artifacts, reviewVars, feedback, crashed,
                 began, ended, overtaken>>

(* An administrator deactivates a user.                                    *)
Deactivate(u) ==
  /\ Event
  /\ u \in active
  /\ active' = active \ {u}
  /\ UNCHANGED <<project, thread, next, copy, artifacts, reviewVars, feedback, crashed,
                 began, ended, overtaken>>

(* The server is restarted.                                                *)
Crash ==
  /\ Event
  /\ crashed' = TRUE
  /\ thread' = [t \in Thread |-> Idle]
  /\ feedback' = [u \in User |-> Idle]
  /\ UNCHANGED <<project, active, next, copy, artifacts, reviewVars, began, ended, overtaken>>

Next ==
  \/ \E t \in Thread :
       \/ \E author \in Author, kind \in Kind : Request(t, author, kind)
       \/ ListFiles(t)
       \/ \E f \in File : CopyFile(t, f)
       \/ Copied(t)
       \/ Fail(t)
       \/ StoreArtifact(t)
       \/ SelectReviewers(t)
       \/ StoreSubmission(t)
  \/ \E u \in User :
       \/ \E a \in AssignmentsFor(u) : GiveFeedback(u, a)
       \/ RefreshRead(u)
       \/ RefreshWrite(u)
       \/ Deactivate(u)
  \/ \E f \in File : WriteFile(f)
  \/ Crash

Spec == Init /\ [][Next]_vars

-----------------------------------------------------------------------------
(* Properties.                                                             *)

Work == {"idle", "list", "copy", "select", "store"}
Stored == {a.id : a \in artifacts} \cup {n \in Id : submission[n] # "none"}

(* Types; ids are given out once; what is stored is a share or an export   *)
(* or a submission, and no thread is still at work on it.                  *)
TypeOK ==
  /\ project \in [File -> Nat]
  /\ events \in 0 .. MaxEvents
  /\ active \subseteq User
  /\ DOMAIN thread = Thread /\ DOMAIN feedback = User
  /\ next \in 1 .. MaxCopies + 1
  /\ copy \in [Id -> [File -> Nat]]
  /\ submission \in [Id -> {"none", "pending", "in_review", "completed"}]
  /\ done \subseteq assigned
  /\ \A t \in Thread :
       /\ thread[t].at \in Work
       /\ thread[t] # Idle =>
            /\ thread[t].id \in 1 .. next - 1 /\ thread[t].id \notin Stored
            /\ \A s \in Thread \ {t} : thread[s] # Idle => thread[s].id # thread[t].id
  /\ \A a, b \in artifacts : a.id = b.id => a = b
  /\ Stored \subseteq 1 .. next - 1

Publishing == {t \in Thread : thread[t] # Idle /\ thread[t].kind # "review"}
Highest == IF Limit["share"] > Limit["export"] THEN Limit["share"] ELSE Limit["export"]

(* The quota is checked long before the artifact is stored, so it can be   *)
(* exceeded, but only by the requests that overlap: with n handler threads *)
(* by at most n - 1, over the larger of the two quotas, as both kinds      *)
(* count together.                                                         *)
QuotaOvershoot ==
  (Limit["share"] > 0 /\ Limit["export"] > 0) =>
    Cardinality(artifacts) + Cardinality(Publishing) <= Highest - 1 + Cardinality(Thread)

(* What is published is what the project was meanwhile: each file that was *)
(* there when the copy began is in it, in a version the project had        *)
(* between that and the moment the row appeared; files that came later are *)
(* not; a share has an index.html; and nothing of it changes afterwards.   *)
(* (The versions of two files need not be of one moment.)                  *)
CopiesAreOfTheirTime ==
  /\ \A n \in Stored :
       /\ FilesOf(n) = {f \in File : began[n][f] > 0}
       /\ \A f \in FilesOf(n) : copy[n][f] \in began[n][f] .. ended[n][f]
  /\ \A a \in artifacts : a.kind = "share" => Served(a.id, "share")[Index] > 0

(* A submission is "completed" only when all its assignments are, and, once*)
(* no feedback is being stored, exactly then; "pending" means that there is*)
(* no feedback yet. Excepted are two feedbacks stored at the same time, of *)
(* which the slower may write "in_review" for good, and a restart.         *)
StatusFollowsAssignments ==
  \A n \in Id :
    submission[n] # "none" =>
      /\ submission[n] = "completed" => AllDone(n)
      /\ (Refreshing(n) = {} /\ n \notin overtaken /\ ~crashed) =>
           /\ AllDone(n) => submission[n] = "completed"
           /\ submission[n] = "pending" <=> {a \in done : a.id = n} = {}
=============================================================================
