--------------------------- MODULE Publishing_proofs ---------------------------
(***************************************************************************)
(* Proofs about Publishing for any users, groups, projects, quotas, bounds *)
(* and any finite set of handler threads: by how much the quota can be     *)
(* exceeded, what a copy contains, and what the status of a submission     *)
(* says about its assignments.                                             *)
(***************************************************************************)
EXTENDS Publishing, FiniteSetTheorems, TLAPS

Versions == [File -> Nat]
Submitted == {n \in Id : submission[n] # "none"}

(* What a thread and a feedback request hold.                              *)
WorkFields(th) ==
  /\ DOMAIN th = {"at", "kind", "by", "id", "files", "reviewers"}
  /\ th.at \in {"list", "copy", "select", "store"}
  /\ th.kind \in Kind /\ th.id \in Id
FeedbackFields(fb) ==
  /\ DOMAIN fb = {"at", "id", "complete"}
  /\ fb.at \in {"read", "write"}
  /\ fb.id \in Id /\ fb.complete \in BOOLEAN

ThreadsOK ==
  /\ thread = [t \in Thread |-> thread[t]]
  /\ \A t \in Thread : thread[t] = Idle \/ WorkFields(thread[t])
FeedbackOK == DOMAIN feedback = User /\ \A u \in User : feedback[u] = Idle \/ FeedbackFields(feedback[u])

Shapes ==
  /\ project \in Versions
  /\ copy \in [Id -> Versions] /\ began \in [Id -> Versions] /\ ended \in [Id -> Versions]
  /\ next \in Nat \ {0}
  /\ ThreadsOK /\ FeedbackOK
  /\ \A a \in artifacts : a.id \in Id /\ a.kind \in {"share", "export"}
  /\ submission \in [Id -> {"none", "pending", "in_review", "completed"}]

(* An id is given out once, and nobody works on what is stored.            *)
Ids ==
  /\ \A t \in Thread : thread[t] # Idle =>
       /\ thread[t].id < next /\ thread[t].id \notin Stored
       /\ \A s \in Thread \ {t} : thread[s] # Idle => thread[s].id # thread[t].id
  /\ \A n \in Stored : n < next
  /\ \A a, b \in artifacts : a.id = b.id => a = b

(* File f of copy n: not copied yet, or a version since the copy began.    *)
CopiedInTime(n, f) ==
  /\ began[n][f] <= project[f]
  /\ copy[n][f] # 0 =>
       /\ began[n][f] # 0
       /\ began[n][f] <= copy[n][f] /\ copy[n][f] <= project[f]

(* How far a copy has got, by the place of its thread.                     *)
CopyFits(th) ==
  /\ th.at = "list" => copy[th.id] = Nothing
  /\ th.at \in {"copy", "select", "store"} =>
       /\ th.files = {f \in File : began[th.id][f] > 0}
       /\ \A f \in File : CopiedInTime(th.id, f)
  /\ th.at \in {"select", "store"} => \A f \in th.files : copy[th.id][f] # 0
  /\ th.at = "select" => th.kind = "review"
  /\ th.at = "store" /\ th.kind = "share" => Index \in th.files
  /\ th.at = "store" /\ th.kind = "review" => DOMAIN th.reviewers # {}

(* A stored copy.                                                          *)
StoredFits(n) ==
  /\ \A f \in File : (copy[n][f] # 0) <=> (began[n][f] # 0)
  /\ \A f \in File : copy[n][f] # 0 =>
       began[n][f] <= copy[n][f] /\ copy[n][f] <= ended[n][f]

Copies ==
  /\ \A n \in Id : n >= next => copy[n] = Nothing
  /\ \A t \in Thread : thread[t] # Idle => CopyFits(thread[t])
  /\ \A n \in Stored : StoredFits(n)
  /\ \A a \in artifacts : a.kind = "share" => copy[a.id][Index] # 0

Quota == IsFiniteSet(artifacts) /\ QuotaOvershoot

(* A submission and its assignments appear together, ...                   *)
AssignmentsFit ==
  /\ done \subseteq assigned
  /\ \A a \in assigned : a.id \in Submitted
  /\ \A n \in Submitted : \E a \in assigned : a.id = n

(* ... a feedback request belongs to a submission with feedback, and knows *)
(* the truth about it when no other request is under way for it, ...       *)
FeedbackFits ==
  \A u \in User : feedback[u] # Idle =>
    LET n == feedback[u].id IN
      /\ n \in Submitted
      /\ \E a \in done : a.id = n
      /\ feedback[u].at = "write" /\ feedback[u].complete => AllDone(n)
      /\ feedback[u].at = "write" /\ n \notin overtaken => (AllDone(n) => feedback[u].complete)
      /\ n \notin overtaken => \A v \in User : v \in Refreshing(n) => v = u

(* ... and the status is as it should be.                                  *)
Statuses == AssignmentsFit /\ FeedbackFits /\ StatusFollowsAssignments

IInv == Shapes /\ Ids /\ Copies /\ Quota /\ Statuses

-----------------------------------------------------------------------------
(* What the parts of the invariant say of one thread.                      *)
LEMMA Working ==
  ASSUME Shapes, NEW t \in Thread, thread[t].at # "idle" \/ thread[t] # Idle
  PROVE  /\ thread[t] # Idle /\ WorkFields(thread[t])
         /\ thread[t].id \in Id /\ thread[t].kind \in Kind
         /\ thread[t].at \in {"list", "copy", "select", "store"}
BY DEF Shapes, ThreadsOK, WorkFields, Idle

LEMMA SetsThread ==
  ASSUME Shapes, NEW t \in Thread, NEW th, th = Idle \/ WorkFields(th), Set(t, th)
  PROVE  /\ ThreadsOK'
         /\ thread'[t] = th
         /\ \A s \in Thread \ {t} : thread'[s] = thread[s]
BY DEF Shapes, ThreadsOK, Set

(* Parts that a step leaves alone.                                         *)
LEMMA StatusesKept ==
  ASSUME Statuses, UNCHANGED <<submission, assigned, done, feedback, overtaken, crashed>>
  PROVE  Statuses'
<1>1. AssignmentsFit'
  BY DEF Statuses, AssignmentsFit, Submitted
<1>2. FeedbackFits'
  BY DEF Statuses, FeedbackFits, Submitted, Refreshing, AllDone
<1>3. StatusFollowsAssignments'
  BY DEF Statuses, StatusFollowsAssignments, Refreshing, AllDone
<1> QED
  BY <1>1, <1>2, <1>3 DEF Statuses

LEMMA PublishingFinite ==
  /\ IsFiniteSet(Publishing) /\ Cardinality(Publishing) \in Nat
  /\ Cardinality(Publishing) <= Cardinality(Thread)
  /\ Cardinality(Thread) \in Nat
<1>1. Publishing \subseteq Thread /\ IsFiniteSet(Thread)
  BY PublishingAssumption DEF Publishing
<1> QED
  BY <1>1, FS_Subset, FS_CardinalityType

LEMMA PublishingFiniteNext ==
  /\ IsFiniteSet(Publishing') /\ Cardinality(Publishing') \in Nat
  /\ Cardinality(Publishing') <= Cardinality(Thread)
<1>1. Publishing' \subseteq Thread /\ IsFiniteSet(Thread)
  BY PublishingAssumption DEF Publishing
<1> QED
  BY <1>1, FS_Subset, FS_CardinalityType

LEMMA HighestType == Highest \in Int /\ Limit["share"] \in Int /\ Limit["export"] \in Int
BY PublishingAssumption DEF Highest

LEMMA QuotaKept ==
  ASSUME Quota, artifacts' = artifacts, Publishing' \subseteq Publishing
  PROVE  Quota'
<1>1. Cardinality(artifacts) \in Nat
  BY FS_CardinalityType DEF Quota
<1>2. Cardinality(Publishing') <= Cardinality(Publishing)
  BY PublishingFinite, FS_Subset
<1> QED
  BY <1>1, <1>2, PublishingFinite, PublishingFiniteNext, HighestType
  DEF Quota, QuotaOvershoot, Highest

(* A thread goes on with its copy, or gives it up; what it copies is its   *)
(* alone.                                                                  *)
LEMMA WorkKeeps ==
  ASSUME IInv, NEW t \in Thread, thread[t] # Idle,
         NEW th, th = Idle \/ WorkFields(th), Set(t, th),
         th # Idle => th.id = thread[t].id /\ th.kind = thread[t].kind,
         UNCHANGED <<project, next, artifacts, reviewVars, feedback, ended, overtaken, crashed>>,
         copy' \in [Id -> Versions], began' \in [Id -> Versions],
         \A n \in Id \ {thread[t].id} : copy'[n] = copy[n] /\ began'[n] = began[n],
         th # Idle => CopyFits(th)'
  PROVE  IInv'
<1> USE DEF IInv
<1>1. ThreadsOK' /\ thread'[t] = th /\ \A s \in Thread \ {t} : thread'[s] = thread[s]
  BY SetsThread
<1>2. Shapes'
  BY <1>1 DEF Shapes, FeedbackOK, reviewVars
<1>3. Stored' = Stored
  BY DEF Stored, reviewVars
<1>4. Ids'
  <2>1. ASSUME NEW s \in Thread, thread'[s] # Idle
        PROVE  /\ thread[s] # Idle /\ thread'[s].id = thread[s].id
    BY <1>1, <2>1
  <2>2. ASSUME NEW s \in Thread, thread'[s] # Idle
        PROVE  /\ thread'[s].id < next' /\ thread'[s].id \notin Stored'
               /\ \A u \in Thread \ {s} : thread'[u] # Idle => thread'[u].id # thread'[s].id
    BY <1>3, <2>1, <2>2 DEF Ids
  <2> QED
    BY <1>3, <2>2 DEF Ids
<1>5. Copies'
  <2>1. thread[t].id \in Id /\ thread[t].id < next /\ thread[t].id \notin Stored
    BY Working DEF Ids
  <2>2. ASSUME NEW n \in Id, n >= next' PROVE copy'[n] = Nothing
    <3>1. next \in Nat /\ n \in Int /\ thread[t].id \in Int
      BY <2>1 DEF Shapes, Id
    <3> QED
      BY <2>1, <2>2, <3>1 DEF Copies
  <2>3. ASSUME NEW s \in Thread, thread'[s] # Idle PROVE CopyFits(thread[s])'
    <3>1. CASE s = t
      BY <1>1, <2>3, <3>1 DEF CopyFits, CopiedInTime
    <3>2. CASE s # t
      <4>1. thread'[s] = thread[s] /\ thread[s] # Idle /\ thread[s].id # thread[t].id
        BY <1>1, <2>3, <3>2 DEF Ids
      <4>2. thread[s].id \in Id /\ CopyFits(thread[s])
        BY <4>1, Working DEF Copies
      <4> QED
        BY <4>1, <4>2 DEF CopyFits, CopiedInTime
    <3> QED
      BY <3>1, <3>2
  <2>4. ASSUME NEW n \in Stored' PROVE StoredFits(n)'
    <3>1. n \in Id /\ n # thread[t].id /\ StoredFits(n)
      BY <1>3, <2>1, <2>4 DEF Copies, Stored, Shapes
    <3> QED
      BY <3>1 DEF StoredFits
  <2>5. ASSUME NEW a \in artifacts', a.kind = "share" PROVE copy'[a.id][Index] # 0
    <3>1. a.id \in Stored /\ a.id \in Id /\ copy[a.id][Index] # 0
      BY <2>5 DEF Stored, Copies, Shapes
    <3> QED
      BY <2>1, <3>1
  <2> QED
    BY <2>2, <2>3, <2>4, <2>5 DEF Copies
<1>6. Quota'
  <2>1. Publishing' \subseteq Publishing
    BY <1>1 DEF Publishing
  <2> QED
    BY <2>1, QuotaKept
<1>7. Statuses'
  BY StatusesKept DEF reviewVars
<1> QED
  BY <1>2, <1>4, <1>5, <1>6, <1>7

(* What Copies says of the thread at hand.                                 *)
LEMMA Copying ==
  ASSUME IInv, NEW t \in Thread, thread[t] # Idle
  PROVE  /\ thread[t].id \in Id /\ CopyFits(thread[t])
         /\ copy[thread[t].id] \in Versions /\ began[thread[t].id] \in Versions
         /\ project \in Versions
BY Working DEF IInv, Shapes, Copies

LEMMA ListFilesKeeps ==
  ASSUME IInv, NEW t \in Thread, ListFiles(t)
  PROVE  IInv'
<1>1. PICK n : n = thread[t].id
  OBVIOUS
<1>2. PICK th : th = [thread[t] EXCEPT !.at = "copy", !.files = {f \in File : project[f] > 0}]
  OBVIOUS
<1>3. /\ thread[t] # Idle /\ WorkFields(thread[t]) /\ n \in Id
      /\ copy[n] = Nothing /\ project \in Versions
  BY <1>1, Working, Copying DEF ListFiles, CopyFits, IInv
<1>4. /\ WorkFields(th) /\ th.at = "copy" /\ th.id = n /\ th.kind = thread[t].kind
      /\ th.files = {f \in File : project[f] > 0} /\ th # Idle
  BY <1>1, <1>2, <1>3 DEF WorkFields, Idle
<1>5. began' = [began EXCEPT ![n] = project] /\ copy' = copy /\ project' = project
  BY <1>1 DEF ListFiles
<1>6. began' \in [Id -> Versions] /\ began'[n] = project /\ \A m \in Id \ {n} : began'[m] = began[m]
  BY <1>3, <1>5 DEF IInv, Shapes
<1>7. CopyFits(th)'
  <2>1. \A f \in File : project[f] \in Nat /\ copy[n][f] = 0
    BY <1>3 DEF Versions, Nothing
  <2>2. \A f \in File : CopiedInTime(n, f)'
    BY <1>5, <1>6, <2>1 DEF CopiedInTime
  <2> QED
    BY <1>4, <1>5, <1>6, <2>2 DEF CopyFits
<1>8. /\ Set(t, th) /\ copy' \in [Id -> Versions]
      /\ UNCHANGED <<project, next, artifacts, reviewVars, feedback, ended, overtaken, crashed>>
  BY <1>2 DEF ListFiles, IInv, Shapes
<1> QED
  BY <1>1, <1>3, <1>4, <1>5, <1>6, <1>7, <1>8, WorkKeeps

LEMMA CopyFileKeeps ==
  ASSUME IInv, NEW t \in Thread, NEW f \in File, CopyFile(t, f)
  PROVE  IInv'
<1>1. PICK th : th = thread[t]
  OBVIOUS
<1>2. PICK n : n = th.id
  OBVIOUS
<1>3. /\ thread[t] # Idle /\ WorkFields(th) /\ n \in Id
      /\ CopyFits(th) /\ project \in Versions /\ th.at = "copy"
      /\ copy[n] \in Versions /\ began[n] \in Versions
  BY <1>1, <1>2, Working, Copying DEF CopyFile, IInv
<1>4. copy' = [copy EXCEPT ![n][f] = project[f]] /\ began' = began /\ project' = project
  BY <1>1, <1>2 DEF CopyFile
<1>5. /\ copy' \in [Id -> Versions]
      /\ copy'[n] = [copy[n] EXCEPT ![f] = project[f]]
      /\ \A m \in Id \ {n} : copy'[m] = copy[m]
  <2>1. [copy[n] EXCEPT ![f] = project[f]] \in Versions
    BY <1>3 DEF Versions
  <2> QED
    BY <1>3, <1>4, <2>1 DEF IInv, Shapes
<1>6. Set(t, th)
  <2>1. thread' = thread /\ thread = [s \in Thread |-> thread[s]]
    BY DEF CopyFile, IInv, Shapes, ThreadsOK
  <2> QED
    BY <1>1, <2>1 DEF Set
<1>7. /\ f \in File /\ began[n][f] > 0 /\ began[n][f] <= project[f]
      /\ project[f] \in Nat /\ began[n][f] \in Nat
  BY <1>1, <1>2, <1>3 DEF CopyFile, Left, CopyFits, CopiedInTime, Versions
<1>8. CopyFits(th)'
  <2>1. ASSUME NEW g \in File PROVE CopiedInTime(n, g)'
    <3>1. CopiedInTime(n, g)
      BY <1>2, <1>3, <2>1 DEF CopyFits
    <3>2. CASE g = f
      <4>1. copy'[n][g] = project[f]
        BY <1>3, <1>5, <3>2 DEF Versions
      <4> QED
        BY <1>4, <1>7, <3>2, <4>1 DEF CopiedInTime
    <3>3. CASE g # f
      <4>1. copy'[n][g] = copy[n][g]
        BY <1>3, <1>5, <3>3 DEF Versions
      <4> QED
        BY <1>4, <3>1, <4>1 DEF CopiedInTime
    <3> QED
      BY <3>2, <3>3
  <2> QED
    BY <1>2, <1>3, <1>4, <2>1 DEF CopyFits
<1>9. /\ UNCHANGED <<project, next, artifacts, reviewVars, feedback, ended, overtaken, crashed>>
      /\ began' \in [Id -> Versions] /\ \A m \in Id \ {n} : began'[m] = began[m]
  BY <1>4 DEF CopyFile, IInv, Shapes
<1> QED
  BY <1>1, <1>2, <1>3, <1>5, <1>6, <1>8, <1>9, WorkKeeps

(* A step of a thread that touches no copy.                                *)
LEMMA QuietKeeps ==
  ASSUME IInv, NEW t \in Thread, thread[t] # Idle,
         NEW th, th = Idle \/ WorkFields(th), Set(t, th),
         th # Idle => /\ th.id = thread[t].id /\ th.kind = thread[t].kind
                      /\ CopyFits(th),
         UNCHANGED <<project, next, copy, began, artifacts, reviewVars, feedback, ended,
                     overtaken, crashed>>
  PROVE  IInv'
<1>1. th # Idle => CopyFits(th)'
  BY DEF CopyFits, CopiedInTime
<1>2. /\ copy' \in [Id -> Versions] /\ began' \in [Id -> Versions]
      /\ \A n \in Id \ {thread[t].id} : copy'[n] = copy[n] /\ began'[n] = began[n]
      /\ UNCHANGED <<project, next, artifacts, reviewVars, feedback, ended, overtaken, crashed>>
  BY DEF IInv, Shapes
<1> QED
  BY <1>1, <1>2, WorkKeeps

LEMMA CopiedKeeps ==
  ASSUME IInv, NEW t \in Thread, Copied(t)
  PROVE  IInv'
<1> DEFINE th(p) == [thread[t] EXCEPT !.at = p]
<1>1. /\ thread[t] # Idle /\ WorkFields(thread[t]) /\ CopyFits(thread[t])
      /\ thread[t].at = "copy" /\ thread[t].kind \in Kind
  BY Working, Copying DEF Copied, IInv
<1>2. \A f \in thread[t].files : copy[thread[t].id][f] # 0
  BY DEF Copied, Left
<1>3. /\ UNCHANGED <<project, next, copy, began, artifacts, reviewVars, feedback, ended,
                     overtaken, crashed>>
  BY DEF Copied
<1>4. ASSUME NEW p \in {"select", "store"}
      PROVE  /\ WorkFields(th(p)) /\ th(p) # Idle /\ th(p).at = p
             /\ th(p).id = thread[t].id /\ th(p).kind = thread[t].kind
             /\ th(p).files = thread[t].files
  BY <1>1 DEF WorkFields, Idle
<1> HIDE DEF th
<1>5. CASE thread[t].kind = "review" /\ Set(t, th("select"))
  <2>1. CopyFits(th("select"))
    BY <1>1, <1>2, <1>4, <1>5 DEF CopyFits
  <2> QED
    BY <1>1, <1>3, <1>4, <1>5, <2>1, QuietKeeps
<1>6. CASE Set(t, Idle)
  BY <1>1, <1>3, <1>6, QuietKeeps
<1>7. CASE /\ thread[t].kind # "review"
           /\ thread[t].kind = "share" => Index \in thread[t].files
           /\ Set(t, th("store"))
  <2>1. CopyFits(th("store"))
    BY <1>1, <1>2, <1>4, <1>7 DEF CopyFits
  <2> QED
    BY <1>1, <1>3, <1>4, <1>7, <2>1, QuietKeeps
<1> QED
  BY <1>1, <1>5, <1>6, <1>7 DEF Copied, th, Kind

LEMMA FailKeeps ==
  ASSUME IInv, NEW t \in Thread, Fail(t)
  PROVE  IInv'
<1>1. thread[t] # Idle
  BY Working DEF Fail, IInv
<1> QED
  BY <1>1, QuietKeeps DEF Fail

LEMMA SelectKeeps ==
  ASSUME IInv, NEW t \in Thread, SelectReviewers(t)
  PROVE  IInv'
<1> DEFINE chosen == Reviewers(thread[t].by)
           th == [thread[t] EXCEPT !.at = "store", !.reviewers = chosen]
<1>1. /\ thread[t] # Idle /\ WorkFields(thread[t]) /\ CopyFits(thread[t])
      /\ thread[t].at = "select"
  BY Working, Copying DEF SelectReviewers, IInv
<1>2. UNCHANGED <<project, next, copy, began, artifacts, reviewVars, feedback, ended,
                  overtaken, crashed>>
  BY DEF SelectReviewers
<1>3. CASE Set(t, Idle)
  BY <1>1, <1>2, <1>3, QuietKeeps
<1>4. CASE chosen # <<>> /\ Set(t, th)
  <2>1. DOMAIN chosen # {}
    <3>1. PICK seq : chosen = [k \in DOMAIN seq \cap 1 .. 2 |-> seq[k]]
      BY DEF Reviewers, FirstTwo
    <3> HIDE DEF chosen
    <3>2. chosen = [k \in DOMAIN chosen |-> chosen[k]]
      BY <3>1
    <3>3. ASSUME DOMAIN chosen = {} PROVE chosen = <<>>
      BY <3>2, <3>3
    <3> QED
      BY <1>4, <3>3
  <2> HIDE DEF chosen
  <2>2. /\ WorkFields(th) /\ th # Idle /\ th.at = "store" /\ th.reviewers = chosen
        /\ th.id = thread[t].id /\ th.kind = thread[t].kind /\ th.files = thread[t].files
    BY <1>1 DEF WorkFields, Idle
  <2> HIDE DEF th
  <2>3. CopyFits(th)
    BY <1>1, <2>1, <2>2 DEF CopyFits
  <2> QED
    BY <1>1, <1>2, <1>4, <2>2, <2>3, QuietKeeps
<1> QED
  BY <1>3, <1>4 DEF SelectReviewers

(* A new request: its id and its copy are unused, and the quota leaves room*)
(* for every thread that may now be at work.                               *)
LEMMA RequestKeeps ==
  ASSUME IInv, NEW t \in Thread, NEW author \in Author, NEW kind \in Kind,
         Request(t, author, kind)
  PROVE  IInv'
<1>1. PICK th : th = [at |-> "list", kind |-> kind, by |-> author, id |-> next,
                      files |-> {}, reviewers |-> <<>>]
  OBVIOUS
<1>2. /\ WorkFields(th) /\ th.at = "list" /\ th.id = next /\ th.kind = kind /\ th # Idle
  BY <1>1 DEF WorkFields, Idle, Request
<1>3. /\ Set(t, th) /\ thread[t] = Idle /\ next \in Id /\ next' = next + 1 /\ next \in Nat
  BY <1>1 DEF Request, FreshId, IInv, Shapes
<1>4. UNCHANGED <<project, copy, artifacts, submission, assigned, done, feedback, crashed, began,
                  ended, overtaken>>
  BY DEF Request, reviewVars
<1>5. ThreadsOK' /\ thread'[t] = th /\ \A s \in Thread \ {t} : thread'[s] = thread[s]
  BY <1>2, <1>3, SetsThread DEF IInv
<1>6. Shapes'
  BY <1>3, <1>4, <1>5 DEF IInv, Shapes, FeedbackOK
<1>7. Stored' = Stored /\ \A n \in Stored : n \in Id
  BY <1>4 DEF Stored, IInv, Shapes
<1>8. Ids'
  <2>1. \A s \in Thread : thread[s] # Idle => thread[s].id \in Id
    BY Working DEF IInv
  <2>2. ASSUME NEW s \in Thread, thread'[s] # Idle
        PROVE  /\ thread'[s].id < next' /\ thread'[s].id \notin Stored'
               /\ \A u \in Thread \ {s} : thread'[u] # Idle => thread'[u].id # thread'[s].id
    <3>1. CASE s = t
      BY <1>2, <1>3, <1>5, <1>7, <2>1, <3>1 DEF IInv, Ids, Id
    <3>2. CASE s # t
      BY <1>2, <1>3, <1>5, <1>7, <2>1, <2>2, <3>2 DEF IInv, Ids, Id
    <3> QED
      BY <3>1, <3>2
  <2>3. \A n \in Stored' : n < next'
    BY <1>3, <1>7 DEF IInv, Ids, Id
  <2> QED
    BY <1>4, <2>2, <2>3 DEF IInv, Ids
<1>9. Copies'
  <2>1. \A n \in Id : n >= next' => copy'[n] = Nothing
    BY <1>3, <1>4 DEF IInv, Copies, Id
  <2>2. ASSUME NEW s \in Thread, thread'[s] # Idle PROVE CopyFits(thread[s])'
    <3>1. CASE s = t
      <4>1. copy[next] = Nothing
        BY <1>3 DEF IInv, Copies
      <4> QED
        BY <1>2, <1>4, <1>5, <3>1, <4>1 DEF CopyFits
    <3>2. CASE s # t
      <4>1. thread'[s] = thread[s] /\ CopyFits(thread[s])
        BY <1>5, <2>2, <3>2 DEF IInv, Copies
      <4> QED
        BY <1>4, <4>1 DEF CopyFits, CopiedInTime
    <3> QED
      BY <3>1, <3>2
  <2>3. \A n \in Stored' : StoredFits(n)'
    BY <1>4, <1>7 DEF IInv, Copies, StoredFits
  <2> QED
    BY <1>4, <2>1, <2>2, <2>3 DEF IInv, Copies
<1>10. Quota'
  <2>1. CASE kind = "review"
    <3>1. Publishing' \subseteq Publishing
      BY <1>2, <1>5, <2>1 DEF Publishing
    <3> QED
      BY <1>4, <3>1, QuotaKept DEF IInv
  <2>2. CASE kind # "review"
    <3>1. Cardinality(artifacts) \in Nat /\ IsFiniteSet(artifacts)
      BY FS_CardinalityType DEF IInv, Quota
    <3>2. /\ kind \in {"share", "export"} /\ Limit[kind] \in Int
          /\ Limit[kind] <= 0 \/ Cardinality(artifacts) < Limit[kind]
      BY <2>2, <3>1, HighestType DEF Request, QuotaReached, Kind
    <3>3. Limit[kind] <= Highest
      BY <3>2, HighestType DEF Highest
    <3> QED
      BY <1>4, <3>1, <3>2, <3>3, HighestType, PublishingFinite, PublishingFiniteNext
      DEF Quota, QuotaOvershoot, Highest
  <2> QED
    BY <2>1, <2>2
<1>11. Statuses'
  BY <1>4, StatusesKept DEF IInv
<1> QED
  BY <1>6, <1>8, <1>9, <1>10, <1>11 DEF IInv

(* A finished copy gets its row: what it contains is of its time.          *)
LEMMA StoredInTime ==
  ASSUME IInv, NEW t \in Thread, thread[t].at = "store", Set(t, Idle),
         ended' = [ended EXCEPT ![thread[t].id] = project],
         Stored' = Stored \cup {thread[t].id},
         UNCHANGED <<project, next, copy, began>>
  PROVE  /\ thread[t] # Idle /\ thread[t].id \in Id /\ thread[t].id \notin Stored
         /\ ThreadsOK' /\ thread'[t] = Idle /\ \A s \in Thread \ {t} : thread'[s] = thread[s]
         /\ ended' \in [Id -> Versions]
         /\ \A s \in Thread : thread'[s] # Idle =>
              /\ thread'[s].id < next' /\ thread'[s].id \notin Stored'
              /\ \A u \in Thread \ {s} : thread'[u] # Idle => thread'[u].id # thread'[s].id
         /\ \A n \in Stored' : n < next'
         /\ \A n \in Id : n >= next' => copy'[n] = Nothing
         /\ \A s \in Thread : thread'[s] # Idle => CopyFits(thread[s])'
         /\ \A n \in Stored' : StoredFits(n)'
<1>1. PICK th : th = thread[t]
  OBVIOUS
<1>2. PICK n : n = th.id
  OBVIOUS
<1>3. /\ thread[t] # Idle /\ n \in Id /\ n \notin Stored /\ n < next /\ CopyFits(th)
      /\ copy[n] \in Versions /\ began[n] \in Versions /\ project \in Versions
  BY <1>1, <1>2, Working, Copying DEF IInv, Ids
<1>4. ThreadsOK' /\ thread'[t] = Idle /\ \A s \in Thread \ {t} : thread'[s] = thread[s]
  BY SetsThread DEF IInv
<1>5. ended' = [ended EXCEPT ![n] = project] /\ Stored' = Stored \cup {n}
  BY <1>1, <1>2
<1>6. /\ ended' \in [Id -> Versions] /\ ended'[n] = project
      /\ \A m \in Id \ {n} : ended'[m] = ended[m]
  BY <1>3, <1>5 DEF IInv, Shapes
<1>7. ASSUME NEW s \in Thread, thread'[s] # Idle
      PROVE  /\ thread'[s].id < next' /\ thread'[s].id \notin Stored'
             /\ \A u \in Thread \ {s} : thread'[u] # Idle => thread'[u].id # thread'[s].id
             /\ CopyFits(thread[s])'
  <2>1. s # t /\ thread'[s] = thread[s] /\ thread[s] # Idle /\ CopyFits(thread[s])
    BY <1>4, <1>7 DEF IInv, Copies
  <2>2. thread[s].id # n
    BY <1>1, <1>2, <1>3, <2>1 DEF IInv, Ids
  <2>3. CopyFits(thread[s])'
    BY <2>1 DEF CopyFits, CopiedInTime
  <2>4. \A u \in Thread \ {s} : thread'[u] # Idle => thread'[u].id # thread'[s].id
    BY <1>4, <2>1 DEF IInv, Ids
  <2> QED
    BY <1>5, <2>1, <2>2, <2>3, <2>4 DEF IInv, Ids
<1>8. StoredFits(n)'
  <2>1. /\ th.files = {f \in File : began[n][f] > 0}
        /\ \A f \in File : CopiedInTime(n, f)
        /\ \A f \in th.files : copy[n][f] # 0
    BY <1>1, <1>2, <1>3 DEF CopyFits
  <2>2. \A f \in File : began[n][f] \in Nat
    BY <1>3 DEF Versions
  <2>3. \A f \in File : (copy[n][f] # 0) <=> (began[n][f] # 0)
    BY <2>1, <2>2 DEF CopiedInTime
  <2> QED
    BY <1>6, <2>1, <2>3 DEF StoredFits, CopiedInTime
<1>9. ASSUME NEW m \in Stored' PROVE m < next' /\ StoredFits(m)'
  <2>1. CASE m = n
    BY <1>3, <1>8, <2>1
  <2>2. CASE m # n
    <3>1. m \in Stored /\ m \in Id /\ m < next /\ StoredFits(m)
      BY <1>5, <1>9, <2>2 DEF IInv, Ids, Copies, Shapes, Stored
    <3> QED
      BY <1>6, <2>2, <3>1 DEF StoredFits
  <2> QED
    BY <2>1, <2>2
<1> QED
  BY <1>1, <1>2, <1>3, <1>4, <1>6, <1>7, <1>9 DEF IInv, Copies

LEMMA StoreArtifactKeeps ==
  ASSUME IInv, NEW t \in Thread, StoreArtifact(t)
  PROVE  IInv'
<1>1. PICK r : r = [id |-> thread[t].id, kind |-> thread[t].kind, owner |-> thread[t].by]
  OBVIOUS
<1>2. /\ r.id = thread[t].id /\ r.kind = thread[t].kind /\ r.kind \in {"share", "export"}
      /\ artifacts' = artifacts \cup {r} /\ thread[t].at = "store" /\ Set(t, Idle)
      /\ ended' = [ended EXCEPT ![thread[t].id] = project]
  BY <1>1 DEF StoreArtifact
<1>3. UNCHANGED <<project, next, copy, submission, assigned, done, feedback, crashed, began,
                  overtaken>>
  BY DEF StoreArtifact, reviewVars
<1>4. Stored' = Stored \cup {thread[t].id}
  BY <1>2, <1>3 DEF Stored
<1>5. /\ thread[t] # Idle /\ thread[t].id \in Id /\ thread[t].id \notin Stored
      /\ ThreadsOK' /\ thread'[t] = Idle /\ \A s \in Thread \ {t} : thread'[s] = thread[s]
      /\ ended' \in [Id -> Versions]
  BY <1>2, <1>3, <1>4, StoredInTime
<1>6. Shapes'
  BY <1>2, <1>3, <1>5 DEF IInv, Shapes, FeedbackOK
<1>7. Ids'
  <2>1. \A a \in artifacts : a.id # r.id
    BY <1>2, <1>5 DEF Stored
  <2>2. \A a, b \in artifacts' : a.id = b.id => a = b
    BY <1>2, <2>1 DEF IInv, Ids
  <2> QED
    BY <1>2, <1>3, <1>4, <2>2, StoredInTime DEF Ids
<1>8. Copies'
  <2>1. ASSUME r.kind = "share" PROVE copy[r.id][Index] # 0
    <3>1. CopyFits(thread[t])
      BY <1>5 DEF IInv, Copies
    <3> QED
      BY <1>2, <2>1, <3>1 DEF CopyFits
  <2>2. \A a \in artifacts' : a.kind = "share" => copy'[a.id][Index] # 0
    BY <1>2, <1>3, <2>1 DEF IInv, Copies
  <2> QED
    BY <1>2, <1>3, <1>4, <2>2, StoredInTime DEF Copies
<1>9. Quota'
  <2>1. /\ IsFiniteSet(artifacts') /\ Cardinality(artifacts) \in Nat
        /\ Cardinality(artifacts') \in Nat /\ Cardinality(artifacts') <= Cardinality(artifacts) + 1
    <3>1. IsFiniteSet(artifacts) /\ Cardinality(artifacts) \in Nat
      BY FS_CardinalityType DEF IInv, Quota
    <3>2. /\ IsFiniteSet(artifacts \cup {r})
          /\ \/ Cardinality(artifacts \cup {r}) = Cardinality(artifacts)
             \/ Cardinality(artifacts \cup {r}) = Cardinality(artifacts) + 1
      BY <3>1, FS_AddElement
    <3> QED
      BY <1>2, <3>1, <3>2
  <2>2. Publishing' \subseteq Publishing \ {t} /\ t \in Publishing
    BY <1>2, <1>5 DEF Publishing
  <2>3. /\ IsFiniteSet(Publishing \ {t})
        /\ Cardinality(Publishing \ {t}) = Cardinality(Publishing) - 1
    BY <2>2, PublishingFinite, FS_RemoveElement
  <2>4. Cardinality(Publishing') <= Cardinality(Publishing) - 1
    BY <2>2, <2>3, FS_Subset
  <2> QED
    BY <2>1, <2>4, PublishingFinite, PublishingFiniteNext, HighestType
    DEF IInv, Quota, QuotaOvershoot, Highest
<1>10. Statuses'
  BY <1>3, StatusesKept DEF IInv
<1> QED
  BY <1>6, <1>7, <1>8, <1>9, <1>10 DEF IInv

(* Steps of peer review leave the artifacts and, if they store no new      *)
(* submission, the copies alone.                                           *)
LEMMA CopiesKept ==
  ASSUME IInv, Submitted' = Submitted,
         UNCHANGED <<project, thread, next, copy, artifacts, began, ended>>,
         submission' \in [Id -> {"none", "pending", "in_review", "completed"}],
         FeedbackOK'
  PROVE  Shapes' /\ Ids' /\ Copies' /\ Quota'
<1>1. Stored' = Stored
  BY DEF Stored, Submitted
<1>2. Shapes'
  BY DEF IInv, Shapes, ThreadsOK
<1>3. Ids'
  BY <1>1 DEF IInv, Ids
<1>4. Copies'
  BY <1>1 DEF IInv, Copies, CopyFits, CopiedInTime, StoredFits
<1>5. Quota'
  BY QuotaKept DEF IInv, Publishing
<1> QED
  BY <1>2, <1>3, <1>4, <1>5

(* A submission appears with its assignments, and nobody can have given    *)
(* feedback for it yet.                                                    *)
LEMMA StoreSubmissionKeeps ==
  ASSUME IInv, NEW t \in Thread, StoreSubmission(t)
  PROVE  IInv'
<1>1. PICK n : n = thread[t].id
  OBVIOUS
<1>2. PICK new : new = {[id |-> n, nr |-> k, reviewer |-> thread[t].reviewers[k],
                         by |-> thread[t].by] : k \in DOMAIN thread[t].reviewers}
  OBVIOUS
<1>3. /\ submission' = [submission EXCEPT ![n] = "pending"] /\ assigned' = assigned \cup new
      /\ ended' = [ended EXCEPT ![n] = project] /\ thread[t].at = "store"
      /\ thread[t].kind = "review" /\ Set(t, Idle)
  BY <1>1, <1>2 DEF StoreSubmission
<1>4. UNCHANGED <<project, next, copy, artifacts, done, feedback, crashed, began, overtaken>>
  BY DEF StoreSubmission
<1>5. thread[t] # Idle /\ n \in Id /\ n \notin Stored
  BY <1>1, <1>3, Working DEF IInv, Ids
<1>6. /\ n \notin Submitted /\ Submitted' = Submitted \cup {n} /\ Stored' = Stored \cup {n}
      /\ submission' \in [Id -> {"none", "pending", "in_review", "completed"}]
  BY <1>3, <1>4, <1>5 DEF IInv, Shapes, Stored, Submitted
<1>7. (\A a \in new : a.id = n) /\ \E a \in new : a.id = n
  <2>1. DOMAIN thread[t].reviewers # {}
    BY <1>3, <1>5 DEF IInv, Copies, CopyFits
  <2>2. PICK k \in DOMAIN thread[t].reviewers : TRUE
    BY <2>1
  <2>3. [id |-> n, nr |-> k, reviewer |-> thread[t].reviewers[k], by |-> thread[t].by] \in new
    BY <1>2, <2>2
  <2>4. \A a \in new : a.id = n
    BY <1>2
  <2> QED
    BY <2>3, <2>4
<1>8. ThreadsOK' /\ thread'[t] = Idle /\ \A s \in Thread \ {t} : thread'[s] = thread[s]
  BY <1>3, SetsThread DEF IInv
<1>9. Shapes'
  BY <1>1, <1>3, <1>4, <1>6, <1>8, StoredInTime DEF IInv, Shapes, FeedbackOK
<1>10. Ids'
  BY <1>1, <1>3, <1>4, <1>6, StoredInTime DEF IInv, Ids
<1>11. Copies'
  <2>1. \A a \in artifacts' : a.kind = "share" => copy'[a.id][Index] # 0
    BY <1>4 DEF IInv, Copies
  <2> QED
    BY <1>1, <1>3, <1>4, <1>6, <2>1, StoredInTime DEF Copies
<1>12. Quota'
  <2>1. Publishing' \subseteq Publishing
    BY <1>8 DEF Publishing
  <2> QED
    BY <1>4, <2>1, QuotaKept DEF IInv
<1>13. Statuses'
  <2>1. AssignmentsFit'
    BY <1>3, <1>4, <1>6, <1>7 DEF IInv, Statuses, AssignmentsFit
  <2>2. \A m \in Submitted : m # n /\ (AllDone(m)' <=> AllDone(m))
    BY <1>3, <1>4, <1>6, <1>7 DEF AllDone
  <2>3. FeedbackFits'
    BY <1>4, <1>6, <2>2 DEF IInv, Statuses, FeedbackFits, Refreshing
  <2>4. ASSUME NEW m \in Id, submission'[m] # "none"
        PROVE  /\ submission'[m] = "completed" => AllDone(m)'
               /\ (Refreshing(m)' = {} /\ m \notin overtaken' /\ ~crashed') =>
                    /\ AllDone(m)' => submission'[m] = "completed"
                    /\ submission'[m] = "pending" <=> {a \in done' : a.id = m} = {}
    <3>1. CASE m = n
      <4>1. \A a \in done : a \in assigned /\ a.id # n
        BY <1>6 DEF IInv, Statuses, AssignmentsFit
      <4>2. ~ AllDone(n)'
        BY <1>3, <1>4, <1>7, <4>1 DEF AllDone
      <4>3. submission'[n] = "pending" /\ {a \in done' : a.id = n} = {}
        BY <1>3, <1>4, <1>5, <4>1 DEF IInv, Shapes
      <4> QED
        BY <3>1, <4>2, <4>3
    <3>2. CASE m # n
      <4>1. submission'[m] = submission[m] /\ m \in Submitted
        BY <1>3, <2>4, <3>2 DEF IInv, Shapes, Submitted
      <4> QED
        BY <1>4, <2>2, <4>1 DEF IInv, Statuses, StatusFollowsAssignments, Refreshing, Submitted
    <3> QED
      BY <3>1, <3>2
  <2> QED
    BY <2>1, <2>3, <2>4 DEF Statuses, StatusFollowsAssignments
<1> QED
  BY <1>9, <1>10, <1>11, <1>12, <1>13 DEF IInv

(* Feedback completes the assignment a and opens a refresh of its          *)
(* submission: the threads that refresh it already may have read too early,*)
(* and it counts as overtaken.                                             *)
LEMMA GiveFeedbackKeeps ==
  ASSUME IInv, NEW u \in User, NEW a \in AssignmentsFor(u), GiveFeedback(u, a)
  PROVE  IInv'
<1>1. PICK fb : fb = [at |-> "read", id |-> a.id, complete |-> FALSE]
  OBVIOUS
<1>2. a \in assigned /\ a.id \in Submitted /\ a.id \in Id
  BY DEF AssignmentsFor, IInv, Statuses, AssignmentsFit, Submitted
<1>3. fb.at = "read" /\ fb.id = a.id /\ fb # Idle /\ FeedbackFields(fb)
  BY <1>1, <1>2 DEF Idle, FeedbackFields
<1>4. /\ feedback[u] = Idle /\ done' = done \cup {a}
      /\ feedback' = [feedback EXCEPT ![u] = fb]
      /\ overtaken' = IF Refreshing(a.id) # {} THEN overtaken \cup {a.id} ELSE overtaken
  BY <1>1 DEF GiveFeedback
<1>5. UNCHANGED <<project, thread, next, copy, artifacts, submission, assigned, crashed, began,
                  ended>>
  BY DEF GiveFeedback
<1>6. FeedbackOK' /\ feedback'[u] = fb /\ \A v \in User \ {u} : feedback'[v] = feedback[v]
  BY <1>3, <1>4 DEF IInv, Shapes, FeedbackOK
<1>7. Submitted' = Submitted
  BY <1>5 DEF Submitted
<1>8. Shapes' /\ Ids' /\ Copies' /\ Quota'
  BY <1>5, <1>6, <1>7, CopiesKept DEF IInv, Shapes
<1>9. \A m \in Id : AllDone(m) => AllDone(m)'
  BY <1>4, <1>5 DEF AllDone
<1>10. \A m \in Id \ {a.id} : AllDone(m)' => AllDone(m)
  BY <1>4, <1>5 DEF AllDone
<1>11. \A m \in Id \ {a.id} : Refreshing(m)' = Refreshing(m)
  BY <1>3, <1>4, <1>6 DEF Refreshing
<1>12. u \in Refreshing(a.id)'
  BY <1>3, <1>6 DEF Refreshing
<1>13. AssignmentsFit'
  BY <1>2, <1>4, <1>5, <1>7 DEF IInv, Statuses, AssignmentsFit
<1>14. FeedbackFits'
  <2>1. ASSUME NEW v \in User, feedback'[v] # Idle, NEW m, m = feedback'[v].id
        PROVE  /\ m \in Submitted' /\ \E b \in done' : b.id = m
               /\ feedback'[v].at = "write" /\ feedback'[v].complete => AllDone(m)'
               /\ feedback'[v].at = "write" /\ m \notin overtaken' =>
                    (AllDone(m)' => feedback'[v].complete)
               /\ m \notin overtaken' => \A w \in User : w \in Refreshing(m)' => w = v
    <3>1. CASE v = u
      <4>1. m = a.id /\ feedback'[v].at = "read"
        BY <1>3, <1>6, <2>1, <3>1
      <4>2. m \notin overtaken' => Refreshing(m) = {}
        BY <1>4, <4>1
      <4>3. \A w \in User \ {u} : w \in Refreshing(m)' => w \in Refreshing(m)
        BY <1>6 DEF Refreshing
      <4> QED
        BY <1>2, <1>4, <1>7, <3>1, <4>1, <4>2, <4>3
    <3>2. CASE v # u
      <4>1. /\ feedback'[v] = feedback[v] /\ feedback[v] # Idle /\ m = feedback[v].id
            /\ v \in Refreshing(m)
        BY <1>6, <2>1, <3>2 DEF Refreshing
      <4>2. /\ m \in Submitted /\ m \in Id /\ \E b \in done : b.id = m
            /\ feedback[v].at = "write" /\ feedback[v].complete => AllDone(m)
            /\ feedback[v].at = "write" /\ m \notin overtaken => (AllDone(m) => feedback[v].complete)
            /\ m \notin overtaken => \A w \in User : w \in Refreshing(m) => w = v
        BY <4>1 DEF IInv, Statuses, FeedbackFits, Submitted
      <4>3. m \notin overtaken' => m # a.id /\ m \notin overtaken
        BY <1>4, <4>1
      <4> QED
        BY <1>4, <1>7, <1>9, <1>10, <1>11, <4>1, <4>2, <4>3
    <3> QED
      BY <3>1, <3>2
  <2> QED
    BY <2>1 DEF FeedbackFits
<1>15. StatusFollowsAssignments'
  <2>1. ASSUME NEW m \in Id, m # a.id, m \notin overtaken' PROVE m \notin overtaken
    BY <1>4, <2>1
  <2>2. \A m \in Id \ {a.id} : {b \in done' : b.id = m} = {b \in done : b.id = m}
    BY <1>4
  <2> QED
    BY <1>5, <1>9, <1>10, <1>11, <1>12, <2>1, <2>2 DEF IInv, Statuses, StatusFollowsAssignments
<1> QED
  BY <1>8, <1>13, <1>14, <1>15 DEF IInv, Statuses

(* The refresh reads the assignments: from here on it knows the truth,     *)
(* unless another feedback comes in between.                               *)
LEMMA RefreshReadKeeps ==
  ASSUME IInv, NEW u \in User, RefreshRead(u)
  PROVE  IInv'
<1>1. PICK n : n = feedback[u].id
  OBVIOUS
<1>2. feedback[u] # Idle /\ FeedbackFields(feedback[u]) /\ n \in Id
  BY <1>1 DEF RefreshRead, IInv, Shapes, FeedbackOK, FeedbackFields, Idle
<1>3. feedback' = [feedback EXCEPT ![u].at = "write", ![u].complete = AllDone(n)]
  BY <1>1 DEF RefreshRead
<1>4. UNCHANGED <<project, thread, next, copy, artifacts, submission, assigned, done, crashed,
                  began, ended, overtaken>>
  BY DEF RefreshRead, reviewVars
<1>5. AllDone(n) \in BOOLEAN
  BY DEF AllDone
<1>6. /\ DOMAIN feedback' = User /\ \A v \in User \ {u} : feedback'[v] = feedback[v]
      /\ feedback'[u].at = "write" /\ feedback'[u].complete = AllDone(n) /\ feedback'[u].id = n
      /\ DOMAIN feedback'[u] = {"at", "id", "complete"}
  BY <1>1, <1>2, <1>3 DEF IInv, Shapes, FeedbackOK, FeedbackFields
<1>7. FeedbackFields(feedback[u])' /\ feedback'[u] # Idle
  BY <1>2, <1>5, <1>6 DEF FeedbackFields, Idle
<1>8. FeedbackOK'
  BY <1>6, <1>7 DEF IInv, Shapes, FeedbackOK, FeedbackFields
<1>9. Submitted' = Submitted /\ \A m \in Id : AllDone(m)' <=> AllDone(m)
  BY <1>4 DEF Submitted, AllDone
<1>10. \A m \in Id : Refreshing(m)' = Refreshing(m)
  BY <1>1, <1>2, <1>6, <1>7 DEF Refreshing
<1>11. Shapes' /\ Ids' /\ Copies' /\ Quota'
  BY <1>4, <1>8, <1>9, CopiesKept DEF IInv, Shapes
<1>12. AssignmentsFit'
  BY <1>4, <1>9 DEF IInv, Statuses, AssignmentsFit
<1>13. FeedbackFits'
  <2>1. ASSUME NEW v \in User, feedback'[v] # Idle, NEW m, m = feedback'[v].id
        PROVE  /\ m \in Submitted' /\ \E b \in done' : b.id = m
               /\ feedback'[v].at = "write" /\ feedback'[v].complete => AllDone(m)'
               /\ feedback'[v].at = "write" /\ m \notin overtaken' =>
                    (AllDone(m)' => feedback'[v].complete)
               /\ m \notin overtaken' => \A w \in User : w \in Refreshing(m)' => w = v
    <3>1. feedback[v] # Idle /\ m = feedback[v].id
      BY <1>1, <1>2, <1>6, <2>1
    <3>2. /\ m \in Submitted /\ m \in Id /\ \E b \in done : b.id = m
          /\ feedback[v].at = "write" /\ feedback[v].complete => AllDone(m)
          /\ feedback[v].at = "write" /\ m \notin overtaken => (AllDone(m) => feedback[v].complete)
          /\ m \notin overtaken => \A w \in User : w \in Refreshing(m) => w = v
      BY <3>1 DEF IInv, Statuses, FeedbackFits, Submitted
    <3>3. CASE v = u
      BY <1>1, <1>4, <1>6, <1>9, <1>10, <3>1, <3>2, <3>3
    <3>4. CASE v # u
      BY <1>4, <1>6, <1>9, <1>10, <3>1, <3>2, <3>4
    <3> QED
      BY <3>3, <3>4
  <2> QED
    BY <2>1 DEF FeedbackFits
<1>14. StatusFollowsAssignments'
  BY <1>4, <1>9, <1>10 DEF IInv, Statuses, StatusFollowsAssignments
<1> QED
  BY <1>11, <1>12, <1>13, <1>14 DEF IInv, Statuses

(* ... and writes the status.                                              *)
LEMMA RefreshWriteKeeps ==
  ASSUME IInv, NEW u \in User, RefreshWrite(u)
  PROVE  IInv'
<1>1. PICK n : n = feedback[u].id
  OBVIOUS
<1>2. PICK st : st = IF feedback[u].complete THEN "completed" ELSE "in_review"
  OBVIOUS
<1>3. /\ feedback[u] # Idle /\ feedback[u].at = "write" /\ n \in Submitted /\ n \in Id
      /\ \E a \in done : a.id = n
      /\ feedback[u].complete => AllDone(n)
      /\ n \notin overtaken => (AllDone(n) => feedback[u].complete)
  BY <1>1 DEF RefreshWrite, IInv, Shapes, FeedbackOK, FeedbackFields, Idle, Statuses, FeedbackFits,
     Submitted
<1>4. /\ submission' = [submission EXCEPT ![n] = st] /\ feedback' = [feedback EXCEPT ![u] = Idle]
      /\ UNCHANGED <<project, thread, next, copy, artifacts, assigned, done, crashed, began, ended,
                     overtaken>>
  BY <1>1, <1>2 DEF RefreshWrite
<1>5. /\ submission' \in [Id -> {"none", "pending", "in_review", "completed"}]
      /\ submission'[n] = st /\ \A m \in Id \ {n} : submission'[m] = submission[m]
  BY <1>2, <1>3, <1>4 DEF IInv, Shapes
<1>6. FeedbackOK' /\ feedback'[u] = Idle /\ \A v \in User \ {u} : feedback'[v] = feedback[v]
  BY <1>4 DEF IInv, Shapes, FeedbackOK
<1>7. Submitted' = Submitted /\ \A m \in Id : AllDone(m)' <=> AllDone(m)
  BY <1>2, <1>3, <1>4, <1>5 DEF Submitted, AllDone
<1>8. /\ \A m \in Id : Refreshing(m)' \subseteq Refreshing(m)
      /\ \A m \in Id \ {n} : Refreshing(m)' = Refreshing(m)
  BY <1>1, <1>6 DEF Refreshing
<1>9. Shapes' /\ Ids' /\ Copies' /\ Quota'
  BY <1>4, <1>5, <1>6, <1>7, CopiesKept
<1>10. AssignmentsFit'
  BY <1>4, <1>7 DEF IInv, Statuses, AssignmentsFit
<1>11. FeedbackFits'
  <2>1. ASSUME NEW v \in User, feedback'[v] # Idle, NEW m, m = feedback'[v].id
        PROVE  /\ m \in Submitted' /\ \E b \in done' : b.id = m
               /\ feedback'[v].at = "write" /\ feedback'[v].complete => AllDone(m)'
               /\ feedback'[v].at = "write" /\ m \notin overtaken' =>
                    (AllDone(m)' => feedback'[v].complete)
               /\ m \notin overtaken' => \A w \in User : w \in Refreshing(m)' => w = v
    <3>1. feedback'[v] = feedback[v] /\ feedback[v] # Idle /\ m = feedback[v].id
      BY <1>6, <2>1
    <3>2. /\ m \in Submitted /\ m \in Id /\ \E b \in done : b.id = m
          /\ feedback[v].at = "write" /\ feedback[v].complete => AllDone(m)
          /\ feedback[v].at = "write" /\ m \notin overtaken => (AllDone(m) => feedback[v].complete)
          /\ m \notin overtaken => \A w \in User : w \in Refreshing(m) => w = v
      BY <3>1 DEF IInv, Statuses, FeedbackFits, Submitted
    <3> QED
      BY <1>4, <1>7, <1>8, <3>1, <3>2
  <2> QED
    BY <2>1 DEF FeedbackFits
<1>12. StatusFollowsAssignments'
  <2>1. ASSUME NEW m \in Id, submission'[m] # "none"
        PROVE  /\ submission'[m] = "completed" => AllDone(m)'
               /\ (Refreshing(m)' = {} /\ m \notin overtaken' /\ ~crashed') =>
                    /\ AllDone(m)' => submission'[m] = "completed"
                    /\ submission'[m] = "pending" <=> {a \in done' : a.id = m} = {}
    <3>1. CASE m = n
      <4>1. {a \in done' : a.id = n} # {} /\ st # "pending"
        BY <1>2, <1>3, <1>4
      <4>2. /\ st = "completed" => AllDone(n)
            /\ n \notin overtaken => (AllDone(n) => st = "completed")
        BY <1>2, <1>3
      <4> QED
        BY <1>3, <1>4, <1>5, <1>7, <3>1, <4>1, <4>2
    <3>2. CASE m # n
      BY <1>4, <1>5, <1>7, <1>8, <2>1, <3>2 DEF IInv, Statuses, StatusFollowsAssignments
    <3> QED
      BY <3>1, <3>2
  <2> QED
    BY <2>1 DEF StatusFollowsAssignments
<1> QED
  BY <1>9, <1>10, <1>11, <1>12 DEF IInv, Statuses

-----------------------------------------------------------------------------
(* A write makes a version newer; what was copied before stays in time.    *)
LEMMA WriteFileKeeps ==
  ASSUME IInv, NEW f \in File, WriteFile(f)
  PROVE  IInv'
<1>1. /\ project' = [project EXCEPT ![f] = @ + 1]
      /\ UNCHANGED <<thread, next, copy, artifacts, submission, assigned, done, feedback, crashed,
                     began, ended, overtaken>>
  BY DEF WriteFile, reviewVars
<1>2. project' \in Versions /\ \A g \in File : project[g] \in Nat /\ project[g] <= project'[g]
                                               /\ project'[g] \in Nat
  BY <1>1 DEF IInv, Shapes, Versions
<1>3. Shapes'
  BY <1>1, <1>2 DEF IInv, Shapes, ThreadsOK, FeedbackOK
<1>4. Stored' = Stored
  BY <1>1 DEF Stored
<1>5. Ids'
  BY <1>1, <1>4 DEF IInv, Ids
<1>6. Copies'
  <2>1. ASSUME NEW t \in Thread, thread[t] # Idle PROVE CopyFits(thread[t])'
    <3>1. PICK th : th = thread[t]
      OBVIOUS
    <3>2. /\ th.id \in Id /\ CopyFits(th) /\ copy[th.id] \in Versions /\ began[th.id] \in Versions
      BY <2>1, <3>1, Copying
    <3>3. ASSUME NEW g \in File, CopiedInTime(th.id, g) PROVE CopiedInTime(th.id, g)'
      <4>1. copy[th.id][g] \in Nat /\ began[th.id][g] \in Nat
        BY <3>2 DEF Versions
      <4> QED
        BY <1>1, <1>2, <3>3, <4>1 DEF CopiedInTime
    <3>4. CopyFits(th)'
      BY <1>1, <3>2, <3>3 DEF CopyFits
    <3> QED
      BY <1>1, <3>1, <3>4 DEF CopyFits, CopiedInTime
  <2>2. \A n \in Stored' : StoredFits(n)'
    BY <1>1, <1>4 DEF IInv, Copies, StoredFits
  <2> QED
    BY <1>1, <2>1, <2>2 DEF IInv, Copies
<1>7. Quota'
  BY <1>1, QuotaKept DEF IInv, Publishing
<1>8. Statuses'
  BY <1>1, StatusesKept DEF IInv
<1> QED
  BY <1>3, <1>5, <1>6, <1>7, <1>8 DEF IInv

(* The invariant says nothing of events and of who is active.              *)
LEMMA OthersKeep ==
  ASSUME IInv,
         UNCHANGED <<project, thread, next, copy, artifacts, reviewVars, feedback, crashed, began,
                     ended, overtaken>>
  PROVE  IInv'
<1>1. Submitted' = Submitted /\ FeedbackOK'
  BY DEF Submitted, reviewVars, IInv, Shapes, FeedbackOK
<1>2. Shapes' /\ Ids' /\ Copies' /\ Quota'
  BY <1>1, CopiesKept DEF reviewVars, IInv, Shapes
<1>3. Statuses'
  BY StatusesKept DEF reviewVars, IInv
<1> QED
  BY <1>2, <1>3 DEF IInv

(* A restart ends all requests; nothing stored is touched.                 *)
LEMMA CrashKeeps ==
  ASSUME IInv, Crash
  PROVE  IInv'
<1>1. /\ thread' = [t \in Thread |-> Idle] /\ feedback' = [u \in User |-> Idle] /\ crashed' = TRUE
      /\ UNCHANGED <<project, next, copy, artifacts, submission, assigned, done, began, ended,
                     overtaken>>
  BY DEF Crash, reviewVars
<1>2. Shapes'
  BY <1>1 DEF IInv, Shapes, ThreadsOK, FeedbackOK
<1>3. Stored' = Stored
  BY <1>1 DEF Stored
<1>4. Ids'
  BY <1>1, <1>3 DEF IInv, Ids
<1>5. Copies'
  BY <1>1, <1>3 DEF IInv, Copies, StoredFits
<1>6. Quota'
  <2>1. Publishing' \subseteq Publishing
    BY <1>1 DEF Publishing
  <2> QED
    BY <1>1, <2>1, QuotaKept DEF IInv
<1>7. Statuses'
  BY <1>1 DEF IInv, Statuses, AssignmentsFit, FeedbackFits, StatusFollowsAssignments, Submitted,
     Refreshing, AllDone
<1> QED
  BY <1>2, <1>4, <1>5, <1>6, <1>7 DEF IInv

LEMMA InitInv == Init => IInv
<1> SUFFICES ASSUME Init PROVE IInv
  OBVIOUS
<1>1. project \in Versions /\ Nothing \in Versions
  BY PublishingAssumption DEF Init, Versions, Nothing
<1>2. Stored = {}
  BY DEF Init, Stored
<1>3. Shapes
  BY <1>1 DEF Init, Shapes, ThreadsOK, FeedbackOK
<1>4. Ids
  BY <1>2 DEF Init, Ids
<1>5. Copies
  BY <1>2 DEF Init, Copies
<1>6. Quota
  <2>1. IsFiniteSet(artifacts) /\ Cardinality(artifacts) = 0
    BY FS_EmptySet DEF Init
  <2>2. Cardinality(Publishing) = 0
    BY FS_EmptySet DEF Init, Publishing
  <2>3. Limit["share"] > 0 => Highest > 0
    BY HighestType DEF Highest
  <2> QED
    BY <2>1, <2>2, <2>3, PublishingFinite, HighestType DEF Quota, QuotaOvershoot
<1>7. Statuses
  BY DEF Init, Statuses, AssignmentsFit, FeedbackFits, StatusFollowsAssignments, Submitted
<1> QED
  BY <1>3, <1>4, <1>5, <1>6, <1>7 DEF IInv

LEMMA NextInv == IInv /\ [Next]_vars => IInv'
<1> SUFFICES ASSUME IInv, [Next]_vars PROVE IInv'
  OBVIOUS
<1>1. ASSUME NEW t \in Thread, NEW author \in Author, NEW kind \in Kind, Request(t, author, kind)
      PROVE  IInv'
  BY <1>1, RequestKeeps
<1>2. ASSUME NEW t \in Thread, ListFiles(t) PROVE IInv'
  BY <1>2, ListFilesKeeps
<1>3. ASSUME NEW t \in Thread, NEW f \in File, CopyFile(t, f) PROVE IInv'
  BY <1>3, CopyFileKeeps
<1>4. ASSUME NEW t \in Thread, Copied(t) PROVE IInv'
  BY <1>4, CopiedKeeps
<1>5. ASSUME NEW t \in Thread, Fail(t) PROVE IInv'
  BY <1>5, FailKeeps
<1>6. ASSUME NEW t \in Thread, StoreArtifact(t) PROVE IInv'
  BY <1>6, StoreArtifactKeeps
<1>7. ASSUME NEW t \in Thread, SelectReviewers(t) PROVE IInv'
  BY <1>7, SelectKeeps
<1>8. ASSUME NEW t \in Thread, StoreSubmission(t) PROVE IInv'
  BY <1>8, StoreSubmissionKeeps
<1>9. ASSUME NEW u \in User, NEW a \in AssignmentsFor(u), GiveFeedback(u, a) PROVE IInv'
  BY <1>9, GiveFeedbackKeeps
<1>10. ASSUME NEW u \in User, RefreshRead(u) PROVE IInv'
  BY <1>10, RefreshReadKeeps
<1>11. ASSUME NEW u \in User, RefreshWrite(u) PROVE IInv'
  BY <1>11, RefreshWriteKeeps
<1>12. ASSUME NEW u \in User, Deactivate(u) PROVE IInv'
  BY <1>12, OthersKeep DEF Deactivate
<1>13. ASSUME NEW f \in File, WriteFile(f) PROVE IInv'
  BY <1>13, WriteFileKeeps
<1>14. CASE Crash
  BY <1>14, CrashKeeps
<1>15. CASE UNCHANGED vars
  BY <1>15, OthersKeep DEF vars
<1> QED
  BY <1>1, <1>2, <1>3, <1>4, <1>5, <1>6, <1>7, <1>8, <1>9, <1>10, <1>11, <1>12, <1>13, <1>14,
     <1>15 DEF Next

(* The inductive invariant holds in every reachable state.                 *)
THEOREM Invariance == Spec => []IInv
BY InitInv, NextInv, PTL DEF Spec

-----------------------------------------------------------------------------
(* However many requests overlap, there are never more artifacts than the  *)
(* larger quota and one less than the threads (deployments._enforce_quota, *)
(* checked before the copy, and _store_artifact after it).                 *)
THEOREM QuotaOvershootAlways == Spec => []QuotaOvershoot
<1>1. IInv => QuotaOvershoot
  BY DEF IInv, Quota
<1> QED
  BY <1>1, Invariance, PTL

(* What is published or submitted holds each file that was there when its  *)
(* copy began, in a version the project had between then and the row, and  *)
(* nothing of it changes afterwards (copy_project_snapshot, shared by      *)
(* reviews.submit and deployments).                                        *)
THEOREM CopiesAreOfTheirTimeAlways == Spec => []CopiesAreOfTheirTime
<1>1. ASSUME IInv PROVE CopiesAreOfTheirTime
  <2>1. ASSUME NEW n \in Stored
        PROVE  /\ FilesOf(n) = {f \in File : began[n][f] > 0}
               /\ \A f \in FilesOf(n) : copy[n][f] \in began[n][f] .. ended[n][f]
    <3>1. n \in Id /\ StoredFits(n)
      BY <1>1, <2>1 DEF IInv, Shapes, Stored, Copies
    <3>2. \A f \in File : copy[n][f] \in Nat /\ began[n][f] \in Nat /\ ended[n][f] \in Nat
      BY <1>1, <3>1 DEF IInv, Shapes, Versions
    <3> QED
      BY <3>1, <3>2 DEF StoredFits, FilesOf
  <2>2. ASSUME NEW a \in artifacts, a.kind = "share" PROVE Served(a.id, "share")[Index] > 0
    <3>1. a.id \in Id /\ copy[a.id][Index] # 0
      BY <1>1, <2>2 DEF IInv, Shapes, Copies
    <3>2. copy[a.id][Index] \in Nat
      BY <1>1, <3>1, PublishingAssumption DEF IInv, Shapes, Versions
    <3> QED
      BY <2>2, <3>1, <3>2 DEF Served
  <2> QED
    BY <2>1, <2>2 DEF CopiesAreOfTheirTime
<1> QED
  BY <1>1, Invariance, PTL

(* A submission is "completed" only when all its assignments are, and,     *)
(* outside the windows of _refresh_submission_status and its races, exactly*)
(* then.                                                                   *)
THEOREM StatusFollowsAssignmentsAlways == Spec => []StatusFollowsAssignments
<1>1. IInv => StatusFollowsAssignments
  BY DEF IInv, Statuses
<1> QED
  BY <1>1, Invariance, PTL

(* An id is given out once: no two requests at work share one, none works  *)
(* on what is stored already, and no two artifacts have the same.          *)
THEOREM IdsAlways == Spec => []Ids
<1>1. IInv => Ids
  BY DEF IInv
<1> QED
  BY <1>1, Invariance, PTL
=============================================================================
