----------------------------- MODULE RunScheduler -----------------------------
(***************************************************************************)
(* The RunScheduler object of code_runner.py: one queue of lease requests  *)
(* and two counters, shared by every thread that wants to execute code.    *)
(* Each operator below is what one thread does to the object while it      *)
(* holds `_condition`; the modules that EXTEND this one say who calls      *)
(* them and when.                                                          *)
(*                                                                         *)
(* A request is one call of acquire() together with the lease it returns.  *)
(* The code sorts `_queue` by (priority, sequence) each time it looks at   *)
(* it, so only the relative order of the sequence numbers matters:         *)
(* ahead[r] holds the queued requests with a smaller number than r.        *)
(***************************************************************************)
EXTENDS Integers, FiniteSets

CONSTANTS
  Request,   (* the calls of acquire(), each with the lease it returns *)
  Owner,     (* user names                                             *)
  OwnerOf,   (* the user a request is made for                         *)
  RoleOf,    (* the role that user's session has at the call           *)
  Unusable   (* a stored setting that int() rejects                    *)

Role == {"admin", "teacher", "student"}

ASSUME RequestsAreOwned ==
  /\ OwnerOf \in [Request -> Owner]
  /\ RoleOf \in [Request -> Role]
  /\ Unusable \notin Int

VARIABLES
  waiting,        (* the requests in `_queue`                              *)
  ahead,          (* per queued request, those that entered before it      *)
  activeTotal,    (* `_active_total`                                       *)
  activeByOwner,  (* `_active_by_owner`; an absent key counts as 0         *)
  settings,       (* the four scheduler_max_concurrent_* rows of `settings` *)
  held            (* history: leases granted and not yet released          *)

queueVars == <<waiting, ahead>>
counterVars == <<activeTotal, activeByOwner, held>>
schedulerVars == <<queueVars, counterVars, settings>>

-----------------------------------------------------------------------------
(* Limits and priorities.                                                  *)

SettingKey == {"global"} \cup Role

DefaultLimit(key) ==
  CASE key = "global" -> 4
    [] key = "student" -> 1
    [] key = "teacher" -> 2
    [] key = "admin" -> 3

AtLeast(minimum, n) == IF n < minimum THEN minimum ELSE n

(* _setting_int: a value that does not convert falls back to the default,  *)
(* any other one is raised to at least 1.                                  *)
Limit(key) ==
  IF settings[key] = Unusable THEN DefaultLimit(key) ELSE AtLeast(1, settings[key])

Priority(r) ==
  CASE RoleOf[r] = "admin" -> 0
    [] RoleOf[r] = "teacher" -> 1
    [] RoleOf[r] = "student" -> 2

-----------------------------------------------------------------------------
(* acquire() and release().                                                *)

SchedulerInit ==
  /\ waiting = {}
  /\ ahead = [r \in Request |-> {}]
  /\ activeTotal = 0
  /\ activeByOwner = [o \in Owner |-> 0]
  /\ held = {}

(* The first part of acquire(): take the next sequence number and append.  *)
Enqueue(r) ==
  /\ waiting' = waiting \cup {r}
  /\ ahead' = [ahead EXCEPT ![r] = waiting]
  /\ UNCHANGED <<counterVars, settings>>

(* Mutant: the queue is sorted by priority alone.                          *)
IsFirstByRoleOnly(r) ==
  r \in waiting /\ \A q \in waiting : Priority(r) <= Priority(q)

(* ordered[0] of the sorted queue is r.                                    *)
IsFirst(r) ==
  /\ r \in waiting
  /\ \A q \in waiting \ {r} :
       \/ Priority(r) < Priority(q)
       \/ Priority(r) = Priority(q) /\ q \notin ahead[r]

(* Mutant: the limits are exceeded by one.                                 *)
CanActivateAtLimit(r) ==
  /\ activeTotal <= Limit("global")
  /\ activeByOwner[OwnerOf[r]] <= Limit(RoleOf[r])

CanActivate(r) ==
  /\ activeTotal < Limit("global")
  /\ activeByOwner[OwnerOf[r]] < Limit(RoleOf[r])

(* Mutant: the owner's counter is forgotten.                               *)
ActivateWithoutOwner(r) ==
  /\ IsFirst(r)
  /\ CanActivate(r)
  /\ waiting' = waiting \ {r}
  /\ ahead' = [q \in Request |-> IF q = r THEN {} ELSE ahead[q] \ {r}]
  /\ activeTotal' = activeTotal + 1
  /\ held' = held \cup {r}
  /\ UNCHANGED <<activeByOwner, settings>>

(* One turn of the loop in acquire() that succeeds. A turn that does not   *)
(* waits on the condition for at most 0.1 s and looks again, so a thread   *)
(* whose turn it is needs no notification to notice.                       *)
Activate(r) ==
  /\ IsFirst(r)
  /\ CanActivate(r)
  /\ waiting' = waiting \ {r}
  /\ ahead' = [q \in Request |-> IF q = r THEN {} ELSE ahead[q] \ {r}]
  /\ activeTotal' = activeTotal + 1
  /\ activeByOwner' = [activeByOwner EXCEPT ![OwnerOf[r]] = @ + 1]
  /\ held' = held \cup {r}
  /\ UNCHANGED settings

(* Mutants: no clamping; the owner's counter forgotten; the owner's key    *)
(* removed from a dictionary without defaults.                             *)
ReleaseUnclamped(r) ==
  /\ activeTotal' = activeTotal - 1
  /\ activeByOwner' = [activeByOwner EXCEPT ![OwnerOf[r]] = @ - 1]
  /\ held' = held \ {r}
  /\ UNCHANGED <<queueVars, settings>>
ReleaseTotalOnly(r) ==
  /\ activeTotal' = AtLeast(0, activeTotal - 1)
  /\ held' = held \ {r}
  /\ UNCHANGED <<activeByOwner, queueVars, settings>>
ReleasePoppingOwner(r) ==
  /\ activeTotal' = AtLeast(0, activeTotal - 1)
  /\ activeByOwner' = [o \in Owner \ {OwnerOf[r]} |-> activeByOwner[o]]
  /\ held' = held \ {r}
  /\ UNCHANGED <<queueVars, settings>>

(* release() clamps both counters at 0 and does not look at the lease's    *)
(* id: called twice for one lease it counts down twice.                    *)
Release(r) ==
  /\ activeTotal' = AtLeast(0, activeTotal - 1)
  /\ activeByOwner' = [activeByOwner EXCEPT ![OwnerOf[r]] = AtLeast(0, @ - 1)]
  /\ held' = held \ {r}
  /\ UNCHANGED <<queueVars, settings>>

-----------------------------------------------------------------------------
SchedulerTypeOK ==
  /\ waiting \subseteq Request
  /\ ahead \in [Request -> SUBSET Request]
  /\ activeTotal \in Nat
  /\ activeByOwner \in [Owner -> Nat]
  /\ settings \in [SettingKey -> Int \cup {Unusable}]
  /\ held \subseteq Request

HeldBy(o) == {r \in held : OwnerOf[r] = o}
=============================================================================
