------------------------------- MODULE HttpRuns -------------------------------
(***************************************************************************)
(* CodeRunner.run, as the threads of the HTTP server execute it for        *)
(* POST /api/projects/<id>/run: acquire a lease, execute, release it in a  *)
(* `finally`. A request stands for a user's browser tab: it asks again as  *)
(* often as it likes, one execution at a time. Meanwhile administrators    *)
(* change the limits, which every waiting thread reads again at each turn. *)
(***************************************************************************)
EXTENDS RunScheduler

CONSTANT SettingChoices  (* the values an administrator stores, per key *)

ASSUME SettingsAreStored ==
  SettingChoices \in [SettingKey -> SUBSET (Int \cup {Unusable})]

vars == schedulerVars

(* seed.py stores the defaults before the server accepts a request.        *)
Init ==
  /\ SchedulerInit
  /\ settings = [key \in SettingKey |-> DefaultLimit(key)]

(* run() up to acquire(). The calls that end earlier (no permission, an    *)
(* HTML preview, a syntax error) never touch the scheduler.                *)
Submit(r) ==
  /\ r \notin waiting \cup held
  /\ Enqueue(r)

(* The execution ends, with a result or an exception: `finally: release`.  *)
Finish(r) ==
  /\ r \in held
  /\ Release(r)

(* POST /api/server/settings: one put_setting per key, no notification.    *)
ChangeSetting ==
  /\ \E key \in SettingKey : \E v \in SettingChoices[key] :
       settings' = [settings EXCEPT ![key] = v]
  /\ UNCHANGED <<queueVars, counterVars>>

Next ==
  \/ \E r \in Request : Submit(r) \/ Activate(r) \/ Finish(r)
  \/ ChangeSetting

(* Waiting threads poll, and run_timeout_seconds ends every execution.     *)
(* Nobody has to submit anything or change a setting.                      *)
Fairness == \A r \in Request : WF_vars(Activate(r)) /\ WF_vars(Finish(r))

SafeSpec == Init /\ [][Next]_vars
Spec == SafeSpec /\ Fairness

-----------------------------------------------------------------------------
(* Type correctness of the scheduler's state.                              *)
TypeOK == SchedulerTypeOK

(* As long as every lease is released exactly once, the counters that      *)
(* acquire() compares with the limits count the executions under way: the  *)
(* clamping in release() never hides a lease, whatever the interleaving of *)
(* acquire and release and however the limits move.                        *)
CountersExact ==
  /\ activeTotal = Cardinality(held)
  /\ \A o \in Owner : activeByOwner[o] = Cardinality(HeldBy(o))

(* The scheduler implements the promise of RunSlots, the set of held       *)
(* leases being the executions under way.                                  *)
Slots == INSTANCE RunSlots
  WITH running <- held,
       Rank <- [r \in Request |-> Priority(r)],
       limit <- [key \in SettingKey |-> Limit(key)]

SlotsRespected == Slots!Spec

(* A thread that waits in acquire() for ever is outranked again and again: *)
(* neither its position in the queue, nor a full server, nor its owner's   *)
(* own limit, nor a changed setting holds it back for good.                *)
OnlyOutrankedStarve ==
  \A r \in Request :
    <>[](r \in waiting) => []<>(\E q \in waiting : Priority(q) < Priority(r))
=============================================================================
