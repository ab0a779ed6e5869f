------------------------------- MODULE RunSlots -------------------------------
(***************************************************************************)
(* What the scheduler promises (wiki/Lehrer_Admin, "Scheduler begrenzt     *)
(* gleichzeitige Ausfuehrungen global und pro Nutzer"): the executions     *)
(* under way are a set, one joins it only below both limits and only if no *)
(* request of a more senior role is waiting, and it leaves it once. There  *)
(* is no counter and no queue here.                                        *)
(***************************************************************************)
EXTENDS Integers, FiniteSets

CONSTANTS Request, OwnerOf, RoleOf,
  Rank  (* the seniority of a request's role, 0 the highest *)

VARIABLES
  waiting,  (* requests that ask for a slot                       *)
  running,  (* requests that occupy one                           *)
  limit     (* the limits in force: "global" and one of each role *)

vars == <<waiting, running, limit>>

RunningFor(o) == {q \in running : OwnerOf[q] = o}

Init ==
  /\ waiting = {}
  /\ running = {}

Arrive(r) ==
  /\ r \notin waiting \cup running
  /\ waiting' = waiting \cup {r}
  /\ UNCHANGED <<running, limit>>

Start(r) ==
  /\ r \in waiting
  /\ \A q \in waiting : Rank[r] <= Rank[q]
  /\ Cardinality(running) < limit["global"]
  /\ Cardinality(RunningFor(OwnerOf[r])) < limit[RoleOf[r]]
  /\ waiting' = waiting \ {r}
  /\ running' = running \cup {r}
  /\ UNCHANGED limit

End(r) ==
  /\ r \in running
  /\ running' = running \ {r}
  /\ UNCHANGED <<waiting, limit>>

Reconfigure ==
  /\ limit' # limit
  /\ UNCHANGED <<waiting, running>>

Next ==
  \/ \E r \in Request : Arrive(r) \/ Start(r) \/ End(r)
  \/ Reconfigure

Spec == Init /\ [][Next]_vars
=============================================================================
