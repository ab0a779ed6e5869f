---------------------------- MODULE HttpRuns_proofs ----------------------------
(***************************************************************************)
(* Proofs about HttpRuns for any set of requests, owners, roles and stored *)
(* settings: type correctness, exact counters, and the refinement of       *)
(* RunSlots.                                                               *)
(***************************************************************************)
EXTENDS HttpRuns, FiniteSetTheorems, TLAPS

-----------------------------------------------------------------------------
(* The operations of the scheduler (RunScheduler) on its state.            *)

(* The defaults are numbers, so the settings seed.py stores are well typed. *)
LEMMA DefaultsAreIntegers == \A key \in SettingKey : DefaultLimit(key) \in Int
BY DEF SettingKey, Role, DefaultLimit

(* Each operation of the scheduler keeps its state well typed.              *)
LEMMA EnqueueType ==
  ASSUME SchedulerTypeOK, NEW r \in Request, Enqueue(r)
  PROVE  SchedulerTypeOK'
BY DEF SchedulerTypeOK, Enqueue, counterVars

LEMMA ActivateType ==
  ASSUME SchedulerTypeOK, NEW r \in Request, Activate(r)
  PROVE  SchedulerTypeOK'
<1>1. OwnerOf[r] \in Owner
  BY RequestsAreOwned
<1>2. activeByOwner' \in [Owner -> Nat]
  BY <1>1 DEF SchedulerTypeOK, Activate
<1> QED
  BY <1>2 DEF SchedulerTypeOK, Activate

LEMMA ReleaseType ==
  ASSUME SchedulerTypeOK, NEW r \in Request, Release(r)
  PROVE  SchedulerTypeOK'
<1>1. OwnerOf[r] \in Owner
  BY RequestsAreOwned
<1>2. AtLeast(0, activeTotal - 1) \in Nat
  BY DEF SchedulerTypeOK, AtLeast
<1>3. AtLeast(0, activeByOwner[OwnerOf[r]] - 1) \in Nat
  BY <1>1 DEF SchedulerTypeOK, AtLeast
<1>4. activeByOwner' \in [Owner -> Nat]
  BY <1>1, <1>3 DEF SchedulerTypeOK, Release
<1> QED
  BY <1>2, <1>4 DEF SchedulerTypeOK, Release, queueVars

LEMMA HeldByFinite ==
  ASSUME IsFiniteSet(held), NEW o
  PROVE  IsFiniteSet(HeldBy(o)) /\ Cardinality(HeldBy(o)) \in Nat
BY FS_Subset, FS_CardinalityType DEF HeldBy

-----------------------------------------------------------------------------
(* How many leases are out, in total and per owner, and what the counters  *)
(* say, after a grant and after a release.                                 *)
Mine(r, o) == IF OwnerOf[r] = o THEN 1 ELSE 0

(* A new lease is counted once in total and once for its owner.            *)
LEMMA ActivateCounts ==
  ASSUME SchedulerTypeOK, IsFiniteSet(held), waiting \cap held = {},
         NEW r \in Request, Activate(r)
  PROVE  /\ IsFiniteSet(held')
         /\ Cardinality(held') = Cardinality(held) + 1
         /\ activeTotal' = activeTotal + 1
         /\ \A o \in Owner :
              /\ Cardinality(HeldBy(o)') = Cardinality(HeldBy(o)) + Mine(r, o)
              /\ activeByOwner'[o] = activeByOwner[o] + Mine(r, o)
<1>1. r \notin held /\ held' = held \cup {r}
  BY DEF Activate, IsFirst
<1>2. IsFiniteSet(held') /\ Cardinality(held') = Cardinality(held) + 1
  BY <1>1, FS_AddElement
<1>3. ASSUME NEW o \in Owner
      PROVE  /\ Cardinality(HeldBy(o)') = Cardinality(HeldBy(o)) + Mine(r, o)
             /\ activeByOwner'[o] = activeByOwner[o] + Mine(r, o)
  <2>1. activeByOwner[o] \in Nat /\ Cardinality(HeldBy(o)) \in Nat
    BY HeldByFinite DEF SchedulerTypeOK
  <2>2. CASE OwnerOf[r] = o
    <3>1. HeldBy(o)' = HeldBy(o) \cup {r} /\ r \notin HeldBy(o)
      BY <1>1, <2>2 DEF HeldBy
    <3>2. Cardinality(HeldBy(o)') = Cardinality(HeldBy(o)) + 1
      BY <3>1, HeldByFinite, FS_AddElement
    <3>3. activeByOwner'[o] = activeByOwner[o] + 1
      BY <2>2 DEF Activate, SchedulerTypeOK
    <3> QED
      BY <2>2, <3>2, <3>3 DEF Mine
  <2>3. CASE OwnerOf[r] # o
    <3>1. HeldBy(o)' = HeldBy(o)
      BY <1>1, <2>3 DEF HeldBy
    <3>2. activeByOwner'[o] = activeByOwner[o]
      BY <2>3 DEF Activate, SchedulerTypeOK
    <3> QED
      BY <2>1, <2>3, <3>1, <3>2 DEF Mine
  <2> QED
    BY <2>2, <2>3
<1> QED
  BY <1>2, <1>3 DEF Activate

(* What release() does to the counters, whoever's lease it is given.       *)
LEMMA ReleaseClamps ==
  ASSUME SchedulerTypeOK, NEW r \in Request, Release(r)
  PROVE  /\ activeTotal' = AtLeast(0, activeTotal - 1)
         /\ \A o \in Owner :
              activeByOwner'[o] = AtLeast(0, activeByOwner[o] - Mine(r, o))
<1>1. ASSUME NEW o \in Owner
      PROVE  activeByOwner'[o] = AtLeast(0, activeByOwner[o] - Mine(r, o))
  <2>1. CASE OwnerOf[r] = o
    BY <2>1 DEF Release, SchedulerTypeOK, Mine
  <2>2. CASE OwnerOf[r] # o
    <3>1. activeByOwner'[o] = activeByOwner[o] /\ activeByOwner[o] \in Nat
      BY <2>2 DEF Release, SchedulerTypeOK
    <3> QED
      BY <2>2, <3>1 DEF Mine, AtLeast
  <2> QED
    BY <2>1, <2>2
<1> QED
  BY <1>1 DEF Release

(* Of the leases that are out, one less, if the lease was out.             *)
LEMMA ReleaseCounts ==
  ASSUME IsFiniteSet(held), NEW r \in held, Release(r)
  PROVE  /\ IsFiniteSet(held')
         /\ Cardinality(held') = Cardinality(held) - 1
         /\ Cardinality(held') \in Nat
         /\ \A o \in Owner :
              /\ Cardinality(HeldBy(o)') = Cardinality(HeldBy(o)) - Mine(r, o)
              /\ Cardinality(HeldBy(o)') \in Nat
<1>1. held' = held \ {r}
  BY DEF Release
<1>2. /\ IsFiniteSet(held')
      /\ Cardinality(held') = Cardinality(held) - 1
      /\ Cardinality(held') \in Nat
  BY <1>1, FS_RemoveElement, FS_CardinalityType
<1>3. ASSUME NEW o \in Owner
      PROVE  /\ Cardinality(HeldBy(o)') = Cardinality(HeldBy(o)) - Mine(r, o)
             /\ Cardinality(HeldBy(o)') \in Nat
  <2>1. IsFiniteSet(HeldBy(o)) /\ Cardinality(HeldBy(o)) \in Nat
    BY HeldByFinite
  <2>2. CASE OwnerOf[r] = o
    <3>1. HeldBy(o)' = HeldBy(o) \ {r} /\ r \in HeldBy(o)
      BY <1>1, <2>2 DEF HeldBy
    <3>2. /\ Cardinality(HeldBy(o)') = Cardinality(HeldBy(o)) - 1
          /\ Cardinality(HeldBy(o)') \in Nat
      BY <2>1, <3>1, FS_RemoveElement, FS_CardinalityType
    <3> QED
      BY <2>2, <3>2 DEF Mine
  <2>3. CASE OwnerOf[r] # o
    <3>1. HeldBy(o)' = HeldBy(o)
      BY <1>1, <2>3 DEF HeldBy
    <3> QED
      BY <2>1, <2>3, <3>1 DEF Mine
  <2> QED
    BY <2>2, <2>3
<1> QED
  BY <1>2, <1>3

-----------------------------------------------------------------------------
(* Type correctness.                                                       *)

LEMMA InitType == Init => TypeOK
<1>1. Init => settings \in [SettingKey -> Int \cup {Unusable}]
  BY DefaultsAreIntegers DEF Init
<1> QED
  BY <1>1 DEF Init, SchedulerInit, TypeOK, SchedulerTypeOK

LEMMA NextType == TypeOK /\ [Next]_vars => TypeOK'
<1> SUFFICES ASSUME TypeOK, [Next]_vars PROVE TypeOK'
  OBVIOUS
<1>1. CASE UNCHANGED vars
  BY <1>1 DEF TypeOK, SchedulerTypeOK, vars, schedulerVars, queueVars, counterVars
<1>2. ASSUME NEW r \in Request, Submit(r) PROVE TypeOK'
  BY <1>2, EnqueueType DEF Submit, TypeOK
<1>3. ASSUME NEW r \in Request, Activate(r) PROVE TypeOK'
  BY <1>3, ActivateType DEF TypeOK
<1>4. ASSUME NEW r \in Request, Finish(r) PROVE TypeOK'
  BY <1>4, ReleaseType DEF Finish, TypeOK
<1>5. ASSUME ChangeSetting PROVE TypeOK'
  <2>1. PICK key \in SettingKey : \E v \in SettingChoices[key] :
          settings' = [settings EXCEPT ![key] = v]
    BY <1>5 DEF ChangeSetting
  <2>2. PICK v \in SettingChoices[key] : settings' = [settings EXCEPT ![key] = v]
    BY <2>1
  <2>3. v \in Int \cup {Unusable}
    BY SettingsAreStored
  <2> QED
    BY <1>5, <2>2, <2>3
    DEF ChangeSetting, TypeOK, SchedulerTypeOK, queueVars, counterVars
<1> QED
  BY <1>1, <1>2, <1>3, <1>4, <1>5 DEF Next

(* The scheduler's state is well typed in every reachable state.            *)
THEOREM TypeCorrect == SafeSpec => []TypeOK
BY InitType, NextType, PTL DEF SafeSpec

-----------------------------------------------------------------------------
(* The counters. That they are exact is not inductive: acquire() adds one  *)
(* for a lease that must be new, and Cardinality needs a finite set.       *)
IInv ==
  /\ TypeOK
  /\ IsFiniteSet(held)
  /\ waiting \cap held = {}
  /\ CountersExact

LEMMA InitInv == Init => IInv
<1> SUFFICES ASSUME Init PROVE IInv
  OBVIOUS
<1>1. held = {} /\ waiting = {}
  BY DEF Init, SchedulerInit
<1>2. IsFiniteSet(held) /\ Cardinality(held) = 0
  BY <1>1, FS_EmptySet
<1>3. ASSUME NEW o \in Owner PROVE activeByOwner[o] = Cardinality(HeldBy(o))
  <2>1. HeldBy(o) = {}
    BY <1>1 DEF HeldBy
  <2>2. activeByOwner[o] = 0
    BY DEF Init, SchedulerInit
  <2> QED
    BY <2>1, <2>2, FS_EmptySet
<1>4. activeTotal = 0
  BY DEF Init, SchedulerInit
<1> QED
  BY <1>1, <1>2, <1>3, <1>4, InitType DEF IInv, CountersExact

(* A lease that is out has been counted, so the clamping is without effect. *)
LEMMA ActivateExact ==
  ASSUME IInv, NEW r \in Request, Activate(r)
  PROVE  IsFiniteSet(held') /\ waiting' \cap held' = {} /\ CountersExact'
<1>1. waiting' \cap held' = {}
  BY DEF Activate, IInv
<1> QED
  BY <1>1, ActivateCounts DEF IInv, TypeOK, CountersExact

LEMMA ReleaseExact ==
  ASSUME IInv, NEW r \in held, Release(r)
  PROVE  IsFiniteSet(held') /\ waiting' \cap held' = {} /\ CountersExact'
<1>1. waiting' \cap held' = {}
  BY DEF Release, queueVars, IInv
<1>2. r \in Request
  BY DEF IInv, TypeOK, SchedulerTypeOK
<1>3. /\ activeTotal' = AtLeast(0, activeTotal - 1)
      /\ \A o \in Owner :
           activeByOwner'[o] = AtLeast(0, activeByOwner[o] - Mine(r, o))
  BY <1>2, ReleaseClamps DEF IInv, TypeOK
<1>4. /\ activeTotal \in Nat
      /\ \A o \in Owner : activeByOwner[o] \in Nat /\ Mine(r, o) \in Nat
  BY DEF IInv, TypeOK, SchedulerTypeOK, Mine
<1>5. /\ IsFiniteSet(held')
      /\ Cardinality(held') = Cardinality(held) - 1
      /\ Cardinality(held') \in Nat
      /\ \A o \in Owner :
           /\ Cardinality(HeldBy(o)') = Cardinality(HeldBy(o)) - Mine(r, o)
           /\ Cardinality(HeldBy(o)') \in Nat
  BY ReleaseCounts DEF IInv
<1> QED
  BY <1>1, <1>3, <1>4, <1>5 DEF CountersExact, IInv, AtLeast

LEMMA NextInv == IInv /\ [Next]_vars => IInv'
<1> SUFFICES ASSUME IInv, [Next]_vars PROVE IInv'
  OBVIOUS
<1>t. TypeOK'
  BY NextType DEF IInv
<1>s. ASSUME UNCHANGED <<held, activeTotal, activeByOwner>>
      PROVE  IsFiniteSet(held') /\ CountersExact'
  BY <1>s DEF IInv, CountersExact, HeldBy
<1>1. CASE UNCHANGED vars
  BY <1>t, <1>s, <1>1 DEF IInv, vars, schedulerVars, queueVars, counterVars
<1>2. ASSUME NEW r \in Request, Submit(r) PROVE IInv'
  <2>1. waiting' = waiting \cup {r} /\ held' = held /\ r \notin held
    BY <1>2 DEF Submit, Enqueue, counterVars
  <2>2. waiting' \cap held' = {}
    BY <2>1 DEF IInv
  <2> QED
    BY <1>t, <1>s, <1>2, <2>2 DEF IInv, Submit, Enqueue, counterVars
<1>3. ASSUME NEW r \in Request, Activate(r) PROVE IInv'
  BY <1>t, <1>3, ActivateExact DEF IInv
<1>4. ASSUME NEW r \in Request, Finish(r) PROVE IInv'
  BY <1>t, <1>4, ReleaseExact DEF Finish, IInv
<1>5. ASSUME ChangeSetting PROVE IInv'
  BY <1>t, <1>s, <1>5 DEF IInv, ChangeSetting, queueVars, counterVars
<1> QED
  BY <1>1, <1>2, <1>3, <1>4, <1>5 DEF Next

LEMMA Invariance == SafeSpec => []IInv
BY InitInv, NextInv, PTL DEF SafeSpec

(* Released once each, the leases that are out are what the counters count, *)
(* for any number of users, executions and settings.                       *)
THEOREM CountersAreExact == SafeSpec => []CountersExact
<1>1. IInv => CountersExact
  BY DEF IInv
<1> QED
  BY <1>1, Invariance, PTL

-----------------------------------------------------------------------------
(* The refinement of RunSlots.                                             *)

(* The thread that leaves the loop of acquire() is of the highest rank     *)
(* that waits.                                                             *)
LEMMA FirstOutranks ==
  ASSUME TypeOK, NEW r \in Request, IsFirst(r), NEW q \in waiting
  PROVE  Priority(r) <= Priority(q)
<1>1. RoleOf[r] \in Role
  BY RequestsAreOwned
<1>2. Priority(r) \in Int
  BY <1>1 DEF Role, Priority
<1>3. CASE q = r
  BY <1>2, <1>3
<1>4. CASE q # r
  <2>1. Priority(q) \in Int
    BY RequestsAreOwned DEF Role, Priority, TypeOK, SchedulerTypeOK
  <2> QED
    BY <1>2, <1>4, <2>1 DEF IsFirst
<1> QED
  BY <1>3, <1>4

LEMMA StepRefines == IInv /\ [Next]_vars => [Slots!Next]_(Slots!vars)
<1> SUFFICES ASSUME IInv, [Next]_vars PROVE [Slots!Next]_(Slots!vars)
  OBVIOUS
<1> USE DEF Slots!Next, Slots!vars
<1>l. ASSUME UNCHANGED settings
      PROVE  UNCHANGED [key \in SettingKey |-> Limit(key)]
  BY <1>l DEF Limit
<1>1. CASE UNCHANGED vars
  BY <1>l, <1>1 DEF vars, schedulerVars, queueVars, counterVars
<1>2. ASSUME NEW r \in Request, Submit(r) PROVE Slots!Arrive(r)
  BY <1>l, <1>2 DEF Slots!Arrive, Submit, Enqueue, counterVars
<1>3. ASSUME NEW r \in Request, Activate(r) PROVE Slots!Start(r)
  <2>1. r \in waiting /\ waiting' = waiting \ {r} /\ held' = held \cup {r}
    BY <1>3 DEF Activate, IsFirst
  <2>2. \A q \in waiting : Priority(r) <= Priority(q)
    BY <1>3, FirstOutranks DEF Activate, IInv
  <2>3. waiting \subseteq Request /\ OwnerOf[r] \in Owner /\ RoleOf[r] \in SettingKey
    BY RequestsAreOwned DEF IInv, TypeOK, SchedulerTypeOK, SettingKey
  <2>4. Cardinality(held) < Limit("global")
    BY <1>3 DEF Activate, CanActivate, IInv, CountersExact
  <2>5. Cardinality(HeldBy(OwnerOf[r])) < Limit(RoleOf[r])
    BY <1>3, <2>3 DEF Activate, CanActivate, IInv, CountersExact
  <2>6. "global" \in SettingKey
    BY DEF SettingKey
  <2>7. UNCHANGED [key \in SettingKey |-> Limit(key)]
    BY <1>3, <1>l DEF Activate
  <2> QED
    BY <2>1, <2>2, <2>3, <2>4, <2>5, <2>6, <2>7
    DEF Slots!Start, Slots!RunningFor, HeldBy, Slots!Cardinality, Cardinality
<1>4. ASSUME NEW r \in Request, Finish(r) PROVE Slots!End(r)
  BY <1>l, <1>4 DEF Slots!End, Finish, Release, queueVars
<1>5. ASSUME ChangeSetting PROVE [Slots!Reconfigure]_(Slots!vars)
  BY <1>5 DEF ChangeSetting, Slots!Reconfigure, queueVars, counterVars
<1> QED
  BY <1>1, <1>2, <1>3, <1>4, <1>5 DEF Next

(* The scheduler keeps the promise of RunSlots: below both limits, by      *)
(* rank, each slot returned once.                                          *)
THEOREM SlotsAreRespected == SafeSpec => SlotsRespected
<1>1. Init => Slots!Init
  BY DEF Init, SchedulerInit, Slots!Init
<1> QED
  BY <1>1, StepRefines, Invariance, PTL DEF SafeSpec, SlotsRespected, Slots!Spec
=============================================================================
