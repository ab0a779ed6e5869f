---------------------------- MODULE Accounts_proofs ----------------------------
(***************************************************************************)
(* Proofs about Accounts, for any users, groups, permissions and bounds:   *)
(* somebody can administer the server, an account belongs to one creation, *)
(* who is muted stays silent, and what is listed can be opened.            *)
(*                                                                         *)
(* The argument for the first: while no two managers' requests have        *)
(* overlapped, at most one request at work has the right admin.manage, so  *)
(* what it has checked still holds when it writes; and its user goes on    *)
(* having that right unless the request gives it up. For the second the    *)
(* same is said of one name: while two creations of it have not            *)
(* overlapped, a request that is to create it is the only one, and the     *)
(* name is still free.                                                     *)
(***************************************************************************)
EXTENDS Accounts, TLAPS

\* A request of a manager is at work.
Working(t) == thread[t] # Idle /\ "admin.manage" \in thread[t].s.perms

\* The shapes of requests, accounts and mutes.
RequestFits(th) ==
  th # Idle =>
    /\ th.at \in {"ready", "create", "update", "insert", "post"}
    /\ th.s.user \in User
    /\ th.at \in {"create", "update"} => "admin.manage" \in th.s.perms /\ th.name \in User

AccountFits(a) == a.role # None => DOMAIN a = {"role", "status", "perms", "mixed"}

Shapes ==
  /\ DOMAIN thread = Thread /\ DOMAIN account = User
  /\ \A t \in Thread : RequestFits(thread[t])

\* What a request that is about to write an account has checked of it.
Checked(th, a) ==
  /\ th.at = "create" => a[th.name].role = None
  /\ th.at = "update" => /\ a[th.name].role # None
                         /\ th.name = th.s.user => /\ th.role = a[th.name].role
                                                   /\ th.status = "active"

Order ==
  ~overlapped =>
    /\ \A r, t \in Thread : Working(r) /\ Working(t) => r = t
    /\ \A t \in Thread : Checked(thread[t], account)
    /\ \A u \in User : AccountFits(account[u])

\* The users of managers' requests at work are managers, and there is one.
Kept ==
  (~overlapped /\ ~gaveUp) =>
    /\ \E u \in User : Manages(u)
    /\ \A t \in Thread, u \in User : (Working(t) /\ thread[t].s.user = u) => Manages(u)

\* Messages that are under way or stored, and what their requests knew of mutes.
Silenced(s, room, knew, time) ==
  \A mute \in knew :
    (mute.target = s.user /\ mute.room \in {room, AllRooms} /\ mute.until > time) =>
      "teacher.chat.moderate" \in s.perms

MutesFit ==
  /\ now \in Nat
  /\ \A m \in mutes : m.until \in Nat
  /\ \A t \in Thread : thread[t].at = "post" =>
        /\ \A m \in thread[t].knew : m.until \in Nat
        /\ Silenced(thread[t].s, thread[t].room, thread[t].knew, now)
  /\ \A m \in messages : Silenced(m.by, m.room, m.knew, m.stored)

IInv == Shapes /\ Order /\ Kept /\ MutesFit

\* A request that is to update an account has one that exists, one that is to
\* create a name without rivals is the only one to and finds it free.
Makers ==
  /\ DOMAIN thread = Thread /\ DOMAIN account = User
  /\ \A t \in Thread : thread[t].at \in {"create", "update"} =>
       /\ thread[t].name \in User /\ thread[t].role \in Role
       /\ thread[t].at = "update" => account[thread[t].name].role # None
  /\ \A t \in Thread : (thread[t].at = "create" /\ thread[t].name \notin rivals) =>
       /\ account[thread[t].name].role = None
       /\ \A r \in Thread : (r # t /\ thread[r].at = "create") => thread[r].name # thread[t].name
  /\ \A u \in User : account[u].role # None => DOMAIN account[u] = {"role", "status", "perms", "mixed"}
  /\ \A u \in User \ rivals : account[u].role # None => ~account[u].mixed

-----------------------------------------------------------------------------
(* Requests and the right to manage.                                       *)

LEMMA IdleIsIdle == Idle.at = "idle" /\ RequestFits(Idle) /\ \A a : Checked(Idle, a)
  BY DEF Idle, RequestFits, Checked

LEMMA Facts ==
    ASSUME IInv
    PROVE  /\ DOMAIN thread = Thread /\ DOMAIN account = User
           /\ \A t \in Thread : RequestFits(thread[t])
           /\ ~overlapped => \A u \in User : AccountFits(account[u])
  BY DEF IInv, Shapes, Order

LEMMA Finished ==
    ASSUME IInv, NEW t \in Thread, Finish(t)
    PROVE  /\ DOMAIN thread' = Thread /\ thread'[t] = Idle
           /\ \A r \in Thread : r # t => thread'[r] = thread[r]
  BY Facts DEF Finish

\* Who manages depends on accounts, groups and memberships alone.
LEMMA SameManagers ==
    ASSUME UNCHANGED <<groupPerms, members>>, NEW u \in User,
           account'[u].role = account[u].role,
           account'[u].status = account[u].status,
           account'[u].perms = account[u].perms
    PROVE  Manages(u)' = Manages(u)
  BY DEF Manages, Active, Exists, PermsOf, GroupsOf, GroupExists

\* A step that leaves accounts, groups and histories alone, and lets a request
\* begin nothing that a manager may do.
LEMMA QuietStep ==
    ASSUME IInv, UNCHANGED <<account, groupPerms, members, overlapped, gaveUp>>,
           DOMAIN thread' = Thread,
           \A t \in Thread :
              \/ thread'[t] = thread[t]
              \/ thread'[t] = Idle
              \/ /\ RequestFits(thread'[t]) /\ Checked(thread'[t], account)
                 /\ thread[t] # Idle /\ thread'[t].s = thread[t].s
    PROVE  Shapes' /\ Order' /\ Kept'
  <1>1. \A t \in Thread : RequestFits(thread'[t])
    BY Facts, IdleIsIdle
  <1>2. Shapes'
    BY <1>1, Facts DEF Shapes
  <1>3. \A t \in Thread : Working(t)' => Working(t) /\ thread'[t].s = thread[t].s
    BY DEF Working
  <1>4. Order'
    <2> SUFFICES ASSUME ~overlapped' PROVE Order'
      BY DEF Order
    <2>1. /\ \A r, t \in Thread : Working(r) /\ Working(t) => r = t
          /\ \A t \in Thread : Checked(thread[t], account)
      BY DEF IInv, Order
    <2>2. \A r, t \in Thread : Working(r)' /\ Working(t)' => r = t
      BY <1>3, <2>1
    <2>3. \A t \in Thread : Checked(thread'[t], account')
      BY <2>1, IdleIsIdle
    <2> QED BY <2>2, <2>3, Facts DEF Order
  <1>5. Kept'
    <2> SUFFICES ASSUME ~overlapped', ~gaveUp' PROVE Kept'
      BY DEF Kept
    <2>1. \A u \in User : Manages(u)' = Manages(u)
      BY SameManagers
    <2>2. /\ \E u \in User : Manages(u)
          /\ \A t \in Thread, u \in User : (Working(t) /\ thread[t].s.user = u) => Manages(u)
      BY DEF IInv, Kept
    <2> QED BY <1>3, <2>1, <2>2 DEF Kept
  <1> QED BY <1>2, <1>4, <1>5

\* A manager's request writes and ends; its user goes on managing.
LEMMA ManagerWrites ==
    ASSUME IInv, NEW t \in Thread, Working(t), Finish(t), UNCHANGED overlapped,
           gaveUp => gaveUp',
           DOMAIN account' = User, ~overlapped => \A u \in User : AccountFits(account'[u]),
           \A u \in User :
              (thread[t].s.user = u /\ Manages(u) /\ ~overlapped /\ ~gaveUp') => Manages(u)'
    PROVE  Shapes' /\ Order' /\ Kept'
  <1>1. /\ DOMAIN thread' = Thread /\ thread'[t] = Idle
        /\ \A r \in Thread : r # t => thread'[r] = thread[r]
    BY Finished
  <1>2. Shapes'
    BY <1>1, Facts, IdleIsIdle DEF Shapes
  <1>3. ASSUME ~overlapped
        PROVE  \A r \in Thread : ~Working(r)' /\ Checked(thread'[r], account')
    <2>1. \A r \in Thread : r # t => ~Working(r)
      BY <1>3 DEF IInv, Order
    <2>2. \A r \in Thread : ~Working(r)'
      BY <1>1, <2>1 DEF Working
    <2>3. \A r \in Thread : thread'[r].at \notin {"create", "update"}
      BY <1>1, <2>2, Facts, IdleIsIdle DEF Working, RequestFits
    <2> QED BY <2>2, <2>3 DEF Checked
  <1>4. Order'
    BY <1>3 DEF Order
  <1>5. Kept'
    <2> SUFFICES ASSUME ~overlapped', ~gaveUp' PROVE Kept'
      BY DEF Kept
    <2>1. PICK u \in User : thread[t].s.user = u
      BY Facts DEF Working, RequestFits
    <2>2. Manages(u)
      BY <2>1 DEF IInv, Kept
    <2> QED BY <1>3, <2>1, <2>2 DEF Kept
  <1> QED BY <1>2, <1>4, <1>5

-----------------------------------------------------------------------------
(* Each action keeps shapes, order and managers: first the quiet ones ...   *)

LEMMA ReplyKeeps ==
    ASSUME IInv, NEW t \in Thread,
           \/ Logout(t) \/ Reply(t) \/ InsertProject(t) \/ StoreMessage(t)
           \/ \E u \in User, room \in ChatRoom \cup {AllRooms}, d \in Duration : SetMute(t, u, room, d)
    PROVE  Shapes' /\ Order' /\ Kept'
  <1>1. Finish(t) /\ UNCHANGED <<accountVars, overlapped, gaveUp>>
    BY DEF Logout, Reply, InsertProject, StoreMessage, SetMute
  <1> QED BY <1>1, Finished, QuietStep DEF accountVars

LEMMA WaitKeeps ==
    ASSUME IInv, UNCHANGED <<accountVars, thread, overlapped, gaveUp>>
    PROVE  Shapes' /\ Order' /\ Kept'
  BY Facts, QuietStep DEF accountVars

\* A check passes: the request goes on with the session it has.
LEMMA CheckKeeps ==
    ASSUME IInv, NEW t \in Thread, thread[t] # Idle,
           UNCHANGED <<account, groupPerms, members, overlapped, gaveUp>>,
           NEW th, thread' = [thread EXCEPT ![t] = th], th.s = thread[t].s,
           RequestFits(th), Checked(th, account)
    PROVE  Shapes' /\ Order' /\ Kept'
  BY Facts, QuietStep

LEMMA CreateCheckKeeps ==
    ASSUME IInv, NEW t \in Thread, NEW u \in User, NEW role \in Role, NEW o, CreateUserCheck(t, u, role, o)
    PROVE  Shapes' /\ Order' /\ Kept'
  <1> DEFINE th == [at |-> "create", s |-> thread[t].s, name |-> u, role |-> role, perms |-> o]
  <1>1. /\ thread' = [thread EXCEPT ![t] = th] /\ UNCHANGED <<account, groupPerms, members, overlapped, gaveUp>>
        /\ thread[t].at = "ready" /\ "admin.manage" \in thread[t].s.perms
        /\ account[u].role = None
    BY DEF CreateUserCheck, Ready, Exists
  <1>2. RequestFits(thread[t]) /\ thread[t] # Idle
    BY <1>1, Facts, IdleIsIdle
  <1>3. RequestFits(th) /\ Checked(th, account) /\ th.s = thread[t].s
    BY <1>1, <1>2 DEF RequestFits, Checked
  <1> HIDE DEF th
  <1> QED BY <1>1, <1>2, <1>3, CheckKeeps

LEMMA UpdateCheckKeeps ==
    ASSUME IInv, NEW t \in Thread, NEW u \in User, NEW role \in Role,
           NEW status \in {"active", "inactive"}, UpdateUserCheck(t, u, role, status)
    PROVE  Shapes' /\ Order' /\ Kept'
  <1> DEFINE th == [at |-> "update", s |-> thread[t].s, name |-> u, role |-> role,
                    status |-> status]
  <1>1. /\ thread' = [thread EXCEPT ![t] = th] /\ UNCHANGED <<account, groupPerms, members, overlapped, gaveUp>>
        /\ thread[t].at = "ready" /\ "admin.manage" \in thread[t].s.perms
        /\ account[u].role # None
        /\ u = thread[t].s.user => role = account[u].role /\ status = "active"
    BY DEF UpdateUserCheck, Ready, Exists, MayUpdate, accountVars
  <1>2. RequestFits(thread[t]) /\ thread[t] # Idle
    BY <1>1, Facts, IdleIsIdle
  <1>3. RequestFits(th) /\ Checked(th, account) /\ th.s = thread[t].s
    BY <1>1, <1>2 DEF RequestFits, Checked
  <1> HIDE DEF th
  <1> QED BY <1>1, <1>2, <1>3, CheckKeeps

LEMMA FindProjectKeeps ==
    ASSUME IInv, NEW t \in Thread, NEW p \in Project, FindProject(t, p)
    PROVE  Shapes' /\ Order' /\ Kept'
  <1> DEFINE th == [at |-> "insert", s |-> thread[t].s, project |-> p]
  <1>1. /\ thread' = [thread EXCEPT ![t] = th] /\ UNCHANGED <<account, groupPerms, members, overlapped, gaveUp>>
        /\ thread[t].at = "ready"
    BY DEF FindProject, Ready, accountVars
  <1>2. RequestFits(thread[t]) /\ thread[t] # Idle
    BY <1>1, Facts, IdleIsIdle
  <1>3. RequestFits(th) /\ Checked(th, account) /\ th.s = thread[t].s
    BY <1>1, <1>2 DEF RequestFits, Checked
  <1> HIDE DEF th
  <1> QED BY <1>1, <1>2, <1>3, CheckKeeps

LEMMA CheckMuteKeeps ==
    ASSUME IInv, NEW t \in Thread, NEW room \in ChatRoom, CheckMute(t, room)
    PROVE  Shapes' /\ Order' /\ Kept'
  <1> DEFINE th == [at |-> "post", s |-> thread[t].s, room |-> room, knew |-> mutes]
  <1>1. /\ thread' = [thread EXCEPT ![t] = th] /\ UNCHANGED <<account, groupPerms, members, overlapped, gaveUp>>
        /\ thread[t].at = "ready"
    BY DEF CheckMute, Ready, accountVars
  <1>2. RequestFits(thread[t]) /\ thread[t] # Idle
    BY <1>1, Facts, IdleIsIdle
  <1>3. RequestFits(th) /\ Checked(th, account) /\ th.s = thread[t].s
    BY <1>1, <1>2 DEF RequestFits, Checked
  <1> HIDE DEF th
  <1> QED BY <1>1, <1>2, <1>3, CheckKeeps

\* ... a request that begins ...
LEMMA BeginKeeps ==
    ASSUME IInv, NEW t \in Thread, NEW u \in User, Begin(t, u)
    PROVE  Shapes' /\ Order' /\ Kept'
  <1> DEFINE th == [at |-> "ready", s |-> Session(u)]
  <1>1. /\ thread[t] = Idle /\ Active(u) /\ thread' = [thread EXCEPT ![t] = th]
        /\ UNCHANGED <<accountVars, gaveUp>>
        /\ overlapped' = (overlapped \/ \E r \in InFlight :
                            /\ "admin.manage" \in thread[r].s.perms
                            /\ "admin.manage" \in PermsOf(u))
    BY DEF Begin
  <1>2. /\ DOMAIN thread' = Thread /\ thread'[t] = th
        /\ \A r \in Thread : r # t => thread'[r] = thread[r]
    BY <1>1, Facts
  <1>3. th.at = "ready" /\ th.s.user = u /\ th.s.perms = PermsOf(u)
    BY DEF Session
  <1> HIDE DEF th
  <1>4. Shapes'
    BY <1>1, <1>2, <1>3, Facts DEF Shapes, RequestFits, accountVars
  <1>5. Working(t)' => Manages(u)
    BY <1>1, <1>2, <1>3 DEF Working, Manages
  <1>6. \A r \in Thread : r # t => Working(r)' = Working(r)
    BY <1>2 DEF Working
  <1>7. ASSUME ~overlapped'
        PROVE  ~overlapped /\ \A r \in Thread : Working(t)' /\ Working(r)' => r = t
    <2>1. ~overlapped /\ \A r \in InFlight :
             "admin.manage" \in thread[r].s.perms => "admin.manage" \notin PermsOf(u)
      BY <1>1, <1>7
    <2>2. \A r \in Thread : r # t /\ Working(r)' => ~Working(t)'
      BY <1>2, <1>3, <1>6, <2>1 DEF Working, InFlight
    <2> QED BY <2>1, <2>2
  <1>8. Order'
    <2> SUFFICES ASSUME ~overlapped' PROVE Order'
      BY DEF Order
    <2>1. /\ \A r, q \in Thread : Working(r) /\ Working(q) => r = q
          /\ \A r \in Thread : Checked(thread[r], account)
      BY <1>7 DEF IInv, Order
    <2>2. \A r, q \in Thread : Working(r)' /\ Working(q)' => r = q
      BY <1>6, <1>7, <2>1
    <2>3. Checked(th, account)
      BY <1>3 DEF Checked
    <2>4. \A r \in Thread : Checked(thread'[r], account')
      BY <1>1, <1>2, <2>1, <2>3 DEF accountVars
    <2> QED BY <1>1, <1>7, <2>2, <2>4, Facts DEF Order, accountVars
  <1>9. Kept'
    <2> SUFFICES ASSUME ~overlapped', ~gaveUp' PROVE Kept'
      BY DEF Kept
    <2>1. \A v \in User : Manages(v)' = Manages(v)
      BY <1>1, SameManagers DEF accountVars
    <2>2. /\ \E v \in User : Manages(v)
          /\ \A r \in Thread, v \in User : (Working(r) /\ thread[r].s.user = v) => Manages(v)
      BY <1>1, <1>7 DEF IInv, Kept
    <2>3. \A r \in Thread, v \in User : (Working(r)' /\ thread'[r].s.user = v) => Manages(v)
      BY <1>2, <1>3, <1>5, <1>6, <2>2
    <2> QED BY <2>1, <2>2, <2>3 DEF Kept
  <1> QED BY <1>4, <1>8, <1>9

\* ... what managers write ...
LEMMA CreateWriteKeeps ==
    ASSUME IInv, NEW t \in Thread, CreateUserWrite(t)
    PROVE  Shapes' /\ Order' /\ Kept'
  <1> DEFINE name == thread[t].name
             new == [NewAccount(thread[t].role, thread[t].perms) EXCEPT !.mixed = Exists(name)]
  <1>1. /\ thread[t].at = "create" /\ Finish(t)
        /\ account' = [account EXCEPT ![name] = new]
        /\ UNCHANGED <<groupPerms, members, overlapped, gaveUp>>
    BY DEF CreateUserWrite, UpsertUser
  <1>2. Working(t) /\ name \in User /\ thread[t].s.user \in User
    BY <1>1, Facts, IdleIsIdle DEF Working, RequestFits
  <1>3. DOMAIN account' = User /\ (~overlapped => \A u \in User : AccountFits(account'[u]))
    <2>1. AccountFits(new)
      BY DEF AccountFits, NewAccount
    <2> HIDE DEF new
    <2> QED BY <1>1, <2>1, Facts
  <1>4. ASSUME NEW u \in User, Manages(u), ~overlapped
        PROVE  Manages(u)'
    <2>1. Checked(thread[t], account)
      BY <1>4 DEF IInv, Order
    <2>2. u # name
      BY <1>1, <1>4, <2>1 DEF Checked, Manages, Active, Exists
    <2>3. account'[u] = account[u]
      BY <1>1, <2>2, Facts
    <2> QED BY <1>1, <1>4, <2>3, SameManagers
  <1> QED BY <1>1, <1>2, <1>3, <1>4, ManagerWrites

LEMMA UpdateWriteKeeps ==
    ASSUME IInv, NEW t \in Thread, UpdateUserWrite(t)
    PROVE  Shapes' /\ Order' /\ Kept'
  <1> DEFINE name == thread[t].name
             old == account[name]
             new == [old EXCEPT !.role = thread[t].role, !.status = thread[t].status]
  <1>1. /\ thread[t].at = "update" /\ Finish(t)
        /\ account' = [account EXCEPT ![name] = new]
        /\ UNCHANGED <<groupPerms, members, overlapped, gaveUp>>
    BY DEF UpdateUserWrite, UpdateAccount
  <1>2. Working(t) /\ name \in User /\ thread[t].s.user \in User
    BY <1>1, Facts, IdleIsIdle DEF Working, RequestFits
  <1>3. ASSUME ~overlapped
        PROVE  /\ DOMAIN old = {"role", "status", "perms", "mixed"}
               /\ DOMAIN new = DOMAIN old /\ new.perms = old.perms
               /\ new.role = thread[t].role /\ new.status = thread[t].status
               /\ name = thread[t].s.user => old.role = thread[t].role
                                             /\ thread[t].status = "active"
    <2>1. Checked(thread[t], account) /\ AccountFits(old)
      BY <1>2, <1>3, Facts DEF IInv, Order
    <2>2. DOMAIN old = {"role", "status", "perms", "mixed"}
      BY <1>1, <2>1 DEF Checked, AccountFits
    <2> QED BY <1>1, <2>1, <2>2 DEF Checked
  <1> HIDE DEF new
  <1>4. /\ DOMAIN account' = User /\ account'[name] = new
        /\ \A u \in User : u # name => account'[u] = account[u]
    BY <1>1, <1>2, Facts
  <1>5. ASSUME ~overlapped
        PROVE  \A u \in User : AccountFits(account'[u])
    BY <1>3, <1>4, <1>5, Facts DEF AccountFits
  <1>6. ASSUME NEW u \in User, u = thread[t].s.user, Manages(u), ~overlapped
        PROVE  Manages(u)'
    <2>1. CASE u = name
      <3>1. account[u].status = "active"
        BY <1>6 DEF Manages, Active
      <3> QED BY <1>1, <1>3, <1>4, <1>6, <2>1, <3>1, SameManagers
    <2>2. CASE u # name
      BY <1>1, <1>4, <1>6, <2>2, SameManagers
    <2> QED BY <2>1, <2>2
  <1> QED BY <1>1, <1>2, <1>4, <1>5, <1>6, ManagerWrites

LEMMA PermissionsKeep ==
    ASSUME IInv, NEW t \in Thread, NEW u \in User, NEW o, SetUserPermissions(t, u, o)
    PROVE  Shapes' /\ Order' /\ Kept'
  <1> DEFINE new == [account[u] EXCEPT !.perms = o]
  <1>1. /\ thread[t].at = "ready" /\ "admin.manage" \in thread[t].s.perms /\ Finish(t)
        /\ account' = [account EXCEPT ![u] = new]
        /\ UNCHANGED overlapped /\ NoteOwnLoss(t)
    BY DEF SetUserPermissions, UpdatePermissions, Ready
  <1>2. Working(t)
    BY <1>1, IdleIsIdle DEF Working
  <1>3. AccountFits(account[u]) => AccountFits(new)
    <2>1. Exists(u)
      BY DEF SetUserPermissions
    <2> QED BY <2>1 DEF AccountFits, Exists
  <1> HIDE DEF new
  <1>4. DOMAIN account' = User /\ (~overlapped => \A v \in User : AccountFits(account'[v]))
    BY <1>1, <1>3, Facts
  <1>5. /\ gaveUp => gaveUp'
        /\ \A v \in User : (thread[t].s.user = v /\ Manages(v) /\ ~gaveUp') => Manages(v)'
    BY <1>1 DEF NoteOwnLoss
  <1> QED BY <1>1, <1>2, <1>4, <1>5, ManagerWrites

LEMMA GroupsKeep ==
    ASSUME IInv, NEW t \in Thread,
           \/ \E g \in Group, o \in Overrides : CreateGroup(t, g, o) \/ SetGroupPermissions(t, g, o)
           \/ \E u \in User, g \in Group : AddMembership(t, u, g) \/ RemoveMembership(t, u, g)
    PROVE  Shapes' /\ Order' /\ Kept'
  <1>1. /\ thread[t].at = "ready" /\ "admin.manage" \in thread[t].s.perms /\ Finish(t)
        /\ UNCHANGED <<account, overlapped>> /\ NoteOwnLoss(t)
    BY DEF CreateGroup, SetGroupPermissions, AddMembership, RemoveMembership, Ready
  <1>2. Working(t)
    BY <1>1, IdleIsIdle DEF Working
  <1>3. /\ gaveUp => gaveUp'
        /\ \A v \in User : (thread[t].s.user = v /\ Manages(v) /\ ~gaveUp') => Manages(v)'
    BY <1>1 DEF NoteOwnLoss
  <1> QED BY <1>1, <1>2, <1>3, Facts, ManagerWrites

\* ... and a restart.
LEMMA RestartKeeps ==
    ASSUME IInv, Restart
    PROVE  Shapes' /\ Order' /\ Kept'
  <1>1. /\ thread' = [t \in Thread |-> Idle]
        /\ UNCHANGED <<account, overlapped>>
        /\ gaveUp' = (gaveUp \/ \E u \in User : Manages(u) /\ ~Manages(u)')
    BY DEF Restart
  <1>2. \A t \in Thread : thread'[t] = Idle /\ ~Working(t)'
    BY <1>1 DEF Working
  <1>3. Shapes'
    BY <1>1, <1>2, Facts, IdleIsIdle DEF Shapes
  <1>4. Order'
    BY <1>1, <1>2, Facts, IdleIsIdle DEF Order
  <1>5. Kept'
    BY <1>1, <1>2 DEF IInv, Kept
  <1> QED BY <1>3, <1>4, <1>5

-----------------------------------------------------------------------------
(* Mutes and messages.                                                     *)

LEMMA MutesStay ==
    ASSUME IInv, UNCHANGED <<chatVars, now>>,
           \A t \in Thread : thread'[t] = thread[t] \/ thread'[t].at # "post"
    PROVE  MutesFit'
  BY DEF IInv, MutesFit, chatVars

LEMMA TimeKeepsMutes ==
    ASSUME IInv, Tick
    PROVE  MutesFit'
  <1>1. now' = now + 1 /\ UNCHANGED <<thread, chatVars>>
    BY DEF Tick
  <1>2. MutesFit
    BY DEF IInv
  <1>3. ASSUME NEW t \in Thread, thread[t].at = "post"
        PROVE  Silenced(thread[t].s, thread[t].room, thread[t].knew, now')
    <2>1. \A m \in thread[t].knew : m.until \in Nat /\ (m.until > now' => m.until > now)
      BY <1>1, <1>2, <1>3 DEF MutesFit
    <2> QED BY <1>2, <1>3, <2>1 DEF MutesFit, Silenced
  <1> QED BY <1>1, <1>2, <1>3 DEF MutesFit, chatVars

LEMMA ChatKeepsMutes ==
    ASSUME IInv, NEW t \in Thread,
           \/ \E u \in User, room \in ChatRoom \cup {AllRooms}, d \in Duration : SetMute(t, u, room, d)
           \/ \E room \in ChatRoom : CheckMute(t, room)
           \/ StoreMessage(t)
    PROVE  MutesFit'
  <1>1. MutesFit /\ DOMAIN thread = Thread
    BY Facts DEF IInv
  <1>2. ASSUME NEW u \in User, NEW room \in ChatRoom \cup {AllRooms}, NEW d \in Duration,
               SetMute(t, u, room, d)
        PROVE  MutesFit'
    <2>1. /\ mutes' = mutes \cup {NewMute(u, room, d)} /\ Finish(t)
          /\ UNCHANGED <<messages, now>>
      BY <1>2 DEF SetMute
    <2>2. NewMute(u, room, d).until \in Nat
      BY <1>1, AccountsAssumption DEF NewMute, MutesFit
    <2>3. \A r \in Thread : thread'[r] = thread[r] \/ thread'[r].at # "post"
      BY <2>1, Finished, IdleIsIdle
    <2> QED BY <1>1, <2>1, <2>2, <2>3 DEF MutesFit
  <1>3. ASSUME NEW room \in ChatRoom, CheckMute(t, room)
        PROVE  MutesFit'
    <2> DEFINE s == thread[t].s
               th == [at |-> "post", s |-> s, room |-> room, knew |-> mutes]
    <2>1. /\ thread' = [thread EXCEPT ![t] = th] /\ UNCHANGED <<chatVars, now>>
          /\ ActiveMutes(s.user, room) # {} => "teacher.chat.moderate" \in s.perms
      BY <1>3 DEF CheckMute
    <2>2. Silenced(s, room, mutes, now)
      BY <2>1 DEF ActiveMutes, Silenced
    <2>3. th.s = s /\ th.room = room /\ th.knew = mutes
      OBVIOUS
    <2> HIDE DEF th
    <2>4. thread'[t] = th /\ \A r \in Thread : r # t => thread'[r] = thread[r]
      BY <1>1, <2>1
    <2> QED BY <1>1, <2>1, <2>2, <2>3, <2>4 DEF MutesFit, chatVars
  <1>4. ASSUME StoreMessage(t)
        PROVE  MutesFit'
    <2> DEFINE m == NewMessage(thread[t].s, thread[t].room, thread[t].knew)
    <2>1. /\ thread[t].at = "post" /\ messages' = messages \cup {m} /\ Finish(t)
          /\ UNCHANGED <<mutes, now>>
      BY <1>4 DEF StoreMessage
    <2>2. /\ m.by = thread[t].s /\ m.room = thread[t].room /\ m.knew = thread[t].knew
          /\ m.stored = now
      BY DEF NewMessage
    <2> HIDE DEF m
    <2>3. Silenced(m.by, m.room, m.knew, m.stored)
      BY <1>1, <2>1, <2>2 DEF MutesFit
    <2>4. \A r \in Thread : thread'[r] = thread[r] \/ thread'[r].at # "post"
      BY <2>1, Finished, IdleIsIdle
    <2> QED BY <1>1, <2>1, <2>3, <2>4 DEF MutesFit
  <1> QED BY <1>2, <1>3, <1>4

-----------------------------------------------------------------------------
(* The theorems.                                                           *)

LEMMA InitFits == Init => IInv
  <1> SUFFICES ASSUME Init PROVE IInv
    OBVIOUS
  <1>1. /\ \A t \in Thread : thread[t] = Idle /\ ~Working(t)
        /\ DOMAIN thread = Thread /\ DOMAIN account = User
        /\ now = 0 /\ mutes = {} /\ messages = {}
    BY DEF Init, Working
  <1> DEFINE Seeded(u) == NewAccount(SeedRole[u], NoOverride)
             nobody == [role |-> None]
  <1>a. \A u : /\ DOMAIN Seeded(u) = {"role", "status", "perms", "mixed"}
               /\ Seeded(u).role = SeedRole[u] /\ Seeded(u).status = "active"
    BY DEF NewAccount
  <1>b. nobody.role = None
    OBVIOUS
  <1>c. account = [u \in User |-> IF u \in Seed THEN Seeded(u) ELSE nobody]
    BY DEF Init
  <1> HIDE DEF Seeded, nobody
  <1>2. \A u \in User : account[u] = IF u \in Seed THEN Seeded(u) ELSE nobody
    BY <1>c
  <1>3. \A u \in User : AccountFits(account[u])
    BY <1>a, <1>b, <1>2 DEF AccountFits
  <1>4. Shapes /\ Order
    BY <1>1, <1>3, IdleIsIdle DEF Shapes, Order
  <1>5. Kept
    <2>1. PICK u \in Seed : SeedRole[u] = "admin"
      BY AccountsAssumption
    <2>2. u \in User /\ account[u].role = "admin" /\ account[u].status = "active"
      BY <1>a, <1>2, <2>1, AccountsAssumption
    <2>3. "admin.manage" \in PermsOf(u)
      BY <2>2, AccountsAssumption DEF PermsOf, Effective
    <2>4. Manages(u)
      BY <2>2, <2>3 DEF Manages, Active, Exists, None
    <2> QED BY <1>1, <2>2, <2>4 DEF Kept
  <1>6. MutesFit
    BY <1>1, IdleIsIdle DEF MutesFit
  <1> QED BY <1>4, <1>5, <1>6 DEF IInv

LEMMA ThreadStepKeeps ==
    ASSUME IInv, NEW t \in Thread,
           \/ \E u \in User :
                \/ Begin(t, u)
                \/ \E role \in Role, o \in Overrides \cup {NoOverride} :
                      CreateUserCheck(t, u, role, o)
                \/ \E role \in Role, status \in {"active", "inactive"} :
                      UpdateUserCheck(t, u, role, status)
                \/ \E o \in Overrides : SetUserPermissions(t, u, o)
                \/ \E g \in Group : AddMembership(t, u, g) \/ RemoveMembership(t, u, g)
           \/ \E g \in Group, o \in Overrides : CreateGroup(t, g, o) \/ SetGroupPermissions(t, g, o)
           \/ \E p \in Project : FindProject(t, p)
           \/ CreateUserWrite(t) \/ UpdateUserWrite(t) \/ InsertProject(t) \/ Reply(t) \/ Logout(t)
    PROVE  IInv'
  <1>1. Shapes' /\ Order' /\ Kept'
    BY BeginKeeps, CreateCheckKeeps, UpdateCheckKeeps, PermissionsKeep, GroupsKeep,
       FindProjectKeeps, CreateWriteKeeps, UpdateWriteKeeps, ReplyKeeps
  <1>2. UNCHANGED <<chatVars, now>> /\ (Finish(t) \/ \E th : /\ thread' = [thread EXCEPT ![t] = th]
                                                          /\ th.at # "post")
    <2>1. CASE \E u \in User : Begin(t, u)
      <3>1. PICK u \in User : Begin(t, u)
        BY <2>1
      <3>2. thread' = [thread EXCEPT ![t] = [at |-> "ready", s |-> Session(u)]]
        BY <3>1 DEF Begin
      <3>3. [at |-> "ready", s |-> Session(u)].at # "post"
        OBVIOUS
      <3> QED BY <3>1, <3>2, <3>3 DEF Begin
    <2>2. CASE \E u \in User, role \in Role, o \in Overrides \cup {NoOverride} :
                 CreateUserCheck(t, u, role, o)
      <3>1. PICK u \in User, role \in Role, o \in Overrides \cup {NoOverride} :
                 CreateUserCheck(t, u, role, o)
        BY <2>2
      <3> DEFINE th == [at |-> "create", s |-> thread[t].s, name |-> u, role |-> role, perms |-> o]
      <3>2. thread' = [thread EXCEPT ![t] = th] /\ th.at # "post" /\ UNCHANGED <<chatVars, now>>
        BY <3>1 DEF CreateUserCheck
      <3> HIDE DEF th
      <3> QED BY <3>2
    <2>3. CASE \E u \in User, role \in Role, status \in {"active", "inactive"} :
                 UpdateUserCheck(t, u, role, status)
      <3>1. PICK u \in User, role \in Role, status \in {"active", "inactive"} :
                 UpdateUserCheck(t, u, role, status)
        BY <2>3
      <3> DEFINE th == [at |-> "update", s |-> thread[t].s, name |-> u, role |-> role,
                        status |-> status]
      <3>2. thread' = [thread EXCEPT ![t] = th] /\ th.at # "post" /\ UNCHANGED <<chatVars, now>>
        BY <3>1 DEF UpdateUserCheck
      <3> HIDE DEF th
      <3> QED BY <3>2
    <2>4. CASE \E p \in Project : FindProject(t, p)
      <3>1. PICK p \in Project : FindProject(t, p)
        BY <2>4
      <3> DEFINE th == [at |-> "insert", s |-> thread[t].s, project |-> p]
      <3>2. thread' = [thread EXCEPT ![t] = th] /\ th.at # "post" /\ UNCHANGED <<chatVars, now>>
        BY <3>1 DEF FindProject
      <3> HIDE DEF th
      <3> QED BY <3>2
    <2>5. CASE \/ \E u \in User, o \in Overrides : SetUserPermissions(t, u, o)
               \/ \E u \in User, g \in Group : AddMembership(t, u, g) \/ RemoveMembership(t, u, g)
               \/ \E g \in Group, o \in Overrides : CreateGroup(t, g, o) \/ SetGroupPermissions(t, g, o)
               \/ CreateUserWrite(t) \/ UpdateUserWrite(t) \/ InsertProject(t) \/ Reply(t)
               \/ Logout(t)
      BY <2>5 DEF SetUserPermissions, AddMembership, RemoveMembership, CreateGroup,
                  SetGroupPermissions, CreateUserWrite, UpdateUserWrite, InsertProject, Reply, Logout
    <2> QED BY <2>1, <2>2, <2>3, <2>4, <2>5
  <1>3. \A r \in Thread : thread'[r] = thread[r] \/ thread'[r].at # "post"
    <2>1. CASE Finish(t)
      BY <2>1, Finished, IdleIsIdle
    <2>2. CASE \E th : thread' = [thread EXCEPT ![t] = th] /\ th.at # "post"
      BY <2>2, Facts
    <2> QED BY <1>2, <2>1, <2>2
  <1>4. MutesFit'
    BY <1>2, <1>3, MutesStay
  <1> QED BY <1>1, <1>4 DEF IInv

LEMMA NextKeeps == IInv /\ [Next]_vars => IInv'
  <1> SUFFICES ASSUME IInv, [Next]_vars PROVE IInv'
    OBVIOUS
  <1>1. CASE UNCHANGED vars \/ \E u \in User : Login(u)
    <2>1. UNCHANGED <<accountVars, thread, overlapped, gaveUp, chatVars, now>>
      BY <1>1 DEF vars, Login
    <2> QED BY <2>1, WaitKeeps, MutesStay DEF IInv
  <1>2. CASE Tick
    <2>1. UNCHANGED <<accountVars, thread, overlapped, gaveUp>>
      BY <1>2 DEF Tick
    <2> QED BY <1>2, <2>1, WaitKeeps, TimeKeepsMutes DEF IInv
  <1>3. CASE Restart
    <2>1. /\ UNCHANGED <<chatVars, now>>
          /\ \A t \in Thread : thread'[t].at # "post"
      BY <1>3, IdleIsIdle DEF Restart
    <2> QED BY <1>3, <2>1, RestartKeeps, MutesStay DEF IInv
  <1>4. ASSUME NEW t \in Thread,
               \/ \E u \in User, room \in ChatRoom \cup {AllRooms}, d \in Duration :
                     SetMute(t, u, room, d)
               \/ \E room \in ChatRoom : CheckMute(t, room)
               \/ StoreMessage(t)
        PROVE  IInv'
    BY <1>4, ReplyKeeps, CheckMuteKeeps, ChatKeepsMutes DEF IInv
  <1> QED BY <1>1, <1>2, <1>3, <1>4, ThreadStepKeeps DEF Next

LEMMA Invariance == Spec => []IInv
  BY InitFits, NextKeeps, PTL DEF Spec

\* Somebody can administer the server: with any users, groups and permissions,
\* and any requests, an active user has admin.manage, unless two managers'
\* requests have overlapped, a manager has given the right up, or a restart has
\* put one back into a group that denies it. (update_user, set_user_permissions,
\* the group routes, bootstrap_application.)
THEOREM SomebodyManages == Spec => []ManagerRemains
  <1>1. IInv => ManagerRemains
    BY DEF IInv, Kept, ManagerRemains
  <1> QED BY <1>1, Invariance, PTL

\* A message is stored only if the mutes its request could see and that still
\* hold do not cover it, or its author may moderate. (post_message.)
THEOREM TheMutedStaySilent == Spec => []MutedStaySilent
  <1>1. IInv => MutedStaySilent
    BY DEF IInv, MutesFit, Silenced, MutedStaySilent
  <1> QED BY <1>1, Invariance, PTL

\* What a user is shown in lists can be opened and the other way round, for any
\* roles, groups and permissions; it needs no invariant, for the four checks
\* agree on every state. (list_accessible_projects, can_access_project,
\* rooms_for, can_access_room.)
THEOREM ListsAndChecksAgree == Spec => []ListedCanBeOpened
  <1>1. ListedCanBeOpened
    <2> SUFFICES ASSUME NEW u \in User, Exists(u)
                 PROVE  LET s == Session(u)
                            listedOnly(p) == p.type = "group" /\ "workspace.group" \notin s.perms
                        IN /\ \A p \in projects : CanAccess(s, p) => p \in Listed(s)
                           /\ \A p \in Listed(s) : CanAccess(s, p) \/ listedOnly(p)
                           /\ \A room \in RoomsFor(s) :
                                \/ CanEnter(s, room)
                                \/ "chat.use" \notin s.perms
                                \/ room[1] = "project" /\ listedOnly(room[2])
      BY DEF ListedCanBeOpened
    <2> DEFINE s == Session(u)
               listedOnly(p) == p.type = "group" /\ "workspace.group" \notin s.perms
    <2> HIDE DEF s
    <2>1. \A p \in projects : CanAccess(s, p) => p \in Listed(s)
      BY DEF CanAccess, Listed
    <2>2. \A p \in Listed(s) : p \in projects /\ (CanAccess(s, p) \/ listedOnly(p))
      BY DEF CanAccess, Listed
    <2>3. ASSUME NEW room \in RoomsFor(s), "chat.use" \in s.perms
          PROVE  CanEnter(s, room) \/ (room[1] = "project" /\ listedOnly(room[2]))
      <3>1. CASE room = <<"lounge">>
        BY <2>3, <3>1 DEF CanEnter
      <3>2. CASE \E g \in Group : room = <<"group", g>> /\ (IsTeacher(s) \/ g \in s.groups)
        BY <2>3, <3>2 DEF CanEnter
      <3>3. CASE \E p \in Listed(s) : room = <<"project", p>>
        BY <2>2, <2>3, <3>3 DEF CanEnter
      <3> QED BY <2>3, <3>1, <3>2, <3>3 DEF RoomsFor
    <2> QED BY <2>1, <2>2, <2>3 DEF s
  <1> QED BY <1>1, PTL

-----------------------------------------------------------------------------
(* Who made an account.                                                    *)

\* A step that leaves accounts alone, and lets no request begin to write one.
LEMMA NoAccountWritten ==
    ASSUME Makers, UNCHANGED <<account, rivals>>, DOMAIN thread' = Thread,
           \A t \in Thread : thread'[t] = thread[t] \/ thread'[t].at \notin {"create", "update"}
    PROVE  Makers'
  BY DEF Makers

\* A step that writes no account, of a request that ends or goes on reading.
LEMMA OthersKeepMakers ==
    ASSUME Makers, UNCHANGED <<account, rivals>>, NEW t \in Thread, NEW th,
           thread' = [thread EXCEPT ![t] = th], th.at \notin {"create", "update"}
    PROVE  Makers'
  <1>1. DOMAIN thread' = Thread /\ \A r \in Thread : thread'[r] = IF r = t THEN th ELSE thread[r]
    BY DEF Makers
  <1> QED BY <1>1, NoAccountWritten

LEMMA CreateCheckKeepsMakers ==
    ASSUME Makers, NEW t \in Thread, NEW u \in User, NEW role \in Role, NEW o,
           CreateUserCheck(t, u, role, o)
    PROVE  Makers'
  <1> DEFINE th == [at |-> "create", s |-> thread[t].s, name |-> u, role |-> role, perms |-> o]
             Rival == \E r \in InFlight : thread[r].at = "create" /\ thread[r].name = u
  <1>1. /\ thread[t].at = "ready" /\ account[u].role = None
        /\ thread' = [thread EXCEPT ![t] = th] /\ UNCHANGED account
        /\ rivals' = rivals \cup (IF Rival THEN {u} ELSE {})
    BY DEF CreateUserCheck, Ready, NoteRival, Exists
  <1>2. th.at = "create" /\ th.name = u /\ th.role \in Role
    OBVIOUS
  <1> HIDE DEF th
  <1>3. DOMAIN thread' = Thread /\ \A r \in Thread : thread'[r] = IF r = t THEN th ELSE thread[r]
    BY <1>1 DEF Makers
  <1>4. \A r \in Thread : (thread[r].at = "create" /\ thread[r].name = u) => u \in rivals'
    BY <1>1, IdleIsIdle DEF InFlight
  <1>5. rivals \subseteq rivals'
    BY <1>1
  <1>6. ASSUME NEW q \in Thread, thread'[q].at = "create", thread'[q].name \notin rivals'
        PROVE  /\ account'[thread'[q].name].role = None
               /\ \A r \in Thread : (r # q /\ thread'[r].at = "create")
                                      => thread'[r].name # thread'[q].name
    BY <1>1, <1>2, <1>3, <1>4, <1>5, <1>6 DEF Makers
  <1>7. \A q \in Thread : thread'[q].at \in {"create", "update"} =>
          /\ thread'[q].name \in User /\ thread'[q].role \in Role
          /\ thread'[q].at = "update" => account'[thread'[q].name].role # None
    BY <1>1, <1>2, <1>3 DEF Makers
  <1> QED BY <1>1, <1>3, <1>5, <1>6, <1>7 DEF Makers

LEMMA UpdateCheckKeepsMakers ==
    ASSUME Makers, NEW t \in Thread, NEW u \in User, NEW role \in Role, NEW status,
           UpdateUserCheck(t, u, role, status)
    PROVE  Makers'
  <1> DEFINE th == [at |-> "update", s |-> thread[t].s, name |-> u, role |-> role,
                    status |-> status]
  <1>1. /\ account[u].role # None /\ thread' = [thread EXCEPT ![t] = th]
        /\ UNCHANGED <<account, rivals>>
    BY DEF UpdateUserCheck, MayUpdate, Exists, accountVars
  <1>2. th.at = "update" /\ th.name = u /\ th.role \in Role
    OBVIOUS
  <1> HIDE DEF th
  <1>3. DOMAIN thread' = Thread /\ \A r \in Thread : thread'[r] = IF r = t THEN th ELSE thread[r]
    BY <1>1 DEF Makers
  <1> QED BY <1>1, <1>2, <1>3 DEF Makers

\* An account is written: a new one of one creation if the name had no rivals.
LEMMA CreateWriteKeepsMakers ==
    ASSUME Makers, NEW t \in Thread, CreateUserWrite(t)
    PROVE  Makers'
  <1> DEFINE name == thread[t].name
             new == [NewAccount(thread[t].role, thread[t].perms) EXCEPT !.mixed = Exists(name)]
  <1>1. /\ thread[t].at = "create" /\ thread' = [thread EXCEPT ![t] = Idle]
        /\ account' = [account EXCEPT ![name] = new] /\ UNCHANGED rivals
    BY DEF CreateUserWrite, UpsertUser, Finish
  <1>2. /\ DOMAIN new = {"role", "status", "perms", "mixed"} /\ new.role = thread[t].role
        /\ new.mixed = Exists(name)
    BY DEF NewAccount
  <1> HIDE DEF new
  <1>3. /\ DOMAIN thread' = Thread /\ thread'[t].at = "idle"
        /\ \A r \in Thread : r # t => thread'[r] = thread[r]
    BY <1>1, IdleIsIdle DEF Makers
  <1>4. /\ name \in User /\ thread[t].role \in Role /\ new.role # None
        /\ name \notin rivals =>
             /\ ~Exists(name)
             /\ \A r \in Thread : (r # t /\ thread[r].at = "create") => thread[r].name # name
    BY <1>1, <1>2 DEF Makers, Exists, Role, None
  <1>5. DOMAIN account' = User /\ \A u \in User : account'[u] = IF u = name THEN new ELSE account[u]
    BY <1>1, <1>4 DEF Makers
  <1>6. \A q \in Thread : (thread'[q].at = "create" /\ thread'[q].name \notin rivals') =>
          /\ account'[thread'[q].name].role = None
          /\ \A r \in Thread : (r # q /\ thread'[r].at = "create") => thread'[r].name # thread'[q].name
    BY <1>1, <1>3, <1>4, <1>5 DEF Makers
  <1>7. \A q \in Thread : thread'[q].at \in {"create", "update"} =>
          /\ thread'[q].name \in User /\ thread'[q].role \in Role
          /\ thread'[q].at = "update" => account'[thread'[q].name].role # None
    BY <1>3, <1>4, <1>5 DEF Makers
  <1>8. \A u \in User : account'[u].role # None =>
          DOMAIN account'[u] = {"role", "status", "perms", "mixed"}
    BY <1>2, <1>5 DEF Makers
  <1>9. \A u \in User \ rivals' : account'[u].role # None => ~account'[u].mixed
    BY <1>1, <1>2, <1>4, <1>5 DEF Makers
  <1> QED BY <1>3, <1>5, <1>6, <1>7, <1>8, <1>9 DEF Makers

\* An account that exists is changed, in something else than who made it.
LEMMA ChangeKeepsMakers ==
    ASSUME Makers, NEW t \in Thread, NEW name \in User, NEW new,
           thread' = [thread EXCEPT ![t] = Idle],
           account' = [account EXCEPT ![name] = new], UNCHANGED rivals,
           account[name].role # None, new.role # None,
           DOMAIN new = DOMAIN account[name], new.mixed = account[name].mixed
    PROVE  Makers'
  <1>1. /\ DOMAIN thread' = Thread /\ thread'[t].at = "idle"
        /\ \A r \in Thread : r # t => thread'[r] = thread[r]
    BY IdleIsIdle DEF Makers
  <1>2. DOMAIN account' = User /\ \A u \in User : account'[u] = IF u = name THEN new ELSE account[u]
    BY DEF Makers
  <1>3. \A q \in Thread : (thread'[q].at = "create" /\ thread'[q].name \notin rivals') =>
          /\ account'[thread'[q].name].role = None
          /\ \A r \in Thread : (r # q /\ thread'[r].at = "create") => thread'[r].name # thread'[q].name
    BY <1>1, <1>2 DEF Makers
  <1>4. \A q \in Thread : thread'[q].at \in {"create", "update"} =>
          /\ thread'[q].name \in User /\ thread'[q].role \in Role
          /\ thread'[q].at = "update" => account'[thread'[q].name].role # None
    BY <1>1, <1>2 DEF Makers
  <1> QED BY <1>1, <1>2, <1>3, <1>4 DEF Makers

LEMMA UpdateWriteKeepsMakers ==
    ASSUME Makers, NEW t \in Thread, UpdateUserWrite(t)
    PROVE  Makers'
  <1> DEFINE name == thread[t].name
             new == [account[name] EXCEPT !.role = thread[t].role, !.status = thread[t].status]
  <1>1. /\ thread[t].at = "update" /\ thread' = [thread EXCEPT ![t] = Idle]
        /\ account' = [account EXCEPT ![name] = new] /\ UNCHANGED rivals
    BY DEF UpdateUserWrite, UpdateAccount, Finish
  <1>2. /\ name \in User /\ thread[t].role \in Role /\ account[name].role # None
        /\ DOMAIN account[name] = {"role", "status", "perms", "mixed"}
    BY <1>1 DEF Makers
  <1>3. DOMAIN new = DOMAIN account[name] /\ new.mixed = account[name].mixed /\ new.role = thread[t].role
    BY <1>2
  <1>4. thread[t].role # None
    BY <1>2 DEF Role, None
  <1> HIDE DEF new
  <1> QED BY <1>1, <1>2, <1>3, <1>4, ChangeKeepsMakers

LEMMA PermissionsKeepMakers ==
    ASSUME Makers, NEW t \in Thread, NEW u \in User, NEW o, SetUserPermissions(t, u, o)
    PROVE  Makers'
  <1> DEFINE new == [account[u] EXCEPT !.perms = o]
  <1>1. /\ thread' = [thread EXCEPT ![t] = Idle] /\ account[u].role # None
        /\ account' = [account EXCEPT ![u] = new] /\ UNCHANGED rivals
    BY DEF SetUserPermissions, UpdatePermissions, Finish, Exists
  <1>2. DOMAIN account[u] = {"role", "status", "perms", "mixed"}
    BY <1>1 DEF Makers
  <1>3. DOMAIN new = DOMAIN account[u] /\ new.mixed = account[u].mixed /\ new.role = account[u].role
    BY <1>2
  <1> HIDE DEF new
  <1> QED BY <1>1, <1>3, ChangeKeepsMakers

LEMMA EndKeepsMakers ==
    ASSUME Makers, NEW t \in Thread, Finish(t), UNCHANGED <<account, rivals>>
    PROVE  Makers'
  BY IdleIsIdle, OthersKeepMakers DEF Finish

LEMMA InitMakers == Init => Makers
  <1> SUFFICES ASSUME Init PROVE Makers
    OBVIOUS
  <1> DEFINE Seeded(u) == NewAccount(SeedRole[u], NoOverride)
             nobody == [role |-> None]
  <1>1. \A u : DOMAIN Seeded(u) = {"role", "status", "perms", "mixed"} /\ Seeded(u).mixed = FALSE
    BY DEF NewAccount
  <1>2. nobody.role = None
    OBVIOUS
  <1>3. account = [u \in User |-> IF u \in Seed THEN Seeded(u) ELSE nobody]
    BY DEF Init
  <1> HIDE DEF Seeded, nobody
  <1>4. /\ DOMAIN account = User
        /\ \A u \in User : account[u] = IF u \in Seed THEN Seeded(u) ELSE nobody
    BY <1>3
  <1>5. DOMAIN thread = Thread /\ \A t \in Thread : thread[t].at = "idle"
    BY IdleIsIdle DEF Init
  <1> QED BY <1>1, <1>2, <1>4, <1>5 DEF Makers

LEMMA NextMakers == Makers /\ [Next]_vars => Makers'
  <1> SUFFICES ASSUME Makers, [Next]_vars PROVE Makers'
    OBVIOUS
  <1>1. CASE UNCHANGED vars \/ Tick \/ \E u \in User : Login(u)
    <2>1. UNCHANGED <<account, rivals, thread>>
      BY <1>1 DEF vars, accountVars, Tick, Login
    <2> QED BY <2>1, NoAccountWritten DEF Makers
  <1>2. CASE Restart
    <2>1. UNCHANGED <<account, rivals>> /\ thread' = [t \in Thread |-> Idle]
      BY <1>2 DEF Restart
    <2>2. DOMAIN thread' = Thread /\ \A t \in Thread : thread'[t].at = "idle"
      BY <2>1, IdleIsIdle
    <2> QED BY <2>1, <2>2, NoAccountWritten
  <1>3. ASSUME NEW t \in Thread, NEW u \in User, Begin(t, u)
        PROVE  Makers'
    <2> DEFINE th == [at |-> "ready", s |-> Session(u)]
    <2>1. thread' = [thread EXCEPT ![t] = th] /\ th.at = "ready" /\ UNCHANGED <<account, rivals>>
      BY <1>3 DEF Begin, accountVars
    <2> HIDE DEF th
    <2> QED BY <2>1, OthersKeepMakers
  <1>4. ASSUME NEW t \in Thread, NEW p \in Project, FindProject(t, p)
        PROVE  Makers'
    <2> DEFINE th == [at |-> "insert", s |-> thread[t].s, project |-> p]
    <2>1. thread' = [thread EXCEPT ![t] = th] /\ th.at = "insert" /\ UNCHANGED <<account, rivals>>
      BY <1>4 DEF FindProject, accountVars
    <2> HIDE DEF th
    <2> QED BY <2>1, OthersKeepMakers
  <1>5. ASSUME NEW t \in Thread, NEW room \in ChatRoom, CheckMute(t, room)
        PROVE  Makers'
    <2> DEFINE th == [at |-> "post", s |-> thread[t].s, room |-> room, knew |-> mutes]
    <2>1. thread' = [thread EXCEPT ![t] = th] /\ th.at = "post" /\ UNCHANGED <<account, rivals>>
      BY <1>5 DEF CheckMute, accountVars
    <2> HIDE DEF th
    <2> QED BY <2>1, OthersKeepMakers
  <1>6. ASSUME NEW t \in Thread,
               \/ \E g \in Group, o \in Overrides : CreateGroup(t, g, o) \/ SetGroupPermissions(t, g, o)
               \/ \E u \in User, g \in Group : AddMembership(t, u, g) \/ RemoveMembership(t, u, g)
               \/ \E u \in User, room \in ChatRoom \cup {AllRooms}, d \in Duration : SetMute(t, u, room, d)
               \/ InsertProject(t) \/ StoreMessage(t) \/ Reply(t) \/ Logout(t)
        PROVE  Makers'
    <2>1. Finish(t) /\ UNCHANGED <<account, rivals>>
      BY <1>6 DEF CreateGroup, SetGroupPermissions, AddMembership, RemoveMembership, SetMute,
                  InsertProject, StoreMessage, Reply, Logout, accountVars
    <2> QED BY <2>1, EndKeepsMakers
  <1> QED
    BY <1>1, <1>2, <1>3, <1>4, <1>5, <1>6, CreateCheckKeepsMakers, CreateWriteKeepsMakers,
       UpdateCheckKeepsMakers, UpdateWriteKeepsMakers, PermissionsKeepMakers DEF Next

\* The password, role and permissions of an account come from one creation,
\* unless two creations of its name have overlapped, for any users and any
\* number of managers at work at once: AuthService.create_user looks the name up
\* in one transaction and writes the account in another, and until then nobody
\* else takes the name. (auth.py create_user, database.py create_user.)
THEOREM AccountsHaveOneMaker == Spec => []RoleFitsPassword
  <1>1. Makers => RoleFitsPassword
    BY DEF Makers, RoleFitsPassword, Exists
  <1> QED BY <1>1, InitMakers, NextMakers, PTL DEF Spec
=============================================================================
