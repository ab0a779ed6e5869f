------------------------------- MODULE Accounts -------------------------------
(***************************************************************************)
(* Who may do what: accounts, groups, permissions and sessions (auth.py,   *)
(* permissions.py, user_admin.py, database.py), with what they guard in    *)
(* the routes of server.py: user administration, projects and chat.        *)
(*                                                                         *)
(* A request resolves its session first; role, groups and permissions are  *)
(* from then on those of that moment. Checks and writes are transactions   *)
(* of their own, so two administrators may pass each other's checks.       *)
(***************************************************************************)
EXTENDS Integers, FiniteSets

CONSTANTS
  User,           (* user names, of existing and future accounts           *)
  Seed, SeedRole, (* the accounts bootstrap_application creates            *)
  SeedMember,     (* the memberships it adds                               *)
  SeedOverride,   (* the overrides of the groups it creates                *)
  SeedProject,    (* the projects it creates                               *)
  Group, Slug,    (* group ids and names of projects                       *)
  Thread,         (* handler threads                                       *)
  Perm,           (* the permission keys told apart                        *)
  StudentDefault, (* those a student has by default                        *)
  Overrides,      (* the overrides administrators set, partial functions   *)
  ChatRoom,       (* the rooms in which messages are sent or users muted   *)
  Duration,       (* the durations of mutes                                *)
  MaxRequests,    (* bound: requests                                       *)
  MaxTime         (* bound: the clock                                      *)

Role == {"student", "teacher", "admin"}
Project == [type : {"user"}, owner : User, slug : Slug]
           \cup [type : {"group"}, owner : Group, slug : Slug]
Room == {<<"lounge">>} \cup {<<"group", g>> : g \in Group} \cup {<<"project", p>> : p \in Project}

ASSUME AccountsAssumption ==
  /\ Seed \subseteq User /\ SeedRole \in [Seed -> Role]
  /\ \E u \in Seed : SeedRole[u] = "admin"
  /\ SeedMember \subseteq User \X Group
  /\ SeedProject \subseteq Project
  /\ {"admin.manage", "workspace.personal", "workspace.group", "chat.use",
      "teacher.chat.moderate", "project.create"} \subseteq Perm
  /\ StudentDefault \subseteq Perm
  /\ \A o \in Overrides \cup {SeedOverride} : DOMAIN o \subseteq Perm /\ \A k \in DOMAIN o : o[k] \in BOOLEAN
  /\ ChatRoom \subseteq Room
  /\ Duration \subseteq Nat \ {0}
  /\ MaxRequests \in Nat /\ MaxTime \in Nat

VARIABLES
  account,    (* users                                                     *)
  groupPerms, (* groups_table: per group its overrides                     *)
  members,    (* memberships                                               *)
  rivals,     (* history: names of which two creations have overlapped     *)
  projects,   (* projects                                                  *)
  tokens,     (* users holding a valid token                               *)
  mutes,      (* chat_mutes                                                *)
  messages,   (* chat_messages                                             *)
  now,        (* the clock                                                 *)
  thread,     (* per thread: its request and the session it resolved       *)
  requests,   (* requests so far                                           *)
  overlapped, (* history: two managers' requests have overlapped           *)
  gaveUp      (* history: a manager's request took their own right away,   *)
              (* or a restart one's with the memberships it adds           *)

accountVars == <<account, groupPerms, members, rivals>>
chatVars == <<mutes, messages>>
vars == <<accountVars, projects, tokens, chatVars, now, thread, requests, overlapped, gaveUp>>

None == "none"
AllRooms == <<"*">>
NoOverride == [k \in {} |-> TRUE]
Idle == [at |-> "idle"]

(* An account; `mixed` is history: a later creation of the name has given  *)
(* it its role and permissions, while its password is an earlier one's.    *)
NewAccount(role, o) == [role |-> role, status |-> "active", perms |-> o, mixed |-> FALSE]

(* bootstrap_application on an empty database; its users have logged in.   *)
Init ==
  /\ account = [u \in User |->
       IF u \in Seed THEN NewAccount(SeedRole[u], NoOverride) ELSE [role |-> None]]
  /\ groupPerms = [g \in Group |->
       IF \E u \in User : <<u, g>> \in SeedMember THEN [exists |-> TRUE, set |-> SeedOverride]
       ELSE [exists |-> FALSE, set |-> NoOverride]]
  /\ members = SeedMember
  /\ rivals = {}
  /\ projects = SeedProject
  /\ tokens = Seed
  /\ mutes = {} /\ messages = {}
  /\ now = 0
  /\ thread = [t \in Thread |-> Idle]
  /\ requests = 0
  /\ overlapped = FALSE /\ gaveUp = FALSE

Exists(u) == account[u].role # None
Active(u) == Exists(u) /\ account[u].status = "active"
GroupExists(g) == groupPerms[g].exists

-----------------------------------------------------------------------------
(* Permissions and sessions.                                               *)

Default(role) == IF role = "student" THEN StudentDefault ELSE Perm

(* resolve_permissions: the user's own overrides, else those of the groups,*)
(* of which one FALSE beats every TRUE, else the role's default; an        *)
(* administrator has them all.                                             *)
Effective(role, groupSet, own) ==
  {k \in Perm :
     LET said == {o[k] : o \in {o \in groupSet : k \in DOMAIN o}} IN
     \/ role = "admin"
     \/ k \in DOMAIN own /\ own[k]
     \/ /\ k \notin DOMAIN own
        /\ FALSE \notin said
        /\ TRUE \in said \/ k \in Default(role)}

(* list_user_groups: a membership counts once the group exists.            *)
GroupsOf(u) == {g \in Group : GroupExists(g) /\ <<u, g>> \in members}

PermsOf(u) ==
  Effective(account[u].role, {groupPerms[g].set : g \in GroupsOf(u)}, account[u].perms)

(* session_from_token.                                                     *)
Session(u) == [user |-> u, role |-> account[u].role, groups |-> GroupsOf(u), perms |-> PermsOf(u)]

IsTeacher(s) == s.role \in {"teacher", "admin"}

Manages(u) == Active(u) /\ "admin.manage" \in PermsOf(u)

(* login; the password is the user's.                                      *)
Login(u) ==
  /\ Active(u) /\ u \notin tokens
  /\ tokens' = tokens \cup {u}
  /\ UNCHANGED <<accountVars, projects, chatVars, now, thread, requests, overlapped, gaveUp>>

InFlight == {t \in Thread : thread[t] # Idle}

(* _require_session, at the beginning of every request.                    *)
Begin(t, u) ==
  /\ thread[t] = Idle
  /\ requests < MaxRequests
  /\ u \in tokens /\ Active(u)
  /\ requests' = requests + 1
  /\ thread' = [thread EXCEPT ![t] = [at |-> "ready", s |-> Session(u)]]
  /\ overlapped' = (overlapped \/ \E r \in InFlight :
                      /\ "admin.manage" \in thread[r].s.perms
                      /\ "admin.manage" \in PermsOf(u))
  /\ UNCHANGED <<accountVars, projects, tokens, chatVars, now, gaveUp>>

(* _require_permission.                                                    *)
Ready(t, perm) == thread[t].at = "ready" /\ perm \in thread[t].s.perms
Finish(t) == thread' = [thread EXCEPT ![t] = Idle]

(* logout revokes the token.                                               *)
Logout(t) ==
  /\ thread[t].at = "ready"
  /\ tokens' = tokens \ {thread[t].s.user}
  /\ Finish(t)
  /\ UNCHANGED <<accountVars, projects, chatVars, now, requests, overlapped, gaveUp>>

(* The request is refused, or was one that only reads.                     *)
Reply(t) ==
  /\ thread[t].at = "ready"
  /\ Finish(t)
  /\ UNCHANGED <<accountVars, projects, tokens, chatVars, now, requests, overlapped, gaveUp>>

-----------------------------------------------------------------------------
(* Administration. The writes come first.                                  *)

(* create_user of the repository: an existing account keeps only its       *)
(* password.                                                               *)
UpsertUser(u, role, o) ==
  account' = [account EXCEPT ![u] = [NewAccount(role, o) EXCEPT !.mixed = Exists(u)]]

(* update_user_account.                                                    *)
UpdateAccount(u, role, status) ==
  account' = [account EXCEPT ![u] = [@ EXCEPT !.role = role, !.status = status]]

(* update_user_permissions.                                                *)
UpdatePermissions(u, o) == account' = [account EXCEPT ![u] = [@ EXCEPT !.perms = o]]

(* create_group of the repository overwrites a group of the id.            *)
UpsertGroup(g, o) == groupPerms' = [groupPerms EXCEPT ![g] = [exists |-> TRUE, set |-> o]]

(* update_group_permissions.                                               *)
UpdateGroup(g, o) ==
  groupPerms' = [groupPerms EXCEPT ![g] = [exists |-> GroupExists(g),
                                           set |-> IF GroupExists(g) THEN o ELSE NoOverride]]

(* For rivals: another request is about to create the name.                *)
NoteRival(u) ==
  rivals' = rivals \cup (IF \E r \in InFlight : thread[r].at = "create" /\ thread[r].name = u
                         THEN {u} ELSE {})

(* Mutant: the name is not looked up.                                      *)
CreateUserBlindly(t, u, role, o) ==
  /\ Ready(t, "admin.manage")
  /\ thread' = [thread EXCEPT ![t] = [at |-> "create", s |-> @.s, name |-> u, role |-> role, perms |-> o]]
  /\ NoteRival(u)
  /\ UNCHANGED <<account, groupPerms, members, projects, tokens, chatVars, now, requests, overlapped, gaveUp>>

(* create_user: the name is free, ...                                      *)
CreateUserCheck(t, u, role, o) ==
  /\ Ready(t, "admin.manage")
  /\ ~Exists(u)
  /\ thread' = [thread EXCEPT ![t] = [at |-> "create", s |-> @.s, name |-> u, role |-> role, perms |-> o]]
  /\ NoteRival(u)
  /\ UNCHANGED <<account, groupPerms, members, projects, tokens, chatVars, now, requests, overlapped, gaveUp>>

(* ... and after the hashing of the password the account is written, over  *)
(* one that has come meanwhile.                                            *)
CreateUserWrite(t) ==
  /\ thread[t].at = "create"
  /\ UpsertUser(thread[t].name, thread[t].role, thread[t].perms)
  /\ Finish(t)
  /\ UNCHANGED <<groupPerms, members, rivals, projects, tokens, chatVars, now, requests, overlapped, gaveUp>>

(* Mutant: one's own status can be changed.                                *)
MayUpdateOwnStatus(actor, u, role, status) ==
  /\ Exists(u)
  /\ u = actor => role = account[u].role

(* update_user's checks: one's own role and status stay.                   *)
MayUpdate(actor, u, role, status) ==
  /\ Exists(u)
  /\ u = actor => role = account[u].role /\ status = "active"

UpdateUserCheck(t, u, role, status) ==
  /\ Ready(t, "admin.manage")
  /\ MayUpdate(thread[t].s.user, u, role, status)
  /\ thread' = [thread EXCEPT ![t] = [at |-> "update", s |-> @.s, name |-> u,
                                      role |-> role, status |-> status]]
  /\ UNCHANGED <<accountVars, projects, tokens, chatVars, now, requests, overlapped, gaveUp>>

(* The rest of update_user; a new password is not told apart.              *)
UpdateUserWrite(t) ==
  /\ thread[t].at = "update"
  /\ UpdateAccount(thread[t].name, thread[t].role, thread[t].status)
  /\ Finish(t)
  /\ UNCHANGED <<groupPerms, members, rivals, projects, tokens, chatVars, now, requests, overlapped, gaveUp>>

(* For gaveUp: whether what the request does costs its own user the right. *)
NoteOwnLoss(t) ==
  gaveUp' = (gaveUp \/ \E u \in User : u = thread[t].s.user /\ Manages(u) /\ ~Manages(u)')

(* The route for permissions; nothing keeps one from changing one's own.     *)
SetUserPermissions(t, u, o) ==
  /\ Ready(t, "admin.manage")
  /\ Exists(u)
  /\ UpdatePermissions(u, o)
  /\ Finish(t)
  /\ UNCHANGED <<groupPerms, members, rivals, projects, tokens, chatVars, now, requests, overlapped>>
  /\ NoteOwnLoss(t)

(* The routes for groups.                                                  *)
CreateGroup(t, g, o) ==
  /\ Ready(t, "admin.manage")
  /\ UpsertGroup(g, o)
  /\ Finish(t)
  /\ UNCHANGED <<account, members, rivals, projects, tokens, chatVars, now, requests, overlapped>>
  /\ NoteOwnLoss(t)

SetGroupPermissions(t, g, o) ==
  /\ Ready(t, "admin.manage")
  /\ UpdateGroup(g, o)
  /\ Finish(t)
  /\ UNCHANGED <<account, members, rivals, projects, tokens, chatVars, now, requests, overlapped>>
  /\ NoteOwnLoss(t)

(* add_membership, remove_membership; neither user nor group need exist.   *)
AddMembership(t, u, g) ==
  /\ Ready(t, "admin.manage")
  /\ members' = members \cup {<<u, g>>}
  /\ Finish(t)
  /\ UNCHANGED <<account, groupPerms, rivals, projects, tokens, chatVars, now, requests, overlapped>>
  /\ NoteOwnLoss(t)

RemoveMembership(t, u, g) ==
  /\ Ready(t, "admin.manage")
  /\ members' = members \ {<<u, g>>}
  /\ Finish(t)
  /\ UNCHANGED <<account, groupPerms, rivals, projects, tokens, chatVars, now, requests, overlapped>>
  /\ NoteOwnLoss(t)

-----------------------------------------------------------------------------
(* Projects and chat rooms.                                                *)

(* can_access_project.                                                     *)
CanAccess(s, p) ==
  \/ IsTeacher(s)
  \/ p.type = "user" /\ p.owner = s.user
  \/ p.type = "group" /\ p.owner \in s.groups /\ "workspace.group" \in s.perms

(* Mutant: only teachers see all.                                          *)
ListedForTeachers(s) ==
  {p \in projects : \/ s.role = "teacher"
                    \/ p.type = "user" /\ p.owner = s.user
                    \/ p.type = "group" /\ p.owner \in s.groups}

(* list_accessible_projects.                                               *)
Listed(s) ==
  {p \in projects : \/ IsTeacher(s)
                    \/ p.type = "user" /\ p.owner = s.user
                    \/ p.type = "group" /\ p.owner \in s.groups}

(* rooms_for.                                                              *)
RoomsFor(s) ==
  {<<"lounge">>}
  \cup {<<"group", g>> : g \in {g \in Group : GroupExists(g) /\ (IsTeacher(s) \/ g \in s.groups)}}
  \cup {<<"project", p>> : p \in Listed(s)}

(* can_access_room.                                                        *)
CanEnter(s, room) ==
  /\ "chat.use" \in s.perms \/ IsTeacher(s)
  /\ CASE room[1] = "lounge" -> TRUE
       [] room[1] = "group" -> IsTeacher(s) \/ room[2] \in s.groups
       [] room[1] = "project" -> room[2] \in projects /\ CanAccess(s, room[2])

MayOwn(s, p) ==
  IF p.type = "user" THEN "workspace.personal" \in s.perms /\ p.owner = s.user
  ELSE "workspace.group" \in s.perms /\ (p.owner \in s.groups \/ IsTeacher(s))

(* find_project_by_owner_and_slug.                                         *)
NameTaken(p) == p \in projects

(* The route looks for a project of the name ...                           *)
FindProject(t, p) ==
  /\ Ready(t, "project.create")
  /\ MayOwn(thread[t].s, p)
  /\ ~NameTaken(p)
  /\ thread' = [thread EXCEPT ![t] = [at |-> "insert", s |-> @.s, project |-> p]]
  /\ UNCHANGED <<accountVars, projects, tokens, chatVars, now, requests, overlapped, gaveUp>>

(* ... and inserts one; of two, the unique index lets one.                 *)
InsertProject(t) ==
  /\ thread[t].at = "insert"
  /\ projects' = projects \cup {thread[t].project}
  /\ Finish(t)
  /\ UNCHANGED <<accountVars, tokens, chatVars, now, requests, overlapped, gaveUp>>

(* set_mute of the repository; the room "*" stands for all.                *)
NewMute(u, room, d) == [nr |-> Cardinality(mutes) + 1, target |-> u, room |-> room, until |-> now + d]

SetMute(t, u, room, d) ==
  /\ Ready(t, "teacher.chat.moderate")
  /\ mutes' = mutes \cup {NewMute(u, room, d)}
  /\ Finish(t)
  /\ UNCHANGED <<accountVars, projects, tokens, messages, now, requests, overlapped, gaveUp>>

(* Mutant: only the latest mute counts.                                    *)
LatestMute(u, room) ==
  {m \in mutes : m.target = u /\ m.until > now /\ m.room \in {room, AllRooms}
                 /\ \A n \in mutes : n.target = u => n.nr <= m.nr}

(* get_active_mute.                                                        *)
ActiveMutes(u, room) ==
  {m \in mutes : m.target = u /\ m.until > now /\ m.room \in {room, AllRooms}}

(* A message: its author may enter the room and is not muted ...           *)
CheckMute(t, room) ==
  /\ Ready(t, "chat.use")
  /\ CanEnter(thread[t].s, room)
  /\ ActiveMutes(thread[t].s.user, room) # {} => "teacher.chat.moderate" \in thread[t].s.perms
  /\ thread' = [thread EXCEPT ![t] = [at |-> "post", s |-> @.s, room |-> room, knew |-> mutes]]
  /\ UNCHANGED <<accountVars, projects, tokens, chatVars, now, requests, overlapped, gaveUp>>

(* add_chat_message.                                                       *)
NewMessage(s, room, knew) ==
  [nr |-> Cardinality(messages) + 1, room |-> room, by |-> s, stored |-> now, knew |-> knew]

(* ... and it is stored.                                                   *)
StoreMessage(t) ==
  /\ thread[t].at = "post"
  /\ messages' = messages \cup {NewMessage(thread[t].s, thread[t].room, thread[t].knew)}
  /\ Finish(t)
  /\ UNCHANGED <<accountVars, projects, tokens, mutes, now, requests, overlapped, gaveUp>>

-----------------------------------------------------------------------------
Tick ==
  /\ now < MaxTime
  /\ now' = now + 1
  /\ UNCHANGED <<accountVars, projects, tokens, chatVars, thread, requests, overlapped, gaveUp>>

(* The server restarts: requests are lost, and bootstrap_application adds  *)
(* its memberships again.                                                  *)
Restart ==
  /\ InFlight # {} \/ ~(SeedMember \subseteq members)
  /\ thread' = [t \in Thread |-> Idle]
  /\ members' = members \cup SeedMember
  /\ UNCHANGED <<account, groupPerms, rivals, projects, tokens, chatVars, now, requests, overlapped>>
  /\ gaveUp' = (gaveUp \/ \E u \in User : Manages(u) /\ ~Manages(u)')

Next ==
  \/ \E u \in User : Login(u)
  \/ \E t \in Thread :
       \/ \E u \in User :
            \/ Begin(t, u)
            \/ \E role \in Role, o \in Overrides \cup {NoOverride} : CreateUserCheck(t, u, role, o)
            \/ \E role \in Role, status \in {"active", "inactive"} : UpdateUserCheck(t, u, role, status)
            \/ \E o \in Overrides : SetUserPermissions(t, u, o)
            \/ \E g \in Group : AddMembership(t, u, g) \/ RemoveMembership(t, u, g)
            \/ \E room \in ChatRoom \cup {AllRooms}, d \in Duration : SetMute(t, u, room, d)
       \/ \E g \in Group, o \in Overrides : CreateGroup(t, g, o) \/ SetGroupPermissions(t, g, o)
       \/ \E p \in Project : FindProject(t, p)
       \/ \E room \in ChatRoom : CheckMute(t, room)
       \/ CreateUserWrite(t) \/ UpdateUserWrite(t) \/ InsertProject(t) \/ StoreMessage(t) \/ Reply(t) \/ Logout(t)
  \/ Tick
  \/ Restart

Spec == Init /\ [][Next]_vars

-----------------------------------------------------------------------------
(* Properties.                                                             *)

(* Types; a stored role is one of the three, and a request at work has the *)
(* permission its route asks for.                                          *)
TypeOK ==
  /\ \A u \in User :
       \/ account[u] = [role |-> None]
       \/ /\ account[u].role \in Role /\ account[u].status \in {"active", "inactive"}
          /\ account[u].perms \in Overrides \cup {NoOverride} /\ account[u].mixed \in BOOLEAN
  /\ groupPerms \in [Group -> [exists : BOOLEAN, set : Overrides \cup {NoOverride, SeedOverride}]]
  /\ members \subseteq User \X Group
  /\ projects \subseteq Project
  /\ tokens \subseteq User
  /\ now \in 0 .. MaxTime /\ requests \in 0 .. MaxRequests
  /\ DOMAIN thread = Thread
  /\ \A t \in InFlight :
       /\ thread[t].at \in {"create", "update"} => "admin.manage" \in thread[t].s.perms
       /\ thread[t].at = "insert" => "project.create" \in thread[t].s.perms

(* Somebody can still administer the server: as long as no two managers'   *)
(* requests overlapped (each could deactivate the other), no manager took  *)
(* their own right away by permissions or groups, and no restart put a     *)
(* manager back into a group that denies it, an active user has            *)
(* admin.manage.                                                           *)
ManagerRemains == (~overlapped /\ ~gaveUp) => \E u \in User : Manages(u)

(* What is listed can be opened, and the other way round: the query of     *)
(* list_accessible_projects, the check of can_access_project and the rooms *)
(* of rooms_for and can_access_room agree for every account, except that   *)
(* a group's projects are listed to members without workspace.group, and   *)
(* rooms to users without chat.use.                                        *)
ListedCanBeOpened ==
  \A u \in {u \in User : Exists(u)} :
    LET s == Session(u)
        listedOnly(p) == p.type = "group" /\ "workspace.group" \notin s.perms
    IN /\ \A p \in projects : CanAccess(s, p) => p \in Listed(s)
       /\ \A p \in Listed(s) : CanAccess(s, p) \/ listedOnly(p)
       /\ \A room \in RoomsFor(s) :
            \/ CanEnter(s, room)
            \/ "chat.use" \notin s.perms
            \/ room[1] = "project" /\ listedOnly(room[2])

(* Who is muted stays silent: a message of a user without the moderators'  *)
(* right is stored only if every mute that covers it has ended, or was set *)
(* after the message's request had looked.                                 *)
MutedStaySilent ==
  \A m \in messages : \A mute \in m.knew :
    (mute.target = m.by.user /\ mute.room \in {m.room, AllRooms} /\ mute.until > m.stored) =>
      "teacher.chat.moderate" \in m.by.perms

(* An account belongs to one creation: the password, role and permissions  *)
(* of a new account are those one manager chose for it, whatever other     *)
(* managers do at the same time, unless two creations of that very name    *)
(* overlapped. Then create_user of the repository gives the account the    *)
(* slower one's role and permissions and leaves it the other's password.   *)
RoleFitsPassword == \A u \in User \ rivals : Exists(u) => ~account[u].mixed
=============================================================================
