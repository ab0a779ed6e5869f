------------------------------ MODULE MCLiveRuns ------------------------------
(***************************************************************************)
(* Two students. Shared: one WebSocket each, the first starts two runs,    *)
(* the second one, and the server grants one lease at a time. Alone: the   *)
(* first student only, with two runs under way at once.                    *)
(***************************************************************************)
EXTENDS LiveRuns

CONSTANTS anna, ben, annaSocket, benSocket, annaRun1, annaRun2, benRun

SharedRequests == {annaRun1, annaRun2, benRun}
SharedClients == {annaSocket, benSocket}
AloneRequests == {annaRun1, annaRun2}
AloneClients == {annaSocket}

MCOwner == {anna, ben}
MCOwnerOf == [r \in Request |-> IF r = benRun THEN ben ELSE anna]
MCRoleOf == [r \in Request |-> "student"]
MCClientOf == [r \in Request |-> IF r = benRun THEN benSocket ELSE annaSocket]

OneAtATime == [key \in SettingKey |-> 1]
TwoAtATime == [key \in SettingKey |-> 2]
=============================================================================
