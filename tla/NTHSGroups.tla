----------------------------- MODULE NTHSGroups -----------------------------
(***************************************************************************)
(* Chapters of the honor society (NTHS groups): founding, joining, leaving *)
(* and changing roles, with requests that run at once and a read replica   *)
(* that lags.                                                              *)
(*                                                                         *)
(* Code: src/server/services/NTHSGroupsService.ts, the route of an invite  *)
(* code in router/api-public/index.ts, models/NTHSGroups/nths_groups.sql,  *)
(* and submitVolunteerBackgroundInfo in services/VolunteerService.ts.      *)
(*                                                                         *)
(* Only foundGroup and the background information have a transaction;      *)
(* joining and updating run on the pool, a commit per statement.  A chapter*)
(* is its number: foundGroup makes the name and the key from the count of  *)
(* the chapters, and both are unique.                                      *)
(*                                                                         *)
(* Left out: titles, advisors, school affiliation, chapter statuses.       *)
(***************************************************************************)
EXTENDS Integers, FiniteSets

CONSTANTS
    Users, Nobody,
    Requests,       \* requests that may run at once
    MaxChapters,    \* bound on the chapters founded
    MaxSubmitted,   \* bound on the requests submitted
    MaxFaults       \* bound on the calls that throw

ASSUME NTHSConstants ==
    /\ IsFiniteSet(Users) /\ Nobody \notin Users
    /\ MaxChapters \in Nat \ {0} /\ MaxSubmitted \in Nat /\ MaxFaults \in Nat

Chapters    == 1..MaxChapters
Occupations == {"none", "student", "graduate"}
Roles       == {"none", "member", "admin"}

VARIABLES
    founded,    \* nths_groups
    taken,      \* numbers of later chapters that one of them has in its name
    member,     \* nths_group_members: active, or left (deactivated_at is set)
    role,       \* nths_group_member_roles
    occupation, \* high school student or not, none when not answered
    replica,    \* what getGroupsByUser answers on the read replica
    pc,         \* the next step of every request
    who, where, \* its user and chapter
    seen,       \* the count it has read
    listed,     \* the memberships it has read
    change,     \* UpdateGroupMemberRequest
    submitted, faults,  \* requests submitted, calls that threw
    founder,    \* history: who founded a chapter
    unsure,     \* history: users whose requests overlapped, met the lag or threw
    why         \* history: how a chapter may have lost its last admin

tables  == <<founded, taken, member, role, occupation>>
request == <<pc, who, where, seen, listed, change, submitted>>
history == <<founder, unsure, why>>
vars    == <<tables, replica, request, faults, history>>

Labels == {"idle", "count", "found", "occupations", "insert", "role",
           "change_role", "deactivate", "background"}

\* isActive: true changes nothing, like a missing one.
Changes  == [role : Roles, deactivate : BOOLEAN]
NoChange == [role |-> "none", deactivate |-> FALSE]

Init ==
    /\ founded = {} /\ taken = {}
    /\ member = [u \in Users |-> [c \in Chapters |-> "none"]]
    /\ role = [u \in Users |-> [c \in Chapters |-> "none"]]
    /\ occupation = [u \in Users |-> "none"]
    /\ replica = [u \in Users |-> {}]
    /\ pc = [r \in Requests |-> "idle"]
    /\ who = [r \in Requests |-> Nobody] /\ where = [r \in Requests |-> 0]
    /\ seen = [r \in Requests |-> 0] /\ listed = [r \in Requests |-> {}]
    /\ change = [r \in Requests |-> NoChange]
    /\ submitted = 0 /\ faults = 0
    /\ founder = [c \in Chapters |-> Nobody]
    /\ unsure = {} /\ why = [c \in Chapters |-> "none"]

\* getGroupsByUser joins the roles: a membership without one is not listed.
Listed(u) == {c \in founded : member[u][c] = "active" /\ role[u][c] # "none"}

\* The active admins of getGroupMembers.
Admins(c) == {u \in Users : c \in Listed(u) /\ role[u][c] = "admin"}

\* Two requests of a user, or a read of the replica before it has caught up.
Overlapping(r, u) == \E r2 \in Requests \ {r} : pc[r2] # "idle" /\ who[r2] = u
Note(u, doubt)    == unsure' = unsure \cup IF doubt THEN {u} ELSE {}

Goto(r, label) == pc' = [pc EXCEPT ![r] = label]
Start(r, u, label) ==
    /\ pc[r] = "idle"
    /\ submitted < MaxSubmitted /\ submitted' = submitted + 1
    /\ Goto(r, label) /\ who' = [who EXCEPT ![r] = u]
Finish(r) ==
    /\ Goto(r, "idle") /\ UNCHANGED submitted
    /\ who' = [who EXCEPT ![r] = Nobody] /\ where' = [where EXCEPT ![r] = 0]
    /\ seen' = [seen EXCEPT ![r] = 0] /\ listed' = [listed EXCEPT ![r] = {}]
    /\ change' = [change EXCEPT ![r] = NoChange]

-----------------------------------------------------------------------------
\* foundGroup.

\* Mutant of FoundGroup: a founder may be in a chapter already.
FoundGroupAnyway(r, u) ==
    /\ Cardinality(founded) < MaxChapters
    /\ Start(r, u, "count")
    /\ Note(u, Overlapping(r, u))
    /\ UNCHANGED <<tables, replica, where, seen, listed, change, faults, founder, why>>

\* BEGIN and getGroupsByUser; a member of a chapter is refused.
FoundGroup(r, u) ==
    /\ Cardinality(founded) < MaxChapters
    /\ Listed(u) = {}
    /\ Start(r, u, "count")
    /\ Note(u, Overlapping(r, u))
    /\ UNCHANGED <<tables, replica, where, seen, listed, change, faults, founder, why>>

\* Mutant of GroupsCount: also the chapters that are not committed.
GroupsCountDirty(r) ==
    /\ pc[r] = "count" /\ Goto(r, "found")
    /\ seen' = [seen EXCEPT ![r] = Cardinality(founded) +
                   Cardinality({r2 \in Requests : pc[r2] = "found"})]
    /\ UNCHANGED <<tables, replica, who, where, listed, change, submitted, faults, history>>

GroupsCount(r) ==
    /\ pc[r] = "count" /\ Goto(r, "found")
    /\ seen' = [seen EXCEPT ![r] = Cardinality(founded)]
    /\ UNCHANGED <<tables, replica, who, where, listed, change, submitted, faults, history>>

\* unique_key and unique_name
Taken(n) == n > MaxChapters \/ n \in founded \cup taken

\* createGroup, joinGroupById, upsertNthsGroupMemberRole and COMMIT, seen at
\* once.  A founder whose number another one has taken waits for the COMMIT of that
\* one and fails.
CreateGroup(r) ==
    LET n == seen[r] + 1  u == who[r] IN
    /\ pc[r] = "found"
    /\ \/ /\ ~Taken(n)
          /\ founded' = founded \cup {n}
          /\ member' = [member EXCEPT ![u][n] = "active"]
          /\ role' = [role EXCEPT ![u][n] = "admin"]
          /\ founder' = [founder EXCEPT ![n] = u]
       \/ Taken(n) /\ UNCHANGED <<founded, member, role, founder>>
    /\ Finish(r)
    /\ UNCHANGED <<taken, occupation, replica, faults, unsure, why>>

\* updateGroupName, by an admin, to or from the name of a later chapter.
UpdateGroupName ==
    /\ founded # {}
    /\ \E n \in Chapters \ founded :
          \/ n \notin taken /\ taken' = taken \cup {n}
          \/ n \in taken /\ taken' = taken \ {n}
    /\ Cardinality(taken') <= Cardinality(founded)
    /\ UNCHANGED <<founded, member, role, occupation, replica, request, faults, history>>

-----------------------------------------------------------------------------
\* POST /nths-groups/join and joinGroupAsMemberByGroupId.

\* Whoever the replica lists in a chapter is not let into another one.
Join(r, u, c) ==
    /\ c \in founded /\ replica[u] = {}
    /\ Start(r, u, "occupations")
    /\ where' = [where EXCEPT ![r] = c]
    /\ Note(u, Overlapping(r, u) \/ Listed(u) # {})
    /\ UNCHANGED <<tables, replica, seen, listed, change, faults, founder, why>>

\* Mutant of JoinOccupations: everybody may join.
JoinOccupationsAny(r) ==
    /\ pc[r] = "occupations" /\ Goto(r, "insert")
    /\ UNCHANGED <<who, where, seen, listed, change, submitted>>
    /\ UNCHANGED <<tables, replica, faults, history>>

\* getVolunteerOccupations
JoinOccupations(r) ==
    /\ pc[r] = "occupations"
    /\ \/ /\ occupation[who[r]] # "graduate"
          /\ Goto(r, "insert")
          /\ UNCHANGED <<who, where, seen, listed, change, submitted>>
       \/ occupation[who[r]] = "graduate" /\ Finish(r)
    /\ UNCHANGED <<tables, replica, faults, history>>

\* Mutant of JoinInsert: ON CONFLICT, an old membership is active again.
JoinInsertAgain(r) ==
    /\ pc[r] = "insert"
    /\ member' = [member EXCEPT ![who[r]][where[r]] = "active"]
    /\ Goto(r, "role")
    /\ UNCHANGED <<founded, taken, role, occupation, replica, who, where, seen, listed,
                   change, submitted, faults, history>>

\* joinGroupById: who has ever been a member violates the primary key.
JoinInsert(r) ==
    LET u == who[r]  c == where[r] IN
    /\ pc[r] = "insert"
    /\ \/ /\ member[u][c] = "none"
          /\ member' = [member EXCEPT ![u][c] = "active"]
          /\ Goto(r, "role")
          /\ UNCHANGED <<who, where, seen, listed, change, submitted>>
       \/ member[u][c] # "none" /\ Finish(r) /\ UNCHANGED member
    /\ UNCHANGED <<founded, taken, role, occupation, replica, faults, history>>

\* upsertNthsGroupMemberRole
JoinRole(r) ==
    /\ pc[r] = "role"
    /\ role' = [role EXCEPT ![who[r]][where[r]] = "member"]
    /\ Finish(r)
    /\ UNCHANGED <<founded, taken, member, occupation, replica, faults, history>>

-----------------------------------------------------------------------------
\* updateGroupMember, of an admin for anybody, or of a member who leaves.

\* Mutant of RemovesSoleAdmin: members who have left count as admins.
RemovesSoleAdminAllTime(u, c, ch) ==
    {v \in Users : role[v][c] = "admin"} = {u} /\ ch.role # "admin"

RemovesSoleAdmin(u, c, ch) == Admins(c) = {u} /\ ch.role # "admin"

\* Another request changes the members of the chapter.
Busy(r, c) == \E r2 \in Requests \ {r} : pc[r2] # "idle" /\ where[r2] = c

\* getGroupMembers; CannotRemoveSoleNTHSAdminError ends the request.
UpdateGroupMember(r, u, c, ch) ==
    /\ c \in founded /\ member[u][c] # "none"
    /\ ~RemovesSoleAdmin(u, c, ch) /\ ch # NoChange
    /\ Start(r, u, IF ch.role # "none" THEN "change_role" ELSE "deactivate")
    /\ where' = [where EXCEPT ![r] = c] /\ change' = [change EXCEPT ![r] = ch]
    /\ Note(u, Overlapping(r, u))
    /\ why' = [why EXCEPT ![c] = IF @ # "none" THEN @
                                  ELSE IF Busy(r, c) THEN "race"
                                  ELSE IF Admins(c) = {u} /\ ch.deactivate THEN "both"
                                  ELSE "none"]
    /\ UNCHANGED <<tables, replica, seen, listed, faults, founder>>

\* updateGroupMemberRole
ChangeRole(r) ==
    /\ pc[r] = "change_role"
    /\ role' = [role EXCEPT ![who[r]][where[r]] = change[r].role]
    /\ \/ /\ change[r].deactivate
          /\ Goto(r, "deactivate")
          /\ UNCHANGED <<who, where, seen, listed, change, submitted>>
       \/ ~change[r].deactivate /\ Finish(r)
    /\ UNCHANGED <<founded, taken, member, occupation, replica, faults, history>>

\* deactivateGroupMember
Deactivate(r) ==
    /\ pc[r] = "deactivate"
    /\ member' = [member EXCEPT ![who[r]][where[r]] = "left"]
    /\ Finish(r)
    /\ UNCHANGED <<founded, taken, role, occupation, replica, faults, history>>

-----------------------------------------------------------------------------
\* submitVolunteerBackgroundInfo.

\* getNTHSGroupsByMember, on the replica, before BEGIN
BackgroundRead(r, u) ==
    /\ Start(r, u, "background")
    /\ listed' = [listed EXCEPT ![r] = replica[u]]
    /\ Note(u, Overlapping(r, u) \/ replica[u] # Listed(u))
    /\ UNCHANGED <<tables, replica, where, seen, change, faults, founder, why>>

\* deactivateNonHighSchoolMember, of the chapters that are to be left
Leave(u, chs) ==
    /\ member' = [member EXCEPT ![u] = [c \in Chapters |-> IF c \in chs THEN "left" ELSE @[c]]]
    /\ why' = [c \in Chapters |->
                  IF why[c] = "none" /\ c \in chs /\ role[u][c] = "admin" THEN "background"
                  ELSE why[c]]

\* Mutant of BackgroundCommit: the memberships are left alone.
BackgroundCommitStays(r) ==
    /\ pc[r] = "background"
    /\ \E o \in Occupations \ {"none"} : occupation' = [occupation EXCEPT ![who[r]] = o]
    /\ Finish(r)
    /\ UNCHANGED <<founded, taken, member, role, replica, faults, history>>

\* The occupations, and COMMIT.  Also a student leaves whose grade is not one of
\* high school.  The error of a job that cannot be queued is swallowed, and the
\* chapters that come after it are kept.
BackgroundCommit(r) ==
    LET u == who[r] IN
    /\ pc[r] = "background"
    /\ \E o \in Occupations \ {"none"} :
          /\ occupation' = [occupation EXCEPT ![u] = o]
          /\ \/ Leave(u, listed[r]) /\ UNCHANGED <<unsure, faults>>
             \/ o = "student" /\ UNCHANGED <<member, why, unsure, faults>>
             \/ \E c \in listed[r] :
                   /\ faults < MaxFaults /\ faults' = faults + 1
                   /\ Leave(u, {c}) /\ unsure' = unsure \cup {u}
    /\ Finish(r)
    /\ UNCHANGED <<founded, taken, role, replica, founder>>

-----------------------------------------------------------------------------
\* The replica catches up.
Replicate ==
    /\ replica' = [u \in Users |-> Listed(u)]
    /\ UNCHANGED <<tables, request, faults, history>>

\* A statement throws, and the request with it; a transaction is rolled back.
Throw(r) ==
    /\ pc[r] # "idle"
    /\ faults < MaxFaults /\ faults' = faults + 1
    /\ unsure' = unsure \cup {who[r]}
    /\ Finish(r)
    /\ UNCHANGED <<tables, replica, founder, why>>

Submit(r) ==
    \E u \in Users :
        \/ FoundGroup(r, u) \/ BackgroundRead(r, u)
        \/ \E c \in Chapters :
              \/ Join(r, u, c)
              \/ \E ch \in Changes : UpdateGroupMember(r, u, c, ch)

Serve(r) ==
    \/ GroupsCount(r) \/ CreateGroup(r)
    \/ JoinOccupations(r) \/ JoinInsert(r) \/ JoinRole(r)
    \/ ChangeRole(r) \/ Deactivate(r) \/ BackgroundCommit(r)

Next ==
    \/ \E r \in Requests : Submit(r) \/ Serve(r) \/ Throw(r)
    \/ UpdateGroupName \/ Replicate

Spec == Init /\ [][Next]_vars

-----------------------------------------------------------------------------
\* Properties.

TypeOK ==
    /\ founded \subseteq Chapters /\ taken \subseteq Chapters \ founded
    /\ member \in [Users -> [Chapters -> {"none", "active", "left"}]]
    /\ role \in [Users -> [Chapters -> Roles]]
    /\ occupation \in [Users -> Occupations]
    /\ replica \in [Users -> SUBSET Chapters]
    /\ pc \in [Requests -> Labels] /\ who \in [Requests -> Users \cup {Nobody}]
    /\ where \in [Requests -> 0..MaxChapters] /\ seen \in [Requests -> 0..MaxChapters]
    /\ listed \in [Requests -> SUBSET Chapters] /\ change \in [Requests -> Changes]
    /\ submitted \in 0..MaxSubmitted /\ faults \in 0..MaxFaults
    /\ founder \in [Chapters -> Users \cup {Nobody}]
    /\ unsure \subseteq Users
    /\ why \in [Chapters -> {"none", "race", "both", "background"}]

\* "For now, let's enforce single group membership": nobody is an active member of
\* two chapters, unless two requests about him overlapped, the replica had not yet
\* heard of the first one, or one of them threw half way.
OneChapter ==
    \A u \in Users \ unsure : Cardinality({c \in Chapters : member[u][c] = "active"}) <= 1

\* "NTHS members have to be high schoolers": who says he is not is an active member
\* only of a chapter he founded himself (foundGroup does not ask), with the same
\* exceptions.
GraduatesHaveLeft ==
    \A u \in Users \ unsure, c \in Chapters :
        occupation[u] = "graduate" /\ member[u][c] = "active" => founder[c] = u

HasAdmin(c) == Admins(c) # {}

\* A chapter keeps an active admin, who alone can let others administer it, unless
\* requests about its members overlapped, one of them both made the sole admin an
\* admin and deactivated him, or his background information made him leave.
ChapterHasAdmin == \A c \in founded : HasAdmin(c) \/ why[c] # "none"

\* Whatever founders read at once, the number after the count of the chapters is
\* free, so that the next founder succeeds: unless a chapter was given that name.
FoundingIsPossible ==
    LET next == Cardinality(founded) + 1 IN
    next <= MaxChapters /\ next \notin taken => ~Taken(next)

\* "For now, only DEactivating is possible, not reactivating": also joining again by
\* the invite code does not bring a membership back.
LeftIsLeft ==
    [][\A u \in Users, c \in Chapters : member[u][c] = "left" => member'[u][c] = "left"]_vars
=============================================================================
