------------------------- MODULE NTHSGroups_proofs -------------------------
(***************************************************************************)
(* Proofs about NTHSGroups, for every number of users, requests and        *)
(* chapters, and any number of calls that throw.                           *)
(*                                                                         *)
(* Of a user who is not unsure one request is at work at a time, so what   *)
(* it has read still holds when it writes (Reads).  Of a chapter whose     *)
(* requests have not overlapped (why is none) one request changes members, *)
(* and as long as it does there is an admin it does not take (Keeps).      *)
(***************************************************************************)
EXTENDS NTHSGroups, TLAPS, FiniteSetTheorems

Joining(r)  == pc[r] \in {"occupations", "insert", "role"}
Updating(r) == pc[r] \in {"change_role", "deactivate"}

\* A request has a user, and the chapter that it is about exists.
HasUser ==
    \A r \in Requests :
        /\ pc[r] # "idle" => who[r] \in Users
        /\ Joining(r) \/ Updating(r) => where[r] \in founded
        /\ pc[r] = "role" \/ Updating(r) => member[who[r]][where[r]] # "none"
        /\ pc[r] = "change_role" => change[r].role # "none"

\* Members are those of chapters that exist, and roles those of members.
Rows ==
    \A u \in Users, c \in Chapters :
        /\ c \notin founded => member[u][c] = "none"
        /\ member[u][c] = "none" => role[u][c] = "none"

\* What is read of the memberships of a user are memberships of his, or were.
Known ==
    /\ \A u \in Users : \A c \in replica[u] : c \in founded /\ member[u][c] # "none"
    /\ \A r \in Requests : pc[r] = "background" =>
          \A c \in listed[r] : c \in founded /\ member[who[r]][c] # "none"

Typed == TypeOK /\ HasUser /\ Rows /\ Known

\* The chapters are numbered, and no founder has counted more than there are.
Numbered ==
    /\ founded = 1..Cardinality(founded)
    /\ \A r \in Requests : pc[r] = "found" => seen[r] <= Cardinality(founded)

\* Requests of a user who is not unsure come one after the other.
Alone ==
    \A r, q \in Requests :
        pc[r] # "idle" /\ pc[q] # "idle" /\ who[r] = who[q] /\ who[r] \notin unsure => r = q

Active(u, c) == member[u][c] = "active"

\* A membership has its role, or gets it next.
RoleSoon ==
    \A u \in Users \ unsure, c \in Chapters :
        Active(u, c) => \/ role[u][c] # "none"
                        \/ \E r \in Requests : pc[r] = "role" /\ who[r] = u /\ where[r] = c

\* What a request has read of its user still holds.
Reads ==
    \A r \in Requests : who[r] \notin unsure =>
        /\ pc[r] \in {"count", "found", "occupations", "insert"} =>
              \A c \in Chapters : ~Active(who[r], c)
        /\ pc[r] = "insert" => occupation[who[r]] # "graduate"
        /\ pc[r] = "background" => \A c \in Chapters : Active(who[r], c) => c \in listed[r]

AtMostOne == \A u \in Users \ unsure, c, d \in Chapters : Active(u, c) /\ Active(u, d) => c = d

Sure == Alone /\ RoleSoon /\ Reads /\ AtMostOne /\ GraduatesHaveLeft

\* An admin of the chapter who is not the user of the request.
Another(r, c) == \E v \in Admins(c) : v # who[r]

\* The request leaves the chapter with an admin.
Keeps(r, c) ==
    \/ Another(r, c)
    \/ pc[r] = "change_role" /\ change[r].role = "admin" /\ ~change[r].deactivate

\* Also for the users who are about to get their first role.
Tended(c) ==
    /\ HasAdmin(c)
    /\ \A r \in Requests : Updating(r) /\ where[r] = c => Keeps(r, c)
    /\ \A r, q \in Requests : Updating(r) /\ Updating(q) /\ where[r] = c /\ where[q] = c => r = q
    /\ \A r \in Requests : pc[r] = "role" /\ where[r] = c =>
          /\ role[who[r]][c] # "admin"
          /\ \A q \in Requests : Updating(q) /\ where[q] = c => who[q] # who[r]

Administered == \A c \in founded : why[c] = "none" => Tended(c)

IInv == Typed /\ Numbered /\ Sure /\ Administered

-----------------------------------------------------------------------------
\* What the steps change.

\* The other requests stay as they are.
Others(r) ==
    \A q \in Requests \ {r} :
        /\ pc'[q] = pc[q] /\ who'[q] = who[q] /\ where'[q] = where[q]
        /\ seen'[q] = seen[q] /\ listed'[q] = listed[q] /\ change'[q] = change[q]

RequestTyped ==
    /\ pc \in [Requests -> Labels] /\ who \in [Requests -> Users \cup {Nobody}]
    /\ where \in [Requests -> 0..MaxChapters] /\ seen \in [Requests -> 0..MaxChapters]
    /\ listed \in [Requests -> SUBSET Chapters] /\ change \in [Requests -> Changes]
    /\ submitted \in 0..MaxSubmitted

LEMMA FinishFacts ==
    ASSUME TypeOK, NEW r \in Requests, Finish(r)
    PROVE  RequestTyped' /\ Others(r) /\ pc'[r] = "idle" /\ who'[r] = Nobody
<1>1. NoChange \in Changes /\ 0 \in 0..MaxChapters /\ "idle" \in Labels /\ Nobody \notin Users
  BY NTHSConstants DEF NoChange, Changes, Roles, Labels
<1>2. QED
  BY <1>1 DEF Finish, Goto, Others, RequestTyped, TypeOK

\* A request begins, for a user.
LEMMA StartFacts ==
    ASSUME TypeOK, NEW r \in Requests, NEW u \in Users,
           NEW label \in Labels, Start(r, u, label)
    PROVE  /\ pc' \in [Requests -> Labels] /\ who' \in [Requests -> Users \cup {Nobody}]
           /\ submitted' \in 0..MaxSubmitted
           /\ pc[r] = "idle" /\ pc'[r] = label /\ who'[r] = u
           /\ \A q \in Requests \ {r} : pc'[q] = pc[q] /\ who'[q] = who[q]
BY NTHSConstants DEF Start, Goto, TypeOK

LEMMA FoundGroupFacts ==
    ASSUME TypeOK, NEW r \in Requests, NEW u \in Users, FoundGroup(r, u)
    PROVE  RequestTyped' /\ Others(r) /\ pc[r] = "idle" /\ pc'[r] = "count" /\ who'[r] = u
<1>1. "count" \in Labels
  BY DEF Labels
<1>2. QED
  BY <1>1, StartFacts DEF FoundGroup, Others, RequestTyped, TypeOK

LEMMA JoinFacts ==
    ASSUME TypeOK, NEW r \in Requests, NEW u \in Users, NEW c \in Chapters, Join(r, u, c)
    PROVE  /\ RequestTyped' /\ Others(r) /\ pc[r] = "idle" /\ pc'[r] = "occupations"
           /\ who'[r] = u /\ where'[r] = c
<1>1. "occupations" \in Labels /\ c \in 0..MaxChapters
  BY DEF Labels, Chapters
<1>2. QED
  BY <1>1, StartFacts DEF Join, Others, RequestTyped, TypeOK

LEMMA UpdateFacts ==
    ASSUME TypeOK, NEW r \in Requests, NEW u \in Users, NEW c \in Chapters, NEW ch \in Changes,
           UpdateGroupMember(r, u, c, ch)
    PROVE  /\ RequestTyped' /\ Others(r) /\ pc[r] = "idle" /\ who'[r] = u /\ where'[r] = c
           /\ pc'[r] = IF ch.role # "none" THEN "change_role" ELSE "deactivate"
           /\ change'[r] = ch /\ (ch.role = "none" => ch.deactivate)
<1>1. (IF ch.role # "none" THEN "change_role" ELSE "deactivate") \in Labels /\ c \in 0..MaxChapters
  BY DEF Labels, Chapters
<1>2. ch.role = "none" => ch.deactivate
  BY DEF UpdateGroupMember, NoChange, Changes
<1>3. QED
  BY <1>1, <1>2, StartFacts DEF UpdateGroupMember, Others, RequestTyped, TypeOK

LEMMA BackgroundFacts ==
    ASSUME TypeOK, NEW r \in Requests, NEW u \in Users, BackgroundRead(r, u)
    PROVE  /\ RequestTyped' /\ Others(r) /\ pc[r] = "idle" /\ pc'[r] = "background"
           /\ who'[r] = u /\ listed'[r] = replica[u]
<1>1. "background" \in Labels /\ replica[u] \in SUBSET Chapters
  BY DEF Labels, TypeOK
<1>2. QED
  BY <1>1, StartFacts DEF BackgroundRead, Others, RequestTyped, TypeOK

\* A request goes on to its next call.
LEMMA GotoFacts ==
    ASSUME TypeOK, NEW r \in Requests, NEW label \in Labels, Goto(r, label),
           UNCHANGED <<who, where, seen, listed, change, submitted>>
    PROVE  /\ RequestTyped' /\ Others(r) /\ pc'[r] = label
           /\ who' = who /\ where' = where /\ change' = change
BY DEF Goto, Others, RequestTyped, TypeOK

LEMMA CountFacts ==
    ASSUME TypeOK, NEW r \in Requests, GroupsCount(r)
    PROVE  /\ RequestTyped' /\ Others(r) /\ pc[r] = "count" /\ pc'[r] = "found" /\ who' = who
           /\ seen'[r] = Cardinality(founded) /\ IsFiniteSet(founded)
<1>1. IsFiniteSet(1..MaxChapters) /\ Cardinality(1..MaxChapters) = MaxChapters
  BY NTHSConstants, FS_Interval
<1>2. IsFiniteSet(founded) /\ Cardinality(founded) <= MaxChapters
  <2>1. founded \in SUBSET (1..MaxChapters)
    BY DEF TypeOK, Chapters
  <2>2. QED
    BY <1>1, <2>1, FS_Subset
<1>3. Cardinality(founded) \in 0..MaxChapters /\ "found" \in Labels
  BY <1>2, FS_CardinalityType, NTHSConstants DEF Labels
<1>4. QED
  BY <1>2, <1>3 DEF GroupsCount, Goto, Others, RequestTyped, TypeOK

LEMMA JoinOccupationsFacts ==
    ASSUME TypeOK, NEW r \in Requests, JoinOccupations(r)
    PROVE  /\ RequestTyped' /\ Others(r) /\ pc[r] = "occupations"
           /\ \/ pc'[r] = "idle"
              \/ /\ pc'[r] = "insert" /\ who' = who /\ where' = where
                 /\ occupation[who[r]] # "graduate"
<1>1. "insert" \in Labels
  BY DEF Labels
<1>2. QED
  BY <1>1, GotoFacts, FinishFacts DEF JoinOccupations

\* Of u and c alone the value of a table changes.
Sets(t, u, c, x) ==
    \A v \in Users, d \in Chapters : t'[v][d] = IF v = u /\ d = c THEN x ELSE t[v][d]

LEMMA InsertFacts ==
    ASSUME Typed, NEW r \in Requests, JoinInsert(r)
    PROVE  /\ RequestTyped' /\ Others(r) /\ pc[r] = "insert" /\ role' = role
           /\ member' \in [Users -> [Chapters -> {"none", "active", "left"}]]
           /\ who[r] \in Users /\ where[r] \in founded /\ where[r] \in Chapters
           /\ \/ pc'[r] = "idle" /\ member' = member
              \/ /\ pc'[r] = "role" /\ who' = who /\ where' = where
                 /\ member[who[r]][where[r]] = "none"
                 /\ Sets(member, who[r], where[r], "active")
<1>1. who[r] \in Users /\ where[r] \in founded /\ where[r] \in Chapters /\ "role" \in Labels
  BY DEF JoinInsert, Typed, HasUser, Joining, TypeOK, Labels
<1>2. CASE member[who[r]][where[r]] = "none" /\ Goto(r, "role")
           /\ member' = [member EXCEPT ![who[r]][where[r]] = "active"]
           /\ UNCHANGED <<who, where, seen, listed, change, submitted>>
  <2>1. Sets(member, who[r], where[r], "active")
    BY <1>1, <1>2 DEF Sets, Typed, TypeOK
  <2>2. member' \in [Users -> [Chapters -> {"none", "active", "left"}]]
    BY <1>1, <1>2 DEF Typed, TypeOK
  <2>3. QED
    BY <1>1, <1>2, <2>1, <2>2, GotoFacts DEF JoinInsert, Typed
<1>3. CASE Finish(r) /\ UNCHANGED member
  BY <1>1, <1>3, FinishFacts DEF JoinInsert, Typed, TypeOK
<1>4. QED
  BY <1>2, <1>3 DEF JoinInsert

LEMMA RoleFacts ==
    ASSUME Typed, NEW r \in Requests, JoinRole(r)
    PROVE  /\ RequestTyped' /\ Others(r) /\ pc[r] = "role" /\ pc'[r] = "idle"
           /\ who[r] \in Users /\ where[r] \in founded /\ where[r] \in Chapters
           /\ role' \in [Users -> [Chapters -> Roles]]
           /\ Sets(role, who[r], where[r], "member")
<1>1. who[r] \in Users /\ where[r] \in founded /\ where[r] \in Chapters /\ "member" \in Roles
  BY DEF JoinRole, Typed, HasUser, Joining, TypeOK, Roles
<1>2. Sets(role, who[r], where[r], "member")
  BY <1>1 DEF JoinRole, Sets, Typed, TypeOK
<1>3. role' \in [Users -> [Chapters -> Roles]]
  BY <1>1 DEF JoinRole, Typed, TypeOK
<1>4. QED
  BY <1>1, <1>2, <1>3, FinishFacts DEF JoinRole, Typed

LEMMA ChangeRoleFacts ==
    ASSUME Typed, NEW r \in Requests, ChangeRole(r)
    PROVE  /\ RequestTyped' /\ Others(r) /\ pc[r] = "change_role"
           /\ who[r] \in Users /\ where[r] \in founded /\ where[r] \in Chapters
           /\ role' \in [Users -> [Chapters -> Roles]] /\ change[r].role # "none"
           /\ Sets(role, who[r], where[r], change[r].role)
           /\ \/ /\ change[r].deactivate
                 /\ pc'[r] = "deactivate" /\ who' = who /\ where' = where /\ change' = change
              \/ ~change[r].deactivate /\ pc'[r] = "idle"
<1>1. /\ who[r] \in Users /\ where[r] \in founded /\ where[r] \in Chapters
      /\ change[r].role \in Roles /\ change[r].role # "none" /\ "deactivate" \in Labels
  BY DEF ChangeRole, Typed, HasUser, Updating, TypeOK, Changes, Labels
<1>2. Sets(role, who[r], where[r], change[r].role)
  BY <1>1 DEF ChangeRole, Sets, Typed, TypeOK
<1>3. role' \in [Users -> [Chapters -> Roles]]
  BY <1>1 DEF ChangeRole, Typed, TypeOK
<1>4. QED
  BY <1>1, <1>2, <1>3, FinishFacts, GotoFacts DEF ChangeRole, Typed

LEMMA DeactivateFacts ==
    ASSUME Typed, NEW r \in Requests, Deactivate(r)
    PROVE  /\ RequestTyped' /\ Others(r) /\ pc[r] = "deactivate" /\ pc'[r] = "idle"
           /\ who[r] \in Users /\ where[r] \in founded /\ where[r] \in Chapters
           /\ member' \in [Users -> [Chapters -> {"none", "active", "left"}]]
           /\ Sets(member, who[r], where[r], "left")
<1>1. who[r] \in Users /\ where[r] \in founded /\ where[r] \in Chapters
  BY DEF Deactivate, Typed, HasUser, Updating, TypeOK
<1>2. Sets(member, who[r], where[r], "left")
  BY <1>1 DEF Deactivate, Sets, Typed, TypeOK
<1>3. member' \in [Users -> [Chapters -> {"none", "active", "left"}]]
  BY <1>1 DEF Deactivate, Typed, TypeOK
<1>4. QED
  BY <1>1, <1>2, <1>3, FinishFacts DEF Deactivate, Typed

LEMMA LeaveFacts ==
    ASSUME TypeOK, NEW u \in Users, NEW chs \in SUBSET Chapters, Leave(u, chs)
    PROVE  /\ member' \in [Users -> [Chapters -> {"none", "active", "left"}]]
           /\ why' \in [Chapters -> {"none", "race", "both", "background"}]
           /\ \A v \in Users, c \in Chapters :
                 member'[v][c] = IF v = u /\ c \in chs THEN "left" ELSE member[v][c]
           /\ \A c \in Chapters : why'[c] = "none" =>
                 why[c] = "none" /\ (c \in chs => role[u][c] # "admin")
<1>1. /\ member' \in [Users -> [Chapters -> {"none", "active", "left"}]]
      /\ \A v \in Users, c \in Chapters :
            member'[v][c] = IF v = u /\ c \in chs THEN "left" ELSE member[v][c]
  BY DEF Leave, TypeOK
<1>2. /\ why' \in [Chapters -> {"none", "race", "both", "background"}]
      /\ \A c \in Chapters : why'[c] = "none" =>
            why[c] = "none" /\ (c \in chs => role[u][c] # "admin")
  BY DEF Leave, TypeOK
<1>3. QED
  BY <1>1, <1>2

LEMMA CommitFacts ==
    ASSUME Typed, NEW r \in Requests, BackgroundCommit(r)
    PROVE  /\ RequestTyped' /\ Others(r) /\ pc[r] = "background" /\ pc'[r] = "idle"
           /\ who[r] \in Users /\ faults' \in 0..MaxFaults
           /\ unsure \subseteq unsure' /\ unsure' \subseteq Users
           /\ member' \in [Users -> [Chapters -> {"none", "active", "left"}]]
           /\ why' \in [Chapters -> {"none", "race", "both", "background"}]
           /\ occupation' \in [Users -> Occupations]
           /\ \A v \in Users \ {who[r]} : occupation'[v] = occupation[v] /\ member'[v] = member[v]
           /\ \A c \in Chapters : why'[c] = "none" => why[c] = "none"
           /\ \A c \in Chapters :
                 \/ member'[who[r]][c] = member[who[r]][c]
                 \/ /\ member'[who[r]][c] = "left" /\ c \in listed[r]
                    /\ why'[c] = "none" => role[who[r]][c] # "admin"
           /\ \/ \A c \in listed[r] : member'[who[r]][c] = "left"
              \/ occupation'[who[r]] # "graduate"
              \/ who[r] \in unsure'
<1> DEFINE u == who[r]
<1>1. u \in Users /\ listed[r] \in SUBSET Chapters /\ pc[r] = "background"
  BY DEF BackgroundCommit, Typed, HasUser, TypeOK
<1>2. RequestTyped' /\ Others(r) /\ pc'[r] = "idle"
  BY FinishFacts DEF BackgroundCommit, Typed
<1>3. PICK o \in Occupations \ {"none"} :
        /\ occupation' = [occupation EXCEPT ![u] = o]
        /\ \/ Leave(u, listed[r]) /\ UNCHANGED <<unsure, faults>>
           \/ o = "student" /\ UNCHANGED <<member, why, unsure, faults>>
           \/ \E c \in listed[r] :
                 /\ faults < MaxFaults /\ faults' = faults + 1
                 /\ Leave(u, {c}) /\ unsure' = unsure \cup {u}
  BY DEF BackgroundCommit
<1>4. /\ occupation' \in [Users -> Occupations] /\ occupation'[u] = o
      /\ \A v \in Users \ {u} : occupation'[v] = occupation[v]
  BY <1>1, <1>3 DEF Typed, TypeOK
<1>5. CASE Leave(u, listed[r]) /\ UNCHANGED <<unsure, faults>>
  <2>1. \A v \in Users \ {u} : member'[v] = member[v]
    BY <1>5, <1>1 DEF Leave, Typed, TypeOK
  <2>2. QED
    BY <1>1, <1>2, <1>4, <1>5, <2>1, LeaveFacts DEF Typed, TypeOK
<1>6. CASE o = "student" /\ UNCHANGED <<member, why, unsure, faults>>
  BY <1>1, <1>2, <1>4, <1>6 DEF Typed, TypeOK
<1>7. CASE \E c \in listed[r] :
              /\ faults < MaxFaults /\ faults' = faults + 1
              /\ Leave(u, {c}) /\ unsure' = unsure \cup {u}
  <2>1. PICK c \in listed[r] : /\ faults < MaxFaults /\ faults' = faults + 1
                               /\ Leave(u, {c}) /\ unsure' = unsure \cup {u}
    BY <1>7
  <2>2. {c} \in SUBSET Chapters
    BY <1>1
  <2>3. \A v \in Users \ {u} : member'[v] = member[v]
    BY <1>1, <2>1 DEF Leave, Typed, TypeOK
  <2>4. faults' \in 0..MaxFaults /\ unsure \subseteq unsure' /\ unsure' \subseteq Users /\ u \in unsure'
    BY <1>1, <2>1, NTHSConstants DEF Typed, TypeOK
  <2>5. QED
    BY <1>1, <1>2, <1>4, <2>1, <2>2, <2>3, <2>4, LeaveFacts DEF Typed
<1>8. QED
  BY <1>3, <1>5, <1>6, <1>7

LEMMA CreateFacts ==
    ASSUME Typed, NEW r \in Requests, CreateGroup(r)
    PROVE  /\ RequestTyped' /\ Others(r) /\ pc[r] = "found" /\ pc'[r] = "idle"
           /\ who[r] \in Users /\ taken' = taken
           /\ \/ UNCHANGED <<founded, member, role, founder>>
              \/ /\ seen[r] + 1 \in Chapters /\ seen[r] + 1 \notin founded
                 /\ seen[r] + 1 \notin taken
                 /\ founded' = founded \cup {seen[r] + 1}
                 /\ member' \in [Users -> [Chapters -> {"none", "active", "left"}]]
                 /\ role' \in [Users -> [Chapters -> Roles]]
                 /\ founder' \in [Chapters -> Users \cup {Nobody}]
                 /\ Sets(member, who[r], seen[r] + 1, "active")
                 /\ Sets(role, who[r], seen[r] + 1, "admin")
                 /\ founder'[seen[r] + 1] = who[r]
                 /\ \A c \in Chapters \ {seen[r] + 1} : founder'[c] = founder[c]
<1> DEFINE n == seen[r] + 1  u == who[r]
<1>1. u \in Users /\ pc[r] = "found" /\ taken' = taken /\ seen[r] \in 0..MaxChapters
  BY DEF CreateGroup, Typed, HasUser, TypeOK
<1>2. RequestTyped' /\ Others(r) /\ pc'[r] = "idle"
  BY FinishFacts DEF CreateGroup, Typed
<1>3. CASE Taken(n)
  BY <1>1, <1>2, <1>3 DEF CreateGroup
<1>4. CASE ~Taken(n)
  <2>1. n \in Chapters /\ n \notin founded /\ n \notin taken
    BY <1>1, <1>4, NTHSConstants DEF Taken, Chapters
  <2>2. /\ founded' = founded \cup {n}
        /\ member' = [member EXCEPT ![u][n] = "active"]
        /\ role' = [role EXCEPT ![u][n] = "admin"]
        /\ founder' = [founder EXCEPT ![n] = u]
    BY <1>4 DEF CreateGroup
  <2> HIDE DEF n, u
  <2>3. /\ member' \in [Users -> [Chapters -> {"none", "active", "left"}]]
        /\ Sets(member, u, n, "active")
    BY <1>1, <2>1, <2>2 DEF Sets, Typed, TypeOK
  <2>4. role' \in [Users -> [Chapters -> Roles]] /\ Sets(role, u, n, "admin")
    BY <1>1, <2>1, <2>2 DEF Sets, Typed, TypeOK, Roles
  <2>5. /\ founder' \in [Chapters -> Users \cup {Nobody}] /\ founder'[n] = u
        /\ \A c \in Chapters \ {n} : founder'[c] = founder[c]
    BY <1>1, <2>1, <2>2 DEF Typed, TypeOK
  <2>6. QED
    BY <1>1, <1>2, <2>1, <2>2, <2>3, <2>4, <2>5 DEF n, u
<1>5. QED
  BY <1>3, <1>4

-----------------------------------------------------------------------------
\* Typing.

LEMMA NoteTyped ==
    ASSUME TypeOK, NEW u \in Users, NEW doubt \in BOOLEAN, Note(u, doubt)
    PROVE  unsure \subseteq unsure' /\ unsure' \subseteq Users
BY DEF Note, TypeOK

LEMMA KnownKept ==
    ASSUME TypeOK, HasUser, Known, NEW r \in Requests, Others(r),
           founded \subseteq founded', replica' = replica,
           \A v \in Users, d \in Chapters : member[v][d] # "none" => member'[v][d] # "none",
           pc'[r] = "background" => who'[r] \in Users /\ listed'[r] = replica[who'[r]]
    PROVE  Known'
<1>1. ASSUME NEW u \in Users, NEW c \in replica[u]
      PROVE  c \in founded' /\ member'[u][c] # "none"
  BY DEF Known, TypeOK
<1>2. ASSUME NEW q \in Requests \ {r}, pc[q] = "background", NEW c \in listed[q]
      PROVE  c \in founded' /\ member'[who[q]][c] # "none"
  BY <1>2 DEF Known, HasUser, TypeOK
<1>3. ASSUME NEW q \in Requests, pc'[q] = "background", NEW c \in listed'[q]
      PROVE  c \in founded' /\ member'[who'[q]][c] # "none"
  BY <1>1, <1>2, <1>3 DEF Others
<1>4. QED
  BY <1>1, <1>3 DEF Known

LEMMA SubmitTyped ==
    ASSUME Typed, NEW r \in Requests, Submit(r)
    PROVE  Typed'
<1> USE DEF Typed
<1>1. ASSUME NEW u \in Users, FoundGroup(r, u) PROVE Typed'
  <2>1. /\ UNCHANGED <<tables, replica, faults, founder, why>>
        /\ unsure' \subseteq Users
    BY <1>1, NoteTyped DEF FoundGroup, Overlapping, Note, TypeOK
  <2>2. TypeOK'
    BY <1>1, <2>1, FoundGroupFacts DEF TypeOK, RequestTyped, tables
  <2>3. HasUser' /\ Rows'
    BY <1>1, <2>1, FoundGroupFacts DEF HasUser, Rows, Others, Joining, Updating, tables
  <2>4. Known'
    BY <1>1, <2>1, FoundGroupFacts, KnownKept DEF tables
  <2>5. QED
    BY <2>2, <2>3, <2>4
<1>2. ASSUME NEW u \in Users, BackgroundRead(r, u) PROVE Typed'
  <2>1. /\ UNCHANGED <<tables, replica, faults, founder, why>>
        /\ unsure' \subseteq Users
    BY <1>2 DEF BackgroundRead, Note, TypeOK
  <2>2. TypeOK'
    BY <1>2, <2>1, BackgroundFacts DEF TypeOK, RequestTyped, tables
  <2>3. HasUser' /\ Rows'
    BY <1>2, <2>1, BackgroundFacts DEF HasUser, Rows, Others, Joining, Updating, tables
  <2>4. Known'
    BY <1>2, <2>1, BackgroundFacts, KnownKept DEF tables
  <2>5. QED
    BY <2>2, <2>3, <2>4
<1>3. ASSUME NEW u \in Users, NEW c \in Chapters, Join(r, u, c) PROVE Typed'
  <2>1. /\ UNCHANGED <<tables, replica, faults, founder, why>>
        /\ unsure' \subseteq Users /\ c \in founded
    BY <1>3 DEF Join, Note, TypeOK
  <2>2. TypeOK'
    BY <1>3, <2>1, JoinFacts DEF TypeOK, RequestTyped, tables
  <2>3. HasUser' /\ Rows'
    BY <1>3, <2>1, JoinFacts DEF HasUser, Rows, Others, Joining, Updating, tables
  <2>4. Known'
    BY <1>3, <2>1, JoinFacts, KnownKept DEF tables
  <2>5. QED
    BY <2>2, <2>3, <2>4
<1>4. ASSUME NEW u \in Users, NEW c \in Chapters, NEW ch \in Changes,
             UpdateGroupMember(r, u, c, ch)
      PROVE  Typed'
  <2>1. /\ UNCHANGED <<tables, replica, faults, founder>>
        /\ unsure' \subseteq Users /\ c \in founded /\ member[u][c] # "none"
    BY <1>4 DEF UpdateGroupMember, Note, TypeOK
  <2>2. why' \in [Chapters -> {"none", "race", "both", "background"}]
    BY <1>4 DEF UpdateGroupMember, TypeOK
  <2>3. TypeOK'
    BY <1>4, <2>1, <2>2, UpdateFacts DEF TypeOK, RequestTyped, tables
  <2>4. HasUser' /\ Rows'
    BY <1>4, <2>1, UpdateFacts DEF HasUser, Rows, Others, Joining, Updating, tables
  <2>5. Known'
    BY <1>4, <2>1, UpdateFacts, KnownKept DEF tables
  <2>6. QED
    BY <2>3, <2>4, <2>5
<1>5. QED
  BY <1>1, <1>2, <1>3, <1>4 DEF Submit

\* A request that is over, or at a call of no chapter, needs nothing.
LEMMA EndedHasUser ==
    ASSUME HasUser, NEW r \in Requests, Others(r), founded \subseteq founded',
           pc'[r] = "idle" \/ (pc'[r] = "found" /\ pc[r] # "idle" /\ who' = who),
           \A q \in Requests \ {r} :
              /\ pc[q] = "role" \/ Updating(q)
              /\ member[who[q]][where[q]] # "none"
              => member'[who[q]][where[q]] # "none"
    PROVE  HasUser'
BY DEF HasUser, Others, Joining, Updating

LEMMA ServeTyped ==
    ASSUME Typed, NEW r \in Requests, Serve(r) \/ Throw(r)
    PROVE  Typed'
<1> USE DEF Typed
<1>0. \A q \in Requests : (pc[q] = "role" \/ Updating(q)) =>
         who[q] \in Users /\ where[q] \in founded /\ where[q] \in Chapters
  BY DEF HasUser, Joining, Updating, TypeOK
<1>1. CASE GroupsCount(r)
  <2>1. UNCHANGED <<tables, replica, faults, history>>
    BY <1>1 DEF GroupsCount
  <2>2. TypeOK'
    BY <1>1, <2>1, CountFacts DEF TypeOK, RequestTyped, tables, history
  <2>3. HasUser' /\ Rows'
    BY <1>1, <2>1, CountFacts, EndedHasUser DEF Rows, tables
  <2>4. Known'
    BY <1>1, <2>1, CountFacts, KnownKept DEF tables
  <2>5. QED
    BY <2>2, <2>3, <2>4
<1>2. CASE CreateGroup(r)
  <2>1. UNCHANGED <<taken, occupation, replica, faults, unsure, why>>
    BY <1>2 DEF CreateGroup
  <2>2. TypeOK'
    BY <1>2, <2>1, CreateFacts DEF TypeOK, RequestTyped
  <2>3. \A v \in Users, d \in Chapters : member[v][d] # "none" => member'[v][d] # "none"
    BY <1>2, CreateFacts DEF Sets
  <2>4. founded \subseteq founded'
    BY <1>2, CreateFacts
  <2>5. HasUser'
    BY <1>0, <1>2, <2>3, <2>4, CreateFacts, EndedHasUser
  <2>6. Rows'
    BY <1>2, CreateFacts DEF Rows, Sets
  <2>7. Known'
    BY <1>2, <2>1, <2>3, <2>4, CreateFacts, KnownKept
  <2>8. QED
    BY <2>2, <2>5, <2>6, <2>7
<1>3. CASE JoinOccupations(r)
  <2>1. UNCHANGED <<tables, replica, faults, history>>
    BY <1>3 DEF JoinOccupations
  <2>2. TypeOK'
    BY <1>3, <2>1, JoinOccupationsFacts DEF TypeOK, RequestTyped, tables, history
  <2>3. HasUser' /\ Rows'
    BY <1>3, <2>1, JoinOccupationsFacts DEF HasUser, Rows, tables, Others, Joining, Updating
  <2>4. Known'
    BY <1>3, <2>1, JoinOccupationsFacts, KnownKept DEF tables
  <2>5. QED
    BY <2>2, <2>3, <2>4
<1>4. CASE JoinInsert(r)
  <2>1. UNCHANGED <<founded, taken, role, occupation, replica, faults, history>>
    BY <1>4 DEF JoinInsert
  <2>2. TypeOK'
    BY <1>4, <2>1, InsertFacts DEF TypeOK, RequestTyped, history
  <2>3. \A v \in Users, d \in Chapters : member[v][d] # "none" => member'[v][d] # "none"
    BY <1>4, InsertFacts DEF Sets
  <2>4. pc'[r] = "role" => member'[who[r]][where[r]] # "none"
    BY <1>4, InsertFacts DEF Sets
  <2>5. HasUser'
    BY <1>0, <1>4, <2>1, <2>3, <2>4, InsertFacts DEF HasUser, Others, Joining, Updating
  <2>6. Rows'
    BY <1>4, <2>1, InsertFacts DEF Rows, Sets
  <2>7. Known'
    BY <1>4, <2>1, <2>3, InsertFacts, KnownKept
  <2>8. QED
    BY <2>2, <2>5, <2>6, <2>7
<1>5. CASE JoinRole(r)
  <2>1. UNCHANGED <<founded, taken, member, occupation, replica, faults, history>>
    BY <1>5 DEF JoinRole
  <2>2. TypeOK'
    BY <1>5, <2>1, RoleFacts DEF TypeOK, RequestTyped, history
  <2>3. HasUser'
    BY <1>5, <2>1, RoleFacts, EndedHasUser
  <2>4. member[who[r]][where[r]] # "none"
    BY <1>5, RoleFacts DEF HasUser
  <2>5. Rows'
    BY <1>5, <2>1, <2>4, RoleFacts DEF Rows, Sets
  <2>6. Known'
    BY <1>5, <2>1, RoleFacts, KnownKept
  <2>7. QED
    BY <2>2, <2>3, <2>5, <2>6
<1>6. CASE ChangeRole(r)
  <2>1. UNCHANGED <<founded, taken, member, occupation, replica, faults, history>>
    BY <1>6 DEF ChangeRole
  <2>2. TypeOK'
    BY <1>6, <2>1, ChangeRoleFacts DEF TypeOK, RequestTyped, history
  <2>3. member[who[r]][where[r]] # "none"
    BY <1>6, ChangeRoleFacts DEF HasUser, Updating
  <2>4. HasUser'
    BY <1>6, <2>1, <2>3, ChangeRoleFacts DEF HasUser, Others, Joining, Updating
  <2>5. Rows'
    BY <1>6, <2>1, <2>3, ChangeRoleFacts DEF Rows, Sets
  <2>6. Known'
    BY <1>6, <2>1, ChangeRoleFacts, KnownKept
  <2>7. QED
    BY <2>2, <2>4, <2>5, <2>6
<1>7. CASE Deactivate(r)
  <2>1. UNCHANGED <<founded, taken, role, occupation, replica, faults, history>>
    BY <1>7 DEF Deactivate
  <2>2. TypeOK'
    BY <1>7, <2>1, DeactivateFacts DEF TypeOK, RequestTyped, history
  <2>3. \A v \in Users, d \in Chapters : member[v][d] # "none" => member'[v][d] # "none"
    BY <1>7, DeactivateFacts DEF Sets
  <2>4. HasUser'
    BY <1>0, <1>7, <2>1, <2>3, DeactivateFacts, EndedHasUser
  <2>5. member[who[r]][where[r]] # "none"
    BY <1>7, DeactivateFacts DEF HasUser, Updating
  <2>6. Rows'
    BY <1>7, <2>1, <2>5, DeactivateFacts DEF Rows, Sets
  <2>7. Known'
    BY <1>7, <2>1, <2>3, DeactivateFacts, KnownKept
  <2>8. QED
    BY <2>2, <2>4, <2>6, <2>7
<1>8. CASE BackgroundCommit(r)
  <2>1. UNCHANGED <<founded, taken, role, replica, founder>>
    BY <1>8 DEF BackgroundCommit
  <2>2. TypeOK'
    BY <1>8, <2>1, CommitFacts DEF TypeOK, RequestTyped
  <2>3. listed[r] \subseteq Chapters
    BY DEF TypeOK
  <2>4. \A v \in Users, d \in Chapters : member[v][d] # "none" => member'[v][d] # "none"
    BY <1>8, CommitFacts
  <2>5. HasUser'
    BY <1>0, <1>8, <2>1, <2>4, CommitFacts, EndedHasUser
  <2>6. \A c \in Chapters : c \notin founded \/ member[who[r]][c] = "none" =>
           member'[who[r]][c] = member[who[r]][c]
    BY <1>8, CommitFacts DEF Known, Rows
  <2>7. Rows'
    BY <1>8, <2>1, <2>6, CommitFacts DEF Rows
  <2>8. Known'
    BY <1>8, <2>1, <2>4, CommitFacts, KnownKept
  <2>9. QED
    BY <2>2, <2>5, <2>7, <2>8
<1>9. CASE Throw(r)
  <2>1. /\ UNCHANGED <<tables, replica, founder, why>>
        /\ unsure' \subseteq Users /\ faults' \in 0..MaxFaults
    BY <1>9, NTHSConstants DEF Throw, TypeOK, HasUser
  <2>2. RequestTyped' /\ Others(r) /\ pc'[r] = "idle"
    BY <1>9, FinishFacts DEF Throw
  <2>3. TypeOK'
    BY <2>1, <2>2 DEF TypeOK, RequestTyped, tables
  <2>4. HasUser' /\ Rows'
    BY <2>1, <2>2, EndedHasUser DEF Rows, tables
  <2>5. Known'
    BY <2>1, <2>2, KnownKept DEF tables
  <2>6. QED
    BY <2>3, <2>4, <2>5
<1>10. QED
  BY <1>1, <1>2, <1>3, <1>4, <1>5, <1>6, <1>7, <1>8, <1>9 DEF Serve

LEMMA RestTyped ==
    ASSUME Typed, UpdateGroupName \/ Replicate \/ UNCHANGED vars
    PROVE  Typed'
<1> USE DEF Typed
<1>1. CASE UpdateGroupName
  BY <1>1 DEF UpdateGroupName, TypeOK, HasUser, Rows, Known, Joining, Updating, request, history
<1>2. CASE Replicate
  BY <1>2 DEF Replicate, Listed, TypeOK, HasUser, Rows, Known, Joining, Updating, tables, request,
     history
<1>3. CASE UNCHANGED vars
  BY <1>3 DEF vars, TypeOK, HasUser, Rows, Known, Joining, Updating, tables, request, history
<1>4. QED
  BY <1>1, <1>2, <1>3

LEMMA NextTyped ==
    ASSUME Typed, [Next]_vars
    PROVE  Typed'
BY SubmitTyped, ServeTyped, RestTyped DEF Next

LEMMA InitTyped == Init => Typed
<1> SUFFICES ASSUME Init PROVE Typed
  OBVIOUS
<1>1. TypeOK
  BY NTHSConstants DEF Init, TypeOK, Labels, Roles, Occupations, Changes, NoChange
<1>2. QED
  BY <1>1 DEF Init, Typed, HasUser, Rows, Known, Joining, Updating

-----------------------------------------------------------------------------
\* The numbers of the chapters.

LEMMA CountGrows ==
    ASSUME founded = 1..Cardinality(founded), Cardinality(founded) \in Nat,
           founded' = founded \cup {Cardinality(founded) + 1}
    PROVE  founded' = 1..Cardinality(founded') /\ Cardinality(founded') = Cardinality(founded) + 1
<1> DEFINE k == Cardinality(founded)
<1>1. k \in Nat /\ founded = 1..k /\ founded' = founded \cup {k + 1}
  OBVIOUS
<1> HIDE DEF k
<1>2. founded' = 1..(k + 1)
  BY <1>1
<1>3. Cardinality(1..(k + 1)) = k + 1
  BY <1>1, FS_Interval
<1>4. Cardinality(founded') = k + 1
  BY <1>2, <1>3
<1>5. QED
  BY <1>2, <1>4 DEF k

LEMMA Counted ==
    ASSUME TypeOK
    PROVE  IsFiniteSet(founded) /\ Cardinality(founded) \in Nat
<1>1. IsFiniteSet(1..MaxChapters) /\ founded \in SUBSET (1..MaxChapters)
  BY NTHSConstants, FS_Interval DEF TypeOK, Chapters
<1>2. IsFiniteSet(founded)
  BY <1>1, FS_Subset
<1>3. QED
  BY <1>2, FS_CardinalityType

LEMMA NumberedStep ==
    ASSUME Typed, Numbered, [Next]_vars
    PROVE  Numbered'
<1>1. Cardinality(founded) \in Nat
  BY Counted DEF Typed
<1>2. ASSUME NEW r \in Requests, Others(r), founded' = founded,
             pc'[r] = "found" => seen'[r] <= Cardinality(founded)
      PROVE  Numbered'
  BY <1>2 DEF Numbered, Others
<1>3. ASSUME NEW r \in Requests, Submit(r) PROVE Numbered'
  <2>1. ASSUME NEW u \in Users, FoundGroup(r, u) PROVE Numbered'
    BY <1>2, <2>1, FoundGroupFacts DEF FoundGroup, Typed, tables
  <2>2. ASSUME NEW u \in Users, BackgroundRead(r, u) PROVE Numbered'
    BY <1>2, <2>2, BackgroundFacts DEF BackgroundRead, Typed, tables
  <2>3. ASSUME NEW u \in Users, NEW c \in Chapters, Join(r, u, c) PROVE Numbered'
    BY <1>2, <2>3, JoinFacts DEF Join, Typed, tables
  <2>4. ASSUME NEW u \in Users, NEW c \in Chapters, NEW ch \in Changes,
               UpdateGroupMember(r, u, c, ch)
        PROVE  Numbered'
    BY <1>2, <2>4, UpdateFacts DEF UpdateGroupMember, Typed, tables
  <2>5. QED
    BY <1>3, <2>1, <2>2, <2>3, <2>4 DEF Submit
<1>4. ASSUME NEW r \in Requests, CreateGroup(r) PROVE Numbered'
  <2>1. CASE founded' = founded
    BY <1>2, <1>4, <2>1, CreateFacts
  <2>2. CASE /\ seen[r] + 1 \in Chapters /\ seen[r] + 1 \notin founded
             /\ founded' = founded \cup {seen[r] + 1}
    <3>1. seen[r] \in Nat /\ seen[r] <= Cardinality(founded) /\ founded = 1..Cardinality(founded)
      BY <1>4, CreateFacts DEF Numbered, Typed, TypeOK
    <3>2. seen[r] = Cardinality(founded)
      BY <1>1, <2>2, <3>1
    <3>3. founded' = 1..Cardinality(founded') /\ Cardinality(founded') = Cardinality(founded) + 1
      BY <1>1, <2>2, <3>1, <3>2, CountGrows
    <3>4. ASSUME NEW q \in Requests, pc'[q] = "found" PROVE seen'[q] <= Cardinality(founded')
      <4>1. q # r /\ pc[q] = "found" /\ seen'[q] = seen[q]
        BY <1>4, <3>4, CreateFacts DEF Others
      <4>2. seen[q] <= Cardinality(founded) /\ seen[q] \in Nat
        BY <4>1 DEF Numbered, Typed, TypeOK
      <4>3. QED
        BY <1>1, <3>3, <4>1, <4>2
    <3>5. QED
      BY <3>3, <3>4 DEF Numbered
  <2>3. QED
    BY <1>4, <2>1, <2>2, CreateFacts
<1>5. ASSUME NEW r \in Requests, Serve(r) \/ Throw(r), ~CreateGroup(r) PROVE Numbered'
  <2>1. CASE GroupsCount(r)
    <3>1. Others(r) /\ founded' = founded /\ seen'[r] = Cardinality(founded)
      BY <2>1, CountFacts DEF GroupsCount, Typed, tables
    <3>2. seen'[r] <= Cardinality(founded)
      BY <1>1, <3>1
    <3>3. QED
      BY <1>2, <3>1, <3>2
  <2>2. CASE JoinOccupations(r)
    BY <1>2, <2>2, JoinOccupationsFacts DEF JoinOccupations, Typed, tables
  <2>3. CASE JoinInsert(r)
    BY <1>2, <2>3, InsertFacts DEF JoinInsert
  <2>4. CASE JoinRole(r)
    BY <1>2, <2>4, RoleFacts DEF JoinRole
  <2>5. CASE ChangeRole(r)
    BY <1>2, <2>5, ChangeRoleFacts DEF ChangeRole
  <2>6. CASE Deactivate(r)
    BY <1>2, <2>6, DeactivateFacts DEF Deactivate
  <2>7. CASE BackgroundCommit(r)
    BY <1>2, <2>7, CommitFacts DEF BackgroundCommit
  <2>8. CASE Throw(r)
    BY <1>2, <2>8, FinishFacts DEF Throw, Typed, tables
  <2>9. QED
    BY <1>5, <2>1, <2>2, <2>3, <2>4, <2>5, <2>6, <2>7, <2>8 DEF Serve
<1>6. CASE UpdateGroupName \/ Replicate \/ UNCHANGED vars
  BY <1>6 DEF UpdateGroupName, Replicate, Numbered, vars, tables, request
<1>7. QED
  BY <1>3, <1>4, <1>5, <1>6 DEF Next

-----------------------------------------------------------------------------
\* Users who are not unsure.

LEMMA AloneKept ==
    ASSUME Alone, NEW r \in Requests, Others(r), unsure \subseteq unsure',
           pc'[r] # "idle" =>
              \/ pc[r] # "idle" /\ who'[r] = who[r]
              \/ \A q \in Requests \ {r} : pc[q] # "idle" /\ who[q] = who'[r] => who'[r] \in unsure'
    PROVE  Alone'
<1>1. ASSUME NEW q \in Requests \ {r}, pc[q] # "idle", pc'[r] # "idle", who'[r] = who[q],
             who[q] \notin unsure'
      PROVE  FALSE
  BY <1>1 DEF Alone
<1>2. QED
  BY <1>1 DEF Alone, Others

LEMMA RoleSoonKept ==
    ASSUME RoleSoon, NEW r \in Requests, Others(r), unsure \subseteq unsure',
           \A u \in Users \ unsure', c \in Chapters : member'[u][c] = "active" =>
              \/ role'[u][c] # "none"
              \/ pc'[r] = "role" /\ who'[r] = u /\ where'[r] = c
              \/ /\ member[u][c] = "active"
                 /\ role[u][c] # "none" => role'[u][c] # "none"
                 /\ ~(pc[r] = "role" /\ who[r] = u /\ where[r] = c)
    PROVE  RoleSoon'
<1>1. ASSUME NEW u \in Users \ unsure', NEW c \in Chapters, member'[u][c] = "active",
             role'[u][c] = "none"
      PROVE  \E q \in Requests : pc'[q] = "role" /\ who'[q] = u /\ where'[q] = c
  <2>1. CASE pc'[r] = "role" /\ who'[r] = u /\ where'[r] = c
    BY <2>1
  <2>2. CASE /\ member[u][c] = "active" /\ role[u][c] = "none"
             /\ ~(pc[r] = "role" /\ who[r] = u /\ where[r] = c)
    <3>1. PICK q \in Requests : pc[q] = "role" /\ who[q] = u /\ where[q] = c
      BY <2>2 DEF RoleSoon, Active
    <3>2. q # r
      BY <2>2, <3>1
    <3>3. QED
      BY <3>1, <3>2 DEF Others
  <2>3. QED
    BY <1>1, <2>1, <2>2
<1>2. QED
  BY <1>1 DEF RoleSoon, Active

LEMMA ReadsKept ==
    ASSUME Reads, NEW r \in Requests, Others(r), unsure \subseteq unsure',
           \A q \in Requests \ {r} : pc[q] # "idle" /\ who[q] \notin unsure' =>
              /\ \A c \in Chapters : member'[who[q]][c] = "active" => member[who[q]][c] = "active"
              /\ occupation'[who[q]] = occupation[who[q]],
           who'[r] \notin unsure' =>
              /\ pc'[r] \in {"count", "found", "occupations", "insert"} =>
                    \A c \in Chapters : member'[who'[r]][c] # "active"
              /\ pc'[r] = "insert" => occupation'[who'[r]] # "graduate"
              /\ pc'[r] = "background" =>
                    \A c \in Chapters : member'[who'[r]][c] = "active" => c \in listed'[r]
    PROVE  Reads'
<1>1. ASSUME NEW q \in Requests \ {r}, who[q] \notin unsure'
      PROVE  /\ pc[q] \in {"count", "found", "occupations", "insert"} =>
                   \A c \in Chapters : member'[who[q]][c] # "active"
             /\ pc[q] = "insert" => occupation'[who[q]] # "graduate"
             /\ pc[q] = "background" =>
                   \A c \in Chapters : member'[who[q]][c] = "active" => c \in listed[q]
  BY <1>1 DEF Reads, Active
<1>2. QED
  BY <1>1 DEF Reads, Active, Others

\* Who reads that a user has no memberships, when no other request of his is at work.
LEMMA NothingListed ==
    ASSUME Typed, RoleSoon, NEW u \in Users \ unsure,
           \A q \in Requests : ~(pc[q] = "role" /\ who[q] = u)
    PROVE  \A c \in Chapters : Active(u, c) => c \in Listed(u)
BY DEF Typed, Rows, RoleSoon, Active, Listed

LEMMA SureSubmit ==
    ASSUME Typed, Sure, NEW r \in Requests, Submit(r)
    PROVE  Sure'
<1>1. ASSUME NEW u \in Users, NEW doubt \in BOOLEAN, Note(u, Overlapping(r, u) \/ doubt)
      PROVE  /\ unsure \subseteq unsure'
             /\ u \notin unsure' => /\ u \notin unsure /\ ~doubt
                                    /\ \A q \in Requests \ {r} : ~(pc[q] # "idle" /\ who[q] = u)
  BY <1>1 DEF Note, Overlapping
<1>2. ASSUME NEW u \in Users, pc[r] = "idle", u \notin unsure,
             \A q \in Requests \ {r} : ~(pc[q] # "idle" /\ who[q] = u)
      PROVE  \A c \in Chapters : Active(u, c) => c \in Listed(u)
  BY <1>2, NothingListed DEF Sure
\* The rest of a start: the tables are left alone.
<1>3. ASSUME NEW u \in Users, Others(r), pc[r] = "idle", who'[r] = u, pc'[r] # "role",
             UNCHANGED <<tables, founder>>, unsure \subseteq unsure',
             u \notin unsure' => \A q \in Requests \ {r} : ~(pc[q] # "idle" /\ who[q] = u),
             u \notin unsure' =>
                /\ pc'[r] \in {"count", "found", "occupations", "insert"} =>
                      \A c \in Chapters : ~Active(u, c)
                /\ pc'[r] # "insert"
                /\ pc'[r] = "background" => \A c \in Chapters : Active(u, c) => c \in listed'[r]
      PROVE  Sure'
  <2>1. Alone'
    BY <1>3, AloneKept DEF Sure
  <2>2. RoleSoon'
    BY <1>3, RoleSoonKept DEF Sure, tables
  <2>3. Reads'
    BY <1>3, ReadsKept DEF Sure, tables, Active
  <2>4. AtMostOne' /\ GraduatesHaveLeft'
    BY <1>3 DEF Sure, AtMostOne, GraduatesHaveLeft, Active, tables
  <2>5. QED
    BY <2>1, <2>2, <2>3, <2>4 DEF Sure
<1>4. ASSUME NEW u \in Users, FoundGroup(r, u) PROVE Sure'
  <2>1. Note(u, Overlapping(r, u) \/ FALSE)
    BY <1>4 DEF FoundGroup, Note
  <2>2. Listed(u) = {} /\ UNCHANGED <<tables, founder>>
    BY <1>4 DEF FoundGroup
  <2>3. Others(r) /\ pc[r] = "idle" /\ pc'[r] = "count" /\ who'[r] = u
    BY <1>4, FoundGroupFacts DEF Typed
  <2>4. QED
    BY <1>1, <1>2, <1>3, <2>1, <2>2, <2>3
<1>5. ASSUME NEW u \in Users, BackgroundRead(r, u) PROVE Sure'
  <2>1. Note(u, Overlapping(r, u) \/ replica[u] # Listed(u)) /\ UNCHANGED <<tables, founder>>
    BY <1>5 DEF BackgroundRead
  <2>2. Others(r) /\ pc[r] = "idle" /\ pc'[r] = "background" /\ who'[r] = u /\ listed'[r] = replica[u]
    BY <1>5, BackgroundFacts DEF Typed
  <2>3. QED
    BY <1>1, <1>2, <1>3, <2>1, <2>2
<1>6. ASSUME NEW u \in Users, NEW c \in Chapters, Join(r, u, c) PROVE Sure'
  <2>1. Note(u, Overlapping(r, u) \/ Listed(u) # {}) /\ UNCHANGED <<tables, founder>>
    BY <1>6 DEF Join
  <2>2. Others(r) /\ pc[r] = "idle" /\ pc'[r] = "occupations" /\ who'[r] = u
    BY <1>6, JoinFacts DEF Typed
  <2>3. QED
    BY <1>1, <1>2, <1>3, <2>1, <2>2
<1>7. ASSUME NEW u \in Users, NEW c \in Chapters, NEW ch \in Changes,
             UpdateGroupMember(r, u, c, ch)
      PROVE  Sure'
  <2>1. Note(u, Overlapping(r, u) \/ FALSE) /\ UNCHANGED <<tables, founder>>
    BY <1>7 DEF UpdateGroupMember, Note
  <2>2. /\ Others(r) /\ pc[r] = "idle" /\ pc'[r] \in {"change_role", "deactivate"}
        /\ who'[r] = u
    BY <1>7, UpdateFacts DEF Typed
  <2>3. QED
    BY <1>1, <1>3, <2>1, <2>2
<1>8. QED
  BY <1>4, <1>5, <1>6, <1>7 DEF Submit

\* Of the users of other requests, the sure ones are left alone by a step that
\* writes only rows of its own user.
LEMMA OthersLeftAlone ==
    ASSUME TypeOK, HasUser, Alone, NEW r \in Requests, pc[r] # "idle", unsure \subseteq unsure',
           \A v \in Users \ {who[r]}, c \in Chapters : member'[v][c] = member[v][c],
           \A v \in Users \ {who[r]} : occupation'[v] = occupation[v]
    PROVE  \A q \in Requests \ {r} : pc[q] # "idle" /\ who[q] \notin unsure' =>
              /\ \A c \in Chapters : member'[who[q]][c] = "active" => member[who[q]][c] = "active"
              /\ occupation'[who[q]] = occupation[who[q]]
<1>1. ASSUME NEW q \in Requests \ {r}, pc[q] # "idle", who[q] \notin unsure'
      PROVE  who[q] \in Users \ {who[r]}
  BY <1>1 DEF Alone, HasUser
<1>2. QED
  BY <1>1

LEMMA SureServe ==
    ASSUME Typed, Sure, NEW r \in Requests, Serve(r) \/ Throw(r)
    PROVE  Sure'
<1> USE DEF Sure
<1>1. CASE GroupsCount(r)
  <2>1. UNCHANGED <<tables, replica, faults, history>>
    BY <1>1 DEF GroupsCount
  <2>2. Alone' /\ RoleSoon'
    BY <1>1, <2>1, CountFacts, AloneKept, RoleSoonKept DEF Typed, tables, history
  <2>3. Reads'
    <3>1. who[r] \notin unsure' => \A c \in Chapters : member[who[r]][c] # "active"
      BY <1>1, <2>1, CountFacts DEF Typed, Reads, Active, history
    <3>2. QED
      BY <1>1, <2>1, <3>1, CountFacts, ReadsKept DEF Typed, tables, history
  <2>4. AtMostOne' /\ GraduatesHaveLeft'
    BY <2>1 DEF AtMostOne, GraduatesHaveLeft, Active, tables, history
  <2>5. QED
    BY <2>2, <2>3, <2>4
<1>2. CASE CreateGroup(r)
  <2>1. UNCHANGED <<taken, occupation, replica, faults, unsure, why>>
    BY <1>2 DEF CreateGroup
  <2>2. Others(r) /\ pc[r] = "found" /\ pc'[r] = "idle" /\ who[r] \in Users
    BY <1>2, CreateFacts
  <2>3. Alone'
    BY <2>1, <2>2, AloneKept
  <2>4. \A v \in Users \ {who[r]}, c \in Chapters : member'[v][c] = member[v][c]
    BY <1>2, CreateFacts DEF Sets
  <2>5. Reads'
    BY <2>1, <2>2, <2>4, OthersLeftAlone, ReadsKept DEF Typed
  <2>6. \A u \in Users, c \in Chapters : member'[u][c] = "active" =>
           \/ member[u][c] = "active" /\ role'[u][c] = role[u][c] /\ founder'[c] = founder[c]
           \/ u = who[r] /\ c = seen[r] + 1 /\ role'[u][c] # "none" /\ founder'[c] = u
    BY <1>2, CreateFacts DEF Sets, Typed, Rows
  <2>7. RoleSoon'
    BY <2>1, <2>2, <2>6, RoleSoonKept
  <2>8. AtMostOne'
    BY <2>1, <2>2, <2>6 DEF AtMostOne, Reads, Active
  <2>9. GraduatesHaveLeft'
    BY <2>1, <2>6 DEF GraduatesHaveLeft
  <2>10. QED
    BY <2>3, <2>5, <2>7, <2>8, <2>9
<1>3. CASE JoinOccupations(r)
  <2>1. UNCHANGED <<tables, replica, faults, history>>
    BY <1>3 DEF JoinOccupations
  <2>2. Alone' /\ RoleSoon'
    BY <1>3, <2>1, JoinOccupationsFacts, AloneKept, RoleSoonKept DEF Typed, tables, history
  <2>3. Reads'
    <3>1. who[r] \notin unsure' => \A c \in Chapters : member[who[r]][c] # "active"
      BY <1>3, <2>1, JoinOccupationsFacts DEF Typed, Reads, Active, history
    <3>2. QED
      BY <1>3, <2>1, <3>1, JoinOccupationsFacts, ReadsKept DEF Typed, tables, history
  <2>4. AtMostOne' /\ GraduatesHaveLeft'
    BY <2>1 DEF AtMostOne, GraduatesHaveLeft, Active, tables, history
  <2>5. QED
    BY <2>2, <2>3, <2>4
<1>4. CASE JoinInsert(r)
  <2>1. UNCHANGED <<founded, taken, role, occupation, replica, faults, history>>
    BY <1>4 DEF JoinInsert
  <2>2. /\ Others(r) /\ pc[r] = "insert" /\ who[r] \in Users
        /\ pc'[r] = "idle" \/ (pc'[r] = "role" /\ who' = who /\ where' = where)
    BY <1>4, InsertFacts
  <2>3. Alone'
    BY <2>1, <2>2, AloneKept DEF history
  <2>4. \A v \in Users \ {who[r]}, c \in Chapters : member'[v][c] = member[v][c]
    BY <1>4, InsertFacts DEF Sets
  <2>5. Reads'
    BY <2>1, <2>2, <2>4, OthersLeftAlone, ReadsKept DEF Typed, history
  <2>6. \A u \in Users, c \in Chapters : member'[u][c] = "active" =>
           \/ member[u][c] = "active"
           \/ u = who[r] /\ c = where[r] /\ pc'[r] = "role" /\ who' = who /\ where' = where
    BY <1>4, InsertFacts DEF Sets
  <2>7. RoleSoon'
    BY <2>1, <2>2, <2>6, RoleSoonKept DEF history
  <2>8. AtMostOne'
    BY <2>1, <2>2, <2>6 DEF AtMostOne, Reads, Active, history
  <2>9. GraduatesHaveLeft'
    BY <2>1, <2>2, <2>6 DEF GraduatesHaveLeft, Reads, history
  <2>10. QED
    BY <2>3, <2>5, <2>7, <2>8, <2>9
<1>5. CASE JoinRole(r) \/ ChangeRole(r)
  <2>1. UNCHANGED <<founded, taken, member, occupation, replica, faults, history>>
    BY <1>5 DEF JoinRole, ChangeRole
  <2>2. /\ Others(r) /\ pc[r] # "idle"
        /\ pc'[r] = "idle" \/ (pc'[r] = "deactivate" /\ who' = who)
    BY <1>5, RoleFacts, ChangeRoleFacts
  <2>3. Alone' /\ Reads'
    BY <2>1, <2>2, AloneKept, ReadsKept DEF history
  <2>4. \A u \in Users, c \in Chapters :
           /\ role[u][c] # "none" => role'[u][c] # "none"
           /\ u = who[r] /\ c = where[r] => role'[u][c] # "none"
    BY <1>5, RoleFacts, ChangeRoleFacts DEF Sets
  <2>5. RoleSoon'
    BY <2>1, <2>2, <2>4, RoleSoonKept DEF history
  <2>6. AtMostOne' /\ GraduatesHaveLeft'
    BY <2>1 DEF AtMostOne, GraduatesHaveLeft, Active, history
  <2>7. QED
    BY <2>3, <2>5, <2>6
<1>6. CASE Deactivate(r)
  <2>1. UNCHANGED <<founded, taken, role, occupation, replica, faults, history>>
    BY <1>6 DEF Deactivate
  <2>2. Others(r) /\ pc[r] = "deactivate" /\ pc'[r] = "idle"
    BY <1>6, DeactivateFacts
  <2>3. \A u \in Users, c \in Chapters : member'[u][c] = "active" => member[u][c] = "active"
    BY <1>6, DeactivateFacts DEF Sets
  <2>4. Alone' /\ RoleSoon'
    BY <2>1, <2>2, <2>3, AloneKept, RoleSoonKept DEF history
  <2>5. Reads'
    BY <2>1, <2>2, <2>3, ReadsKept DEF Typed, HasUser, history
  <2>6. AtMostOne' /\ GraduatesHaveLeft'
    BY <2>1, <2>3 DEF AtMostOne, GraduatesHaveLeft, Active, history
  <2>7. QED
    BY <2>4, <2>5, <2>6
<1>7. CASE BackgroundCommit(r)
  <2>1. UNCHANGED <<founded, taken, role, replica, founder>>
    BY <1>7 DEF BackgroundCommit
  <2>2. /\ Others(r) /\ pc[r] = "background" /\ pc'[r] = "idle" /\ who[r] \in Users
        /\ unsure \subseteq unsure'
    BY <1>7, CommitFacts
  <2>3. \A u \in Users, c \in Chapters : member'[u][c] = "active" => member[u][c] = "active"
    BY <1>7, CommitFacts
  <2>4. Alone' /\ RoleSoon'
    BY <2>1, <2>2, <2>3, AloneKept, RoleSoonKept
  <2>5. /\ \A v \in Users \ {who[r]}, c \in Chapters : member'[v][c] = member[v][c]
        /\ \A v \in Users \ {who[r]} : occupation'[v] = occupation[v]
    BY <1>7, CommitFacts
  <2>6. Reads'
    BY <2>2, <2>5, OthersLeftAlone, ReadsKept DEF Typed
  <2>7. AtMostOne'
    BY <2>2, <2>3 DEF AtMostOne, Active
  <2>8. \/ \A c \in listed[r] : member'[who[r]][c] = "left"
        \/ occupation'[who[r]] # "graduate"
        \/ who[r] \in unsure'
    BY <1>7, CommitFacts
  <2>9. who[r] \notin unsure' /\ occupation'[who[r]] = "graduate" =>
           \A c \in Chapters : member'[who[r]][c] # "active"
    BY <2>2, <2>3, <2>8 DEF Reads, Active
  <2>10. GraduatesHaveLeft'
    BY <2>1, <2>2, <2>3, <2>5, <2>9 DEF GraduatesHaveLeft
  <2>11. QED
    BY <2>4, <2>6, <2>7, <2>10
<1>8. CASE Throw(r)
  <2>1. UNCHANGED <<tables, replica, founder, why>> /\ unsure' = unsure \cup {who[r]}
    BY <1>8 DEF Throw
  <2>2. Others(r) /\ pc'[r] = "idle" /\ pc[r] # "idle"
    BY <1>8, FinishFacts DEF Throw, Typed
  <2>3. Alone' /\ RoleSoon' /\ Reads'
    BY <2>1, <2>2, AloneKept, RoleSoonKept, ReadsKept DEF tables
  <2>4. AtMostOne' /\ GraduatesHaveLeft'
    BY <2>1 DEF AtMostOne, GraduatesHaveLeft, Active, tables
  <2>5. QED
    BY <2>3, <2>4
<1>9. QED
  BY <1>1, <1>2, <1>3, <1>4, <1>5, <1>6, <1>7, <1>8 DEF Serve

LEMMA SureStep ==
    ASSUME Typed, Sure, [Next]_vars
    PROVE  Sure'
<1>1. CASE UpdateGroupName
  BY <1>1 DEF UpdateGroupName, Sure, Alone, RoleSoon, Reads, AtMostOne, GraduatesHaveLeft, Active,
     request, history
<1>2. CASE Replicate
  BY <1>2 DEF Replicate, Sure, Alone, RoleSoon, Reads, AtMostOne, GraduatesHaveLeft, Active,
     tables, request, history
<1>3. CASE UNCHANGED vars
  BY <1>3 DEF vars, Sure, Alone, RoleSoon, Reads, AtMostOne, GraduatesHaveLeft, Active, tables,
     request, history
<1>4. QED
  BY <1>1, <1>2, <1>3, SureSubmit, SureServe DEF Next

-----------------------------------------------------------------------------
\* Admins.

\* A step of r leaves a chapter with its admins, and r, if it goes on to change its
\* members, with another one.
LEMMA TendedKept ==
    ASSUME NEW c \in Chapters, Tended(c), NEW r \in Requests, Others(r),
           Admins(c) \subseteq Admins(c)',
           \A q \in Requests \ {r} : pc[q] = "role" /\ where[q] = c => role'[who[q]][c] # "admin",
           Updating(r)' /\ where'[r] = c =>
              Updating(r) /\ where[r] = c /\ who'[r] = who[r] /\ Keeps(r, c)',
           pc'[r] = "role" /\ where'[r] = c =>
              /\ role'[who'[r]][c] # "admin"
              /\ \A q \in Requests \ {r} : Updating(q) /\ where[q] = c => who[q] # who'[r]
    PROVE  Tended(c)'
<1>1. \A q \in Requests \ {r} : (Updating(q)' <=> Updating(q)) /\ (Keeps(q, c) => Keeps(q, c)')
  BY DEF Others, Updating, Keeps, Another
<1>2. HasAdmin(c)'
  BY DEF Tended, HasAdmin
<1>3. \A q \in Requests : Updating(q)' /\ where'[q] = c => Keeps(q, c)'
  BY <1>1 DEF Tended, Others
<1>4. \A q \in Requests : Updating(q)' /\ where'[q] = c => Updating(q) /\ where[q] = c /\ who'[q] = who[q]
  BY <1>1 DEF Others
<1>5. \A p, q \in Requests :
         Updating(p)' /\ Updating(q)' /\ where'[p] = c /\ where'[q] = c => p = q
  BY <1>4 DEF Tended
<1>6. ASSUME NEW p \in Requests, pc'[p] = "role", where'[p] = c
      PROVE  /\ role'[who'[p]][c] # "admin"
             /\ \A q \in Requests : Updating(q)' /\ where'[q] = c => who'[q] # who'[p]
  <2>1. CASE p = r
    <3>1. ~Updating(r)'
      BY <1>6, <2>1 DEF Updating
    <3>2. QED
      BY <1>4, <1>6, <2>1, <3>1
  <2>2. CASE p # r
    <3>1. pc[p] = "role" /\ where[p] = c /\ who'[p] = who[p]
      BY <1>6, <2>2 DEF Others
    <3>2. QED
      BY <1>4, <2>2, <3>1 DEF Tended
  <2>3. QED
    BY <2>1, <2>2
<1>7. QED
  BY <1>2, <1>3, <1>5, <1>6 DEF Tended

LEMMA AdministeredSubmit ==
    ASSUME Typed, Administered, NEW r \in Requests, Submit(r)
    PROVE  Administered'
<1>1. ASSUME Others(r), UNCHANGED <<tables, why>>, pc'[r] \notin {"role", "change_role", "deactivate"}
      PROVE  Administered'
  <2>1. ASSUME NEW c \in founded, why[c] = "none" PROVE Tended(c)'
    <3>1. c \in Chapters /\ Tended(c)
      BY <2>1 DEF Administered, Typed, TypeOK
    <3>2. Admins(c)' = Admins(c)
      BY <1>1 DEF Admins, Listed, tables
    <3>3. ~Updating(r)' /\ pc'[r] # "role"
      BY <1>1 DEF Updating
    <3>4. \A q \in Requests \ {r} : pc[q] = "role" /\ where[q] = c => role'[who[q]][c] # "admin"
      BY <1>1, <3>1 DEF Tended, tables
    <3>5. QED
      BY <1>1, <3>1, <3>2, <3>3, <3>4, TendedKept
  <2>2. QED
    BY <1>1, <2>1 DEF Administered, tables
<1>2. ASSUME NEW u \in Users, FoundGroup(r, u) PROVE Administered'
  BY <1>1, <1>2, FoundGroupFacts DEF FoundGroup, Typed
<1>3. ASSUME NEW u \in Users, BackgroundRead(r, u) PROVE Administered'
  BY <1>1, <1>3, BackgroundFacts DEF BackgroundRead, Typed
<1>4. ASSUME NEW u \in Users, NEW c \in Chapters, Join(r, u, c) PROVE Administered'
  BY <1>1, <1>4, JoinFacts DEF Join, Typed
<1>5. ASSUME NEW u \in Users, NEW c \in Chapters, NEW ch \in Changes,
             UpdateGroupMember(r, u, c, ch)
      PROVE  Administered'
  <2>1. UNCHANGED tables /\ c \in founded /\ ~RemovesSoleAdmin(u, c, ch)
    BY <1>5 DEF UpdateGroupMember
  <2>2. /\ Others(r) /\ pc[r] = "idle" /\ who'[r] = u /\ where'[r] = c /\ change'[r] = ch
        /\ pc'[r] = IF ch.role # "none" THEN "change_role" ELSE "deactivate"
    BY <1>5, UpdateFacts DEF Typed
  <2>3. \A d \in Chapters : Admins(d)' = Admins(d)
    BY <2>1 DEF Admins, Listed, tables
  <2>4. /\ \A d \in Chapters : why'[d] = "none" => why[d] = "none"
        /\ why'[c] = "none" => ~Busy(r, c) /\ ~(Admins(c) = {u} /\ ch.deactivate)
    BY <1>5 DEF UpdateGroupMember, Typed, TypeOK
  <2>5. ASSUME NEW d \in founded, d # c, why'[d] = "none" PROVE Tended(d)'
    <3>1. d \in Chapters /\ Tended(d)
      BY <2>4, <2>5 DEF Administered, Typed, TypeOK
    <3>2. \A q \in Requests \ {r} : pc[q] = "role" /\ where[q] = d => role'[who[q]][d] # "admin"
      BY <2>1, <3>1 DEF Tended, tables
    <3>3. QED
      BY <2>2, <2>3, <2>5, <3>1, <3>2, TendedKept
  <2>6. ASSUME why'[c] = "none" PROVE Tended(c)'
    <3>1. HasAdmin(c)
      BY <2>1, <2>4, <2>6 DEF Administered, Tended
    <3>2. \A q \in Requests \ {r} : pc[q] = "idle" \/ where[q] # c
      BY <2>4, <2>6 DEF Busy
    <3>3. Another(r, c)' \/ Admins(c) = {u}
      BY <2>2, <2>3, <3>1 DEF Another, HasAdmin
    <3>4. Keeps(r, c)'
      <4>1. CASE Admins(c) = {u}
        <5>1. ch.role = "admin" /\ ~ch.deactivate
          BY <2>1, <2>4, <2>6, <4>1 DEF RemovesSoleAdmin
        <5>2. QED
          BY <2>2, <5>1 DEF Keeps
      <4>2. QED
        BY <3>3, <4>1 DEF Keeps
    <3>5. \A q \in Requests : pc'[q] # "idle" /\ where'[q] = c => q = r
      BY <2>2, <3>2 DEF Others
    <3>6. HasAdmin(c)'
      BY <2>3, <3>1 DEF HasAdmin
    <3>7. \A q \in Requests : ~(pc'[q] = "role" /\ where'[q] = c)
      BY <2>2, <3>5
    <3>8. QED
      BY <3>4, <3>5, <3>6, <3>7 DEF Tended, Updating
  <2>7. QED
    BY <2>1, <2>5, <2>6 DEF Administered, tables
<1>6. QED
  BY <1>2, <1>3, <1>4, <1>5 DEF Submit

\* A step that takes no admin from the chapters, and updates nothing.
LEMMA NoneTaken ==
    ASSUME Typed, Administered, NEW r \in Requests, Others(r), founded' = founded,
           pc'[r] \notin {"role", "change_role", "deactivate"},
           \A c \in founded : why'[c] = "none" =>
              /\ why[c] = "none" /\ Admins(c) \subseteq Admins(c)'
              /\ \A q \in Requests \ {r} : pc[q] = "role" /\ where[q] = c /\ role[who[q]][c] # "admin" =>
                    role'[who[q]][c] # "admin"
    PROVE  Administered'
<1>1. ASSUME NEW c \in founded, why'[c] = "none" PROVE Tended(c)'
  <2>1. c \in Chapters /\ Tended(c)
    BY <1>1 DEF Administered, Typed, TypeOK
  <2>2. ~Updating(r)' /\ pc'[r] # "role"
    BY DEF Updating
  <2>3. \A q \in Requests \ {r} : pc[q] = "role" /\ where[q] = c => role'[who[q]][c] # "admin"
    BY <1>1, <2>1 DEF Tended
  <2>4. QED
    BY <1>1, <2>1, <2>2, <2>3, TendedKept
<1>2. QED
  BY <1>1 DEF Administered

\* Who was an admin still is one.
LEMMA AdminsKept ==
    ASSUME NEW c \in Chapters, founded \subseteq founded',
           \A v \in Users : v \in Admins(c) => member'[v][c] = "active" /\ role'[v][c] = "admin"
    PROVE  Admins(c) \subseteq Admins(c)'
BY DEF Admins, Listed

LEMMA IsAdmin ==
    ASSUME NEW c \in Chapters, NEW v \in Users
    PROVE  v \in Admins(c) <=> c \in founded /\ member[v][c] = "active" /\ role[v][c] = "admin"
BY DEF Admins, Listed

LEMMA AdministeredCreate ==
    ASSUME Typed, Administered, NEW r \in Requests, CreateGroup(r)
    PROVE  Administered'
<1>1. UNCHANGED <<taken, occupation, replica, faults, unsure, why>>
  BY DEF CreateGroup
<1>2. Others(r) /\ pc'[r] = "idle" /\ who[r] \in Users
  BY CreateFacts
<1>3. CASE UNCHANGED <<founded, member, role, founder>>
  <2>1. \A c \in Chapters : Admins(c)' = Admins(c)
    BY <1>3 DEF Admins, Listed
  <2>2. founded \subseteq Chapters
    BY DEF Typed, TypeOK
  <2>3. QED
    BY <1>1, <1>2, <1>3, <2>1, <2>2, NoneTaken
<1>4. CASE /\ seen[r] + 1 \in Chapters /\ seen[r] + 1 \notin founded
           /\ founded' = founded \cup {seen[r] + 1}
           /\ Sets(member, who[r], seen[r] + 1, "active")
           /\ Sets(role, who[r], seen[r] + 1, "admin")
  <2>1. PICK n \in Chapters :
           /\ n \notin founded /\ founded' = founded \cup {n}
           /\ Sets(member, who[r], n, "active") /\ Sets(role, who[r], n, "admin")
    BY <1>4
  <2>2. ASSUME NEW c \in founded, why[c] = "none" PROVE Tended(c)'
    <3>1. c \in Chapters /\ Tended(c) /\ c # n
      BY <2>1, <2>2 DEF Administered, Typed, TypeOK
    <3>2. Admins(c) \subseteq Admins(c)'
      <4>1. \A v \in Users : v \in Admins(c) => member'[v][c] = "active" /\ role'[v][c] = "admin"
        BY <2>1, <3>1, IsAdmin DEF Sets
      <4>2. QED
        BY <2>1, <3>1, <4>1, AdminsKept
    <3>3. \A q \in Requests : pc[q] = "role" => who[q] \in Users
      BY DEF Typed, HasUser
    <3>4. \A q \in Requests \ {r} : pc[q] = "role" /\ where[q] = c => role'[who[q]][c] # "admin"
      BY <2>1, <3>1, <3>3 DEF Tended, Sets
    <3>5. ~Updating(r)' /\ pc'[r] # "role"
      BY <1>2 DEF Updating
    <3>6. QED
      BY <1>2, <3>1, <3>2, <3>4, <3>5, TendedKept
  <2>3. Tended(n)'
    <3>1. who[r] \in Admins(n)'
      BY <1>2, <2>1 DEF Admins, Listed, Sets
    <3>2. \A q \in Requests : pc'[q] = "role" \/ Updating(q)' => where'[q] # n
      BY <1>2, <2>1 DEF Typed, HasUser, Joining, Updating, Others
    <3>3. QED
      BY <3>1, <3>2 DEF Tended, HasAdmin
  <2>4. QED
    BY <1>1, <2>1, <2>2, <2>3 DEF Administered
<1>5. QED
  BY <1>3, <1>4, CreateFacts

LEMMA AdministeredInsert ==
    ASSUME Typed, Administered, NEW r \in Requests, JoinInsert(r)
    PROVE  Administered'
<1> DEFINE u == who[r]  d == where[r]
<1>1. UNCHANGED <<founded, taken, role, occupation, replica, faults, history>>
  BY DEF JoinInsert
<1>2. /\ Others(r) /\ u \in Users /\ d \in founded /\ d \in Chapters
      /\ \/ pc'[r] = "idle" /\ member' = member
         \/ /\ pc'[r] = "role" /\ who' = who /\ where' = where
            /\ member[u][d] = "none" /\ Sets(member, u, d, "active")
  BY InsertFacts
<1>3. ASSUME NEW c \in founded, why[c] = "none" PROVE Tended(c)'
  <2>1. c \in Chapters /\ Tended(c)
    BY <1>3 DEF Administered, Typed, TypeOK
  <2>2. \A v \in Users : v \in Admins(c) => member'[v][c] = "active" /\ role'[v][c] = "admin"
    BY <1>1, <1>2, <2>1, IsAdmin DEF Sets
  <2>3. Admins(c) \subseteq Admins(c)'
    BY <1>1, <2>1, <2>2, AdminsKept
  <2>4. \A q \in Requests \ {r} : pc[q] = "role" /\ where[q] = c => role'[who[q]][c] # "admin"
    BY <1>1, <2>1 DEF Tended
  <2>5. ~Updating(r)'
    BY <1>2 DEF Updating
  <2>6. ASSUME pc'[r] = "role", where'[r] = c
        PROVE  /\ role'[who'[r]][c] # "admin"
               /\ \A q \in Requests \ {r} : Updating(q) /\ where[q] = c => who[q] # who'[r]
    <3>1. who'[r] = u /\ c = d /\ member[u][d] = "none"
      BY <1>2, <2>6
    <3>2. role[u][d] = "none"
      BY <1>2, <3>1 DEF Typed, Rows
    <3>3. \A q \in Requests : Updating(q) => member[who[q]][where[q]] # "none"
      BY DEF Typed, HasUser
    <3>4. QED
      BY <1>1, <3>1, <3>2, <3>3
  <2>7. QED
    BY <1>2, <2>1, <2>3, <2>4, <2>5, <2>6, TendedKept
<1>4. QED
  BY <1>1, <1>3 DEF Administered, history

LEMMA AdministeredRole ==
    ASSUME Typed, Administered, NEW r \in Requests, JoinRole(r)
    PROVE  Administered'
<1>1. UNCHANGED <<founded, taken, member, occupation, replica, faults, history>>
  BY DEF JoinRole
<1>2. /\ Others(r) /\ pc[r] = "role" /\ pc'[r] = "idle" /\ who[r] \in Users /\ where[r] \in Chapters
      /\ Sets(role, who[r], where[r], "member")
  BY RoleFacts
<1>3. ASSUME NEW c \in founded, why[c] = "none" PROVE Admins(c) \subseteq Admins(c)'
  <2>1. c \in Chapters /\ Tended(c)
    BY <1>3 DEF Administered, Typed, TypeOK
  <2>2. where[r] = c => role[who[r]][c] # "admin"
    BY <1>2, <2>1 DEF Tended
  <2>3. \A v \in Users : v \in Admins(c) => member'[v][c] = "active" /\ role'[v][c] = "admin"
    BY <1>1, <1>2, <2>1, <2>2, IsAdmin DEF Sets
  <2>4. QED
    BY <1>1, <2>1, <2>3, AdminsKept
<1>4. \A q \in Requests : pc[q] = "role" => who[q] \in Users
  BY DEF Typed, HasUser
<1>5. ASSUME NEW c \in founded, NEW q \in Requests \ {r}, pc[q] = "role", role[who[q]][c] # "admin"
      PROVE  role'[who[q]][c] # "admin"
  <2>1. c \in Chapters /\ who[q] \in Users
    BY <1>4, <1>5 DEF Typed, TypeOK
  <2>2. QED
    BY <1>2, <1>5, <2>1 DEF Sets
<1>6. QED
  BY <1>1, <1>2, <1>3, <1>5, NoneTaken DEF history

\* The one request that updates a chapter leaves it an admin who is not its user, or
\* is over.
LEMMA UpdaterKeeps ==
    ASSUME NEW c \in Chapters, Tended(c), NEW r \in Requests, Others(r),
           Updating(r), where[r] = c, pc'[r] # "role",
           NEW v \in Admins(c)',
           Updating(r)' => who'[r] = who[r] /\ v # who[r],
           \A q \in Requests \ {r} : pc[q] = "role" /\ where[q] = c /\ who[q] # who[r] =>
              role'[who[q]][c] = role[who[q]][c]
    PROVE  Tended(c)'
<1>1. \A q \in Requests : Updating(q)' /\ where'[q] = c => q = r
  BY DEF Tended, Others, Updating
<1>2. Updating(r)' => Keeps(r, c)'
  BY DEF Keeps, Another
<1>3. HasAdmin(c)'
  BY DEF HasAdmin
<1>4. ASSUME NEW q \in Requests, pc'[q] = "role", where'[q] = c
      PROVE  /\ role'[who'[q]][c] # "admin"
             /\ \A q2 \in Requests : Updating(q2)' /\ where'[q2] = c => who'[q2] # who'[q]
  <2>1. q # r /\ pc[q] = "role" /\ where[q] = c /\ who'[q] = who[q]
    BY <1>4 DEF Others
  <2>2. role[who[q]][c] # "admin" /\ who[q] # who[r]
    BY <2>1 DEF Tended
  <2>3. QED
    BY <1>1, <2>1, <2>2
<1>5. QED
  BY <1>1, <1>2, <1>3, <1>4 DEF Tended

LEMMA AdministeredChangeRole ==
    ASSUME Typed, Administered, NEW r \in Requests, ChangeRole(r)
    PROVE  Administered'
<1> DEFINE u == who[r]  d == where[r]
<1>1. UNCHANGED <<founded, taken, member, occupation, replica, faults, history>>
  BY DEF ChangeRole
<1>2. /\ Others(r) /\ pc[r] = "change_role" /\ u \in Users /\ d \in Chapters
      /\ Sets(role, u, d, change[r].role)
      /\ \/ /\ change[r].deactivate
            /\ pc'[r] = "deactivate" /\ who' = who /\ where' = where /\ change' = change
         \/ ~change[r].deactivate /\ pc'[r] = "idle"
  BY ChangeRoleFacts
<1>3. Updating(r) /\ pc'[r] # "role" /\ (Updating(r)' => change[r].deactivate /\ who'[r] = u /\ where'[r] = d)
  BY <1>2 DEF Updating
<1>4. \A q \in Requests : pc[q] = "role" => who[q] \in Users
  BY DEF Typed, HasUser
<1>5. ASSUME NEW c \in founded, why[c] = "none" PROVE Tended(c)'
  <2>1. c \in Chapters /\ Tended(c)
    BY <1>5 DEF Administered, Typed, TypeOK
  <2>2. CASE c # d
    <3>1. \A v \in Users : v \in Admins(c) => member'[v][c] = "active" /\ role'[v][c] = "admin"
      BY <1>1, <1>2, <2>1, <2>2, IsAdmin DEF Sets
    <3>2. Admins(c) \subseteq Admins(c)'
      BY <1>1, <2>1, <3>1, AdminsKept
    <3>3. \A q \in Requests \ {r} : pc[q] = "role" /\ where[q] = c => role'[who[q]][c] # "admin"
      BY <1>2, <1>4, <2>1, <2>2 DEF Tended, Sets
    <3>4. QED
      BY <1>2, <1>3, <2>1, <2>2, <3>2, <3>3, TendedKept
  <2>3. CASE c = d
    <3>1. Keeps(r, c) /\ HasAdmin(c)
      BY <1>3, <2>1, <2>3 DEF Tended
    <3>2. PICK v \in Users : v \in Admins(c) /\ (v # u \/ (change[r].role = "admin" /\ ~change[r].deactivate))
      BY <3>1 DEF Keeps, Another, HasAdmin, Admins
    <3>3. member'[v][c] = "active" /\ role'[v][c] = "admin" /\ c \in founded
      BY <1>1, <1>2, <2>1, <2>3, <3>2, IsAdmin DEF Sets
    <3>4. v \in Admins(c)'
      BY <1>1, <3>3 DEF Admins, Listed
    <3>5. Updating(r)' => who'[r] = who[r] /\ v # who[r]
      BY <1>3, <3>2
    <3>6. \A q \in Requests \ {r} : pc[q] = "role" /\ where[q] = c /\ who[q] # who[r] =>
             role'[who[q]][c] = role[who[q]][c]
      BY <1>2, <1>4, <2>1 DEF Sets
    <3>7. QED
      BY <1>2, <1>3, <2>1, <2>3, <3>4, <3>5, <3>6, UpdaterKeeps
  <2>4. QED
    BY <2>2, <2>3
<1>6. QED
  BY <1>1, <1>5 DEF Administered, history

LEMMA AdministeredDeactivate ==
    ASSUME Typed, Administered, NEW r \in Requests, Deactivate(r)
    PROVE  Administered'
<1> DEFINE u == who[r]  d == where[r]
<1>1. UNCHANGED <<founded, taken, role, occupation, replica, faults, history>>
  BY DEF Deactivate
<1>2. /\ Others(r) /\ pc[r] = "deactivate" /\ pc'[r] = "idle" /\ u \in Users /\ d \in Chapters
      /\ Sets(member, u, d, "left")
  BY DeactivateFacts
<1>3. Updating(r) /\ ~Updating(r)'
  BY <1>2 DEF Updating
<1>4. ASSUME NEW c \in founded, why[c] = "none" PROVE Tended(c)'
  <2>1. c \in Chapters /\ Tended(c)
    BY <1>4 DEF Administered, Typed, TypeOK
  <2>2. CASE c # d
    <3>1. \A v \in Users : v \in Admins(c) => member'[v][c] = "active" /\ role'[v][c] = "admin"
      BY <1>1, <1>2, <2>1, <2>2, IsAdmin DEF Sets
    <3>2. Admins(c) \subseteq Admins(c)'
      BY <1>1, <2>1, <3>1, AdminsKept
    <3>3. \A q \in Requests \ {r} : pc[q] = "role" /\ where[q] = c => role'[who[q]][c] # "admin"
      BY <1>1, <2>1 DEF Tended
    <3>4. QED
      BY <1>2, <1>3, <2>1, <2>2, <3>2, <3>3, TendedKept
  <2>3. CASE c = d
    <3>1. Another(r, c)
      BY <1>2, <1>3, <2>1, <2>3 DEF Tended, Keeps
    <3>2. PICK v \in Users : v \in Admins(c) /\ v # u
      BY <3>1 DEF Another, Admins
    <3>3. member'[v][c] = "active" /\ role'[v][c] = "admin" /\ c \in founded
      BY <1>1, <1>2, <2>1, <2>3, <3>2, IsAdmin DEF Sets
    <3>4. v \in Admins(c)'
      BY <1>1, <3>3 DEF Admins, Listed
    <3>5. \A q \in Requests \ {r} : pc[q] = "role" /\ where[q] = c /\ who[q] # who[r] =>
             role'[who[q]][c] = role[who[q]][c]
      BY <1>1
    <3>6. QED
      BY <1>2, <1>3, <2>1, <2>3, <3>4, <3>5, UpdaterKeeps
  <2>4. QED
    BY <2>2, <2>3
<1>5. QED
  BY <1>1, <1>4 DEF Administered, history

LEMMA AdministeredCommit ==
    ASSUME Typed, Administered, NEW r \in Requests, BackgroundCommit(r)
    PROVE  Administered'
<1>1. UNCHANGED <<founded, taken, role, replica, founder>>
  BY DEF BackgroundCommit
<1>2. /\ Others(r) /\ pc'[r] = "idle" /\ who[r] \in Users
      /\ \A v \in Users \ {who[r]} : member'[v] = member[v]
      /\ \A c \in Chapters : why'[c] = "none" => why[c] = "none"
      /\ \A c \in Chapters :
            \/ member'[who[r]][c] = member[who[r]][c]
            \/ why'[c] = "none" => role[who[r]][c] # "admin"
  BY CommitFacts
<1>3. ASSUME NEW c \in founded, why'[c] = "none" PROVE why[c] = "none" /\ Admins(c) \subseteq Admins(c)'
  <2>1. c \in Chapters
    BY DEF Typed, TypeOK
  <2>2. \A v \in Users : v \in Admins(c) => member'[v][c] = "active" /\ role'[v][c] = "admin"
    BY <1>1, <1>2, <1>3, <2>1, IsAdmin
  <2>3. QED
    BY <1>1, <1>2, <1>3, <2>1, <2>2, AdminsKept
<1>4. QED
  BY <1>1, <1>2, <1>3, NoneTaken

LEMMA AdministeredStep ==
    ASSUME Typed, Administered, [Next]_vars
    PROVE  Administered'
<1>1. ASSUME NEW r \in Requests, Others(r), UNCHANGED <<tables, why>>,
             pc'[r] \notin {"role", "change_role", "deactivate"}
      PROVE  Administered'
  <2>1. \A c \in Chapters : Admins(c)' = Admins(c)
    BY <1>1 DEF Admins, Listed, tables
  <2>2. founded \subseteq Chapters
    BY DEF Typed, TypeOK
  <2>3. QED
    BY <1>1, <2>1, <2>2, NoneTaken DEF tables
<1>2. ASSUME NEW r \in Requests, GroupsCount(r) PROVE Administered'
  BY <1>1, <1>2, CountFacts DEF GroupsCount, Typed, history
<1>3. ASSUME NEW r \in Requests, JoinOccupations(r) PROVE Administered'
  BY <1>1, <1>3, JoinOccupationsFacts DEF JoinOccupations, Typed, history
<1>4. ASSUME NEW r \in Requests, Throw(r) PROVE Administered'
  BY <1>1, <1>4, FinishFacts DEF Throw, Typed
<1>5. CASE UpdateGroupName \/ Replicate \/ UNCHANGED vars
  BY <1>5 DEF UpdateGroupName, Replicate, Administered, Tended, HasAdmin, Keeps, Another, Admins,
     Listed, Updating, vars, tables, request, history
<1>6. QED
  BY <1>2, <1>3, <1>4, <1>5, AdministeredSubmit, AdministeredCreate, AdministeredInsert,
     AdministeredRole, AdministeredChangeRole, AdministeredDeactivate, AdministeredCommit
     DEF Next, Serve

-----------------------------------------------------------------------------
\* The invariant, and what follows from it.

LEMMA InitIInv == Init => IInv
<1> SUFFICES ASSUME Init PROVE IInv
  OBVIOUS
<1>1. Numbered
  <2>1. Cardinality({}) = 0 /\ 1..0 = {}
    BY FS_EmptySet
  <2>2. QED
    BY <2>1 DEF Init, Numbered
<1>2. Sure
  BY DEF Init, Sure, Alone, RoleSoon, Reads, AtMostOne, GraduatesHaveLeft, Active
<1>3. Administered
  BY DEF Init, Administered
<1>4. QED
  BY <1>1, <1>2, <1>3, InitTyped DEF IInv

LEMMA Inductive == IInv /\ [Next]_vars => IInv'
BY NextTyped, NumberedStep, SureStep, AdministeredStep DEF IInv

\* The invariant of the proofs holds in every state, for any constants.
THEOREM Invariance == Spec => []IInv
BY InitIInv, Inductive, PTL DEF Spec

\* Every state has its type, for any constants.
THEOREM TypeCorrect == Spec => []TypeOK
<1>1. IInv => TypeOK
  BY DEF IInv, Typed
<1>2. QED
  BY <1>1, Invariance, PTL

\* Nobody whose requests came one after the other, with the replica up to date and
\* no error, is an active member of two chapters.
THEOREM ChaptersAreOne == Spec => []OneChapter
<1>1. ASSUME IInv, NEW u \in Users \ unsure
      PROVE  Cardinality({c \in Chapters : member[u][c] = "active"}) <= 1
  <2> DEFINE S == {c \in Chapters : member[u][c] = "active"}
  <2>1. \A c, d \in S : c = d
    BY <1>1 DEF IInv, Sure, AtMostOne, Active
  <2>2. CASE S = {}
    BY <2>2, FS_EmptySet
  <2>3. CASE S # {}
    <3>1. PICK c \in S : S = {c}
      BY <2>1, <2>3
    <3>2. QED
      BY <3>1, FS_Singleton
  <2>4. QED
    BY <2>2, <2>3
<1>2. IInv => OneChapter
  BY <1>1 DEF OneChapter
<1>3. QED
  BY <1>2, Invariance, PTL

\* Nor is one who is no high schooler an active member of a chapter that he did not
\* found.
THEOREM GraduatesAreOut == Spec => []GraduatesHaveLeft
<1>1. IInv => GraduatesHaveLeft
  BY DEF IInv, Sure
<1>2. QED
  BY <1>1, Invariance, PTL

\* A chapter keeps an admin, however many its members and the requests are, unless
\* one of the three ways to lose him was taken.
THEOREM ChaptersAreRun == Spec => []ChapterHasAdmin
<1>1. IInv => ChapterHasAdmin
  BY DEF IInv, Typed, TypeOK, Administered, Tended, ChapterHasAdmin
<1>2. QED
  BY <1>1, Invariance, PTL

\* The numbers of the chapters have no gaps, so the next founder succeeds.
THEOREM FoundingGoesOn == Spec => []FoundingIsPossible
<1>1. ASSUME IInv PROVE FoundingIsPossible
  <2> DEFINE k == Cardinality(founded)
  <2>1. k \in Nat /\ founded = 1..k
    BY <1>1, Counted DEF IInv, Typed, Numbered
  <2> HIDE DEF k
  <2>2. k + 1 \notin founded
    BY <2>1
  <2>3. k + 1 <= MaxChapters => ~(k + 1 > MaxChapters)
    BY <2>1, NTHSConstants
  <2>4. QED
    BY <2>2, <2>3 DEF FoundingIsPossible, Taken, k
<1>2. QED
  BY <1>1, Invariance, PTL

\* The rows of a step: only founding and joining make a membership active, and of one
\* that has not been there.
LEMMA LeftStays ==
    ASSUME Typed, [Next]_vars
    PROVE  \A u \in Users, c \in Chapters : member[u][c] = "left" => member'[u][c] = "left"
<1>1. ASSUME member' = member
      PROVE  \A u \in Users, c \in Chapters : member[u][c] = "left" => member'[u][c] = "left"
  BY <1>1
<1>2. ASSUME NEW r \in Requests, CreateGroup(r)
      PROVE  \A u \in Users, c \in Chapters : member[u][c] = "left" => member'[u][c] = "left"
  <2>1. CASE member' = member
    BY <2>1
  <2>2. CASE seen[r] + 1 \notin founded /\ Sets(member, who[r], seen[r] + 1, "active")
    BY <2>2 DEF Sets, Typed, Rows
  <2>3. QED
    BY <1>2, <2>1, <2>2, CreateFacts
<1>3. ASSUME NEW r \in Requests, JoinInsert(r)
      PROVE  \A u \in Users, c \in Chapters : member[u][c] = "left" => member'[u][c] = "left"
  BY <1>3, InsertFacts DEF Sets
<1>4. ASSUME NEW r \in Requests, Deactivate(r)
      PROVE  \A u \in Users, c \in Chapters : member[u][c] = "left" => member'[u][c] = "left"
  BY <1>4, DeactivateFacts DEF Sets
<1>5. ASSUME NEW r \in Requests, BackgroundCommit(r)
      PROVE  \A u \in Users, c \in Chapters : member[u][c] = "left" => member'[u][c] = "left"
  BY <1>5, CommitFacts
<1>6. ASSUME NEW r \in Requests, Submit(r) \/ Throw(r) \/ GroupsCount(r) \/ JoinOccupations(r)
                                   \/ JoinRole(r) \/ ChangeRole(r)
      PROVE  member' = member
  BY <1>6 DEF Submit, FoundGroup, BackgroundRead, Join, UpdateGroupMember, Throw, GroupsCount,
     JoinOccupations, JoinRole, ChangeRole, tables
<1>7. CASE UpdateGroupName \/ Replicate \/ UNCHANGED vars
  BY <1>1, <1>7 DEF UpdateGroupName, Replicate, vars, tables
<1>8. QED
  BY <1>1, <1>2, <1>3, <1>4, <1>5, <1>6, <1>7 DEF Next, Serve

\* Who has left a chapter stays out of it, whatever he and others request.
THEOREM LeftForGood == Spec => LeftIsLeft
<1>1. IInv /\ [Next]_vars =>
         [\A u \in Users, c \in Chapters : member[u][c] = "left" => member'[u][c] = "left"]_vars
  BY LeftStays DEF IInv
<1>2. QED
  BY <1>1, Invariance, PTL DEF Spec, LeftIsLeft

=============================================================================
