------------------------------- MODULE Groups -------------------------------
(***************************************************************************)
(* The membership of one group (groups.service.ts): its owner creates it,  *)
(* users join, leave and are removed, the owner hands it over, edits it,   *)
(* changes its cover and dissolves it.                                     *)
(*                                                                         *)
(* Who owns the group is recorded twice: in groups.ownerId, which this     *)
(* service asks, and as the role of a row of group_members, which          *)
(* leaveGroup, cover voting and the order service ask.  An action is the   *)
(* stretch of a handler between two awaits.  A save writes a whole copy,   *)
(* read before, back over the row with the copy's id, or inserts it again  *)
(* if that row has been removed; a remove deletes by id.                   *)
(***************************************************************************)
EXTENDS Naturals

CONSTANTS
  Users,
  NoUser,      \* the group has not been created
  MaxRows,     \* group_members rows ever inserted (a bound)
  Calls        \* request handlers that may be in progress at once (a bound)

ASSUME NoUserAssumption == NoUser \notin Users
ASSUME MaxRowsAssumption == MaxRows \in Nat

\* Of the statuses only DELETED is ever asked for here.
Group == [owner : Users \cup {NoUser}, status : {"NONE", "ACTIVE", "DELETED"}]
NoGroup == [owner |-> NoUser, status |-> "NONE"]

\* A user's row of group_members, of which the unique index on group and user
\* allows one; id 0 is no row.
Row == [id : 0 .. MaxRows, role : {"OWNER", "MEMBER"}]
NoRow == [id |-> 0, role |-> "MEMBER"]

Points == {"idle", "createMember", "saveGroup", "joinFind", "joinSave",
           "remove", "removeFind", "transferFind", "transferBegin",
           "transferCommit"}

VARIABLES
  group,       \* the row of groups
  member,      \* each user's row of group_members
  lastId,      \* the last id given to one of those rows
  founded,     \* the creation of the group came to its end
  everOwner,   \* users the group has belonged to by ownerId
  call,        \* request handlers
  calm         \* so far no two requests have overlapped

groupVars == <<group, member, lastId, founded, everOwner, call, calm>>

-----------------------------------------------------------------------------
\* A handler that has got to a point for a user, about another one, with a copy
\* of the group, of the user's row and of the other one's.
Called(at, who, whom, copy, mine, theirs) ==
  [at |-> at, who |-> who, whom |-> whom, group |-> copy, mine |-> mine,
   theirs |-> theirs]

Idle == Called("idle", NoUser, NoUser, NoGroup, NoRow, NoRow)

Init ==
  /\ group = NoGroup
  /\ member = [u \in Users |-> NoRow]
  /\ lastId = 0
  /\ founded = FALSE
  /\ everOwner = {}
  /\ call = [p \in Calls |-> Idle]
  /\ calm = TRUE

At(p, at) == call[p].at = at
Goto(p, at) == call' = [call EXCEPT ![p].at = at]
\* Goes on with copies of the two rows.
Holding(p, at, mine, theirs) ==
  call' = [call EXCEPT ![p] = Called(at, call[p].who, call[p].whom, call[p].group,
                                     mine, theirs)]
Return(p) == call' = [call EXCEPT ![p] = Idle]
IsMember(u) == member[u].id # 0
OwnerRows == {u \in Users : IsMember(u) /\ member[u].role = "OWNER"}

\* Fault: the group is found whether or not it is dissolved.
BeginAnyway(p, at, u, v) ==
  /\ At(p, "idle") /\ group.status # "NONE"
  /\ call' = [call EXCEPT ![p] = Called(at, u, v, group, NoRow, NoRow)]

\* findGroupOrFail: a request begins with a copy of the group.
Begin(p, at, u, v) ==
  /\ At(p, "idle") /\ group.status = "ACTIVE"
  /\ call' = [call EXCEPT ![p] = Called(at, u, v, group, NoRow, NoRow)]

\* The same for what only the owner may do: verifyOwner on the copy.
BeginAsOwner(p, at, u, v) == group.owner = u /\ Begin(p, at, u, v)

\* groupsRepository.save of a copy.
SaveGroup(copy) ==
  /\ group' = copy
  /\ everOwner' = everOwner \cup {copy.owner}

\* The next row, for which the user must have none.
Insert(u, role) ==
  /\ ~IsMember(u) /\ lastId < MaxRows
  /\ lastId' = lastId + 1
  /\ member' = [member EXCEPT ![u] = [id |-> lastId + 1, role |-> role]]

\* A copy of a row can be saved over the row it was read from, or where there
\* is none; the unique index refuses it beside another row.
MaySave(u, copy) == member[u].id \in {0, copy.id}

-----------------------------------------------------------------------------
(* createGroup: two saves, no transaction *)

CreateGroup(p, u) ==
  /\ At(p, "idle") /\ group.status = "NONE"
  /\ SaveGroup([owner |-> u, status |-> "ACTIVE"])
  /\ call' = [call EXCEPT ![p] = 
                Called("createMember", u, NoUser, NoGroup, NoRow, NoRow)]
  /\ UNCHANGED <<member, lastId, founded>>

CreateMember(p) ==
  /\ At(p, "createMember")
  /\ \/ Insert(call[p].who, "OWNER") /\ founded' = TRUE
     \/ UNCHANGED <<member, lastId, founded>>
  /\ Return(p)
  /\ UNCHANGED <<group, everOwner>>

-----------------------------------------------------------------------------
(* updateGroup, uploadCover, deleteGroup *)

\* What updateGroup and uploadCover set is not modelled; both save the copy.
\* The cover is resized and stored before that.
EditStart(p, u) ==
  /\ BeginAsOwner(p, "saveGroup", u, u)
  /\ UNCHANGED <<group, member, lastId, founded, everOwner>>

DeleteStart(p, u) ==
  /\ At(p, "idle") /\ group.status = "ACTIVE" /\ group.owner = u
  /\ call' = [call EXCEPT ![p] =
                Called("saveGroup", u, u, [group EXCEPT !.status = "DELETED"],
                       NoRow, NoRow)]
  /\ UNCHANGED <<group, member, lastId, founded, everOwner>>

SaveCopy(p) ==
  /\ At(p, "saveGroup")
  /\ \/ SaveGroup(call[p].group)
     \/ UNCHANGED <<group, everOwner>>
  /\ Return(p)
  /\ UNCHANGED <<member, lastId, founded>>

-----------------------------------------------------------------------------
(* joinGroup *)

\* The invite code is checked against the copy of the group.
JoinStart(p, u) ==
  /\ Begin(p, "joinFind", u, u)
  /\ UNCHANGED <<group, member, lastId, founded, everOwner>>

JoinFind(p) ==
  /\ At(p, "joinFind")
  /\ IF IsMember(call[p].who) THEN Return(p) ELSE Goto(p, "joinSave")
  /\ UNCHANGED <<group, member, lastId, founded, everOwner>>

\* The activity and the owner's notification come after it and their failures
\* are swallowed.
JoinSave(p) ==
  /\ At(p, "joinSave")
  /\ \/ Insert(call[p].who, "MEMBER")
     \/ UNCHANGED <<member, lastId>>
  /\ Return(p)
  /\ UNCHANGED <<group, founded, everOwner>>

-----------------------------------------------------------------------------
(* leaveGroup, removeMember *)

\* Leaving asks for the role, and not whether the group is DELETED.
LeaveStart(p, u) ==
  /\ At(p, "idle") /\ IsMember(u) /\ member[u].role # "OWNER"
  /\ call' = [call EXCEPT ![p] =
                Called("remove", u, u, NoGroup, NoRow, member[u])]
  /\ UNCHANGED <<group, member, lastId, founded, everOwner>>

RemoveStart(p, u, v) ==
  /\ u # v
  /\ BeginAsOwner(p, "removeFind", u, v)
  /\ UNCHANGED <<group, member, lastId, founded, everOwner>>

RemoveFind(p) ==
  /\ At(p, "removeFind")
  /\ IF IsMember(call[p].whom)
     THEN Holding(p, "remove", NoRow, member[call[p].whom])
     ELSE Return(p)
  /\ UNCHANGED <<group, member, lastId, founded, everOwner>>

\* A row that is gone already is not an error.
Remove(p) ==
  /\ At(p, "remove")
  /\ \/ /\ member[call[p].whom].id = call[p].theirs.id
        /\ member' = [member EXCEPT ![call[p].whom] = NoRow]
     \/ UNCHANGED member
  /\ Return(p)
  /\ UNCHANGED <<group, lastId, founded, everOwner>>

-----------------------------------------------------------------------------
(* transferOwner *)

TransferStart(p, u, v) ==
  /\ u # v
  /\ BeginAsOwner(p, "transferFind", u, v)
  /\ UNCHANGED <<group, member, lastId, founded, everOwner>>

TransferFind(p) ==
  /\ At(p, "transferFind")
  /\ IF IsMember(call[p].whom)
     THEN Holding(p, "transferBegin", NoRow, member[call[p].whom])
     ELSE Return(p)
  /\ UNCHANGED <<group, member, lastId, founded, everOwner>>

TransferBegin(p) ==
  /\ At(p, "transferBegin")
  /\ IF IsMember(call[p].who)
     THEN Holding(p, "transferCommit", member[call[p].who], call[p].theirs)
     ELSE Return(p)
  /\ UNCHANGED <<group, member, lastId, founded, everOwner>>

\* Fault: the roles change hands, groups.ownerId does not.
TransferRolesOnly(p) ==
  LET c == call[p] IN
  /\ At(p, "transferCommit")
  /\ \/ /\ MaySave(c.who, c.mine) /\ MaySave(c.whom, c.theirs)
        /\ member' = [member EXCEPT
                        ![c.who] = [id |-> c.mine.id, role |-> "MEMBER"],
                        ![c.whom] = [id |-> c.theirs.id, role |-> "OWNER"]]
     \/ UNCHANGED member
  /\ Return(p)
  /\ UNCHANGED <<group, lastId, founded, everOwner>>

\* Three saves in one transaction, or a rollback.
TransferCommit(p) ==
  LET c == call[p] IN
  /\ At(p, "transferCommit")
  /\ \/ /\ MaySave(c.who, c.mine) /\ MaySave(c.whom, c.theirs)
        /\ member' = [member EXCEPT
                        ![c.who] = [id |-> c.mine.id, role |-> "MEMBER"],
                        ![c.whom] = [id |-> c.theirs.id, role |-> "OWNER"]]
        /\ SaveGroup([c.group EXCEPT !.owner = c.whom])
     \/ UNCHANGED <<group, member, everOwner>>
  /\ Return(p)
  /\ UNCHANGED <<lastId, founded>>

-----------------------------------------------------------------------------
Request(p) ==
  \E u \in Users :
    \/ CreateGroup(p, u)
    \/ EditStart(p, u)
    \/ DeleteStart(p, u)
    \/ JoinStart(p, u)
    \/ LeaveStart(p, u)
    \/ \E v \in Users : RemoveStart(p, u, v) \/ TransferStart(p, u, v)

Continue(p) ==
  \/ CreateMember(p)
  \/ SaveCopy(p)
  \/ JoinFind(p)
  \/ JoinSave(p)
  \/ RemoveFind(p)
  \/ Remove(p)
  \/ TransferFind(p)
  \/ TransferBegin(p)
  \/ TransferCommit(p)

-----------------------------------------------------------------------------
(* Properties *)

Handler == [at : Points, who : Users \cup {NoUser}, whom : Users \cup {NoUser},
            group : Group, mine : Row, theirs : Row]

\* Every variable has the type the entities and handlers give it.
GroupTypeOK ==
  /\ group \in Group
  /\ member \in [Users -> Row]
  /\ lastId \in 0 .. MaxRows
  /\ founded \in BOOLEAN
  /\ everOwner \subseteq Users
  /\ call \in [Calls -> Handler]
  /\ calm \in BOOLEAN

\* The two records of who owns the group agree, and exactly one member has the
\* role OWNER, while requests come one at a time, failures and crashes included
\* (a crash in the middle of its creation leaves a group without a member).
OneOwner == calm /\ founded => OwnerRows = {group.owner}

\* Whatever overlaps, fails or crashes, the role OWNER is only ever held by
\* someone to whom ownerId has pointed: the transaction of transferOwner makes
\* both records change together.
RoleWasGiven == OwnerRows \subseteq everOwner
=============================================================================
