---------------------------- MODULE GroupsProofs ----------------------------
(***************************************************************************)
(* Proofs about the groups and their cover votes, for every set of users,  *)
(* candidates and handlers.  GroupSafe and CoverSafe hold whatever         *)
(* overlaps or crashes: the two parts meet only in everOwner, which grows. *)
(***************************************************************************)
EXTENDS CoverVoting, TLAPS

\* What a handler holds about the users it was called for.
OwnersKnown ==
  /\ group.status # "NONE" => group.owner \in Users
  /\ \A p \in Calls :
       /\ ~At(p, "idle") => call[p].who \in Users
       /\ ~At(p, "idle") /\ ~At(p, "createMember") => call[p].whom \in Users
       /\ At(p, "createMember") => call[p].who \in everOwner
       /\ At(p, "saveGroup") => call[p].group.owner \in Users

GroupSafe == GroupTypeOK /\ OwnersKnown /\ RoleWasGiven

\* What a cover voting request holds.
VotersKnown ==
  \A p \in Calls :
    /\ ~VotingAt(p, "idle") => vote[p].who \in Users
    /\ VotingAt(p, "update") => vote[p].copy.state = "there"
    /\ VotingAt(p, "findConfirm") \/ VotingAt(p, "record") => vote[p].who \in everOwner

CoverTypeOK ==
  /\ cand \in [Cands -> Candidate]
  /\ votes \subseteq Cands \X Users
  /\ confirmedBy \subseteq Users
  /\ vote \in [Calls -> VoteHandler]

CoverSafe == CoverTypeOK /\ VotersKnown /\ ConfirmedByOwner /\ VotesCount

groupRows == <<group, member, lastId, founded, everOwner>>

-----------------------------------------------------------------------------
(* The parts of GroupSafe that a step of one handler can disturb *)

\* The new record of a handler has its type, field by field.
LEMMA HandlerType ==
  ASSUME NEW at \in Points, NEW who \in Users \cup {NoUser},
         NEW whom \in Users \cup {NoUser}, NEW g \in Group,
         NEW mine \in Row, NEW theirs \in Row
  PROVE  LET h == Called(at, who, whom, g, mine, theirs)
         IN  /\ h \in Handler /\ h.at = at /\ h.who = who /\ h.whom = whom
             /\ h.group = g /\ h.mine = mine /\ h.theirs = theirs
  BY DEF Handler, Called

\* The idle record is a handler record.
LEMMA IdleType ==
  /\ Idle \in Handler /\ Idle.at = "idle"
  /\ NoRow \in Row /\ NoGroup \in Group
  BY MaxRowsAssumption
     DEF Idle, Called, Handler, Points, NoGroup, Group, NoRow, Row

\* A handler that goes on or returns, while the rows stay as they are.
LEMMA HandlerMoves ==
  ASSUME GroupSafe, NEW p \in Calls, NEW h \in Handler,
         UNCHANGED groupRows, calm' \in BOOLEAN,
         call' = [call EXCEPT ![p] = h],
         h.at # "idle" => h.who \in Users,
         h.at # "idle" /\ h.at # "createMember" => h.whom \in Users,
         h.at = "createMember" => h.who \in everOwner,
         h.at = "saveGroup" => h.group.owner \in Users
  PROVE  GroupSafe'
  <1>1. GroupTypeOK'
    BY DEF GroupSafe, GroupTypeOK, groupRows
  <1>2. OwnersKnown'
    BY DEF GroupSafe, GroupTypeOK, OwnersKnown, groupRows, At
  <1>3. RoleWasGiven'
    BY DEF GroupSafe, RoleWasGiven, OwnerRows, IsMember, groupRows
  <1> QED BY <1>1, <1>2, <1>3 DEF GroupSafe

\* A handler that returns, while owners only become known and the rows keep
\* their type.
LEMMA HandlerReturns ==
  ASSUME GroupSafe, NEW p \in Calls, Return(p), UNCHANGED calm,
         group' \in Group, group'.status # "NONE" => group'.owner \in Users,
         member' \in [Users -> Row], lastId' \in 0 .. MaxRows,
         founded' \in BOOLEAN, everOwner' \subseteq Users,
         everOwner \subseteq everOwner', RoleWasGiven'
  PROVE  GroupSafe'
  <1>1. GroupTypeOK'
    BY IdleType DEF GroupSafe, GroupTypeOK, Return
  <1>2. OwnersKnown'
    BY IdleType DEF GroupSafe, GroupTypeOK, OwnersKnown, Return, At
  <1> QED BY <1>1, <1>2 DEF GroupSafe

-----------------------------------------------------------------------------
(* The requests begin *)

\* A request that begins with a copy of the group it found.
LEMMA BeginSafe ==
  ASSUME GroupSafe, NEW p \in Calls, NEW at \in Points \ {"idle", "createMember"},
         NEW u \in Users, NEW v \in Users, Begin(p, at, u, v),
         UNCHANGED groupRows, calm' \in BOOLEAN
  PROVE  GroupSafe'
  <1> DEFINE h == Called(at, u, v, group, NoRow, NoRow)
  <1>1. group \in Group /\ group.owner \in Users
    BY DEF GroupSafe, GroupTypeOK, OwnersKnown, Begin
  <1>2. h \in Handler /\ h.at = at /\ h.who = u /\ h.whom = v /\ h.group = group
    BY <1>1, HandlerType, IdleType
  <1>3. call' = [call EXCEPT ![p] = h]
    BY DEF Begin
  <1> HIDE DEF h
  <1> QED BY <1>1, <1>2, <1>3, HandlerMoves

\* Every request but createGroup leaves the rows alone when it begins.
LEMMA RequestSafe ==
  ASSUME GroupSafe, NEW p \in Calls, Request(p), calm' \in BOOLEAN
  PROVE  GroupSafe' /\ everOwner \subseteq everOwner'
  <1>1. PICK u \in Users :
          \/ CreateGroup(p, u) \/ EditStart(p, u) \/ DeleteStart(p, u)
          \/ JoinStart(p, u) \/ LeaveStart(p, u)
          \/ \E v \in Users : RemoveStart(p, u, v) \/ TransferStart(p, u, v)
    BY DEF Request
  <1>2. ASSUME CreateGroup(p, u)
        PROVE  GroupSafe' /\ everOwner \subseteq everOwner'
    <2> DEFINE h == Called("createMember", u, NoUser, NoGroup, NoRow, NoRow)
    <2>2. h \in Handler /\ h.at = "createMember" /\ h.who = u
      BY HandlerType, IdleType DEF Points
    <2>4. call' = [call EXCEPT ![p] = h]
      BY <1>2 DEF CreateGroup
    <2> HIDE DEF h
    <2>5. /\ group' = [owner |-> u, status |-> "ACTIVE"]
          /\ everOwner' = everOwner \cup {u}
          /\ UNCHANGED <<member, lastId, founded>>
      BY <1>2 DEF CreateGroup, SaveGroup
    <2>6. GroupTypeOK'
      BY <2>2, <2>4, <2>5 DEF GroupSafe, GroupTypeOK, Group
    <2>7. OwnersKnown'
      BY <2>2, <2>4, <2>5 DEF GroupSafe, GroupTypeOK, OwnersKnown, At
    <2>8. RoleWasGiven'
      BY <2>5 DEF GroupSafe, RoleWasGiven, OwnerRows, IsMember
    <2> QED BY <2>5, <2>6, <2>7, <2>8 DEF GroupSafe
  <1>3. ASSUME EditStart(p, u)
        PROVE  GroupSafe' /\ everOwner \subseteq everOwner'
    BY <1>3, BeginSafe DEF EditStart, BeginAsOwner, Points, groupRows
  <1>4. ASSUME DeleteStart(p, u)
        PROVE  GroupSafe' /\ everOwner \subseteq everOwner'
    <2> DEFINE g == [group EXCEPT !.status = "DELETED"]
               h == Called("saveGroup", u, u, g, NoRow, NoRow)
    <2>1. g \in Group /\ g.owner = u
      BY <1>4 DEF DeleteStart, GroupSafe, GroupTypeOK, Group
    <2> HIDE DEF g
    <2>3. /\ h \in Handler
          /\ h.at = "saveGroup" /\ h.who = u /\ h.whom = u /\ h.group = g
      BY <2>1, HandlerType, IdleType DEF Points
    <2>5. call' = [call EXCEPT ![p] = h]
      BY <1>4 DEF DeleteStart, g
    <2>6. UNCHANGED groupRows
      BY <1>4 DEF DeleteStart, groupRows
    <2> HIDE DEF h
    <2>7. GroupSafe'
      BY <2>1, <2>3, <2>5, <2>6, HandlerMoves
    <2> QED BY <2>6, <2>7 DEF groupRows
  <1>5. ASSUME JoinStart(p, u)
        PROVE  GroupSafe' /\ everOwner \subseteq everOwner'
    BY <1>5, BeginSafe DEF JoinStart, Points, groupRows
  <1>6. ASSUME LeaveStart(p, u)
        PROVE  GroupSafe' /\ everOwner \subseteq everOwner'
    <2> DEFINE h == Called("remove", u, u, NoGroup, NoRow, member[u])
    <2>2. h \in Handler /\ h.at = "remove" /\ h.who = u /\ h.whom = u
      BY HandlerType, IdleType DEF Points, GroupSafe, GroupTypeOK
    <2>4. call' = [call EXCEPT ![p] = h]
      BY <1>6 DEF LeaveStart
    <2>5. UNCHANGED groupRows
      BY <1>6 DEF LeaveStart, groupRows
    <2> HIDE DEF h
    <2>6. GroupSafe'
      BY <2>2, <2>4, <2>5, HandlerMoves
    <2> QED BY <2>5, <2>6 DEF groupRows
  <1>7. ASSUME NEW v \in Users, RemoveStart(p, u, v) \/ TransferStart(p, u, v)
        PROVE  GroupSafe' /\ everOwner \subseteq everOwner'
    BY <1>7, BeginSafe DEF RemoveStart, TransferStart, BeginAsOwner, Points, groupRows
  <1> QED BY <1>1, <1>2, <1>3, <1>4, <1>5, <1>6, <1>7

-----------------------------------------------------------------------------
(* The requests go on *)

\* A row that is inserted keeps the table typed, and adds an owner's row only
\* for the role OWNER.
LEMMA InsertSafe ==
  ASSUME GroupSafe, NEW u \in Users, NEW role \in {"OWNER", "MEMBER"},
         Insert(u, role), role = "OWNER" => u \in everOwner
  PROVE  /\ member' \in [Users -> Row] /\ lastId' \in 0 .. MaxRows
         /\ OwnerRows' \subseteq everOwner
  <1>1. /\ lastId \in 0 .. MaxRows /\ lastId < MaxRows /\ lastId' = lastId + 1
        /\ member \in [Users -> Row]
        /\ member' = [member EXCEPT ![u] = [id |-> lastId + 1, role |-> role]]
    BY DEF GroupSafe, GroupTypeOK, Insert
  <1>2. lastId + 1 \in 0 .. MaxRows
    BY <1>1, MaxRowsAssumption
  <1>3. [id |-> lastId + 1, role |-> role] \in Row
    BY <1>2 DEF Row
  <1>4. member' \in [Users -> Row]
    BY <1>1, <1>3
  <1>5. OwnerRows' \subseteq everOwner
    BY <1>1 DEF GroupSafe, RoleWasGiven, OwnerRows, IsMember
  <1> QED BY <1>1, <1>2, <1>4, <1>5

\* Every later stretch of a group request.
LEMMA ContinueSafe ==
  ASSUME GroupSafe, NEW p \in Calls, Continue(p), UNCHANGED calm
  PROVE  GroupSafe' /\ everOwner \subseteq everOwner'
  <1> DEFINE c == call[p]
  <1>0. /\ c \in Handler /\ GroupTypeOK /\ calm' \in BOOLEAN
        /\ group.status # "NONE" => group.owner \in Users
    BY DEF GroupSafe, GroupTypeOK, OwnersKnown
  <1>1. ASSUME CreateMember(p)
        PROVE  GroupSafe' /\ everOwner \subseteq everOwner'
    <2>1. c.who \in Users /\ c.who \in everOwner
      BY <1>1 DEF CreateMember, GroupSafe, OwnersKnown, At
    <2>2. UNCHANGED <<group, everOwner>> /\ Return(p)
      BY <1>1 DEF CreateMember
    <2>3. CASE Insert(c.who, "OWNER") /\ founded' = TRUE
      <3>1. /\ member' \in [Users -> Row] /\ lastId' \in 0 .. MaxRows
            /\ OwnerRows' \subseteq everOwner
        BY <2>1, <2>3, InsertSafe
      <3> QED BY <1>0, <2>2, <2>3, <3>1, HandlerReturns DEF GroupTypeOK, RoleWasGiven
    <2>4. CASE UNCHANGED <<member, lastId, founded>>
      BY <1>0, <2>2, <2>4, HandlerReturns
         DEF GroupTypeOK, GroupSafe, RoleWasGiven, OwnerRows, IsMember
    <2> QED BY <1>1, <2>3, <2>4 DEF CreateMember
  <1>2. ASSUME SaveCopy(p)
        PROVE  GroupSafe' /\ everOwner \subseteq everOwner'
    <2>1. c.group \in Group /\ c.group.owner \in Users
      BY <1>0, <1>2 DEF SaveCopy, GroupSafe, OwnersKnown, At, Handler
    <2>2. UNCHANGED <<member, lastId, founded>> /\ Return(p)
      BY <1>2 DEF SaveCopy
    <2>3. CASE SaveGroup(c.group)
      <3>1. group' = c.group /\ everOwner' = everOwner \cup {c.group.owner}
        BY <2>3 DEF SaveGroup
      <3>2. RoleWasGiven'
        BY <2>2, <3>1 DEF GroupSafe, RoleWasGiven, OwnerRows, IsMember
      <3> QED BY <1>0, <2>1, <2>2, <3>1, <3>2, HandlerReturns DEF GroupTypeOK
    <2>4. CASE UNCHANGED <<group, everOwner>>
      BY <1>0, <2>2, <2>4, HandlerReturns
         DEF GroupTypeOK, GroupSafe, RoleWasGiven, OwnerRows, IsMember
    <2> QED BY <1>2, <2>3, <2>4 DEF SaveCopy
  <1>3. ASSUME JoinFind(p)
        PROVE  GroupSafe' /\ everOwner \subseteq everOwner'
    <2>1. UNCHANGED groupRows /\ c.at = "joinFind"
      BY <1>3 DEF JoinFind, groupRows, At
    <2>2. CASE Return(p)
      BY <1>0, <2>1, <2>2, IdleType, HandlerMoves DEF Return, groupRows
    <2>3. CASE Goto(p, "joinSave")
      <3> DEFINE h == [c EXCEPT !.at = "joinSave"]
      <3>1. h \in Handler /\ h.at = "joinSave" /\ h.who = c.who /\ h.whom = c.whom
        BY <1>0 DEF Handler, Points
      <3>2. call' = [call EXCEPT ![p] = h]
        BY <2>3 DEF Goto
      <3>3. c.who \in Users /\ c.whom \in Users
        BY <2>1 DEF GroupSafe, OwnersKnown, At
      <3> HIDE DEF h, c
      <3>4. GroupSafe'
        BY <1>0, <2>1, <3>1, <3>2, <3>3, HandlerMoves
      <3> QED BY <2>1, <3>4 DEF groupRows
    <2> QED BY <1>3, <2>2, <2>3 DEF JoinFind
  <1>4. ASSUME JoinSave(p)
        PROVE  GroupSafe' /\ everOwner \subseteq everOwner'
    <2>1. c.who \in Users
      BY <1>4 DEF JoinSave, GroupSafe, OwnersKnown, At
    <2>2. UNCHANGED <<group, founded, everOwner>> /\ Return(p)
      BY <1>4 DEF JoinSave
    <2>3. CASE Insert(c.who, "MEMBER")
      <3>1. /\ member' \in [Users -> Row] /\ lastId' \in 0 .. MaxRows
            /\ OwnerRows' \subseteq everOwner
        BY <2>1, <2>3, InsertSafe
      <3> QED BY <1>0, <2>2, <3>1, HandlerReturns DEF GroupTypeOK, RoleWasGiven
    <2>4. CASE UNCHANGED <<member, lastId>>
      BY <1>0, <2>2, <2>4, HandlerReturns
         DEF GroupTypeOK, GroupSafe, RoleWasGiven, OwnerRows, IsMember
    <2> QED BY <1>4, <2>3, <2>4 DEF JoinSave
  <1>5. ASSUME NEW at \in {"remove", "transferBegin"}, ~At(p, "idle"),
               ~At(p, "createMember"), UNCHANGED groupRows,
               IF IsMember(c.whom)
               THEN Holding(p, at, NoRow, member[c.whom])
               ELSE Return(p)
        PROVE  GroupSafe' /\ everOwner \subseteq everOwner'
    <2>1. CASE Return(p)
      BY <1>0, <1>5, <2>1, IdleType, HandlerMoves DEF Return, groupRows
    <2>2. CASE Holding(p, at, NoRow, member[c.whom])
      <3> DEFINE h == Called(at, c.who, c.whom, c.group, NoRow, member[c.whom])
      <3>1. c.who \in Users /\ c.whom \in Users /\ c.group \in Group
        BY <1>0, <1>5 DEF GroupSafe, OwnersKnown, Handler
      <3> at \in Points
        BY DEF Points
      <3>2. member[c.whom] \in Row
        BY <1>0, <3>1 DEF GroupTypeOK
      <3>3. h \in Handler /\ h.at = at /\ h.who = c.who /\ h.whom = c.whom
        BY <3>1, <3>2, HandlerType, IdleType
      <3>4. call' = [call EXCEPT ![p] = h]
        BY <2>2 DEF Holding
      <3> HIDE DEF h, c
      <3>5. GroupSafe'
        BY <1>0, <1>5, <3>1, <3>3, <3>4, HandlerMoves
      <3> QED BY <1>5, <3>5 DEF groupRows
    <2> QED BY <1>5, <2>1, <2>2
  <1>6. ASSUME RemoveFind(p)
        PROVE  GroupSafe' /\ everOwner \subseteq everOwner'
    BY <1>5, <1>6 DEF RemoveFind, groupRows, At
  <1>7. ASSUME TransferFind(p)
        PROVE  GroupSafe' /\ everOwner \subseteq everOwner'
    BY <1>5, <1>7 DEF TransferFind, groupRows, At
  <1>8. ASSUME Remove(p)
        PROVE  GroupSafe' /\ everOwner \subseteq everOwner'
    <2>1. UNCHANGED <<group, lastId, founded, everOwner>> /\ Return(p)
      BY <1>8 DEF Remove
    <2>2. \/ member' = [member EXCEPT ![c.whom] = NoRow]
          \/ UNCHANGED member
      BY <1>8 DEF Remove
    <2>3. member' \in [Users -> Row] /\ RoleWasGiven'
      BY <1>0, <2>1, <2>2, IdleType
         DEF GroupTypeOK, GroupSafe, RoleWasGiven, OwnerRows, IsMember, NoRow
    <2> QED BY <1>0, <2>1, <2>3, HandlerReturns DEF GroupTypeOK
  <1>9. ASSUME TransferBegin(p)
        PROVE  GroupSafe' /\ everOwner \subseteq everOwner'
    <2>1. UNCHANGED groupRows /\ c.at = "transferBegin"
      BY <1>9 DEF TransferBegin, groupRows, At
    <2>2. CASE Return(p)
      BY <1>0, <2>1, <2>2, IdleType, HandlerMoves DEF Return, groupRows
    <2>3. CASE Holding(p, "transferCommit", member[c.who], c.theirs)
      <3> DEFINE h == Called("transferCommit", c.who, c.whom, c.group,
                             member[c.who], c.theirs)
      <3>1. /\ c.who \in Users /\ c.whom \in Users /\ c.group \in Group
            /\ c.theirs \in Row
        BY <1>0, <2>1 DEF GroupSafe, OwnersKnown, At, Handler
      <3>2. member[c.who] \in Row
        BY <1>0, <3>1 DEF GroupTypeOK
      <3>3. /\ h \in Handler /\ h.at = "transferCommit"
            /\ h.who = c.who /\ h.whom = c.whom
        BY <3>1, <3>2, HandlerType DEF Points
      <3>4. call' = [call EXCEPT ![p] = h]
        BY <2>3 DEF Holding
      <3> HIDE DEF h, c
      <3>5. GroupSafe'
        BY <1>0, <2>1, <3>1, <3>3, <3>4, HandlerMoves
      <3> QED BY <2>1, <3>5 DEF groupRows
    <2> QED BY <1>9, <2>2, <2>3 DEF TransferBegin
  <1>10. ASSUME TransferCommit(p)
         PROVE  GroupSafe' /\ everOwner \subseteq everOwner'
    <2>1. UNCHANGED <<lastId, founded>> /\ Return(p) /\ c.at = "transferCommit"
      BY <1>10 DEF TransferCommit, At
    <2>2. c.who \in Users /\ c.whom \in Users
      BY <2>1 DEF GroupSafe, OwnersKnown, At
    <2> DEFINE g == [c.group EXCEPT !.owner = c.whom]
               mine == [id |-> c.mine.id, role |-> "MEMBER"]
               theirs == [id |-> c.theirs.id, role |-> "OWNER"]
    <2>3. CASE /\ member' = [member EXCEPT ![c.who] = mine, ![c.whom] = theirs]
               /\ SaveGroup(g)
      <3>1. g \in Group /\ g.owner = c.whom
        BY <1>0, <2>2 DEF Handler, Group
      <3>2. mine \in Row /\ theirs \in Row /\ mine.role = "MEMBER"
        BY <1>0 DEF Handler, Row
      <3> HIDE DEF g, mine, theirs, c
      <3>3. group' = g /\ everOwner' = everOwner \cup {c.whom}
        BY <2>3, <3>1 DEF SaveGroup
      <3>4. member' \in [Users -> Row]
        BY <1>0, <2>2, <2>3, <3>2 DEF GroupTypeOK
      <3>5. RoleWasGiven'
        BY <1>0, <2>2, <2>3, <3>2, <3>3
           DEF GroupTypeOK, GroupSafe, RoleWasGiven, OwnerRows, IsMember
      <3> QED BY <1>0, <2>1, <2>2, <3>1, <3>3, <3>4, <3>5, HandlerReturns
              DEF GroupTypeOK
    <2>4. CASE UNCHANGED <<group, member, everOwner>>
      BY <1>0, <2>1, <2>4, HandlerReturns
         DEF GroupTypeOK, GroupSafe, RoleWasGiven, OwnerRows, IsMember
    <2> QED BY <1>10, <2>3, <2>4 DEF TransferCommit
  <1> QED BY <1>1, <1>2, <1>3, <1>4, <1>6, <1>7, <1>8, <1>9, <1>10 DEF Continue

-----------------------------------------------------------------------------
(* Cover voting requests *)

\* The new record of a cover voting request has its type, field by field.
LEMMA VotingType ==
  ASSUME NEW at \in VotePoints, NEW who \in Users \cup {NoUser},
         NEW role \in {"OWNER", "MEMBER"}, NEW cs \in SUBSET Cands,
         NEW copy \in Candidate
  PROVE  LET h == Voting(at, who, role, cs, copy)
         IN  /\ h \in VoteHandler /\ h.at = at /\ h.who = who /\ h.role = role
             /\ h.cand = cs /\ h.copy = copy
  BY DEF VoteHandler, Voting

\* The idle record is a request's record.
LEMMA VoteIdleType ==
  VoteIdle \in VoteHandler /\ VoteIdle.at = "idle" /\ NoCandidate \in Candidate
  BY DEF VoteIdle, Voting, VoteHandler, VotePoints, NoCandidate, Candidate

\* A request goes on or returns, while the candidates and votes stay sound.
LEMMA VoterMoves ==
  ASSUME CoverSafe, NEW p \in Calls, NEW h \in VoteHandler,
         vote' = [vote EXCEPT ![p] = h], everOwner \subseteq everOwner',
         cand' \in [Cands -> Candidate], votes' \subseteq Cands \X Users,
         confirmedBy' \subseteq Users, ConfirmedByOwner', VotesCount',
         h.at # "idle" => h.who \in Users,
         h.at = "update" => h.copy.state = "there",
         h.at \in {"findConfirm", "record"} => h.who \in everOwner
  PROVE  CoverSafe'
  <1>1. CoverTypeOK'
    BY DEF CoverSafe, CoverTypeOK
  <1>2. VotersKnown'
    BY DEF CoverSafe, CoverTypeOK, VotersKnown, VotingAt
  <1> QED BY <1>1, <1>2 DEF CoverSafe

\* The same when nothing but the request's record changes.
LEMMA VoterOnly ==
  ASSUME CoverSafe, NEW p \in Calls, NEW h \in VoteHandler,
         vote' = [vote EXCEPT ![p] = h], UNCHANGED everOwner,
         UNCHANGED <<cand, votes, confirmedBy>>,
         h.at # "idle" => h.who \in Users,
         h.at = "update" => h.copy.state = "there",
         h.at \in {"findConfirm", "record"} => h.who \in everOwner
  PROVE  CoverSafe'
  <1>1. /\ cand' \in [Cands -> Candidate] /\ votes' \subseteq Cands \X Users
        /\ confirmedBy' \subseteq Users
    BY DEF CoverSafe, CoverTypeOK
  <1>2. ConfirmedByOwner' /\ VotesCount'
    BY DEF CoverSafe, ConfirmedByOwner, VotesCount, There
  <1> QED BY <1>1, <1>2, VoterMoves

\* A request begins: a confirmation only for a member in the role OWNER, who has
\* owned the group.
LEMMA CoverRequestSafe ==
  ASSUME GroupSafe, CoverSafe, NEW p \in Calls, CoverRequest(p), UNCHANGED everOwner
  PROVE  CoverSafe'
  <1>1. ASSUME NEW u \in Users, NEW at \in VotePoints \ {"idle", "update", "record"},
               NEW cs \in SUBSET Cands, VoteBegin(p, at, u, cs),
               at = "findConfirm" => member[u].role = "OWNER"
        PROVE  CoverSafe'
    <2> DEFINE h == Voting(at, u, member[u].role, cs, NoCandidate)
    <2>1. member[u].role \in {"OWNER", "MEMBER"}
      BY DEF GroupSafe, GroupTypeOK, Row
    <2>2. h \in VoteHandler /\ h.at = at /\ h.who = u
      BY <2>1, VotingType, VoteIdleType
    <2>3. vote' = [vote EXCEPT ![p] = h] /\ UNCHANGED <<cand, votes, confirmedBy>>
      BY <1>1 DEF VoteBegin
    <2>4. at = "findConfirm" => u \in everOwner
      BY <1>1 DEF VoteBegin, GroupSafe, RoleWasGiven, OwnerRows
    <2> HIDE DEF h
    <2> QED BY <1>1, <2>2, <2>3, <2>4, VoterOnly
  <1>2. PICK u \in Users :
          \/ CreateStart(p, u)
          \/ \E c \in Cands : \/ UpdateStart(p, u, c) \/ DropStart(p, u, c)
                              \/ ToggleStart(p, u, c) \/ ConfirmStart(p, u, c)
    BY DEF CoverRequest
  <1>3. CASE CreateStart(p, u)
    BY <1>1, <1>3 DEF CreateStart, VotePoints
  <1>4. CASE \E c \in Cands : \/ UpdateStart(p, u, c) \/ DropStart(p, u, c)
                              \/ ToggleStart(p, u, c) \/ ConfirmStart(p, u, c)
    <2>1. PICK c \in Cands : \/ UpdateStart(p, u, c) \/ DropStart(p, u, c)
                             \/ ToggleStart(p, u, c) \/ ConfirmStart(p, u, c)
      BY <1>4
    <2>2. {c} \in SUBSET Cands
      OBVIOUS
    <2>3. CASE UpdateStart(p, u, c)
      BY <1>1, <2>2, <2>3 DEF UpdateStart, VotePoints
    <2>4. CASE DropStart(p, u, c)
      BY <1>1, <2>2, <2>4 DEF DropStart, VotePoints
    <2>5. CASE ToggleStart(p, u, c)
      BY <1>1, <2>2, <2>5 DEF ToggleStart, VotePoints
    <2>6. CASE ConfirmStart(p, u, c)
      BY <1>1, <2>2, <2>6 DEF ConfirmStart, VotePoints
    <2> QED BY <2>1, <2>3, <2>4, <2>5, <2>6
  <1> QED BY <1>2, <1>3, <1>4

\* The request comes back, while the candidates and votes stay sound.
LEMMA VoterReturns ==
  ASSUME CoverSafe, NEW p \in Calls, VoteReturn(p), UNCHANGED everOwner,
         cand' \in [Cands -> Candidate], votes' \subseteq Cands \X Users,
         confirmedBy' \subseteq Users, ConfirmedByOwner', VotesCount'
  PROVE  CoverSafe'
  <1>1. vote' = [vote EXCEPT ![p] = VoteIdle]
    BY DEF VoteReturn
  <1> QED BY <1>1, VoteIdleType, VoterMoves

\* The candidate is found and copied, or the request ends.
LEMMA FindSafe ==
  ASSUME CoverSafe, NEW p \in Calls, NEW at, NEW next \in VotePoints,
         FindCandidate(p, at, next), at # "idle", UNCHANGED everOwner,
         next \in {"findConfirm", "record"} => at = "findConfirm"
  PROVE  CoverSafe'
  <1> DEFINE w == vote[p]
  <1>1. PICK c \in w.cand :
          IF There(c) THEN vote' = [vote EXCEPT ![p] = Voting(next, w.who, w.role,
                                                              {c}, cand[c])]
                      ELSE VoteReturn(p)
    BY DEF FindCandidate
  <1>2. /\ UNCHANGED <<cand, votes, confirmedBy>> /\ w.at = at
        /\ w \in VoteHandler /\ c \in Cands /\ w.who \in Users
        /\ w.role \in {"OWNER", "MEMBER"}
    BY <1>1 DEF FindCandidate, VotingAt, CoverSafe, CoverTypeOK, VotersKnown,
                VoteHandler
  <1>3. CASE There(c) /\ vote' = [vote EXCEPT ![p] = Voting(next, w.who, w.role,
                                                            {c}, cand[c])]
    <2> DEFINE h == Voting(next, w.who, w.role, {c}, cand[c])
    <2>1. cand[c] \in Candidate /\ cand[c].state = "there"
      BY <1>2, <1>3 DEF CoverSafe, CoverTypeOK, There
    <2>2. /\ h \in VoteHandler /\ h.at = next /\ h.who = w.who
          /\ h.copy = cand[c]
      BY <1>2, <2>1, VotingType
    <2>3. next \in {"findConfirm", "record"} => w.who \in everOwner
      BY <1>2 DEF CoverSafe, VotersKnown, VotingAt
    <2>4. vote' = [vote EXCEPT ![p] = h]
      BY <1>3
    <2> HIDE DEF h, w
    <2> QED BY <1>2, <2>1, <2>2, <2>3, <2>4, VoterOnly
  <1>4. CASE VoteReturn(p)
    <2>1. vote' = [vote EXCEPT ![p] = VoteIdle]
      BY <1>4 DEF VoteReturn
    <2> QED BY <1>2, <2>1, VoteIdleType, VoterOnly
  <1> QED BY <1>1, <1>3, <1>4

\* Every later stretch of a cover voting request.
LEMMA CoverContinueSafe ==
  ASSUME CoverSafe, NEW p \in Calls, CoverContinue(p), UNCHANGED everOwner
  PROVE  CoverSafe'
  <1> DEFINE w == vote[p]
  <1>0. /\ w \in VoteHandler /\ w.cand \subseteq Cands /\ w.copy \in Candidate
        /\ cand \in [Cands -> Candidate] /\ votes \subseteq Cands \X Users
        /\ confirmedBy \subseteq Users /\ confirmedBy \subseteq everOwner
        /\ \A v \in votes : cand[v[1]].state = "there"
    BY DEF CoverSafe, CoverTypeOK, VoteHandler, ConfirmedByOwner, VotesCount, There
  <1>1. CASE CreateCandidate(p)
    <2>1. w.who \in Users
      BY <1>1 DEF CreateCandidate, CoverSafe, VotersKnown, VotingAt
    <2>2. UNCHANGED <<votes, confirmedBy>> /\ VoteReturn(p)
      BY <1>1 DEF CreateCandidate
    <2>3. /\ cand' \in [Cands -> Candidate]
          /\ \A c \in Cands : There(c) => There(c)'
      BY <1>0, <1>1, <2>1 DEF CreateCandidate, Candidate, There
    <2>4. ConfirmedByOwner' /\ VotesCount'
      BY <1>0, <2>2, <2>3 DEF ConfirmedByOwner, VotesCount, There
    <2> QED BY <1>0, <2>2, <2>3, <2>4, VoterReturns
  <1>2. CASE UpdateFind(p) \/ DropFind(p) \/ ToggleFind(p) \/ ConfirmFind(p)
    BY <1>2, FindSafe DEF UpdateFind, DropFind, ToggleFind, ConfirmFind, VotePoints
  <1>3. CASE UpdateSave(p)
    <2>1. UNCHANGED <<votes, confirmedBy>> /\ VoteReturn(p) /\ w.copy.state = "there"
      BY <1>3 DEF UpdateSave, CoverSafe, VotersKnown, VotingAt
    <2>2. /\ cand' \in [Cands -> Candidate]
          /\ \A c \in Cands : There(c) => There(c)'
      BY <1>0, <1>3, <2>1 DEF UpdateSave, There
    <2>3. ConfirmedByOwner' /\ VotesCount'
      BY <1>0, <2>1, <2>2 DEF ConfirmedByOwner, VotesCount, There
    <2> QED BY <1>0, <2>1, <2>2, <2>3, VoterReturns
  <1>4. CASE DropCandidate(p)
    <2>1. UNCHANGED confirmedBy /\ VoteReturn(p)
      BY <1>4 DEF DropCandidate
    <2>2. CASE UNCHANGED <<cand, votes>>
      <3>1. ConfirmedByOwner' /\ VotesCount'
        BY <1>0, <2>1, <2>2 DEF ConfirmedByOwner, VotesCount, There
      <3> QED BY <1>0, <2>1, <2>2, <3>1, VoterReturns
    <2>3. CASE \E c \in w.cand : /\ cand' = [cand EXCEPT ![c].state = "deleted"]
                                 /\ votes' = {v \in votes : v[1] # c}
      <3>1. PICK c \in Cands : /\ cand' = [cand EXCEPT ![c].state = "deleted"]
                               /\ votes' = {v \in votes : v[1] # c}
        BY <1>0, <2>3
      <3>2. cand' \in [Cands -> Candidate] /\ votes' \subseteq Cands \X Users
        BY <1>0, <3>1 DEF Candidate
      <3>3. ConfirmedByOwner' /\ VotesCount'
        BY <1>0, <2>1, <3>1 DEF ConfirmedByOwner, VotesCount, There
      <3> QED BY <1>0, <2>1, <3>2, <3>3, VoterReturns
    <2> QED BY <1>4, <2>2, <2>3 DEF DropCandidate
  <1>5. CASE FindVote(p)
    <2>1. PICK at \in {"removeVote", "insert"} : VoteGoto(p, at)
      BY <1>5 DEF FindVote
    <2> DEFINE h == [w EXCEPT !.at = at]
    <2>2. h \in VoteHandler /\ h.at = at /\ h.who = w.who
      BY <1>0 DEF VoteHandler, VotePoints
    <2>3. /\ vote' = [vote EXCEPT ![p] = h] /\ UNCHANGED <<cand, votes, confirmedBy>>
          /\ w.who \in Users
      BY <1>5, <2>1 DEF FindVote, VoteGoto, CoverSafe, VotersKnown, VotingAt
    <2> HIDE DEF h, w
    <2> QED BY <2>1, <2>2, <2>3, VoterOnly
  <1>6. CASE InsertVote(p)
    <2>1. UNCHANGED <<cand, confirmedBy>> /\ VoteReturn(p) /\ w.who \in Users
      BY <1>6 DEF InsertVote, CoverSafe, VotersKnown, VotingAt
    <2>2. CASE UNCHANGED votes
      <3>1. ConfirmedByOwner' /\ VotesCount'
        BY <1>0, <2>1, <2>2 DEF ConfirmedByOwner, VotesCount, There
      <3> QED BY <1>0, <2>1, <2>2, <3>1, VoterReturns
    <2>3. CASE \E c \in w.cand : There(c) /\ votes' = votes \cup {<<c, w.who>>}
      <3>1. votes' \subseteq Cands \X Users
        BY <1>0, <2>1, <2>3
      <3>2. ConfirmedByOwner' /\ VotesCount'
        BY <1>0, <2>1, <2>3 DEF ConfirmedByOwner, VotesCount, There
      <3> QED BY <1>0, <2>1, <3>1, <3>2, VoterReturns
    <2> QED BY <1>6, <2>2, <2>3 DEF InsertVote
  <1>7. CASE RemoveVote(p)
    <2>1. UNCHANGED <<cand, confirmedBy>> /\ VoteReturn(p) /\ votes' \subseteq votes
      BY <1>7 DEF RemoveVote
    <2>2. ConfirmedByOwner' /\ VotesCount' /\ votes' \subseteq Cands \X Users
      BY <1>0, <2>1 DEF ConfirmedByOwner, VotesCount, There
    <2> QED BY <1>0, <2>1, <2>2, VoterReturns
  <1>8. CASE Record(p)
    <2>1. /\ UNCHANGED <<cand, votes>> /\ VoteReturn(p)
          /\ w.who \in Users /\ w.who \in everOwner
      BY <1>8 DEF Record, CoverSafe, VotersKnown, VotingAt
    <2>2. confirmedBy' \subseteq confirmedBy \cup {w.who}
      BY <1>8 DEF Record
    <2>3. ConfirmedByOwner' /\ VotesCount' /\ confirmedBy' \subseteq Users
      BY <1>0, <2>1, <2>2 DEF ConfirmedByOwner, VotesCount, There
    <2> QED BY <1>0, <2>1, <2>3, VoterReturns
  <1> QED BY <1>1, <1>2, <1>3, <1>4, <1>5, <1>6, <1>7, <1>8 DEF CoverContinue

-----------------------------------------------------------------------------
(* The invariants of the composition *)

Safe == GroupSafe /\ CoverSafe

\* Nothing is recorded before the first request.
LEMMA InitSafe == CoverInit => Safe
  <1> SUFFICES ASSUME CoverInit PROVE Safe
    OBVIOUS
  <1>1. /\ group = NoGroup /\ member = [u \in Users |-> NoRow] /\ lastId = 0
        /\ founded = FALSE /\ everOwner = {} /\ call = [p \in Calls |-> Idle]
        /\ calm = TRUE
    BY DEF CoverInit, Init
  <1>2. GroupTypeOK
    <2>1. 0 \in 0 .. MaxRows
      BY MaxRowsAssumption
    <2>2. group \in Group /\ member \in [Users -> Row] /\ call \in [Calls -> Handler]
      BY <1>1, IdleType
    <2>3. founded \in BOOLEAN /\ everOwner \subseteq Users /\ calm \in BOOLEAN
      BY <1>1
    <2> QED BY <1>1, <2>1, <2>2, <2>3 DEF GroupTypeOK
  <1>3. OwnersKnown
    BY <1>1, IdleType DEF OwnersKnown, At, NoGroup
  <1>4. RoleWasGiven
    BY <1>1 DEF RoleWasGiven, OwnerRows, IsMember, NoRow
  <1>5. /\ cand = [c \in Cands |-> NoCandidate] /\ votes = {} /\ confirmedBy = {}
        /\ vote = [p \in Calls |-> VoteIdle]
    BY DEF CoverInit
  <1>6. CoverTypeOK
    BY <1>5, VoteIdleType DEF CoverTypeOK
  <1>7. VotersKnown
    BY <1>5, VoteIdleType DEF VotersKnown, VotingAt
  <1>8. ConfirmedByOwner /\ VotesCount
    BY <1>5 DEF ConfirmedByOwner, VotesCount
  <1> QED BY <1>2, <1>3, <1>4, <1>6, <1>7, <1>8 DEF Safe, GroupSafe, CoverSafe

\* The cover part does not notice a step of the group part that only adds owners.
LEMMA CoverKept ==
  ASSUME CoverSafe, UNCHANGED coverVars, everOwner \subseteq everOwner'
  PROVE  CoverSafe'
  BY DEF CoverSafe, coverVars, CoverTypeOK, VotersKnown, VotingAt,
         ConfirmedByOwner, VotesCount, There

\* The group part does not notice a step that leaves its rows and handlers alone.
LEMMA GroupKept ==
  ASSUME GroupSafe, UNCHANGED <<group, member, lastId, founded, everOwner, call>>,
         calm' \in BOOLEAN
  PROVE  GroupSafe'
  BY DEF GroupSafe, GroupTypeOK, OwnersKnown, At, RoleWasGiven, OwnerRows, IsMember

\* Every step keeps both parts, a crash included: it only forgets the requests.
LEMMA StepSafe ==
  ASSUME Safe, [Next]_vars
  PROVE  Safe'
  <1>0. GroupSafe /\ CoverSafe /\ calm \in BOOLEAN
    BY DEF Safe, GroupSafe, GroupTypeOK
  <1>1. CASE CoverCrash
    <2>1. /\ call' = [p \in Calls |-> Idle] /\ vote' = [p \in Calls |-> VoteIdle]
          /\ UNCHANGED <<group, member, lastId, founded, everOwner, calm, cand,
                         votes, confirmedBy>>
      BY <1>1 DEF CoverCrash
    <2>2. GroupTypeOK'
      BY <1>0, <2>1, IdleType DEF GroupSafe, GroupTypeOK
    <2>3. OwnersKnown'
      BY <1>0, <2>1, IdleType DEF GroupSafe, OwnersKnown, At
    <2>4. RoleWasGiven'
      BY <1>0, <2>1 DEF GroupSafe, RoleWasGiven, OwnerRows, IsMember
    <2>5. CoverTypeOK'
      BY <1>0, <2>1, VoteIdleType DEF CoverSafe, CoverTypeOK
    <2>6. VotersKnown'
      BY <2>1, VoteIdleType DEF VotersKnown, VotingAt
    <2>7. ConfirmedByOwner' /\ VotesCount'
      BY <1>0, <2>1 DEF CoverSafe, ConfirmedByOwner, VotesCount, There
    <2> QED BY <2>2, <2>3, <2>4, <2>5, <2>6, <2>7 DEF Safe, GroupSafe, CoverSafe
  <1>2. ASSUME NEW p \in Calls, OneOf(p)
        PROVE  Safe'
    <2>1. CASE Request(p) /\ UNCHANGED coverVars /\ calm' \in BOOLEAN
      BY <1>0, <2>1, RequestSafe, CoverKept DEF Safe
    <2>2. CASE /\ CoverRequest(p) /\ calm' \in BOOLEAN
               /\ UNCHANGED <<group, member, lastId, founded, everOwner, call>>
      BY <1>0, <2>2, CoverRequestSafe, GroupKept DEF Safe
    <2>3. CASE Continue(p) /\ UNCHANGED <<calm, cand, votes, confirmedBy, vote>>
      BY <1>0, <2>3, ContinueSafe, CoverKept DEF Safe, coverVars
    <2>4. CASE CoverContinue(p) /\ UNCHANGED groupVars
      BY <1>0, <2>4, CoverContinueSafe, GroupKept DEF Safe, groupVars
    <2>5. calm' = (calm /\ \A q \in Calls : ~Busy(q)) => calm' \in BOOLEAN
      OBVIOUS
    <2> QED BY <1>2, <2>1, <2>2, <2>3, <2>4, <2>5 DEF OneOf
  <1>3. CASE UNCHANGED vars
    BY <1>0, <1>3, GroupKept, CoverKept DEF Safe, vars, groupVars
  <1> QED BY <1>1, <1>2, <1>3 DEF Next

\* The conjunction is an invariant.
THEOREM SafeAlways == Spec => []Safe
  <1>1. Safe /\ [Next]_vars => Safe'
    BY StepSafe
  <1> QED BY <1>1, InitSafe, PTL DEF Spec

\* Every variable keeps its type.
THEOREM TypeAlwaysOK == Spec => []TypeOK
  <1>1. Safe => TypeOK
    BY DEF Safe, GroupSafe, CoverSafe, CoverTypeOK, TypeOK
  <1> QED BY <1>1, SafeAlways, PTL

\* Whatever overlaps, fails or crashes, the role OWNER of a membership row is
\* only ever held by someone to whom groups.ownerId has pointed.
THEOREM RoleWasAlwaysGiven == Spec => []RoleWasGiven
  <1>1. Safe => RoleWasGiven
    BY DEF Safe, GroupSafe
  <1> QED BY <1>1, SafeAlways, PTL

\* A cover is confirmed only by someone who has owned the group, whatever hands
\* the group over between the check of the role and the record.
THEOREM AlwaysConfirmedByOwner == Spec => []ConfirmedByOwner
  <1>1. Safe => ConfirmedByOwner
    BY DEF Safe, CoverSafe
  <1> QED BY <1>1, SafeAlways, PTL

\* Every vote is for a candidate that is there.
THEOREM VotesAlwaysCount == Spec => []VotesCount
  <1>1. Safe => VotesCount
    BY DEF Safe, CoverSafe
  <1> QED BY <1>1, SafeAlways, PTL

-----------------------------------------------------------------------------
(* While requests come one at a time: what the one that is going on holds is *)
(* what the tables say                                                       *)

FreshFor(h, g, m, f) ==
  /\ h.at = "createMember" =>
       g.status = "ACTIVE" /\ g.owner = h.who /\ ~f /\ \A u \in Users : m[u].id = 0
  /\ h.at = "saveGroup" =>
       g.status = "ACTIVE" /\ h.group.owner = g.owner /\ h.group.status # "NONE"
  /\ h.at \in {"removeFind", "remove"} /\ f => h.whom # g.owner
  /\ h.at \in {"transferFind", "transferBegin", "transferCommit"} =>
       g.status = "ACTIVE" /\ h.group = g /\ h.who = g.owner /\ h.whom # h.who
  /\ h.at \in {"transferBegin", "transferCommit"} => h.theirs.id # 0

FreshVote(p) ==
  VotingAt(p, "update") \/ VotingAt(p, "delete") => \A c \in vote[p].cand : There(c)

CalmInv ==
  calm =>
    /\ \A p, q \in Calls : Busy(p) /\ Busy(q) => p = q
    /\ group.status = "NONE" =>
         /\ ~founded /\ \A u \in Users : ~IsMember(u)
         /\ \A p \in Calls : At(p, "idle")
    /\ founded => OwnerRows = {group.owner}
    /\ \A p \in Calls : FreshFor(call[p], group, member, founded) /\ FreshVote(p)

\* What DeletedForGood says of a step.
DeletedStays ==
  /\ group.status = "DELETED" => group' = group
  /\ \A c \in Cands : cand[c].state = "deleted" => cand'[c] = cand[c]

\* The only group request there is goes on with a record that is fresh.
LEMMA CalmMoves ==
  ASSUME GroupSafe, CalmInv, calm, NEW p \in Calls, NEW h \in Handler,
         call' = [call EXCEPT ![p] = h], UNCHANGED coverVars,
         \A q \in Calls \ {p} : ~Busy(q), group'.status # "NONE",
         founded' => OwnerRows' = {group'.owner},
         FreshFor(h, group', member', founded')
  PROVE  CalmInv'
  <1>0. call \in [Calls -> Handler]
    BY DEF GroupSafe, GroupTypeOK
  <1>1. call'[p] = h /\ \A q \in Calls \ {p} : call'[q] = call[q]
    BY <1>0
  <1>2. \A q \in Calls \ {p} : ~Busy(q)' /\ call'[q].at = "idle"
    BY <1>1 DEF Busy, At, VotingAt, coverVars
  <1>3. \A q \in Calls : FreshFor(call[q], group, member, founded)'
    <2>1. FreshFor(call'[p], group', member', founded')
      BY <1>1
    <2>2. ASSUME NEW q \in Calls \ {p}
          PROVE  FreshFor(call'[q], group', member', founded')
      BY <1>2 DEF FreshFor
    <2> QED BY <2>1, <2>2
  <1>4. \A q \in Calls : FreshVote(q)'
    BY DEF CalmInv, FreshVote, VotingAt, There, coverVars
  <1> QED BY <1>2, <1>3, <1>4 DEF CalmInv

\* The only group request there is comes back.
LEMMA CalmReturns ==
  ASSUME GroupSafe, CalmInv, calm, NEW p \in Calls, Return(p), UNCHANGED coverVars,
         \A q \in Calls \ {p} : ~Busy(q), group'.status # "NONE",
         founded' => OwnerRows' = {group'.owner}
  PROVE  CalmInv'
  <1>1. call' = [call EXCEPT ![p] = Idle] /\ Idle \in Handler
    BY IdleType DEF Return
  <1>2. FreshFor(Idle, group', member', founded')
    BY IdleType DEF FreshFor
  <1> QED BY <1>1, <1>2, CalmMoves

\* A group request begins when there is no other.
LEMMA CalmRequest ==
  ASSUME GroupSafe, CalmInv, calm, NEW p \in Calls, Request(p), UNCHANGED coverVars,
         \A q \in Calls : ~Busy(q)
  PROVE  CalmInv' /\ DeletedStays
  <1>0. \A c \in Cands : cand'[c] = cand[c]
    BY DEF coverVars
  <1>1. PICK u \in Users :
          \/ CreateGroup(p, u) \/ EditStart(p, u) \/ DeleteStart(p, u)
          \/ JoinStart(p, u) \/ LeaveStart(p, u)
          \/ \E v \in Users : RemoveStart(p, u, v) \/ TransferStart(p, u, v)
    BY DEF Request
  <1>2. CASE CreateGroup(p, u)
    <2> DEFINE h == Called("createMember", u, NoUser, NoGroup, NoRow, NoRow)
    <2>1. h \in Handler /\ h.at = "createMember" /\ h.who = u
      BY HandlerType, IdleType DEF Points
    <2>2. /\ call' = [call EXCEPT ![p] = h] /\ group.status = "NONE"
          /\ group' = [owner |-> u, status |-> "ACTIVE"]
          /\ UNCHANGED <<member, lastId, founded>>
      BY <1>2 DEF CreateGroup, SaveGroup
    <2>3. ~founded' /\ \A w \in Users : member'[w].id = 0
      BY <2>2 DEF CalmInv, IsMember
    <2> HIDE DEF h
    <2>4. FreshFor(h, group', member', founded')
      BY <2>1, <2>2, <2>3 DEF FreshFor
    <2> QED BY <1>0, <2>1, <2>2, <2>3, <2>4, CalmMoves DEF DeletedStays
  <1>3. ASSUME NEW at \in Points, NEW v \in Users, NEW g \in Group, NEW row \in Row,
               call' = [call EXCEPT ![p] = Called(at, u, v, g, NoRow, row)],
               UNCHANGED groupRows, group.status # "NONE",
               FreshFor(Called(at, u, v, g, NoRow, row), group, member, founded)
        PROVE  CalmInv' /\ DeletedStays
    <2> DEFINE h == Called(at, u, v, g, NoRow, row)
    <2>1. h \in Handler
      BY HandlerType, IdleType
    <2>2. /\ group' = group /\ founded' = founded /\ OwnerRows' = OwnerRows
          /\ FreshFor(h, group', member', founded')
      BY <1>3 DEF groupRows, OwnerRows, IsMember
    <2>3. call' = [call EXCEPT ![p] = h]
      BY <1>3
    <2> HIDE DEF h
    <2>4. founded' => OwnerRows' = {group'.owner}
      BY <2>2 DEF CalmInv
    <2>5. CalmInv'
      BY <1>3, <2>1, <2>2, <2>3, <2>4, CalmMoves
    <2> QED BY <1>0, <2>2, <2>5 DEF DeletedStays
  <1>4. group \in Group /\ NoGroup \in Group /\ NoRow \in Row /\ member[u] \in Row
    BY IdleType DEF GroupSafe, GroupTypeOK
  <1>5. CASE EditStart(p, u)
    <2>1. FreshFor(Called("saveGroup", u, u, group, NoRow, NoRow), group, member, founded)
      BY <1>5 DEF EditStart, BeginAsOwner, Begin, FreshFor, Called
    <2> QED BY <1>3, <1>4, <1>5, <2>1
            DEF EditStart, BeginAsOwner, Begin, Points, groupRows
  <1>6. CASE DeleteStart(p, u)
    <2> DEFINE g == [group EXCEPT !.status = "DELETED"]
    <2>1. g \in Group /\ g.owner = group.owner /\ g.status = "DELETED"
      BY <1>4 DEF Group
    <2>2. call' = [call EXCEPT ![p] = Called("saveGroup", u, u, g, NoRow, NoRow)]
      BY <1>6 DEF DeleteStart
    <2> HIDE DEF g
    <2>3. FreshFor(Called("saveGroup", u, u, g, NoRow, NoRow), group, member, founded)
      BY <1>6, <2>1 DEF DeleteStart, FreshFor, Called
    <2> QED BY <1>3, <1>4, <1>6, <2>1, <2>2, <2>3 DEF DeleteStart, Points, groupRows
  <1>7. CASE JoinStart(p, u)
    <2>1. FreshFor(Called("joinFind", u, u, group, NoRow, NoRow), group, member, founded)
      BY DEF FreshFor, Called
    <2> QED BY <1>3, <1>4, <1>7, <2>1 DEF JoinStart, Begin, Points, groupRows
  <1>8. CASE LeaveStart(p, u)
    <2>1. IsMember(u) /\ u \notin OwnerRows
      BY <1>8 DEF LeaveStart, OwnerRows
    <2>2. group.status # "NONE" /\ (founded => u # group.owner)
      BY <2>1 DEF CalmInv
    <2>3. FreshFor(Called("remove", u, u, NoGroup, NoRow, member[u]), group, member,
                   founded)
      BY <2>2 DEF FreshFor, Called
    <2> QED BY <1>3, <1>4, <1>8, <2>2, <2>3 DEF LeaveStart, Points, groupRows
  <1>9. ASSUME NEW v \in Users, RemoveStart(p, u, v)
        PROVE  CalmInv' /\ DeletedStays
    <2>1. FreshFor(Called("removeFind", u, v, group, NoRow, NoRow), group, member,
                   founded)
      BY <1>9 DEF RemoveStart, BeginAsOwner, FreshFor, Called
    <2> QED BY <1>3, <1>4, <1>9, <2>1
            DEF RemoveStart, BeginAsOwner, Begin, Points, groupRows
  <1>10. ASSUME NEW v \in Users, TransferStart(p, u, v)
         PROVE  CalmInv' /\ DeletedStays
    <2>1. FreshFor(Called("transferFind", u, v, group, NoRow, NoRow), group, member,
                   founded)
      BY <1>10 DEF TransferStart, BeginAsOwner, Begin, FreshFor, Called
    <2> QED BY <1>3, <1>4, <1>10, <2>1
            DEF TransferStart, BeginAsOwner, Begin, Points, groupRows
  <1> QED BY <1>1, <1>2, <1>5, <1>6, <1>7, <1>8, <1>9, <1>10

\* The only group request there is goes on.
LEMMA CalmContinue ==
  ASSUME GroupSafe, CalmInv, calm, NEW p \in Calls, Continue(p), UNCHANGED coverVars
  PROVE  CalmInv' /\ DeletedStays
  <1> DEFINE c == call[p]
  <1>0. /\ c \in Handler /\ member \in [Users -> Row]
        /\ c.at # "idle" => c.who \in Users
        /\ c.at # "idle" /\ c.at # "createMember" => c.whom \in Users
        /\ \A k \in Cands : cand'[k] = cand[k]
    BY DEF GroupSafe, GroupTypeOK, OwnersKnown, At, coverVars
  <1>1. c.at # "idle"
    BY DEF Continue, CreateMember, SaveCopy, JoinFind, JoinSave, RemoveFind, Remove,
           TransferFind, TransferBegin, TransferCommit, At
  <1>2. \A q \in Calls \ {p} : ~Busy(q)
    BY <1>1 DEF CalmInv, Busy, At
  <1>3. FreshFor(c, group, member, founded) /\ group.status # "NONE"
    BY <1>1 DEF CalmInv, At
  <1>4. founded => OwnerRows = {group.owner}
    BY DEF CalmInv
  \* A request that comes back with the rows as they were.
  <1>5. ASSUME Return(p), UNCHANGED <<group, member, founded>>
        PROVE  CalmInv' /\ DeletedStays
    <2>1. OwnerRows' = OwnerRows
      BY <1>5 DEF OwnerRows, IsMember
    <2> QED BY <1>0, <1>2, <1>3, <1>4, <1>5, <2>1, CalmReturns DEF DeletedStays
  \* A request that goes on with the rows as they are.
  <1>6. ASSUME NEW at \in Points, NEW mine \in Row, NEW theirs \in Row,
               Holding(p, at, mine, theirs), UNCHANGED <<group, member, founded>>,
               FreshFor(Called(at, c.who, c.whom, c.group, mine, theirs),
                        group, member, founded)
        PROVE  CalmInv' /\ DeletedStays
    <2> DEFINE h == Called(at, c.who, c.whom, c.group, mine, theirs)
    <2>1. h \in Handler
      BY <1>0, HandlerType DEF Handler
    <2>2. call' = [call EXCEPT ![p] = h] /\ FreshFor(h, group', member', founded')
      BY <1>6 DEF Holding
    <2>3. OwnerRows' = OwnerRows
      BY <1>6 DEF OwnerRows, IsMember
    <2> HIDE DEF h
    <2>4. CalmInv'
      BY <1>2, <1>3, <1>4, <1>6, <2>1, <2>2, <2>3, CalmMoves
    <2> QED BY <1>0, <1>6, <2>4 DEF DeletedStays
  <1>7. ASSUME CreateMember(p)
        PROVE  CalmInv' /\ DeletedStays
    <2>1. /\ UNCHANGED group /\ Return(p) /\ ~founded /\ c.who = group.owner
          /\ \A u \in Users : member[u].id = 0
      BY <1>3, <1>7 DEF CreateMember, At, FreshFor
    <2>2. CASE Insert(c.who, "OWNER") /\ founded' = TRUE
      <3>1. OwnerRows' = {group.owner}
        BY <1>0, <1>1, <2>1, <2>2 DEF Insert, OwnerRows, IsMember, GroupSafe, GroupTypeOK
      <3> QED BY <1>0, <1>2, <1>3, <2>1, <3>1, CalmReturns DEF DeletedStays
    <2>3. CASE UNCHANGED <<member, lastId, founded>>
      BY <1>5, <2>1, <2>3
    <2> QED BY <1>7, <2>2, <2>3 DEF CreateMember
  <1>8. ASSUME SaveCopy(p)
        PROVE  CalmInv' /\ DeletedStays
    <2>1. /\ UNCHANGED <<member, founded>> /\ Return(p)
          /\ group.status = "ACTIVE" /\ c.group.owner = group.owner
          /\ c.group.status # "NONE"
      BY <1>3, <1>8 DEF SaveCopy, At, FreshFor
    <2>2. CASE SaveGroup(c.group)
      <3>1. group' = c.group
        BY <2>2 DEF SaveGroup
      <3>2. OwnerRows' = OwnerRows
        BY <2>1 DEF OwnerRows, IsMember
      <3> QED BY <1>0, <1>2, <1>4, <2>1, <3>1, <3>2, CalmReturns DEF DeletedStays
    <2>3. CASE UNCHANGED <<group, everOwner>>
      BY <1>5, <2>1, <2>3
    <2> QED BY <1>8, <2>2, <2>3 DEF SaveCopy
  <1>9. ASSUME JoinFind(p)
        PROVE  CalmInv' /\ DeletedStays
    <2>1. UNCHANGED <<group, member, founded>>
      BY <1>9 DEF JoinFind
    <2>2. CASE Return(p)
      BY <1>5, <2>1, <2>2
    <2>3. CASE Goto(p, "joinSave")
      <3> DEFINE h == [c EXCEPT !.at = "joinSave"]
      <3>1. h \in Handler /\ h.at = "joinSave"
        BY <1>0 DEF Handler, Points
      <3>2. call' = [call EXCEPT ![p] = h]
        BY <2>3 DEF Goto
      <3> HIDE DEF h
      <3>3. FreshFor(h, group', member', founded') /\ OwnerRows' = OwnerRows
        BY <2>1, <3>1 DEF FreshFor, OwnerRows, IsMember
      <3>4. CalmInv'
        BY <1>2, <1>3, <1>4, <2>1, <3>1, <3>2, <3>3, CalmMoves
      <3> QED BY <1>0, <2>1, <3>4 DEF DeletedStays
    <2> QED BY <1>9, <2>2, <2>3 DEF JoinFind
  <1>10. ASSUME JoinSave(p)
         PROVE  CalmInv' /\ DeletedStays
    <2>1. UNCHANGED <<group, founded>> /\ Return(p)
      BY <1>10 DEF JoinSave
    <2>2. CASE Insert(c.who, "MEMBER")
      <3>1. OwnerRows' = OwnerRows
        BY <1>0, <2>2 DEF Insert, OwnerRows, IsMember
      <3> QED BY <1>0, <1>2, <1>3, <1>4, <2>1, <3>1, CalmReturns DEF DeletedStays
    <2>3. CASE UNCHANGED <<member, lastId>>
      BY <1>5, <2>1, <2>3
    <2> QED BY <1>10, <2>2, <2>3 DEF JoinSave
  <1>11. ASSUME RemoveFind(p)
         PROVE  CalmInv' /\ DeletedStays
    <2>1. UNCHANGED <<group, member, founded>> /\ c.at = "removeFind"
      BY <1>11 DEF RemoveFind, At
    <2>2. member[c.whom] \in Row /\ NoRow \in Row
      BY <1>0, <2>1, IdleType
    <2>3. FreshFor(Called("remove", c.who, c.whom, c.group, NoRow, member[c.whom]),
                   group, member, founded)
      BY <1>3, <2>1 DEF FreshFor, Called
    <2> QED BY <1>5, <1>6, <1>11, <2>1, <2>2, <2>3 DEF RemoveFind, Points
  <1>12. ASSUME Remove(p)
         PROVE  CalmInv' /\ DeletedStays
    <2>1. /\ UNCHANGED <<group, founded>> /\ Return(p)
          /\ founded => c.whom # group.owner
      BY <1>3, <1>12 DEF Remove, At, FreshFor
    <2>2. CASE member' = [member EXCEPT ![c.whom] = NoRow]
      <3>1. founded => OwnerRows' = {group.owner}
        BY <1>0, <1>4, <2>1, <2>2 DEF OwnerRows, IsMember, NoRow
      <3> QED BY <1>0, <1>2, <1>3, <2>1, <3>1, CalmReturns DEF DeletedStays
    <2>3. CASE UNCHANGED member
      BY <1>5, <2>1, <2>3
    <2> QED BY <1>12, <2>2, <2>3 DEF Remove
  <1>13. ASSUME TransferFind(p)
         PROVE  CalmInv' /\ DeletedStays
    <2>1. UNCHANGED <<group, member, founded>> /\ c.at = "transferFind"
      BY <1>13 DEF TransferFind, At
    <2>2. member[c.whom] \in Row /\ NoRow \in Row
      BY <1>0, <2>1, IdleType
    <2>3. CASE IsMember(c.whom) /\ Holding(p, "transferBegin", NoRow, member[c.whom])
      <3>1. FreshFor(Called("transferBegin", c.who, c.whom, c.group, NoRow,
                            member[c.whom]), group, member, founded)
        BY <1>3, <2>1, <2>3 DEF FreshFor, Called, IsMember
      <3> QED BY <1>6, <2>1, <2>2, <2>3, <3>1 DEF Points
    <2>4. CASE Return(p)
      BY <1>5, <2>1, <2>4
    <2> QED BY <1>13, <2>3, <2>4 DEF TransferFind
  <1>14. ASSUME TransferBegin(p)
         PROVE  CalmInv' /\ DeletedStays
    <2>1. UNCHANGED <<group, member, founded>> /\ c.at = "transferBegin"
      BY <1>14 DEF TransferBegin, At
    <2>2. member[c.who] \in Row /\ c.theirs \in Row
      BY <1>0, <2>1 DEF Handler
    <2>3. FreshFor(Called("transferCommit", c.who, c.whom, c.group, member[c.who],
                          c.theirs), group, member, founded)
      BY <1>3, <2>1 DEF FreshFor, Called
    <2> QED BY <1>5, <1>6, <1>14, <2>1, <2>2, <2>3 DEF TransferBegin, Points
  <1>15. ASSUME TransferCommit(p)
         PROVE  CalmInv' /\ DeletedStays
    <2> DEFINE g == [c.group EXCEPT !.owner = c.whom]
               mine == [id |-> c.mine.id, role |-> "MEMBER"]
               theirs == [id |-> c.theirs.id, role |-> "OWNER"]
    <2>1. /\ UNCHANGED founded /\ Return(p) /\ c.who \in Users /\ c.whom \in Users
          /\ group.status = "ACTIVE" /\ c.group = group /\ c.who = group.owner
          /\ c.whom # c.who /\ c.theirs.id # 0
      BY <1>0, <1>3, <1>15 DEF TransferCommit, At, FreshFor
    <2>2. CASE /\ member' = [member EXCEPT ![c.who] = mine, ![c.whom] = theirs]
               /\ SaveGroup(g)
      <3>1. g.owner = c.whom /\ g.status = "ACTIVE"
        BY <1>0, <2>1 DEF Handler, Group
      <3>2. mine.role = "MEMBER" /\ theirs.role = "OWNER" /\ theirs.id # 0
        BY <2>1
      <3>3. group' = g
        BY <2>2 DEF SaveGroup
      <3> HIDE DEF g, mine, theirs, c
      <3>4. /\ member'[c.who] = mine /\ member'[c.whom] = theirs
            /\ \A u \in Users \ {c.who, c.whom} : member'[u] = member[u]
        BY <1>0, <2>1, <2>2
      <3>5. founded' => OwnerRows' = {c.whom}
        BY <1>4, <2>1, <3>2, <3>4 DEF OwnerRows, IsMember
      <3> QED BY <1>0, <1>2, <2>1, <3>1, <3>3, <3>5, CalmReturns DEF DeletedStays
    <2>3. CASE UNCHANGED <<group, member, everOwner>>
      BY <1>5, <2>1, <2>3
    <2> QED BY <1>15, <2>2, <2>3 DEF TransferCommit
  <1> QED BY <1>7, <1>8, <1>9, <1>10, <1>11, <1>12, <1>13, <1>14, <1>15 DEF Continue

\* A cover voting request moves or returns, and with it all that is fresh.
LEMMA CalmVoterMoves ==
  ASSUME CoverSafe, CalmInv, calm, NEW p \in Calls, NEW h \in VoteHandler,
         vote' = [vote EXCEPT ![p] = h],
         UNCHANGED <<group, member, lastId, founded, everOwner, call>>,
         \A q \in Calls \ {p} : ~Busy(q),
         h.at \in {"update", "delete"} => \A c \in h.cand : cand'[c].state = "there"
  PROVE  CalmInv'
  <1>0. vote \in [Calls -> VoteHandler]
    BY DEF CoverSafe, CoverTypeOK
  <1>1. vote'[p] = h /\ \A q \in Calls \ {p} : vote'[q] = vote[q]
    BY <1>0
  <1>2. \A q \in Calls \ {p} : ~Busy(q)' /\ vote'[q].at = "idle"
    BY <1>1 DEF Busy, At, VotingAt
  <1>3. \A q \in Calls : FreshVote(q)'
    BY <1>1, <1>2 DEF FreshVote, VotingAt, There
  <1>4. OwnerRows' = OwnerRows
    BY DEF OwnerRows, IsMember
  <1> QED BY <1>2, <1>3, <1>4 DEF CalmInv, IsMember, At

\* A cover voting request begins when there is no other.
LEMMA CalmCoverRequest ==
  ASSUME GroupSafe, CoverSafe, CalmInv, calm, NEW p \in Calls, CoverRequest(p),
         UNCHANGED <<group, member, lastId, founded, everOwner, call>>,
         \A q \in Calls : ~Busy(q)
  PROVE  CalmInv' /\ DeletedStays
  <1>1. ASSUME NEW u \in Users, NEW cs \in SUBSET Cands,
               NEW at \in VotePoints \ {"idle", "update", "delete"},
               VoteBegin(p, at, u, cs)
        PROVE  CalmInv' /\ DeletedStays
    <2> DEFINE h == Voting(at, u, member[u].role, cs, NoCandidate)
    <2>1. member[u].role \in {"OWNER", "MEMBER"}
      BY DEF GroupSafe, GroupTypeOK, Row
    <2>2. h \in VoteHandler /\ h.at = at
      BY <2>1, VotingType, VoteIdleType
    <2>3. vote' = [vote EXCEPT ![p] = h] /\ UNCHANGED <<cand, votes, confirmedBy>>
      BY <1>1 DEF VoteBegin
    <2> HIDE DEF h
    <2>4. CalmInv'
      BY <1>1, <2>2, <2>3, CalmVoterMoves
    <2> QED BY <2>3, <2>4 DEF DeletedStays
  <1>2. PICK u \in Users :
          \/ CreateStart(p, u)
          \/ \E c \in Cands : \/ UpdateStart(p, u, c) \/ DropStart(p, u, c)
                              \/ ToggleStart(p, u, c) \/ ConfirmStart(p, u, c)
    BY DEF CoverRequest
  <1>3. CASE CreateStart(p, u)
    \* The point "create" and no candidate.
    BY <1>1, <1>3 DEF CreateStart, VotePoints
  <1>4. CASE \E c \in Cands : \/ UpdateStart(p, u, c) \/ DropStart(p, u, c)
                              \/ ToggleStart(p, u, c) \/ ConfirmStart(p, u, c)
    <2>1. PICK c \in Cands : \/ UpdateStart(p, u, c) \/ DropStart(p, u, c)
                             \/ ToggleStart(p, u, c) \/ ConfirmStart(p, u, c)
      BY <1>4
    <2>2. {c} \in SUBSET Cands
      OBVIOUS
    <2>3. CASE UpdateStart(p, u, c)
      BY <1>1, <2>2, <2>3 DEF UpdateStart, VotePoints
    <2>4. CASE DropStart(p, u, c)
      BY <1>1, <2>2, <2>4 DEF DropStart, VotePoints
    <2>5. CASE ToggleStart(p, u, c)
      BY <1>1, <2>2, <2>5 DEF ToggleStart, VotePoints
    <2>6. CASE ConfirmStart(p, u, c)
      BY <1>1, <2>2, <2>6 DEF ConfirmStart, VotePoints
    <2> QED BY <2>1, <2>3, <2>4, <2>5, <2>6
  <1> QED BY <1>2, <1>3, <1>4

\* The only cover voting request there is goes on.
LEMMA CalmCoverContinue ==
  ASSUME CoverSafe, CalmInv, calm, NEW p \in Calls, CoverContinue(p),
         UNCHANGED groupVars
  PROVE  CalmInv' /\ DeletedStays
  <1> DEFINE w == vote[p]
  <1>0. /\ w \in VoteHandler /\ w.cand \subseteq Cands
        /\ cand \in [Cands -> Candidate]
    BY DEF CoverSafe, CoverTypeOK, VoteHandler
  <1>1. UNCHANGED <<group, member, lastId, founded, everOwner, call>>
    BY DEF groupVars
  <1>2. \A q \in Calls \ {p} : ~Busy(q)
    <2>1. w.at # "idle"
      BY DEF CoverContinue, CreateCandidate, UpdateFind, UpdateSave, DropFind,
             DropCandidate, ToggleFind, FindVote, InsertVote, RemoveVote, ConfirmFind,
             Record, FindCandidate, VotingAt
    <2> QED BY <2>1 DEF CalmInv, Busy, VotingAt
  <1>3. w.at \in {"update", "delete"} => \A c \in w.cand : cand[c].state = "there"
    BY DEF CalmInv, FreshVote, VotingAt, There
  \* A request that comes back.
  <1>4. ASSUME VoteReturn(p),
               \A c \in Cands : cand[c].state = "deleted" => cand'[c] = cand[c]
        PROVE  CalmInv' /\ DeletedStays
    <2>1. vote' = [vote EXCEPT ![p] = VoteIdle]
      BY <1>4 DEF VoteReturn
    <2>2. CalmInv'
      BY <1>1, <1>2, <2>1, VoteIdleType, CalmVoterMoves
    <2> QED BY <1>1, <1>4, <2>2 DEF DeletedStays
  <1>5. ASSUME NEW at, NEW next \in VotePoints, FindCandidate(p, at, next)
        PROVE  CalmInv' /\ DeletedStays
    <2>1. PICK c \in w.cand :
            IF There(c) THEN vote' = [vote EXCEPT ![p] = Voting(next, w.who, w.role,
                                                                {c}, cand[c])]
                        ELSE VoteReturn(p)
      BY <1>5 DEF FindCandidate
    <2>2. cand' = cand
      BY <1>5 DEF FindCandidate
    <2>3. CASE There(c) /\ vote' = [vote EXCEPT ![p] = Voting(next, w.who, w.role,
                                                              {c}, cand[c])]
      <3> DEFINE h == Voting(next, w.who, w.role, {c}, cand[c])
      <3>1. /\ cand[c] \in Candidate /\ {c} \in SUBSET Cands
            /\ w.who \in Users \cup {NoUser} /\ w.role \in {"OWNER", "MEMBER"}
        BY <1>0, <2>1 DEF VoteHandler
      <3>2. h \in VoteHandler /\ h.cand = {c}
        BY <3>1, VotingType
      <3>3. vote' = [vote EXCEPT ![p] = h] /\ cand'[c].state = "there"
        BY <2>2, <2>3 DEF There
      <3> HIDE DEF h, w
      <3>4. CalmInv'
        BY <1>1, <1>2, <3>2, <3>3, CalmVoterMoves
      <3> QED BY <1>1, <2>2, <3>4 DEF DeletedStays
    <2>4. CASE VoteReturn(p)
      BY <1>4, <2>2, <2>4
    <2> QED BY <2>1, <2>3, <2>4
  <1>6. CASE CreateCandidate(p)
    <2>1. VoteReturn(p) /\ \A c \in Cands : cand[c].state = "deleted" => cand'[c] = cand[c]
      BY <1>0, <1>6 DEF CreateCandidate
    <2> QED BY <1>4, <2>1
  <1>7. CASE UpdateFind(p) \/ DropFind(p) \/ ToggleFind(p) \/ ConfirmFind(p)
    BY <1>5, <1>7 DEF UpdateFind, DropFind, ToggleFind, ConfirmFind, VotePoints
  <1>8. CASE UpdateSave(p) \/ DropCandidate(p)
    <2>1. VoteReturn(p) /\ w.at \in {"update", "delete"}
      BY <1>8 DEF UpdateSave, DropCandidate, VotingAt
    <2>2. \/ cand' = cand
          \/ \E c \in w.cand : cand' = [cand EXCEPT ![c] = w.copy]
          \/ \E c \in w.cand : cand' = [cand EXCEPT ![c].state = "deleted"]
      BY <1>8 DEF UpdateSave, DropCandidate
    <2>3. \A c \in Cands : cand[c].state = "deleted" => cand'[c] = cand[c]
      BY <1>0, <1>3, <2>1, <2>2
    <2> QED BY <1>4, <2>1, <2>3
  <1>9. CASE FindVote(p)
    <2>1. PICK at \in {"removeVote", "insert"} : VoteGoto(p, at)
      BY <1>9 DEF FindVote
    <2> DEFINE h == [w EXCEPT !.at = at]
    <2>2. h \in VoteHandler /\ h.at = at
      BY <1>0 DEF VoteHandler, VotePoints
    <2>3. vote' = [vote EXCEPT ![p] = h] /\ cand' = cand
      BY <1>9, <2>1 DEF FindVote, VoteGoto
    <2> HIDE DEF h, w
    <2>4. CalmInv'
      BY <1>1, <1>2, <2>1, <2>2, <2>3, CalmVoterMoves
    <2> QED BY <1>1, <2>3, <2>4 DEF DeletedStays
  <1>10. CASE InsertVote(p) \/ RemoveVote(p) \/ Record(p)
    <2>1. VoteReturn(p) /\ cand' = cand
      BY <1>10 DEF InsertVote, RemoveVote, Record
    <2> QED BY <1>4, <2>1
  <1> QED BY <1>6, <1>7, <1>8, <1>9, <1>10 DEF CoverContinue

-----------------------------------------------------------------------------
\* Every step keeps CalmInv, and while it stays calm what is deleted stays so.
LEMMA StepCalm ==
  ASSUME Safe, CalmInv, [Next]_vars
  PROVE  CalmInv' /\ (calm' => DeletedStays)
  <1>0. GroupSafe /\ CoverSafe
    BY DEF Safe
  <1>1. CASE ~calm'
    BY <1>1 DEF CalmInv
  <1>2. CASE calm'
    <2>1. calm
      BY <1>2 DEF Next, CoverCrash, OneOf, vars, groupVars
    <2>2. CASE CoverCrash
      <3>1. /\ call' = [p \in Calls |-> Idle] /\ vote' = [p \in Calls |-> VoteIdle]
            /\ UNCHANGED <<group, member, founded, cand>>
        BY <2>2 DEF CoverCrash
      <3>2. \A p \in Calls : call'[p].at = "idle" /\ vote'[p].at = "idle"
        BY <3>1, IdleType, VoteIdleType
      <3>3. \A p \in Calls :
              /\ FreshFor(call[p], group, member, founded)' /\ FreshVote(p)'
              /\ ~Busy(p)' /\ At(p, "idle")'
        BY <3>2 DEF FreshFor, FreshVote, Busy, At, VotingAt
      <3>4. OwnerRows' = OwnerRows
        BY <3>1 DEF OwnerRows, IsMember
      <3> QED BY <2>1, <3>1, <3>3, <3>4 DEF CalmInv, DeletedStays, IsMember
    <2>3. ASSUME NEW p \in Calls, OneOf(p)
          PROVE  CalmInv' /\ DeletedStays
      <3>1. CASE /\ Request(p) /\ UNCHANGED coverVars
                 /\ calm' = (calm /\ \A q \in Calls : ~Busy(q))
        BY <1>0, <1>2, <2>1, <3>1, CalmRequest
      <3>2. CASE /\ CoverRequest(p)
                 /\ UNCHANGED <<group, member, lastId, founded, everOwner, call>>
                 /\ calm' = (calm /\ \A q \in Calls : ~Busy(q))
        BY <1>0, <1>2, <2>1, <3>2, CalmCoverRequest
      <3>3. CASE Continue(p) /\ UNCHANGED <<calm, cand, votes, confirmedBy, vote>>
        BY <1>0, <2>1, <3>3, CalmContinue DEF coverVars
      <3>4. CASE CoverContinue(p) /\ UNCHANGED groupVars
        BY <1>0, <2>1, <3>4, CalmCoverContinue
      <3> QED BY <2>3, <3>1, <3>2, <3>3, <3>4 DEF OneOf
    <2>4. CASE UNCHANGED vars
      <3>1. UNCHANGED <<group, member, founded, call, calm, cand, vote>>
        BY <2>4 DEF vars, groupVars, coverVars
      <3> QED BY <3>1 DEF CalmInv, DeletedStays, OwnerRows, IsMember, At, VotingAt,
                          Busy, FreshVote, There
    <2> QED BY <2>2, <2>3, <2>4 DEF Next
  <1> QED BY <1>1, <1>2

\* It holds at the start.
LEMMA InitCalm == CoverInit => CalmInv
  <1> SUFFICES ASSUME CoverInit PROVE CalmInv
    OBVIOUS
  <1>1. /\ member = [u \in Users |-> NoRow] /\ founded = FALSE
        /\ \A p \in Calls : call[p].at = "idle" /\ vote[p].at = "idle"
    BY IdleType, VoteIdleType DEF CoverInit, Init
  <1> QED BY <1>1 DEF CalmInv, FreshFor, FreshVote, Busy, At, VotingAt, IsMember, NoRow

\* The two records of who owns the group agree, and exactly one member has the
\* role OWNER, while requests come one at a time, crashes included.
THEOREM AlwaysOneOwner == Spec => []OneOwner
  <1>1. Safe /\ CalmInv /\ [Next]_vars => Safe' /\ CalmInv'
    BY StepSafe, StepCalm
  <1>2. CalmInv => OneOwner
    BY DEF CalmInv, OneOwner
  <1> QED BY <1>1, <1>2, InitSafe, InitCalm, PTL DEF Spec

\* A dissolved group and a deleted candidate stay so, while no two requests
\* overlap.
THEOREM AlwaysDeletedForGood == Spec => DeletedForGood
  <1>1. Safe /\ CalmInv /\ [Next]_vars => Safe' /\ CalmInv'
    BY StepSafe, StepCalm
  <1>2. Safe /\ CalmInv /\ [Next]_vars =>
          [calm' => /\ group.status = "DELETED" => group' = group
                    /\ \A c \in Cands : cand[c].state = "deleted" => cand'[c] = cand[c]]_vars
    BY StepCalm DEF DeletedStays
  <1> QED BY <1>1, <1>2, InitSafe, InitCalm, PTL DEF Spec, DeletedForGood
=============================================================================
