----------------------------- MODULE CoverVoting -----------------------------
(***************************************************************************)
(* Cover candidates of a group and the votes for them                      *)
(* (cover-voting.service.ts), composed with the group's membership: every  *)
(* request asks group_members for the caller's row first, and acts awaits  *)
(* later, when the caller may have left or handed the group over.          *)
(***************************************************************************)
EXTENDS Groups

CONSTANTS
  Cands,       \* rows of cover_candidates ever inserted (a bound)
  MayCrash     \* whether the server process may die

ASSUME CoverCrashAssumption == MayCrash \in BOOLEAN

VARIABLES
  cand,        \* the candidates: not made, there, or deleted; their creators
  votes,       \* cover_votes: <<candidate, user>>, which are unique
  confirmedBy, \* users whose confirmation was recorded as an activity
  vote         \* cover voting requests: where they are, and their copies

coverVars == <<cand, votes, confirmedBy, vote>>
vars == <<groupVars, coverVars>>

Candidate == [state : {"none", "there", "deleted"}, by : Users \cup {NoUser}]
NoCandidate == [state |-> "none", by |-> NoUser]

VotePoints == {"idle", "create", "findUpdate", "update", "findDelete", "delete",
               "findToggle", "findVote", "insert", "removeVote",
               "findConfirm", "record"}

\* A request that has got to a point for a user with a role, about candidates
\* (one or none), with a copy of one.
Voting(at, who, role, cs, copy) ==
  [at |-> at, who |-> who, role |-> role, cand |-> cs, copy |-> copy]

VoteIdle == Voting("idle", NoUser, "MEMBER", {}, NoCandidate)

CoverInit ==
  /\ Init
  /\ cand = [c \in Cands |-> NoCandidate]
  /\ votes = {}
  /\ confirmedBy = {}
  /\ vote = [p \in Calls |-> VoteIdle]

VotingAt(p, at) == vote[p].at = at
VoteGoto(p, at) == vote' = [vote EXCEPT ![p].at = at]
VoteReturn(p) == vote' = [vote EXCEPT ![p] = VoteIdle]
There(c) == cand[c].state = "there"

\* verifyMember: the caller's row, and the role in it.
VoteBegin(p, at, u, cs) ==
  /\ VotingAt(p, "idle") /\ IsMember(u)
  /\ vote' = [vote EXCEPT ![p] = Voting(at, u, member[u].role, cs, NoCandidate)]
  /\ UNCHANGED <<cand, votes, confirmedBy>>

\* findOne of the candidate, or 404.
FindCandidate(p, at, next) ==
  /\ VotingAt(p, at)
  /\ \E c \in vote[p].cand :
       IF There(c)
       THEN vote' = [vote EXCEPT ![p] = Voting(next, vote[p].who, vote[p].role,
                                               {c}, cand[c])]
       ELSE VoteReturn(p)
  /\ UNCHANGED <<cand, votes, confirmedBy>>

\* The owner, or who made the candidate.
IsEntitled(p) == vote[p].role = "OWNER" \/ vote[p].copy.by = vote[p].who

-----------------------------------------------------------------------------
(* create, update, delete *)

CreateStart(p, u) == VoteBegin(p, "create", u, {})

CreateCandidate(p) ==
  /\ VotingAt(p, "create")
  /\ \/ \E c \in Cands :
          /\ cand[c].state = "none"
          /\ cand' = [cand EXCEPT ![c] = [state |-> "there", by |-> vote[p].who]]
     \/ UNCHANGED cand
  /\ VoteReturn(p)
  /\ UNCHANGED <<votes, confirmedBy>>

UpdateStart(p, u, c) == VoteBegin(p, "findUpdate", u, {c})
UpdateFind(p) == FindCandidate(p, "findUpdate", "update")

\* A copy of a candidate deleted meanwhile is inserted again, without votes.
UpdateSave(p) ==
  /\ VotingAt(p, "update")
  /\ \/ /\ IsEntitled(p)
        /\ \E c \in vote[p].cand : cand' = [cand EXCEPT ![c] = vote[p].copy]
     \/ UNCHANGED cand
  /\ VoteReturn(p)
  /\ UNCHANGED <<votes, confirmedBy>>

DropStart(p, u, c) == VoteBegin(p, "findDelete", u, {c})
DropFind(p) == FindCandidate(p, "findDelete", "delete")

\* Fault: no cascade.
DropCandidateAlone(p) ==
  /\ VotingAt(p, "delete")
  /\ \/ /\ IsEntitled(p)
        /\ \E c \in vote[p].cand : cand' = [cand EXCEPT ![c].state = "deleted"]
     \/ UNCHANGED cand
  /\ VoteReturn(p)
  /\ UNCHANGED <<votes, confirmedBy>>

\* The votes are deleted with it (ON DELETE CASCADE).
DropCandidate(p) ==
  /\ VotingAt(p, "delete")
  /\ \/ /\ IsEntitled(p)
        /\ \E c \in vote[p].cand :
             /\ cand' = [cand EXCEPT ![c].state = "deleted"]
             /\ votes' = {v \in votes : v[1] # c}
     \/ UNCHANGED <<cand, votes>>
  /\ VoteReturn(p)
  /\ UNCHANGED confirmedBy

-----------------------------------------------------------------------------
(* toggleVote *)

ToggleStart(p, u, c) == VoteBegin(p, "findToggle", u, {c})
ToggleFind(p) == FindCandidate(p, "findToggle", "findVote")

FindVote(p) ==
  /\ VotingAt(p, "findVote")
  /\ \E c \in vote[p].cand :
       VoteGoto(p, IF <<c, vote[p].who>> \in votes THEN "removeVote" ELSE "insert")
  /\ UNCHANGED <<cand, votes, confirmedBy>>

\* Fault: the columns of the vote are swapped.
InsertVoteSwapped(p) ==
  /\ VotingAt(p, "insert")
  /\ \/ \E c \in vote[p].cand : There(c) /\ votes' = votes \cup {<<vote[p].who, c>>}
     \/ UNCHANGED votes
  /\ VoteReturn(p)
  /\ UNCHANGED <<cand, confirmedBy>>

\* Refused beside the same vote by the unique index, and without the candidate
\* by the foreign key.
InsertVote(p) ==
  /\ VotingAt(p, "insert")
  /\ \/ \E c \in vote[p].cand : There(c) /\ votes' = votes \cup {<<c, vote[p].who>>}
     \/ UNCHANGED votes
  /\ VoteReturn(p)
  /\ UNCHANGED <<cand, confirmedBy>>

\* The vote found may have been removed and given again: the new row stays.
RemoveVote(p) ==
  /\ VotingAt(p, "removeVote")
  /\ \/ \E c \in vote[p].cand : votes' = votes \ {<<c, vote[p].who>>}
     \/ UNCHANGED votes
  /\ VoteReturn(p)
  /\ UNCHANGED <<cand, confirmedBy>>

-----------------------------------------------------------------------------
(* confirm: for the role OWNER; nothing but an activity is written *)

\* Fault: any member confirms.
ConfirmAsMember(p, u, c) == VoteBegin(p, "findConfirm", u, {c})

ConfirmStart(p, u, c) ==
  /\ member[u].role = "OWNER"
  /\ VoteBegin(p, "findConfirm", u, {c})

ConfirmFind(p) == FindCandidate(p, "findConfirm", "record")

Record(p) ==
  /\ VotingAt(p, "record")
  /\ \/ confirmedBy' = confirmedBy \cup {vote[p].who}
     \/ UNCHANGED confirmedBy
  /\ VoteReturn(p)
  /\ UNCHANGED <<cand, votes>>

-----------------------------------------------------------------------------
CoverCrash ==
  /\ MayCrash
  /\ \E p \in Calls : ~At(p, "idle") \/ ~VotingAt(p, "idle")
  /\ call' = [p \in Calls |-> Idle]
  /\ vote' = [p \in Calls |-> VoteIdle]
  /\ UNCHANGED <<group, member, lastId, founded, everOwner, calm, cand, votes,
                 confirmedBy>>

Busy(p) == ~At(p, "idle") \/ ~VotingAt(p, "idle")

CoverRequest(p) ==
  \E u \in Users :
    \/ CreateStart(p, u)
    \/ \E c \in Cands :
         \/ UpdateStart(p, u, c)
         \/ DropStart(p, u, c)
         \/ ToggleStart(p, u, c)
         \/ ConfirmStart(p, u, c)

CoverContinue(p) ==
  \/ CreateCandidate(p)
  \/ UpdateFind(p)
  \/ UpdateSave(p)
  \/ DropFind(p)
  \/ DropCandidate(p)
  \/ ToggleFind(p)
  \/ FindVote(p)
  \/ InsertVote(p)
  \/ RemoveVote(p)
  \/ ConfirmFind(p)
  \/ Record(p)

OneOf(p) ==
  \/ /\ ~Busy(p)
     /\ \/ Request(p) /\ UNCHANGED coverVars
        \/ /\ CoverRequest(p)
           /\ UNCHANGED <<group, member, lastId, founded, everOwner, call>>
     /\ calm' = (calm /\ \A q \in Calls : ~Busy(q))
  \/ Continue(p) /\ UNCHANGED <<calm, cand, votes, confirmedBy, vote>>
  \/ CoverContinue(p) /\ UNCHANGED groupVars

Next == CoverCrash \/ \E p \in Calls : OneOf(p)

Spec == CoverInit /\ [][Next]_vars
-----------------------------------------------------------------------------
(* Properties *)

VoteHandler == [at : VotePoints, who : Users \cup {NoUser},
                role : {"OWNER", "MEMBER"}, cand : SUBSET Cands,
                copy : Candidate]

\* Every variable has the type the entities and handlers give it.
TypeOK ==
  /\ GroupTypeOK
  /\ cand \in [Cands -> Candidate]
  /\ votes \subseteq Cands \X Users
  /\ confirmedBy \subseteq Users
  /\ vote \in [Calls -> VoteHandler]

\* A cover is confirmed only by someone who has owned the group, although the
\* service asks for the role and the group records an owner id, and whatever
\* hand-over, removal or crash comes between the question and the record.
ConfirmedByOwner == confirmedBy \subseteq everOwner

\* Every vote counts for a candidate that is there, although a click may come
\* after the candidate's deletion and an update may insert it again.
VotesCount == \A v \in votes : There(v[1])

\* A dissolved group stays dissolved, with the owner it had, and a deleted
\* candidate stays deleted, while no two requests overlap: every request looks
\* for the row first (findGroupOrFail, findOne).  Handlers that saved a copy read
\* before would bring either back.
DeletedForGood ==
  [][calm' => /\ group.status = "DELETED" => group' = group
              /\ \A c \in Cands : cand[c].state = "deleted" => cand'[c] = cand[c]]_vars
=============================================================================
