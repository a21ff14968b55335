------------------------------ MODULE PickRooms ------------------------------
(***************************************************************************)
(* Ballots on what to watch (repositories/social.py, routers/social.py).   *)
(*                                                                         *)
(* A host opens a room with candidate titles; guests vote by a fingerprint *)
(* and the host closes the room, which declares the winner.  Voting and    *)
(* closing are transactions of several statements under READ COMMITTED:    *)
(* no row is locked before the final flush.                                *)
(***************************************************************************)
EXTENDS Naturals, FiniteSets

CONSTANTS
  Rooms,
  Titles,        \* catalogue titles that may be candidates
  Voters,        \* voter_fingerprint: a device, a user id or a random token
  Requests,      \* requests that may be open at the same time
  None

VARIABLES
  rooms,         \* social.pick_room and social.pick_room_candidate
  votes,         \* social.pick_vote: one row for a room, voter and title
  led,           \* titles that led a ballot while it was being closed (history)
  job            \* what each open request has read

vars == <<rooms, votes, led, job>>

Marks == {"UPVOTE", "DOWNVOTE"}
Room  == [status : {"OPEN", "RESOLVED"}, expired : BOOLEAN,
          candidates : SUBSET Titles, winner : Titles \cup {None}]

\* What the module assumes of its constants.
PickAssumption == None \notin Titles \cup Room

Idle  == [op |-> "idle"]
Job   == {Idle}
  \cup [op : {"vote"}, room : Rooms, voter : Voters, title : Titles, mark : Marks,
        found : BOOLEAN, next : {"existing", "write"}]
  \cup [op : {"close"}, room : Rooms, was : Titles \cup {None}, winner : {None}, next : {"tally"}]
  \cup [op : {"close"}, room : Rooms, was : Titles \cup {None}, winner : Titles, next : {"write"}]

TypeOK ==
  /\ rooms \in [Rooms -> Room \cup {None}]
  /\ votes \in [Rooms \X Voters \X Titles -> Marks \cup {None}]
  /\ led \in [Rooms -> SUBSET Titles]
  /\ job \in [Requests -> Job]

Upvotes(v, k, t) == Cardinality({f \in Voters : v[<<k, f, t>>] = "UPVOTE"})

\* The tally: the candidates with the most upvotes.  Without any upvote the
\* close takes whichever candidate row it reads first.
Leaders(v, k, candidates) ==
  {t \in candidates : \A s \in candidates : Upvotes(v, k, s) <= Upvotes(v, k, t)}

Init ==
  /\ rooms = [k \in Rooms |-> None]
  /\ votes = [p \in Rooms \X Voters \X Titles |-> None]
  /\ led = [k \in Rooms |-> {}]
  /\ job = [r \in Requests |-> Idle]

Start(r, j) == job[r] = Idle /\ job' = [job EXCEPT ![r] = j]
Finish(r)   == job' = [job EXCEPT ![r] = Idle]

\* create_pick_room: the room and its candidates in one transaction.
CreateRoom(k, candidates) ==
  /\ rooms[k] = None
  /\ Cardinality(candidates) >= 2
  /\ rooms' = [rooms EXCEPT ![k] = [status |-> "OPEN", expired |-> FALSE,
                                    candidates |-> candidates, winner |-> None]]
  /\ UNCHANGED <<votes, led, job>>

\* expires_at passes.
Expire(k) ==
  /\ rooms[k] # None /\ ~rooms[k].expired
  /\ rooms' = [rooms EXCEPT ![k].expired = TRUE]
  /\ UNCHANGED <<votes, led, job>>

\* Mutant of Vote: the status of the room is not looked at.
VoteAnyStatus(r, k, f, t, m) ==
  /\ rooms[k] # None /\ ~rooms[k].expired
  /\ t \in rooms[k].candidates
  /\ Start(r, [op |-> "vote", room |-> k, voter |-> f, title |-> t, mark |-> m,
               found |-> FALSE, next |-> "existing"])
  /\ UNCHANGED <<rooms, votes, led>>

\* cast_pick_vote checks the room and the candidate,
Vote(r, k, f, t, m) ==
  /\ rooms[k] # None
  /\ rooms[k].status = "OPEN" /\ ~rooms[k].expired
  /\ t \in rooms[k].candidates
  /\ Start(r, [op |-> "vote", room |-> k, voter |-> f, title |-> t, mark |-> m,
               found |-> FALSE, next |-> "existing"])
  /\ UNCHANGED <<rooms, votes, led>>

\* looks for a vote of this fingerprint on this title,
ReadVote(r) ==
  /\ job[r].op = "vote" /\ job[r].next = "existing"
  /\ job' = [job EXCEPT ![r].next = "write",
               ![r].found = votes[<<job[r].room, job[r].voter, job[r].title>>] # None]
  /\ UNCHANGED <<rooms, votes, led>>

\* and updates it, or inserts one unless another request has by now.
CommitVote(r) ==
  /\ job[r].op = "vote" /\ job[r].next = "write"
  /\ LET k == job[r].room  p == <<k, job[r].voter, job[r].title>>
     IN /\ job[r].found \/ votes[p] = None
        /\ votes' = [votes EXCEPT ![p] = job[r].mark]
        /\ led' = IF \E q \in Requests : job[q].op = "close" /\ job[q].room = k
                  THEN [led EXCEPT ![k] = @ \cup Leaders(votes', k, rooms[k].candidates)]
                  ELSE led
  /\ Finish(r)
  /\ UNCHANGED rooms

\* close_pick_room, by the host.  Nothing asks whether the room is open still.
Close(r, k) ==
  /\ rooms[k] # None
  /\ Start(r, [op |-> "close", room |-> k, was |-> rooms[k].winner,
               winner |-> None, next |-> "tally"])
  /\ led' = [led EXCEPT ![k] = @ \cup Leaders(votes, k, rooms[k].candidates)]
  /\ UNCHANGED <<rooms, votes>>

\* Mutant of TallyVotes: every vote counts, whatever its type.
TallyAllMarks(r) ==
  /\ job[r].op = "close" /\ job[r].next = "tally"
  /\ LET cast(s) == Cardinality({f \in Voters : votes[<<job[r].room, f, s>>] # None})
     IN \E t \in rooms[job[r].room].candidates :
          /\ \A s \in rooms[job[r].room].candidates : cast(s) <= cast(t)
          /\ job' = [job EXCEPT ![r].winner = t, ![r].next = "write"]
  /\ UNCHANGED <<rooms, votes, led>>

\* Mutant of TallyVotes: no winner where nobody has voted.
TallyUpvotedOnly(r) ==
  /\ job[r].op = "close" /\ job[r].next = "tally"
  /\ LET k == job[r].room
         top == {t \in Leaders(votes, k, rooms[k].candidates) : Upvotes(votes, k, t) > 0}
     IN \E t \in IF top = {} THEN {None} ELSE top :
          job' = [job EXCEPT ![r].winner = t, ![r].next = "write"]
  /\ UNCHANGED <<rooms, votes, led>>

TallyVotes(r) ==
  /\ job[r].op = "close" /\ job[r].next = "tally"
  /\ \E t \in Leaders(votes, job[r].room, rooms[job[r].room].candidates) :
       job' = [job EXCEPT ![r].winner = t, ![r].next = "write"]
  /\ UNCHANGED <<rooms, votes, led>>

\* The flush: the winner is a column of it only if it is not the one read.
CommitClose(r) ==
  /\ job[r].op = "close" /\ job[r].next = "write"
  /\ rooms' = [rooms EXCEPT ![job[r].room].status = "RESOLVED",
                            ![job[r].room].winner = IF job[r].winner = job[r].was
                                                    THEN @ ELSE job[r].winner]
  /\ Finish(r)
  /\ UNCHANGED <<votes, led>>

\* The request fails or its worker stops; nothing is committed.
Abort(r) ==
  /\ job[r] # Idle
  /\ Finish(r)
  /\ UNCHANGED <<rooms, votes, led>>

Next ==
  \/ \E k \in Rooms : Expire(k) \/ \E candidates \in SUBSET Titles : CreateRoom(k, candidates)
  \/ \E r \in Requests :
       \/ \E k \in Rooms :
            Close(r, k) \/ \E f \in Voters, t \in Titles, m \in Marks : Vote(r, k, f, t, m)
       \/ ReadVote(r) \/ CommitVote(r) \/ TallyVotes(r) \/ CommitClose(r) \/ Abort(r)

Spec == Init /\ [][Next]_vars
-----------------------------------------------------------------------------
(* Properties *)

\* The host closes the room over and over, votes arrive between the tally and
\* the flush: still the declared winner is a candidate that led the ballot while
\* a close was under way, and a room is resolved exactly when it has a winner.
WinnerHasLed ==
  \A k \in Rooms : rooms[k] # None =>
    /\ rooms[k].status = "RESOLVED" <=> rooms[k].winner # None
    /\ rooms[k].winner # None => rooms[k].winner \in led[k] \cap rooms[k].candidates

\* Nobody can change a ballot any more that is resolved and no vote is pending
\* of a request that found the room open.
Settled(k) ==
  /\ rooms[k] # None /\ rooms[k].status = "RESOLVED"
  /\ \A r \in Requests : job[r].op = "vote" => job[r].room # k

\* A settled ballot stays as it is, for good, however often it is closed again.
SettledForGood ==
  [][\A k \in Rooms : Settled(k) =>
       /\ Settled(k)'
       /\ \A f \in Voters, t \in Titles : votes'[<<k, f, t>>] = votes[<<k, f, t>>]]_vars

\* "Host closes voting on a pick room and locks the winning title"
\* (routers/social.py:810): the winner of a resolved room does not change.
WinnerLocked ==
  [][\A k \in Rooms : rooms[k] # None /\ rooms[k].winner # None =>
       rooms'[k].winner = rooms[k].winner]_vars
=============================================================================
