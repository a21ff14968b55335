--------------------------- MODULE MCSocialGraph ---------------------------
(***************************************************************************)
(* Instance of SocialGraph and PickRooms for TLC.  Friendships and pick    *)
(* rooms share no rows, so each behaviour is about one of them: their      *)
(* states add up instead of multiplying.                                   *)
(*                                                                         *)
(* The voters bear the names of the invite codes: no behaviour has both,   *)
(* and one permutation of the names does for either.                       *)
(***************************************************************************)
EXTENDS SocialGraph, TLC

CONSTANTS Rooms, Titles, Voters
CONSTANTS founder, friend, guest

VARIABLES rooms, votes, led, picking
VARIABLE focus

picks == <<rooms, votes, led, picking>>

R == INSTANCE PickRooms WITH job <- picking

ASSUME PickHolds == R!PickAssumption

\* Requests are interchangeable, and so are invite codes, voters and titles.
Symmetry == Permutations(Requests) \cup Permutations(Tokens) \cup Permutations(Titles)

MCInit == Init /\ R!Init /\ focus \in {"friends", "rooms"}
MCNext ==
  /\ \/ focus = "friends" /\ Next /\ UNCHANGED picks
     \/ focus = "rooms" /\ R!Next /\ UNCHANGED vars
  /\ UNCHANGED focus
MCSpec == MCInit /\ [][MCNext]_<<vars, picks, focus>>

\* The properties of PickRooms, of the rooms of this instance.
WinnerHasLed == R!WinnerHasLed
SettledForGood == R!SettledForGood
=============================================================================
