---------------------------- MODULE MCGroupPlay ----------------------------
(***************************************************************************)
(* Instance of GroupPlay for TLC.  Recommendations, clubs, challenges and  *)
(* badges share no rows, so each behaviour is about one of them: their     *)
(* states add up instead of multiplying.                                   *)
(***************************************************************************)
EXTENDS GroupPlay, TLC

CONSTANTS b1, b2

VARIABLE focus

\* All recommendations are about one title.
MCTitleOf == [x \in Recs |-> "film"]

Thresholds == [b \in Badges |-> IF b = b1 THEN 1 ELSE 2]

Symmetry == Permutations(Requests) \cup Permutations(Users) \cup Permutations(Recs)

MCInit == Init /\ focus \in {"recs", "clubs", "challenges", "badges"}

MCNext ==
  /\ \/ focus = "recs" /\ RecNext
     \/ focus = "clubs" /\ ClubNext
     \/ focus = "challenges" /\ ChallengeNext
     \/ focus = "badges" /\ BadgeNext
     \/ \E r \in Requests : Abort(r)
     \/ Rest
  /\ UNCHANGED focus

MCSpec == MCInit /\ [][MCNext]_<<vars, focus>>
=============================================================================
