--------------------------- MODULE MutationLedger ---------------------------
(***************************************************************************)
(* What offline synchronisation promises, with no protocol: a mutation is  *)
(* queued on the device, its effect reaches the database at most once, and *)
(* the device may be told at any time that it need not send it again.      *)
(* Effects arrive in groups, one group per committed transaction.          *)
(***************************************************************************)
EXTENDS Naturals

CONSTANT Mutation          \* identifiers of the mutations of one user

VARIABLES outbox,          \* what the device knows of each mutation
          effects          \* how many times each mutation took effect

ledgerVars == <<outbox, effects>>

Init ==
  /\ outbox = [m \in Mutation |-> "none"]
  /\ effects = [m \in Mutation |-> 0]

\* The device records a new mutation.
Queue(m) ==
  /\ outbox[m] = "none"
  /\ outbox' = [outbox EXCEPT ![m] = "PENDING"]
  /\ UNCHANGED effects

\* A transaction gives every mutation of S its one effect.
Apply(S) ==
  /\ \A m \in S : outbox[m] # "none" /\ effects[m] = 0
  /\ effects' = [m \in Mutation |-> IF m \in S THEN 1 ELSE effects[m]]
  /\ UNCHANGED outbox

\* The device stops sending the mutations of S.
Settle(S) ==
  /\ \A m \in S : outbox[m] # "none"
  /\ outbox' = [m \in Mutation |-> IF m \in S THEN "SYNCED" ELSE outbox[m]]
  /\ UNCHANGED effects

Next ==
  \/ \E m \in Mutation : Queue(m)
  \/ \E S \in SUBSET Mutation : Apply(S) \/ Settle(S)

Spec == Init /\ [][Next]_ledgerVars
=============================================================================
