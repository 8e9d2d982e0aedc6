------------------------------ MODULE Notices ------------------------------
(***************************************************************************)
(* What the outbox promises of a notice: it is told at least once before   *)
(* it counts as sent, may be told again as long as it does not, and is     *)
(* never touched once it is settled.                                       *)
(***************************************************************************)
CONSTANT Job

VARIABLES
    state,    \* of each notice: "none", "open", "sent" or "failed"
    told      \* the notices Telegram has delivered at least once

Open(j) ==
    /\ state[j] = "none"
    /\ state' = [state EXCEPT ![j] = "open"]
    /\ UNCHANGED told

Tell(j) ==
    /\ state[j] = "open"
    /\ told' = told \cup {j}
    /\ UNCHANGED state

\* A batch settles several notices at once.
Settle(sent, failed) ==
    /\ sent \subseteq told
    /\ \A j \in sent \cup failed : state[j] = "open"
    /\ sent \cap failed = {}
    /\ state' = [j \in Job |-> IF j \in sent THEN "sent"
                               ELSE IF j \in failed THEN "failed" ELSE state[j]]
    /\ UNCHANGED told

Init == state = [j \in Job |-> "none"] /\ told = {}

Next ==
    \/ \E j \in Job : Open(j) \/ Tell(j)
    \/ \E sent, failed \in SUBSET Job : Settle(sent, failed)

Spec == Init /\ [][Next]_<<state, told>>
=============================================================================
