------------------------------- MODULE Outbox -------------------------------
(***************************************************************************)
(* The outbox table and its worker.  A decision of the staff inserts a     *)
(* notice in the transaction that takes it; the worker selects the due     *)
(* notices, tries to send them one after the other, and commits the batch. *)
(* Whatever ends the worker before that commit loses the bookkeeping of    *)
(* the whole batch, not the messages.                                      *)
(***************************************************************************)
EXTENDS Naturals, FiniteSets

CONSTANTS
    User,         \* users.id
    MaxJobs,      \* bound: notices inserted
    MaxAttempts,  \* MAX_ATTEMPTS
    BatchSize,    \* limit(50)
    NoUser        \* the target of a notice not inserted yet

Job == 1 .. MaxJobs

ASSUME OutboxAssumption ==
    /\ MaxJobs \in Nat /\ MaxAttempts \in Nat \ {0} /\ BatchSize \in Nat \ {0}
    /\ NoUser \notin User

VARIABLES
    linked,   \* members whose telegram_id is set
    jobs,     \* outbox
    told,     \* the notices Telegram has delivered at least once
    batch,    \* the notices the worker's session has loaded, and its copies
    todo,     \* those of the batch not tried yet
    trying,   \* the notice being sent, 0 if none
    target    \* whether that notice's member had a telegram_id when it was loaded

vars == <<linked, jobs, told, batch, todo, trying, target>>
worker == <<batch, todo, trying, target>>

\* "due": next_attempt_at has passed.
Row == [user : User \cup {NoUser}, status : {"none", "PENDING", "SENT", "FAILED"},
        attempts : 0 .. MaxAttempts, due : BOOLEAN]
NoRow == [user |-> NoUser, status |-> "none", attempts |-> 0, due |-> FALSE]

Lowest(S, n) == {j \in S : Cardinality({i \in S : i < j}) < n}
Due == {j \in Job : jobs[j].status = "PENDING" /\ jobs[j].due}

\* v7_staff_moderate() commits: the notice has the next id.
Announce(u) ==
    \E j \in Job :
        /\ jobs[j].status = "none" /\ \A i \in Job : i < j => jobs[i].status # "none"
        /\ jobs' = [jobs EXCEPT ![j] = [user |-> u, status |-> "PENDING",
                                        attempts |-> 0, due |-> TRUE]]
        /\ UNCHANGED <<linked, told, worker>>

\* delete_account() clears the telegram_id.
Unlink(u) ==
    /\ u \in linked
    /\ linked' = linked \ {u}
    /\ UNCHANGED <<jobs, told, worker>>

\* The backoff of a notice elapses.
Elapse(j) ==
    /\ jobs[j].status = "PENDING" /\ ~jobs[j].due
    /\ jobs' = [jobs EXCEPT ![j].due = TRUE]
    /\ UNCHANGED <<linked, told, worker>>

-----------------------------------------------------------------------------
(* process_once()                                                          *)

Idle == DOMAIN batch = {}

\* A poll that finds nothing due changes nothing.
\* Mutant of Select: everything that is not sent is tried again.
SelectUnsent ==
    LET due == Lowest({j \in Job : jobs[j].status \in {"PENDING", "FAILED"}
                                   /\ jobs[j].due}, BatchSize) IN
    /\ Idle
    /\ batch' = [j \in due |-> jobs[j]] /\ todo' = due
    /\ UNCHANGED <<linked, jobs, told, trying, target>>
Select ==
    LET due == Lowest(Due, BatchSize) IN
    /\ Idle
    /\ batch' = [j \in due |-> jobs[j]] /\ todo' = due
    /\ UNCHANGED <<linked, jobs, told, trying, target>>

\* The attempt is counted and the member loaded; then the send is awaited.
Try ==
    \E j \in Lowest(todo, 1) :
        /\ trying = 0
        /\ batch' = [batch EXCEPT ![j].attempts = @ + 1]
        /\ todo' = todo \ {j} /\ trying' = j
        /\ target' = (batch[j].user \in linked)
        /\ UNCHANGED <<linked, jobs, told>>

\* Telegram delivers the message; the worker may or may not learn of it.
Deliver ==
    /\ trying # 0 /\ target /\ trying \notin told
    /\ told' = told \cup {trying}
    /\ UNCHANGED <<linked, jobs, worker>>

\* Mutant of Succeed: no exception means sent, even with nobody to send to.
SucceedAnyway ==
    /\ trying # 0
    /\ batch' = [batch EXCEPT ![trying].status = "SENT"]
    /\ trying' = 0 /\ target' = FALSE
    /\ UNCHANGED <<linked, jobs, told, todo>>
\* send_telegram() returns True.
Succeed ==
    /\ trying # 0 /\ target /\ trying \in told
    /\ batch' = [batch EXCEPT ![trying].status = "SENT"]
    /\ trying' = 0 /\ target' = FALSE
    /\ UNCHANGED <<linked, jobs, told, todo>>

\* Mutant of Miss: the last attempt is retried as well.
MissAgain ==
    /\ trying # 0
    /\ batch' = [batch EXCEPT ![trying].due = FALSE,
                              ![trying].attempts = IF @ < MaxAttempts THEN @ ELSE @ - 1]
    /\ trying' = 0 /\ target' = FALSE
    /\ UNCHANGED <<linked, jobs, told, todo>>
\* It returns False, or raises: the message may have been delivered all the same.
Miss ==
    /\ trying # 0
    /\ batch' = IF batch[trying].attempts >= MaxAttempts
                THEN [batch EXCEPT ![trying].status = "FAILED"]
                ELSE [batch EXCEPT ![trying].due = FALSE]
    /\ trying' = 0 /\ target' = FALSE
    /\ UNCHANGED <<linked, jobs, told, todo>>

Commit ==
    /\ ~Idle /\ todo = {} /\ trying = 0
    /\ jobs' = [j \in Job |-> IF j \in DOMAIN batch THEN batch[j] ELSE jobs[j]]
    /\ batch' = [j \in {} |-> NoRow]
    /\ UNCHANGED <<linked, told, todo, trying, target>>

\* The process ends (a signal, the database is gone): the container restarts it.
Crash ==
    /\ ~Idle
    /\ batch' = [j \in {} |-> NoRow] /\ todo' = {} /\ trying' = 0 /\ target' = FALSE
    /\ UNCHANGED <<linked, jobs, told>>

-----------------------------------------------------------------------------
Init ==
    /\ linked = User
    /\ jobs = [j \in Job |-> NoRow]
    /\ told = {} /\ batch = [j \in {} |-> NoRow]
    /\ todo = {} /\ trying = 0 /\ target = FALSE

Next ==
    \/ \E u \in User : Announce(u) \/ Unlink(u)
    \/ \E j \in Job : Elapse(j)
    \/ Select \/ Try \/ Deliver \/ Succeed \/ Miss \/ Commit \/ Crash

Spec == Init /\ [][Next]_vars

\* Time passes, the loop polls, and the worker does not die at the same place
\* for ever: every step of a batch that is started again and again is taken, for
\* each notice of its own.
FairSpec ==
    /\ Spec
    /\ WF_vars(Select) /\ SF_vars(Commit)
    /\ \A j \in Job : /\ WF_vars(Elapse(j))
                      /\ SF_vars(Try /\ trying' = j)
                      /\ SF_vars(trying = j /\ (Succeed \/ Miss))

-----------------------------------------------------------------------------
\* Every variable keeps its type; the attempts never pass MAX_ATTEMPTS.
TypeOK ==
    /\ linked \subseteq User /\ jobs \in [Job -> Row] /\ told \subseteq Job
    /\ DOMAIN batch \subseteq Job /\ batch \in [DOMAIN batch -> Row]
    /\ todo \subseteq DOMAIN batch
    /\ trying \in DOMAIN batch \cup {0} /\ target \in BOOLEAN

\* The outbox keeps the promise of Notices: at least once before SENT, and nothing
\* after SENT or FAILED, over any number of crashes.
Meaning == [none |-> "none", PENDING |-> "open", SENT |-> "sent", FAILED |-> "failed"]
State == [j \in Job |-> Meaning[jobs[j].status]]
Promise == INSTANCE Notices WITH state <- State, told <- told
KeepsPromise == Promise!Spec

\* Why it does: the worker alone changes a pending notice, its copies of a batch
\* hold SENT only for what was delivered, and each is tried once per batch.
OutboxInv ==
    /\ TypeOK
    /\ \A j \in Job : jobs[j].status = "PENDING" => jobs[j].attempts < MaxAttempts
    /\ \A j \in DOMAIN batch :
          /\ jobs[j].status = "PENDING" /\ batch[j].status # "none"
          /\ batch[j].status = "SENT" => j \in told
          /\ batch[j].status = "PENDING" /\ j # trying => batch[j].attempts < MaxAttempts
          /\ j \in todo \cup {trying} => batch[j].status = "PENDING"
    /\ trying \notin todo

\* Every notice is settled in the end, sent or dead-lettered, whether its member
\* can be reached or not.
EverySettled ==
    \A j \in Job : jobs[j].status = "PENDING" ~> jobs[j].status \in {"SENT", "FAILED"}
=============================================================================
