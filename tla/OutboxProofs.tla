---------------------------- MODULE OutboxProofs ----------------------------
(***************************************************************************)
(* For any members, any number of notices, any batch size and any limit of *)
(* attempts: the outbox keeps the promise of Notices, whenever its worker  *)
(* is killed.                                                              *)
(***************************************************************************)
EXTENDS Outbox, TLAPS

\* Each step keeps the invariant.
LEMMA OutboxInductive == OutboxInv /\ [Next]_vars => OutboxInv'
<1> SUFFICES ASSUME OutboxInv, [Next]_vars PROVE OutboxInv'
  OBVIOUS
<1> USE OutboxAssumption DEF OutboxInv, TypeOK, Row, Job, worker
<1>1. ASSUME NEW u \in User, Announce(u) PROVE OutboxInv'
  <2>1. PICK j \in Job :
          /\ jobs[j].status = "none"
          /\ jobs' = [jobs EXCEPT ![j] = [user |-> u, status |-> "PENDING",
                                          attempts |-> 0, due |-> TRUE]]
          /\ UNCHANGED <<linked, told, batch, todo, trying, target>>
    BY <1>1 DEF Announce
  <2>2. j \notin DOMAIN batch
    BY <2>1
  <2>3. jobs' \in [Job -> Row] /\ \A i \in DOMAIN batch : jobs'[i] = jobs[i]
    BY <2>1, <2>2
  <2> QED
    BY <2>1, <2>3
<1>2. ASSUME NEW u \in User, Unlink(u) PROVE OutboxInv'
  BY <1>2 DEF Unlink
<1>3. ASSUME NEW j \in Job, Elapse(j) PROVE OutboxInv'
  <2>1. /\ DOMAIN jobs' = Job /\ \A i \in Job \ {j} : jobs'[i] = jobs[i]
        /\ jobs'[j] = [jobs[j] EXCEPT !.due = TRUE]
        /\ jobs' = [i \in Job |-> jobs'[i]]
        /\ UNCHANGED <<linked, told, batch, todo, trying, target>>
    BY <1>3 DEF Elapse
  <2>2. /\ jobs'[j] \in Row /\ jobs'[j].status = jobs[j].status
        /\ jobs'[j].attempts = jobs[j].attempts
    <3>1. jobs[j] \in Row
      OBVIOUS
    <3> QED
      BY <2>1, <3>1
  <2>3. jobs' \in [Job -> Row]
    BY <2>1, <2>2
  <2>4. TypeOK'
    BY <2>1, <2>3
  <2>5. \A i \in Job : jobs'[i].status = jobs[i].status /\ jobs'[i].attempts = jobs[i].attempts
    BY <2>1, <2>2
  <2> QED
    BY <2>1, <2>4, <2>5
<1>4. CASE Select
  <2> DEFINE due == Lowest(Due, BatchSize)
  <2>1. due \subseteq Job /\ \A j \in due : jobs[j].status = "PENDING"
    BY DEF Lowest, Due
  <2>2. /\ batch' = [j \in due |-> jobs[j]] /\ todo' = due /\ trying = 0
        /\ UNCHANGED <<linked, jobs, told, trying, target>>
    BY <1>4 DEF Select, Idle
  <2>3. batch' \in [due -> Row] /\ DOMAIN batch' = due
    BY <2>1, <2>2
  <2>4. \A j \in due : batch'[j] = jobs[j] /\ jobs'[j] = jobs[j]
    BY <2>2
  <2> QED
    BY <2>1, <2>2, <2>3, <2>4
<1>5. CASE Try
  <2>1. PICK j \in todo :
          /\ trying = 0
          /\ batch' = [batch EXCEPT ![j].attempts = @ + 1]
          /\ todo' = todo \ {j} /\ trying' = j
          /\ target' = (batch[j].user \in linked)
          /\ UNCHANGED <<linked, jobs, told>>
    BY <1>5 DEF Try, Lowest
  <2>2. /\ j \in DOMAIN batch /\ j # trying
        /\ batch[j].status = "PENDING" /\ batch[j].attempts < MaxAttempts
    BY <2>1
  <2>3. DOMAIN batch' = DOMAIN batch /\ batch'[j] = [batch[j] EXCEPT !.attempts = @ + 1]
        /\ \A i \in DOMAIN batch \ {j} : batch'[i] = batch[i]
    BY <2>1, <2>2
  <2>4. batch'[j] \in Row /\ batch'[j].status = "PENDING"
    <3>1. batch[j] \in Row /\ batch[j].attempts + 1 \in 0 .. MaxAttempts
      BY <2>2
    <3> QED
      BY <2>2, <2>3, <3>1
  <2>6. target' \in BOOLEAN
    <3>1. CASE batch[j].user \in linked
      BY <2>1, <3>1
    <3>2. CASE batch[j].user \notin linked
      BY <2>1, <3>2
    <3> QED
      BY <3>1, <3>2
  <2>5. batch' \in [DOMAIN batch' -> Row]
    BY <2>1, <2>3, <2>4
  <2> QED
    BY <2>1, <2>2, <2>3, <2>4, <2>5, <2>6
<1>6. CASE Deliver
  BY <1>6 DEF Deliver
<1>7. CASE Succeed
  <2>1. trying \in DOMAIN batch /\ trying \in told /\ trying # 0
    BY <1>7 DEF Succeed
  <2>2. DOMAIN batch' = DOMAIN batch /\ batch'[trying] = [batch[trying] EXCEPT !.status = "SENT"]
        /\ \A i \in DOMAIN batch \ {trying} : batch'[i] = batch[i]
    BY <1>7, <2>1 DEF Succeed
  <2>3. batch'[trying] \in Row /\ batch'[trying].status = "SENT"
    BY <2>1, <2>2
  <2>4. batch' \in [DOMAIN batch' -> Row]
    BY <1>7, <2>2, <2>3 DEF Succeed
  <2>7. /\ trying' = 0 /\ trying \notin todo /\ target' = FALSE
        /\ UNCHANGED <<linked, jobs, told, todo>>
    BY <1>7 DEF Succeed
  <2>8. TypeOK'
    BY <2>1, <2>2, <2>3, <2>4, <2>7
  <2>9. \A j \in DOMAIN batch' :
          /\ jobs[j].status = "PENDING" /\ batch'[j].status # "none"
          /\ batch'[j].status = "SENT" => j \in told
          /\ batch'[j].status = "PENDING" => batch'[j].attempts < MaxAttempts
          /\ j \in todo => batch'[j].status = "PENDING"
    BY <2>1, <2>2, <2>3, <2>4, <2>7
  <2> QED
    BY <2>7, <2>8, <2>9
<1>8. CASE Miss
  <2> DEFINE failed == [batch[trying] EXCEPT !.status = "FAILED"]
             later == [batch[trying] EXCEPT !.due = FALSE]
  <2>1. trying \in DOMAIN batch /\ trying # 0 /\ batch[trying].status = "PENDING"
    BY <1>8 DEF Miss
  <2>2. /\ DOMAIN batch' = DOMAIN batch
        /\ \A i \in DOMAIN batch \ {trying} : batch'[i] = batch[i]
        /\ batch'[trying] = IF batch[trying].attempts >= MaxAttempts THEN failed ELSE later
    BY <1>8, <2>1 DEF Miss
  <2>3. failed \in Row /\ failed.status = "FAILED"
    BY <2>1
  <2>4. later \in Row /\ later.status = "PENDING" /\ later.attempts = batch[trying].attempts
    BY <2>1
  <2>5. batch'[trying] \in Row /\ batch'[trying].status \in {"PENDING", "FAILED"}
        /\ (batch'[trying].status = "PENDING" => batch'[trying].attempts < MaxAttempts)
    <3>1. batch[trying].attempts \in 0 .. MaxAttempts
      BY <2>1
    <3> QED
      BY <2>2, <2>3, <2>4, <3>1
  <2>6. batch' \in [DOMAIN batch' -> Row]
    <3>1. batch' = [i \in DOMAIN batch |-> batch'[i]]
      BY <1>8, <2>1 DEF Miss
    <3> QED
      BY <2>2, <2>5, <3>1
  <2>7. /\ trying' = 0 /\ trying \notin todo /\ target' = FALSE
        /\ UNCHANGED <<linked, jobs, told, todo>>
    BY <1>8 DEF Miss
  <2>8. TypeOK'
    BY <2>1, <2>2, <2>5, <2>6, <2>7
  <2>9. \A j \in DOMAIN batch' :
          /\ jobs[j].status = "PENDING" /\ batch'[j].status # "none"
          /\ batch'[j].status = "SENT" => j \in told
          /\ batch'[j].status = "PENDING" => batch'[j].attempts < MaxAttempts
          /\ j \in todo => batch'[j].status = "PENDING"
    BY <2>1, <2>2, <2>5, <2>6, <2>7
  <2> QED
    BY <2>7, <2>8, <2>9
<1>9. CASE Commit
  BY <1>9 DEF Commit
<1>10. CASE Crash
  BY <1>10 DEF Crash
<1>11. CASE UNCHANGED vars
  BY <1>11 DEF vars
<1> QED
  BY <1>1, <1>2, <1>3, <1>4, <1>5, <1>6, <1>7, <1>8, <1>9, <1>10, <1>11 DEF Next

\* Each step is a step of Notices, or changes nothing it can see.
LEMMA OutboxStep ==
    OutboxInv /\ [Next]_vars => [Promise!Next]_<<State, told>>
<1> SUFFICES ASSUME OutboxInv, [Next]_vars PROVE [Promise!Next]_<<State, told>>
  OBVIOUS
<1> USE OutboxAssumption DEF OutboxInv, TypeOK, Row, Job, worker, Meaning
<1>1. ASSUME NEW u \in User, Announce(u) PROVE Promise!Next
  <2>1. PICK j \in Job :
          /\ jobs[j].status = "none" /\ told' = told
          /\ jobs' = [jobs EXCEPT ![j] = [user |-> u, status |-> "PENDING",
                                          attempts |-> 0, due |-> TRUE]]
    BY <1>1 DEF Announce
  <2>2. \A i \in Job : State'[i] = (IF i = j THEN "open" ELSE State[i])
    BY <2>1 DEF State
  <2>3. State' = [State EXCEPT ![j] = "open"]
    BY <2>2 DEF State
  <2>4. State[j] = "none"
    BY <2>1 DEF State
  <2> QED
    BY <2>1, <2>3, <2>4 DEF Promise!Next, Promise!Open
<1>2. ASSUME UNCHANGED <<jobs, told>> PROVE UNCHANGED <<State, told>>
  BY <1>2 DEF State
<1>3. ASSUME NEW j \in Job, Elapse(j) PROVE UNCHANGED <<State, told>>
  BY <1>3 DEF Elapse, State
<1>4. CASE Deliver
  <2>1. trying \in Job /\ jobs[trying].status = "PENDING"
    BY <1>4 DEF Deliver
  <2>2. State[trying] = "open" /\ State' = State
    BY <1>4, <2>1 DEF Deliver, State
  <2> QED
    BY <1>4, <2>1, <2>2 DEF Deliver, Promise!Next, Promise!Tell
<1>5. CASE Commit
  <2> DEFINE sent == {j \in DOMAIN batch : batch[j].status = "SENT"}
             failed == {j \in DOMAIN batch : batch[j].status = "FAILED"}
  <2>1. sent \subseteq told /\ sent \cap failed = {}
        /\ sent \in SUBSET Job /\ failed \in SUBSET Job
    OBVIOUS
  <2>2. \A j \in sent \cup failed : State[j] = "open"
    BY DEF State
  <2>3. jobs' = [j \in Job |-> IF j \in DOMAIN batch THEN batch[j] ELSE jobs[j]]
        /\ told' = told
    BY <1>5 DEF Commit
  <2>4. \A j \in Job : State'[j] = IF j \in sent THEN "sent"
                                  ELSE IF j \in failed THEN "failed" ELSE State[j]
    <3> SUFFICES ASSUME NEW j \in Job
                 PROVE  State'[j] = IF j \in sent THEN "sent"
                                    ELSE IF j \in failed THEN "failed" ELSE State[j]
      OBVIOUS
    <3>1. CASE j \notin DOMAIN batch
      BY <3>1, <2>3 DEF State
    <3>2. CASE j \in DOMAIN batch
      <4>1. batch[j].status \in {"PENDING", "SENT", "FAILED"}
        BY <3>2
      <4> QED
        BY <3>2, <4>1, <2>3 DEF State
    <3> QED
      BY <3>1, <3>2
  <2>5. State' = [j \in Job |-> IF j \in sent THEN "sent"
                                ELSE IF j \in failed THEN "failed" ELSE State[j]]
    BY <2>4 DEF State
  <2> QED
    BY <2>1, <2>2, <2>3, <2>5 DEF Promise!Next, Promise!Settle
<1> QED
  BY <1>1, <1>2, <1>3, <1>4, <1>5
     DEF Next, vars, Unlink, Select, Try, Succeed, Miss, Crash

\* The empty table, and a worker that has nothing in hand.
LEMMA OutboxStart == Init => OutboxInv
<1> SUFFICES ASSUME Init PROVE OutboxInv
  OBVIOUS
<1> USE OutboxAssumption DEF Init, Job
<1>1. NoRow \in Row /\ NoRow.status = "none"
  BY DEF NoRow, Row
<1>2. jobs \in [Job -> Row] /\ \A j \in Job : jobs[j].status = "none"
  BY <1>1
<1>3. DOMAIN batch = {} /\ batch \in [{} -> Row]
  BY <1>1
<1> QED
  BY <1>2, <1>3 DEF OutboxInv, TypeOK

\* Every variable keeps its type, whatever the notices, attempts and batches.
THEOREM OutboxTypes == Spec => []TypeOK
<1>1. OutboxInv => TypeOK
  BY DEF OutboxInv
<1> QED
  BY <1>1, OutboxStart, OutboxInductive, PTL DEF Spec

-----------------------------------------------------------------------------
\* At least once before SENT, and nothing after SENT or FAILED.
THEOREM OutboxKeepsPromise == Spec => KeepsPromise
<1>1. Init => Promise!Init
  BY DEF Init, Promise!Init, State, Meaning, NoRow
<1> QED
  BY <1>1, OutboxStart, OutboxInductive, OutboxStep, PTL DEF Spec, KeepsPromise, Promise!Spec
=============================================================================
