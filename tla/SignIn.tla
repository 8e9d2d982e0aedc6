------------------------------- MODULE SignIn -------------------------------
(***************************************************************************)
(* Accounts and their sessions: the users table beside Sessions.  A person *)
(* signs in through the club (v6_auth), the staff page (login_staff) or    *)
(* the bot (start), each of which registers a telegram_id it does not      *)
(* find; logout, deletion and bans end sessions.  A request runs its SQL   *)
(* statements and its Redis commands one at a time, and may fail at each.  *)
(***************************************************************************)
EXTENDS Sessions

CONSTANTS
    Person,    \* Telegram accounts
    Staff,     \* settings.staff_telegram_ids
    NoPerson   \* telegram_id of a row not made yet, or unlinked

ASSUME SignInAssumption == Staff \subseteq Person /\ NoPerson \notin Person

VARIABLES
    rows,      \* users
    job,       \* the request each thread serves
    out        \* the sessions each account held when a committed decision revoked them

signVars == <<vars, rows, job, out>>

Row == [made : BOOLEAN, person : Person \cup {NoPerson},
        role : {"MEMBER", "MODERATOR"}, status : {"OPEN", "BANNED", "DELETED"}]
NoRow == [made |-> FALSE, person |-> NoPerson, role |-> "MEMBER", status |-> "OPEN"]
Registered(op, p) == [NoRow EXCEPT !.made = TRUE, !.person = p,
                                   !.role = IF op = "staff" THEN "MODERATOR" ELSE "MEMBER"]

\* "was": the status a ban has loaded.  "due": the sessions revoke_all_sessions() must end.
Job == [op : {"none", "auth", "start", "staff", "delete", "ban"},
        stage : {"absent", "found", "issuing", "resolved", "loaded", "revoking", "ready"},
        person : Person \cup {NoPerson}, user : User \cup {NoUser},
        was : {"OPEN", "BANNED", "DELETED"}, due : SUBSET Token]
NoJob == [op |-> "none", stage |-> "absent", person |-> NoPerson, user |-> NoUser,
          was |-> "OPEN", due |-> {}]

Free(t) == job[t].op = "none" /\ call[t].op = "idle"
Turn(t, j) == job' = [job EXCEPT ![t] = j]
Reach(t, stage) == Turn(t, [job[t] EXCEPT !.stage = stage])
Answer(t) == Turn(t, NoJob)
Of(p) == {u \in User : rows[u].person = p}

-----------------------------------------------------------------------------
(* Sign-in: SELECT by telegram_id, INSERT if there is no row, a session.   *)

\* A known member who says /start, or whose role is not staff, is only answered.
Find(t, op, p, u) ==
    /\ Free(t) /\ u \in Of(p)
    /\ op = "auth" \/ (op = "staff" /\ p \in Staff /\ rows[u].role = "MODERATOR")
    /\ Turn(t, [NoJob EXCEPT !.op = op, !.stage = "found", !.user = u])
    /\ UNCHANGED <<vars, rows, out>>

Miss(t, op, p) ==
    /\ Free(t) /\ Of(p) = {}
    /\ op \in {"auth", "start"} \/ (op = "staff" /\ p \in Staff)
    /\ Turn(t, [NoJob EXCEPT !.op = op, !.person = p])
    /\ UNCHANGED <<vars, rows, out>>

\* The INSERT is flushed by the commit; a telegram_id committed meanwhile breaks
\* the unique index, and the request ends in RequestFails.
Register(t, u) ==
    LET j == job[t] IN
    /\ j.op \in {"auth", "start", "staff"} /\ j.stage = "absent"
    /\ Of(j.person) = {} /\ ~rows[u].made
    /\ rows' = [rows EXCEPT ![u] = Registered(j.op, j.person)]
    /\ IF j.op = "start" THEN Answer(t)
       ELSE Turn(t, [NoJob EXCEPT !.op = j.op, !.stage = "found", !.user = u])
    /\ UNCHANGED <<vars, out>>

Issue(t, k) ==
    /\ job[t].op \in {"auth", "staff"} /\ job[t].stage = "found"
    /\ SetToken(t, job[t].user, k)
    /\ Reach(t, "issuing")
    /\ UNCHANGED <<rows, out>>

Indexes(t) == IndexToken(t) /\ UNCHANGED <<rows, job, out>>
Issued(t) == ExpireIndex(t) /\ Answer(t) /\ UNCHANGED <<rows, out>>

-----------------------------------------------------------------------------
(* Logout, and the two decisions that revoke every session of an account.  *)
(* A suspension is a ban under another status.                             *)

Logout(t) ==
    /\ job[t].op = "none"
    /\ DeleteToken(t) \/ UnindexToken(t) \/ \E k \in Token : GetToken(t, k)
    /\ UNCHANGED <<rows, job, out>>

\* current(): the token resolves, then the row is read.
Resolve(t, k) ==
    /\ Free(t) /\ k \in live \cap issued
    /\ Turn(t, [NoJob EXCEPT !.op = "delete", !.stage = "resolved", !.user = minted[k]])
    /\ UNCHANGED <<vars, rows, out>>

LoadSelf(t) ==
    LET u == job[t].user IN
    /\ job[t].op = "delete" /\ job[t].stage = "resolved"
    /\ rows[u].status # "DELETED"
    /\ Reach(t, "loaded")
    /\ UNCHANGED <<vars, rows, out>>

LoadOther(t, u) ==
    /\ Free(t) /\ rows[u].made
    /\ Turn(t, [NoJob EXCEPT !.op = "ban", !.stage = "loaded", !.user = u,
                             !.was = rows[u].status])
    /\ UNCHANGED <<vars, rows, out>>

Revoke(t) ==
    LET u == job[t].user IN
    /\ job[t].op \in {"delete", "ban"} /\ job[t].stage = "loaded"
    /\ ReadIndex(t, u)
    /\ Turn(t, [job[t] EXCEPT !.stage = "revoking", !.due = Held(u)])
    /\ UNCHANGED <<rows, out>>

RevokeTokens(t) == DeleteTokens(t) /\ UNCHANGED <<rows, job, out>>
Revoked(t) == DeleteIndex(t) /\ Reach(t, "ready") /\ UNCHANGED <<rows, out>>

\* The commit names the columns the handler changed: a ban of an account that
\* was loaded as banned writes no status.
Decide(t) ==
    LET j == job[t] IN
    /\ j.op \in {"delete", "ban"} /\ j.stage = "ready"
    /\ rows' = [rows EXCEPT ![j.user] =
                   IF j.op = "delete" THEN [@ EXCEPT !.status = "DELETED", !.person = NoPerson]
                   ELSE IF j.was = "BANNED" THEN @ ELSE [@ EXCEPT !.status = "BANNED"]]
    /\ out' = [out EXCEPT ![j.user] = @ \cup j.due]
    /\ Answer(t)
    /\ UNCHANGED vars

-----------------------------------------------------------------------------
\* Mutant of RequestFails: a decision goes on when Redis raises.
RequestGoesOn(t) ==
    /\ ~Free(t)
    /\ IF call[t].op = "idle" THEN UNCHANGED vars ELSE Fail(t)
    /\ IF job[t].op \in {"delete", "ban"} THEN Reach(t, "ready") ELSE Answer(t)
    /\ UNCHANGED <<rows, out>>
\* Redis or the database raises, or the request is refused: nothing is committed.
RequestFails(t) ==
    /\ ~Free(t)
    /\ IF call[t].op = "idle" THEN UNCHANGED vars ELSE Fail(t)
    /\ Answer(t)
    /\ UNCHANGED <<rows, out>>

Lapses ==
    /\ \/ \E k \in Token : Lapse(k)
       \/ \E u \in User : LapseIndex(u)
    /\ UNCHANGED <<rows, job, out>>

SignInInit ==
    /\ Init
    /\ rows = [u \in User |-> NoRow]
    /\ job = [t \in Thread |-> NoJob]
    /\ out = [u \in User |-> {}]

SignInNext ==
    \/ \E t \in Thread :
          \/ \E op \in {"auth", "start", "staff"}, p \in Person :
                Miss(t, op, p) \/ \E u \in User : Find(t, op, p, u)
          \/ \E u \in User : Register(t, u) \/ LoadOther(t, u)
          \/ \E k \in Token : Issue(t, k) \/ Resolve(t, k)
          \/ Indexes(t) \/ Issued(t) \/ Logout(t) \/ LoadSelf(t)
          \/ Revoke(t) \/ RevokeTokens(t) \/ Revoked(t) \/ Decide(t)
          \/ RequestFails(t)
    \/ Lapses

SignInSpec == SignInInit /\ [][SignInNext]_signVars

-----------------------------------------------------------------------------
\* Once a deletion or a ban is committed, no session that its account held when
\* revoke_all_sessions() was called ever resolves again, whichever command of the
\* request failed or was retried before (test_data_lifecycle.py: both sessions
\* are gone, not just the one used to delete); except a session that an index had
\* lost unread (see RevokedUnlessMissed).
ClosedForGood == \A u \in User : out[u] \cap live \subseteq missed

\* What the proofs rest on: a thread issues the Redis commands of the request it
\* serves, and a decision is ready only when the sessions it revokes are gone or missed.
Serves(j, command) ==
    /\ j.op = "none" => j.stage = "absent"
    /\ j.op # "none" /\ j.stage # "absent" => j.user \in User
    /\ command = "create" => j.op \in {"auth", "staff"} /\ j.stage = "issuing"
    /\ command = "revoke" => j.op = "none"
    /\ command = "revokeAll" => j.op \in {"delete", "ban"} /\ j.stage = "revoking"
SignInType ==
    /\ rows \in [User -> Row] /\ job \in [Thread -> Job] /\ out \in [User -> SUBSET Token]
    /\ \A t \in Thread : Serves(job[t], call[t].op)
Decisions ==
    /\ \A u \in User : \A k \in out[u] : k \notin live \ missed /\ minted[k] # NoUser
    /\ \A t \in Thread :
          /\ call[t].op = "revokeAll" => job[t].due = call[t].due
          /\ \A k \in job[t].due : minted[k] # NoUser
          /\ job[t].stage = "ready" => job[t].due \cap live \subseteq missed
SignInInv == Indexed /\ SignInType /\ Decisions
=============================================================================
