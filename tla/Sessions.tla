------------------------------ MODULE Sessions ------------------------------
(***************************************************************************)
(* Bearer sessions in Redis: one key per token and, per account, an index  *)
(* of its tokens so that a deletion or a ban can revoke them all.  Each    *)
(* Redis command is atomic; a request thread issues them one by one, and   *)
(* any of them may raise.                                                  *)
(***************************************************************************)
EXTENDS Naturals, FiniteSets

CONSTANTS
    User,      \* users.id
    Token,     \* secrets.token_urlsafe(32)
    Thread,    \* request threads of the API process
    NoUser     \* the account of a thread or token not in use

ASSUME SessionsAssumption == NoUser \notin User

VARIABLES
    minted,    \* the account each token was made for; tokens never repeat
    live,      \* tokens whose "session:" key exists
    issued,    \* tokens handed to a member
    index,     \* the "sessions_of:" set of each account
    timed,     \* the tokens made by the last EXPIRE of an index; {}: no time to live
    missed,    \* tokens an index lost while nobody had read them there
    call       \* what each thread is doing

vars == <<minted, live, issued, index, timed, missed, call>>
keys == <<live, index, timed>>

\* "missed" is kept for the properties only, as is "due" of a call.

\* "tokens": the token being created or revoked, or those read from the index.
\* "due": the tokens of the account that were issued and live when
\* revoke_all_sessions() was called.
Call == [op : {"idle", "create", "revoke", "revokeAll"}, step : 0 .. 2,
         user : User \cup {NoUser}, tokens : SUBSET Token, due : SUBSET Token]
Idle == [op |-> "idle", step |-> 0, user |-> NoUser, tokens |-> {}, due |-> {}]

TokensOf(u) == {k \in Token : minted[k] = u}
At(t, op, step) == call[t].op = op /\ call[t].step = step
Start(t, op, u, tokens, due) ==
    /\ call[t].op = "idle"
    /\ call' = [call EXCEPT ![t] = [op |-> op, step |-> 1, user |-> u,
                                    tokens |-> tokens, due |-> due]]
Step(t) == call' = [call EXCEPT ![t].step = @ + 1]
End(t) == call' = [call EXCEPT ![t] = Idle]

-----------------------------------------------------------------------------
(* create_session(): SETEX, then SADD and EXPIRE of the index, and the     *)
(* token is handed to the member.                                          *)

\* Mutant of SetToken: the key is written without the account.
SetTokenUnowned(t, u, k) ==
    /\ minted[k] = NoUser
    /\ live' = live \cup {k}
    /\ Start(t, "create", u, {k}, {})
    /\ UNCHANGED <<minted, issued, index, timed, missed>>
SetToken(t, u, k) ==
    /\ minted[k] = NoUser
    /\ minted' = [minted EXCEPT ![k] = u] /\ live' = live \cup {k}
    /\ Start(t, "create", u, {k}, {})
    /\ UNCHANGED <<issued, index, timed, missed>>

\* Mutant of IndexToken: the token replaces the ones before it.
IndexTokenAlone(t) ==
    /\ At(t, "create", 1)
    /\ index' = [index EXCEPT ![call[t].user] = call[t].tokens]
    /\ Step(t)
    /\ UNCHANGED <<minted, live, issued, timed, missed>>
IndexToken(t) ==
    /\ At(t, "create", 1)
    /\ index' = [index EXCEPT ![call[t].user] = @ \cup call[t].tokens]
    /\ Step(t)
    /\ UNCHANGED <<minted, live, issued, timed, missed>>

\* Mutant of ExpireIndex: the time to live is set once, by the first login.
ExpireIndexOnce(t) ==
    LET u == call[t].user IN
    /\ At(t, "create", 2)
    /\ timed' = [timed EXCEPT ![u] = IF index[u] = {} \/ timed[u] # {} THEN @ ELSE TokensOf(u)]
    /\ issued' \in {issued, issued \cup call[t].tokens}
    /\ End(t)
    /\ UNCHANGED <<minted, live, index, missed>>
\* EXPIRE does nothing to an index that is gone by then, and the token is handed out
\* all the same.  If the answer of EXPIRE is lost, the token is never handed out.
ExpireIndex(t) ==
    LET u == call[t].user IN
    /\ At(t, "create", 2)
    /\ timed' = [timed EXCEPT ![u] = IF index[u] = {} THEN @ ELSE TokensOf(u)]
    /\ issued' \in {issued, issued \cup call[t].tokens}
    /\ End(t)
    /\ UNCHANGED <<minted, live, index, missed>>

-----------------------------------------------------------------------------
(* revoke_session(): GET, DEL of the key, and SREM if the key was there.   *)

GetToken(t, k) ==
    /\ k \in issued
    /\ Start(t, "revoke", IF k \in live THEN minted[k] ELSE NoUser, {k}, {})
    /\ UNCHANGED <<minted, keys, issued, missed>>

DeleteToken(t) ==
    /\ At(t, "revoke", 1)
    /\ live' = live \ call[t].tokens
    /\ IF call[t].user = NoUser THEN End(t) ELSE Step(t)
    /\ UNCHANGED <<minted, issued, index, timed, missed>>

\* A set that loses its last member is gone, and its time to live with it.
UnindexToken(t) ==
    LET u == call[t].user IN
    /\ At(t, "revoke", 2)
    /\ index' = [index EXCEPT ![u] = @ \ call[t].tokens]
    /\ timed' = [timed EXCEPT ![u] = IF index'[u] = {} THEN {} ELSE @]
    /\ End(t)
    /\ UNCHANGED <<minted, live, issued, missed>>

-----------------------------------------------------------------------------
(* revoke_all_sessions(): SMEMBERS, DEL of the keys, DEL of the index.     *)

ReadIndex(t, u) ==
    /\ Start(t, "revokeAll", u, index[u], TokensOf(u) \cap live \cap issued)
    /\ UNCHANGED <<minted, keys, issued, missed>>

DeleteTokens(t) ==
    /\ At(t, "revokeAll", 1)
    /\ live' = live \ call[t].tokens
    /\ Step(t)
    /\ UNCHANGED <<minted, issued, index, timed, missed>>

DeleteIndex(t) ==
    /\ At(t, "revokeAll", 2)
    /\ index' = [index EXCEPT ![call[t].user] = {}]
    /\ timed' = [timed EXCEPT ![call[t].user] = {}]
    /\ missed' = missed \cup (index[call[t].user] \ call[t].tokens)
    /\ End(t)
    /\ UNCHANGED <<minted, live, issued>>

-----------------------------------------------------------------------------
\* A command raises (r() has a socket timeout of two seconds): the request ends.
Fail(t) ==
    /\ call[t].op # "idle"
    /\ End(t)
    /\ UNCHANGED <<minted, keys, issued, missed>>

\* A token reaches its time to live.
Lapse(k) ==
    /\ k \in live
    /\ live' = live \ {k}
    /\ UNCHANGED <<minted, issued, index, timed, missed, call>>

\* The index reaches the time to live that the last EXPIRE gave it: no token made by
\* then lives longer, but one that a login has added since, and for which it has not
\* sent EXPIRE yet, does.
LapseIndex(u) ==
    /\ timed[u] # {} /\ timed[u] \cap live = {}
    /\ index' = [index EXCEPT ![u] = {}]
    /\ timed' = [timed EXCEPT ![u] = {}]
    /\ missed' = missed \cup (index[u] \cap live)
    /\ UNCHANGED <<minted, live, issued, call>>

Init ==
    /\ minted = [k \in Token |-> NoUser]
    /\ live = {} /\ issued = {}
    /\ index = [u \in User |-> {}] /\ timed = [u \in User |-> {}] /\ missed = {}
    /\ call = [t \in Thread |-> Idle]

Next ==
    \/ \E t \in Thread :
          \/ \E u \in User : ReadIndex(t, u) \/ \E k \in Token : SetToken(t, u, k)
          \/ \E k \in Token : GetToken(t, k)
          \/ IndexToken(t) \/ ExpireIndex(t) \/ DeleteToken(t) \/ UnindexToken(t)
          \/ DeleteTokens(t) \/ DeleteIndex(t) \/ Fail(t)
    \/ \E k \in Token : Lapse(k)
    \/ \E u \in User : LapseIndex(u)

Spec == Init /\ [][Next]_vars

-----------------------------------------------------------------------------
\* Every variable keeps its type, and every live token was made for an account.
TypeOK ==
    /\ minted \in [Token -> User \cup {NoUser}]
    /\ live \subseteq Token /\ issued \subseteq Token /\ missed \subseteq Token
    /\ index \in [User -> SUBSET Token] /\ timed \in [User -> SUBSET Token]
    /\ call \in [Thread -> Call]
    /\ \A k \in live : minted[k] # NoUser
    /\ \A t \in Thread : call[t].op \in {"create", "revokeAll"} => call[t].user \in User

\* What makes revoke_all_sessions() work: every session a member holds is in the
\* index of its account, which outlives it, except those an index lost unread.
Held(u) == TokensOf(u) \cap live \cap issued
Indexed ==
    /\ \A u \in User : /\ Held(u) \subseteq (index[u] \cap timed[u]) \cup missed
                       /\ index[u] \cup timed[u] \subseteq TokensOf(u)
    /\ \A k \in issued : minted[k] # NoUser
    /\ \A t \in Thread :
          /\ call[t].op # "idle" => call[t].step # 0
          /\ \A k \in call[t].tokens : minted[k] # NoUser
          /\ call[t].op = "create" =>
                /\ \A k \in call[t].tokens : minted[k] = call[t].user
                /\ call[t].step = 2 =>
                      call[t].tokens \cap live \subseteq index[call[t].user] \cup missed
          /\ call[t].op \in {"revoke", "revokeAll"} /\ call[t].step = 2 =>
                call[t].tokens \cap live = {}
          /\ call[t].op = "revokeAll" =>
                /\ call[t].due \cap live \subseteq call[t].tokens \cup missed
                /\ \A k \in call[t].due : minted[k] = call[t].user /\ k \in issued

\* When revoke_all_sessions() has done its work, no session that a member held
\* when it was called still resolves, but one that its index had lost unread: the
\* SADD of its login came between the two looks that an earlier revoke_all took at the
\* index, or the index lapsed between that SADD and its EXPIRE.
RevokedUnlessMissed ==
    \A t \in Thread : At(t, "revokeAll", 2) => call[t].due \cap live \subseteq missed

\* Once a member holds a session, only a revoke_all of its account takes the live token
\* out of the index unread: the index never lapses under it, whatever logins, logouts
\* and lapses came before, since every login renews the time to live.
HeldLostByRevocation ==
    [][\A u \in User : Held(u) \cap (missed' \ missed) # {} =>
          \E t \in Thread : /\ At(t, "revokeAll", 2) /\ call[t].user = u
                           /\ call'[t].op = "idle"]_vars

\* RevokedUnlessMissed without the exception (SECURITY.md: deletion, BAN and SUSPEND revoke
\* all active sessions of the account, not only the current one).
AllRevoked == \A t \in Thread : At(t, "revokeAll", 2) => call[t].due \cap live = {}
=============================================================================
