---------------------------- MODULE SignInProofs ----------------------------
(***************************************************************************)
(* For any accounts, persons, tokens and threads: sign-in, logout and the  *)
(* decisions use Redis as Sessions describes, and the sessions a committed *)
(* decision revoked stay dead, except those an index had lost unread.      *)
(***************************************************************************)
EXTENDS SignIn, SessionsProofs

\* Every step of a request issues one command of Sessions, or none.
LEMMA SignInSteps ==
    ASSUME TypeOK, SignInType, [SignInNext]_signVars
    PROVE  [Next]_vars
<1> USE DEF Next
<1>1. ASSUME NEW t \in Thread, NEW k \in Token, Issue(t, k) PROVE Next
  <2>1. job[t].user \in User
    BY <1>1 DEF Issue, SignInType, Serves
  <2> QED
    BY <1>1, <2>1 DEF Issue
<1>2. ASSUME NEW t \in Thread, Indexes(t) \/ Issued(t) PROVE Next
  BY <1>2 DEF Indexes, Issued
<1>3. ASSUME NEW t \in Thread, Logout(t) PROVE Next
  BY <1>3 DEF Logout
<1>4. ASSUME NEW t \in Thread, Revoke(t) PROVE Next
  <2>1. job[t].user \in User
    BY <1>4 DEF Revoke, SignInType, Serves
  <2> QED
    BY <1>4, <2>1 DEF Revoke
<1>5. ASSUME NEW t \in Thread, RevokeTokens(t) \/ Revoked(t) PROVE Next
  BY <1>5 DEF RevokeTokens, Revoked
<1>6. ASSUME NEW t \in Thread, RequestFails(t) PROVE Next \/ UNCHANGED vars
  BY <1>6 DEF RequestFails
<1>7. ASSUME Lapses PROVE Next
  BY <1>7 DEF Lapses
<1>8. ASSUME NEW t \in Thread, NEW op \in {"auth", "start", "staff"}, NEW p \in Person,
             Miss(t, op, p) \/ \E u \in User : Find(t, op, p, u)
      PROVE  UNCHANGED vars
  BY <1>8 DEF Miss, Find
<1>9. ASSUME NEW t \in Thread, NEW u \in User, Register(t, u) \/ LoadOther(t, u)
      PROVE  UNCHANGED vars
  BY <1>9 DEF Register, LoadOther
<1>10. ASSUME NEW t \in Thread,
              LoadSelf(t) \/ Decide(t) \/ \E k \in Token : Resolve(t, k)
       PROVE  UNCHANGED vars
  BY <1>10 DEF LoadSelf, Decide, Resolve
<1>11. ASSUME UNCHANGED signVars PROVE UNCHANGED vars
  BY <1>11 DEF signVars
<1> HIDE DEF Next
<1> QED
  BY <1>1, <1>2, <1>3, <1>4, <1>5, <1>6, <1>7, <1>8, <1>9, <1>10, <1>11 DEF SignInNext

\* A thread that turns to a request j, with a Redis command of j, keeps the types.
LEMMA TurnServes ==
    ASSUME SignInType, NEW t \in Thread, NEW j \in Job, Turn(t, j),
           \A s \in Thread \ {t} : call'[s] = call[s],
           Serves(j, call'[t].op),
           rows' \in [User -> Row], out' \in [User -> SUBSET Token]
    PROVE  SignInType'
<1>1. job' \in [Thread -> Job]
  BY DEF Turn, SignInType
<1>2. \A s \in Thread : Serves(job'[s], call'[s].op)
  BY DEF Turn, SignInType
<1> QED
  BY <1>1, <1>2 DEF SignInType, Serves

\* A command of thread t leaves the calls of the other threads alone.
LEMMA OneCaller ==
    ASSUME TypeOK, NEW t \in Thread,
           \/ Fail(t) \/ IndexToken(t) \/ ExpireIndex(t) \/ DeleteTokens(t) \/ DeleteIndex(t)
           \/ DeleteToken(t) \/ UnindexToken(t)
           \/ \E k \in Token : GetToken(t, k)
           \/ \E u \in User : ReadIndex(t, u)
           \/ \E u \in User, k \in Token : SetToken(t, u, k)
    PROVE  \A s \in Thread \ {t} : call'[s] = call[s]
BY DEF TypeOK, Fail, IndexToken, ExpireIndex, DeleteTokens, DeleteIndex, DeleteToken, UnindexToken,
       GetToken, ReadIndex, SetToken, Start, Step, End

\* The rows, the requests and the revoked sessions keep their types.
LEMMA SignInTyped ==
    ASSUME TypeOK, SignInType, [SignInNext]_signVars
    PROVE  SignInType'
<1> USE SessionsAssumption, SignInAssumption
<1>1. /\ rows \in [User -> Row] /\ job \in [Thread -> Job] /\ out \in [User -> SUBSET Token]
      /\ call \in [Thread -> Call]
      /\ \A t \in Thread : Serves(job[t], call[t].op)
  BY DEF SignInType, TypeOK
<1>2. NoJob \in Job /\ Serves(NoJob, "idle") /\ Idle.op = "idle"
  BY DEF NoJob, Job, Serves, Idle
<1>3. ASSUME NEW t \in Thread, NEW op \in {"auth", "start", "staff"}, NEW p \in Person,
             Miss(t, op, p)
      PROVE  SignInType'
  <2> DEFINE j == [NoJob EXCEPT !.op = op, !.person = p]
  <2>1. j \in Job /\ Serves(j, "idle")
    BY DEF NoJob, Job, Serves
  <2> QED
    BY <1>1, <1>3, <2>1, TurnServes DEF Miss, Free, vars
<1>4. ASSUME NEW t \in Thread, NEW op \in {"auth", "start", "staff"}, NEW p \in Person,
             NEW u \in User, Find(t, op, p, u)
      PROVE  SignInType'
  <2> DEFINE j == [NoJob EXCEPT !.op = op, !.stage = "found", !.user = u]
  <2>1. j \in Job /\ Serves(j, "idle")
    BY DEF NoJob, Job, Serves
  <2> QED
    BY <1>1, <1>4, <2>1, TurnServes DEF Find, Free, vars
<1>5. ASSUME NEW t \in Thread, NEW u \in User, Register(t, u) PROVE SignInType'
  <2> DEFINE j == [NoJob EXCEPT !.op = job[t].op, !.stage = "found", !.user = u]
  <2>1. /\ job[t] \in Job /\ job[t].op \in {"auth", "start", "staff"}
        /\ call[t].op = "idle" /\ call' = call
    BY <1>1, <1>5 DEF Register, Serves, Call, vars
  <2>2. rows' \in [User -> Row] /\ out' = out
    BY <1>1, <1>5, <2>1 DEF Register, Registered, NoRow, Row, Job
  <2>3. j \in Job /\ Serves(j, "idle")
    BY <2>1 DEF NoJob, Job, Serves
  <2>4. Turn(t, NoJob) \/ Turn(t, j)
    BY <1>5 DEF Register, Answer
  <2> QED
    BY <1>1, <1>2, <2>1, <2>2, <2>3, <2>4, TurnServes
<1>6. ASSUME NEW t \in Thread, NEW u \in User, LoadOther(t, u) PROVE SignInType'
  <2> DEFINE j == [NoJob EXCEPT !.op = "ban", !.stage = "loaded", !.user = u,
                                !.was = rows[u].status]
  <2>1. j \in Job /\ Serves(j, "idle")
    BY <1>1 DEF NoJob, Job, Serves, Row
  <2> QED
    BY <1>1, <1>6, <2>1, TurnServes DEF LoadOther, Free, vars
<1>7. ASSUME NEW t \in Thread, NEW k \in Token, Resolve(t, k) PROVE SignInType'
  <2> DEFINE j == [NoJob EXCEPT !.op = "delete", !.stage = "resolved", !.user = minted[k]]
  <2>1. minted[k] \in User
    BY <1>7 DEF Resolve, TypeOK
  <2>2. j \in Job /\ Serves(j, "idle")
    BY <2>1 DEF NoJob, Job, Serves
  <2> QED
    BY <1>1, <1>7, <2>2, TurnServes DEF Resolve, Free, vars
<1>8. ASSUME NEW t \in Thread, NEW k \in Token, Issue(t, k) PROVE SignInType'
  <2> DEFINE j == [job[t] EXCEPT !.stage = "issuing"]
  <2>1. job[t].user \in User /\ SetToken(t, job[t].user, k)
    BY <1>1, <1>8 DEF Issue, Serves
  <2>2. j \in Job /\ Serves(j, "create")
    BY <1>1, <1>8, <2>1 DEF Issue, Job, Serves
  <2>3. call'[t].op = "create"
    BY <1>1, <2>1 DEF SetToken, Start
  <2> QED
    BY <1>1, <1>8, <2>1, <2>2, <2>3, OneCaller, TurnServes DEF Issue, Reach
<1>9. ASSUME NEW t \in Thread, LoadSelf(t) PROVE SignInType'
  <2> DEFINE j == [job[t] EXCEPT !.stage = "loaded"]
  <2>1. j \in Job /\ Serves(j, call[t].op)
    BY <1>1, <1>9 DEF LoadSelf, Job, Serves
  <2> QED
    BY <1>1, <1>9, <2>1, TurnServes DEF LoadSelf, Reach, vars
<1>10. ASSUME NEW t \in Thread, Revoke(t) PROVE SignInType'
  <2> DEFINE j == [job[t] EXCEPT !.stage = "revoking", !.due = Held(job[t].user)]
  <2>1. job[t].user \in User /\ ReadIndex(t, job[t].user)
    BY <1>1, <1>10 DEF Revoke, Serves
  <2>2. j \in Job /\ Serves(j, "revokeAll")
    BY <1>1, <1>10, <2>1 DEF Revoke, Job, Serves, Held, TokensOf
  <2>3. call'[t].op = "revokeAll"
    BY <1>1, <2>1 DEF ReadIndex, Start
  <2> QED
    BY <1>1, <1>10, <2>1, <2>2, <2>3, OneCaller, TurnServes DEF Revoke
<1>11. ASSUME NEW t \in Thread, RevokeTokens(t) PROVE SignInType'
  <2>1. \A s \in Thread : call'[s].op = call[s].op
    BY <1>1, <1>11 DEF RevokeTokens, DeleteTokens, Step, Call
  <2> QED
    BY <1>1, <1>11, <2>1 DEF RevokeTokens, SignInType, Serves
<1>12. ASSUME NEW t \in Thread, Revoked(t) PROVE SignInType'
  <2> DEFINE j == [job[t] EXCEPT !.stage = "ready"]
  <2>1. job[t].op \in {"delete", "ban"} /\ job[t].stage = "revoking"
    BY <1>1, <1>12 DEF Revoked, DeleteIndex, At, Serves
  <2>2. j \in Job /\ Serves(j, "idle")
    BY <1>1, <2>1 DEF Job, Serves
  <2>3. call'[t].op = "idle"
    BY <1>1, <1>2, <1>12 DEF Revoked, DeleteIndex, End
  <2> QED
    BY <1>1, <1>12, <2>2, <2>3, OneCaller, TurnServes DEF Revoked, Reach
<1>13. ASSUME NEW t \in Thread, Decide(t) PROVE SignInType'
  <2>1. job[t] \in Job /\ job[t].user \in User /\ call' = call
    BY <1>1, <1>13 DEF Decide, Serves, vars
  <2>2. call[t].op = "idle"
    BY <1>1, <1>13 DEF Decide, Serves, Call
  <2> DEFINE r == rows[job[t].user]
             closed == [r EXCEPT !.status = "DELETED", !.person = NoPerson]
             banned == [r EXCEPT !.status = "BANNED"]
  <2>3. rows' \in [User -> Row]
    <3>1. r \in Row
      BY <1>1, <2>1
    <3>2. closed \in Row /\ banned \in Row
      BY <3>1 DEF Row
    <3>3. \E x \in {r, closed, banned} : rows' = [rows EXCEPT ![job[t].user] = x]
      BY <1>13 DEF Decide
    <3> QED
      BY <1>1, <3>1, <3>2, <3>3
  <2>4. out' \in [User -> SUBSET Token]
    BY <1>1, <1>13, <2>1 DEF Decide, Job
  <2> QED
    BY <1>1, <1>2, <1>13, <2>1, <2>2, <2>3, <2>4, TurnServes DEF Decide, Answer
<1>14. ASSUME NEW t \in Thread, Issued(t) \/ RequestFails(t) PROVE SignInType'
  <2>1. call'[t].op = "idle" /\ \A s \in Thread \ {t} : call'[s] = call[s]
    BY <1>1, <1>2, <1>14, OneCaller
       DEF Issued, RequestFails, ExpireIndex, Fail, End, vars
  <2> QED
    BY <1>1, <1>2, <1>14, <2>1, TurnServes DEF Issued, RequestFails, Answer
<1>15. ASSUME NEW t \in Thread, Logout(t) PROVE SignInType'
  <2>1. call'[t].op \in {"idle", "revoke"} /\ \A s \in Thread \ {t} : call'[s] = call[s]
    BY <1>1, <1>2, <1>15, OneCaller
       DEF Logout, DeleteToken, UnindexToken, GetToken, At, Start, Step, End, Call, keys
  <2> QED
    BY <1>1, <1>15, <2>1 DEF Logout, SignInType, Serves
<1>17. ASSUME NEW t \in Thread, Indexes(t) PROVE SignInType'
  <2>1. \A s \in Thread : call'[s].op = call[s].op
    BY <1>1, <1>17 DEF Indexes, IndexToken, Step, Call
  <2> QED
    BY <1>1, <1>17, <2>1 DEF Indexes, SignInType, Serves
<1>16. ASSUME Lapses \/ UNCHANGED signVars PROVE SignInType'
  BY <1>16 DEF Lapses, Lapse, LapseIndex, signVars, vars, SignInType, Serves
<1> QED
  BY <1>3, <1>4, <1>5, <1>6, <1>7, <1>8, <1>9, <1>10, <1>11, <1>12, <1>13, <1>14, <1>15,
     <1>16, <1>17 DEF SignInNext

-----------------------------------------------------------------------------
\* A token is made for one account and lives once; one that is missed remains so.
LEMMA NoRevival ==
    ASSUME TypeOK, [Next]_vars, NEW k \in Token, minted[k] # NoUser
    PROVE  minted'[k] = minted[k] /\ (k \in live' \ missed' => k \in live \ missed)
<1> DEFINE kept == minted'[k] = minted[k] /\ (k \in live' \ missed' => k \in live \ missed)
<1>1. ASSUME NEW t \in Thread, NEW u \in User, NEW l \in Token, SetToken(t, u, l)
      PROVE  kept
  BY <1>1 DEF SetToken, TypeOK
<1>2. ASSUME UNCHANGED minted, live' \subseteq live, missed \subseteq missed'
      PROVE  kept
  BY <1>2
<1> HIDE DEF kept
<1>3. kept
  BY <1>1, <1>2
     DEF Next, vars, keys, ReadIndex, GetToken, IndexToken, ExpireIndex, DeleteToken, UnindexToken, DeleteTokens,
         DeleteIndex, Fail, Lapse, LapseIndex
<1> QED
  BY <1>3 DEF kept

\* A thread that turns to a request j keeps Decisions if j does.
LEMMA TurnDecides ==
    ASSUME TypeOK, SignInType, Decisions, [Next]_vars, out' = out,
           NEW t \in Thread, NEW j \in Job, Turn(t, j),
           \A s \in Thread \ {t} : call'[s] = call[s],
           call'[t].op = "revokeAll" => j.due = call'[t].due,
           \A k \in j.due : minted[k] # NoUser,
           j.stage = "ready" => j.due \cap live \subseteq missed
    PROVE  Decisions'
<1>1. /\ job' = [job EXCEPT ![t] = j] /\ job \in [Thread -> Job]
      /\ \A s \in Thread : job[s].due \subseteq Token
      /\ j.due \subseteq Token /\ \A u \in User : out[u] \subseteq Token
  BY DEF Turn, SignInType, Job
<1>2. \A k \in Token : minted[k] # NoUser => minted'[k] # NoUser
                                       /\ (k \in live' \ missed' => k \in live \ missed)
  BY NoRevival
<1>3. \A u \in User : \A k \in out'[u] : k \notin live' \ missed' /\ minted'[k] # NoUser
  BY <1>1, <1>2 DEF Decisions
<1>4. ASSUME NEW s \in Thread
      PROVE  /\ call'[s].op = "revokeAll" => job'[s].due = call'[s].due
             /\ \A k \in job'[s].due : minted'[k] # NoUser
             /\ job'[s].stage = "ready" => job'[s].due \cap live' \subseteq missed'
  <2>1. CASE s = t
    BY <1>1, <1>2, <2>1
  <2>2. CASE s # t
    BY <1>1, <1>2, <2>2 DEF Decisions
  <2> QED
    BY <2>1, <2>2
<1> QED
  BY <1>3, <1>4 DEF Decisions

\* A decision becomes ready only when its sessions are gone or missed, and a token
\* never comes back.
LEMMA DecisionsKept ==
    ASSUME TypeOK, Indexed, SignInType, Decisions, [SignInNext]_signVars
    PROVE  Decisions'
<1> USE SessionsAssumption, SignInAssumption
<1>1. /\ job \in [Thread -> Job] /\ call \in [Thread -> Call] /\ [Next]_vars
      /\ \A t \in Thread : Serves(job[t], call[t].op)
  BY SignInSteps DEF SignInType, TypeOK
<1>2. NoJob \in Job /\ NoJob.due = {} /\ NoJob.stage = "absent" /\ Idle.op = "idle"
  BY DEF NoJob, Job, Idle
<1>3. ASSUME NEW t \in Thread, NEW j \in Job, Turn(t, j), j.due = {}, UNCHANGED <<vars, out>>,
             call[t].op # "revokeAll"
      PROVE  Decisions'
  BY <1>1, <1>3, TurnDecides DEF vars
<1>4. ASSUME NEW t \in Thread, NEW op \in {"auth", "start", "staff"}, NEW p \in Person,
             Miss(t, op, p) \/ \E u \in User : Find(t, op, p, u)
      PROVE  Decisions'
  <2> DEFINE absent == [NoJob EXCEPT !.op = op, !.person = p]
             found(u) == [NoJob EXCEPT !.op = op, !.stage = "found", !.user = u]
  <2>1. absent \in Job /\ absent.due = {}
    BY DEF NoJob, Job
  <2>2. \A u \in User : found(u) \in Job /\ found(u).due = {}
    BY DEF NoJob, Job
  <2>3. Turn(t, absent) \/ \E u \in User : Turn(t, found(u))
    BY <1>4 DEF Miss, Find
  <2>4. call[t].op # "revokeAll" /\ UNCHANGED <<vars, out>>
    BY <1>4 DEF Miss, Find, Free
  <2> HIDE DEF absent, found
  <2> QED
    BY <1>3, <2>1, <2>2, <2>3, <2>4
<1>5. ASSUME NEW t \in Thread, NEW u \in User, Register(t, u) PROVE Decisions'
  <2>1. job[t] \in Job /\ call[t].op # "revokeAll"
    BY <1>1, <1>5 DEF Register, Serves
  <2> DEFINE j == [NoJob EXCEPT !.op = job[t].op, !.stage = "found", !.user = u]
  <2>2. j \in Job /\ j.due = {}
    BY <2>1 DEF NoJob, Job
  <2>3. Turn(t, NoJob) \/ Turn(t, j)
    BY <1>5 DEF Register, Answer
  <2>4. UNCHANGED <<vars, out>>
    BY <1>5 DEF Register
  <2> HIDE DEF j
  <2> QED
    BY <1>2, <1>3, <2>1, <2>2, <2>3, <2>4
<1>6. ASSUME NEW t \in Thread,
             (\E u \in User : LoadOther(t, u)) \/ \E k \in Token : Resolve(t, k)
      PROVE  Decisions'
  <2>1. \A u \in User : rows[u].status \in {"OPEN", "BANNED", "DELETED"}
    BY DEF SignInType, Row
  <2> DEFINE other(u) == [NoJob EXCEPT !.op = "ban", !.stage = "loaded", !.user = u,
                                       !.was = rows[u].status]
             self(k) == [NoJob EXCEPT !.op = "delete", !.stage = "resolved",
                                      !.user = minted[k]]
  <2>2. \A u \in User : other(u) \in Job /\ other(u).due = {}
    BY <2>1 DEF NoJob, Job
  <2>3. \A k \in Token : self(k) \in Job /\ self(k).due = {}
    BY DEF NoJob, Job, TypeOK
  <2>4. (\E u \in User : Turn(t, other(u))) \/ (\E k \in Token : Turn(t, self(k)))
    BY <1>6 DEF LoadOther, Resolve
  <2>5. call[t].op # "revokeAll" /\ UNCHANGED <<vars, out>>
    BY <1>6 DEF LoadOther, Resolve, Free
  <2> HIDE DEF other, self
  <2> QED
    BY <1>3, <2>2, <2>3, <2>4, <2>5
<1>7. ASSUME NEW t \in Thread, NEW k \in Token, Issue(t, k) PROVE Decisions'
  <2> DEFINE j == [job[t] EXCEPT !.stage = "issuing"]
  <2>1. job[t].user \in User /\ SetToken(t, job[t].user, k)
    BY <1>1, <1>7 DEF Issue, Serves
  <2>2. call'[t].op = "create" /\ \A s \in Thread \ {t} : call'[s] = call[s]
    BY <1>1, <2>1, OneCaller DEF SetToken, Start
  <2>3. j \in Job /\ j.due = job[t].due /\ j.stage # "ready" /\ Turn(t, j) /\ out' = out
    BY <1>1, <1>7 DEF Issue, Reach, Job
  <2>4. \A l \in j.due : minted[l] # NoUser
    BY <2>3 DEF Decisions
  <2> QED
    BY <1>1, <2>2, <2>3, <2>4, TurnDecides
<1>8. ASSUME NEW t \in Thread, LoadSelf(t) PROVE Decisions'
  <2> DEFINE j == [job[t] EXCEPT !.stage = "loaded"]
  <2>1. /\ j \in Job /\ j.due = job[t].due /\ j.stage # "ready"
        /\ Turn(t, j) /\ UNCHANGED <<vars, out>>
    BY <1>1, <1>8 DEF LoadSelf, Reach, Job
  <2>2. call[t].op # "revokeAll" /\ \A l \in j.due : minted[l] # NoUser
    BY <1>1, <1>8, <2>1 DEF LoadSelf, Serves, Decisions
  <2> QED
    BY <1>1, <2>1, <2>2, TurnDecides DEF vars
<1>9. ASSUME NEW t \in Thread, Revoke(t) PROVE Decisions'
  <2> DEFINE j == [job[t] EXCEPT !.stage = "revoking", !.due = Held(job[t].user)]
  <2>1. job[t].user \in User /\ ReadIndex(t, job[t].user)
    BY <1>1, <1>9 DEF Revoke, Serves
  <2>2. call'[t].due = Held(job[t].user) /\ \A s \in Thread \ {t} : call'[s] = call[s]
    BY <1>1, <2>1, OneCaller DEF ReadIndex, Start, Held
  <2>3. j \in Job /\ j.due = Held(job[t].user) /\ Turn(t, j) /\ out' = out
    BY <1>1, <1>9, <2>1 DEF Revoke, Job, Held, TokensOf
  <2>4. \A k \in j.due : minted[k] # NoUser
    BY <2>1, <2>3 DEF Held, TokensOf
  <2>5. j.stage # "ready"
    BY <1>1 DEF Job
  <2> QED
    BY <1>1, <2>2, <2>3, <2>4, <2>5, TurnDecides
<1>10. ASSUME NEW t \in Thread, RevokeTokens(t) PROVE Decisions'
  <2>1. \A s \in Thread : call'[s].op = call[s].op /\ call'[s].due = call[s].due
    BY <1>1, <1>10 DEF RevokeTokens, DeleteTokens, Step, Call
  <2>2. live' \subseteq live /\ UNCHANGED <<minted, missed, job, out>>
    BY <1>10 DEF RevokeTokens, DeleteTokens
  <2> QED
    BY <2>1, <2>2 DEF Decisions
<1>11. ASSUME NEW t \in Thread, Revoked(t) PROVE Decisions'
  <2> DEFINE j == [job[t] EXCEPT !.stage = "ready"]
  <2>1. call'[t].op = "idle" /\ \A s \in Thread \ {t} : call'[s] = call[s]
    BY <1>1, <1>2, <1>11, OneCaller DEF Revoked, DeleteIndex, End
  <2>2. j \in Job /\ j.due = job[t].due /\ Turn(t, j) /\ out' = out
    BY <1>1, <1>11 DEF Revoked, Reach, Job
  <2>3. At(t, "revokeAll", 2) /\ j.due = call[t].due /\ j.due \subseteq Token
    BY <1>1, <1>11, <2>2 DEF Revoked, DeleteIndex, At, Decisions, Job
  <2>4. j.due \cap live \subseteq missed
    BY <2>3 DEF Indexed, At
  <2>5. \A k \in j.due : minted[k] # NoUser
    BY <2>2 DEF Decisions
  <2> QED
    BY <1>1, <2>1, <2>2, <2>4, <2>5, TurnDecides
<1>12. ASSUME NEW t \in Thread, Decide(t) PROVE Decisions'
  <2> DEFINE u == job[t].user
  <2>1. /\ u \in User /\ job[t].stage = "ready" /\ UNCHANGED vars
        /\ out' = [out EXCEPT ![u] = @ \cup job[t].due]
        /\ job' = [job EXCEPT ![t] = NoJob]
    BY <1>1, <1>12 DEF Decide, Serves, Answer, Turn
  <2>2. \A k \in job[t].due : k \notin live \ missed /\ minted[k] # NoUser
    BY <2>1 DEF Decisions
  <2>3. \A v \in User : \A k \in out'[v] : k \notin live \ missed /\ minted[k] # NoUser
    BY <2>1, <2>2 DEF Decisions, SignInType
  <2>4. call[t].op # "revokeAll"
    BY <1>1, <2>1 DEF Serves
  <2> QED
    BY <1>1, <1>2, <2>1, <2>3, <2>4 DEF Decisions, vars
<1>13. ASSUME NEW t \in Thread, Issued(t) \/ RequestFails(t) PROVE Decisions'
  <2>1. call'[t].op = "idle" /\ \A s \in Thread \ {t} : call'[s] = call[s]
    BY <1>1, <1>2, <1>13, OneCaller
       DEF Issued, RequestFails, ExpireIndex, Fail, End, vars
  <2> QED
    BY <1>1, <1>2, <1>13, <2>1, TurnDecides DEF Issued, RequestFails, Answer
<1>14. ASSUME NEW t \in Thread, Logout(t) PROVE Decisions'
  <2>1. call'[t].op \in {"idle", "revoke"} /\ \A s \in Thread \ {t} : call'[s] = call[s]
    BY <1>1, <1>2, <1>14, OneCaller
       DEF Logout, DeleteToken, UnindexToken, GetToken, At, Start, Step, End, Call, keys
  <2>2. live' \subseteq live /\ UNCHANGED <<minted, missed, job, out>>
    BY <1>14 DEF Logout, DeleteToken, UnindexToken, GetToken, keys
  <2> QED
    BY <2>1, <2>2 DEF Decisions
<1>15. ASSUME Lapses \/ UNCHANGED signVars PROVE Decisions'
  <2>1. /\ live' \subseteq live /\ missed \subseteq missed'
        /\ UNCHANGED <<minted, call, job, out>>
    BY <1>15 DEF Lapses, Lapse, LapseIndex, signVars, vars
  <2> QED
    BY <2>1 DEF Decisions
<1>16. ASSUME NEW t \in Thread, Indexes(t) PROVE Decisions'
  <2>1. \A s \in Thread : call'[s].op = call[s].op /\ call'[s].due = call[s].due
    BY <1>1, <1>16 DEF Indexes, IndexToken, Step, Call
  <2>2. UNCHANGED <<minted, live, missed, job, out>>
    BY <1>16 DEF Indexes, IndexToken
  <2> QED
    BY <2>1, <2>2 DEF Decisions
<1> QED
  BY <1>4, <1>5, <1>6, <1>7, <1>8, <1>9, <1>10, <1>11, <1>12, <1>13, <1>14, <1>15,
     <1>16 DEF SignInNext

-----------------------------------------------------------------------------
\* Every variable keeps its type, whatever the accounts, persons and threads.
LEMMA SignInTypesHold == SignInSpec => [](TypeOK /\ SignInType)
<1>1. SignInInit => TypeOK /\ SignInType
  BY SessionsAssumption, SignInAssumption
     DEF SignInInit, Init, TypeOK, Call, Idle, SignInType, Serves, Row, NoRow, Job, NoJob
<1>2. TypeOK /\ SignInType /\ [SignInNext]_signVars => (TypeOK /\ SignInType)'
  BY SignInSteps, SignInTyped, SessionsType
<1> QED
  BY <1>1, <1>2, PTL DEF SignInSpec

\* Sign-in, logout and the decisions use Redis exactly as Sessions describes, so
\* that what Sessions promises holds of the requests that use it.
THEOREM SignInImplementsSessions == SignInSpec => Spec
<1>1. SignInInit => Init
  BY DEF SignInInit
<1>2. TypeOK /\ SignInType /\ [SignInNext]_signVars => [Next]_vars
  BY SignInSteps
<1> QED
  BY <1>1, <1>2, SignInTypesHold, PTL DEF SignInSpec, Spec

\* What a request and its Redis command know of each other holds of every state.
THEOREM RequestsServe == SignInSpec => []SignInInv
<1>1. SignInInit => Indexed /\ Decisions
  BY SessionsAssumption
     DEF SignInInit, Init, Idle, Indexed, Held, TokensOf, At, Decisions, NoJob
<1>2. TypeOK /\ Indexed /\ SignInType /\ Decisions /\ [SignInNext]_signVars
        => (Indexed /\ Decisions)'
  BY SignInSteps, SessionsIndexed, DecisionsKept
<1>3. Indexed /\ SignInType /\ Decisions => SignInInv
  BY DEF SignInInv
<1> QED
  BY <1>1, <1>2, <1>3, SignInTypesHold, PTL DEF SignInSpec

\* Once a deletion or a ban is committed, no session its account held when it was
\* revoked resolves again, unless the index had lost it unread.
THEOREM ClosedAccountsStayOut == SignInSpec => []ClosedForGood
<1>1. SignInInv => ClosedForGood
  BY DEF SignInInv, SignInType, Decisions, ClosedForGood
<1> QED
  BY <1>1, RequestsServe, PTL
=============================================================================
