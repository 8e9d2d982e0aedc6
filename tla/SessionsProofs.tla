--------------------------- MODULE SessionsProofs ---------------------------
(***************************************************************************)
(* For any accounts, tokens and threads, however logins, logouts and       *)
(* revocations overlap: revoke_all_sessions() leaves alive no session that *)
(* was held when it was called, except one that the index had lost unread. *)
(***************************************************************************)
EXTENDS Sessions, TLAPS

\* Every variable keeps its type and every live token was made for an account.
LEMMA SessionsType == TypeOK /\ [Next]_vars => TypeOK'
<1> SUFFICES ASSUME TypeOK, [Next]_vars PROVE TypeOK'
  OBVIOUS
<1> USE SessionsAssumption DEF TypeOK, Call, Idle, keys
<1>1. ASSUME NEW t \in Thread, NEW u \in User, ReadIndex(t, u) PROVE TypeOK'
  BY <1>1 DEF ReadIndex, Start, TokensOf
<1>2. ASSUME NEW t \in Thread, NEW u \in User, NEW k \in Token, SetToken(t, u, k)
      PROVE TypeOK'
  BY <1>2 DEF SetToken, Start
<1>3. ASSUME NEW t \in Thread, NEW k \in Token, GetToken(t, k) PROVE TypeOK'
  BY <1>3 DEF GetToken, Start
<1>4. ASSUME NEW t \in Thread, IndexToken(t) PROVE TypeOK'
  <2>1. call[t] \in Call /\ call[t].tokens \subseteq Token
    BY DEF Call
  <2>2. index' \in [User -> SUBSET Token]
    BY <1>4, <2>1 DEF IndexToken
  <2>3. /\ call' \in [Thread -> Call]
        /\ \A s \in Thread : call'[s].op = call[s].op /\ call'[s].user = call[s].user
    BY <1>4, <2>1 DEF IndexToken, At, Step
  <2> QED
    BY <1>4, <2>2, <2>3 DEF IndexToken
<1>13. ASSUME NEW t \in Thread, ExpireIndex(t) PROVE TypeOK'
  <2>1. call[t] \in Call /\ call[t].tokens \subseteq Token
    BY DEF Call
  <2>2. timed' \in [User -> SUBSET Token]
    BY <1>13, <2>1 DEF ExpireIndex, TokensOf
  <2>3. call' \in [Thread -> Call] /\ issued' \subseteq Token
    BY <1>13, <2>1 DEF ExpireIndex, End
  <2>4. \A s \in Thread : call'[s] \in {call[s], Idle}
    BY <1>13 DEF ExpireIndex, End
  <2> QED
    BY <1>13, <2>2, <2>3, <2>4 DEF ExpireIndex
<1>5. ASSUME NEW t \in Thread, DeleteToken(t) PROVE TypeOK'
  <2>1. /\ call'[t] \in {Idle, [call[t] EXCEPT !.step = 2]}
        /\ \A s \in Thread \ {t} : call'[s] = call[s]
    BY <1>5 DEF DeleteToken, At, End, Step
  <2>2. call' \in [Thread -> Call]
    BY <1>5, <2>1 DEF DeleteToken, End, Step
  <2> QED
    BY <1>5, <2>1, <2>2 DEF DeleteToken
<1>6. ASSUME NEW t \in Thread, UnindexToken(t) PROVE TypeOK'
  <2>1. call[t] \in Call /\ call[t].tokens \subseteq Token
    BY DEF Call
  <2>2. index' \in [User -> SUBSET Token] /\ timed' \in [User -> SUBSET Token]
    BY <1>6, <2>1 DEF UnindexToken
  <2>3. call' \in [Thread -> Call] /\ issued' \subseteq Token
    BY <1>6, <2>1 DEF UnindexToken, End
  <2>4. \A s \in Thread : call'[s] \in {call[s], Idle}
    BY <1>6 DEF UnindexToken, End
  <2> QED
    BY <1>6, <2>2, <2>3, <2>4 DEF UnindexToken
<1>7. ASSUME NEW t \in Thread, DeleteTokens(t) PROVE TypeOK'
  BY <1>7 DEF DeleteTokens, At, Step
<1>8. ASSUME NEW t \in Thread, DeleteIndex(t) PROVE TypeOK'
  <2>1. call[t] \in Call /\ index[call[t].user] \subseteq Token
    BY <1>8 DEF DeleteIndex, At, Call
  <2>2. /\ index' \in [User -> SUBSET Token] /\ timed' \in [User -> SUBSET Token]
        /\ missed' \subseteq Token
    BY <1>8, <2>1 DEF DeleteIndex
  <2>3. call' \in [Thread -> Call]
    BY <1>8, <2>1 DEF DeleteIndex, End
  <2>4. \A s \in Thread : call'[s] \in {call[s], Idle}
    BY <1>8 DEF DeleteIndex, End
  <2> QED
    BY <1>8, <2>2, <2>3, <2>4 DEF DeleteIndex
<1>9. ASSUME NEW t \in Thread, Fail(t) PROVE TypeOK'
  BY <1>9 DEF Fail, End
<1>10. ASSUME NEW k \in Token, Lapse(k) PROVE TypeOK'
  BY <1>10 DEF Lapse
<1>11. ASSUME NEW u \in User, LapseIndex(u) PROVE TypeOK'
  BY <1>11 DEF LapseIndex
<1>12. CASE UNCHANGED vars
  BY <1>12 DEF vars
<1> QED
  BY <1>1, <1>2, <1>3, <1>4, <1>5, <1>6, <1>7, <1>8, <1>9, <1>10, <1>11, <1>12,
     <1>13 DEF Next

\* Each step of a request, and each lapse, keeps the sessions of an account indexed.
LEMMA SessionsIndexed ==
    ASSUME TypeOK, Indexed, [Next]_vars
    PROVE  Indexed'
<1> USE SessionsAssumption DEF TypeOK, Call, Indexed, Held, TokensOf, At, keys
<1>1. ASSUME NEW t \in Thread, NEW u \in User, ReadIndex(t, u) PROVE Indexed'
  BY <1>1 DEF ReadIndex, Start
<1>2. ASSUME NEW t \in Thread, NEW u \in User, NEW k \in Token, SetToken(t, u, k)
      PROVE Indexed'
  <2>1. /\ call' = [call EXCEPT ![t] = [op |-> "create", step |-> 1, user |-> u,
                                      tokens |-> {k}, due |-> {}]]
        /\ UNCHANGED <<issued, index, timed, missed>> /\ minted[k] = NoUser
        /\ minted' = [minted EXCEPT ![k] = u] /\ live' = live \cup {k}
    BY <1>2 DEF SetToken, Start
  <2>2. \A v \in User : Held(v)' \subseteq Held(v)
    <3>1. k \notin issued
      BY <2>1
    <3>2. /\ \A l \in Token \ {k} : minted'[l] = minted[l] /\ (l \in live' <=> l \in live)
          /\ issued' = issued
      BY <2>1
    <3> QED
      BY <3>1, <3>2
  <2>3. \A s \in Thread : /\ k \notin call[s].tokens
                          /\ call[s].op = "revokeAll" => k \notin call[s].due
    BY <2>1
  <2>4. \A l \in Token : minted[l] # NoUser => minted'[l] = minted[l] /\ (l \in live' => l \in live)
    BY <2>1
  <2> QED
    BY <2>1, <2>2, <2>3, <2>4
<1>3. ASSUME NEW t \in Thread, NEW k \in Token, GetToken(t, k) PROVE Indexed'
  <2>1. /\ k \in issued
        /\ call' = [call EXCEPT ![t] = [op |-> "revoke", step |-> 1,
                        user |-> IF k \in live THEN minted[k] ELSE NoUser,
                        tokens |-> {k}, due |-> {}]]
        /\ UNCHANGED <<minted, keys, issued, missed>>
    BY <1>3 DEF GetToken, Start
  <2> QED
    BY <2>1
<1>4. ASSUME NEW t \in Thread, IndexToken(t) PROVE Indexed'
  BY <1>4 DEF IndexToken, Step
<1>13. ASSUME NEW t \in Thread, ExpireIndex(t) PROVE Indexed'
  BY <1>13 DEF ExpireIndex, End, Idle
<1>5. ASSUME NEW t \in Thread, DeleteToken(t) PROVE Indexed'
  BY <1>5 DEF DeleteToken, End, Step, Idle
<1>6. ASSUME NEW t \in Thread, UnindexToken(t) PROVE Indexed'
  BY <1>6 DEF UnindexToken, End, Idle
<1>7. ASSUME NEW t \in Thread, DeleteTokens(t) PROVE Indexed'
  BY <1>7 DEF DeleteTokens, Step
<1>8. ASSUME NEW t \in Thread, DeleteIndex(t) PROVE Indexed'
  BY <1>8 DEF DeleteIndex, End, Idle
<1>9. ASSUME NEW t \in Thread, Fail(t) PROVE Indexed'
  BY <1>9 DEF Fail, End, Idle
<1>10. ASSUME NEW k \in Token, Lapse(k) PROVE Indexed'
  BY <1>10 DEF Lapse
<1>11. ASSUME NEW u \in User, LapseIndex(u) PROVE Indexed'
  BY <1>11 DEF LapseIndex
<1>12. CASE UNCHANGED vars
  BY <1>12 DEF vars
<1> QED
  BY <1>1, <1>2, <1>3, <1>4, <1>5, <1>6, <1>7, <1>8, <1>9, <1>10, <1>11, <1>12,
     <1>13 DEF Next

-----------------------------------------------------------------------------
\* Every variable keeps its type, and every live token was made for an account,
\* even when logins overlap a revoke_all.
THEOREM SessionsTypes == Spec => []TypeOK
<1>1. Init => TypeOK
  BY SessionsAssumption DEF Init, TypeOK, Call, Idle
<1> QED
  BY <1>1, SessionsType, PTL DEF Spec

\* Every session a member holds is in its account's index unless the index lost it unread.
LEMMA IndexedHolds == Spec => [](TypeOK /\ Indexed)
<1>1. Init => TypeOK /\ Indexed
  BY SessionsAssumption
     DEF Init, TypeOK, Call, Idle, Indexed, Held, TokensOf, At
<1>2. TypeOK /\ Indexed /\ [Next]_vars => (TypeOK /\ Indexed)'
  BY SessionsType, SessionsIndexed
<1> QED
  BY <1>1, <1>2, PTL DEF Spec

\* After revoke_all_sessions() no session held when it was called still resolves,
\* unless its index had lost it unread: to an earlier one, or to a lapse in its own login.
THEOREM RevokedForGood == Spec => []RevokedUnlessMissed
<1>1. TypeOK /\ Indexed => RevokedUnlessMissed
  BY DEF TypeOK, Call, Indexed, RevokedUnlessMissed, At
<1> QED
  BY <1>1, IndexedHolds, PTL

\* A session that a member holds is lost unread only by a revoke_all of its account:
\* the index never lapses under it.
THEOREM IndexOutlivesHeld == Spec => HeldLostByRevocation
<1>1. TypeOK /\ Indexed /\ [Next]_vars =>
         [\A u \in User : Held(u) \cap (missed' \ missed) # {} =>
             \E t \in Thread : /\ At(t, "revokeAll", 2) /\ call[t].user = u
                              /\ call'[t].op = "idle"]_vars
  <2> SUFFICES ASSUME TypeOK, Indexed, [Next]_vars, NEW u \in User,
                      NEW k \in Held(u), k \in missed' \ missed
               PROVE  \E t \in Thread : /\ At(t, "revokeAll", 2) /\ call[t].user = u
                                       /\ call'[t].op = "idle"
    OBVIOUS
  <2>1. k \in Token /\ minted[k] = u /\ k \in live /\ k \in index[u] \cap timed[u]
    BY DEF Held, TokensOf, Indexed
  <2>2. ASSUME NEW t \in Thread, DeleteIndex(t)
        PROVE  At(t, "revokeAll", 2) /\ call[t].user = u /\ call'[t].op = "idle"
    <3>1. At(t, "revokeAll", 2) /\ k \in index[call[t].user] /\ call' = [call EXCEPT ![t] = Idle]
      BY <2>2 DEF DeleteIndex, End
    <3>2. call[t].user \in User
      BY <3>1 DEF At, TypeOK
    <3>3. call[t].user = u
      BY <2>1, <3>1, <3>2 DEF Indexed, TokensOf
    <3> QED
      BY <3>1, <3>3 DEF TypeOK, Idle
  <2>3. ASSUME NEW v \in User, LapseIndex(v) PROVE FALSE
    <3>1. k \in index[v] /\ timed[v] \cap live = {}
      BY <2>3 DEF LapseIndex
    <3> QED
      BY <2>1, <3>1 DEF Indexed, TokensOf
  <2> QED
    BY <2>2, <2>3 DEF Next, vars, ReadIndex, SetToken, GetToken, IndexToken, ExpireIndex,
       DeleteToken, UnindexToken, DeleteTokens, Fail, Lapse
<1> QED
  BY <1>1, IndexedHolds, PTL DEF Spec, HeldLostByRevocation
=============================================================================
