---------------------------- MODULE BotHandlers ----------------------------
(***************************************************************************)
(* The bot process: aiogram runs the handlers as tasks of one event loop.  *)
(* age_yes() touches the database without an await, so no other task of    *)
(* the bot runs between its read and its commit.  media() awaits only its  *)
(* download; from there to its commit it blocks the loop, the virus scan   *)
(* and the put included.                                                   *)
(***************************************************************************)
EXTENDS ClubData

LoopFree(t) == \A b \in Bot \ {t} : sess[b].op = "idle" \/ sess[b].stage = "loaded"

BeginBot(t, u, s) ==
    /\ t \in Bot /\ sess[t].op = "idle" /\ LoopFree(t)
    /\ users[u].linked                       \* found by telegram_id
    /\ SetSession(t, s)
    /\ UNCHANGED <<tables, objects, turn>>

BeginAge(t, u) ==
    /\ users[u].status = "NEW"
    /\ BeginBot(t, u, [Loaded("age", u, {}, {}) EXCEPT
                          !.stage = "ready", !.row.status = "AGE_CONFIRMED"])

BeginVerifFile(t, u) ==
    /\ users[u].status = "VERIFICATION_PENDING"
    /\ \E v \in Verif :
          /\ IsLatest(u, v)
          /\ BeginBot(t, u, Loaded("verifFile", u, {v}, {}))

\* The photos are counted before the download and the row is inserted after it: a
\* member who sends an album may end up with more than the limit.
BeginPhotoFile(t, u) ==
    /\ users[u].status \in {"AGE_CONFIRMED", "PROFILE_CREATED", "APPROVED"}
    /\ Cardinality(PhotosOf(u)) < MaxPhotos
    /\ BeginBot(t, u, Loaded("photoFile", u, {}, {}))

\* The handler's copies once the file is stored under key k.
Submitted(s, k) ==
    IF s.op = "verifFile"
    THEN [s EXCEPT !.stage = "ready", !.key = k, !.row.status = "ADMIN_REVIEW",
                   !.verif = [v \in Verif |->
                                IF @[v].owner = NoUser THEN @[v] ELSE [@[v] EXCEPT !.key = k]]]
    ELSE [s EXCEPT !.stage = "ready", !.key = k]

\* The file is downloaded, accepted and stored under a fresh key.  A file that
\* is refused, or a store that fails, ends the handler: BotRollback.
\* Mutant of PutFile: a key is used again once its object is gone.
PutFileReusing(t, k) ==
    /\ t \in Bot /\ LoopFree(t)
    /\ sess[t].op \in {"verifFile", "photoFile"} /\ sess[t].stage = "loaded"
    /\ k \notin store
    /\ store' = store \cup {k} /\ minted' = minted \cup {k}
    /\ UNCHANGED <<tables, turn>>
PutFile(t, k) ==
    /\ t \in Bot /\ LoopFree(t)
    /\ sess[t].op \in {"verifFile", "photoFile"} /\ sess[t].stage = "loaded"
    /\ k \notin minted
    /\ store' = store \cup {k} /\ minted' = minted \cup {k}
    /\ UNCHANGED <<tables, turn>>

StoreFile(t, k) == PutFile(t, k) /\ SetSession(t, Submitted(sess[t], k))

\* The object is stored but put_object() raises, its answer lost: the handler
\* ends as if the file had been refused, and nobody knows the key.
StoreUnanswered(t, k) == BotFails /\ PutFile(t, k) /\ SetSession(t, Idle)

BotCommit(t) == t \in Bot /\ LoopFree(t) /\ Commit(t) /\ UNCHANGED turn
BotRollback(t) == t \in Bot /\ LoopFree(t) /\ Rollback(t) /\ UNCHANGED turn

BotNext ==
    \E t \in Bot :
        \/ \E u \in User : BeginAge(t, u) \/ BeginVerifFile(t, u) \/ BeginPhotoFile(t, u)
        \/ \E k \in Key : StoreFile(t, k) \/ StoreUnanswered(t, k)
        \/ BotCommit(t)
        \/ BotRollback(t)
=============================================================================
