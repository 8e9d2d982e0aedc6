---------------------------- MODULE ClubProofs ----------------------------
(***************************************************************************)
(* Theorems about Club for any number of members, rows, keys, threads,     *)
(* bot tasks and workers.                                                  *)
(***************************************************************************)
EXTENDS ClubInvariant, TLAPS

-----------------------------------------------------------------------------
(* Types of the operators the actions are built from.                      *)

\* The blank session is a session.
LEMMA IdleType == Idle \in Session
BY DEF Idle, Session, Op, Owner, UserRow, NewUser, Status, Profile, VerifRow, NoVerif,
       PhotoRow, NoPhoto, KeyOrNull

\* Rows copied from well-typed tables are well-typed, blank where not selected.
LEMMA LoadedRowsType ==
    ASSUME TypeOK, NEW vs, NEW ps
    PROVE  /\ LoadedVerifs(vs) \in [Verif -> VerifRow]
           /\ LoadedPhotos(ps) \in [Photo -> PhotoRow]
<1>1. NoVerif \in VerifRow /\ NoPhoto \in PhotoRow
  BY DEF NoVerif, VerifRow, NoPhoto, PhotoRow, Owner, KeyOrNull
<1> QED
  BY <1>1 DEF TypeOK, LoadedVerifs, LoadedPhotos

\* A session that has loaded a member and some of its rows is a session.
LEMMA LoadedType ==
    ASSUME TypeOK, NEW op \in Op, NEW u \in User, NEW vs, NEW ps
    PROVE  Loaded(op, u, vs, ps) \in Session
<1>1. users[u] \in UserRow /\ profiles[u] \in Profile /\ u \in Owner
  BY DEF TypeOK, Owner
<1>2. /\ LoadedVerifs(vs) \in [Verif -> VerifRow]
      /\ LoadedPhotos(ps) \in [Photo -> PhotoRow]
  BY LoadedRowsType
<1> QED
  BY <1>1, <1>2, IdleType DEF Loaded, Session

\* So is one that has loaded media rows only.
LEMMA LoadedMediaType ==
    ASSUME TypeOK, NEW op \in Op, NEW vs, NEW ps
    PROVE  LoadedRows(op, vs, ps) \in Session
<1>1. /\ LoadedVerifs(vs) \in [Verif -> VerifRow]
      /\ LoadedPhotos(ps) \in [Photo -> PhotoRow]
  BY LoadedRowsType
<1> QED
  BY <1>1, IdleType DEF LoadedRows, Session

\* Storing a session keeps the variable's type.
LEMMA SetSessionType ==
    ASSUME sess \in [Task -> Session], NEW t \in Task, NEW s \in Session, SetSession(t, s)
    PROVE  sess' \in [Task -> Session]
BY DEF SetSession

\* Clearing keys keeps rows well-typed.
LEMMA ClearedType ==
    ASSUME NEW gone
    PROVE  /\ \A rows \in [Verif -> VerifRow] : Cleared(rows, gone) \in [Verif -> VerifRow]
           /\ \A rows \in [Photo -> PhotoRow] : Cleared(rows, gone) \in [Photo -> PhotoRow]
BY DEF Cleared, VerifRow, PhotoRow, KeyOrNull

\* What a commit writes is well-typed.
LEMMA FlushType ==
    ASSUME TypeOK, NEW s \in Session
    PROVE  /\ FlushedVerifs(s) \in [Verif -> VerifRow]
           /\ FlushedPhotos(s) \in [Photo -> PhotoRow]
           /\ FlushUsers(s) => users' \in [User -> UserRow]
           /\ FlushProfiles(s) => profiles' \in [User -> Profile]
<1>1. \A cur, seen, mine \in UserRow : FlushUser(cur, seen, mine) \in UserRow
  BY DEF FlushUser, Column, UserRow
<1>2. \A cur, seen, mine \in VerifRow : FlushVerif(cur, seen, mine) \in VerifRow
  BY DEF FlushVerif, Column, VerifRow
<1>3. \A cur, seen, mine \in PhotoRow : FlushPhoto(cur, seen, mine) \in PhotoRow
  BY DEF FlushPhoto, Column, PhotoRow
<1>4. /\ s.rowSeen \in UserRow /\ s.row \in UserRow
      /\ s.textSeen \in Profile /\ s.text \in Profile
      /\ s.verifSeen \in [Verif -> VerifRow] /\ s.verif \in [Verif -> VerifRow]
      /\ s.photoSeen \in [Photo -> PhotoRow] /\ s.photo \in [Photo -> PhotoRow]
  BY DEF Session
<1>5. FlushedVerifs(s) \in [Verif -> VerifRow]
  BY <1>2, <1>4 DEF FlushedVerifs, TypeOK
<1>6. FlushedPhotos(s) \in [Photo -> PhotoRow]
  BY <1>3, <1>4 DEF FlushedPhotos, TypeOK
<1>7. FlushUsers(s) => users' \in [User -> UserRow]
  BY <1>1, <1>4 DEF FlushUsers, TypeOK
<1>8. FlushProfiles(s) => profiles' \in [User -> Profile]
  BY <1>4 DEF FlushProfiles, Column, TypeOK
<1> QED
  BY <1>5, <1>6, <1>7, <1>8

-----------------------------------------------------------------------------
(* What a handler does, seen from the shared state: it starts by loading   *)
(* rows, deletes or stores objects, and ends in a commit or a rollback.    *)

\* Why it has loaded the rows whose files it may delete.
LoadsDue(t, s) ==
    /\ \A v \in Verif : s.verifSeen[v].key # NoKey => DueVerif(s, v)
    /\ \A p \in Photo : s.photoSeen[p].key # NoKey =>
          /\ s.op = "sweepPhotos" => users[s.photoSeen[p].owner].status = "DELETED"
          /\ s.op = "delete" => s.photoSeen[p].owner = s.user
          /\ s.op \notin {"cleanup", "sweepVerifs", "moderate"}
    /\ s.op \in {"delete", "moderate"} => t \in Api
    /\ s.stage = "photos" => s.op = "delete"

\* What it is going to do to the account's status and profile.
LoadsAccount(s) ==
    /\ MovesUndecided(s)
    /\ s.user # NoUser => s.textSeen = profiles[s.user]
    /\ s.textSeen # "none" => s.text # "none"
    /\ s.row.status = "PROFILE_CREATED" =>
          s.text # "none" \/ s.rowSeen.status = "PROFILE_CREATED"

\* The session s that task t has after its reads and its own assignments.
LoadedBy(t, s) ==
    /\ s \in Session /\ s.key = NoKey
    /\ s.verif = s.verifSeen /\ \E vs : s.verifSeen = LoadedVerifs(vs)
    /\ \E ps : s.photoSeen = LoadedPhotos(ps)
    /\ \A p \in Photo : s.photo[p].key = s.photoSeen[p].key
    /\ s.user # NoUser => s.user \in User /\ s.rowSeen = users[s.user]
    /\ s.row.linked => s.rowSeen.linked
    /\ s.row.status = "DELETED" /\ s.rowSeen.status # "DELETED" => ~s.row.linked
    /\ s.row.status = "VERIFICATION_PENDING" =>
          s.op = "verification" \/ s.rowSeen.status = "VERIFICATION_PENDING"
    /\ s.op \in BotOp => t \in Bot
    /\ s.op \in {"verifFile", "photoFile"} => s.stage = "loaded"
    /\ s.op \in {"verification", "photoFile", "reveal", "visibility"} => s.user \in User
    /\ s.op # "reveal" /\ s.row.reveal => s.rowSeen.reveal
    /\ s.op # "visibility" /\ s.rowSeen.hidden => s.row.hidden
    /\ s.op \in {"reveal", "visibility"} => t \in Api
    /\ LoadsDue(t, s) /\ LoadsAccount(s)

\* The session of an upload of a verification file when it starts.
LoadsChallenge(s) ==
    /\ s.user \in User /\ users[s.user].status = "VERIFICATION_PENDING"
    /\ \E v \in Verif : IsLatest(s.user, v) /\ s.verifSeen = LoadedVerifs({v})

Starts(t) ==
    /\ sess[t].op = "idle"
    /\ \E s :
          /\ LoadedBy(t, s) /\ SetSession(t, s)
          /\ s.op = "verifFile" => LoadsChallenge(s)
          /\ UNCHANGED <<tables, objects>>

StepOf(t) ==
    \/ Starts(t)
    \/ \E k \in Key : StoreFile(t, k)
    \/ \E k \in Key : StoreUnanswered(t, k)
    \/ \E gone \in SUBSET SweptKeys(sess[t]) : \E known :
          DeletePhotos(t, gone, known) \/ DeleteObjects(t, gone, known)
    \/ Commit(t)
    \/ Rollback(t)

LEMMA StartsFrom ==
    ASSUME NEW t, NEW s, LoadedBy(t, s), sess[t].op = "idle",
           s.op \notin {"verifFile", "photoFile"},
           SetSession(t, s), UNCHANGED <<tables, objects>>
    PROVE  Starts(t)
BY DEF Starts

\* A session op of member u as its SELECTs leave it.
IsLoaded(s, op, u) ==
    /\ s \in Session /\ s.op = op /\ s.stage = "loaded" /\ s.key = NoKey
    /\ s.user = u /\ s.rowSeen = users[u] /\ s.row = users[u]
    /\ s.textSeen = profiles[u] /\ s.text = profiles[u]
    /\ s.verif = s.verifSeen /\ \E vs : s.verifSeen = LoadedVerifs(vs)
    /\ s.photo = s.photoSeen /\ \E ps : s.photoSeen = LoadedPhotos(ps)

LEMMA LoadedIsLoaded ==
    ASSUME TypeOK, NEW op \in Op, NEW u \in User, NEW vs, NEW ps
    PROVE  IsLoaded(Loaded(op, u, vs, ps), op, u)
BY LoadedType DEF Loaded, Idle, IsLoaded

\* A session op that has selected media rows only, as its SELECT leaves it.
IsSweep(s, op) ==
    /\ s \in Session /\ s.op = op /\ s.stage = "loaded" /\ s.key = NoKey
    /\ s.user = NoUser /\ s.rowSeen = NewUser /\ s.row = NewUser
    /\ s.textSeen = "none" /\ s.text = "none"
    /\ s.verif = s.verifSeen /\ \E vs : s.verifSeen = LoadedVerifs(vs)
    /\ s.photo = s.photoSeen /\ \E ps : s.photoSeen = LoadedPhotos(ps)

LEMMA LoadedRowsIsSweep ==
    ASSUME TypeOK, NEW op \in Op, NEW vs, NEW ps
    PROVE  IsSweep(LoadedRows(op, vs, ps), op)
BY LoadedMediaType DEF LoadedRows, Idle, IsSweep

\* A loaded row with a key is one that was selected, as the table has it.
LEMMA Selected ==
    /\ \A vs : \A v \in Verif : LoadedVerifs(vs)[v].key # NoKey =>
          v \in vs /\ LoadedVerifs(vs)[v] = verif[v]
    /\ \A ps : \A p \in Photo : LoadedPhotos(ps)[p].key # NoKey =>
          p \in ps /\ LoadedPhotos(ps)[p] = photos[p]
BY DEF LoadedVerifs, LoadedPhotos, NoVerif, NoPhoto

LEMMA ApiSteps ==
    ASSUME TypeOK, ApiNext PROVE \E t \in Task : StepOf(t)
<1> USE DEF Task
<1>1. ASSUME NEW t \in Api, NEW u \in User, NEW form \in Text,
             BeginProfile(t, u, form)
      PROVE  Starts(t)
  <2> DEFINE L == Loaded("profile", u, {}, {})
             S == [L EXCEPT !.stage = "ready", !.text = form, !.row.status = "PROFILE_CREATED"]
  <2>1. IsLoaded(L, "profile", u)
    BY LoadedIsLoaded DEF Op, ApiOp
  <2> HIDE DEF L
  <2>2. S \in Session
    BY <2>1 DEF IsLoaded, Session, UserRow, Status, Profile
  <2>3. LoadsDue(t, S) /\ LoadsAccount(S)
    BY <2>1, <2>2, <1>1, DataAssumption DEF BeginProfile, IsLoaded, LoadsDue, DueVerif, LoadsAccount,
       MovesUndecided, Decided, Session, UserRow
  <2>4. LoadedBy(t, S)
    BY <2>1, <2>2, <2>3 DEF IsLoaded, LoadedBy, Session, UserRow, BotOp
  <2>5. S.op \notin {"verifFile", "photoFile"}
    BY <2>1 DEF IsLoaded, Session
  <2>6. sess[t].op = "idle" /\ SetSession(t, S) /\ UNCHANGED <<tables, objects>>
    BY <1>1 DEF L, BeginProfile, Begin
  <2> QED
    BY <2>4, <2>5, <2>6, StartsFrom
<1>2. ASSUME NEW t \in Api, NEW u \in User, BeginVerification(t, u)
      PROVE  Starts(t)
  <2> DEFINE L == Loaded("verification", u, {}, {})
             S == [L EXCEPT !.stage = "ready", !.row.status = "VERIFICATION_PENDING"]
  <2>1. IsLoaded(L, "verification", u)
    BY LoadedIsLoaded DEF Op, ApiOp
  <2> HIDE DEF L
  <2>2. S \in Session
    BY <2>1 DEF IsLoaded, Session, UserRow, Status, Profile
  <2>3. LoadsDue(t, S) /\ LoadsAccount(S)
    BY <2>1, <2>2, <1>2, DataAssumption DEF BeginVerification, IsLoaded, LoadsDue, DueVerif, LoadsAccount,
       MovesUndecided, Decided, Session, UserRow
  <2>4. LoadedBy(t, S)
    BY <2>1, <2>2, <2>3 DEF IsLoaded, LoadedBy, Session, UserRow, BotOp
  <2>5. S.op \notin {"verifFile", "photoFile"}
    BY <2>1 DEF IsLoaded, Session
  <2>6. sess[t].op = "idle" /\ SetSession(t, S) /\ UNCHANGED <<tables, objects>>
    BY <1>2 DEF L, BeginVerification, Begin
  <2> QED
    BY <2>4, <2>5, <2>6, StartsFrom
<1>3. ASSUME NEW t \in Api, NEW u \in User, NEW flag \in BOOLEAN,
             BeginVisibility(t, u, flag)
      PROVE  Starts(t)
  <2> DEFINE L == Loaded("visibility", u, {}, {})
             S == [L EXCEPT !.stage = "ready", !.row.hidden = flag]
  <2>1. IsLoaded(L, "visibility", u)
    BY LoadedIsLoaded DEF Op, ApiOp
  <2> HIDE DEF L
  <2>2. S \in Session
    BY <2>1 DEF IsLoaded, Session, UserRow, Status, Profile
  <2>3. LoadsDue(t, S) /\ LoadsAccount(S)
    BY <2>1, <2>2, <1>3, DataAssumption DEF BeginVisibility, IsLoaded, LoadsDue, DueVerif, LoadsAccount,
       MovesUndecided, Decided, Session, UserRow
  <2>4. LoadedBy(t, S)
    BY <2>1, <2>2, <2>3 DEF IsLoaded, LoadedBy, Session, UserRow, BotOp
  <2>5. S.op \notin {"verifFile", "photoFile"}
    BY <2>1 DEF IsLoaded, Session
  <2>6. sess[t].op = "idle" /\ SetSession(t, S) /\ UNCHANGED <<tables, objects>>
    BY <1>3 DEF L, BeginVisibility, Begin
  <2> QED
    BY <2>4, <2>5, <2>6, StartsFrom
<1>4. ASSUME NEW t \in Api, NEW u \in User, NEW flag \in BOOLEAN,
             BeginReveal(t, u, flag)
      PROVE  Starts(t)
  <2> DEFINE L == Loaded("reveal", u, {}, {})
             S == [L EXCEPT !.stage = "ready", !.row.reveal = flag]
  <2>1. IsLoaded(L, "reveal", u)
    BY LoadedIsLoaded DEF Op, ApiOp
  <2> HIDE DEF L
  <2>2. S \in Session
    BY <2>1 DEF IsLoaded, Session, UserRow, Status, Profile
  <2>3. LoadsDue(t, S) /\ LoadsAccount(S)
    BY <2>1, <2>2, <1>4, DataAssumption DEF BeginReveal, IsLoaded, LoadsDue, DueVerif, LoadsAccount,
       MovesUndecided, Decided, Session, UserRow
  <2>4. LoadedBy(t, S)
    BY <2>1, <2>2, <2>3 DEF IsLoaded, LoadedBy, Session, UserRow, BotOp
  <2>5. S.op \notin {"verifFile", "photoFile"}
    BY <2>1 DEF IsLoaded, Session
  <2>6. sess[t].op = "idle" /\ SetSession(t, S) /\ UNCHANGED <<tables, objects>>
    BY <1>4 DEF L, BeginReveal, Begin
  <2> QED
    BY <2>4, <2>5, <2>6, StartsFrom
<1>5. ASSUME NEW t \in Api, NEW u \in User, BeginDelete(t, u)
      PROVE  Starts(t)
  <2> DEFINE L == Loaded("delete", u, {}, PhotosOf(u))
             P == [p \in Photo |->
                     IF p \in PhotosOf(u)
                     THEN [L.photo[p] EXCEPT !.status = "REJECTED", !.approved = FALSE]
                     ELSE L.photo[p]]
             R == [status |-> "DELETED", hidden |-> TRUE, reveal |-> FALSE, linked |-> FALSE]
             S == [L EXCEPT !.stage = "photos", !.text = IF @ = "none" THEN "none" ELSE "erased",
                            !.photo = P, !.row = R]
  <2>1. /\ IsLoaded(L, "delete", u) /\ L.verifSeen = LoadedVerifs({})
        /\ L.photoSeen = LoadedPhotos(PhotosOf(u))
    BY LoadedIsLoaded DEF Op, ApiOp, Loaded, Idle
  <2> HIDE DEF L
  <2>2. P \in [Photo -> PhotoRow] /\ \A p \in Photo : P[p].key = L.photo[p].key
    <3>1. \A r \in PhotoRow :
             LET r2 == [r EXCEPT !.status = "REJECTED", !.approved = FALSE]
             IN  r2 \in PhotoRow /\ r2.key = r.key
      BY DEF PhotoRow
    <3>2. L.photo \in [Photo -> PhotoRow]
      BY <2>1 DEF IsLoaded, Session
    <3> QED
      BY <3>1, <3>2
  <2>3. /\ R \in UserRow /\ R.linked = FALSE /\ R.status = "DELETED"
        /\ R.hidden = TRUE /\ R.reveal = FALSE
    BY DEF UserRow, Status
  <2> HIDE DEF P, R
  <2>4. S \in Session
    BY <2>1, <2>2, <2>3 DEF IsLoaded, Session, Profile
  <2>5. LoadsDue(t, S)
    <3>1. /\ S.op = "delete" /\ S.user = u
          /\ S.verifSeen = LoadedVerifs({}) /\ S.photoSeen = LoadedPhotos(PhotosOf(u))
      BY <2>1 DEF IsLoaded, Session
    <3> HIDE DEF S
    <3> QED
      BY <3>1, Selected DEF LoadsDue, PhotosOf
  <2>6. LoadsAccount(S)
    BY <2>1, <2>3, <1>5 DEF BeginDelete, Current, IsLoaded, LoadsAccount, MovesUndecided, Session
  <2>7. LoadedBy(t, S)
    BY <2>1, <2>2, <2>3, <2>4, <2>5, <2>6 DEF IsLoaded, LoadedBy, Session, BotOp
  <2>8. S.op \notin {"verifFile", "photoFile"}
    BY <2>1 DEF IsLoaded, Session
  <2>9. sess[t].op = "idle" /\ SetSession(t, S) /\ UNCHANGED <<tables, objects>>
    BY <1>5 DEF L, P, R, BeginDelete, Begin
  <2> HIDE DEF S
  <2> QED
    BY <2>7, <2>8, <2>9, StartsFrom
<1>6. ASSUME NEW t \in Api, NEW u \in User, NEW decision \in Decisions,
             BeginModerate(t, u, decision)
      PROVE  Starts(t)
  <2> DEFINE latest == IF decision = "APPROVED" THEN {v \in Verif : IsLatest(u, v)} ELSE {}
             L == Loaded("moderate", u, latest, {})
             S == [L EXCEPT !.stage = IF decision = "APPROVED" THEN "loaded" ELSE "ready",
                            !.row.status = decision]
  <2>1. /\ IsLoaded(L, "moderate", u) /\ L.verifSeen = LoadedVerifs(latest)
        /\ L.photoSeen = LoadedPhotos({})
    BY LoadedIsLoaded DEF Op, ApiOp, Loaded, Idle
  <2> HIDE DEF L
  <2>2. S \in Session
    BY <2>1, DataAssumption DEF IsLoaded, Session, UserRow, Status, Profile
  <2>3. LoadsDue(t, S)
    <3>1. /\ S.op = "moderate" /\ S.user = u /\ S.row.status = decision
          /\ S.verifSeen = LoadedVerifs(latest) /\ S.photoSeen = LoadedPhotos({})
      BY <2>1 DEF IsLoaded, Session, UserRow
    <3>2. S.stage # "photos"
      BY <2>1 DEF IsLoaded, Session
    <3>3. \A v \in latest : decision = "APPROVED" /\ verif[v].owner = u
      BY DEF IsLatest
    <3> HIDE DEF S, latest
    <3> QED
      BY <3>1, <3>2, <3>3, Selected DEF LoadsDue, DueVerif
  <2>4. LoadsAccount(S)
    BY <2>1, DataAssumption DEF IsLoaded, LoadsAccount, MovesUndecided, Session, UserRow
  <2>5. LoadedBy(t, S)
    BY <2>1, <2>2, <2>3, <2>4, DataAssumption DEF IsLoaded, LoadedBy, Session, UserRow, BotOp
  <2>6. S.op \notin {"verifFile", "photoFile"}
    BY <2>1 DEF IsLoaded, Session
  <2>7. Begin(t, "moderate", S)
    BY <1>6 DEF L, BeginModerate
  <2> HIDE DEF S
  <2> QED
    BY <2>5, <2>6, <2>7, StartsFrom DEF Begin
<1>7. ASSUME NEW t \in Api, NEW p \in Photo, NEW approve \in BOOLEAN,
             BeginPhotoDecision(t, p, approve)
      PROVE  Starts(t)
  <2> DEFINE L == LoadedRows("photo", {}, {p})
             status == IF approve THEN "APPROVED" ELSE "REJECTED"
             P == [L.photo EXCEPT ![p].status = status, ![p].approved = approve]
             S == [L EXCEPT !.stage = "ready", !.photo = P]
  <2>1. IsSweep(L, "photo")
    BY LoadedRowsIsSweep DEF Op, ApiOp
  <2> HIDE DEF L
  <2>2. P \in [Photo -> PhotoRow] /\ \A q \in Photo : P[q].key = L.photo[q].key
    BY <2>1 DEF IsSweep, Session, PhotoRow
  <2>3. S = [L EXCEPT !.stage = "ready", !.photo[p].status = status,
                      !.photo[p].approved = approve]
    BY <2>1 DEF IsSweep, Session
  <2> HIDE DEF P
  <2>4. S \in Session
    BY <2>1, <2>2 DEF IsSweep, Session
  <2>5. LoadsDue(t, S) /\ LoadsAccount(S)
    BY <2>1 DEF IsSweep, Session, LoadsDue, DueVerif, LoadsAccount, MovesUndecided, NewUser
  <2>6. LoadedBy(t, S)
    BY <2>1, <2>2, <2>4, <2>5 DEF IsSweep, LoadedBy, Session, NewUser, BotOp
  <2>7. S.op \notin {"verifFile", "photoFile"}
    BY <2>1 DEF IsSweep, Session
  <2>8. sess[t].op = "idle" /\ SetSession(t, S) /\ UNCHANGED <<tables, objects>>
    BY <1>7, <2>3 DEF L, BeginPhotoDecision, Begin
  <2> QED
    BY <2>6, <2>7, <2>8, StartsFrom
<1>8. ASSUME NEW t \in Api, BeginCleanup(t)
      PROVE  Starts(t)
  <2> DEFINE L == LoadedRows("cleanup", ExpiredVerifs, {})
  <2>1. /\ IsSweep(L, "cleanup") /\ L.verifSeen = LoadedVerifs(ExpiredVerifs)
        /\ L.photoSeen = LoadedPhotos({})
    BY LoadedRowsIsSweep DEF Op, ApiOp, LoadedRows, Idle
  <2> HIDE DEF L
  <2>2. LoadsDue(t, L) /\ LoadsAccount(L)
    BY <2>1, Selected
       DEF ExpiredVerifs, IsSweep, LoadsDue, DueVerif, LoadsAccount, MovesUndecided, NewUser
  <2>3. LoadedBy(t, L)
    BY <2>1, <2>2 DEF IsSweep, LoadedBy, NewUser, BotOp
  <2> QED
    BY <2>1, <2>3, <1>8 DEF L, IsSweep, BeginCleanup, Begin, Starts
<1> QED
  BY <1>1, <1>2, <1>3, <1>4, <1>5, <1>6, <1>7, <1>8
     DEF ApiNext, StepOf, ApiCommit, ApiRollback, SweptKeys

LEMMA BotSteps ==
    ASSUME TypeOK, BotNext PROVE \E t \in Task : StepOf(t)
<1> USE DEF Task
<1>1. ASSUME NEW t \in Bot, NEW u \in User, BeginAge(t, u)
      PROVE  Starts(t)
  <2> DEFINE L == Loaded("age", u, {}, {})
             S == [L EXCEPT !.stage = "ready", !.row.status = "AGE_CONFIRMED"]
  <2>1. IsLoaded(L, "age", u)
    BY LoadedIsLoaded DEF Op, BotOp
  <2> HIDE DEF L
  <2>2. S \in Session
    BY <2>1 DEF IsLoaded, Session, UserRow, Status, Profile
  <2>3. LoadsDue(t, S) /\ LoadsAccount(S)
    BY <2>1, <2>2, <1>1, DataAssumption DEF BeginAge, IsLoaded, LoadsDue, DueVerif, LoadsAccount,
       MovesUndecided, Decided, Session, UserRow
  <2>4. LoadedBy(t, S)
    BY <2>1, <2>2, <2>3 DEF IsLoaded, LoadedBy, Session, UserRow, BotOp
  <2>5. S.op \notin {"verifFile", "photoFile"}
    BY <2>1 DEF IsLoaded, Session
  <2>6. sess[t].op = "idle" /\ SetSession(t, S) /\ UNCHANGED <<tables, objects>>
    BY <1>1 DEF L, BeginAge, BeginBot
  <2> QED
    BY <2>4, <2>5, <2>6, StartsFrom
<1>2. ASSUME NEW t \in Bot, NEW u \in User, NEW v \in Verif, IsLatest(u, v),
             users[u].status = "VERIFICATION_PENDING",
             BeginBot(t, u, Loaded("verifFile", u, {v}, {}))
      PROVE  Starts(t)
  <2> DEFINE L == Loaded("verifFile", u, {v}, {})
  <2>1. IsLoaded(L, "verifFile", u) /\ L.verifSeen = LoadedVerifs({v})
    BY LoadedIsLoaded DEF Op, BotOp, Loaded, Idle
  <2> HIDE DEF L
  <2>2. LoadsDue(t, L) /\ LoadsAccount(L)
    BY <2>1, <1>2 DEF IsLoaded, LoadsDue, DueVerif, LoadsAccount, MovesUndecided
  <2>3. LoadedBy(t, L) /\ LoadsChallenge(L) /\ L.op = "verifFile"
    BY <2>1, <2>2, <1>2 DEF IsLoaded, LoadedBy, LoadsChallenge
  <2> QED
    BY <2>3, <1>2 DEF L, BeginBot, Starts
<1>3. ASSUME NEW t \in Bot, NEW u \in User, BeginPhotoFile(t, u)
      PROVE  Starts(t)
  <2> DEFINE L == Loaded("photoFile", u, {}, {})
  <2>1. IsLoaded(L, "photoFile", u)
    BY LoadedIsLoaded DEF Op, BotOp
  <2> HIDE DEF L
  <2>2. LoadsDue(t, L) /\ LoadsAccount(L)
    BY <2>1 DEF IsLoaded, LoadsDue, DueVerif, LoadsAccount, MovesUndecided
  <2>3. LoadedBy(t, L) /\ L.op = "photoFile"
    BY <2>1, <2>2, <1>3 DEF IsLoaded, LoadedBy
  <2> QED
    BY <2>3, <1>3 DEF L, BeginPhotoFile, BeginBot, Starts
<1> QED
  BY <1>1, <1>2, <1>3 DEF BotNext, BeginVerifFile, StepOf, BotCommit, BotRollback

LEMMA WorkerSteps ==
    ASSUME TypeOK, WorkerNext PROVE \E t \in Task : StepOf(t)
<1> USE DEF Task
<1>1. ASSUME NEW t \in Worker, NEW op \in WorkerOp, NEW vs, NEW ps, BeginSweep(t, op, vs, ps),
             op = "sweepVerifs" => ps = {} /\ \A v \in vs : verif[v].expired,
             op = "sweepPhotos" => vs = {} /\ \A p \in ps :
                                      users[photos[p].owner].status = "DELETED"
      PROVE  Starts(t)
  <2> DEFINE L == LoadedRows(op, vs, ps)
  <2>1. IsSweep(L, op) /\ L.verifSeen = LoadedVerifs(vs) /\ L.photoSeen = LoadedPhotos(ps)
    BY LoadedRowsIsSweep DEF Op, LoadedRows, Idle
  <2> HIDE DEF L
  <2>2. LoadsDue(t, L)
    BY <2>1, <1>1, Selected DEF IsSweep, LoadsDue, DueVerif, WorkerOp
  <2>3. LoadsAccount(L)
    BY <2>1 DEF IsSweep, LoadsAccount, MovesUndecided, NewUser, WorkerOp
  <2>4. LoadedBy(t, L)
    BY <2>1, <2>2, <2>3 DEF IsSweep, LoadedBy, NewUser, BotOp, WorkerOp
  <2> QED
    BY <2>1, <2>4, <1>1 DEF L, IsSweep, BeginSweep, Starts, WorkerOp
<1>2. ASSUME NEW t \in Worker, BeginSweepVerifs(t) \/ BeginSweepPhotos(t) PROVE Starts(t)
  BY <1>1, <1>2 DEF BeginSweepVerifs, BeginSweepPhotos, WorkerOp
<1> QED
  BY <1>2 DEF WorkerNext, StepOf, WorkerCommit, WorkerRestart

\* Every step of the system is one of these, or time passing.
LEMMA Steps ==
    TypeOK /\ Next => (\E t \in Task : StepOf(t)) \/ \E v \in Verif : Expire(v)
BY ApiSteps, BotSteps, WorkerSteps DEF Next

-----------------------------------------------------------------------------
(* Type correctness.                                                       *)

\* The worker's next sweep is one of its two.
LEMMA TurnType ==
    ASSUME TypeOK, Next PROVE turn' \in [Worker -> WorkerOp]
<1>1. ASSUME ApiNext PROVE turn' = turn
  <2>1. \A t, op, s : Begin(t, op, s) => turn' = turn
    BY DEF Begin
  <2>2. \A t, gone, known : DeletePhotos(t, gone, known) \/ DeleteObjects(t, gone, known)
                              => turn' = turn
    BY DEF DeletePhotos, DeleteObjects
  <2>3. \A t : ApiCommit(t) \/ ApiRollback(t) => turn' = turn
    BY DEF ApiCommit, ApiRollback
  <2> QED
    BY <1>1, <2>1, <2>2, <2>3
       DEF ApiNext, BeginProfile, BeginVerification, BeginVisibility, BeginReveal,
           BeginDelete, BeginModerate, BeginPhotoDecision, BeginCleanup
<1>2. ASSUME BotNext PROVE turn' = turn
  BY <1>2 DEF BotNext, BeginAge, BeginVerifFile, BeginPhotoFile, BeginBot, StoreFile,
       StoreUnanswered, PutFile, BotCommit, BotRollback
<1>3. ASSUME WorkerNext PROVE turn' \in [Worker -> WorkerOp]
  BY <1>3 DEF WorkerNext, BeginSweepVerifs, BeginSweepPhotos, BeginSweep, DeleteObjects,
       WorkerCommit, WorkerRestart, TypeOK, WorkerOp
<1> QED
  BY <1>1, <1>2, <1>3 DEF Next, Expire, TypeOK

\* A commit or a rollback of any task keeps the tables and sessions well-typed.
LEMMA CommitType ==
    ASSUME TypeOK, NEW t \in Task, Commit(t), turn' \in [Worker -> WorkerOp]
    PROVE  TypeOK'
<1>1. sess[t] \in Session
  BY DEF TypeOK
<1>2. users' \in [User -> UserRow] /\ profiles' \in [User -> Profile]
  BY <1>1, FlushType DEF Commit
<1>3. verif' \in [Verif -> VerifRow]
  <2>1. FlushedVerifs(sess[t]) \in [Verif -> VerifRow] /\ sess[t].user \in Owner
    BY <1>1, FlushType DEF Session
  <2>2. [NoVerif EXCEPT !.owner = sess[t].user] \in VerifRow
    BY <2>1 DEF NoVerif, VerifRow, KeyOrNull
  <2> QED
    BY <2>1, <2>2 DEF Commit, FlushVerifs
<1>4. photos' \in [Photo -> PhotoRow]
  <2>1. /\ FlushedPhotos(sess[t]) \in [Photo -> PhotoRow]
        /\ sess[t].user \in Owner /\ sess[t].key \in KeyOrNull
    BY <1>1, FlushType DEF Session
  <2>2. [NoPhoto EXCEPT !.owner = sess[t].user, !.key = sess[t].key] \in PhotoRow
    BY <2>1 DEF NoPhoto, PhotoRow
  <2> QED
    BY <2>1, <2>2 DEF Commit, FlushPhotos
<1>5. sess' \in [Task -> Session]
  BY IdleType, SetSessionType DEF Commit, TypeOK
<1>6. filed' \in [Verif -> SUBSET Key]
  <2>1. \A v \in Verif : verif'[v].key \in Key \cup {NoKey}
    BY <1>3 DEF VerifRow, KeyOrNull
  <2> QED
    BY <2>1 DEF Commit, TypeOK
<1> QED
  BY <1>2, <1>3, <1>4, <1>5, <1>6 DEF TypeOK, Commit, objects

LEMMA RollbackType ==
    ASSUME TypeOK, NEW t \in Task, Rollback(t), turn' \in [Worker -> WorkerOp]
    PROVE  TypeOK'
BY IdleType, SetSessionType DEF Rollback, TypeOK, tables, objects

\* So does deleting objects, and a handler's start.
LEMMA DeleteObjectsType ==
    ASSUME TypeOK, NEW t \in Task, NEW gone, NEW known,
           DeleteObjects(t, gone, known)
    PROVE  TypeOK'
<1>1. sess[t] \in Session
  BY DEF TypeOK
<1>2. /\ Cleared(sess[t].verif, known) \in [Verif -> VerifRow]
      /\ Cleared(sess[t].photo, known) \in [Photo -> PhotoRow]
  BY <1>1, ClearedType DEF Session
<1>3. sess' \in [Task -> Session]
  BY <1>1, <1>2 DEF DeleteObjects, SetSession, Session, TypeOK
<1> QED
  BY <1>3 DEF DeleteObjects, TypeOK, tables

LEMMA DeletePhotosType ==
    ASSUME TypeOK, NEW t \in Task, NEW gone, NEW known,
           DeletePhotos(t, gone, known)
    PROVE  TypeOK'
<1>1. sess[t] \in Session /\ LoadedVerifs(VerifsOf(sess[t].user)) \in [Verif -> VerifRow]
  BY LoadedRowsType DEF TypeOK
<1>2. Cleared(sess[t].photo, known) \in [Photo -> PhotoRow]
  BY <1>1, ClearedType DEF Session
<1>3. sess' \in [Task -> Session]
  BY <1>1, <1>2 DEF DeletePhotos, SetSession, Session, TypeOK
<1> QED
  BY <1>3 DEF DeletePhotos, TypeOK, tables

LEMMA StoreFileType ==
    ASSUME TypeOK, NEW t \in Task, NEW k \in Key, StoreFile(t, k)
    PROVE  TypeOK'
<1> DEFINE R == [sess[t].row EXCEPT !.status = "ADMIN_REVIEW"]
           V == [v \in Verif |-> IF sess[t].verif[v].owner = NoUser
                                 THEN sess[t].verif[v] ELSE [sess[t].verif[v] EXCEPT !.key = k]]
<1>1. sess[t] \in Session
  BY DEF TypeOK
<1>2. R \in UserRow /\ V \in [Verif -> VerifRow]
  BY <1>1 DEF Session, UserRow, Status, VerifRow, KeyOrNull
<1>3. /\ [sess[t] EXCEPT !.stage = "ready", !.key = k, !.row = R, !.verif = V] \in Session
      /\ [sess[t] EXCEPT !.stage = "ready", !.key = k] \in Session
  <2> HIDE DEF R, V
  <2> QED
    BY <1>1, <1>2 DEF Session, KeyOrNull
<1>4. Submitted(sess[t], k) \in Session
  BY <1>3 DEF Submitted
<1> QED
  BY <1>4, SetSessionType DEF StoreFile, PutFile, TypeOK, tables

LEMMA TypeStep == TypeOK /\ [Next]_vars => TypeOK'
<1> SUFFICES ASSUME TypeOK, [Next]_vars PROVE TypeOK'
  OBVIOUS
<1>1. CASE UNCHANGED vars
  BY <1>1 DEF TypeOK, vars
<1>2. ASSUME NEW v \in Verif, Expire(v) PROVE TypeOK'
  BY <1>2 DEF Expire, TypeOK, VerifRow, objects
<1>3. ASSUME Next, NEW t \in Task, StepOf(t) PROVE TypeOK'
  <2>1. CASE Starts(t)
    BY <1>3, <2>1, TurnType, SetSessionType DEF Starts, LoadedBy, TypeOK, tables, objects
  <2>2. CASE \E k \in Key : StoreFile(t, k)
    BY <2>2, StoreFileType
  <2>3. CASE \E gone, known : DeletePhotos(t, gone, known) \/ DeleteObjects(t, gone, known)
    BY <2>3, DeletePhotosType, DeleteObjectsType
  <2>4. CASE Commit(t) \/ Rollback(t)
    BY <1>3, <2>4, TurnType, CommitType, RollbackType
  <2>5. CASE \E k \in Key : StoreUnanswered(t, k)
    BY <2>5, IdleType, SetSessionType DEF StoreUnanswered, PutFile, TypeOK, tables
  <2> QED
    BY <1>3, <2>1, <2>2, <2>3, <2>4, <2>5 DEF StepOf
<1> QED
  BY <1>1, <1>2, <1>3, Steps

LEMMA InitType == Init => TypeOK
BY IdleType DEF Init, TypeOK, NewUser, UserRow, Status, Profile, NoVerif, VerifRow,
                NoPhoto, PhotoRow, Owner, KeyOrNull, WorkerOp

\* Every reachable state is well-typed.
THEOREM TypeCorrect == Spec => []TypeOK
BY InitType, TypeStep, PTL DEF Spec

-----------------------------------------------------------------------------
(* A deleted account stays unlinked.                                       *)

\* What storing a file changes in the session.
LEMMA SubmittedFields ==
    ASSUME NEW s \in Session, NEW k \in Key
    PROVE  LET r == Submitted(s, k) IN
           /\ r.op = s.op /\ r.stage = "ready" /\ r.key = k /\ r.user = s.user
           /\ r.textSeen = s.textSeen /\ r.text = s.text
           /\ r.rowSeen = s.rowSeen /\ r.row.linked = s.row.linked
           /\ r.row.hidden = s.row.hidden /\ r.row.reveal = s.row.reveal
           /\ r.row.status = IF s.op = "verifFile" THEN "ADMIN_REVIEW" ELSE s.row.status
           /\ r.verifSeen = s.verifSeen /\ r.photoSeen = s.photoSeen /\ r.photo = s.photo
           /\ \A v \in Verif :
                 r.verif[v] = IF s.op = "verifFile" /\ s.verif[v].owner # NoUser
                              THEN [s.verif[v] EXCEPT !.key = k] ELSE s.verif[v]
<1> DEFINE V == [v \in Verif |-> IF s.verif[v].owner = NoUser
                                 THEN s.verif[v] ELSE [s.verif[v] EXCEPT !.key = k]]
<1>1. CASE s.op = "verifFile"
  <2>1. Submitted(s, k) = [s EXCEPT !.stage = "ready", !.key = k,
                                    !.row = [s.row EXCEPT !.status = "ADMIN_REVIEW"],
                                    !.verif = V]
    BY <1>1 DEF Submitted, Session
  <2>2. s.row \in UserRow
    BY DEF Session
  <2>3. /\ [s.row EXCEPT !.status = "ADMIN_REVIEW"].linked = s.row.linked
        /\ [s.row EXCEPT !.status = "ADMIN_REVIEW"].hidden = s.row.hidden
        /\ [s.row EXCEPT !.status = "ADMIN_REVIEW"].reveal = s.row.reveal
        /\ [s.row EXCEPT !.status = "ADMIN_REVIEW"].status = "ADMIN_REVIEW"
    BY <2>2 DEF UserRow
  <2> DEFINE R == [s.row EXCEPT !.status = "ADMIN_REVIEW"]
  <2> HIDE DEF V, R
  <2>4. LET r == Submitted(s, k) IN
           /\ r.op = s.op /\ r.stage = "ready" /\ r.key = k /\ r.user = s.user
           /\ r.textSeen = s.textSeen /\ r.text = s.text
           /\ r.rowSeen = s.rowSeen /\ r.row = R /\ r.verif = V
           /\ r.verifSeen = s.verifSeen /\ r.photoSeen = s.photoSeen /\ r.photo = s.photo
    BY <2>1 DEF Session, R
  <2> QED
    BY <1>1, <2>3, <2>4 DEF V, R
<1>2. CASE s.op # "verifFile"
  BY <1>2 DEF Submitted, Session
<1> QED
  BY <1>1, <1>2

\* What deleting objects changes in the session.
LEMMA DeleteObjectsFields ==
    ASSUME TypeOK, NEW t \in Task, NEW gone, NEW known,
           DeleteObjects(t, gone, known)
    PROVE  LET s == sess[t]
               r == sess'[t] IN
           /\ r.op = s.op /\ r.user = s.user /\ r.rowSeen = s.rowSeen /\ r.row = s.row
           /\ r.textSeen = s.textSeen /\ r.text = s.text
           /\ r.verifSeen = s.verifSeen /\ r.photoSeen = s.photoSeen /\ r.key = s.key
           /\ r.stage = "ready"
           /\ r.verif = Cleared(s.verif, known) /\ r.photo = Cleared(s.photo, known)
           /\ \A b \in Task \ {t} : sess'[b] = sess[b]
<1>1. sess[t] \in Session /\ sess \in [Task -> Session]
  BY DEF TypeOK
<1> DEFINE V == Cleared(sess[t].verif, known)
           P == Cleared(sess[t].photo, known)
<1>2. sess' = [sess EXCEPT ![t] = [sess[t] EXCEPT !.stage = "ready", !.verif = V, !.photo = P]]
  BY <1>1 DEF DeleteObjects, SetSession, Session
<1> HIDE DEF V, P
<1>3. /\ sess'[t] = [sess[t] EXCEPT !.stage = "ready", !.verif = V, !.photo = P]
      /\ \A b \in Task \ {t} : sess'[b] = sess[b]
  BY <1>1, <1>2
<1> QED
  BY <1>1, <1>3 DEF Session, V, P

LEMMA DeletePhotosFields ==
    ASSUME TypeOK, NEW t \in Task, NEW gone, NEW known,
           DeletePhotos(t, gone, known)
    PROVE  LET s == sess[t]
               r == sess'[t]
               vs == LoadedVerifs(VerifsOf(s.user)) IN
           /\ r.op = s.op /\ r.user = s.user /\ r.rowSeen = s.rowSeen /\ r.row = s.row
           /\ r.textSeen = s.textSeen /\ r.text = s.text
           /\ r.photoSeen = s.photoSeen /\ r.key = s.key /\ r.stage = "loaded"
           /\ r.verifSeen = vs /\ r.verif = vs /\ r.photo = Cleared(s.photo, known)
           /\ \A b \in Task \ {t} : sess'[b] = sess[b]
<1>1. sess[t] \in Session /\ sess \in [Task -> Session]
  BY DEF TypeOK
<1> DEFINE V == LoadedVerifs(VerifsOf(sess[t].user))
           P == Cleared(sess[t].photo, known)
<1>2. sess' = [sess EXCEPT ![t] = [sess[t] EXCEPT !.stage = "loaded", !.photo = P,
                                                  !.verifSeen = V, !.verif = V]]
  BY <1>1 DEF DeletePhotos, SetSession, Session
<1> HIDE DEF V, P
<1>3. /\ sess'[t] = [sess[t] EXCEPT !.stage = "loaded", !.photo = P,
                                    !.verifSeen = V, !.verif = V]
      /\ \A b \in Task \ {t} : sess'[b] = sess[b]
  BY <1>1, <1>2
<1> QED
  BY <1>1, <1>3 DEF Session, V, P

\* Unlinking is for good: a commit never links an account, and one that writes
\* DELETED leaves it unlinked.
LEMMA CommitUnlinks ==
    ASSUME UnlinkInv, NEW t \in Task, FlushUsers(sess[t]), NEW u \in User
    PROVE  /\ ~users[u].linked => ~users'[u].linked
           /\ users'[u].status = "DELETED" => ~users'[u].linked
<1> DEFINE s == sess[t]
<1>1. CASE u = s.user
  <2>1. users'[u] = FlushUser(users[u], s.rowSeen, s.row)
    BY <1>1 DEF FlushUsers
  <2>2. s.user # NoUser
    BY <1>1, DataAssumption
  <2>3. OnlyUnlinks(s) /\ s \in Session /\ (users[u].status = "DELETED" => ~users[u].linked)
    BY DEF UnlinkInv, UnlinkOnly, DeletedIsUnlinked, TypeOK
  <2>4. /\ users'[u].status = Column(users[u].status, s.rowSeen.status, s.row.status)
        /\ users'[u].linked = Column(users[u].linked, s.rowSeen.linked, s.row.linked)
    BY <2>1 DEF FlushUser
  <2>5. users[u].linked \in BOOLEAN /\ s.rowSeen.linked \in BOOLEAN /\ s.row.linked \in BOOLEAN
    BY <2>3 DEF UnlinkInv, TypeOK, Session, UserRow
  <2> QED
    BY <1>1, <2>2, <2>3, <2>4, <2>5 DEF Column, OnlyUnlinks
<1>2. CASE u # s.user
  BY <1>2 DEF FlushUsers, UnlinkInv, DeletedIsUnlinked
<1> QED
  BY <1>1, <1>2

LEMMA UnlinkStep == UnlinkInv /\ [Next]_vars => UnlinkInv'
<1> SUFFICES ASSUME UnlinkInv, [Next]_vars PROVE UnlinkInv'
  OBVIOUS
<1>0. TypeOK /\ TypeOK'
  BY TypeStep DEF UnlinkInv
<1>1. CASE UNCHANGED vars
  BY <1>0, <1>1 DEF vars, UnlinkInv, DeletedIsUnlinked, UnlinkOnly, OnlyUnlinks
<1>2. ASSUME NEW v \in Verif, Expire(v) PROVE UnlinkInv'
  BY <1>0, <1>2 DEF Expire, UnlinkInv, DeletedIsUnlinked, UnlinkOnly, OnlyUnlinks
<1>3. ASSUME NEW t \in Task, StepOf(t) PROVE UnlinkInv'
  <2>1. CASE Starts(t)
    <3>1. PICK s : LoadedBy(t, s) /\ SetSession(t, s) /\ UNCHANGED <<tables, objects>>
      BY <2>1 DEF Starts
    <3>2. users' = users /\ sess'[t] = s /\ \A b \in Task \ {t} : sess'[b] = sess[b]
      BY <3>1, <1>0 DEF SetSession, tables, TypeOK
    <3>3. OnlyUnlinks(s)
      BY <3>1 DEF LoadedBy, OnlyUnlinks
    <3> QED
      BY <1>0, <3>2, <3>3 DEF UnlinkInv, DeletedIsUnlinked, UnlinkOnly, OnlyUnlinks
  <2>2. ASSUME NEW k \in Key, StoreFile(t, k) PROVE UnlinkInv'
    <3>1. users' = users /\ sess'[t] = Submitted(sess[t], k)
          /\ \A b \in Task \ {t} : sess'[b] = sess[b]
      BY <2>2, <1>0 DEF StoreFile, PutFile, SetSession, tables, TypeOK
    <3>2. /\ sess'[t].user = sess[t].user /\ sess'[t].rowSeen = sess[t].rowSeen
          /\ sess'[t].row.linked = sess[t].row.linked
          /\ sess'[t].row.status \in {"ADMIN_REVIEW", sess[t].row.status}
      BY <3>1, <1>0, SubmittedFields DEF TypeOK
    <3> QED
      BY <1>0, <3>1, <3>2 DEF UnlinkInv, DeletedIsUnlinked, UnlinkOnly, OnlyUnlinks
  <2>3. ASSUME NEW gone, NEW known,
               DeletePhotos(t, gone, known) \/ DeleteObjects(t, gone, known)
        PROVE  UnlinkInv'
    <3>1. users' = users
      BY <2>3 DEF DeletePhotos, DeleteObjects, tables
    <3>2. \A b \in Task : /\ sess'[b].user = sess[b].user
                          /\ sess'[b].rowSeen = sess[b].rowSeen
                          /\ sess'[b].row = sess[b].row
      BY <1>0, <2>3, DeletePhotosFields, DeleteObjectsFields
    <3> QED
      BY <1>0, <3>1, <3>2 DEF UnlinkInv, DeletedIsUnlinked, UnlinkOnly, OnlyUnlinks
  <2>4. CASE Commit(t)
    <3>1. \A u \in User : /\ ~users[u].linked => ~users'[u].linked
                          /\ users'[u].status = "DELETED" => ~users'[u].linked
      BY <2>4, CommitUnlinks DEF Commit
    <3>2. sess'[t] = Idle /\ \A b \in Task \ {t} : sess'[b] = sess[b]
      BY <2>4, <1>0 DEF Commit, SetSession, TypeOK
    <3>3. \A b \in Task : sess[b].user # NoUser => sess[b].user \in User
      BY <1>0 DEF TypeOK, Session, Owner
    <3> QED
      BY <1>0, <3>1, <3>2, <3>3
         DEF UnlinkInv, DeletedIsUnlinked, UnlinkOnly, OnlyUnlinks, Idle
  <2>5. CASE Rollback(t) \/ \E k \in Key : StoreUnanswered(t, k)
    <3>1. users' = users /\ sess'[t] = Idle /\ \A b \in Task \ {t} : sess'[b] = sess[b]
      BY <2>5, <1>0 DEF Rollback, StoreUnanswered, PutFile, SetSession, TypeOK, tables
    <3> QED
      BY <1>0, <3>1 DEF UnlinkInv, DeletedIsUnlinked, UnlinkOnly, OnlyUnlinks, Idle
  <2> QED
    BY <1>3, <2>1, <2>2, <2>3, <2>4, <2>5 DEF StepOf
<1> QED
  BY <1>0, <1>1, <1>2, <1>3, Steps

\* Once an account is deleted no handler that loaded it before gives it its
\* telegram_id back.
THEOREM DeletedStaysUnlinked == Spec => []DeletedIsUnlinked
<1>1. Init => UnlinkInv
  <2>1. Init => TypeOK
    BY InitType
  <2>2. Init => DeletedIsUnlinked /\ UnlinkOnly
    BY DEF Init, DeletedIsUnlinked, UnlinkOnly, OnlyUnlinks, NewUser, Idle
  <2> QED
    BY <2>1, <2>2 DEF UnlinkInv
<1>2. UnlinkInv => DeletedIsUnlinked
  BY DEF UnlinkInv
<1> QED
  BY <1>1, <1>2, UnlinkStep, PTL DEF Spec

-----------------------------------------------------------------------------
(* What is shown of a member changes by its own hand only.                 *)

\* Only the member's own requests raise a flag, and they run in the API.
OnlyOwnFlags(t, s) ==
    /\ s.op # "reveal" /\ s.row.reveal => s.rowSeen.reveal
    /\ s.op # "visibility" /\ s.rowSeen.hidden => s.row.hidden
    /\ s.op \in {"reveal", "visibility"} => t \in Api
FlagInv == TypeOK /\ \A t \in Task : OnlyOwnFlags(t, sess[t])

LEMMA FlagInit == Init => FlagInv
BY InitType DEF Init, FlagInv, OnlyOwnFlags, Idle, NewUser

LEMMA FlagStep == FlagInv /\ [Next]_vars => FlagInv'
<1> SUFFICES ASSUME FlagInv, [Next]_vars PROVE FlagInv'
  OBVIOUS
<1>0. TypeOK /\ TypeOK'
  BY TypeStep DEF FlagInv
<1>1. CASE UNCHANGED vars
  BY <1>0, <1>1 DEF vars, FlagInv, OnlyOwnFlags
<1>2. ASSUME NEW v \in Verif, Expire(v) PROVE FlagInv'
  BY <1>0, <1>2 DEF Expire, FlagInv, OnlyOwnFlags
<1>3. ASSUME NEW t \in Task, StepOf(t) PROVE FlagInv'
  <2>1. OnlyOwnFlags(t, sess'[t]) /\ \A b \in Task \ {t} : sess'[b] = sess[b]
    <3>1. CASE Starts(t)
      BY <1>0, <3>1 DEF Starts, LoadedBy, SetSession, OnlyOwnFlags, TypeOK
    <3>2. ASSUME NEW k \in Key, StoreFile(t, k)
          PROVE  OnlyOwnFlags(t, sess'[t]) /\ \A b \in Task \ {t} : sess'[b] = sess[b]
      <4>1. /\ sess'[t] = Submitted(sess[t], k) /\ sess[t] \in Session
            /\ \A b \in Task \ {t} : sess'[b] = sess[b]
        BY <1>0, <3>2 DEF StoreFile, PutFile, SetSession, TypeOK
      <4>2. /\ sess'[t].op = sess[t].op /\ sess'[t].rowSeen = sess[t].rowSeen
            /\ sess'[t].row.reveal = sess[t].row.reveal
            /\ sess'[t].row.hidden = sess[t].row.hidden
        BY <4>1, SubmittedFields
      <4> QED
        BY <4>1, <4>2 DEF FlagInv, OnlyOwnFlags
    <3>3. ASSUME NEW gone, NEW known,
                 DeletePhotos(t, gone, known) \/ DeleteObjects(t, gone, known)
          PROVE  OnlyOwnFlags(t, sess'[t]) /\ \A b \in Task \ {t} : sess'[b] = sess[b]
      <4>1. /\ sess'[t].op = sess[t].op /\ sess'[t].rowSeen = sess[t].rowSeen
            /\ sess'[t].row = sess[t].row
            /\ \A b \in Task \ {t} : sess'[b] = sess[b]
        BY <1>0, <3>3, DeletePhotosFields, DeleteObjectsFields
      <4> QED
        BY <4>1 DEF FlagInv, OnlyOwnFlags
    <3>4. CASE Commit(t) \/ Rollback(t) \/ \E k \in Key : StoreUnanswered(t, k)
      <4>1. sess'[t] = Idle /\ \A b \in Task \ {t} : sess'[b] = sess[b]
        BY <1>0, <3>4 DEF Commit, Rollback, StoreUnanswered, SetSession, TypeOK
      <4> QED
        BY <4>1 DEF OnlyOwnFlags, Idle, NewUser
    <3> QED
      BY <1>3, <3>1, <3>2, <3>3, <3>4 DEF StepOf
  <2> QED
    BY <1>0, <2>1 DEF FlagInv
<1> QED
  BY <1>0, <1>1, <1>2, <1>3, Steps

\* A commit that raises a flag is the member's own.
LEMMA FlagCommit ==
    ASSUME FlagInv, NEW t \in Task, Commit(t), NEW u \in User
    PROVE  /\ ~users[u].reveal /\ users'[u].reveal =>
                 t \in Api /\ Commits(t, u, "reveal") /\ sess[t].row.reveal
           /\ users[u].hidden /\ ~users'[u].hidden =>
                 t \in Api /\ Commits(t, u, "visibility") /\ ~sess[t].row.hidden
<1> DEFINE s == sess[t]
<1>0. /\ TypeOK /\ OnlyOwnFlags(t, s) /\ s \in Session /\ sess'[t].op = "idle"
  BY DEF FlagInv, TypeOK, Commit, SetSession, Idle
<1>1. /\ s.row.reveal \in BOOLEAN /\ s.rowSeen.reveal \in BOOLEAN
      /\ s.row.hidden \in BOOLEAN /\ s.rowSeen.hidden \in BOOLEAN
      /\ users[u].reveal \in BOOLEAN /\ users[u].hidden \in BOOLEAN
  BY <1>0 DEF TypeOK, Session, UserRow
<1>2. CASE u = s.user
  <2>1. users'[u] = FlushUser(users[u], s.rowSeen, s.row)
    BY <1>2 DEF Commit, FlushUsers
  <2>2. /\ users'[u].reveal = Column(users[u].reveal, s.rowSeen.reveal, s.row.reveal)
        /\ users'[u].hidden = Column(users[u].hidden, s.rowSeen.hidden, s.row.hidden)
    BY <2>1 DEF FlushUser
  <2>3. ASSUME ~users[u].reveal, users'[u].reveal
        PROVE  s.op = "reveal" /\ s.row.reveal
    BY <1>0, <1>1, <2>2, <2>3 DEF Column, OnlyOwnFlags
  <2>4. ASSUME users[u].hidden, ~users'[u].hidden
        PROVE  s.op = "visibility" /\ ~s.row.hidden
    BY <1>0, <1>1, <2>2, <2>4 DEF Column, OnlyOwnFlags
  <2> QED
    BY <1>0, <1>2, <2>3, <2>4 DEF Commits, OnlyOwnFlags
<1>3. CASE u # s.user
  BY <1>3 DEF Commit, FlushUsers
<1> QED
  BY <1>2, <1>3

\* No handler of the staff, the bot or the worker, and no other request of the member
\* that loaded its row earlier, ever reveals a contact or lists a hidden account.
THEOREM FlagsChangeByOwnHand == Spec => FlagsAreTheMembers
<1>1. FlagInv /\ [Next]_vars =>
        [\A u \in User :
          /\ ~users[u].reveal /\ users'[u].reveal =>
                \E t \in Api : Commits(t, u, "reveal") /\ sess[t].row.reveal
          /\ users[u].hidden /\ ~users'[u].hidden =>
                \E t \in Api : Commits(t, u, "visibility") /\ ~sess[t].row.hidden]_vars
  <2> SUFFICES ASSUME FlagInv, Next, NEW u \in User
               PROVE  /\ ~users[u].reveal /\ users'[u].reveal =>
                          \E t \in Api : Commits(t, u, "reveal") /\ sess[t].row.reveal
                      /\ users[u].hidden /\ ~users'[u].hidden =>
                          \E t \in Api : Commits(t, u, "visibility") /\ ~sess[t].row.hidden
    OBVIOUS
  <2>1. CASE users' = users
    BY <2>1
  <2>2. ASSUME NEW t \in Task, Commit(t)
        PROVE  /\ ~users[u].reveal /\ users'[u].reveal =>
                    t \in Api /\ Commits(t, u, "reveal") /\ sess[t].row.reveal
               /\ users[u].hidden /\ ~users'[u].hidden =>
                    t \in Api /\ Commits(t, u, "visibility") /\ ~sess[t].row.hidden
    BY <2>2, FlagCommit
  <2>3. \A t \in Task : StepOf(t) => users' = users \/ Commit(t)
    BY DEF StepOf, Starts, StoreFile, StoreUnanswered, PutFile, DeletePhotos,
           DeleteObjects, Rollback, tables
  <2>4. \A v \in Verif : Expire(v) => users' = users
    BY DEF Expire
  <2>5. (\E t \in Task : StepOf(t)) \/ (\E v \in Verif : Expire(v))
    BY Steps DEF FlagInv
  <2> QED
    BY <2>1, <2>2, <2>3, <2>4, <2>5
<1> QED
  BY <1>1, FlagInit, FlagStep, PTL DEF Spec, FlagsAreTheMembers

-----------------------------------------------------------------------------
(* A decision stands.                                                      *)

\* What a step does to the part of a session these invariants speak of: only the task
\* that takes it changes, and it starts, goes on with the same account, or ends.
GoesOn(r, s) ==
    /\ r.op = s.op /\ r.user = s.user /\ r.rowSeen = s.rowSeen
    /\ r.textSeen = s.textSeen /\ r.text = s.text
    /\ r.row.status = s.row.status \/ (s.op = "verifFile" /\ r.row.status = "ADMIN_REVIEW")

LEMMA SessionSteps ==
    ASSUME TypeOK, NEW t \in Task, StepOf(t)
    PROVE  /\ \A b \in Task \ {t} : sess'[b] = sess[b]
           /\ \/ /\ users' = users /\ profiles' = profiles
                 /\ LoadedBy(t, sess'[t])
              \/ users' = users /\ profiles' = profiles /\ GoesOn(sess'[t], sess[t])
              \/ users' = users /\ profiles' = profiles /\ sess'[t] = Idle
              \/ Commit(t) /\ sess'[t] = Idle
<1>0. sess \in [Task -> Session] /\ sess[t] \in Session
  BY DEF TypeOK
<1>1. CASE Starts(t)
  BY <1>0, <1>1 DEF Starts, SetSession, tables
<1>2. ASSUME NEW k \in Key, StoreFile(t, k)
      PROVE  /\ users' = users /\ profiles' = profiles /\ GoesOn(sess'[t], sess[t])
             /\ \A b \in Task \ {t} : sess'[b] = sess[b]
  <2>1. /\ users' = users /\ profiles' = profiles /\ sess'[t] = Submitted(sess[t], k)
        /\ \A b \in Task \ {t} : sess'[b] = sess[b]
    BY <1>0, <1>2 DEF StoreFile, PutFile, SetSession, tables
  <2>2. GoesOn(Submitted(sess[t], k), sess[t])
    BY <1>0, SubmittedFields DEF GoesOn
  <2> QED
    BY <2>1, <2>2
<1>3. ASSUME NEW gone, NEW known,
             DeletePhotos(t, gone, known) \/ DeleteObjects(t, gone, known)
      PROVE  /\ users' = users /\ profiles' = profiles /\ GoesOn(sess'[t], sess[t])
             /\ \A b \in Task \ {t} : sess'[b] = sess[b]
  <2>1. users' = users /\ profiles' = profiles
    BY <1>3 DEF DeletePhotos, DeleteObjects, tables
  <2>2. GoesOn(sess'[t], sess[t]) /\ \A b \in Task \ {t} : sess'[b] = sess[b]
    BY <1>3, DeletePhotosFields, DeleteObjectsFields DEF GoesOn
  <2> QED
    BY <2>1, <2>2
<1>4. CASE Commit(t)
  BY <1>0, <1>4 DEF Commit, SetSession
<1>5. CASE Rollback(t) \/ \E k \in Key : StoreUnanswered(t, k)
  BY <1>0, <1>5 DEF Rollback, StoreUnanswered, PutFile, SetSession, tables
<1> QED
  BY <1>1, <1>2, <1>3, <1>4, <1>5 DEF StepOf

\* The blank session has seen and does nothing.
LEMMA IdleMoves ==
    /\ MovesUndecided(Idle) /\ Idle.user = NoUser /\ Idle.op = "idle"
BY DEF MovesUndecided, Idle, NewUser

LEMMA DecidedInit == Init => DecidedInv
BY InitType, IdleMoves DEF Init, DecidedInv

LEMMA DecidedStep == DecidedInv /\ [Next]_vars => DecidedInv'
<1> SUFFICES ASSUME DecidedInv, [Next]_vars PROVE DecidedInv'
  OBVIOUS
<1>0. TypeOK /\ TypeOK'
  BY TypeStep DEF DecidedInv
<1>1. CASE sess' = sess
  BY <1>0, <1>1 DEF DecidedInv, MovesUndecided
<1>2. ASSUME NEW t \in Task, StepOf(t) PROVE DecidedInv'
  <2>1. LoadedBy(t, sess'[t]) => MovesUndecided(sess'[t])
    BY DEF LoadedBy, LoadsAccount
  <2>2. GoesOn(sess'[t], sess[t]) => MovesUndecided(sess'[t])
    BY DEF GoesOn, DecidedInv, MovesUndecided, Decided
  <2>3. MovesUndecided(sess'[t]) /\ \A b \in Task \ {t} : sess'[b] = sess[b]
    BY <1>0, <1>2, <2>1, <2>2, SessionSteps, IdleMoves
  <2> QED
    BY <1>0, <2>3 DEF DecidedInv
<1> QED
  BY <1>0, <1>1, <1>2, Steps DEF vars, Expire

\* A commit that moves a decided account is of the staff, of its deletion, or of a
\* session that loaded it undecided; likewise for the profile of a deleted one.
LEMMA DecidedCommit ==
    ASSUME DecidedInv, NEW t \in Task, Commit(t), NEW u \in User
    PROVE  /\ users[u].status \in Decided /\ users'[u].status # users[u].status =>
                 /\ sess[t].user = u /\ sess'[t].op = "idle"
                 /\ \/ sess[t].op \in {"moderate", "delete"}
                    \/ sess[t].rowSeen.status \notin Decided
           /\ users[u].status = "DELETED" /\ profiles'[u] # profiles[u] =>
                 /\ sess[t].user = u /\ sess'[t].op = "idle"
                 /\ sess[t].rowSeen.status # "DELETED"
<1> DEFINE s == sess[t]
<1>0. MovesUndecided(s) /\ sess'[t].op = "idle"
  BY IdleMoves DEF DecidedInv, TypeOK, Commit, SetSession
<1>1. CASE u = s.user
  <2>1. users'[u].status = Column(users[u].status, s.rowSeen.status, s.row.status)
    BY <1>1 DEF Commit, FlushUsers, FlushUser
  <2>2. profiles'[u] = Column(profiles[u], s.textSeen, s.text)
    BY <1>1 DEF Commit, FlushProfiles
  <2> QED
    BY <1>0, <1>1, <2>1, <2>2 DEF Column, MovesUndecided
<1>2. CASE u # s.user
  BY <1>2 DEF Commit, FlushUsers, FlushProfiles
<1> QED
  BY <1>1, <1>2

\* A ban, a suspension, a rejection, an approval or a deletion is undone by nobody but
\* the staff, or by a handler that read the account before it (the window the run
\* Club_ban shows): none of the other handlers can, for any members and threads.
THEOREM DecisionsHold == Spec => DecisionsStand
<1>1. DecidedInv /\ [Next]_vars =>
        [\A u \in User :
          /\ users[u].status \in Decided /\ users'[u].status # users[u].status =>
                \E t \in Task : /\ sess[t].user = u /\ sess'[t].op = "idle"
                               /\ \/ sess[t].op \in {"moderate", "delete"}
                                  \/ sess[t].rowSeen.status \notin Decided
          /\ users[u].status = "DELETED" /\ profiles'[u] # profiles[u] =>
                \E t \in Task : /\ sess[t].user = u /\ sess'[t].op = "idle"
                               /\ sess[t].rowSeen.status # "DELETED"]_vars
  <2> SUFFICES ASSUME DecidedInv, Next, NEW u \in User
               PROVE  /\ users[u].status \in Decided /\ users'[u].status # users[u].status =>
                          \E t \in Task : /\ sess[t].user = u /\ sess'[t].op = "idle"
                                         /\ \/ sess[t].op \in {"moderate", "delete"}
                                            \/ sess[t].rowSeen.status \notin Decided
                      /\ users[u].status = "DELETED" /\ profiles'[u] # profiles[u] =>
                          \E t \in Task : /\ sess[t].user = u /\ sess'[t].op = "idle"
                                         /\ sess[t].rowSeen.status # "DELETED"
    OBVIOUS
  <2>1. CASE users' = users /\ profiles' = profiles
    BY <2>1
  <2>2. CASE \E t \in Task : Commit(t)
    BY <2>2, DecidedCommit
  <2>3. \A t \in Task : StepOf(t) => (users' = users /\ profiles' = profiles) \/ Commit(t)
    BY SessionSteps DEF DecidedInv
  <2> QED
    BY <2>1, <2>2, <2>3, Steps DEF DecidedInv, Expire
<1> QED
  BY <1>1, DecidedInit, DecidedStep, PTL DEF Spec, DecisionsStand

-----------------------------------------------------------------------------
(* An account that is said to have a profile has one.                      *)

\* A commit takes no profile away, and one that says there is one leaves one.
LEMMA ProfileCommit ==
    ASSUME ProfileInv, NEW t \in Task, Commit(t), NEW u \in User
    PROVE  /\ profiles[u] # "none" => profiles'[u] # "none"
           /\ users'[u].status = "PROFILE_CREATED" => profiles'[u] # "none"
<1> DEFINE s == sess[t]
<1>1. CASE u = s.user
  <2>1. users'[u].status = Column(users[u].status, s.rowSeen.status, s.row.status)
    BY <1>1 DEF Commit, FlushUsers, FlushUser
  <2>2. profiles'[u] = Column(profiles[u], s.textSeen, s.text)
    BY <1>1 DEF Commit, FlushProfiles
  <2>3. KeepsProfile(s) /\ s.user # NoUser
    BY <1>1, DataAssumption DEF ProfileInv
  <2> QED
    BY <1>1, <2>1, <2>2, <2>3 DEF Column, KeepsProfile, ProfileInv, CreatedHasProfile
<1>2. CASE u # s.user
  BY <1>2 DEF Commit, FlushUsers, FlushProfiles, ProfileInv, CreatedHasProfile
<1> QED
  BY <1>1, <1>2

LEMMA ProfileStep == ProfileInv /\ [Next]_vars => ProfileInv'
<1> SUFFICES ASSUME ProfileInv, [Next]_vars PROVE ProfileInv'
  OBVIOUS
<1>0. /\ TypeOK /\ TypeOK'
      /\ \A t \in Task : sess[t].user # NoUser => sess[t].user \in User
  BY TypeStep DEF ProfileInv, TypeOK, Session, Owner
<1>1. CASE sess' = sess /\ users' = users /\ profiles' = profiles
  BY <1>0, <1>1 DEF ProfileInv, KeepsProfile, CreatedHasProfile
<1>2. ASSUME NEW t \in Task, StepOf(t) PROVE ProfileInv'
  <2>0. \A b \in Task \ {t} : sess'[b] = sess[b]
    BY <1>0, <1>2, SessionSteps
  <2>1. CASE Commit(t) /\ sess'[t] = Idle
    <3>1. CreatedHasProfile'
      BY <2>1, ProfileCommit DEF CreatedHasProfile
    <3>2. ASSUME NEW b \in Task PROVE KeepsProfile(sess[b])' \/ b = t
      BY <1>0, <2>0, <2>1, ProfileCommit DEF ProfileInv, KeepsProfile
    <3> QED
      BY <1>0, <2>1, <3>1, <3>2, IdleMoves DEF ProfileInv, KeepsProfile
  <2>2. ASSUME users' = users, profiles' = profiles, LoadedBy(t, sess'[t])
        PROVE  ProfileInv'
    BY <1>0, <2>0, <2>2 DEF ProfileInv, CreatedHasProfile, KeepsProfile, LoadedBy, LoadsAccount
  <2>3. ASSUME users' = users, profiles' = profiles, GoesOn(sess'[t], sess[t])
        PROVE  ProfileInv'
    BY <1>0, <2>0, <2>3 DEF ProfileInv, CreatedHasProfile, KeepsProfile, GoesOn
  <2>4. ASSUME users' = users, profiles' = profiles, sess'[t] = Idle
        PROVE  ProfileInv'
    BY <1>0, <2>0, <2>4, IdleMoves DEF ProfileInv, CreatedHasProfile, KeepsProfile
  <2> QED
    BY <1>0, <1>2, <2>1, <2>2, <2>3, <2>4, SessionSteps
<1> QED
  BY <1>0, <1>1, <1>2, Steps DEF vars, Expire

\* Two forms of one member, sent at once, never leave the account at PROFILE_CREATED
\* without a profile: the one whose INSERT fails writes no status either.
THEOREM ProfileBehindStatus == Spec => []CreatedHasProfile
<1>1. Init => ProfileInv
  BY InitType, IdleMoves DEF Init, ProfileInv, CreatedHasProfile, KeepsProfile, NewUser
<1>2. ProfileInv => CreatedHasProfile
  BY DEF ProfileInv
<1> QED
  BY <1>1, <1>2, ProfileStep, PTL DEF Spec

=============================================================================
