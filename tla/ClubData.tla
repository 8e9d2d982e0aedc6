------------------------------ MODULE ClubData ------------------------------
(***************************************************************************)
(* The tables and the object store that the API, the bot and the retention *)
(* worker share, and the database session each of their handlers works in. *)
(*                                                                         *)
(* A handler reads rows into a SQLAlchemy session, works on its copies and *)
(* commits.  Other handlers run between the read and the commit: the       *)
(* isolation level is READ COMMITTED and nothing is locked.  A commit      *)
(* writes a column only if the handler's copy differs from what it loaded; *)
(* every other column keeps what the table holds by then.                  *)
(***************************************************************************)
EXTENDS Naturals, FiniteSets

CONSTANTS
    User,       \* users.id
    Photo,      \* profile_photos.id
    Key,        \* object-store keys
    Text,       \* contents a profile form can have
    Api,        \* request threads of the API process
    Bot,        \* handler tasks of the bot process
    Worker,     \* passes of the retention worker
    MaxVerifs,  \* bound: verification rows
    MaxPhotos,  \* settings.max_profile_photos
    Requests,   \* the API operations a behaviour may start
    Decisions,  \* the moderation decisions a behaviour may take
    BotFails,   \* an upload may end, by a crash or a store that does not answer,
                \* after its file is stored and before its commit
    NoUser,     \* the owner of a row not inserted yet
    NoKey       \* NULL storage_key

Verif == 1 .. MaxVerifs
Task == Api \cup Bot \cup Worker

ASSUME DataAssumption ==
    /\ MaxVerifs \in Nat
    /\ MaxPhotos \in Nat
    /\ NoUser \notin User
    /\ NoKey \notin Key
    /\ "none" \notin Text
    /\ Decisions \subseteq {"APPROVED", "REJECTED", "REVISION_REQUIRED",
                           "SUSPENDED", "BANNED"}
    /\ BotFails \in BOOLEAN
    /\ Api \cap Bot = {} /\ Api \cap Worker = {} /\ Bot \cap Worker = {}

VARIABLES
    users,      \* users
    profiles,   \* profiles: the text of each member's row
    verif,      \* verifications
    photos,     \* profile_photos
    store,      \* the objects in the bucket
    minted,     \* every key a put has used; keys are random and never repeat
    sess,       \* the database session of each task
    turn,       \* the sweep each worker's loop runs next
    filed       \* the keys each verification row was ever given, for the properties only

vars == <<users, profiles, verif, photos, filed, store, minted, sess, turn>>

-----------------------------------------------------------------------------
(* Rows.  "expired" is created_at older than the retention period.  The    *)
(* columns media_file_id and storage_key of a verification are set and     *)
(* cleared together, so "key" stands for both.                             *)

Status == {"NEW", "AGE_CONFIRMED", "PROFILE_CREATED", "VERIFICATION_PENDING",
           "ADMIN_REVIEW", "APPROVED", "REVISION_REQUIRED", "REJECTED",
           "SUSPENDED", "BANNED", "DELETED"}
UserRow == [status : Status, hidden : BOOLEAN, reveal : BOOLEAN, linked : BOOLEAN]
Profile == Text \cup {"none", "erased"}
Owner == User \cup {NoUser}
KeyOrNull == Key \cup {NoKey}
VerifRow == [owner : Owner, key : KeyOrNull, expired : BOOLEAN]
PhotoRow == [owner : Owner, key : KeyOrNull,
             status : {"PENDING", "APPROVED", "REJECTED"}, approved : BOOLEAN]

NewUser == [status |-> "NEW", hidden |-> FALSE, reveal |-> FALSE, linked |-> TRUE]
NoVerif == [owner |-> NoUser, key |-> NoKey, expired |-> FALSE]
NoPhoto == [owner |-> NoUser, key |-> NoKey, status |-> "PENDING", approved |-> FALSE]

IsLatest(u, v) ==
    /\ verif[v].owner = u
    /\ \A w \in Verif : verif[w].owner = u => w <= v
IsNextId(v) ==
    /\ verif[v].owner = NoUser
    /\ \A w \in Verif : w < v => verif[w].owner # NoUser
PhotosOf(u) == {p \in Photo : photos[p].owner = u}
VerifsOf(u) == {v \in Verif : verif[v].owner = u}

-----------------------------------------------------------------------------
(* Sessions.  "...Seen" is a row as it was loaded, the plain name is the   *)
(* session's copy; a row the session did not select is blank in both.      *)

ApiOp == {"profile", "verification", "visibility", "reveal", "delete",
          "moderate", "photo", "cleanup"}
BotOp == {"age", "verifFile", "photoFile"}
WorkerOp == {"sweepVerifs", "sweepPhotos"}
Op == ApiOp \cup BotOp \cup WorkerOp \cup {"idle"}

Session ==
    [op : Op,
     stage : {"photos", "loaded", "ready"},  \* objects to delete next; "ready": none
     user : Owner, rowSeen : UserRow, row : UserRow,
     textSeen : Profile, text : Profile,
     verifSeen : [Verif -> VerifRow], verif : [Verif -> VerifRow],
     photoSeen : [Photo -> PhotoRow], photo : [Photo -> PhotoRow],
     key : KeyOrNull]                   \* the object this session has put

Idle ==
    [op |-> "idle", stage |-> "ready",
     user |-> NoUser, rowSeen |-> NewUser, row |-> NewUser,
     textSeen |-> "none", text |-> "none",
     verifSeen |-> [v \in Verif |-> NoVerif], verif |-> [v \in Verif |-> NoVerif],
     photoSeen |-> [p \in Photo |-> NoPhoto], photo |-> [p \in Photo |-> NoPhoto],
     key |-> NoKey]

LoadedVerifs(vs) == [v \in Verif |-> IF v \in vs THEN verif[v] ELSE NoVerif]
LoadedPhotos(ps) == [p \in Photo |-> IF p \in ps THEN photos[p] ELSE NoPhoto]

\* The session of operation op on member u after its SELECTs.
Loaded(op, u, vs, ps) ==
    [Idle EXCEPT !.op = op, !.stage = "loaded", !.user = u,
                 !.rowSeen = users[u], !.row = users[u],
                 !.textSeen = profiles[u], !.text = profiles[u],
                 !.verifSeen = LoadedVerifs(vs), !.verif = LoadedVerifs(vs),
                 !.photoSeen = LoadedPhotos(ps), !.photo = LoadedPhotos(ps)]

\* The same for an operation that selects media rows only.
LoadedRows(op, vs, ps) ==
    [Idle EXCEPT !.op = op, !.stage = "loaded",
                 !.verifSeen = LoadedVerifs(vs), !.verif = LoadedVerifs(vs),
                 !.photoSeen = LoadedPhotos(ps), !.photo = LoadedPhotos(ps)]

SetSession(t, s) == sess' = [sess EXCEPT ![t] = s]
tables == <<users, profiles, verif, photos, filed>>
objects == <<store, minted>>

-----------------------------------------------------------------------------
(* Commit.                                                                 *)

\* Mutant: the whole row is written back, changed or not.
ColumnBlind(current, seen, mine) == mine
Column(current, seen, mine) == IF mine = seen THEN current ELSE mine

FlushUser(cur, seen, mine) ==
    [status |-> Column(cur.status, seen.status, mine.status),
     hidden |-> Column(cur.hidden, seen.hidden, mine.hidden),
     reveal |-> Column(cur.reveal, seen.reveal, mine.reveal),
     linked |-> Column(cur.linked, seen.linked, mine.linked)]
FlushVerif(cur, seen, mine) ==
    [cur EXCEPT !.key = Column(cur.key, seen.key, mine.key)]
FlushPhoto(cur, seen, mine) ==
    [cur EXCEPT !.key = Column(cur.key, seen.key, mine.key),
                !.status = Column(cur.status, seen.status, mine.status),
                !.approved = Column(cur.approved, seen.approved, mine.approved)]

FlushUsers(s) ==
    users' = [u \in User |-> IF u = s.user
                             THEN FlushUser(users[u], s.rowSeen, s.row) ELSE users[u]]
FlushProfiles(s) ==
    profiles' = [u \in User |-> IF u = s.user
                                THEN Column(profiles[u], s.textSeen, s.text)
                                ELSE profiles[u]]

FlushedVerifs(s) == [v \in Verif |-> FlushVerif(verif[v], s.verifSeen[v], s.verif[v])]
FlushedPhotos(s) == [p \in Photo |-> FlushPhoto(photos[p], s.photoSeen[p], s.photo[p])]

\* start_verification() inserts a challenge, an accepted profile photo its row;
\* every other session only updates the rows it loaded.
\* Mutant of FlushVerifs: a member who has a challenge keeps it.
FlushVerifsReusing(s) ==
    IF s.op = "verification" /\ VerifsOf(s.user) = {}
    THEN \E v \in Verif :
            /\ IsNextId(v)
            /\ verif' = [FlushedVerifs(s) EXCEPT ![v] = [NoVerif EXCEPT !.owner = s.user]]
    ELSE verif' = FlushedVerifs(s)
FlushVerifs(s) ==
    IF s.op = "verification"
    THEN \E v \in Verif :
            /\ IsNextId(v)
            /\ verif' = [FlushedVerifs(s) EXCEPT ![v] = [NoVerif EXCEPT !.owner = s.user]]
    ELSE verif' = FlushedVerifs(s)
FlushPhotos(s) ==
    IF s.op = "photoFile"
    THEN \E p \in Photo :
            /\ photos[p].owner = NoUser
            /\ photos' = [FlushedPhotos(s) EXCEPT
                             ![p] = [NoPhoto EXCEPT !.owner = s.user, !.key = s.key]]
    ELSE photos' = FlushedPhotos(s)

\* profiles.user_id is unique: a second INSERT fails and the session rolls back.
InsertConflicts(s) == s.textSeen = "none" /\ s.text # "none" /\ profiles[s.user] # "none"

Commit(t) ==
    /\ sess[t].op # "idle" /\ sess[t].stage = "ready"
    /\ ~InsertConflicts(sess[t])
    /\ FlushUsers(sess[t]) /\ FlushProfiles(sess[t])
    /\ FlushVerifs(sess[t]) /\ FlushPhotos(sess[t])
    /\ filed' = [v \in Verif |-> filed[v] \cup ({verif'[v].key} \ {NoKey})]
    /\ SetSession(t, Idle)
    /\ UNCHANGED objects

\* An exception, a failed commit or the end of the process: nothing is written,
\* but objects already deleted or stored stay so.
Rollback(t) ==
    /\ sess[t].op # "idle"
    /\ t \in Bot => sess[t].key = NoKey \/ BotFails
    /\ SetSession(t, Idle)
    /\ UNCHANGED <<tables, objects>>

-----------------------------------------------------------------------------
(* delete_object() on the keys of the loaded rows.  A call can fail: the    *)
(* store is unreachable, or it deletes the object and its answer is lost.   *)
(* "gone" are the objects deleted, "known" those whose call returned; only  *)
(* their keys are cleared in the copies.                                    *)

KeysOf(rows) == {rows[r].key : r \in DOMAIN rows} \ {NoKey}
\* Mutant: the key is forgotten even if the object could not be deleted.
ClearedAlways(rows, known) == [r \in DOMAIN rows |-> [rows[r] EXCEPT !.key = NoKey]]
Cleared(rows, known) ==
    [r \in DOMAIN rows |-> IF rows[r].key \in known THEN [rows[r] EXCEPT !.key = NoKey]
                                                    ELSE rows[r]]

DeleteObjects(t, gone, known) ==
    /\ sess[t].op \in {"delete", "moderate", "cleanup"} \cup WorkerOp
    /\ sess[t].stage = "loaded"
    /\ known \subseteq gone
    /\ store' = store \ gone
    /\ SetSession(t, [sess[t] EXCEPT !.stage = "ready",
                                     !.verif = Cleared(@, known),
                                     !.photo = Cleared(@, known)])
    /\ UNCHANGED <<tables, minted, turn>>

\* A verification row passes the retention period.
Expire(v) ==
    /\ verif[v].owner # NoUser /\ ~verif[v].expired
    /\ verif' = [verif EXCEPT ![v].expired = TRUE]
    /\ UNCHANGED <<users, profiles, photos, filed, objects, sess, turn>>

Init ==
    /\ users = [u \in User |-> NewUser]
    /\ profiles = [u \in User |-> "none"]
    /\ verif = [v \in Verif |-> NoVerif]
    /\ photos = [p \in Photo |-> NoPhoto]
    /\ filed = [v \in Verif |-> {}]
    /\ store = {} /\ minted = {}
    /\ sess = [t \in Task |-> Idle]
    /\ turn = [w \in Worker |-> "sweepVerifs"]
=============================================================================
