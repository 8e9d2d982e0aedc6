--------------------------- MODULE DeletionProofs ---------------------------
(***************************************************************************)
(* Only files that are due are deleted, for any number of members, rows,   *)
(* keys, threads, bot tasks and workers: DueInv is inductive.              *)
(*                                                                         *)
(* The argument has three parts.  A file has one row, in the tables and in *)
(* what any session has seen of them (FileInv); a handler loads the rows   *)
(* it will delete for a reason (DueRows); and the reason cannot go away    *)
(* before the store is called, because rows do not become younger, a       *)
(* deleted account stays unlinked, and nobody else writes the handler's    *)
(* own session.  Nothing is assumed of the members or of the uploads.      *)
(*                                                                         *)
(* That the row of a photo keeps its key as long as the file is stored     *)
(* follows from CustodyInv.                                                *)
(***************************************************************************)
EXTENDS CustodyProofs

-----------------------------------------------------------------------------
(* A file is deleted for a reason.                                         *)

\* Time and commits only add to the reasons: an inserted row that has expired stays
\* expired, an unlinked account stays unlinked.
LEMMA ReasonsStay ==
    ASSUME DueInv, [Next]_vars
    PROVE  /\ \A v \in Verif : verif[v].owner # NoUser /\ verif[v].expired => verif'[v].expired
           /\ \A u \in User : ~users[u].linked => ~users'[u].linked
<1>0. TypeOK /\ UnlinkInv
  BY DEF DueInv, UnlinkInv
<1>1. CASE verif' = verif /\ users' = users
  BY <1>1
<1>2. ASSUME NEW x \in Verif, Expire(x)
      PROVE  /\ \A v \in Verif : verif[v].expired => verif'[v].expired
             /\ users' = users
  BY <1>0, <1>2 DEF Expire, TypeOK, VerifRow
<1>3. ASSUME NEW t \in Task, Commit(t)
      PROVE  /\ \A v \in Verif : verif[v].owner # NoUser =>
                   verif'[v].expired = verif[v].expired
             /\ \A u \in User : ~users[u].linked => ~users'[u].linked
  <2>1. \A v \in Verif : FlushedVerifs(sess[t])[v].expired = verif[v].expired
    BY <1>0 DEF FlushedVerifs, FlushVerif, TypeOK, VerifRow
  <2>2. \A v \in Verif : verif[v].owner # NoUser => verif'[v] = FlushedVerifs(sess[t])[v]
    BY <1>3 DEF Commit, FlushVerifs, IsNextId, FlushedVerifs
  <2>3. \A u \in User : ~users[u].linked => ~users'[u].linked
    BY <1>0, <1>3, CommitUnlinks DEF Commit
  <2> QED
    BY <2>1, <2>2, <2>3
<1>4. \A t \in Task : StepOf(t) => (verif' = verif /\ users' = users) \/ Commit(t)
  BY DEF StepOf, Starts, StoreFile, StoreUnanswered, PutFile, DeletePhotos,
         DeleteObjects, Rollback, tables
<1> QED
  BY <1>0, <1>1, <1>2, <1>3, <1>4, Steps DEF vars

\* A row whose key a session has seen is a row of a member, and the table's.
LEMMA SeenOwner ==
    ASSUME FileInv, NEW t \in Task
    PROVE  /\ \A v \in Verif : sess[t].verifSeen[v].key # NoKey =>
                 /\ sess[t].verifSeen[v].owner = verif[v].owner /\ verif[v].owner # NoUser
           /\ \A p \in Photo : sess[t].photoSeen[p].key # NoKey =>
                 /\ sess[t].photoSeen[p].owner = photos[p].owner
                 /\ sess[t].photoSeen[p].owner \in User
BY DEF FileInv, KeyedRows, SeenOf, Keyed, TypeOK, Session, PhotoRow, Owner

\* The rows a session has loaded, its operation and its account.
SameReasons(r, s) ==
    /\ r.op = s.op /\ r.user = s.user /\ r.verifSeen = s.verifSeen
    /\ r.photoSeen = s.photoSeen
    /\ r.stage = "photos" => s.stage = "photos"

LEMMA DueKept ==
    ASSUME DueInv, [Next]_vars, NEW t \in Task, SameReasons(sess'[t], sess[t])
    PROVE  /\ \A v \in Verif : sess'[t].verifSeen[v].key # NoKey => DueVerif(sess[t], v)'
           /\ \A p \in Photo : sess'[t].photoSeen[p].key # NoKey => DuePhoto(sess[t], p)'
           /\ sess'[t].op \in {"delete", "moderate"} => t \in Api
           /\ sess'[t].stage = "photos" => sess'[t].op = "delete"
<1>0. FileInv /\ DueRows
  BY DEF DueInv
<1>1. ASSUME NEW v \in Verif, sess'[t].verifSeen[v].key # NoKey PROVE DueVerif(sess[t], v)'
  <2>1. DueVerif(sess[t], v) /\ verif[v].owner # NoUser
    BY <1>0, <1>1, SeenOwner DEF SameReasons, DueRows
  <2>2. verif[v].expired => verif'[v].expired
    BY <2>1, ReasonsStay
  <2> QED
    BY <2>1, <2>2 DEF SameReasons, DueVerif
<1>2. ASSUME NEW p \in Photo, sess'[t].photoSeen[p].key # NoKey PROVE DuePhoto(sess[t], p)'
  <2> DEFINE u == sess[t].photoSeen[p].owner
  <2>1. DuePhoto(sess[t], p) /\ u \in User
    BY <1>0, <1>2, SeenOwner DEF SameReasons, DueRows
  <2>2. ~users[u].linked => ~users'[u].linked
    BY <2>1, ReasonsStay
  <2> QED
    BY <2>1, <2>2 DEF SameReasons, DuePhoto
<1> QED
  BY <1>0, <1>1, <1>2 DEF SameReasons, DueRows

\* A session that has just started has a reason for every file it may delete.
LEMMA DueStarts ==
    ASSUME DueInv, TypeOK', NEW t \in Task, Starts(t)
    PROVE  /\ \A v \in Verif : sess'[t].verifSeen[v].key # NoKey => DueVerif(sess[t], v)'
           /\ \A p \in Photo : sess'[t].photoSeen[p].key # NoKey => DuePhoto(sess[t], p)'
           /\ sess'[t].op \in {"delete", "moderate"} => t \in Api
           /\ sess'[t].stage = "photos" => sess'[t].op = "delete"
<1>0. TypeOK /\ FileInv /\ DeletedIsUnlinked
  BY DEF DueInv, UnlinkInv
<1>1. PICK s : LoadedBy(t, s) /\ SetSession(t, s) /\ UNCHANGED <<tables, objects>>
  BY DEF Starts
<1>2. sess'[t] = s /\ verif' = verif /\ users' = users
  BY <1>0, <1>1 DEF SetSession, tables, TypeOK
<1>3. \A p \in Photo : s.photoSeen[p].key # NoKey => s.photoSeen[p].owner \in User
  <2>1. PICK ps : s.photoSeen = LoadedPhotos(ps)
    BY <1>1 DEF LoadedBy
  <2> QED
    BY <1>0, <2>1, Selected DEF TypeOK, PhotoRow, Owner, FileInv, KeyedRows, Keyed
<1>4. LoadsDue(t, s)
  BY <1>1 DEF LoadedBy
<1>5. \A p \in Photo : s.photoSeen[p].key # NoKey => DuePhoto(s, p)
  BY <1>0, <1>3, <1>4 DEF LoadsDue, DuePhoto, DeletedIsUnlinked
<1> QED
  BY <1>2, <1>4, <1>5 DEF LoadsDue, DueVerif, DuePhoto

LEMMA DueStep == DueInv /\ [Next]_vars => DueInv'
<1> SUFFICES ASSUME DueInv, [Next]_vars PROVE DueInv'
  OBVIOUS
<1>0. TypeOK /\ TypeOK' /\ DueRows /\ UnlinkInv' /\ FileInv'
  BY TypeStep, UnlinkStep, FileStep DEF DueInv, UnlinkInv
<1> DEFINE Due(t) ==
      /\ \A v \in Verif : sess'[t].verifSeen[v].key # NoKey => DueVerif(sess[t], v)'
      /\ \A p \in Photo : sess'[t].photoSeen[p].key # NoKey => DuePhoto(sess[t], p)'
      /\ sess'[t].op \in {"delete", "moderate"} => t \in Api
      /\ sess'[t].stage = "photos" => sess'[t].op = "delete"
<1>1. ASSUME NEW b \in Task, sess'[b] = sess[b] PROVE Due(b)
  BY <1>1, DueKept DEF SameReasons
<1>2. ASSUME NEW t \in Task, StepOf(t) PROVE Due(t) /\ \A b \in Task \ {t} : sess'[b] = sess[b]
  <2>1. \A b \in Task \ {t} : sess'[b] = sess[b]
    BY <1>0, <1>2, SessionSteps
  <2>2. CASE Starts(t)
    BY <1>0, <2>1, <2>2, DueStarts
  <2>3. ASSUME NEW k \in Key, StoreFile(t, k) PROVE Due(t)
    <3>1. /\ sess'[t] = Submitted(sess[t], k) /\ sess[t] \in Session
          /\ sess[t].op \in {"verifFile", "photoFile"}
      BY <1>0, <2>3 DEF StoreFile, PutFile, SetSession, TypeOK
    <3>2. SameReasons(sess'[t], sess[t])
      BY <3>1, SubmittedFields DEF SameReasons
    <3> QED
      BY <3>2, DueKept
  <2>4. ASSUME NEW gone, NEW known, DeleteObjects(t, gone, known) PROVE Due(t)
    BY <1>0, <2>4, DeleteObjectsFields, DueKept DEF SameReasons
  <2>5. ASSUME NEW gone, NEW known, DeletePhotos(t, gone, known) PROVE Due(t)
    <3> DEFINE s == sess[t]
               r == sess'[t]
    <3>1. /\ r.op = s.op /\ r.user = s.user /\ r.photoSeen = s.photoSeen
          /\ r.stage = "loaded" /\ r.verifSeen = LoadedVerifs(VerifsOf(s.user))
          /\ users' = users /\ s.op = "delete" /\ t \in Api
      BY <1>0, <2>5, DeletePhotosFields DEF DeletePhotos, tables, DueRows
    <3> HIDE DEF r
    <3>2. \A v \in Verif : r.verifSeen[v].key # NoKey => r.verifSeen[v].owner = s.user
      BY <3>1, Selected DEF VerifsOf
    <3>3. \A p \in Photo : r.photoSeen[p].key # NoKey => r.photoSeen[p].owner = s.user
      BY <1>0, <3>1 DEF DueRows, DuePhoto
    <3> QED
      BY <3>1, <3>2, <3>3 DEF DueVerif, DuePhoto, r
  <2>6. CASE Commit(t) \/ Rollback(t) \/ \E k \in Key : StoreUnanswered(t, k)
    <3>1. sess'[t] = Idle
      BY <1>0, <2>6 DEF Commit, Rollback, StoreUnanswered, SetSession, TypeOK
    <3>2. Due(t)
      BY <3>1, Blanks DEF Idle
    <3> QED
      BY <2>1, <3>2
  <2> HIDE DEF Due
  <2>7. CASE \E gone \in SUBSET SweptKeys(sess[t]) : \E known :
                DeletePhotos(t, gone, known) \/ DeleteObjects(t, gone, known)
    BY <2>1, <2>4, <2>5, <2>7
  <2>8. CASE \E k \in Key : StoreFile(t, k)
    BY <2>1, <2>3, <2>8
  <2> QED
    BY <1>2, <2>2, <2>6, <2>7, <2>8 DEF StepOf
<1>3. \A t \in Task : Due(t)
  <2> HIDE DEF Due
  <2>1. (\E t \in Task : StepOf(t)) \/ sess' = sess
    BY <1>0, Steps DEF Expire, vars
  <2> QED
    BY <1>1, <1>2, <2>1
<1> QED
  BY <1>0, <1>3 DEF DueInv, DueRows

LEMMA DueInit == Init => DueInv
<1> SUFFICES ASSUME Init PROVE DueInv
  OBVIOUS
<1>1. \A t \in Task : sess[t] = Idle
  BY DEF Init
<1>2. UnlinkInv
  BY InitType DEF Init, UnlinkInv, DeletedIsUnlinked, UnlinkOnly, OnlyUnlinks, NewUser, Idle
<1>3. DueRows
  BY <1>1, Blanks DEF DueRows, Idle
<1> QED
  BY <1>2, <1>3, FileInit DEF DueInv

\* The reason why a handler deletes a file, found when it loaded the rows, still holds
\* when it calls the store.
THEOREM ReasonsHold == Spec => []DueInv
BY DueInit, DueStep, PTL DEF Spec

\* What a step takes out of the store, a session had seen in the only row the file has
\* ever had.
LEMMA DueDeletion ==
    ASSUME DueInv, NEW t \in Task,
           NEW gone \in SUBSET SweptKeys(sess[t]), NEW known,
           DeletePhotos(t, gone, known) \/ DeleteObjects(t, gone, known),
           NEW k \in store \ store'
    PROVE  /\ \A v \in Verif : verif[v].key = k =>
                 verif[v].expired \/ DecidesOn(verif[v].owner) \/ DeletesFor(verif[v].owner)
           /\ \A p \in Photo : photos[p].key = k =>
                 ~users[photos[p].owner].linked \/ DeletesFor(photos[p].owner)
<1> DEFINE s == sess[t]
<1>0. /\ TypeOK /\ FileInv /\ OneHome /\ DueRows
      /\ DOMAIN s.verifSeen = Verif /\ DOMAIN s.photoSeen = Photo
  BY DEF DueInv, UnlinkInv, FileInv, TypeOK, Session
<1>1. k \in gone /\ k \in Key /\ k # NoKey
  BY <1>0, DataAssumption DEF DeletePhotos, DeleteObjects, TypeOK
<1>2. /\ s.op \in {"delete", "moderate", "cleanup", "sweepVerifs", "sweepPhotos"}
      /\ s.op \in {"delete", "moderate"} => t \in Api
  BY <1>0 DEF DeletePhotos, DeleteObjects, WorkerOp, DueRows
<1>3. CASE \E x \in Verif : s.verifSeen[x].key = k
  <2>1. PICK x \in Verif : s.verifSeen[x].key = k
    BY <1>3
  <2>2. s.verifSeen[x].owner = verif[x].owner /\ DueVerif(s, x)
    BY <1>0, <1>1, <2>1, SeenOwner DEF DueRows
  <2>3. /\ \A v \in Verif : verif[v].key = k => v = x
        /\ \A p \in Photo : photos[p].key # k
    BY <1>0, <1>1, <2>1 DEF FileInv, Filed, OneHome, HasPhoto
  <2>4. verif[x].expired \/ DecidesOn(verif[x].owner) \/ DeletesFor(verif[x].owner)
    BY <1>2, <2>2 DEF DueVerif, DecidesOn, DeletesFor
  <2> QED
    BY <2>3, <2>4
<1>4. CASE \E x \in Photo : s.photoSeen[x].key = k
  <2>1. PICK x \in Photo : s.photoSeen[x].key = k
    BY <1>4
  <2>2. s.photoSeen[x].owner = photos[x].owner /\ DuePhoto(s, x)
    BY <1>0, <1>1, <2>1, SeenOwner DEF DueRows
  <2>3. /\ \A p \in Photo : photos[p].key = k => p = x
        /\ \A v \in Verif : verif[v].key # k
    BY <1>0, <1>1, <2>1 DEF FileInv, Filed, OneHome, HasPhoto
  <2>4. ~users[photos[x].owner].linked \/ DeletesFor(photos[x].owner)
    BY <1>2, <2>2 DEF DuePhoto, DeletesFor
  <2> QED
    BY <2>3, <2>4
<1>5. (\E x \in Verif : s.verifSeen[x].key = k) \/ (\E x \in Photo : s.photoSeen[x].key = k)
  BY <1>0, <1>1 DEF SweptKeys, KeysOf
<1> QED
  BY <1>3, <1>4, <1>5

\* No handler deletes a file whose row became another's, or ceased to be due, while it
\* waited for the store: what the club deletes is expired, of an account that staff decides
\* on, or its owner's who has left.
THEOREM OnlyDueFilesAreDeleted == Spec => OnlyDueFilesDeleted
<1>1. DueInv /\ [Next]_vars =>
        [\A k \in store \ store' :
          /\ \A v \in Verif : verif[v].key = k =>
                verif[v].expired \/ DecidesOn(verif[v].owner) \/ DeletesFor(verif[v].owner)
          /\ \A p \in Photo : photos[p].key = k =>
                ~users[photos[p].owner].linked \/ DeletesFor(photos[p].owner)]_vars
  <2> SUFFICES ASSUME DueInv, Next, NEW k \in store \ store'
               PROVE  /\ \A v \in Verif : verif[v].key = k =>
                            \/ verif[v].expired
                            \/ DecidesOn(verif[v].owner) \/ DeletesFor(verif[v].owner)
                      /\ \A p \in Photo : photos[p].key = k =>
                            ~users[photos[p].owner].linked \/ DeletesFor(photos[p].owner)
    OBVIOUS
  <2>1. \A t \in Task : StepOf(t) =>
           \/ store \subseteq store'
           \/ \E gone \in SUBSET SweptKeys(sess[t]) : \E known :
                 DeletePhotos(t, gone, known) \/ DeleteObjects(t, gone, known)
    BY DEF StepOf, Starts, StoreFile, StoreUnanswered, PutFile, Commit, Rollback, objects
  <2>2. PICK t \in Task : \E gone \in SUBSET SweptKeys(sess[t]) : \E known :
           DeletePhotos(t, gone, known) \/ DeleteObjects(t, gone, known)
    BY <2>1, Steps DEF DueInv, UnlinkInv, Expire, objects
  <2> QED
    BY <2>2, DueDeletion
<1> QED
  BY <1>1, DueInit, DueStep, PTL DEF Spec, OnlyDueFilesDeleted

-----------------------------------------------------------------------------
(* A photo's row forgets its file only when the file is gone.              *)

\* No commit takes the key of a stored file out of a photo's row, however many handlers
\* have loaded that row and whichever of their deletions failed.
THEOREM PhotosStay == Spec => PhotosAreKept
<1>1. CustodyInv /\ [Next]_vars =>
        [\A p \in Photo, k \in store \cap store' :
            photos[p].key = k => photos'[p].key = k]_vars
  <2> SUFFICES ASSUME CustodyInv, [Next]_vars, NEW p \in Photo, NEW k \in store \cap store',
                      photos[p].key = k
               PROVE  photos'[p].key = k
    OBVIOUS
  <2>1. k # NoKey
    BY DataAssumption DEF CustodyInv, FileInv, TypeOK
  <2>2. FilesMove
    BY TypeStep, FilesMoved DEF CustodyInv, FileInv
  <2> QED
    BY <2>1, <2>2 DEF FilesMove, PhotoKnown
<1> QED
  BY <1>1, CustodyInit, CustodyStep, PTL DEF Spec, PhotosAreKept
=============================================================================
