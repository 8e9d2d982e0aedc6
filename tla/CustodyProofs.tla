--------------------------- MODULE CustodyProofs ---------------------------
(***************************************************************************)
(* What becomes of a stored file, for any number of members, rows, keys,   *)
(* threads, bot tasks and workers, whatever the members send and whichever *)
(* calls fail.                                                             *)
(*                                                                         *)
(* Keys are never reused, an upload writes one row, and a row is never     *)
(* given the key of another: a file has one home (FileInv).  From it       *)
(* follow, separately, that an account that waits for its file waits with  *)
(* an empty challenge (AwaitInv) and that a key is handed on as            *)
(* MediaCustody says (CustodyInv).                                         *)
(***************************************************************************)
EXTENDS ClubProofs

\* The blank session and the blank rows.
LEMMA Blanks ==
    /\ Idle.op = "idle" /\ Idle.key = NoKey /\ Idle.user = NoUser
    /\ Idle.row.status = "NEW"
    /\ \A v \in Verif : Idle.verifSeen[v] = NoVerif /\ Idle.verif[v] = NoVerif
    /\ \A p \in Photo : Idle.photoSeen[p] = NoPhoto /\ Idle.photo[p] = NoPhoto
    /\ NoVerif.owner = NoUser /\ NoVerif.key = NoKey
    /\ NoPhoto.owner = NoUser /\ NoPhoto.key = NoKey
BY DEF Idle, NoVerif, NoPhoto, NewUser

\* A row that has just been loaded is the table's, or blank.
LEMMA JustLoaded ==
    /\ \A vs : \A v \in Verif : LoadedVerifs(vs)[v] \in {verif[v], NoVerif}
    /\ \A ps : \A p \in Photo : LoadedPhotos(ps)[p] \in {photos[p], NoPhoto}
BY DEF LoadedVerifs, LoadedPhotos

\* Clearing forgets the deleted keys and nothing else of a row.
LEMMA ClearedKeys ==
    ASSUME NEW gone, NEW rows \in [Verif -> VerifRow], NEW v \in Verif
    PROVE  /\ Cleared(rows, gone)[v].owner = rows[v].owner
           /\ Cleared(rows, gone)[v].key = IF rows[v].key \in gone THEN NoKey ELSE rows[v].key
<1>1. /\ [rows[v] EXCEPT !.key = NoKey].owner = rows[v].owner
      /\ [rows[v] EXCEPT !.key = NoKey].key = NoKey
  BY DEF VerifRow
<1> QED
  BY <1>1 DEF Cleared

LEMMA ClearedPhotoKeys ==
    ASSUME NEW gone, NEW rows \in [Photo -> PhotoRow], NEW p \in Photo
    PROVE  Cleared(rows, gone)[p].key = IF rows[p].key \in gone THEN NoKey ELSE rows[p].key
<1>1. [rows[p] EXCEPT !.key = NoKey].key = NoKey
  BY DEF PhotoRow
<1> QED
  BY <1>1 DEF Cleared

-----------------------------------------------------------------------------
(* A file has one row.                                                     *)

\* The rows and sessions that make up Held and Referenced.
LEMMA HeldBy == \A k : k \in Held <=> k # NoKey /\ \E t \in Task : sess[t].key = k
BY DEF Held

LEMMA ReferencedBy ==
    ASSUME TypeOK
    PROVE  \A k : k \in Referenced <=>
               /\ k # NoKey
               /\ (\E v \in Verif : verif[v].key = k) \/ (\E p \in Photo : photos[p].key = k)
BY DEF Referenced, KeysOf, TypeOK

\* Steps that file no key, and show no session the key of a photo but that of the row
\* it loads, leave every file where it is.
LEMMA HomeKept ==
    ASSUME OneHome, Held' \subseteq Held, filed' = filed,
           \A p \in Photo : photos'[p].key \in {photos[p].key, NoKey},
           \A b \in Task, p \in Photo :
              sess'[b].photoSeen[p].key \in {sess[b].photoSeen[p].key, photos[p].key, NoKey}
    PROVE  OneHome'
<1>1. \A p \in Photo, k \in Key : HasPhoto(p, k)' => HasPhoto(p, k)
  BY DataAssumption DEF HasPhoto
<1> QED
  BY <1>1 DEF OneHome

\* A session of which nothing is known but that it is blank.
LEMMA BlankFiles ==
    /\ \A v \in Verif : CopyOf(Idle, v) /\ \A row : SeenOf(Idle.verifSeen[v], row)
    /\ \A p \in Photo : \A row : SeenOf(Idle.photoSeen[p], row)
BY Blanks DEF CopyOf, SeenOf, Keyed

\* A handler starts.
LEMMA FileStarts ==
    ASSUME FileInv, TypeOK', NEW t \in Task, Starts(t)
    PROVE  FileInv'
<1>0. TypeOK
  BY DEF FileInv
<1>1. PICK s : /\ LoadedBy(t, s) /\ SetSession(t, s)
               /\ s.op = "verifFile" => LoadsChallenge(s)
               /\ UNCHANGED <<tables, objects>>
  BY DEF Starts
<1>2. /\ verif' = verif /\ photos' = photos /\ store' = store /\ minted' = minted
      /\ filed' = filed /\ sess'[t] = s /\ \A b \in Task \ {t} : sess'[b] = sess[b]
  BY <1>0, <1>1 DEF SetSession, tables, objects, TypeOK
<1>3. /\ \A v \in Verif : s.verifSeen[v] \in {verif[v], NoVerif} /\ s.verif[v] = s.verifSeen[v]
      /\ \A p \in Photo : s.photoSeen[p] \in {photos[p], NoPhoto}
                          /\ s.photo[p].key = s.photoSeen[p].key
      /\ s.key = NoKey
  BY <1>1, JustLoaded DEF LoadedBy
<1>4. KeysMinted' /\ Inserts' /\ Holders'
  BY <1>1, <1>2, <1>3, Blanks
     DEF FileInv, KeysMinted, Known, Inserts, Holders, LoadedBy
<1>5. OneChallenge'
  <2>1. s.op = "verifFile" =>
           \A v, w \in {x \in Verif : s.verifSeen[x].owner # NoUser} : v = w
    BY <1>1, Blanks DEF LoadsChallenge, LoadedVerifs
  <2> QED
    BY <1>2, <2>1 DEF FileInv, OneChallenge
<1>6. KeyedRows' /\ CopyKeys'
  BY <1>2, <1>3, Blanks DEF FileInv, KeyedRows, CopyKeys, SeenOf, Keyed, CopyOf
<1>7. OneHome' /\ Filed'
  <2>1. Held' \subseteq Held
    BY <1>2, <1>3 DEF Held
  <2>2. OneHome'
    BY <1>2, <1>3, <2>1, HomeKept, Blanks DEF FileInv
  <2> QED
    BY <1>2, <1>3, <2>2, Blanks DEF FileInv, Filed
<1> QED
  BY <1>4, <1>5, <1>6, <1>7 DEF FileInv

\* A file is stored, under a key that no row and no session knows.
LEMMA FileStore ==
    ASSUME FileInv, TypeOK', NEW t \in Task, NEW k \in Key, StoreFile(t, k)
    PROVE  FileInv'
<1>0. TypeOK /\ NoKey \notin Key
  BY DataAssumption DEF FileInv
<1> DEFINE s == sess[t]
           r == Submitted(s, k)
<1>1. /\ t \in Bot /\ s.op \in {"verifFile", "photoFile"} /\ s \in Session
      /\ k \notin minted /\ k # NoKey
      /\ verif' = verif /\ photos' = photos /\ filed' = filed
      /\ store' = store \cup {k} /\ minted' = minted \cup {k}
      /\ sess'[t] = r /\ \A b \in Task \ {t} : sess'[b] = sess[b]
  BY <1>0 DEF StoreFile, PutFile, SetSession, tables, TypeOK
<1>2. /\ r.op = s.op /\ r.stage = "ready" /\ r.key = k /\ r.user = s.user
      /\ r.verifSeen = s.verifSeen /\ r.photoSeen = s.photoSeen /\ r.photo = s.photo
      /\ \A v \in Verif :
            r.verif[v] = IF s.op = "verifFile" /\ s.verif[v].owner # NoUser
                         THEN [s.verif[v] EXCEPT !.key = k] ELSE s.verif[v]
  BY <1>1, SubmittedFields
<1> HIDE DEF r
<1>3. \A v \in Verif : /\ r.verif[v].owner = s.verif[v].owner
                       /\ r.verif[v].key = IF s.op = "verifFile" /\ s.verif[v].owner # NoUser
                                           THEN k ELSE s.verif[v].key
  <2>1. \A v \in Verif : s.verif[v] \in VerifRow
    BY <1>1 DEF Session
  <2> QED
    BY <1>2, <2>1 DEF VerifRow
<1>4. KeysMinted' /\ Inserts' /\ Holders' /\ OneChallenge'
  BY <1>1, <1>2 DEF FileInv, KeysMinted, Known, Inserts, Holders, BotOp, OneChallenge
<1>5. KeyedRows' /\ Filed'
  BY <1>1, <1>2 DEF FileInv, KeyedRows, Filed
<1>6. CopyKeys'
  <2>1. s.op # "verifFile" => \A v \in Verif : s.verif[v].key \in {NoKey, s.verifSeen[v].key}
    BY DEF FileInv, CopyKeys, CopyOf
  <2>2. \A v \in Verif : s.verif[v].owner = NoUser =>
                             s.verif[v].key \in {NoKey, s.verifSeen[v].key}
    BY DEF FileInv, CopyKeys, CopyOf
  <2>3. \A v \in Verif : CopyOf(r, v)
    BY <1>2, <1>3, <2>1, <2>2 DEF FileInv, CopyKeys, CopyOf
  <2> QED
    BY <1>1, <1>2, <2>3 DEF FileInv, CopyKeys
<1>7. OneHome'
  <2>1. \A p \in Photo, x \in Key : HasPhoto(p, x)' <=> HasPhoto(p, x)
    BY <1>1, <1>2 DEF HasPhoto
  <2>2. /\ \A v \in Verif : k \notin filed[v]
        /\ \A p \in Photo : ~HasPhoto(p, k)
    BY <1>1 DEF FileInv, KeysMinted, Known, HasPhoto
  <2>3. Held' \subseteq Held \cup {k}
    BY <1>1, <1>2 DEF Held
  <2> QED
    BY <1>1, <2>1, <2>2, <2>3 DEF FileInv, OneHome
<1> QED
  BY <1>4, <1>5, <1>6, <1>7 DEF FileInv

\* Objects are deleted: copies lose their keys, and delete_account() loads its
\* verifications.
LEMMA FileDeletes ==
    ASSUME FileInv, TypeOK', NEW t \in Task, NEW gone, NEW known,
           DeletePhotos(t, gone, known) \/ DeleteObjects(t, gone, known)
    PROVE  FileInv'
<1>0. TypeOK
  BY DEF FileInv
<1> DEFINE s == sess[t]
           r == sess'[t]
<1>1. /\ s.op \notin {"verifFile", "photoFile"} /\ s.key = NoKey
      /\ verif' = verif /\ photos' = photos /\ filed' = filed
      /\ store' \subseteq store /\ minted' = minted
      /\ \A b \in Task \ {t} : sess'[b] = sess[b]
  <2>1. s.op \notin {"verifFile", "photoFile"}
    BY <1>0, DeletePhotosFields, DataAssumption
       DEF DeletePhotos, DeleteObjects, FileInv, Holders, BotOp, WorkerOp
  <2>2. s.key = NoKey
    BY <2>1 DEF FileInv, Holders
  <2>3. /\ verif' = verif /\ photos' = photos /\ filed' = filed
        /\ store' \subseteq store /\ minted' = minted
    BY DEF DeletePhotos, DeleteObjects, tables
  <2>4. \A b \in Task \ {t} : sess'[b] = sess[b]
    BY <1>0, DeletePhotosFields, DeleteObjectsFields
  <2> QED
    BY <2>1, <2>2, <2>3, <2>4
<1>2. /\ r.op = s.op /\ r.user = s.user /\ r.key = s.key
      /\ r.photoSeen = s.photoSeen /\ r.photo = Cleared(s.photo, known)
      /\ \/ r.verifSeen = s.verifSeen /\ r.verif = Cleared(s.verif, known)
         \/ r.verifSeen = LoadedVerifs(VerifsOf(s.user)) /\ r.verif = r.verifSeen
  BY <1>0, DeletePhotosFields, DeleteObjectsFields
<1>3. s.verif \in [Verif -> VerifRow] /\ s.photo \in [Photo -> PhotoRow]
  BY <1>0 DEF TypeOK, Session
<1> HIDE DEF s, r
<1>4. /\ \A v \in Verif : /\ Cleared(s.verif, known)[v].owner = s.verif[v].owner
                          /\ Cleared(s.verif, known)[v].key \in {s.verif[v].key, NoKey}
      /\ \A p \in Photo : Cleared(s.photo, known)[p].key \in {s.photo[p].key, NoKey}
  <2>1. ASSUME NEW v \in Verif
        PROVE  /\ Cleared(s.verif, known)[v].owner = s.verif[v].owner
               /\ Cleared(s.verif, known)[v].key \in {s.verif[v].key, NoKey}
    <3>1. /\ Cleared(s.verif, known)[v].owner = s.verif[v].owner
          /\ Cleared(s.verif, known)[v].key =
                IF s.verif[v].key \in known THEN NoKey ELSE s.verif[v].key
      BY <1>3, ClearedKeys
    <3> QED
      BY <3>1
  <2>2. ASSUME NEW p \in Photo
        PROVE  Cleared(s.photo, known)[p].key \in {s.photo[p].key, NoKey}
    <3>1. Cleared(s.photo, known)[p].key =
             IF s.photo[p].key \in known THEN NoKey ELSE s.photo[p].key
      BY <1>3, ClearedPhotoKeys
    <3> QED
      BY <3>1
  <2> QED
    BY <2>1, <2>2
<1>5. /\ \A v \in Verif : /\ r.verifSeen[v] \in {s.verifSeen[v], verif[v], NoVerif}
                          /\ r.verif[v].owner = r.verifSeen[v].owner
                          /\ r.verif[v].key \in {NoKey, r.verifSeen[v].key}
      /\ \A p \in Photo : r.photo[p].key \in {NoKey, r.photoSeen[p].key}
  BY <1>1, <1>2, <1>4, JustLoaded DEF FileInv, CopyKeys, CopyOf, s
<1>6. KeysMinted' /\ Inserts' /\ Holders' /\ OneChallenge'
  <2>1. \A v \in Verif : r.verifSeen[v].key \in Known
    BY <1>5, Blanks DEF FileInv, KeysMinted, Known, s
  <2>2. KeysMinted'
    BY <1>1, <1>2, <2>1 DEF FileInv, KeysMinted, Known, s, r
  <2> QED
    BY <1>1, <1>2, <2>2 DEF FileInv, Inserts, Holders, OneChallenge, s, r
<1>7. KeyedRows' /\ CopyKeys'
  <2>1. \A v \in Verif : SeenOf(r.verifSeen[v], verif[v])
    BY <1>5, BlankFiles, Blanks DEF FileInv, KeyedRows, SeenOf, Keyed, s
  <2>2. KeyedRows'
    BY <1>1, <1>2, <2>1 DEF FileInv, KeyedRows, SeenOf, s, r
  <2>3. \A v \in Verif : CopyOf(r, v)
    BY <1>5 DEF CopyOf
  <2> QED
    BY <1>1, <1>5, <2>2, <2>3 DEF FileInv, CopyKeys, CopyOf, r
<1>8. OneHome' /\ Filed'
  <2>1. Held' \subseteq Held
    BY <1>1, <1>2 DEF Held, s, r
  <2>2. OneHome'
    BY <1>1, <1>2, <2>1, HomeKept DEF FileInv, s, r
  <2>3. \A v \in Verif : r.verifSeen[v].key \in filed[v] \cup {NoKey}
    BY <1>5, Blanks DEF FileInv, Filed, s
  <2> QED
    BY <1>1, <2>2, <2>3 DEF FileInv, Filed, r
<1> QED
  BY <1>6, <1>7, <1>8 DEF FileInv

\* A handler ends without a commit.
LEMMA FileEnds ==
    ASSUME FileInv, TypeOK', NEW t \in Task,
           Rollback(t) \/ \E k \in Key : StoreUnanswered(t, k)
    PROVE  FileInv'
<1>0. TypeOK
  BY DEF FileInv
<1>1. /\ verif' = verif /\ photos' = photos /\ filed' = filed
      /\ sess'[t] = Idle /\ \A b \in Task \ {t} : sess'[b] = sess[b]
      /\ minted \subseteq minted' /\ store' \subseteq minted'
  BY <1>0 DEF Rollback, StoreUnanswered, PutFile, SetSession, TypeOK, tables, objects,
              FileInv, KeysMinted
<1>2. KeysMinted' /\ Inserts' /\ Holders' /\ OneChallenge'
  BY <1>1, Blanks DEF FileInv, KeysMinted, Known, Inserts, Holders, BotOp, OneChallenge
<1>3. KeyedRows' /\ CopyKeys'
  BY <1>1, BlankFiles, Blanks DEF FileInv, KeyedRows, CopyKeys
<1>4. OneHome' /\ Filed'
  <2>1. Held' \subseteq Held
    BY <1>1, Blanks DEF Held
  <2>2. OneHome'
    BY <1>1, <2>1, HomeKept, Blanks DEF FileInv
  <2> QED
    BY <1>1, <2>2, Blanks DEF FileInv, Filed
<1> QED
  BY <1>2, <1>3, <1>4 DEF FileInv

\* A commit moves the file its session has put into one row; the other rows keep their
\* key or lose it.
Takes(s, v) ==
    s.op = "verifFile" /\ s.verifSeen[v].owner # NoUser /\ verif'[v].key = s.key
Gains(s, p) ==
    /\ s.op = "photoFile" /\ photos[p].owner = NoUser
    /\ photos'[p].owner = s.user /\ photos'[p].key = s.key

LEMMA RowsCommitted ==
    ASSUME FileInv, NEW t \in Task, Commit(t)
    PROVE  LET s == sess[t] IN
           \A v \in Verif :
              /\ verif'[v].owner = verif[v].owner \/ verif[v].owner = NoUser
              /\ verif'[v].key \in {verif[v].key, NoKey} \/ Takes(s, v)
<1> DEFINE s == sess[t]
<1>1. \A v \in Verif : verif[v] \in VerifRow
  BY DEF FileInv, TypeOK
<1>2. \A v \in Verif :
         /\ FlushedVerifs(s)[v].owner = verif[v].owner
         /\ FlushedVerifs(s)[v].key = Column(verif[v].key, s.verifSeen[v].key, s.verif[v].key)
  BY <1>1 DEF FlushedVerifs, FlushVerif, VerifRow
<1>3. \A v \in Verif : CopyOf(s, v)
  BY DEF FileInv, CopyKeys
<1>4. CASE s.op = "verification"
  <2>1. PICK n \in Verif :
           /\ IsNextId(n)
           /\ verif' = [FlushedVerifs(s) EXCEPT ![n] = [NoVerif EXCEPT !.owner = s.user]]
    BY <1>4 DEF Commit, FlushVerifs
  <2>2. /\ verif'[n] = [NoVerif EXCEPT !.owner = s.user]
        /\ \A v \in Verif \ {n} : verif'[v] = FlushedVerifs(s)[v]
    BY <2>1 DEF FlushedVerifs
  <2>3. verif[n].owner = NoUser /\ verif'[n].key = NoKey
    BY <2>1, <2>2 DEF IsNextId, NoVerif
  <2> QED
    BY <1>2, <1>3, <1>4, <2>2, <2>3 DEF Column, CopyOf
<1>5. CASE s.op # "verification"
  <2>1. verif' = FlushedVerifs(s)
    BY <1>5 DEF Commit, FlushVerifs
  <2> QED
    BY <1>2, <1>3, <1>5, <2>1 DEF Column, CopyOf, Takes
<1> QED
  BY <1>4, <1>5

LEMMA PhotosCommitted ==
    ASSUME FileInv, NEW t \in Task, Commit(t)
    PROVE  LET s == sess[t] IN
           /\ \A p \in Photo :
                 \/ photos'[p].owner = photos[p].owner /\ photos'[p].key \in {photos[p].key, NoKey}
                 \/ Gains(s, p)
           /\ \A p, q \in Photo : Gains(s, p) /\ Gains(s, q) => p = q
<1> DEFINE s == sess[t]
<1>1. \A p \in Photo : photos[p] \in PhotoRow
  BY DEF FileInv, TypeOK
<1>2. \A p \in Photo :
         /\ FlushedPhotos(s)[p].owner = photos[p].owner
         /\ FlushedPhotos(s)[p].key \in {photos[p].key, NoKey}
  BY <1>1 DEF FlushedPhotos, FlushPhoto, PhotoRow, Column, FileInv, CopyKeys
<1>3. CASE s.op = "photoFile"
  <2>1. PICK n \in Photo :
           /\ photos[n].owner = NoUser
           /\ photos' = [FlushedPhotos(s) EXCEPT
                            ![n] = [NoPhoto EXCEPT !.owner = s.user, !.key = s.key]]
    BY <1>3 DEF Commit, FlushPhotos
  <2>2. /\ photos'[n] = [NoPhoto EXCEPT !.owner = s.user, !.key = s.key]
        /\ \A p \in Photo \ {n} : photos'[p] = FlushedPhotos(s)[p]
    BY <2>1 DEF FlushedPhotos
  <2>3. Gains(s, n)
    <3>1. photos'[n].owner = s.user /\ photos'[n].key = s.key
      BY <2>2 DEF NoPhoto
    <3> QED
      BY <1>3, <2>1, <3>1 DEF Gains
  <2>4. \A p \in Photo : Gains(s, p) => p = n
    BY <1>2, <1>3, <2>2, DataAssumption DEF Gains, FileInv, Inserts
  <2> QED
    BY <1>2, <2>2, <2>3, <2>4
<1>4. CASE s.op # "photoFile"
  BY <1>2, <1>4 DEF Commit, FlushPhotos, Gains
<1> QED
  BY <1>3, <1>4

LEMMA FileCommit ==
    ASSUME FileInv, TypeOK', NEW t \in Task, Commit(t)
    PROVE  FileInv'
<1> DEFINE s == sess[t]
<1>0. TypeOK /\ NoUser \notin User
  BY DataAssumption DEF FileInv
<1>1. /\ store' = store /\ minted' = minted
      /\ sess'[t] = Idle /\ \A b \in Task \ {t} : sess'[b] = sess[b]
      /\ \A v \in Verif : filed'[v] = filed[v] \cup ({verif'[v].key} \ {NoKey})
  BY <1>0 DEF Commit, SetSession, TypeOK, objects
<1>2. \A v \in Verif : /\ verif'[v].owner = verif[v].owner \/ verif[v].owner = NoUser
                       /\ verif'[v].key \in {verif[v].key, NoKey} \/ Takes(s, v)
  BY RowsCommitted
<1>3. /\ \A p \in Photo :
            \/ photos'[p].owner = photos[p].owner /\ photos'[p].key \in {photos[p].key, NoKey}
            \/ Gains(s, p)
      /\ \A p, q \in Photo : Gains(s, p) /\ Gains(s, q) => p = q
  BY PhotosCommitted
<1>4. \A v, w \in Verif : Takes(s, v) /\ Takes(s, w) => v = w
  BY DEF FileInv, OneChallenge, Takes
<1>5. s.op = "photoFile" => s.user \in User
  BY DEF FileInv, Inserts
<1>6. s.key \in Known /\ \A b \in Task \ {t} : sess[b].key = s.key => s.key = NoKey
  BY DEF FileInv, KeysMinted, Holders
<1> HIDE DEF s
<1>7. KeysMinted' /\ Inserts' /\ Holders' /\ OneChallenge'
  <2>1. /\ \A v \in Verif : verif'[v].key \in Known
        /\ \A p \in Photo : photos'[p].key \in Known
    BY <1>2, <1>3, <1>6 DEF FileInv, KeysMinted, Known, Takes, Gains
  <2>2. \A v \in Verif : filed'[v] \subseteq minted
    BY <1>1, <2>1 DEF FileInv, KeysMinted, Known
  <2> QED
    BY <1>1, <2>1, <2>2, Blanks
       DEF FileInv, KeysMinted, Known, Inserts, Holders, BotOp, OneChallenge
<1>10. Filed'
  BY <1>1, Blanks DEF FileInv, Filed
<1>8. KeyedRows' /\ CopyKeys'
  <2>1. \A v \in Verif : Keyed(verif'[v])
    <3>1. \A v \in Verif : Takes(s, v) => verif[v].owner # NoUser
      BY DEF Takes, FileInv, KeyedRows, SeenOf, s
    <3>2. \A v \in Verif : Keyed(verif[v])
      BY DEF FileInv, KeyedRows
    <3> QED
      BY <1>2, <3>1, <3>2 DEF Keyed
  <2>2. \A p \in Photo : Keyed(photos'[p])
    BY <1>0, <1>3, <1>5 DEF Keyed, Gains, FileInv, KeyedRows
  <2>3. \A b \in Task \ {t} : /\ \A v \in Verif : SeenOf(sess[b].verifSeen[v], verif'[v])
                             /\ \A p \in Photo : SeenOf(sess[b].photoSeen[p], photos'[p])
    BY <1>2, <1>3 DEF FileInv, KeyedRows, SeenOf, Gains
  <2> QED
    BY <1>1, <2>1, <2>2, <2>3, BlankFiles, Blanks
       DEF FileInv, KeyedRows, CopyKeys, Keyed, SeenOf, CopyOf
<1>9. OneHome'
  <2>1. ASSUME NEW k \in Key, k # s.key
        PROVE  /\ \A v \in Verif : k \in filed'[v] => k \in filed[v]
               /\ \A p \in Photo : HasPhoto(p, k)' => HasPhoto(p, k)
               /\ k \in Held' => k \in Held
    <3>1. \A v \in Verif : k \in filed'[v] => k \in filed[v]
      BY <1>1, <1>2, <2>1 DEF Takes, FileInv, Filed
    <3>2. \A p \in Photo : HasPhoto(p, k)' => HasPhoto(p, k)
      BY <1>1, <1>3, <2>1, Blanks, DataAssumption DEF HasPhoto, Gains
    <3> QED
      BY <1>1, <3>1, <3>2, Blanks DEF Held
  <2>2. ASSUME NEW k \in Key, k = s.key
        PROVE  /\ \A v \in Verif : k \in filed'[v] => Takes(s, v)
               /\ \A p \in Photo : HasPhoto(p, k)' => Gains(s, p)
               /\ k \notin Held'
    <3>1. k \in Held /\ k # NoKey
      BY <2>2, DataAssumption DEF Held, s
    <3>2. /\ \A v \in Verif : k \notin filed[v]
          /\ \A p \in Photo : ~HasPhoto(p, k)
      BY <2>2, <3>1 DEF FileInv, OneHome
    <3>3. k \notin Held'
      BY <1>1, <1>6, <2>2, <3>1, Blanks DEF Held
    <3> QED
      BY <1>1, <1>2, <1>3, <3>1, <3>2, <3>3, Blanks, DataAssumption
         DEF HasPhoto, FileInv, Filed
  <2>3. \A v \in Verif, p \in Photo : ~(Takes(s, v) /\ Gains(s, p))
    BY DEF Takes, Gains
  <2> QED
    BY <1>3, <1>4, <2>1, <2>2, <2>3 DEF FileInv, OneHome
<1> QED
  BY <1>7, <1>8, <1>9, <1>10 DEF FileInv

LEMMA FileStep == FileInv /\ [Next]_vars => FileInv'
<1> SUFFICES ASSUME FileInv, [Next]_vars PROVE FileInv'
  OBVIOUS
<1>0. TypeOK /\ TypeOK'
  BY TypeStep DEF FileInv
<1>1. ASSUME /\ sess' = sess /\ photos' = photos /\ store' = store /\ minted' = minted
             /\ filed' = filed
             /\ \A v \in Verif : verif'[v].owner = verif[v].owner /\ verif'[v].key = verif[v].key
      PROVE  FileInv'
  <2>1. Held' = Held
    BY <1>1 DEF Held
  <2>2. KeysMinted' /\ Inserts' /\ Holders' /\ OneChallenge'
    BY <1>1 DEF FileInv, KeysMinted, Known, Inserts, Holders, OneChallenge
  <2>3. KeyedRows' /\ CopyKeys'
    BY <1>1 DEF FileInv, KeyedRows, SeenOf, Keyed, CopyKeys, CopyOf
  <2>4. Filed'
    BY <1>1 DEF FileInv, Filed
  <2> QED
    BY <1>0, <1>1, <2>1, <2>2, <2>3, <2>4, HomeKept DEF FileInv
<1>2. CASE UNCHANGED vars
  BY <1>1, <1>2 DEF vars
<1>3. ASSUME NEW x \in Verif, Expire(x) PROVE FileInv'
  BY <1>0, <1>1, <1>3 DEF Expire, TypeOK, VerifRow, objects
<1>4. ASSUME NEW t \in Task, StepOf(t) PROVE FileInv'
  BY <1>0, <1>4, FileStarts, FileStore, FileDeletes, FileCommit, FileEnds DEF StepOf
<1> QED
  BY <1>0, <1>2, <1>3, <1>4, Steps

LEMMA FileInit == Init => FileInv
<1> SUFFICES ASSUME Init PROVE FileInv
  OBVIOUS
<1>1. /\ \A t \in Task : sess[t] = Idle
      /\ \A v \in Verif : verif[v] = NoVerif
      /\ \A p \in Photo : photos[p] = NoPhoto
      /\ \A v \in Verif : filed[v] = {}
      /\ store = {} /\ minted = {}
  BY DEF Init
<1>2. KeysMinted /\ Inserts /\ Holders /\ OneChallenge
  BY <1>1, Blanks DEF KeysMinted, Known, Inserts, Holders, BotOp, OneChallenge
<1>3. KeyedRows /\ CopyKeys /\ Filed
  BY <1>1, BlankFiles, Blanks DEF KeyedRows, CopyKeys, Keyed, Filed
<1>4. OneHome
  BY <1>1, Blanks, DataAssumption DEF OneHome, HasPhoto, Held
<1> QED
  BY <1>2, <1>3, <1>4, InitType DEF FileInv

LEMMA OneRow == FileInv => OneRowPerFile
<1> SUFFICES ASSUME FileInv PROVE OneRowPerFile
  OBVIOUS
<1>1. TypeOK /\ OneHome
  BY DEF FileInv
<1>2. /\ \A v \in Verif : \A k : Points(verif[v], k) => k \in filed[v]
      /\ \A p \in Photo : \A k : Points(photos[p], k) => HasPhoto(p, k)
  BY DEF Points, HasPhoto, FileInv, Filed
<1>3. \A k \in Key : k \in Held => k \notin Referenced
  <2>1. \A k \in Key : k \in Referenced =>
           (\E v \in Verif : Points(verif[v], k)) \/ (\E p \in Photo : Points(photos[p], k))
    BY <1>1, ReferencedBy DEF Points
  <2> QED
    BY <1>1, <1>2, <2>1 DEF OneHome
<1> QED
  BY <1>1, <1>2, <1>3 DEF OneRowPerFile, OneHome

\* Deleting the object of one row never takes the file of another row, or of an upload
\* that has not committed: whatever is retried or lost, a file has one owner.
THEOREM FilesAreNotShared == Spec => []OneRowPerFile
BY OneRow, FileInit, FileStep, PTL DEF Spec

-----------------------------------------------------------------------------
(* An account that waits for its file waits with an empty challenge.       *)

\* What a session may do to the wait and to its member's challenges.
Awaits(s) ==
    /\ s.op = "verifFile" =>
          /\ s.user \in User /\ s.rowSeen.status = "VERIFICATION_PENDING"
          /\ \A v \in Verif : s.verif[v].owner \in {NoUser, s.user}
          /\ s.stage = "ready" => s.row.status = "ADMIN_REVIEW"
    /\ s.row.status = "VERIFICATION_PENDING" =>
          s.op = "verification" \/ s.rowSeen.status = "VERIFICATION_PENDING"

LEMMA AwaitsAll == UploadsOwn /\ WaitsOnly <=> \A t \in Task : Awaits(sess[t])
BY DEF UploadsOwn, WaitsOnly, Awaits

LEMMA AwaitSessions ==
    ASSUME FileInv, TypeOK', NEW t \in Task, Awaits(sess[t]), StepOf(t)
    PROVE  Awaits(sess'[t])
<1> DEFINE s == sess[t]
           r == sess'[t]
<1>0. TypeOK /\ s \in Session
  BY DEF FileInv, TypeOK
<1>1. CASE Starts(t)
  <2>1. PICK s1 : LoadedBy(t, s1) /\ SetSession(t, s1) /\ (s1.op = "verifFile" => LoadsChallenge(s1))
    BY <1>1 DEF Starts
  <2>2. r = s1
    BY <1>0, <2>1 DEF SetSession, TypeOK
  <2>3. ASSUME s1.op = "verifFile"
        PROVE  /\ s1.user \in User /\ s1.rowSeen.status = "VERIFICATION_PENDING"
               /\ \A v \in Verif : s1.verif[v].owner \in {NoUser, s1.user}
               /\ s1.stage # "ready"
    <3>1. LoadsChallenge(s1) /\ s1.user # NoUser
      BY <2>1, <2>3, DataAssumption DEF LoadsChallenge
    <3>2. PICK v \in Verif : IsLatest(s1.user, v) /\ s1.verifSeen = LoadedVerifs({v})
      BY <3>1 DEF LoadsChallenge
    <3>3. \A w \in Verif : s1.verif[w].owner \in {NoUser, s1.user}
      BY <2>1, <3>2, Blanks DEF LoadedBy, LoadedVerifs, IsLatest
    <3> QED
      BY <2>1, <2>3, <3>1, <3>3 DEF LoadedBy, LoadsChallenge
  <2> QED
    BY <2>1, <2>2, <2>3 DEF Awaits, LoadedBy
<1>2. ASSUME NEW k \in Key, StoreFile(t, k) PROVE Awaits(r)
  <2>1. r = Submitted(s, k) /\ s.op \in {"verifFile", "photoFile"}
    BY <1>0, <1>2 DEF StoreFile, PutFile, SetSession, TypeOK
  <2>2. /\ r.op = s.op /\ r.user = s.user /\ r.rowSeen = s.rowSeen
        /\ r.row.status = IF s.op = "verifFile" THEN "ADMIN_REVIEW" ELSE s.row.status
        /\ \A v \in Verif :
              r.verif[v] = IF s.op = "verifFile" /\ s.verif[v].owner # NoUser
                           THEN [s.verif[v] EXCEPT !.key = k] ELSE s.verif[v]
    BY <1>0, <2>1, SubmittedFields
  <2>3. \A v \in Verif : r.verif[v].owner = s.verif[v].owner
    <3>1. \A v \in Verif : s.verif[v] \in VerifRow
      BY <1>0 DEF Session
    <3> QED
      BY <2>2, <3>1 DEF VerifRow
  <2> HIDE DEF r
  <2> QED
    BY <2>2, <2>3 DEF Awaits
<1>3. ASSUME NEW gone, NEW known,
             DeletePhotos(t, gone, known) \/ DeleteObjects(t, gone, known)
      PROVE  Awaits(r)
  <2>1. r.op = s.op /\ r.rowSeen = s.rowSeen /\ r.row = s.row
    BY <1>0, <1>3, DeletePhotosFields, DeleteObjectsFields
  <2>2. s.op # "verifFile"
    BY <1>0, <1>3, DeletePhotosFields, DataAssumption
       DEF DeletePhotos, DeleteObjects, FileInv, Holders, BotOp, WorkerOp
  <2> HIDE DEF r
  <2> QED
    BY <2>1, <2>2 DEF Awaits
<1>4. CASE Commit(t) \/ Rollback(t) \/ \E k \in Key : StoreUnanswered(t, k)
  <2>1. r = Idle
    BY <1>0, <1>4 DEF Commit, Rollback, StoreUnanswered, SetSession, TypeOK
  <2> QED
    BY <2>1, Blanks DEF Awaits
<1> QED
  BY <1>1, <1>2, <1>3, <1>4 DEF StepOf

\* A commit changes the owner of no row, but for the challenge it inserts.
LEMMA ChallengeInserted ==
    ASSUME TypeOK, NEW t \in Task, Commit(t)
    PROVE  LET s == sess[t] IN
           /\ s.op = "verification" =>
                \E n \in Verif :
                   /\ IsNextId(n) /\ verif'[n].owner = s.user /\ verif'[n].key = NoKey
                   /\ \A v \in Verif \ {n} : verif'[v].owner = verif[v].owner
           /\ s.op # "verification" => \A v \in Verif : verif'[v].owner = verif[v].owner
<1> DEFINE s == sess[t]
<1>1. \A v \in Verif : FlushedVerifs(s)[v].owner = verif[v].owner
  BY DEF FlushedVerifs, FlushVerif, TypeOK, VerifRow
<1>2. CASE s.op = "verification"
  <2>1. PICK n \in Verif :
           /\ IsNextId(n)
           /\ verif' = [FlushedVerifs(s) EXCEPT ![n] = [NoVerif EXCEPT !.owner = s.user]]
    BY <1>2 DEF Commit, FlushVerifs
  <2>2. /\ verif'[n] = [NoVerif EXCEPT !.owner = s.user]
        /\ \A v \in Verif \ {n} : verif'[v] = FlushedVerifs(s)[v]
    BY <2>1 DEF FlushedVerifs
  <2>3. verif'[n].owner = s.user /\ verif'[n].key = NoKey
    BY <2>2 DEF NoVerif
  <2> QED
    BY <1>1, <1>2, <2>1, <2>2, <2>3
<1>3. CASE s.op # "verification"
  BY <1>1, <1>3 DEF Commit, FlushVerifs
<1> QED
  BY <1>2, <1>3

LEMMA AwaitCommit ==
    ASSUME AwaitInv, TypeOK', NEW t \in Task, Commit(t)
    PROVE  InOrder' /\ AwaitingMediaIsEmpty'
<1> DEFINE s == sess[t]
<1>0. /\ TypeOK /\ FileInv /\ NoUser \notin User /\ Verif \subseteq Nat
      /\ Awaits(s) /\ s.stage = "ready"
  BY DataAssumption, AwaitsAll DEF AwaitInv, FileInv, Commit, Verif
<1>1. \A u \in User : users'[u].status =
         IF u = s.user THEN Column(users[u].status, s.rowSeen.status, s.row.status)
                       ELSE users[u].status
  BY <1>0 DEF Commit, FlushUsers, FlushUser
<1>2. \A v \in Verif : verif'[v].key \in {verif[v].key, NoKey} \/ Takes(s, v)
  BY <1>0, RowsCommitted
<1>3. \A v \in Verif : Takes(s, v) => s.op = "verifFile" /\ verif[v].owner = s.user
  <2>1. ASSUME NEW v \in Verif, Takes(s, v)
        PROVE  s.op = "verifFile" /\ verif[v].owner = s.user
    <3>1. s.verif[v].owner = s.verifSeen[v].owner /\ s.verifSeen[v].owner # NoUser
      BY <1>0, <2>1 DEF FileInv, CopyKeys, CopyOf, Takes
    <3>2. s.verifSeen[v].owner = verif[v].owner
      BY <1>0, <3>1 DEF FileInv, KeyedRows, SeenOf
    <3> QED
      BY <1>0, <2>1, <3>1, <3>2 DEF Awaits, Takes
  <2> QED
    BY <2>1
<1> HIDE DEF s
<1>4. CASE s.op = "verification"
  <2>1. PICK n \in Verif :
           /\ IsNextId(n) /\ verif'[n].owner = s.user /\ verif'[n].key = NoKey
           /\ \A v \in Verif \ {n} : verif'[v].owner = verif[v].owner
    BY <1>0, <1>4, ChallengeInserted DEF s
  <2>2. \A w \in Verif : verif'[w].owner # NoUser => w <= n
    BY <1>0, <2>1 DEF IsNextId, AwaitInv, InOrder
  <2>3. s.user \in User
    BY <1>0, <1>4 DEF FileInv, Inserts, s
  <2>4. InOrder'
    <3>1. ASSUME NEW v \in Verif, NEW w \in Verif, w < v, verif'[v].owner # NoUser
          PROVE  verif'[w].owner # NoUser
      <4>1. v <= n
        BY <2>2, <3>1
      <4>2. w < n /\ w # n
        BY <1>0, <3>1, <4>1
      <4> QED
        BY <2>1, <4>2 DEF IsNextId
    <3> QED
      BY <3>1 DEF InOrder
  <2>5. ASSUME NEW u \in User, users'[u].status = "VERIFICATION_PENDING"
        PROVE  \E v \in Verif : IsLatest(u, v)' /\ verif'[v].key = NoKey
    <3>1. CASE u = s.user
      BY <1>0, <2>1, <2>2, <3>1 DEF IsLatest
    <3>2. CASE u # s.user
      <4>1. PICK v \in Verif : IsLatest(u, v) /\ verif[v].key = NoKey
        BY <1>1, <2>5, <3>2 DEF AwaitInv, AwaitingMediaIsEmpty
      <4>2. v # n /\ verif'[v].key = NoKey
        BY <1>0, <1>2, <1>3, <1>4, <2>1, <4>1 DEF IsLatest, IsNextId
      <4> QED
        BY <2>1, <3>2, <4>1, <4>2 DEF IsLatest
    <3> QED
      BY <3>1, <3>2
  <2> QED
    BY <2>4, <2>5 DEF AwaitingMediaIsEmpty
<1>5. CASE s.op # "verification"
  <2>1. \A v \in Verif : verif'[v].owner = verif[v].owner
    BY <1>0, <1>5, ChallengeInserted DEF s
  <2>2. InOrder'
    BY <2>1 DEF AwaitInv, InOrder
  <2>3. ASSUME NEW u \in User, users'[u].status = "VERIFICATION_PENDING"
        PROVE  \E v \in Verif : IsLatest(u, v)' /\ verif'[v].key = NoKey
    <3>1. users[u].status = "VERIFICATION_PENDING" /\ ~(s.op = "verifFile" /\ u = s.user)
      BY <1>0, <1>1, <1>5, <2>3 DEF Awaits, Column
    <3>2. PICK v \in Verif : IsLatest(u, v) /\ verif[v].key = NoKey
      BY <3>1 DEF AwaitInv, AwaitingMediaIsEmpty
    <3>3. verif'[v].key = NoKey
      BY <1>2, <1>3, <3>1, <3>2 DEF IsLatest
    <3> QED
      BY <2>1, <3>2, <3>3 DEF IsLatest
  <2> QED
    BY <2>2, <2>3 DEF AwaitingMediaIsEmpty
<1> QED
  BY <1>4, <1>5

LEMMA AwaitStep == AwaitInv /\ [Next]_vars => AwaitInv'
<1> SUFFICES ASSUME AwaitInv, [Next]_vars PROVE AwaitInv'
  OBVIOUS
<1>0. /\ TypeOK /\ TypeOK' /\ FileInv /\ FileInv'
      /\ \A t \in Task : Awaits(sess[t])
  BY TypeStep, FileStep, AwaitsAll DEF AwaitInv, FileInv
<1>1. \A t \in Task : Awaits(sess'[t])
  <2>1. (\E t \in Task : StepOf(t)) \/ sess' = sess
    BY <1>0, Steps DEF Expire, vars
  <2> QED
    BY <1>0, <2>1, AwaitSessions, SessionSteps
<1>2. UploadsOwn' /\ WaitsOnly'
  BY <1>1 DEF UploadsOwn, WaitsOnly, Awaits
<1>3. InOrder' /\ AwaitingMediaIsEmpty'
  <2>1. ASSUME users' = users,
               \A v \in Verif : verif'[v].owner = verif[v].owner /\ verif'[v].key = verif[v].key
        PROVE  InOrder' /\ AwaitingMediaIsEmpty'
    BY <2>1 DEF AwaitInv, InOrder, AwaitingMediaIsEmpty, IsLatest
  <2>2. \A x \in Verif : Expire(x) =>
           /\ users' = users
           /\ \A v \in Verif : verif'[v].owner = verif[v].owner /\ verif'[v].key = verif[v].key
    BY <1>0 DEF Expire, TypeOK, VerifRow
  <2>3. \A t \in Task : StepOf(t) => (verif' = verif /\ users' = users) \/ Commit(t)
    BY DEF StepOf, Starts, StoreFile, StoreUnanswered, PutFile, DeletePhotos,
           DeleteObjects, Rollback, tables
  <2>4. \A t \in Task : Commit(t) => InOrder' /\ AwaitingMediaIsEmpty'
    BY <1>0, AwaitCommit
  <2> QED
    BY <1>0, <2>1, <2>2, <2>3, <2>4, Steps DEF vars
<1> QED
  BY <1>0, <1>2, <1>3 DEF AwaitInv

\* Whenever an account waits for its video, the challenge the bot will write it to has
\* no file that the write would orphan, unless another upload of the same wait, loaded
\* before it, comes first.
THEOREM AwaitedChallengeIsEmpty == Spec => []AwaitingMediaIsEmpty
<1>1. Init => AwaitInv
  <2> SUFFICES ASSUME Init PROVE AwaitInv
    OBVIOUS
  <2>1. /\ \A t \in Task : sess[t] = Idle
        /\ \A u \in User : users[u].status = "NEW"
        /\ \A v \in Verif : verif[v] = NoVerif
    BY DEF Init, NewUser
  <2> QED
    BY <2>1, FileInit, Blanks DEF AwaitInv, InOrder, UploadsOwn, WaitsOnly, AwaitingMediaIsEmpty
<1>2. AwaitInv => AwaitingMediaIsEmpty
  BY DEF AwaitInv
<1> QED
  BY <1>1, <1>2, AwaitStep, PTL DEF Spec

-----------------------------------------------------------------------------
(* What a session knows of a file stays true.                              *)

\* CustodyInv of one session s, over the rows vs and ps, the store and the doubled keys.
VerifKnown(k, now, stored, twice) == k # NoKey => now = k \/ k \notin stored \/ k \in twice
PhotoKnown(k, now, stored) == k # NoKey => now = k \/ (now = NoKey /\ k \notin stored)
KeptCopy(k, mine, stored) == mine = k \/ (mine = NoKey /\ k \notin stored)
Knows(s, vs, ps, stored, twice) ==
    /\ \A v \in Verif : VerifKnown(s.verifSeen[v].key, vs[v].key, stored, twice)
    /\ \A p \in Photo : PhotoKnown(s.photoSeen[p].key, ps[p].key, stored)
Copied(s, stored) ==
    /\ s.op # "verifFile" =>
          \A v \in Verif : KeptCopy(s.verifSeen[v].key, s.verif[v].key, stored)
    /\ s.op = "photoFile" => \A v \in Verif : s.verif[v].key = s.verifSeen[v].key
    /\ \A p \in Photo : KeptCopy(s.photoSeen[p].key, s.photo[p].key, stored)
    /\ s.op \in {"photoFile", "verifFile"} =>
          \A p \in Photo : s.photo[p].key = s.photoSeen[p].key
Written(s) ==
    s.op = "verifFile" =>
        /\ \E v \in Verif : s.verifSeen[v].owner # NoUser
        /\ \A v \in Verif : s.verifSeen[v].owner # NoUser =>
              s.verif[v].key = IF s.stage = "ready" THEN s.key ELSE s.verifSeen[v].key
Custodian(s, vs, ps, stored, twice) ==
    Knows(s, vs, ps, stored, twice) /\ Copied(s, stored) /\ Written(s)

LEMMA Custodians ==
    CustodyInv <=> FileInv /\ \A t \in Task : Custodian(sess[t], verif, photos, store, Doubled)
BY DEF CustodyInv, SeenFiles, Copies, Writes, KeptOrGone, Lost, Custodian, Knows, Copied,
       Written, VerifKnown, PhotoKnown, KeptCopy

LEMMA CustodiansNext ==
    ASSUME FileInv',
           \A t \in Task : Custodian(sess'[t], verif', photos', store', Doubled')
    PROVE  CustodyInv'
BY DEF CustodyInv, SeenFiles, Copies, Writes, KeptOrGone, Lost, Custodian, Knows, Copied,
       Written, VerifKnown, PhotoKnown, KeptCopy

LEMMA BlankCustodian ==
    \A vs, ps, stored, twice : Custodian(Idle, vs, ps, stored, twice)
BY Blanks DEF Custodian, Knows, Copied, Written, VerifKnown, PhotoKnown, KeptCopy

\* What a step may do to the files: an object that appears has a key nobody knows, and a
\* row loses its key only if the object is gone, or to a second file.
FilesMove ==
    /\ \A k \in store' : k \in store \/ k \notin Known
    /\ \A v \in Verif : VerifKnown(verif[v].key, verif'[v].key, store', Doubled')
    /\ \A p \in Photo :
          /\ PhotoKnown(photos[p].key, photos'[p].key, store')
          /\ photos[p].key = NoKey => photos'[p].key = NoKey \/ photos[p].owner = NoUser
    /\ Doubled \subseteq Doubled'

LEMMA DoubledGrows ==
    ASSUME \A v \in Verif : filed[v] \subseteq filed'[v]
    PROVE  Doubled \subseteq Doubled'
BY DEF Doubled

\* A session nobody has touched still knows what it knew.
LEMMA CustodianStays ==
    ASSUME CustodyInv, FilesMove, NEW t \in Task
    PROVE  Custodian(sess[t], verif', photos', store', Doubled')
<1> DEFINE s == sess[t]
<1>1. /\ Custodian(s, verif, photos, store, Doubled)
      /\ \A v \in Verif : s.verifSeen[v].key \in Known
      /\ \A p \in Photo : s.photoSeen[p].key \in Known
      /\ \A p \in Photo : s.photoSeen[p].key # NoKey => photos[p].owner # NoUser
  BY Custodians DEF FileInv, KeysMinted, KeyedRows, SeenOf, Keyed
<1> HIDE DEF s
<1>2. Copied(s, store')
  BY <1>1 DEF Custodian, Copied, KeptCopy, FilesMove
<1>3. ASSUME NEW v \in Verif
      PROVE  VerifKnown(s.verifSeen[v].key, verif'[v].key, store', Doubled')
  BY <1>1 DEF Custodian, Knows, VerifKnown, FilesMove
<1>4. ASSUME NEW p \in Photo
      PROVE  PhotoKnown(s.photoSeen[p].key, photos'[p].key, store')
  BY <1>1 DEF Custodian, Knows, PhotoKnown, FilesMove
<1> QED
  BY <1>1, <1>2, <1>3, <1>4 DEF Custodian, Knows, s

\* What a commit does to the keys of the rows.
LEMMA VerifsKept ==
    ASSUME CustodyInv, NEW t \in Task, Commit(t)
    PROVE  LET s == sess[t] IN
           \A v \in Verif :
              \/ verif'[v].key = verif[v].key
              \/ /\ verif'[v].key = NoKey /\ s.key = NoKey
                 /\ verif[v].key \notin store \/ verif[v].key \in Doubled
              \/ Takes(s, v) /\ s.key # NoKey
<1> DEFINE s == sess[t]
<1>0. /\ FileInv /\ TypeOK /\ s.stage = "ready"
      /\ Custodian(s, verif, photos, store, Doubled)
      /\ s.op \in {"verifFile", "photoFile"} <=> s.key # NoKey
  BY Custodians DEF CustodyInv, FileInv, Commit, Holders
<1>1. SUFFICES ASSUME NEW v \in Verif
               PROVE  \/ verif'[v].key = verif[v].key
                      \/ /\ verif'[v].key = NoKey /\ s.key = NoKey
                         /\ verif[v].key \notin store \/ verif[v].key \in Doubled
                      \/ Takes(s, v) /\ s.key # NoKey
  OBVIOUS
<1>2. \/ verif'[v].key = Column(verif[v].key, s.verifSeen[v].key, s.verif[v].key)
      \/ verif'[v].key = NoKey /\ verif[v].key = NoKey
  <2>1. FlushedVerifs(s)[v].key = Column(verif[v].key, s.verifSeen[v].key, s.verif[v].key)
    BY <1>0 DEF FlushedVerifs, FlushVerif, VerifRow, TypeOK
  <2>2. CASE s.op = "verification"
    <3>1. PICK n \in Verif :
             /\ IsNextId(n)
             /\ verif' = [FlushedVerifs(s) EXCEPT ![n] = [NoVerif EXCEPT !.owner = s.user]]
      BY <2>2 DEF Commit, FlushVerifs
    <3>2. verif'[v] = IF v = n THEN [NoVerif EXCEPT !.owner = s.user] ELSE FlushedVerifs(s)[v]
      BY <3>1 DEF FlushedVerifs
    <3>3. verif[n].key = NoKey /\ [NoVerif EXCEPT !.owner = s.user].key = NoKey
      BY <1>0, <3>1 DEF IsNextId, FileInv, KeyedRows, Keyed, NoVerif
    <3> QED
      BY <2>1, <3>2, <3>3
  <2>3. CASE s.op # "verification"
    BY <2>1, <2>3 DEF Commit, FlushVerifs
  <2> QED
    BY <2>2, <2>3
<1>3. /\ CopyOf(s, v) /\ Keyed(s.verifSeen[v])
      /\ verif[v].key \in filed[v] \cup {NoKey}
      /\ s.verifSeen[v].key \in filed[v] \cup {NoKey}
      /\ verif[v].key \in Key \cup {NoKey}
  BY <1>0 DEF FileInv, CopyKeys, KeyedRows, SeenOf, Filed, TypeOK, VerifRow, KeyOrNull
<1>4. CASE s.op = "verifFile"
  <2>1. CASE s.verifSeen[v].owner = NoUser
    BY <1>2, <1>3, <2>1 DEF CopyOf, Keyed, Column
  <2>2. CASE s.verifSeen[v].owner # NoUser
    BY <1>0, <1>2, <1>4, <2>2 DEF Custodian, Written, Column, Takes
  <2> QED
    BY <2>1, <2>2
<1>5. CASE s.op # "verifFile"
  <2>1. KeptCopy(s.verifSeen[v].key, s.verif[v].key, store)
    BY <1>0, <1>5 DEF Custodian, Copied
  <2>2. s.op = "photoFile" => s.verif[v].key = s.verifSeen[v].key
    BY <1>0 DEF Custodian, Copied
  <2>3. verif[v].key # NoKey /\ s.verifSeen[v].key # NoKey /\ verif[v].key # s.verifSeen[v].key
           => verif[v].key \in Doubled
    BY <1>3 DEF Doubled
  <2> QED
    BY <1>0, <1>2, <1>5, <2>1, <2>2, <2>3 DEF Column, KeptCopy
<1> QED
  BY <1>4, <1>5

LEMMA PhotosKept ==
    ASSUME CustodyInv, NEW t \in Task, Commit(t)
    PROVE  LET s == sess[t] IN
           \A p \in Photo :
              \/ photos'[p].key = photos[p].key
              \/ photos'[p].key = NoKey /\ s.key = NoKey /\ photos[p].key \notin store
              \/ Gains(s, p) /\ photos[p].key = NoKey /\ s.key # NoKey
<1> DEFINE s == sess[t]
<1>0. /\ FileInv /\ TypeOK /\ s.stage = "ready"
      /\ Custodian(s, verif, photos, store, Doubled)
      /\ s.op \in {"verifFile", "photoFile"} <=> s.key # NoKey
  BY Custodians DEF CustodyInv, FileInv, Commit, Holders
<1>1. SUFFICES ASSUME NEW p \in Photo
               PROVE  \/ photos'[p].key = photos[p].key
                      \/ photos'[p].key = NoKey /\ s.key = NoKey /\ photos[p].key \notin store
                      \/ Gains(s, p) /\ photos[p].key = NoKey /\ s.key # NoKey
  OBVIOUS
<1>2. \/ photos'[p].key = Column(photos[p].key, s.photoSeen[p].key, s.photo[p].key)
      \/ Gains(s, p)
  <2>1. FlushedPhotos(s)[p].key = Column(photos[p].key, s.photoSeen[p].key, s.photo[p].key)
    BY <1>0 DEF FlushedPhotos, FlushPhoto, PhotoRow, TypeOK
  <2>2. CASE s.op = "photoFile"
    <3>1. PICK n \in Photo :
             /\ photos[n].owner = NoUser
             /\ photos' = [FlushedPhotos(s) EXCEPT
                              ![n] = [NoPhoto EXCEPT !.owner = s.user, !.key = s.key]]
      BY <2>2 DEF Commit, FlushPhotos
    <3>2. photos'[p] = IF p = n THEN [NoPhoto EXCEPT !.owner = s.user, !.key = s.key]
                                ELSE FlushedPhotos(s)[p]
      BY <3>1 DEF FlushedPhotos
    <3>3. /\ [NoPhoto EXCEPT !.owner = s.user, !.key = s.key].key = s.key
          /\ [NoPhoto EXCEPT !.owner = s.user, !.key = s.key].owner = s.user
      BY DEF NoPhoto
    <3> QED
      BY <2>1, <2>2, <3>1, <3>2, <3>3 DEF Gains
  <2>3. CASE s.op # "photoFile"
    BY <2>1, <2>3 DEF Commit, FlushPhotos
  <2> QED
    BY <2>2, <2>3
<1>3. Gains(s, p) => photos[p].key = NoKey /\ s.key # NoKey
  BY <1>0 DEF Gains, FileInv, KeyedRows, Keyed
<1>4. /\ PhotoKnown(s.photoSeen[p].key, photos[p].key, store)
      /\ KeptCopy(s.photoSeen[p].key, s.photo[p].key, store)
      /\ s.key # NoKey => s.photo[p].key = s.photoSeen[p].key
  BY <1>0 DEF Custodian, Knows, Copied
<1> QED
  BY <1>2, <1>3, <1>4 DEF PhotoKnown, KeptCopy, Column

\* A file put for a verification goes to its row, which it doubles if that had one.
LEMMA TakenIsDoubled ==
    ASSUME FileInv, NEW t \in Task, Commit(t), sess[t].key # NoKey,
           NEW v \in Verif, Takes(sess[t], v)
    PROVE  /\ filed'[v] = filed[v] \cup {sess[t].key} /\ sess[t].key \notin filed[v]
           /\ \A k \in filed[v] : k \in Doubled'
<1>1. /\ filed'[v] = filed[v] \cup {sess[t].key}
      /\ sess[t].key \in Key /\ filed[v] \subseteq Key
  BY DEF Commit, Takes, FileInv, TypeOK, Session, KeyOrNull
<1>2. sess[t].key \notin filed[v]
  BY <1>1, HeldBy DEF FileInv, OneHome
<1> QED
  BY <1>1, <1>2 DEF Doubled

LEMMA FilesMoved ==
    ASSUME CustodyInv, TypeOK', [Next]_vars
    PROVE  FilesMove
<1>0. TypeOK /\ FileInv /\ NoKey \notin Key
  BY DataAssumption DEF CustodyInv, FileInv
<1>1. ASSUME photos' = photos, filed' = filed,
             \A v \in Verif : verif'[v].key = verif[v].key,
             \A k \in store' : k \in store \/ k \notin Known
      PROVE  FilesMove
  BY <1>1, DoubledGrows DEF FilesMove, VerifKnown, PhotoKnown
<1>2. ASSUME NEW t \in Task, Commit(t) PROVE FilesMove
  <2>1. store' = store /\ \A v \in Verif : filed[v] \subseteq filed'[v]
    BY <1>2 DEF Commit, objects
  <2>2. Doubled \subseteq Doubled'
    BY <2>1, DoubledGrows
  <2>3. ASSUME NEW v \in Verif
        PROVE  VerifKnown(verif[v].key, verif'[v].key, store', Doubled')
    <3>1. Takes(sess[t], v) /\ sess[t].key # NoKey =>
             verif[v].key = NoKey \/ verif[v].key \in Doubled'
      BY <1>0, <1>2, TakenIsDoubled DEF FileInv, Filed
    <3> QED
      BY <1>2, <2>1, <2>2, <3>1, VerifsKept DEF VerifKnown
  <2>4. ASSUME NEW p \in Photo
        PROVE  /\ PhotoKnown(photos[p].key, photos'[p].key, store')
               /\ photos[p].key = NoKey => photos'[p].key = NoKey \/ photos[p].owner = NoUser
    BY <1>2, <2>1, PhotosKept DEF PhotoKnown, Gains
  <2> QED
    BY <2>1, <2>2, <2>3, <2>4 DEF FilesMove
<1>3. ASSUME NEW t \in Task, StepOf(t), ~Commit(t) PROVE FilesMove
  <2>1. /\ verif' = verif /\ photos' = photos /\ filed' = filed
        /\ \A k \in store' : k \in store \/ k \notin Known
    BY <1>0, <1>3 DEF StepOf, Starts, StoreFile, StoreUnanswered, PutFile, DeletePhotos,
                      DeleteObjects, Rollback, tables, objects, Known
  <2> QED
    BY <1>1, <2>1
<1>4. ASSUME NEW x \in Verif, Expire(x) PROVE FilesMove
  BY <1>0, <1>1, <1>4 DEF Expire, TypeOK, VerifRow, objects
<1>5. CASE UNCHANGED vars
  BY <1>1, <1>5 DEF vars
<1> QED
  BY <1>0, <1>2, <1>3, <1>4, <1>5, Steps

\* A session that starts has copies of the rows as they are.
LEMMA CustodianStarts ==
    ASSUME CustodyInv, TypeOK', NEW t \in Task, Starts(t)
    PROVE  Custodian(sess'[t], verif', photos', store', Doubled')
<1>0. TypeOK /\ NoUser \notin User
  BY DataAssumption DEF CustodyInv, FileInv
<1>1. PICK s : /\ LoadedBy(t, s) /\ SetSession(t, s)
               /\ s.op = "verifFile" => LoadsChallenge(s)
               /\ UNCHANGED <<tables, objects>>
  BY DEF Starts
<1>2. sess'[t] = s /\ verif' = verif /\ photos' = photos
  BY <1>0, <1>1 DEF SetSession, tables, TypeOK
<1>3. /\ \A v \in Verif : s.verifSeen[v] \in {verif[v], NoVerif} /\ s.verif[v] = s.verifSeen[v]
      /\ \A p \in Photo : s.photoSeen[p] \in {photos[p], NoPhoto}
                          /\ s.photo[p].key = s.photoSeen[p].key
      /\ s.op = "verifFile" => s.stage # "ready"
  BY <1>1, JustLoaded DEF LoadedBy
<1>4. s.op = "verifFile" => \E v \in Verif : s.verifSeen[v].owner # NoUser
  BY <1>0, <1>1 DEF LoadsChallenge, LoadedVerifs, IsLatest
<1> QED
  BY <1>2, <1>3, <1>4, Blanks
     DEF Custodian, Knows, Copied, Written, VerifKnown, PhotoKnown, KeptCopy

\* An upload that has put its file is going to write its key, and no other.
LEMMA CustodianStores ==
    ASSUME CustodyInv, TypeOK', FilesMove, NEW t \in Task, NEW k \in Key, StoreFile(t, k)
    PROVE  Custodian(sess'[t], verif', photos', store', Doubled')
<1> DEFINE s == sess[t]
           r == Submitted(s, k)
<1>0. TypeOK /\ FileInv
  BY DEF CustodyInv, FileInv
<1>1. /\ s.op \in {"verifFile", "photoFile"} /\ s \in Session /\ sess'[t] = r
  BY <1>0 DEF StoreFile, PutFile, SetSession, TypeOK
<1>2. /\ r.op = s.op /\ r.stage = "ready" /\ r.key = k
      /\ r.verifSeen = s.verifSeen /\ r.photoSeen = s.photoSeen /\ r.photo = s.photo
      /\ \A v \in Verif :
            r.verif[v] = IF s.op = "verifFile" /\ s.verif[v].owner # NoUser
                         THEN [s.verif[v] EXCEPT !.key = k] ELSE s.verif[v]
  BY <1>1, SubmittedFields
<1> HIDE DEF r
<1>3. \A v \in Verif :
         /\ s.verif[v].owner = s.verifSeen[v].owner
         /\ r.verif[v].key = IF s.op = "verifFile" /\ s.verif[v].owner # NoUser
                             THEN k ELSE s.verif[v].key
  <2>1. \A v \in Verif : s.verif[v] \in VerifRow
    BY <1>1 DEF Session
  <2> QED
    BY <1>0, <1>2, <2>1 DEF VerifRow, FileInv, CopyKeys, CopyOf
<1>4. Custodian(s, verif', photos', store', Doubled')
  BY CustodianStays
<1> HIDE DEF s
<1>5. Copied(r, store')
  BY <1>1, <1>2, <1>3, <1>4 DEF Custodian, Copied
<1> QED
  BY <1>1, <1>2, <1>3, <1>4, <1>5 DEF Custodian, Knows, Written

\* A session that has deleted objects forgets the keys of those that are gone.
LEMMA CustodianDeletes ==
    ASSUME CustodyInv, TypeOK', FilesMove, NEW t \in Task, NEW gone, NEW known,
           DeletePhotos(t, gone, known) \/ DeleteObjects(t, gone, known)
    PROVE  Custodian(sess'[t], verif', photos', store', Doubled')
<1> DEFINE s == sess[t]
           r == sess'[t]
<1>0. TypeOK /\ FileInv
  BY DEF CustodyInv, FileInv
<1>1. /\ s.op \notin {"verifFile", "photoFile"}
      /\ verif' = verif /\ store' = store \ gone /\ known \subseteq gone
  <2>1. s.op \notin {"verifFile", "photoFile"}
    BY <1>0, DeletePhotosFields, DataAssumption
       DEF DeletePhotos, DeleteObjects, FileInv, Holders, BotOp, WorkerOp
  <2> QED
    BY <2>1 DEF DeletePhotos, DeleteObjects, tables
<1>2. /\ r.op = s.op
      /\ r.photoSeen = s.photoSeen /\ r.photo = Cleared(s.photo, known)
      /\ \/ r.verifSeen = s.verifSeen /\ r.verif = Cleared(s.verif, known)
         \/ r.verifSeen = LoadedVerifs(VerifsOf(s.user)) /\ r.verif = r.verifSeen
  BY <1>0, DeletePhotosFields, DeleteObjectsFields
<1>3. s.verif \in [Verif -> VerifRow] /\ s.photo \in [Photo -> PhotoRow]
  BY <1>0 DEF TypeOK, Session
<1>4. Custodian(s, verif', photos', store', Doubled')
  BY CustodianStays
<1> HIDE DEF s, r
<1>5. \A v \in Verif : Cleared(s.verif, known)[v].key =
                         IF s.verif[v].key \in known THEN NoKey ELSE s.verif[v].key
  BY <1>3, ClearedKeys
<1>6. \A p \in Photo : Cleared(s.photo, known)[p].key =
                         IF s.photo[p].key \in known THEN NoKey ELSE s.photo[p].key
  BY <1>3, ClearedPhotoKeys
<1>7. ASSUME NEW v \in Verif
      PROVE  /\ KeptCopy(r.verifSeen[v].key, r.verif[v].key, store')
             /\ VerifKnown(r.verifSeen[v].key, verif'[v].key, store', Doubled')
  <2>1. CASE r.verifSeen = s.verifSeen /\ r.verif = Cleared(s.verif, known)
    <3>1. KeptCopy(s.verifSeen[v].key, s.verif[v].key, store')
      BY <1>1, <1>4 DEF Custodian, Copied
    <3>2. VerifKnown(s.verifSeen[v].key, verif'[v].key, store', Doubled')
      BY <1>4 DEF Custodian, Knows
    <3> QED
      BY <1>1, <1>5, <2>1, <3>1, <3>2 DEF KeptCopy
  <2>2. CASE r.verifSeen = LoadedVerifs(VerifsOf(s.user)) /\ r.verif = r.verifSeen
    BY <1>1, <2>2, JustLoaded, Blanks DEF KeptCopy, VerifKnown
  <2> QED
    BY <1>2, <2>1, <2>2
<1>8. ASSUME NEW p \in Photo
      PROVE  /\ KeptCopy(r.photoSeen[p].key, r.photo[p].key, store')
             /\ PhotoKnown(r.photoSeen[p].key, photos'[p].key, store')
  <2>1. /\ KeptCopy(s.photoSeen[p].key, s.photo[p].key, store')
        /\ PhotoKnown(s.photoSeen[p].key, photos'[p].key, store')
    BY <1>4 DEF Custodian, Copied, Knows
  <2> QED
    BY <1>1, <1>2, <1>6, <2>1 DEF KeptCopy
<1>9. Custodian(r, verif', photos', store', Doubled')
  BY <1>1, <1>2, <1>7, <1>8 DEF Custodian, Knows, Copied, Written
<1> QED
  BY <1>9 DEF r

LEMMA CustodyStep == CustodyInv /\ [Next]_vars => CustodyInv'
<1> SUFFICES ASSUME CustodyInv, [Next]_vars PROVE CustodyInv'
  OBVIOUS
<1>0. TypeOK /\ TypeOK' /\ FileInv' /\ FilesMove
  BY TypeStep, FileStep, FilesMoved DEF CustodyInv, FileInv
<1> DEFINE C(b) == Custodian(sess'[b], verif', photos', store', Doubled')
<1>1. ASSUME NEW b \in Task, sess'[b] = sess[b] PROVE C(b)
  BY <1>0, <1>1, CustodianStays
<1>2. ASSUME NEW t \in Task, StepOf(t) PROVE C(t)
  <2>1. CASE Starts(t)
    BY <1>0, <2>1, CustodianStarts
  <2>2. CASE \E k \in Key : StoreFile(t, k)
    BY <1>0, <2>2, CustodianStores
  <2>3. CASE \E gone \in SUBSET SweptKeys(sess[t]) : \E known :
                DeletePhotos(t, gone, known) \/ DeleteObjects(t, gone, known)
    BY <1>0, <2>3, CustodianDeletes
  <2>4. CASE Commit(t) \/ Rollback(t) \/ \E k \in Key : StoreUnanswered(t, k)
    <3>1. sess'[t] = Idle
      BY <1>0, <2>4 DEF Commit, Rollback, StoreUnanswered, SetSession, TypeOK
    <3> QED
      BY <3>1, BlankCustodian
  <2> HIDE DEF C
  <2> QED
    BY <1>2, <2>1, <2>2, <2>3, <2>4 DEF StepOf
<1>3. \A t \in Task : C(t)
  <2> HIDE DEF C
  <2>1. (\E t \in Task : StepOf(t)) \/ sess' = sess
    BY <1>0, Steps DEF Expire, vars
  <2> QED
    BY <1>0, <1>1, <1>2, <2>1, SessionSteps
<1> QED
  BY <1>0, <1>3, CustodiansNext

LEMMA CustodyInit == Init => CustodyInv
<1> SUFFICES ASSUME Init PROVE CustodyInv
  OBVIOUS
<1>1. \A t \in Task : sess[t] = Idle
  BY DEF Init
<1> QED
  BY <1>1, FileInit, BlankCustodian, Custodians

\* Every session's view of a file's key is still the row's, or the object is gone for
\* good, or the row has been given another file.
THEOREM CustodyHolds == Spec => []CustodyInv
BY CustodyInit, CustodyStep, PTL DEF Spec

-----------------------------------------------------------------------------
(* Every step hands a file on as MediaCustody says, or does not touch it.  *)

files == <<store, Held, Referenced, Doubled>>

\* A step that changes no key changes no file.
LEMMA SameFiles ==
    ASSUME TypeOK, TypeOK', photos' = photos, filed' = filed, store' = store,
           \A v \in Verif : verif'[v].key = verif[v].key,
           \A b \in Task : sess'[b].key = sess[b].key
    PROVE  UNCHANGED files
<1>1. KeysOf(verif)' = KeysOf(verif)
  BY DEF KeysOf, TypeOK
<1> QED
  BY <1>1 DEF files, Held, Referenced, Doubled

LEMMA FilesStored ==
    ASSUME CustodyInv, TypeOK', NEW t \in Task, NEW k \in Key, StoreFile(t, k)
    PROVE  Custody!Put(k)
<1>0. TypeOK /\ FileInv /\ k # NoKey
  BY DataAssumption DEF CustodyInv, FileInv
<1>1. /\ k \notin minted /\ store' = store \cup {k}
      /\ verif' = verif /\ photos' = photos /\ filed' = filed
      /\ t \in Bot /\ sess[t].op \in {"verifFile", "photoFile"} /\ sess[t].stage = "loaded"
      /\ sess'[t] = Submitted(sess[t], k) /\ \A b \in Task \ {t} : sess'[b] = sess[b]
  BY <1>0 DEF StoreFile, PutFile, SetSession, tables, TypeOK
<1>2. sess[t].key = NoKey /\ sess'[t].key = k
  BY <1>0, <1>1, SubmittedFields DEF FileInv, Holders, TypeOK
<1>3. k \notin store /\ k \notin Held /\ k \notin Referenced
  BY <1>0, <1>1, HeldBy, ReferencedBy DEF FileInv, KeysMinted, Known
<1>4. Held' = Held \cup {k}
  BY <1>0, <1>1, <1>2 DEF Held
<1>5. Referenced' = Referenced /\ Doubled' = Doubled
  BY <1>1 DEF Referenced, Doubled
<1> QED
  BY <1>1, <1>3, <1>4, <1>5 DEF Custody!Put

\* A put whose answer is lost leaves an object nobody knows of.
LEMMA FilesUnanswered ==
    ASSUME CustodyInv, TypeOK', NEW t \in Task, NEW k \in Key, StoreUnanswered(t, k)
    PROVE  Custody!PutUnanswered(k)
<1>0. TypeOK /\ FileInv /\ k # NoKey
  BY DataAssumption DEF CustodyInv, FileInv
<1>1. /\ BotFails /\ k \notin minted /\ store' = store \cup {k}
      /\ verif' = verif /\ photos' = photos /\ filed' = filed
      /\ sess[t].stage = "loaded" /\ sess[t].op \in {"verifFile", "photoFile"}
      /\ sess'[t] = Idle /\ \A b \in Task \ {t} : sess'[b] = sess[b]
  BY <1>0 DEF StoreUnanswered, PutFile, SetSession, tables, TypeOK
<1>2. \A b \in Task : sess'[b].key = sess[b].key
  BY <1>0, <1>1, Blanks DEF FileInv, Holders
<1>3. k \notin store /\ k \notin Held /\ k \notin Referenced
  BY <1>0, <1>1, HeldBy, ReferencedBy DEF FileInv, KeysMinted, Known
<1>4. Held' = Held /\ Referenced' = Referenced /\ Doubled' = Doubled
  BY <1>1, <1>2 DEF Held, Referenced, Doubled
<1> QED
  BY <1>1, <1>3, <1>4 DEF Custody!PutUnanswered

\* An upload that ends between its put and its commit drops the key it holds.
LEMMA FilesAbandoned ==
    ASSUME CustodyInv, TypeOK', NEW t \in Task, Rollback(t), sess[t].key # NoKey
    PROVE  Custody!Abandon(sess[t].key)
<1> DEFINE k == sess[t].key
<1>0. TypeOK /\ FileInv /\ t \in Bot
  BY DEF CustodyInv, FileInv, Holders
<1>1. /\ BotFails /\ store' = store /\ verif' = verif /\ photos' = photos /\ filed' = filed
      /\ sess'[t] = Idle /\ \A b \in Task \ {t} : sess'[b] = sess[b]
  BY <1>0 DEF Rollback, SetSession, tables, objects, TypeOK
<1>2. \A b \in Task \ {t} : sess[b].key # k
  BY <1>0 DEF FileInv, Holders
<1>3. \A x : x \in Held' <=> x # NoKey /\ \E b \in Task : sess'[b].key = x
  BY DEF Held
<1>4. Held' = Held \ {k} /\ Referenced' = Referenced /\ Doubled' = Doubled
  BY <1>1, <1>2, <1>3, HeldBy, Blanks DEF Referenced, Doubled
<1>5. k \in Held
  BY HeldBy
<1> QED
  BY <1>1, <1>4, <1>5 DEF Custody!Abandon

LEMMA FilesDeleted ==
    ASSUME CustodyInv, TypeOK', NEW t \in Task,
           NEW gone \in SUBSET SweptKeys(sess[t]), NEW known,
           DeletePhotos(t, gone, known) \/ DeleteObjects(t, gone, known)
    PROVE  \E lost \in SUBSET Key : Custody!Erase(lost)
<1> DEFINE lost == gone \cap store
<1>0. TypeOK /\ Custodian(sess[t], verif, photos, store, Doubled)
  BY Custodians DEF CustodyInv, FileInv
<1>1. verif' = verif /\ photos' = photos /\ filed' = filed /\ store' = store \ gone
  BY DEF DeletePhotos, DeleteObjects, tables
<1>2. \A b \in Task : sess'[b].key = sess[b].key
  BY <1>0, DeletePhotosFields, DeleteObjectsFields
<1>3. Held' = Held /\ Referenced' = Referenced /\ Doubled' = Doubled
  BY <1>1, <1>2 DEF Held, Referenced, Doubled
<1>4. ASSUME NEW k \in lost PROVE k \in Referenced \cup Doubled
  <2>1. \/ \E v \in Verif : sess[t].verifSeen[v].key = k
        \/ \E p \in Photo : sess[t].photoSeen[p].key = k
    <3>1. /\ DOMAIN sess[t].verifSeen = Verif /\ DOMAIN sess[t].photoSeen = Photo
          /\ k \in SweptKeys(sess[t])
      BY <1>0 DEF TypeOK, Session
    <3> QED
      BY <3>1 DEF SweptKeys, KeysOf
  <2>2. k \in store /\ k # NoKey
    BY <1>0, DataAssumption DEF TypeOK
  <2> QED
    BY <1>0, <2>1, <2>2, ReferencedBy DEF Custodian, Knows, VerifKnown, PhotoKnown
<1>5. lost \in SUBSET Key /\ store' = store \ lost
  BY <1>0, <1>1 DEF TypeOK
<1> QED
  BY <1>3, <1>4, <1>5 DEF Custody!Erase

\* A commit with a stored file takes its key from the upload.
LEMMA FilesReleased ==
    ASSUME CustodyInv, NEW t \in Task, Commit(t), sess[t].key # NoKey
    PROVE  /\ store' = store /\ sess[t].key \in Held /\ Held' = Held \ {sess[t].key}
           /\ sess[t].op \in {"verifFile", "photoFile"}
<1> DEFINE k == sess[t].key
<1>0. TypeOK /\ FileInv
  BY DEF CustodyInv, FileInv
<1>1. /\ store' = store
      /\ sess'[t] = Idle /\ \A b \in Task \ {t} : sess'[b] = sess[b]
  BY <1>0 DEF Commit, SetSession, TypeOK, objects
<1>2. /\ \A b \in Task \ {t} : sess[b].key # k
      /\ sess[t].op \in {"verifFile", "photoFile"}
  BY <1>0 DEF FileInv, Holders
<1>3. \A x : x \in Held' <=> x # NoKey /\ \E b \in Task : sess'[b].key = x
  BY DEF Held
<1>4. Held' = Held \ {k}
  BY <1>1, <1>2, <1>3, HeldBy, Blanks
<1>5. k \in Held
  BY HeldBy
<1> QED
  BY <1>1, <1>2, <1>4, <1>5

\* A photo's file is attached to a row that has just been inserted for it.
LEMMA PhotoAttached ==
    ASSUME CustodyInv, TypeOK', NEW t \in Task, Commit(t),
           sess[t].key # NoKey, sess[t].op = "photoFile"
    PROVE  Custody!Attach(sess[t].key)
<1> DEFINE s == sess[t]
           k == sess[t].key
<1>0. TypeOK /\ FileInv
  BY DEF CustodyInv, FileInv
<1>1. \A v \in Verif : verif'[v].key = verif[v].key
  BY VerifsKept DEF Takes
<1>2. PICK n \in Photo : /\ photos[n].key = NoKey /\ photos'[n].key = k
                         /\ \A p \in Photo \ {n} : photos'[p].key = photos[p].key
  <2>1. PICK n \in Photo :
           /\ photos[n].owner = NoUser
           /\ photos' = [FlushedPhotos(s) EXCEPT
                            ![n] = [NoPhoto EXCEPT !.owner = s.user, !.key = s.key]]
    BY DEF Commit, FlushPhotos
  <2>2. /\ photos'[n] = [NoPhoto EXCEPT !.owner = s.user, !.key = k]
        /\ \A p \in Photo \ {n} : photos'[p] = FlushedPhotos(s)[p]
    BY <2>1 DEF FlushedPhotos
  <2>3. photos'[n].owner = s.user /\ photos'[n].key = k /\ s.user \in User
    BY <1>0, <2>2 DEF NoPhoto, FileInv, Inserts
  <2>4. Gains(s, n)
    BY <2>1, <2>3 DEF Gains
  <2>5. \A p \in Photo \ {n} : ~Gains(s, p)
    BY <1>0, <2>4, PhotosCommitted
  <2>6. \A p \in Photo \ {n} : photos'[p].key = photos[p].key
    BY <2>5, PhotosKept
  <2>7. photos[n].key = NoKey
    BY <1>0, <2>1 DEF FileInv, KeyedRows, Keyed
  <2> QED
    BY <2>3, <2>6, <2>7
<1>3. Referenced' = Referenced \cup {k}
  <2>1. \A x : x \in Referenced' <=>
               /\ x # NoKey
               /\ (\E v \in Verif : verif'[v].key = x) \/ (\E p \in Photo : photos'[p].key = x)
    BY DEF Referenced, KeysOf, TypeOK
  <2> HIDE DEF k
  <2> QED
    BY <1>0, <1>1, <1>2, <2>1, ReferencedBy DEF k
<1>4. Doubled' = Doubled
  <2>1. \A v \in Verif : filed'[v] = filed[v]
    BY <1>0, <1>1 DEF Commit, FileInv, Filed
  <2> QED
    BY <2>1 DEF Doubled
<1> QED
  BY <1>3, <1>4, FilesReleased DEF Custody!Attach

\* A verification's file is attached to its row, or replaces the row's.
LEMMA VerifAttached ==
    ASSUME CustodyInv, TypeOK', NEW t \in Task, Commit(t),
           sess[t].key # NoKey, sess[t].op = "verifFile"
    PROVE  \/ Custody!Attach(sess[t].key)
           \/ \E j \in Key : Custody!Replace(sess[t].key, j)
<1> DEFINE s == sess[t]
           k == sess[t].key
<1>0. /\ TypeOK /\ FileInv /\ s.stage = "ready" /\ k \in Key
      /\ Custodian(s, verif, photos, store, Doubled)
  BY Custodians DEF CustodyInv, FileInv, Commit, TypeOK, Session, KeyOrNull
<1>1. PICK n \in Verif : s.verifSeen[n].owner # NoUser /\ s.verif[n].key = k
  BY <1>0 DEF Custodian, Written
<1>2. Takes(s, n)
  <2>1. verif'[n].key = Column(verif[n].key, s.verifSeen[n].key, s.verif[n].key)
    BY <1>0 DEF Commit, FlushVerifs, FlushedVerifs, FlushVerif, VerifRow, TypeOK
  <2>2. k \notin filed[n] /\ s.verifSeen[n].key \in filed[n] \cup {NoKey}
    BY <1>0, HeldBy DEF FileInv, OneHome, Filed
  <2> QED
    BY <1>1, <2>1, <2>2 DEF Takes, Column
<1>3. \A w \in Verif \ {n} : ~Takes(s, w)
  BY <1>0, <1>2 DEF Takes, FileInv, OneChallenge
<1>4. /\ verif'[n].key = k
      /\ \A w \in Verif \ {n} : verif'[w].key = verif[w].key
      /\ \A p \in Photo : photos'[p].key = photos[p].key
  BY <1>2, <1>3, VerifsKept, PhotosKept DEF Takes, Gains
<1>5. /\ filed'[n] = filed[n] \cup {k} /\ k \notin filed[n]
      /\ \A w \in Verif \ {n} : filed'[w] = filed[w]
      /\ filed[n] \subseteq Key /\ verif[n].key \in filed[n] \cup {NoKey}
  <2>1. filed'[n] = filed[n] \cup {k} /\ k \notin filed[n]
    BY <1>0, <1>2, TakenIsDoubled
  <2> QED
    BY <1>0, <1>4, <2>1 DEF Commit, FileInv, Filed, TypeOK
<1>6. \A x : x \in Referenced' <=>
             /\ x # NoKey
             /\ (\E v \in Verif : verif'[v].key = x) \/ (\E p \in Photo : photos'[p].key = x)
  BY DEF Referenced, KeysOf, TypeOK
<1>7. CASE filed[n] = {}
  <2>1. Doubled' = Doubled
    BY <1>5, <1>7 DEF Doubled
  <2>2. Referenced' = Referenced \cup {k}
    <3> HIDE DEF k
    <3> QED
      BY <1>0, <1>4, <1>5, <1>6, <1>7, ReferencedBy DEF k
  <2> QED
    BY <2>1, <2>2, FilesReleased DEF Custody!Attach
<1>8. CASE filed[n] # {}
  <2>1. PICK j \in filed[n] : verif[n].key \in {j, NoKey}
    BY <1>5, <1>8
  <2>2. /\ j \in Key /\ j # k /\ j # NoKey /\ j \notin Held
        /\ \A w \in Verif \ {n} : verif[w].key # j
        /\ \A p \in Photo : photos[p].key # j
    BY <1>0, <1>5, <2>1, DataAssumption DEF FileInv, OneHome, HasPhoto, Filed
  <2>3. Referenced' = (Referenced \ {j}) \cup {k}
    <3> HIDE DEF k
    <3> QED
      BY <1>0, <1>4, <1>6, <2>1, <2>2, ReferencedBy DEF k
  <2>4. Doubled' = Doubled \cup {j, k}
    <3>1. \A x \in Key : x \in Doubled' <=> \E v \in Verif : x \in filed'[v] /\ filed'[v] # {x}
      BY DEF Doubled
    <3>2. \A x \in Key : x \in Doubled <=> \E v \in Verif : x \in filed[v] /\ filed[v] # {x}
      BY DEF Doubled
    <3>3. \A x \in filed'[n] : filed'[n] # {x}
      BY <1>5, <2>1
    <3>4. \A x \in filed[n] : x # j => filed[n] # {x}
      BY <2>1
    <3>5. \A x \in Key : x \in Doubled' <=> x \in Doubled \/ x = j \/ x = k
      BY <1>5, <2>1, <3>1, <3>2, <3>3, <3>4
    <3>6. Doubled' \subseteq Key /\ Doubled \subseteq Key
      BY DEF Doubled
    <3> QED
      BY <1>0, <2>2, <3>5, <3>6
  <2>5. store' = store /\ k \in Held /\ Held' = Held \ {k}
    BY FilesReleased
  <2>6. Custody!Replace(k, j)
    BY <2>2, <2>3, <2>4, <2>5 DEF Custody!Replace
  <2> QED
    BY <2>2, <2>6
<1> QED
  BY <1>7, <1>8

\* Any other commit only forgets keys whose object is gone, or whose row had a second.
LEMMA FilesForgotten ==
    ASSUME CustodyInv, TypeOK', NEW t \in Task, Commit(t), sess[t].key = NoKey
    PROVE  \E lost \in SUBSET Key : Custody!Forget(lost)
<1> DEFINE s == sess[t]
           lost == Referenced \ Referenced'
<1>0. TypeOK /\ FileInv
  BY DEF CustodyInv, FileInv
<1>1. /\ store' = store
      /\ sess'[t] = Idle /\ \A b \in Task \ {t} : sess'[b] = sess[b]
  BY <1>0 DEF Commit, SetSession, TypeOK, objects
<1>2. Held' = Held
  <2>1. \A x : x \in Held' <=> x # NoKey /\ \E b \in Task : sess'[b].key = x
    BY DEF Held
  <2>2. \A b \in Task : sess'[b].key = sess[b].key
    BY <1>1, Blanks
  <2> QED
    BY <2>1, <2>2, HeldBy
<1>3. /\ \A v \in Verif :
            \/ verif'[v].key = verif[v].key
            \/ verif'[v].key = NoKey /\ (verif[v].key \notin store \/ verif[v].key \in Doubled)
      /\ \A p \in Photo :
            \/ photos'[p].key = photos[p].key
            \/ photos'[p].key = NoKey /\ photos[p].key \notin store
  BY VerifsKept, PhotosKept
<1>4. Doubled' = Doubled
  <2>1. \A v \in Verif : filed'[v] = filed[v]
    BY <1>0, <1>3 DEF Commit, FileInv, Filed
  <2> QED
    BY <2>1 DEF Doubled
<1>5. \A x : x \in Referenced' <=>
             /\ x # NoKey
             /\ (\E v \in Verif : verif'[v].key = x) \/ (\E p \in Photo : photos'[p].key = x)
  BY DEF Referenced, KeysOf, TypeOK
<1>6. Referenced' \subseteq Referenced /\ lost \cap store \subseteq Doubled
  BY <1>0, <1>3, <1>5, ReferencedBy
<1>7. lost \in SUBSET Key /\ Referenced' = Referenced \ lost
  <2>1. /\ \A v \in Verif : verif[v].key \in Key \cup {NoKey}
        /\ \A p \in Photo : photos[p].key \in Key \cup {NoKey}
    BY <1>0 DEF TypeOK, VerifRow, PhotoRow, KeyOrNull
  <2>2. Referenced \subseteq Key
    BY <1>0, <2>1, ReferencedBy
  <2> QED
    BY <1>6, <2>2
<1> QED
  BY <1>1, <1>2, <1>4, <1>6, <1>7 DEF Custody!Forget

LEMMA FilesStep == CustodyInv /\ [Next]_vars => [Custody!Next]_files
<1> SUFFICES ASSUME CustodyInv, [Next]_vars PROVE Custody!Next \/ UNCHANGED files
  OBVIOUS
<1>0. TypeOK /\ TypeOK' /\ FileInv
  BY TypeStep DEF CustodyInv, FileInv
<1>1. CASE UNCHANGED vars
  BY <1>0, <1>1, SameFiles DEF vars
<1>2. ASSUME NEW v \in Verif, Expire(v) PROVE UNCHANGED files
  <2>1. /\ sess' = sess /\ photos' = photos /\ store' = store /\ filed' = filed
        /\ \A w \in Verif : verif'[w].key = verif[w].key
    BY <1>0, <1>2 DEF Expire, TypeOK, objects, VerifRow
  <2> QED
    BY <1>0, <2>1, SameFiles
<1>3. ASSUME NEW t \in Task, StepOf(t) PROVE Custody!Next \/ UNCHANGED files
  <2>1. CASE Starts(t)
    <3>1. PICK s : LoadedBy(t, s) /\ SetSession(t, s) /\ UNCHANGED <<tables, objects>>
      BY <2>1 DEF Starts
    <3>2. sess[t].op = "idle" /\ sess[t].key = NoKey
      BY <1>0, <2>1 DEF Starts, FileInv, Holders
    <3>3. \A b \in Task : sess'[b].key = sess[b].key
      BY <1>0, <3>1, <3>2 DEF SetSession, TypeOK, LoadedBy
    <3> QED
      BY <1>0, <3>1, <3>3, SameFiles DEF tables, objects
  <2>2. CASE \E k \in Key : StoreFile(t, k)
    BY <1>0, <2>2, FilesStored DEF Custody!Next
  <2>3. CASE \E gone \in SUBSET SweptKeys(sess[t]) : \E known :
                DeletePhotos(t, gone, known) \/ DeleteObjects(t, gone, known)
    BY <1>0, <2>3, FilesDeleted DEF Custody!Next
  <2>4. CASE Commit(t)
    <3>1. CASE sess[t].key # NoKey
      <4>1. sess[t].key \in Key
        BY <1>0, <3>1 DEF TypeOK, Session, KeyOrNull
      <4>2. sess[t].op \in {"verifFile", "photoFile"}
        BY <2>4, <3>1, FilesReleased
      <4> QED
        BY <1>0, <2>4, <3>1, <4>1, <4>2, PhotoAttached, VerifAttached DEF Custody!Next
    <3>2. CASE sess[t].key = NoKey
      BY <1>0, <2>4, <3>2, FilesForgotten DEF Custody!Next
    <3> QED
      BY <3>1, <3>2
  <2>5. CASE Rollback(t)
    <3>1. CASE sess[t].key = NoKey
      <4>1. \A b \in Task : sess'[b].key = sess[b].key
        BY <1>0, <2>5, <3>1, Blanks DEF Rollback, SetSession, TypeOK
      <4> QED
        BY <1>0, <2>5, <4>1, SameFiles DEF Rollback, tables, objects
    <3>2. CASE sess[t].key # NoKey
      <4>1. sess[t].key \in Key
        BY <1>0, <3>2 DEF TypeOK, Session, KeyOrNull
      <4> QED
        BY <1>0, <2>5, <3>2, <4>1, FilesAbandoned DEF Custody!Next
    <3> QED
      BY <3>1, <3>2
  <2>6. CASE \E k \in Key : StoreUnanswered(t, k)
    BY <1>0, <2>6, FilesUnanswered DEF Custody!Next
  <2> QED
    BY <1>3, <2>1, <2>2, <2>3, <2>4, <2>5, <2>6 DEF StepOf
<1> QED
  BY <1>0, <1>1, <1>2, <1>3, Steps

\* The club keeps its files as MediaCustody promises: whatever the API, the bot and the
\* worker interleave, a key passes from the upload to a row, and a row forgets it only
\* after the object has been deleted, unless the row was given another file.  An upload
\* that fails drops its own key and no other.
THEOREM ClubImplementsCustody == Spec => FilesInCustody
<1>1. Init => Custody!Init
  <2>1. ASSUME Init PROVE store = {} /\ Held = {} /\ Referenced = {} /\ Doubled = {}
    BY <2>1, Blanks DEF Init, Held, Referenced, Doubled, KeysOf
  <2> QED
    BY <2>1 DEF Custody!Init
<1> QED
  BY <1>1, CustodyInit, CustodyStep, FilesStep, PTL
     DEF Spec, FilesInCustody, Custody!Spec, files
=============================================================================
