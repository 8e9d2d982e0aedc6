--------------------------- MODULE ClubInvariant ---------------------------
(***************************************************************************)
(* Why the safety properties of Club hold: the inductive invariants.       *)
(*                                                                         *)
(* UnlinkInv says what a session may do to the telegram_id of an account.  *)
(* FileInv gives each key one home: the row it was filed in, or the upload *)
(* that has put it.  Three invariants build on it.  AwaitInv says that an  *)
(* upload writes only its member's rows and ends the wait.  CustodyInv     *)
(* says what a session may know of a file: a key it has loaded is still    *)
(* the row's key, or the object is gone and stays gone (keys are never     *)
(* reused), or the row was given another file since.  DueInv says why a    *)
(* session may delete the files of the rows it has loaded.  The last two   *)
(* say what a session may do to an account's status and profile.           *)
(***************************************************************************)
EXTENDS Club

\* No session brings a telegram_id back, and one that deletes takes it away.
OnlyUnlinks(s) ==
    s.user # NoUser =>
        /\ ~s.rowSeen.linked => ~users[s.user].linked
        /\ s.row.linked => s.rowSeen.linked
        /\ s.row.status = "DELETED" /\ s.rowSeen.status # "DELETED" => ~s.row.linked
UnlinkOnly == \A t \in Task : OnlyUnlinks(sess[t])

UnlinkInv == TypeOK /\ DeletedIsUnlinked /\ UnlinkOnly

-----------------------------------------------------------------------------
\* Every key in use has been minted by a put.
Known == minted \cup {NoKey}
KeysMinted ==
    /\ store \subseteq minted
    /\ \A v \in Verif : verif[v].key \in Known
    /\ \A p \in Photo : photos[p].key \in Known
    /\ \A t \in Task : /\ sess[t].key \in Known
                       /\ \A v \in Verif : sess[t].verifSeen[v].key \in Known
                       /\ \A p \in Photo : sess[t].photoSeen[p].key \in Known
    /\ \A v \in Verif : filed[v] \subseteq minted

\* A session that inserts a row inserts it for a member.
Inserts ==
    \A t \in Task : sess[t].op \in {"verification", "photoFile"} => sess[t].user \in User

\* Only a finished upload holds a key, and no two hold the same.
Holders ==
    /\ \A t \in Task :
          /\ sess[t].key # NoKey => t \in Bot /\ sess[t].op \in {"verifFile", "photoFile"}
          /\ sess[t].op \in BotOp => t \in Bot
          /\ sess[t].op \in {"verifFile", "photoFile"} =>
                 (sess[t].key # NoKey <=> sess[t].stage = "ready")
    /\ \A t, b \in Task : sess[t].key = sess[b].key /\ sess[t].key # NoKey => t = b

\* An upload of a verification file has loaded one challenge.
OneChallenge ==
    \A t \in Task : sess[t].op = "verifFile" =>
        \A v, w \in {x \in Verif : sess[t].verifSeen[x].owner # NoUser} : v = w

\* Only inserted rows have a key, in the tables and in the sessions, and a row never
\* changes hands.
Keyed(row) == row.key # NoKey => row.owner # NoUser
SeenOf(seen, row) == Keyed(seen) /\ seen.owner \in {NoUser, row.owner}
KeyedRows ==
    /\ \A v \in Verif : Keyed(verif[v])
    /\ \A p \in Photo : Keyed(photos[p])
    /\ \A t \in Task : /\ \A v \in Verif : SeenOf(sess[t].verifSeen[v], verif[v])
                       /\ \A p \in Photo : SeenOf(sess[t].photoSeen[p], photos[p])

\* A session's copy has the key it was loaded with, or none, or that of the file the
\* session has put.
CopyOf(s, v) ==
    /\ s.verif[v].owner = s.verifSeen[v].owner
    /\ \/ s.verif[v].key \in {NoKey, s.verifSeen[v].key}
       \/ s.verif[v].key = s.key /\ s.op = "verifFile" /\ s.verif[v].owner # NoUser
CopyKeys ==
    \A t \in Task : /\ \A v \in Verif : CopyOf(sess[t], v)
                    /\ \A p \in Photo :
                          sess[t].photo[p].key \in {NoKey, sess[t].photoSeen[p].key}

\* A verification row, in the table and as a session loaded it, has a key it was given
\* or none.
Filed ==
    \A v \in Verif :
        /\ verif[v].key \in filed[v] \cup {NoKey}
        /\ \A t \in Task : sess[t].verifSeen[v].key \in filed[v] \cup {NoKey}

\* A file has one row, in the tables, in whatever any session has seen of them and in
\* what they held before, and the file of an upload in flight has none yet.
HasPhoto(p, k) == photos[p].key = k \/ \E t \in Task : sess[t].photoSeen[p].key = k
OneHome ==
    \A k \in Key :
        /\ \A v, w \in Verif : k \in filed[v] /\ k \in filed[w] => v = w
        /\ \A p, q \in Photo : HasPhoto(p, k) /\ HasPhoto(q, k) => p = q
        /\ \A v \in Verif, p \in Photo : ~(k \in filed[v] /\ HasPhoto(p, k))
        /\ k \in Held => /\ \A v \in Verif : k \notin filed[v]
                         /\ \A p \in Photo : ~HasPhoto(p, k)

FileInv ==
    /\ TypeOK /\ KeysMinted /\ Inserts /\ Holders /\ OneChallenge
    /\ KeyedRows /\ CopyKeys /\ Filed /\ OneHome

-----------------------------------------------------------------------------
\* Ids are handed out in order.
InOrder == \A v, w \in Verif : w < v /\ verif[v].owner # NoUser => verif[w].owner # NoUser

\* An upload of a verification file writes its member's rows, and ends the wait with
\* the commit that does.
UploadsOwn ==
    \A t \in Task : sess[t].op = "verifFile" =>
        /\ sess[t].user \in User /\ sess[t].rowSeen.status = "VERIFICATION_PENDING"
        /\ \A v \in Verif : sess[t].verif[v].owner \in {NoUser, sess[t].user}
        /\ sess[t].stage = "ready" => sess[t].row.status = "ADMIN_REVIEW"

\* Only start_verification() makes an account wait for a file.
WaitsOnly ==
    \A t \in Task : sess[t].row.status = "VERIFICATION_PENDING" =>
        sess[t].op = "verification" \/ sess[t].rowSeen.status = "VERIFICATION_PENDING"

AwaitInv == FileInv /\ InOrder /\ UploadsOwn /\ WaitsOnly /\ AwaitingMediaIsEmpty

-----------------------------------------------------------------------------
\* A key a session has loaded is still the row's, or the object is gone; or, of a
\* verification, the row was given a second file.
Lost(k) == k \notin store
SeenFiles ==
    \A t \in Task :
        /\ \A v \in Verif :
              LET k == sess[t].verifSeen[v].key IN
              k # NoKey => verif[v].key = k \/ Lost(k) \/ k \in Doubled
        /\ \A p \in Photo :
              LET k == sess[t].photoSeen[p].key IN
              k # NoKey => photos[p].key = k \/ (photos[p].key = NoKey /\ Lost(k))

\* A session's copy, unless an upload has attached a file to it, has the key it was
\* loaded with or none, and none only if the object is gone.  An upload touches no photo.
KeptOrGone(seen, copy) == copy.key = seen.key \/ (copy.key = NoKey /\ Lost(seen.key))
Copies ==
    \A t \in Task :
        /\ sess[t].op # "verifFile" =>
               \A v \in Verif : KeptOrGone(sess[t].verifSeen[v], sess[t].verif[v])
        /\ sess[t].op = "photoFile" =>
               \A v \in Verif : sess[t].verif[v].key = sess[t].verifSeen[v].key
        /\ \A p \in Photo : KeptOrGone(sess[t].photoSeen[p], sess[t].photo[p])
        /\ sess[t].op \in {"photoFile", "verifFile"} =>
               \A p \in Photo : sess[t].photo[p].key = sess[t].photoSeen[p].key

\* What an upload has ready it writes: the key it put, in the rows it loaded.
Writes ==
    \A t \in Task : sess[t].op = "verifFile" =>
        /\ \E v \in Verif : sess[t].verifSeen[v].owner # NoUser
        /\ \A v \in Verif : sess[t].verifSeen[v].owner # NoUser =>
              sess[t].verif[v].key = IF sess[t].stage = "ready" THEN sess[t].key
                                     ELSE sess[t].verifSeen[v].key

CustodyInv == FileInv /\ SeenFiles /\ Copies /\ Writes

-----------------------------------------------------------------------------
\* Why a session may delete the file of a row it has loaded: the row is expired, it is
\* of the account being deleted or decided on, or its owner has been deleted.
DueVerif(s, v) ==
    /\ s.op \in {"cleanup", "sweepVerifs"} => verif[v].expired
    /\ s.op \in {"delete", "moderate"} => s.verifSeen[v].owner = s.user
    /\ s.op # "sweepPhotos"
DuePhoto(s, p) ==
    /\ s.op = "sweepPhotos" => ~users[s.photoSeen[p].owner].linked
    /\ s.op = "delete" => s.photoSeen[p].owner = s.user
    /\ s.op \notin {"cleanup", "sweepVerifs", "moderate"}
DueRows ==
    \A t \in Task :
        /\ \A v \in Verif : sess[t].verifSeen[v].key # NoKey => DueVerif(sess[t], v)
        /\ \A p \in Photo : sess[t].photoSeen[p].key # NoKey => DuePhoto(sess[t], p)
        /\ sess[t].op \in {"delete", "moderate"} => t \in Api
        /\ sess[t].stage = "photos" => sess[t].op = "delete"

DueInv == UnlinkInv /\ FileInv /\ DueRows

-----------------------------------------------------------------------------
\* Only the staff and the deletion change the status of an account that was decided
\* when the session loaded it, and none writes the profile of a deleted one.
MovesUndecided(s) ==
    /\ s.row.status # s.rowSeen.status =>
          s.op \in {"moderate", "delete"} \/ s.rowSeen.status \notin Decided
    /\ s.op = "verifFile" => s.rowSeen.status = "VERIFICATION_PENDING"
    /\ s.text # s.textSeen => s.rowSeen.status # "DELETED"
DecidedInv == TypeOK /\ \A t \in Task : MovesUndecided(sess[t])

\* A profile that a session has loaded exists and is not taken away, and a session
\* that says the account has one writes it or has found it said.
KeepsProfile(s) ==
    s.user # NoUser =>
        /\ s.textSeen # "none" => s.text # "none" /\ profiles[s.user] # "none"
        /\ s.row.status = "PROFILE_CREATED" =>
              s.text # "none" \/ s.rowSeen.status = "PROFILE_CREATED"
        /\ s.rowSeen.status = "PROFILE_CREATED" => profiles[s.user] # "none"
ProfileInv ==
    TypeOK /\ CreatedHasProfile /\ \A t \in Task : KeepsProfile(sess[t])
=============================================================================
