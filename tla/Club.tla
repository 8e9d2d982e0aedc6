-------------------------------- MODULE Club --------------------------------
(***************************************************************************)
(* The API, the bot and the retention worker over one database and one     *)
(* object store, and what must hold of the data they share.                *)
(***************************************************************************)
EXTENDS ApiHandlers, BotHandlers, RetentionWorker

Next == ApiNext \/ BotNext \/ WorkerNext \/ \E v \in Verif : Expire(v)

Spec == Init /\ [][Next]_vars

\* The worker's loop never ends: its container restarts it ("restart:
\* unless-stopped") and a store that is down answers again some day.  Nothing
\* is assumed of the members, the staff or the other two processes.
WorkerFairness(t) ==
    /\ WF_vars(BeginSweepVerifs(t)) /\ WF_vars(BeginSweepPhotos(t))
    /\ \A op \in WorkerOp : /\ SF_vars(sess[t].op = op /\ DeleteAll(t))
                            /\ SF_vars(sess[t].op = op /\ WorkerCommit(t))

FairSpec == Spec /\ \A t \in Worker : WorkerFairness(t)

-----------------------------------------------------------------------------
\* Every variable keeps its type; in particular a session never holds a row
\* the tables could not store.
TypeOK ==
    /\ users \in [User -> UserRow]
    /\ profiles \in [User -> Profile]
    /\ verif \in [Verif -> VerifRow]
    /\ photos \in [Photo -> PhotoRow]
    /\ store \subseteq Key /\ minted \subseteq Key
    /\ sess \in [Task -> Session]
    /\ turn \in [Worker -> WorkerOp]
    /\ filed \in [Verif -> SUBSET Key]

\* While an account waits for its video, the challenge the bot will attach it to
\* (the newest verification row) has no file yet: media() overwrites that row's
\* key without looking, so a file already there would be lost.
AwaitingMediaIsEmpty ==
    \A u \in User : users[u].status = "VERIFICATION_PENDING" =>
        \E v \in Verif : IsLatest(u, v) /\ verif[v].key = NoKey

\* A deleted account stays unreachable from Telegram: no commit of a handler
\* that loaded it before the deletion brings the telegram_id back.
DeletedIsUnlinked == \A u \in User : users[u].status = "DELETED" => ~users[u].linked

\* What is shown of a member changes only by its own hand: a contact starts to be
\* revealed, and a hidden account to be listed, only when the member's own request
\* to do so commits.  A request that loaded the row earlier and changes something
\* else must not write the old flag back.
Commits(t, u, op) ==
    sess[t].op = op /\ sess[t].user = u /\ sess'[t].op = "idle" /\ users'[u] # users[u]
FlagsAreTheMembers ==
    [][\A u \in User :
          /\ ~users[u].reveal /\ users'[u].reveal =>
                \E t \in Api : Commits(t, u, "reveal") /\ sess[t].row.reveal
          /\ users[u].hidden /\ ~users'[u].hidden =>
                \E t \in Api : Commits(t, u, "visibility") /\ ~sess[t].row.hidden]_vars

\* Files are never forgotten too early, and lost only by an upload that fails or by a
\* second file for the same challenge (an album): see MediaCustody.
Held == {sess[t].key : t \in Task} \ {NoKey}
Referenced == KeysOf(verif) \cup KeysOf(photos)
Doubled == {k \in Key : \E v \in Verif : k \in filed[v] /\ filed[v] # {k}}
Custody == INSTANCE MediaCustody
               WITH stored <- store, held <- Held, referenced <- Referenced,
                    doubled <- Doubled, Fails <- BotFails
FilesInCustody == Custody!Spec

\* No two rows point at one file, and none at the file of an upload in flight.
Points(row, k) == row.key = k /\ k # NoKey
OneRowPerFile ==
    \A k \in Key :
        /\ \A v, w \in Verif : Points(verif[v], k) /\ Points(verif[w], k) => v = w
        /\ \A p, q \in Photo : Points(photos[p], k) /\ Points(photos[q], k) => p = q
        /\ \A v \in Verif, p \in Photo : ~(Points(verif[v], k) /\ Points(photos[p], k))
        /\ k \in Held => k \notin Referenced

\* A file is deleted only when it is due, whatever happened between the SELECT of the
\* handler that deletes it and the call to the store: a verification file once it is
\* expired or staff decides on its owner (SECURITY.md:11-13), a photo once its owner
\* has been deleted, and either while its owner's account is being deleted.
DeletesFor(u) == \E t \in Api : sess[t].op = "delete" /\ sess[t].user = u
DecidesOn(u) == \E t \in Api : sess[t].op = "moderate" /\ sess[t].user = u
OnlyDueFilesDeleted ==
    [][\A k \in store \ store' :
          /\ \A v \in Verif : verif[v].key = k =>
                verif[v].expired \/ DecidesOn(verif[v].owner) \/ DeletesFor(verif[v].owner)
          /\ \A p \in Photo : photos[p].key = k =>
                ~users[photos[p].owner].linked \/ DeletesFor(photos[p].owner)]_vars

\* The row of a photo keeps its key as long as the file is stored.  A verification
\* whose member sends an album may lose one file to the next; a photo never does.
PhotosAreKept ==
    [][\A p \in Photo, k \in store \cap store' :
          photos[p].key = k => photos'[p].key = k]_vars

-----------------------------------------------------------------------------
\* The retention worker finishes: media of a verification past its retention
\* period is in the end deleted from the store, whatever else runs, however often
\* the worker is restarted and whichever calls fail.
ExpiredMediaIsDeleted ==
    \A v \in Verif, k \in Key :
        (verif[v].expired /\ verif[v].key = k) ~> k \notin store

\* If an account stays deleted, the store in the end keeps none of its photos,
\* even those an upload in flight added after the deletion.
DeletedPhotosAreDeleted ==
    \A u \in User :
        <>[](users[u].status = "DELETED")
            => <>[](\A p \in PhotosOf(u) : photos[p].key \notin store)

-----------------------------------------------------------------------------
\* A decided account, and one that is in the staff's hands, moves on only by the staff
\* or with its deletion, but for a handler that loaded it before the decision; and the
\* profile of a deleted account is written only by one that loaded it before that.
Decided == {"ADMIN_REVIEW", "APPROVED", "REJECTED", "SUSPENDED", "BANNED", "DELETED"}
DecisionsStand ==
    [][\A u \in User :
          /\ users[u].status \in Decided /\ users'[u].status # users[u].status =>
                \E t \in Task : /\ sess[t].user = u /\ sess'[t].op = "idle"
                               /\ \/ sess[t].op \in {"moderate", "delete"}
                                  \/ sess[t].rowSeen.status \notin Decided
          /\ users[u].status = "DELETED" /\ profiles'[u] # profiles[u] =>
                \E t \in Task : /\ sess[t].user = u /\ sess'[t].op = "idle"
                               /\ sess[t].rowSeen.status # "DELETED"]_vars

\* An account whose profile is said to exist has one, although the form's row and the
\* account's status are written by sessions that may have loaded neither.
CreatedHasProfile ==
    \A u \in User : users[u].status = "PROFILE_CREATED" => profiles[u] # "none"

-----------------------------------------------------------------------------
(* What the repository says of the program and its code does not keep.     *)

\* "Permanent ban requires ADMIN" (app/main.py:341): a ban ends only by another
\* decision of the staff or with the account.  A handler that loaded the account
\* before the ban writes its own status over it.
BanStands ==
    [][\A u \in User :
          users[u].status = "BANNED" /\ users'[u].status # "BANNED" =>
              \E t \in Api : Commits(t, u, "moderate") \/ Commits(t, u, "delete")]_vars

\* "Account deletion must anonymize the profile" (tests/test_data_lifecycle.py:1): an
\* account without its telegram_id has been deleted, and no text is kept of it.
DeletionErasesProfile ==
    \A u \in User : ~users[u].linked => profiles[u] \in {"none", "erased"}

=============================================================================
