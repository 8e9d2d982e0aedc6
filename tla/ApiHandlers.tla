---------------------------- MODULE ApiHandlers ----------------------------
(***************************************************************************)
(* The API process: one request per thread.  Each Begin... action is a     *)
(* handler up to its last read: the checks it makes on the rows it loaded  *)
(* and the assignments it makes to its copies.  The handlers that delete   *)
(* stored media then do so, and ApiCommit ends the request.                *)
(***************************************************************************)
EXTENDS ClubData

\* current(): the bearer token resolves and the account is not DELETED.  Any
\* account may hold a token: v6_auth() issues one whatever the status, and one
\* issued while the account is being deleted survives it.
Current(u) == users[u].status # "DELETED"

\* A request that needs no object-store call is ready once loaded.
Begin(t, op, s) ==
    /\ t \in Api /\ op \in Requests
    /\ sess[t].op = "idle"
    /\ SetSession(t, s)
    /\ UNCHANGED <<tables, objects, turn>>

\* Mutants of BeginProfile: any account may send the form; a first form is not saved.
BeginProfileAnyStatus(t, u, form) ==
    /\ Current(u)
    /\ Begin(t, "profile",
             [Loaded("profile", u, {}, {}) EXCEPT
                 !.stage = "ready", !.text = form, !.row.status = "PROFILE_CREATED"])
BeginProfileUpdate(t, u, form) ==
    /\ Current(u)
    /\ users[u].status \in {"NEW", "AGE_CONFIRMED", "REVISION_REQUIRED"}
    /\ Begin(t, "profile",
             [Loaded("profile", u, {}, {}) EXCEPT
                 !.stage = "ready", !.text = IF @ = "none" THEN @ ELSE form,
                 !.row.status = "PROFILE_CREATED"])
\* The form's rate limit is counted, in Redis, between the SELECT of the account and
\* that of its profile; the two are one step here.
BeginProfile(t, u, form) ==
    /\ Current(u)
    /\ users[u].status \in {"NEW", "AGE_CONFIRMED", "REVISION_REQUIRED"}
    /\ Begin(t, "profile",
             [Loaded("profile", u, {}, {}) EXCEPT
                 !.stage = "ready", !.text = form, !.row.status = "PROFILE_CREATED"])

BeginVerification(t, u) ==
    /\ Current(u)
    /\ users[u].status \in {"PROFILE_CREATED", "REVISION_REQUIRED"}
    /\ Begin(t, "verification",
             [Loaded("verification", u, {}, {}) EXCEPT
                 !.stage = "ready", !.row.status = "VERIFICATION_PENDING"])

BeginVisibility(t, u, hidden) ==
    /\ users[u].status = "APPROVED"
    /\ Begin(t, "visibility",
             [Loaded("visibility", u, {}, {}) EXCEPT
                 !.stage = "ready", !.row.hidden = hidden])

BeginReveal(t, u, value) ==
    /\ users[u].status = "APPROVED"
    /\ Begin(t, "reveal",
             [Loaded("reveal", u, {}, {}) EXCEPT
                 !.stage = "ready", !.row.reveal = value])

\* delete_account(): the photos are loaded and their objects deleted, where the
\* store answers, before the verifications are loaded and theirs deleted.
\* Mutant of BeginDelete: the account keeps its telegram_id.
BeginDeleteLinked(t, u) ==
    /\ Current(u)
    /\ Begin(t, "delete",
             [Loaded("delete", u, {}, PhotosOf(u)) EXCEPT
                 !.stage = "photos",
                 !.text = IF @ = "none" THEN "none" ELSE "erased",
                 !.row.status = "DELETED", !.row.hidden = TRUE, !.row.reveal = FALSE])
BeginDelete(t, u) ==
    /\ Current(u)
    /\ Begin(t, "delete",
             [Loaded("delete", u, {}, PhotosOf(u)) EXCEPT
                 !.stage = "photos",
                 !.text = IF @ = "none" THEN "none" ELSE "erased",
                 !.photo = [p \in Photo |->
                              IF p \in PhotosOf(u)
                              THEN [@[p] EXCEPT !.status = "REJECTED", !.approved = FALSE]
                              ELSE @[p]],
                 !.row = [status |-> "DELETED", hidden |-> TRUE,
                          reveal |-> FALSE, linked |-> FALSE]])

DeletePhotos(t, gone, known) ==
    /\ t \in Api /\ sess[t].stage = "photos"
    /\ known \subseteq gone
    /\ store' = store \ gone
    /\ LET vs == LoadedVerifs(VerifsOf(sess[t].user)) IN
       SetSession(t, [sess[t] EXCEPT !.stage = "loaded",
                                     !.photo = Cleared(@, known),
                                     !.verifSeen = vs, !.verif = vs])
    /\ UNCHANGED <<tables, minted, turn>>

\* v7_staff_moderate(): any account, whatever its status.  Only an approval
\* deletes the media of the latest verification.
\* Mutant of BeginModerate: the decision is stored, not the status it maps to.
BeginModerateUnmapped(t, u, decision) ==
    Begin(t, "moderate",
          [Loaded("moderate", u, {}, {}) EXCEPT !.stage = "ready", !.row.status = "revise"])
BeginModerate(t, u, decision) ==
    LET latest == IF decision = "APPROVED" THEN {v \in Verif : IsLatest(u, v)} ELSE {} IN
    Begin(t, "moderate",
          [Loaded("moderate", u, latest, {}) EXCEPT
              !.stage = IF decision = "APPROVED" THEN "loaded" ELSE "ready",
              !.row.status = decision])

BeginPhotoDecision(t, p, approve) ==
    /\ photos[p].owner # NoUser
    /\ Begin(t, "photo",
             [LoadedRows("photo", {}, {p}) EXCEPT
                 !.stage = "ready",
                 !.photo[p].status = IF approve THEN "APPROVED" ELSE "REJECTED",
                 !.photo[p].approved = approve])

\* v7_staff_cleanup_verification(): rows past the retention period that still
\* point at media.
ExpiredVerifs == {v \in Verif : verif[v].expired /\ verif[v].key # NoKey}

\* Mutant of BeginCleanup: the files of every verification, expired or not.
BeginCleanupAll(t) == Begin(t, "cleanup", LoadedRows("cleanup", Verif, {}))
BeginCleanup(t) == Begin(t, "cleanup", LoadedRows("cleanup", ExpiredVerifs, {}))

ApiCommit(t) == t \in Api /\ Commit(t) /\ UNCHANGED turn
ApiRollback(t) == t \in Api /\ Rollback(t) /\ UNCHANGED turn

ApiNext ==
    \E t \in Api :
        \/ \E u \in User :
              \/ \E form \in Text : BeginProfile(t, u, form)
              \/ BeginVerification(t, u)
              \/ \E flag \in BOOLEAN : BeginVisibility(t, u, flag) \/ BeginReveal(t, u, flag)
              \/ BeginDelete(t, u)
              \/ \E decision \in Decisions : BeginModerate(t, u, decision)
        \/ \E p \in Photo, approve \in BOOLEAN : BeginPhotoDecision(t, p, approve)
        \/ BeginCleanup(t)
        \/ \E gone \in SUBSET KeysOf(sess[t].photoSeen) :
              \E known \in SUBSET gone : DeletePhotos(t, gone, known)
        \/ \E gone \in SUBSET KeysOf(sess[t].verifSeen) :
              \E known \in SUBSET gone : DeleteObjects(t, gone, known)
        \/ ApiCommit(t)
        \/ ApiRollback(t)
=============================================================================
