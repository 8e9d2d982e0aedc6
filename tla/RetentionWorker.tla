-------------------------- MODULE RetentionWorker --------------------------
(***************************************************************************)
(* app/worker.py: a loop that sweeps expired verification media, then the  *)
(* photos of deleted accounts, then sleeps.  An object the store fails to  *)
(* delete keeps its row's key for a later pass.  An exception outside      *)
(* delete_object() ends the process, which the container restarts at the   *)
(* top of the loop.                                                        *)
(***************************************************************************)
EXTENDS ClubData

BeginSweep(t, op, vs, ps) ==
    /\ t \in Worker /\ sess[t].op = "idle" /\ turn[t] = op
    /\ SetSession(t, LoadedRows(op, vs, ps))
    /\ UNCHANGED <<tables, objects, turn>>

\* Mutant of BeginSweepVerifs: the files of every verification, expired or not.
BeginSweepAll(t) ==
    BeginSweep(t, "sweepVerifs", {v \in Verif : verif[v].key # NoKey}, {})
BeginSweepVerifs(t) ==
    BeginSweep(t, "sweepVerifs",
               {v \in Verif : verif[v].expired /\ verif[v].key # NoKey}, {})

\* Mutant of BeginSweepPhotos: only the photos the deletion itself has rejected.
BeginSweepRejected(t) ==
    BeginSweep(t, "sweepPhotos", {},
               {p \in Photo : /\ photos[p].key # NoKey /\ photos[p].status = "REJECTED"
                              /\ users[photos[p].owner].status = "DELETED"})
BeginSweepPhotos(t) ==
    BeginSweep(t, "sweepPhotos", {},
               {p \in Photo : /\ photos[p].key # NoKey
                              /\ users[photos[p].owner].status = "DELETED"})

\* Mutant of WorkerCommit: verifications are swept once, before the loop.
WorkerCommitOnce(t) ==
    t \in Worker /\ Commit(t) /\ turn' = [turn EXCEPT ![t] = "sweepPhotos"]
WorkerCommit(t) ==
    /\ t \in Worker /\ Commit(t)
    /\ turn' = [turn EXCEPT ![t] = IF sess[t].op = "sweepVerifs"
                                   THEN "sweepPhotos" ELSE "sweepVerifs"]

WorkerRestart(t) ==
    /\ t \in Worker /\ Rollback(t)
    /\ turn' = [turn EXCEPT ![t] = "sweepVerifs"]

SweptKeys(s) == KeysOf(s.verifSeen) \cup KeysOf(s.photoSeen)

\* A pass in which the store answers every call.
DeleteAll(t) == t \in Worker /\ DeleteObjects(t, SweptKeys(sess[t]), SweptKeys(sess[t]))

WorkerNext ==
    \E t \in Worker :
        \/ BeginSweepVerifs(t)
        \/ BeginSweepPhotos(t)
        \/ \E gone \in SUBSET SweptKeys(sess[t]) :
              \E known \in SUBSET gone : DeleteObjects(t, gone, known)
        \/ WorkerCommit(t)
        \/ WorkerRestart(t)
=============================================================================
