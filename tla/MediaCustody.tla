---------------------------- MODULE MediaCustody ----------------------------
(***************************************************************************)
(* What the system promises of a stored file: from the put to the delete,  *)
(* somebody knows its key.  First the upload that put it, then a table     *)
(* row; the row forgets the key only after the object is deleted, and only *)
(* an object some row still points at is deleted.                          *)
(*                                                                         *)
(* The chain can break in two places and nowhere else.  An upload may fail *)
(* after its put.  And a row may be given a second file, which replaces    *)
(* the first: from then on nothing is promised of the files of that row.   *)
(***************************************************************************)
CONSTANTS
    Key,
    Fails    \* an upload may fail after its put

VARIABLES
    stored,      \* objects in the bucket
    held,        \* keys an upload in flight has put and not attached yet
    referenced,  \* keys in some row's storage_key
    doubled      \* keys of rows that were given more than one

Put(k) ==
    /\ k \in Key \ (stored \cup held \cup referenced)
    /\ stored' = stored \cup {k} /\ held' = held \cup {k}
    /\ UNCHANGED <<referenced, doubled>>

Attach(k) ==
    /\ k \in held
    /\ held' = held \ {k} /\ referenced' = referenced \cup {k}
    /\ UNCHANGED <<stored, doubled>>

\* k goes to a row that was given j before.
Replace(k, j) ==
    /\ k \in held /\ j \in Key \ held
    /\ held' = held \ {k} /\ referenced' = (referenced \ {j}) \cup {k}
    /\ doubled' = doubled \cup {j, k}
    /\ UNCHANGED stored

\* A put whose answer is lost, and an upload that ends before its commit.
PutUnanswered(k) ==
    /\ Fails
    /\ k \in Key \ (stored \cup held \cup referenced)
    /\ stored' = stored \cup {k}
    /\ UNCHANGED <<held, referenced, doubled>>

Abandon(k) ==
    /\ Fails
    /\ k \in held
    /\ held' = held \ {k}
    /\ UNCHANGED <<stored, referenced, doubled>>

Erase(gone) ==
    /\ gone \subseteq referenced \cup doubled
    /\ stored' = stored \ gone
    /\ UNCHANGED <<held, referenced, doubled>>

Forget(gone) ==
    /\ gone \subseteq referenced /\ gone \cap stored \subseteq doubled
    /\ referenced' = referenced \ gone
    /\ UNCHANGED <<stored, held, doubled>>

Init == stored = {} /\ held = {} /\ referenced = {} /\ doubled = {}

Next ==
    \/ \E k \in Key : \/ Put(k) \/ Attach(k) \/ PutUnanswered(k) \/ Abandon(k)
                      \/ \E j \in Key : Replace(k, j)
    \/ \E gone \in SUBSET Key : Erase(gone) \/ Forget(gone)

Spec == Init /\ [][Next]_<<stored, held, referenced, doubled>>
=============================================================================
