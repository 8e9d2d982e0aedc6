------------------------------ MODULE Matching ------------------------------
(***************************************************************************)
(* Likes, matches, blocks and the two lists a member sees: the catalog and *)
(* its matches.  Request threads run their statements one at a time over   *)
(* READ COMMITTED tables.  A row inserted by a flush is seen by others     *)
(* only after the commit, but the unique index makes a second INSERT of it *)
(* wait, and fail if the first commits.                                    *)
(***************************************************************************)
EXTENDS Naturals, FiniteSets

CONSTANTS
    Member,    \* users.id
    Thread,    \* request threads of the API process
    Nobody     \* the member of a thread that serves no request

ASSUME MatchingAssumption == Nobody \notin Member

VARIABLES
    approved,  \* members whose status is APPROVED
    hidden,    \* is_hidden
    reveal,    \* contact_reveal
    likes,     \* likes: <<from, to>>
    matches,   \* matches: {user1, user2}
    blocks,    \* blocks: <<from, to>>
    req        \* the request each thread is serving

vars == <<approved, hidden, reveal, likes, matches, blocks, req>>
settings == <<approved, hidden, reveal>>
tables == <<likes, matches, blocks>>

-----------------------------------------------------------------------------
(* A request.  "new": it will insert its like or block.  "mutual": it will *)
(* insert a match.  "open": the flag contact_reveal of the member asking,  *)
(* as matches() has read it; "contacts": the members whose @name it shows. *)
(* Three fields are kept for the properties only: "before", the blocks     *)
(* there were when the request arrived; "heard", whether the other member  *)
(* had already liked the one asking; and "quiet", the members who have     *)
(* kept their contact to themselves ever since it arrived.                 *)

Op == {"idle", "like", "block", "catalog", "matches"}
Request ==
    [op : Op, stage : {"arrived", "looked", "inserted", "decided"},
     me : Member \cup {Nobody}, other : Member \cup {Nobody}, new : BOOLEAN, mutual : BOOLEAN,
     todo : SUBSET Member, shown : SUBSET Member,
     open : BOOLEAN, contacts : SUBSET Member, quiet : SUBSET Member,
     before : SUBSET (Member \X Member), heard : BOOLEAN]

Arrived(op, a, b, rows) ==
    [op |-> op, stage |-> "arrived", me |-> a, other |-> b,
     new |-> FALSE, mutual |-> FALSE,
     todo |-> rows, shown |-> {},
     open |-> FALSE, contacts |-> {}, quiet |-> {}, before |-> blocks,
     heard |-> <<b, a>> \in likes]
Idle ==
    [op |-> "idle", stage |-> "arrived", me |-> Nobody, other |-> Nobody,
     new |-> FALSE, mutual |-> FALSE,
     todo |-> {}, shown |-> {},
     open |-> FALSE, contacts |-> {}, quiet |-> {}, before |-> {}, heard |-> FALSE]

\* blocked_pair(): a row in either direction, and an error if there is one in each.
\* Mutant: only the caller's own blocks count.
OwnBlocks(a, b) == <<a, b>> \in blocks
Blocked(a, b) == <<a, b>> \in blocks \/ <<b, a>> \in blocks
TwoBlocks(a, b) == <<a, b>> \in blocks /\ <<b, a>> \in blocks

Serving(t, op, stage) == req[t].op = op /\ req[t].stage = stage
Become(t, r) == req' = [req EXCEPT ![t] = r]
Done(t) == Become(t, Idle)

\* Mutant of Fail: the session of a failed request is not closed.
FailOpen(t) == Become(t, [req[t] EXCEPT !.op = "failed"]) /\ UNCHANGED <<settings, tables>>
\* An exception: the response is a 500 and the session rolls back.
Fail(t) == Done(t) /\ UNCHANGED <<settings, tables>>

-----------------------------------------------------------------------------
(* like()                                                                  *)

\* The rate limit is counted, in Redis, between loading the caller and loading the
\* other member; the two are one step here.
BeginLike(t, a, b) ==
    /\ req[t].op = "idle"
    /\ a # b /\ {a, b} \subseteq approved
    /\ Become(t, Arrived("like", a, b, {}))
    /\ UNCHANGED <<settings, tables>>

LookLike(t) ==
    LET r == req[t] IN
    /\ Serving(t, "like", "arrived")
    /\ IF Blocked(r.me, r.other)
       THEN Done(t)
       ELSE Become(t, [r EXCEPT !.stage = "looked",
                                !.new = <<r.me, r.other>> \notin likes])
    /\ UNCHANGED <<settings, tables>>

\* Another thread has inserted the same like and has not committed yet.
Pending(t) ==
    \E o \in Thread \ {t} :
        /\ req[o].op = "like" /\ req[o].stage \in {"inserted", "decided"} /\ req[o].new
        /\ req[o].me = req[t].me /\ req[o].other = req[t].other

InsertLike(t) ==
    LET r == req[t] IN
    /\ Serving(t, "like", "looked")
    /\ r.new => ~Pending(t)
    /\ IF r.new /\ <<r.me, r.other>> \in likes
       THEN Done(t)
       ELSE Become(t, [r EXCEPT !.stage = "inserted"])
    /\ UNCHANGED <<settings, tables>>

\* Mutant of LookMutual: it finds the like it has just inserted itself.
LookMutualOwn(t) ==
    LET r == req[t] IN
    /\ Serving(t, "like", "inserted")
    /\ Become(t, [r EXCEPT !.stage = "decided", !.mutual = {r.me, r.other} \notin matches])
    /\ UNCHANGED <<settings, tables>>
\* Mutant of LookMutual: a like that was there already is not answered again.
LookMutualOnce(t) ==
    LET r == req[t] IN
    /\ Serving(t, "like", "inserted")
    /\ Become(t, [r EXCEPT !.stage = "decided",
                           !.mutual = /\ r.new /\ <<r.other, r.me>> \in likes
                                      /\ {r.me, r.other} \notin matches])
    /\ UNCHANGED <<settings, tables>>
\* Mutant of LookMutual: it also finds likes that are not committed.
LookMutualDirty(t) ==
    LET r == req[t]
        dirty == {<<req[o].me, req[o].other>> :
                     o \in {x \in Thread : req[x].op = "like"
                                           /\ req[x].stage \in {"inserted", "decided"}}} IN
    /\ Serving(t, "like", "inserted")
    /\ Become(t, [r EXCEPT !.stage = "decided",
                           !.mutual = /\ <<r.other, r.me>> \in likes \cup dirty
                                      /\ {r.me, r.other} \notin matches])
    /\ UNCHANGED <<settings, tables>>
LookMutual(t) ==
    LET r == req[t] IN
    /\ Serving(t, "like", "inserted")
    /\ Become(t, [r EXCEPT !.stage = "decided",
                           !.mutual = /\ <<r.other, r.me>> \in likes
                                      /\ {r.me, r.other} \notin matches])
    /\ UNCHANGED <<settings, tables>>

\* The match is inserted by the commit itself; a second one breaks the index.
CommitLike(t) ==
    LET r == req[t]
        pair == {r.me, r.other} IN
    /\ Serving(t, "like", "decided")
    /\ ~(r.mutual /\ pair \in matches)
    /\ likes' = IF r.new THEN likes \cup {<<r.me, r.other>>} ELSE likes
    /\ matches' = IF r.mutual THEN matches \cup {pair} ELSE matches
    /\ Done(t)
    /\ UNCHANGED <<settings, blocks>>
LikeConflicts(t) ==
    LET r == req[t] IN
    /\ Serving(t, "like", "decided")
    /\ r.mutual /\ {r.me, r.other} \in matches
    /\ Fail(t)

-----------------------------------------------------------------------------
(* block()                                                                 *)

BeginBlock(t, a, b) ==
    /\ req[t].op = "idle"
    /\ a # b /\ a \in approved
    /\ Become(t, Arrived("block", a, b, {}))
    /\ UNCHANGED <<settings, tables>>

LookBlock(t) ==
    LET r == req[t] IN
    /\ Serving(t, "block", "arrived")
    /\ IF TwoBlocks(r.me, r.other)
       THEN Done(t)
       ELSE Become(t, [r EXCEPT !.stage = "decided", !.new = ~Blocked(r.me, r.other)])
    /\ UNCHANGED <<settings, tables>>

\* A second INSERT of the same row fails and leaves the first.
CommitBlock(t) ==
    LET r == req[t] IN
    /\ Serving(t, "block", "decided")
    /\ blocks' = IF r.new THEN blocks \cup {<<r.me, r.other>>} ELSE blocks
    /\ Done(t)
    /\ UNCHANGED <<settings, likes, matches>>

-----------------------------------------------------------------------------
(* catalog() and matches(): one SELECT for the rows, then one blocked_pair  *)
(* for each of them, in no particular order.                               *)

BeginCatalog(t, u) ==
    /\ req[t].op = "idle" /\ u \in approved
    /\ Become(t, Arrived("catalog", u, u, (approved \ hidden) \ {u}))
    /\ UNCHANGED <<settings, tables>>

BeginMatches(t, u) ==
    /\ req[t].op = "idle" /\ u \in approved
    /\ Become(t, [Arrived("matches", u, u, {v \in Member \ {u} : {u, v} \in matches})
                     EXCEPT !.open = (u \in reveal), !.quiet = Member \ reveal])
    /\ UNCHANGED <<settings, tables>>

\* Both members reveal: the one asking did when the request arrived, the other
\* does now.  A member without a @name is not told apart.
\* Mutant: one of the two is enough.
ContactEither(r, v) == r.op = "matches" /\ (r.open \/ v \in reveal)
Contact(r, v) == r.op = "matches" /\ r.open /\ v \in reveal

ShowRow(t, v) ==
    LET r == req[t] IN
    /\ r.op \in {"catalog", "matches"} /\ v \in r.todo
    /\ ~TwoBlocks(r.me, v)
    /\ Become(t, IF Blocked(r.me, v)
                 THEN [r EXCEPT !.todo = @ \ {v}]
                 ELSE [r EXCEPT !.todo = @ \ {v}, !.shown = @ \cup {v},
                                !.contacts = IF Contact(r, v) THEN @ \cup {v} ELSE @])
    /\ UNCHANGED <<settings, tables>>
RowFails(t, v) ==
    /\ req[t].op \in {"catalog", "matches"} /\ v \in req[t].todo
    /\ TwoBlocks(req[t].me, v)
    /\ Fail(t)

Answer(t) ==
    /\ req[t].op \in {"catalog", "matches"} /\ req[t].todo = {}
    /\ Done(t)
    /\ UNCHANGED <<settings, tables>>

-----------------------------------------------------------------------------
(* What the handlers of Club do to the columns these requests read.        *)

SetHidden(u) ==
    /\ u \in approved
    /\ \/ hidden' = hidden \cup {u}
       \/ hidden' = hidden \ {u}
    /\ UNCHANGED <<approved, reveal, tables, req>>

SetReveal(u) ==
    /\ u \in approved
    /\ \/ /\ reveal' = reveal \cup {u}
          /\ req' = [t \in Thread |-> [req[t] EXCEPT !.quiet = @ \ {u}]]
       \/ reveal' = reveal \ {u} /\ UNCHANGED req
    /\ UNCHANGED <<approved, hidden, tables>>

\* A decision of the staff.
Moderate(u) ==
    /\ \/ approved' = approved \cup {u}
       \/ approved' = approved \ {u}
    /\ UNCHANGED <<hidden, reveal, tables, req>>

DeleteAccount(u) ==
    /\ approved' = approved \ {u} /\ hidden' = hidden \cup {u} /\ reveal' = reveal \ {u}
    /\ UNCHANGED <<tables, req>>

-----------------------------------------------------------------------------
Init ==
    /\ approved = {} /\ hidden = {} /\ reveal = {}
    /\ likes = {} /\ matches = {} /\ blocks = {}
    /\ req = [t \in Thread |-> Idle]

Like(t) ==
    \/ \E a, b \in Member : BeginLike(t, a, b)
    \/ LookLike(t) \/ InsertLike(t) \/ LookMutual(t)
    \/ CommitLike(t) \/ LikeConflicts(t)
Block(t) ==
    \/ \E a, b \in Member : BeginBlock(t, a, b)
    \/ LookBlock(t) \/ CommitBlock(t)
View(t) ==
    \/ \E u \in Member : \/ BeginCatalog(t, u) \/ BeginMatches(t, u)
                         \/ ShowRow(t, u) \/ RowFails(t, u)
    \/ Answer(t)
Account(u) == SetHidden(u) \/ SetReveal(u) \/ Moderate(u) \/ DeleteAccount(u)

Next == (\E t \in Thread : Like(t) \/ Block(t) \/ View(t)) \/ \E u \in Member : Account(u)

Spec == Init /\ [][Next]_vars

-----------------------------------------------------------------------------
\* Every variable keeps its type.
TypeOK ==
    /\ approved \subseteq Member /\ hidden \subseteq Member /\ reveal \subseteq Member
    /\ likes \subseteq Member \X Member /\ blocks \subseteq Member \X Member
    /\ matches \subseteq SUBSET Member
    /\ req \in [Thread -> Request]

\* Two members are matched only if each has liked the other.
MatchedBothLike ==
    \A a, b \in Member : {a, b} \in matches => <<a, b>> \in likes /\ <<b, a>> \in likes

\* Once one member has blocked another, no request of either that arrives later
\* shows the other, goes on to record a like, or records a block of its own: two
\* rows for one pair, which the lookup does not survive, come of a race only.
BlockedBefore(r, v) == <<r.me, v>> \in r.before \/ <<v, r.me>> \in r.before
Respects(r) ==
    /\ \A v \in r.shown : ~BlockedBefore(r, v)
    /\ r.op = "like" /\ r.stage # "arrived" => ~BlockedBefore(r, r.other)
    /\ r.op = "block" /\ r.new => ~BlockedBefore(r, r.other)
BlocksRespected == \A t \in Thread : Respects(req[t])

\* A member whose contact is off before a list of matches is asked for, and stays
\* off, is not in it with its contact, and gets no other member's.
Discreet(r) ==
    /\ r.contacts \cap r.quiet = {}
    /\ r.contacts # {} => r.me \notin r.quiet
WithdrawnStaysPrivate == \A t \in Thread : Discreet(req[t])

\* Why these hold: what a request has found in likes and blocks stays there.
Found(r) ==
    /\ r.op # "idle" => r.me \in Member /\ r.other \in Member
    /\ r.before \subseteq blocks
    /\ r.op = "like" /\ r.stage # "arrived" => r.new \/ <<r.me, r.other>> \in likes
    /\ r.op = "like" /\ r.heard => <<r.other, r.me>> \in likes
    /\ r.op = "like" /\ r.stage = "decided" /\ r.mutual => <<r.other, r.me>> \in likes
    /\ r.op = "like" /\ r.stage = "decided" /\ r.heard
           => r.mutual \/ {r.me, r.other} \in matches
    /\ r.quiet \cap reveal = {}
    /\ r.op = "matches" /\ r.open => r.me \notin r.quiet
MatchingInv ==
    /\ TypeOK /\ MatchedBothLike /\ BlocksRespected /\ WithdrawnStaysPrivate
    /\ \A t \in Thread : Found(req[t])

\* A like that gets past its first lookup ends up recorded, even when the request
\* fails on a unique index: the rollback takes nothing the member would miss.
LikeIsKept ==
    [][\A t \in Thread :
          req[t].op = "like" /\ req[t].stage # "arrived" /\ req'[t].op = "idle"
              => <<req[t].me, req[t].other>> \in likes']_vars

\* A like that arrives when the other member's is committed, and is not turned
\* away before its lookup, ends in a match: only two likes at a time miss each
\* other, and liking again afterwards makes up for it.
LateLikeMatches ==
    [][\A t \in Thread :
          Serving(t, "like", "decided") /\ req[t].heard /\ req'[t].op = "idle"
              => {req[t].me, req[t].other} \in matches']_vars

\* Likes in both directions make a match, once the requests are over.
MutualLikesMatch ==
    (\A t \in Thread : req[t].op # "like") =>
        \A a, b \in Member :
            <<a, b>> \in likes /\ <<b, a>> \in likes => {a, b} \in matches

\* A member who may see the catalog gets it, whoever has blocked whom.
CatalogAnswers ==
    [][\A t \in Thread : req[t].op = "catalog" /\ req'[t].op = "idle"
                             => req[t].todo = {}]_vars
=============================================================================
