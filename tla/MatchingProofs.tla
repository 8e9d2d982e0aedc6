--------------------------- MODULE MatchingProofs ---------------------------
(***************************************************************************)
(* For any members and any number of request threads: a match always rests *)
(* on a like in each direction, and a block is respected by every request  *)
(* that arrives after it.  Likes and blocks are only ever added, so what a *)
(* request has found in them stays true until it commits.  A contact is    *)
(* read where it is shown, and who withdrew before is not in the list.     *)
(***************************************************************************)
EXTENDS Matching, TLAPS

\* A step of one thread that keeps the three tables.
LEMMA MatchingRequest ==
    ASSUME MatchingInv, NEW t \in Thread, NEW r \in Request,
           req' = [req EXCEPT ![t] = r], Found(r), Respects(r), Discreet(r),
           UNCHANGED <<settings, tables>>
    PROVE  MatchingInv'
<1>1. TypeOK'
  BY DEF MatchingInv, TypeOK, settings, tables
<1>2. MatchedBothLike'
  BY DEF MatchingInv, MatchedBothLike, tables
<1>3. \A s \in Thread : req'[s] = req[s] \/ req'[s] = r
  BY DEF MatchingInv, TypeOK
<1>5. WithdrawnStaysPrivate'
  BY <1>3 DEF MatchingInv, WithdrawnStaysPrivate, Discreet
<1>4. BlocksRespected'
  BY <1>3 DEF MatchingInv, BlocksRespected, Respects, BlockedBefore
<1>6. \A s \in Thread : Found(req[s])'
  <2> SUFFICES ASSUME NEW s \in Thread PROVE Found(req[s])'
    OBVIOUS
  <2>1. likes' = likes /\ blocks' = blocks /\ matches' = matches /\ reveal' = reveal
    BY DEF tables, settings
  <2>2. CASE req'[s] = req[s]
    BY <2>1, <2>2 DEF MatchingInv, Found
  <2>3. CASE req'[s] = r
    <3>1. Found(r)'
      BY <2>1 DEF Found
    <3> QED
      BY <2>3, <3>1 DEF Found
  <2> QED
    BY <1>3, <2>2, <2>3
<1> QED
  BY <1>1, <1>2, <1>4, <1>5, <1>6 DEF MatchingInv

LEMMA MatchingIdle ==
    Idle \in Request /\ Found(Idle) /\ Respects(Idle) /\ Discreet(Idle)
BY MatchingAssumption DEF Idle, Request, Op, Found, Respects, Discreet

LEMMA MatchingDone ==
    ASSUME MatchingInv, NEW t \in Thread, Done(t), UNCHANGED <<settings, tables>>
    PROVE  MatchingInv'
BY MatchingIdle, MatchingRequest DEF Done, Become

\* A request that arrives has found nothing yet.
LEMMA MatchingArrives ==
    ASSUME MatchingInv, NEW t \in Thread, NEW op \in Op \ {"idle"},
           NEW a \in Member, NEW b \in Member, NEW rows \in SUBSET Member,
           Become(t, Arrived(op, a, b, rows)), UNCHANGED <<settings, tables>>
    PROVE  MatchingInv'
<1> DEFINE r == Arrived(op, a, b, rows)
<1>1. r \in Request
  BY MatchingAssumption DEF Arrived, Request, Op, MatchingInv, TypeOK
<1>2. Found(r) /\ Respects(r) /\ Discreet(r)
  BY DEF Arrived, Found, Respects, Discreet, BlockedBefore
<1> QED
  BY <1>1, <1>2, MatchingRequest DEF Become

\* The steps of like(): they keep the invariant, the commit included.
LEMMA MatchingLike ==
    ASSUME MatchingInv, NEW t \in Thread, Like(t)
    PROVE  MatchingInv'
<1> DEFINE r == req[t]
<1>r. r \in Request /\ Found(r) /\ Respects(r) /\ Discreet(r)
  BY DEF MatchingInv, TypeOK, BlocksRespected, WithdrawnStaysPrivate
<1>1. ASSUME NEW a \in Member, NEW b \in Member, BeginLike(t, a, b) PROVE MatchingInv'
  BY <1>1, MatchingArrives DEF BeginLike, Op
<1>2. CASE LookLike(t)
  <2> DEFINE s == [r EXCEPT !.stage = "looked", !.new = <<r.me, r.other>> \notin likes]
  <2>1. CASE Blocked(r.me, r.other)
    BY <1>2, <2>1, MatchingDone DEF LookLike
  <2>2. CASE ~Blocked(r.me, r.other)
    <3>1. s \in Request
      BY <1>r DEF Request
    <3>2. Found(s) /\ Respects(s) /\ Discreet(s)
      BY <1>2, <1>r, <2>2
         DEF LookLike, Serving, Found, Respects, Discreet, BlockedBefore, Blocked, Request
    <3> QED
      BY <1>2, <2>2, <3>1, <3>2, MatchingRequest DEF LookLike, Become
  <2> QED
    BY <2>1, <2>2
<1>3. CASE InsertLike(t)
  <2> DEFINE s == [r EXCEPT !.stage = "inserted"]
  <2>1. CASE r.new /\ <<r.me, r.other>> \in likes
    BY <1>3, <2>1, MatchingDone DEF InsertLike
  <2>2. CASE ~(r.new /\ <<r.me, r.other>> \in likes)
    <3>1. s \in Request
      BY <1>r DEF Request
    <3>2. Found(s) /\ Respects(s) /\ Discreet(s)
      BY <1>3, <1>r DEF InsertLike, Serving, Found, Respects, Discreet, BlockedBefore, Request
    <3> QED
      BY <1>3, <2>2, <3>1, <3>2, MatchingRequest DEF InsertLike, Become
  <2> QED
    BY <2>1, <2>2
<1>4. CASE LookMutual(t)
  <2> DEFINE s == [r EXCEPT !.stage = "decided",
                            !.mutual = /\ <<r.other, r.me>> \in likes
                                       /\ {r.me, r.other} \notin matches]
  <2>1. s \in Request
    BY <1>r DEF Request
  <2>2. Found(s) /\ Respects(s) /\ Discreet(s)
    BY <1>4, <1>r DEF LookMutual, Serving, Found, Respects, Discreet, BlockedBefore, Request
  <2> QED
    BY <1>4, <2>1, <2>2, MatchingRequest DEF LookMutual, Become
<1>5. CASE CommitLike(t)
  <2>1. /\ r.op = "like" /\ r.stage = "decided"
        /\ r.me \in Member /\ r.other \in Member
        /\ likes' = IF r.new THEN likes \cup {<<r.me, r.other>>} ELSE likes
        /\ matches' = IF r.mutual THEN matches \cup {{r.me, r.other}} ELSE matches
        /\ req' = [req EXCEPT ![t] = Idle]
        /\ UNCHANGED <<approved, hidden, reveal, blocks>>
    BY <1>5, <1>r DEF CommitLike, Serving, Found, Done, Become, settings
  <2>2. TypeOK'
    BY <2>1, MatchingIdle DEF MatchingInv, TypeOK
  <2>3. likes \subseteq likes' /\ <<r.me, r.other>> \in likes'
    BY <2>1, <1>r DEF Found
  <2>4. r.mutual => <<r.other, r.me>> \in likes'
    BY <2>1, <2>3, <1>r DEF Found
  <2>5. MatchedBothLike'
    <3> SUFFICES ASSUME NEW a \in Member, NEW b \in Member, {a, b} \in matches'
                 PROVE  <<a, b>> \in likes' /\ <<b, a>> \in likes'
      BY DEF MatchedBothLike
    <3>1. CASE {a, b} \in matches
      BY <3>1, <2>3 DEF MatchingInv, MatchedBothLike
    <3>2. CASE r.mutual /\ {a, b} = {r.me, r.other}
      <4>1. (a = r.me /\ b = r.other) \/ (a = r.other /\ b = r.me)
        BY <3>2
      <4> QED
        BY <4>1, <3>2, <2>3, <2>4
    <3> QED
      BY <3>1, <3>2, <2>1
  <2>6. \A s \in Thread : req'[s] = req[s] \/ req'[s] = Idle
    BY <2>1 DEF MatchingInv, TypeOK
  <2>7. BlocksRespected'
    BY <2>6, MatchingIdle DEF MatchingInv, BlocksRespected, Respects, BlockedBefore
  <2>9. \A s \in Thread : Found(req[s])'
    <3>1. Found(Idle)'
      BY DEF Found, Idle
    <3>2. matches \subseteq matches' /\ reveal' = reveal /\ blocks' = blocks
      BY <2>1
    <3> QED
      BY <2>3, <2>6, <3>1, <3>2 DEF MatchingInv, Found
  <2>8. WithdrawnStaysPrivate'
    BY <2>6, MatchingIdle DEF MatchingInv, WithdrawnStaysPrivate, Discreet
  <2> QED
    BY <2>2, <2>5, <2>7, <2>8, <2>9 DEF MatchingInv
<1>6. CASE LikeConflicts(t)
  BY <1>6, MatchingDone DEF LikeConflicts, Fail
<1> QED
  BY <1>1, <1>2, <1>3, <1>4, <1>5, <1>6 DEF Like

\* The steps of block(): the table of blocks only grows.
LEMMA MatchingBlock ==
    ASSUME MatchingInv, NEW t \in Thread, Block(t)
    PROVE  MatchingInv'
<1> DEFINE r == req[t]
<1>r. r \in Request /\ Found(r) /\ Respects(r) /\ Discreet(r)
  BY DEF MatchingInv, TypeOK, BlocksRespected, WithdrawnStaysPrivate
<1>1. ASSUME NEW a \in Member, NEW b \in Member, BeginBlock(t, a, b) PROVE MatchingInv'
  BY <1>1, MatchingArrives DEF BeginBlock, Op
<1>2. CASE LookBlock(t)
  <2> DEFINE s == [r EXCEPT !.stage = "decided", !.new = ~Blocked(r.me, r.other)]
  <2>1. CASE TwoBlocks(r.me, r.other)
    BY <1>2, <2>1, MatchingDone DEF LookBlock
  <2>2. CASE ~TwoBlocks(r.me, r.other)
    <3>1. s \in Request
      BY <1>r DEF Request, Blocked
    <3>2. Found(s) /\ Discreet(s)
      BY <1>2, <1>r DEF LookBlock, Serving, Found, Discreet, Request
    <3>3. Respects(s)
      <4>1. BlockedBefore(r, r.other) => Blocked(r.me, r.other)
        BY <1>r DEF Found, BlockedBefore, Blocked
      <4>2. r.op = "block"
        BY <1>2 DEF LookBlock, Serving
      <4> DEFINE fresh == ~Blocked(r.me, r.other)
      <4> HIDE DEF fresh
      <4>3. /\ s.op = r.op /\ s.new = fresh /\ s.shown = r.shown
            /\ s.me = r.me /\ s.other = r.other /\ s.before = r.before
        BY <1>r DEF Request, fresh
      <4> QED
        BY <4>1, <4>2, <4>3, <1>r DEF Respects, BlockedBefore, fresh
    <3> QED
      BY <1>2, <2>2, <3>1, <3>2, <3>3, MatchingRequest DEF LookBlock, Become
  <2> QED
    BY <2>1, <2>2
<1>3. CASE CommitBlock(t)
  <2>1. /\ r.me \in Member /\ r.other \in Member
        /\ blocks' = IF r.new THEN blocks \cup {<<r.me, r.other>>} ELSE blocks
        /\ req' = [req EXCEPT ![t] = Idle]
        /\ UNCHANGED <<approved, hidden, reveal, likes, matches>>
    BY <1>3, <1>r DEF CommitBlock, Serving, Found, Done, Become, settings
  <2>2. TypeOK'
    BY <2>1, MatchingIdle DEF MatchingInv, TypeOK
  <2>3. MatchedBothLike'
    BY <2>1 DEF MatchingInv, MatchedBothLike
  <2>4. blocks \subseteq blocks'
    BY <2>1
  <2>5. \A s \in Thread : req'[s] = req[s] \/ req'[s] = Idle
    BY <2>1 DEF MatchingInv, TypeOK
  <2>6. BlocksRespected'
    BY <2>5, MatchingIdle DEF MatchingInv, BlocksRespected, Respects, BlockedBefore
  <2>8. \A s \in Thread : Found(req[s])'
    <3>1. Found(Idle)'
      BY DEF Found, Idle
    <3>2. likes' = likes /\ matches' = matches /\ reveal' = reveal
      BY <2>1
    <3> QED
      BY <2>4, <2>5, <3>1, <3>2 DEF MatchingInv, Found
  <2>7. WithdrawnStaysPrivate'
    BY <2>5, MatchingIdle DEF MatchingInv, WithdrawnStaysPrivate, Discreet
  <2> QED
    BY <2>2, <2>3, <2>6, <2>7, <2>8 DEF MatchingInv
<1> QED
  BY <1>1, <1>2, <1>3 DEF Block

\* The steps of catalog() and matches(): a row is shown only if no block is found.
LEMMA MatchingView ==
    ASSUME MatchingInv, NEW t \in Thread, View(t)
    PROVE  MatchingInv'
<1> DEFINE r == req[t]
<1>r. r \in Request /\ Found(r) /\ Respects(r) /\ Discreet(r)
  BY DEF MatchingInv, TypeOK, BlocksRespected, WithdrawnStaysPrivate
<1>1. ASSUME NEW u \in Member, BeginCatalog(t, u) PROVE MatchingInv'
  <2>1. (approved \ hidden) \ {u} \in SUBSET Member
    BY DEF MatchingInv, TypeOK
  <2> QED
    BY <1>1, <2>1, MatchingArrives DEF BeginCatalog, Op
<1>2. ASSUME NEW u \in Member, BeginMatches(t, u) PROVE MatchingInv'
  <2> DEFINE rows == {v \in Member \ {u} : {u, v} \in matches}
             a == Arrived("matches", u, u, rows)
             s == [a EXCEPT !.open = (u \in reveal), !.quiet = Member \ reveal]
  <2>1. rows \in SUBSET Member
    OBVIOUS
  <2> HIDE DEF rows
  <2>2. s \in Request
    <3>1. a \in Request
      BY <2>1, MatchingAssumption DEF Arrived, Request, Op, MatchingInv, TypeOK
    <3> DEFINE o == u \in reveal
    <3>2. o \in BOOLEAN
      OBVIOUS
    <3> HIDE DEF a, o
    <3>3. [a EXCEPT !.open = o, !.quiet = Member \ reveal] \in Request
      BY <3>1, <3>2 DEF Request
    <3> QED
      BY <3>3 DEF o
  <2>3. Found(s) /\ Respects(s) /\ Discreet(s)
    BY DEF Arrived, Found, Respects, Discreet
  <2>4. req' = [req EXCEPT ![t] = s] /\ UNCHANGED <<settings, tables>>
    BY <1>2 DEF BeginMatches, Become, rows
  <2> QED
    BY <2>2, <2>3, <2>4, MatchingRequest
<1>3. ASSUME NEW v \in Member, ShowRow(t, v) PROVE MatchingInv'
  <2> DEFINE skipped == [r EXCEPT !.todo = @ \ {v}]
             listed == [r EXCEPT !.todo = @ \ {v}, !.shown = @ \cup {v},
                                 !.contacts = IF Contact(r, v) THEN @ \cup {v} ELSE @]
  <2>1. CASE Blocked(r.me, v)
    <3>1. skipped \in Request
      BY <1>r DEF Request
    <3>2. Found(skipped) /\ Respects(skipped) /\ Discreet(skipped)
      BY <1>r DEF Found, Respects, Discreet, BlockedBefore, Request
    <3> QED
      BY <1>3, <2>1, <3>1, <3>2, MatchingRequest DEF ShowRow, Become
  <2>2. CASE ~Blocked(r.me, v)
    <3>1. listed \in Request
      BY <1>r DEF Request
    <3>2. Found(listed) /\ Respects(listed)
      BY <1>3, <1>r, <2>2 DEF ShowRow, Found, Respects, BlockedBefore, Blocked, Request
    <3>3. Discreet(listed)
      <4>1. Contact(r, v) => r.me \notin r.quiet /\ v \notin r.quiet
        BY <1>r DEF Contact, Found
      <4> QED
        BY <1>r, <4>1 DEF Discreet, Request
    <3> QED
      BY <1>3, <2>2, <3>1, <3>2, <3>3, MatchingRequest DEF ShowRow, Become
  <2> QED
    BY <2>1, <2>2
<1>4. ASSUME NEW v \in Member, RowFails(t, v) PROVE MatchingInv'
  BY <1>4, MatchingDone DEF RowFails, Fail
<1>5. CASE Answer(t)
  BY <1>5, MatchingDone DEF Answer
<1> QED
  BY <1>1, <1>2, <1>3, <1>4, <1>5 DEF View

\* The other handlers touch only the settings; who reveals its contact again is
\* nowhere quiet any more.
LEMMA MatchingAccount ==
    ASSUME MatchingInv, NEW u \in Member, Account(u)
    PROVE  MatchingInv'
<1>1. CASE SetHidden(u) \/ Moderate(u) \/ DeleteAccount(u)
  <2>1. UNCHANGED <<likes, matches, blocks, req>> /\ reveal' \subseteq reveal
    BY <1>1 DEF SetHidden, Moderate, DeleteAccount, tables
  <2>2. TypeOK'
    BY <1>1, <2>1 DEF MatchingInv, TypeOK, SetHidden, Moderate, DeleteAccount
  <2>3. MatchedBothLike' /\ BlocksRespected' /\ WithdrawnStaysPrivate'
    BY <2>1 DEF MatchingInv, MatchedBothLike, BlocksRespected, Respects, BlockedBefore,
                WithdrawnStaysPrivate, Discreet
  <2>4. \A s \in Thread : Found(req[s])'
    BY <2>1 DEF MatchingInv, Found
  <2> QED
    BY <2>2, <2>3, <2>4 DEF MatchingInv
<1>2. CASE SetReveal(u)
  <2>1. UNCHANGED <<approved, hidden, likes, matches, blocks>> /\ reveal' \subseteq reveal \cup {u}
    BY <1>2 DEF SetReveal, tables
  <2>2. ASSUME NEW s \in Thread
        PROVE  /\ req'[s] \in Request
               /\ \/ req'[s] = req[s] /\ u \notin reveal'
                  \/ req'[s] = [req[s] EXCEPT !.quiet = @ \ {u}]
    <3>1. req[s] \in Request
      BY DEF MatchingInv, TypeOK
    <3>2. [req[s] EXCEPT !.quiet = @ \ {u}] \in Request
      BY <3>1 DEF Request
    <3>3. \/ req' = [x \in Thread |-> [req[x] EXCEPT !.quiet = @ \ {u}]]
          \/ reveal' = reveal \ {u} /\ req' = req
      BY <1>2 DEF SetReveal
    <3>4. CASE req' = [x \in Thread |-> [req[x] EXCEPT !.quiet = @ \ {u}]]
      <4>1. req'[s] = [req[s] EXCEPT !.quiet = @ \ {u}]
        BY <3>4
      <4> QED
        BY <3>2, <4>1
    <3> QED
      BY <3>1, <3>3, <3>4
  <2>3. TypeOK'
    <3>1. req' \in [Thread -> Request] /\ reveal' \subseteq Member
      BY <1>2, <2>2 DEF SetReveal, MatchingInv, TypeOK
    <3> QED
      BY <2>1, <3>1 DEF MatchingInv, TypeOK
  <2>4. ASSUME NEW s \in Thread
        PROVE  Respects(req'[s]) /\ Discreet(req'[s]) /\ Found(req[s])'
    <3>1. req[s] \in Request /\ Respects(req[s]) /\ Discreet(req[s]) /\ Found(req[s])
      BY DEF MatchingInv, TypeOK, BlocksRespected, WithdrawnStaysPrivate
    <3>2. CASE req'[s] = req[s] /\ u \notin reveal'
      BY <2>1, <3>1, <3>2 DEF Found
    <3>3. CASE req'[s] = [req[s] EXCEPT !.quiet = @ \ {u}]
      <4>1. /\ req'[s].quiet = req[s].quiet \ {u} /\ req'[s].contacts = req[s].contacts
            /\ req'[s].me = req[s].me /\ req'[s].other = req[s].other
            /\ req'[s].op = req[s].op /\ req'[s].stage = req[s].stage
            /\ req'[s].new = req[s].new /\ req'[s].mutual = req[s].mutual
            /\ req'[s].open = req[s].open /\ req'[s].before = req[s].before
            /\ req'[s].shown = req[s].shown /\ req'[s].heard = req[s].heard
        BY <3>1, <3>3 DEF Request
      <4> QED
        BY <2>1, <3>1, <4>1 DEF Respects, Discreet, Found, BlockedBefore
    <3> QED
      BY <2>2, <3>2, <3>3
  <2>5. MatchedBothLike'
    BY <2>1 DEF MatchingInv, MatchedBothLike
  <2>6. BlocksRespected' /\ WithdrawnStaysPrivate' /\ \A s \in Thread : Found(req[s])'
    BY <2>4 DEF BlocksRespected, WithdrawnStaysPrivate, Respects, Discreet, BlockedBefore
  <2> QED
    BY <2>3, <2>5, <2>6 DEF MatchingInv
<1> QED
  BY <1>1, <1>2 DEF Account

LEMMA MatchingInductive ==
    /\ Init => MatchingInv
    /\ MatchingInv /\ [Next]_vars => MatchingInv'
<1>1. ASSUME Init PROVE MatchingInv
  BY <1>1, MatchingIdle
     DEF Init, MatchingInv, TypeOK, MatchedBothLike, BlocksRespected, WithdrawnStaysPrivate
<1>2. ASSUME MatchingInv, UNCHANGED vars PROVE MatchingInv'
  BY <1>2 DEF vars, MatchingInv, TypeOK, MatchedBothLike, BlocksRespected, Respects,
              BlockedBefore, WithdrawnStaysPrivate, Discreet, Found
<1>3. ASSUME MatchingInv, Next PROVE MatchingInv'
  BY <1>3, MatchingLike, MatchingBlock, MatchingView, MatchingAccount DEF Next
<1> QED
  BY <1>1, <1>2, <1>3

\* How a like ends that went past its lookup: refused by the index, because its row
\* is there by now; committed; or refused at the commit, because its match is there.
LEMMA LikeEnds ==
    ASSUME MatchingInv, Next, NEW t \in Thread,
           req[t].op = "like", req[t].stage # "arrived", req'[t].op = "idle"
    PROVE  \/ /\ Serving(t, "like", "looked")
              /\ <<req[t].me, req[t].other>> \in likes /\ likes' = likes
           \/ CommitLike(t)
           \/ LikeConflicts(t)
<1>0. /\ req \in [Thread -> Request] /\ Found(req[t])
      /\ req[t].op \notin {"idle", "block", "catalog", "matches"}
  BY DEF MatchingInv, TypeOK
<1>1. ASSUME NEW b \in Thread \ {t}, NEW r, Become(b, r) PROVE FALSE
  BY <1>0, <1>1 DEF Become
<1>2. CASE Like(t)
  <2>1. ~LookLike(t)
    BY DEF LookLike, Serving
  <2>2. CASE InsertLike(t)
    <3>1. [req[t] EXCEPT !.stage = "inserted"].op = "like"
      BY <1>0 DEF Request
    <3>2. ~Become(t, [req[t] EXCEPT !.stage = "inserted"])
      BY <1>0, <3>1 DEF Become
    <3> QED
      BY <2>2, <3>2 DEF InsertLike, tables
  <2>3. ~LookMutual(t)
    <3> DEFINE both == <<req[t].other, req[t].me>> \in likes
                       /\ {req[t].me, req[t].other} \notin matches
               next == [req[t] EXCEPT !.stage = "decided", !.mutual = both]
    <3>1. next.op = "like"
      <4> HIDE DEF both
      <4> QED
        BY <1>0 DEF Request
    <3> HIDE DEF next
    <3>2. ~Become(t, next)
      BY <1>0, <3>1 DEF Become
    <3> QED
      BY <3>2 DEF LookMutual, next
  <2> QED
    BY <1>0, <1>2, <2>1, <2>2, <2>3 DEF Like, BeginLike
<1>3. ~Block(t) /\ ~View(t)
  BY <1>0 DEF Block, BeginBlock, LookBlock, CommitBlock, View, BeginCatalog,
              BeginMatches, ShowRow, RowFails, Answer, Serving
<1>4. ASSUME NEW b \in Thread \ {t}, Like(b) \/ Block(b) \/ View(b) PROVE FALSE
  BY <1>1, <1>4
     DEF Like, BeginLike, LookLike, InsertLike, LookMutual, CommitLike, LikeConflicts,
         Block, BeginBlock, LookBlock, CommitBlock, View, BeginCatalog, BeginMatches,
         ShowRow, RowFails, Answer, Fail, Done
<1>5. ASSUME NEW u \in Member, Account(u) PROVE FALSE
  BY <1>0, <1>5 DEF Account, SetHidden, SetReveal, Moderate, DeleteAccount, Request
<1> QED
  BY <1>2, <1>3, <1>4, <1>5 DEF Next

-----------------------------------------------------------------------------
\* Two members are matched only if each has liked the other.
THEOREM MatchesRestOnLikes == Spec => []MatchedBothLike
<1>1. MatchingInv => MatchedBothLike
  BY DEF MatchingInv
<1> QED
  BY <1>1, MatchingInductive, PTL DEF Spec

\* No request that arrives after a block shows the other member or likes it.
THEOREM BlocksHold == Spec => []BlocksRespected
<1>1. MatchingInv => BlocksRespected
  BY DEF MatchingInv
<1> QED
  BY <1>1, MatchingInductive, PTL DEF Spec

\* A contact withdrawn before a list of matches is asked for is not in the list.
THEOREM WithdrawnContactsHold == Spec => []WithdrawnStaysPrivate
<1>1. MatchingInv => WithdrawnStaysPrivate
  BY DEF MatchingInv
<1> QED
  BY <1>1, MatchingInductive, PTL DEF Spec

\* Every reachable state is well-typed.
THEOREM MatchingTypes == Spec => []TypeOK
<1>1. MatchingInv => TypeOK
  BY DEF MatchingInv
<1> QED
  BY <1>1, MatchingInductive, PTL DEF Spec

\* No request that went past its lookup ends without its like in the table.
THEOREM LikesAreKept == Spec => LikeIsKept
<1>1. MatchingInv /\ [Next]_vars =>
        [\A t \in Thread :
          req[t].op = "like" /\ req[t].stage # "arrived" /\ req'[t].op = "idle"
              => <<req[t].me, req[t].other>> \in likes']_vars
  <2> SUFFICES ASSUME MatchingInv, Next, NEW t \in Thread,
                      req[t].op = "like", req[t].stage # "arrived", req'[t].op = "idle"
               PROVE  <<req[t].me, req[t].other>> \in likes'
    BY DEF vars
  <2>0. Found(req[t])
    BY DEF MatchingInv
  <2>1. CASE CommitLike(t)
    BY <2>0, <2>1 DEF CommitLike, Serving, Found
  <2>2. CASE LikeConflicts(t)
    <3>1. {req[t].me, req[t].other} \in matches /\ likes' = likes
      BY <2>2 DEF LikeConflicts, Fail, tables
    <3> QED
      BY <2>0, <3>1 DEF MatchingInv, MatchedBothLike, Found
  <2> QED
    BY <2>1, <2>2, LikeEnds
<1> QED
  BY <1>1, MatchingInductive, PTL DEF Spec, LikeIsKept

\* A like that comes after the other member's makes the match, or finds it there.
THEOREM LateLikesMatch == Spec => LateLikeMatches
<1>1. MatchingInv /\ [Next]_vars =>
        [\A t \in Thread :
          Serving(t, "like", "decided") /\ req[t].heard /\ req'[t].op = "idle"
              => {req[t].me, req[t].other} \in matches']_vars
  <2> SUFFICES ASSUME MatchingInv, Next, NEW t \in Thread,
                      Serving(t, "like", "decided"), req[t].heard, req'[t].op = "idle"
               PROVE  {req[t].me, req[t].other} \in matches'
    BY DEF vars
  <2>0. req[t].mutual \/ {req[t].me, req[t].other} \in matches
    BY DEF MatchingInv, Found, Serving
  <2>1. CASE CommitLike(t)
    BY <2>0, <2>1 DEF CommitLike
  <2>2. CASE LikeConflicts(t)
    BY <2>2 DEF LikeConflicts, Fail, tables
  <2> QED
    BY <2>1, <2>2, LikeEnds DEF Serving
<1> QED
  BY <1>1, MatchingInductive, PTL DEF Spec, LateLikeMatches
=============================================================================
