-------------------------- MODULE RateLimitProofs --------------------------
(***************************************************************************)
(* For any threads, limit and window: until its counter may be dropped, no *)
(* window has admitted more calls than its limit; and a call is refused    *)
(* only when its own window is used up.                                    *)
(***************************************************************************)
EXTENDS RateLimit, TLAPS

\* A call that reads the clock at a second belongs to a window that has begun and
\* has not ended.
LEMMA WindowOf ==
    ASSUME NEW at \in Time
    PROVE  /\ SlotOf(at) \in Slot /\ Key(at) = SlotOf(at)
           /\ SlotOf(at) * Window <= at /\ at < SlotOf(at) * Window + Window
<1> USE RateLimitAssumption DEF Time, SlotOf, Key, Slot
<1>1. at \div Window \in Nat /\ Horizon \div Window \in Nat
  OBVIOUS
<1>2. (at \div Window) * Window <= at /\ at < (at \div Window) * Window + Window
  OBVIOUS
<1>3. Horizon < (Horizon \div Window) * Window + Window
  OBVIOUS
<1>4. at \div Window <= Horizon \div Window
  OBVIOUS
<1> QED
  BY <1>1, <1>2, <1>4

\* A window begins at a second.
LEMMA SlotStart == ASSUME NEW s \in Slot PROVE s * Window \in Nat
<1>1. Horizon \div Window \in Nat
  BY RateLimitAssumption
<1>2. s \in Nat
  BY <1>1 DEF Slot
<1> QED
  BY <1>2, RateLimitAssumption

\* An answer keeps the types of what it counts.
LEMMA AnswerTyped ==
    ASSUME TypeOK, NEW s \in Slot, NEW n \in Nat, Answer(s, n)
    PROVE  admitted' \in [Slot -> Nat] /\ refused' \subseteq Slot
BY DEF TypeOK, Answer

\* What Incr(c) and Expire(c) do, with the window of the call named once.
LEMMA IncrCases ==
    ASSUME TypeOK, NEW c \in Caller, Incr(c)
    PROVE  \E s \in Slot :
              /\ call[c] \in Call /\ call[c].stage = "read" /\ s = SlotOf(call[c].at)
              /\ s * Window <= call[c].at /\ call[c].at < s * Window + Window
              /\ counter' = [counter EXCEPT ![s] = counter[s] + 1]
              /\ counted' = [counted EXCEPT ![s] = counted[s] + 1]
              /\ \/ /\ counter[s] = 0 /\ Become(c, "first", call[c].at)
                    /\ UNCHANGED <<admitted, refused>>
                 \/ counter[s] + 1 # 1 /\ Done(c) /\ Answer(s, counter[s] + 1)
                 \/ Done(c) /\ UNCHANGED <<admitted, refused>>
              /\ now' = now /\ lapse' = lapse
<1> DEFINE s == SlotOf(call[c].at)
<1>1. call[c] \in Call /\ call[c].at \in Time
  BY DEF TypeOK, Call
<1>2. s \in Slot /\ Key(call[c].at) = s
      /\ s * Window <= call[c].at /\ call[c].at < s * Window + Window
  BY <1>1, WindowOf
<1>3. counter[s] \in Nat
  BY <1>2 DEF TypeOK
<1>4. counter[s] + 1 = 1 <=> counter[s] = 0
  BY <1>3
<1>5. /\ call[c].stage = "read"
      /\ counter' = [counter EXCEPT ![s] = counter[s] + 1]
      /\ counted' = [counted EXCEPT ![s] = counted[s] + 1]
      /\ \/ counter[s] + 1 = 1 /\ Become(c, "first", call[c].at) /\ UNCHANGED <<admitted, refused>>
         \/ counter[s] + 1 # 1 /\ Done(c) /\ Answer(s, counter[s] + 1)
         \/ Done(c) /\ UNCHANGED <<admitted, refused>>
      /\ now' = now /\ lapse' = lapse
  BY <1>2 DEF Incr
<1> HIDE DEF s
<1> QED
  BY <1>1, <1>2, <1>4, <1>5 DEF s

LEMMA ExpireCases ==
    ASSUME TypeOK, NEW c \in Caller, Expire(c)
    PROVE  \E s \in Slot :
              /\ call[c] \in Call /\ call[c].stage = "first" /\ s = SlotOf(call[c].at)
              /\ s * Window <= call[c].at /\ call[c].at < s * Window + Window
              /\ lapse' \in {lapse, [lapse EXCEPT ![s] = now + Window + Grace]}
              /\ Done(c) /\ UNCHANGED <<now, counter, counted, refused>>
              /\ admitted' \in {admitted, [admitted EXCEPT ![s] = admitted[s] + 1]}
<1> DEFINE s == SlotOf(call[c].at)
<1>1. call[c] \in Call /\ call[c].at \in Time
  BY DEF TypeOK, Call
<1>2. s \in Slot /\ Key(call[c].at) = s
      /\ s * Window <= call[c].at /\ call[c].at < s * Window + Window
  BY <1>1, WindowOf
<1>3. 1 <= Limit
  BY RateLimitAssumption
<1> HIDE DEF s
<1> QED
  BY <1>1, <1>2, <1>3 DEF Expire, Answer, s

\* Every variable keeps its type.
LEMMA TypesKept == TypeOK /\ [Next]_vars => TypeOK'
<1> SUFFICES ASSUME TypeOK, [Next]_vars PROVE TypeOK'
  OBVIOUS
<1> USE RateLimitAssumption
<1>1. ASSUME Tick PROVE TypeOK'
  BY <1>1 DEF Tick, history, Time, TypeOK
<1>2. ASSUME NEW c \in Caller, Read(c) PROVE TypeOK'
  BY <1>2 DEF Read, Become, Call, history, TypeOK
<1>3. ASSUME NEW c \in Caller, Incr(c) PROVE TypeOK'
  <2>1. PICK s \in Slot :
              /\ call[c] \in Call
              /\ counter' = [counter EXCEPT ![s] = counter[s] + 1]
              /\ counted' = [counted EXCEPT ![s] = counted[s] + 1]
              /\ \/ Become(c, "first", call[c].at) /\ UNCHANGED <<admitted, refused>>
                 \/ Done(c) /\ Answer(s, counter[s] + 1)
                 \/ Done(c) /\ UNCHANGED <<admitted, refused>>
              /\ now' = now /\ lapse' = lapse
    BY <1>3, IncrCases
  <2>2. counter' \in [Slot -> Nat] /\ counted' \in [Slot -> Nat] /\ counter[s] + 1 \in Nat
    BY <2>1 DEF TypeOK
  <2>3. call' \in [Caller -> Call]
    BY <2>1 DEF TypeOK, Become, Done, Call, Idle, Time
  <2>4. admitted' \in [Slot -> Nat] /\ refused' \subseteq Slot
    BY <2>1, <2>2, AnswerTyped DEF TypeOK
  <2>5. \A r \in Slot : lapse'[r] # 0 => counter'[r] # 0
    BY <2>1, <2>2 DEF TypeOK
  <2> QED
    BY <2>1, <2>2, <2>3, <2>4, <2>5 DEF TypeOK
<1>4. ASSUME NEW c \in Caller, Expire(c) PROVE TypeOK'
  <2>1. call' \in [Caller -> Call]
    BY <1>4, ExpireCases DEF TypeOK, Done, Call, Idle, Time
  <2>2. admitted' \in [Slot -> Nat] /\ refused' \subseteq Slot
    BY <1>4, ExpireCases DEF TypeOK
  <2>3. lapse' \in [Slot -> Nat] /\ now + Window + Grace \in Nat
    BY <1>4, ExpireCases DEF TypeOK, Time
  <2>4. \A r \in Slot : lapse'[r] # 0 => counter'[r] # 0
    BY <1>4 DEF Expire, TypeOK
  <2> QED
    BY <1>4, <2>1, <2>2, <2>3, <2>4, ExpireCases DEF TypeOK
<1>5. ASSUME NEW c \in Caller, Raise(c) PROVE TypeOK'
  BY <1>5 DEF Raise, Done, Call, Idle, Time, history, TypeOK
<1>6. CASE UNCHANGED vars
  BY <1>6 DEF vars, history, TypeOK
<1> QED
  BY <1>1, <1>2, <1>3, <1>4, <1>5, <1>6 DEF Next

-----------------------------------------------------------------------------
\* A counter never shows more than the calls of its window.
LEMMA CountsKept ==
    ASSUME TypeOK, Counts, [Next]_vars
    PROVE  Counts'
<1> USE RateLimitAssumption
<1>1. ASSUME Tick PROVE Counts'
  BY <1>1 DEF Tick, history, TypeOK, Counts, RefusedOnlyOverLimit
<1>2. ASSUME NEW c \in Caller, Read(c) \/ Raise(c) PROVE Counts'
  BY <1>2 DEF Read, Raise, history, Counts, RefusedOnlyOverLimit
<1>3. ASSUME NEW c \in Caller, Incr(c) PROVE Counts'
  <2>1. PICK s \in Slot :
              /\ counter' = [counter EXCEPT ![s] = counter[s] + 1]
              /\ counted' = [counted EXCEPT ![s] = counted[s] + 1]
              /\ UNCHANGED <<admitted, refused>> \/ Answer(s, counter[s] + 1)
    BY <1>3, IncrCases
  <2>2. refused' = refused \/ (refused' = refused \cup {s} /\ counter[s] + 1 > Limit)
    BY <2>1 DEF Answer, TypeOK
  <2> QED
    BY <2>1, <2>2 DEF TypeOK, Counts, RefusedOnlyOverLimit
<1>4. ASSUME NEW c \in Caller, Expire(c) PROVE Counts'
  BY <1>4, ExpireCases DEF Counts, RefusedOnlyOverLimit
<1>5. CASE UNCHANGED vars
  BY <1>5 DEF vars, history, Counts, RefusedOnlyOverLimit
<1> QED
  BY <1>1, <1>2, <1>3, <1>4, <1>5 DEF Next

\* While a window is open, its counter is kept and counts every call let through.
LEMMA WindowsKept ==
    ASSUME TypeOK, Windows, [Next]_vars
    PROVE  Windows'
<1> USE RateLimitAssumption
<1>1. ASSUME Tick PROVE Windows'
  <2>1. /\ now \in Nat /\ now' = now + 1 /\ UNCHANGED <<call, admitted>>
        /\ \A c \in Caller : call[c] \in Call
        /\ \A s \in Slot : First(s)' = First(s) /\ Pending(s)' = Pending(s)
    BY <1>1 DEF Tick, history, TypeOK, Time, First, Pending
  <2>2. \A c \in Caller : call'[c].at <= now'
    BY <2>1 DEF Windows, Call, Time
  <2>4. ASSUME NEW s \in Slot, Open(s)' PROVE counter'[s] = counter[s] /\ Open(s)
    <3>1. s * Window \in Nat /\ now + 1 < s * Window + Window + Grace
      BY <2>1, <2>4, SlotStart DEF Open
    <3>2. ~(lapse[s] # 0 /\ lapse[s] <= now + 1)
      BY <2>1, <3>1 DEF Windows, TypeOK
    <3> QED
      BY <1>1, <2>1, <3>1, <3>2 DEF Tick, Open
  <2>5. \A s \in Slot : lapse'[s] # 0 => lapse'[s] = lapse[s]
    BY <1>1 DEF Tick
  <2> QED
    BY <2>1, <2>2, <2>4, <2>5 DEF Windows
<1>2. ASSUME NEW c \in Caller, Read(c) PROVE Windows'
  <2>1. /\ call' = [call EXCEPT ![c] = [stage |-> "read", at |-> now]]
        /\ call[c].stage = "idle" /\ now \in Nat
        /\ UNCHANGED <<now, counter, lapse, admitted>>
    BY <1>2 DEF Read, Become, history, TypeOK, Time
  <2>2. \A s \in Slot : First(s)' = First(s) /\ Pending(s)' = Pending(s) /\ (Open(s)' <=> Open(s))
    BY <2>1 DEF First, Pending, Open, TypeOK
  <2> QED
    BY <2>1, <2>2 DEF Windows, TypeOK
<1>3. ASSUME NEW c \in Caller, Incr(c) PROVE Windows'
  <2>1. PICK w \in Slot :
              /\ call[c] \in Call /\ call[c].stage = "read" /\ w = SlotOf(call[c].at)
              /\ w * Window <= call[c].at /\ call[c].at < w * Window + Window
              /\ counter' = [counter EXCEPT ![w] = counter[w] + 1]
              /\ \/ /\ counter[w] = 0 /\ Become(c, "first", call[c].at)
                    /\ UNCHANGED <<admitted, refused>>
                 \/ counter[w] + 1 # 1 /\ Done(c) /\ Answer(w, counter[w] + 1)
                 \/ Done(c) /\ UNCHANGED <<admitted, refused>>
              /\ now' = now /\ lapse' = lapse
    BY <1>3, IncrCases
  <2>2. /\ now \in Nat /\ call[c].at \in Nat /\ w * Window \in Nat
        /\ \A s \in Slot : counter[s] \in Nat /\ admitted[s] \in Nat /\ Pending(s) \in {0, 1}
    BY <2>1, SlotStart DEF TypeOK, Call, Time, Pending
  <2>3. Open(w) => admitted[w] + Pending(w) <= counter[w]
    BY <2>1, <2>2 DEF Open, Windows
  <2>4. \A d \in Caller : call'[d].at <= now'
    BY <2>1, <2>2 DEF Windows, TypeOK, Become, Done, Idle
  <2>5. \A s \in Slot : Open(s)' <=> Open(s)
    BY <2>1 DEF Open
  <2>6. CASE counter[w] = 0 /\ Become(c, "first", call[c].at) /\ UNCHANGED admitted
    <3>1. Open(w) => First(w) = {} /\ Pending(w) = 0 /\ admitted[w] = 0
      BY <2>2, <2>3, <2>6 DEF Pending
    <3>2. First(w)' = First(w) \cup {c} /\ \A s \in Slot \ {w} : First(s)' = First(s)
      BY <2>1, <2>6, <3>1 DEF First, Become, TypeOK
    <3>3. Pending(w)' = 1 /\ \A s \in Slot \ {w} : Pending(s)' = Pending(s)
      BY <3>2 DEF Pending
    <3>4. counter'[w] = 1 /\ \A s \in Slot \ {w} : counter'[s] = counter[s]
      BY <2>1, <2>6 DEF TypeOK
    <3> QED
      BY <2>1, <2>2, <2>4, <2>5, <2>6, <3>1, <3>2, <3>3, <3>4 DEF Windows
  <2>7. CASE Done(c)
    <3>1. \A s \in Slot : First(s)' = First(s) /\ Pending(s)' = Pending(s)
      BY <2>1, <2>7 DEF First, Pending, Done, Idle, TypeOK
    <3>2. counter'[w] = counter[w] + 1 /\ \A s \in Slot \ {w} : counter'[s] = counter[s]
      BY <2>1 DEF TypeOK
    <3>3. /\ \A s \in Slot \ {w} : admitted'[s] = admitted[s]
          /\ \/ admitted'[w] = admitted[w]
             \/ admitted'[w] = admitted[w] + 1 /\ counter[w] + 1 <= Limit
      BY <2>1, <2>7 DEF Answer, TypeOK, Become, Done, Idle
    <3> QED
      BY <2>1, <2>2, <2>3, <2>4, <2>5, <3>1, <3>2, <3>3 DEF Windows
  <2> QED
    BY <2>1, <2>6, <2>7
<1>4. ASSUME NEW c \in Caller, Expire(c) PROVE Windows'
  <2>1. PICK w \in Slot :
              /\ call[c] \in Call /\ call[c].stage = "first" /\ w = SlotOf(call[c].at)
              /\ w * Window <= call[c].at
              /\ lapse' \in {lapse, [lapse EXCEPT ![w] = now + Window + Grace]}
              /\ Done(c) /\ UNCHANGED <<now, counter>>
              /\ admitted' \in {admitted, [admitted EXCEPT ![w] = admitted[w] + 1]}
    BY <1>4, ExpireCases
  <2>2. /\ now \in Nat /\ call[c].at \in Nat /\ w * Window \in Nat
        /\ call[c].at <= now
        /\ \A s \in Slot : counter[s] \in Nat /\ admitted[s] \in Nat
    BY <2>1, SlotStart DEF TypeOK, Call, Time, Windows
  <2>3. Open(w) => First(w) = {c}
    BY <2>1 DEF First, Windows
  <2>4. First(w)' = First(w) \ {c} /\ \A s \in Slot \ {w} : First(s)' = First(s)
    BY <2>1, <2>3 DEF First, Done, Idle, TypeOK
  <2>5. /\ Open(w) => First(w)' = {} /\ Pending(w) = 1 /\ Pending(w)' = 0
        /\ \A s \in Slot \ {w} : Pending(s)' = Pending(s)
    BY <2>3, <2>4 DEF Pending
  <2>6. \A d \in Caller : call'[d].at <= now'
    BY <2>1, <2>2 DEF Windows, TypeOK, Done, Idle
  <2>7. \A s \in Slot : Open(s)' <=> Open(s)
    BY <2>1 DEF Open
  <2>8. \A s \in Slot : lapse'[s] # 0 => lapse'[s] >= s * Window + Window + Grace
    BY <2>1, <2>2 DEF Windows, TypeOK
  <2>9. /\ \A s \in Slot \ {w} : admitted'[s] = admitted[s]
        /\ admitted'[w] \in {admitted[w], admitted[w] + 1}
    BY <2>1 DEF TypeOK
  <2> QED
    BY <2>1, <2>2, <2>4, <2>5, <2>6, <2>7, <2>8, <2>9 DEF Windows
<1>5. ASSUME NEW c \in Caller, Raise(c) PROVE Windows'
  <2>1. /\ call' = [call EXCEPT ![c] = Idle] /\ now \in Nat
        /\ UNCHANGED <<now, counter, lapse, admitted>>
    BY <1>5 DEF Raise, Done, history, TypeOK, Time
  <2>2. \A s \in Slot : First(s)' \subseteq First(s) /\ (Open(s)' <=> Open(s))
    BY <2>1 DEF First, Idle, Open, TypeOK
  <2>3. \A s \in Slot : Pending(s)' <= Pending(s) /\ {Pending(s), Pending(s)'} \subseteq {0, 1}
    BY <2>2 DEF Pending
  <2>4. \A d \in Caller : call'[d].at <= now'
    BY <2>1 DEF Windows, TypeOK, Idle
  <2>5. \A s \in Slot : admitted[s] \in Nat /\ counter[s] \in Nat
    BY DEF TypeOK
  <2> QED
    BY <2>1, <2>2, <2>3, <2>4, <2>5 DEF Windows
<1>6. CASE UNCHANGED vars
  BY <1>6 DEF vars, history, Windows, First, Pending, Open
<1> QED
  BY <1>1, <1>2, <1>3, <1>4, <1>5, <1>6 DEF Next

-----------------------------------------------------------------------------
\* A call is refused only when its own window is used up, however long Redis keeps
\* the counters of others.
THEOREM RefusalsAreDue == Spec => []RefusedOnlyOverLimit
<1>1. Init => TypeOK /\ Counts
  BY RateLimitAssumption
     DEF Init, TypeOK, Counts, RefusedOnlyOverLimit, Call, Idle, Time, Slot
<1>2. TypeOK /\ Counts /\ [Next]_vars => (TypeOK /\ Counts)'
  BY TypesKept, CountsKept
<1>3. Counts => RefusedOnlyOverLimit
  BY DEF Counts
<1> QED
  BY <1>1, <1>2, <1>3, PTL DEF Spec

\* Until Grace seconds after the end of a window its counter is there and counts every
\* call let through, and the one that is about to be, however late the calls come.
THEOREM OpenWindowsAreCounted == Spec => []RateLimitInv
<1>1. Init => TypeOK /\ Counts /\ Windows
  BY RateLimitAssumption
     DEF Init, TypeOK, Counts, RefusedOnlyOverLimit, Windows, First, Pending, Call, Idle,
         Time, Slot
<1>2. TypeOK /\ Counts /\ Windows /\ [Next]_vars => (TypeOK /\ Counts /\ Windows)'
  BY TypesKept, CountsKept, WindowsKept
<1>3. TypeOK /\ Counts /\ Windows => RateLimitInv
  BY DEF RateLimitInv
<1> QED
  BY <1>1, <1>2, <1>3, PTL DEF Spec

\* Until then no window has admitted more calls than the limit.
THEOREM WindowLimitHolds == Spec => []WindowLimit
<1>1. RateLimitInv => WindowLimit
  BY RateLimitAssumption DEF RateLimitInv, TypeOK, Windows, WindowLimit, Pending
<1> QED
  BY <1>1, OpenWindowsAreCounted, PTL
=============================================================================
