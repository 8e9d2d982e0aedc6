----------------------------- MODULE RateLimit -----------------------------
(***************************************************************************)
(* limited(): one counter in Redis per key and window, shared by every     *)
(* process.  A call reads the clock, then sends INCR under the name of the *)
(* window it read, and, if it is the first, EXPIRE.  The model follows one *)
(* key (auth:<id>, like:<id>, ...); the keys share nothing.                *)
(***************************************************************************)
EXTENDS Naturals

CONSTANTS
    Caller,    \* request threads, of every API process
    Limit,     \* calls admitted in a window
    Window,    \* its length in seconds
    Grace,     \* what the time to live adds to it: 2
    Horizon,   \* bound: the clock stops here
    MaxCount   \* bound: no INCR of a counter that has reached it

ASSUME RateLimitAssumption ==
    /\ Limit \in Nat \ {0} /\ Window \in Nat \ {0} /\ Grace \in Nat
    /\ Horizon \in Nat /\ MaxCount \in Nat

VARIABLES
    now,       \* the clock, in seconds
    counter,   \* "rl:<key>:<window>"; 0: no such key
    lapse,     \* when Redis drops the key; 0: it has no time to live
    call,      \* what each thread is doing
    admitted,  \* calls let through in each window
    counted,   \* INCRs run for calls of each window
    refused    \* windows in which a call was told 429

vars == <<now, counter, lapse, call, admitted, counted, refused>>
history == <<admitted, counted, refused>>

Time == 0 .. Horizon
Slot == 0 .. Horizon \div Window

\* "read": the clock is read.  "first": the INCR has answered 1.
Call == [stage : {"idle", "read", "first"}, at : Time]
Idle == [stage |-> "idle", at |-> 0]

Become(c, stage, at) == call' = [call EXCEPT ![c] = [stage |-> stage, at |-> at]]
Done(c) == call' = [call EXCEPT ![c] = Idle]

SlotOf(at) == at \div Window
\* Mutant of Key: the name of the key leaves the window out.
OneKey(at) == 0
Key(at) == at \div Window

\* limited() answers n > Limit to a call of window s.
Answer(s, n) ==
    IF n <= Limit
    THEN admitted' = [admitted EXCEPT ![s] = @ + 1] /\ UNCHANGED refused
    ELSE refused' = refused \cup {s} /\ UNCHANGED admitted

-----------------------------------------------------------------------------
Read(c) ==
    /\ call[c].stage = "idle"
    /\ Become(c, "read", now)
    /\ UNCHANGED <<now, counter, lapse, history>>

\* Redis runs the INCR: the call learns the count, or its answer is lost.
Incr(c) ==
    LET at == call[c].at
        k == Key(at)
        n == counter[k] + 1 IN
    /\ call[c].stage = "read" /\ counter[k] < MaxCount
    /\ counter' = [counter EXCEPT ![k] = n]
    /\ counted' = [counted EXCEPT ![SlotOf(at)] = @ + 1]
    /\ \/ n = 1 /\ Become(c, "first", at) /\ UNCHANGED <<admitted, refused>>
       \/ n # 1 /\ Done(c) /\ Answer(SlotOf(at), n)
       \/ Done(c) /\ UNCHANGED <<admitted, refused>>
    /\ UNCHANGED <<now, lapse>>

\* Mutant of Expire: the key lives for the window and no longer.
ExpireEarly(c) ==
    LET k == Key(call[c].at) IN
    /\ call[c].stage = "first"
    /\ lapse' = IF counter[k] = 0 THEN lapse ELSE [lapse EXCEPT ![k] = now + Window]
    /\ Done(c)
    /\ Answer(SlotOf(call[c].at), 1) \/ UNCHANGED <<admitted, refused>>
    /\ UNCHANGED <<now, counter, counted>>
\* Redis runs the EXPIRE, which does nothing to a key that is gone.
Expire(c) ==
    LET k == Key(call[c].at) IN
    /\ call[c].stage = "first"
    /\ lapse' = IF counter[k] = 0 THEN lapse ELSE [lapse EXCEPT ![k] = now + Window + Grace]
    /\ Done(c)
    /\ Answer(SlotOf(call[c].at), 1) \/ UNCHANGED <<admitted, refused>>
    /\ UNCHANGED <<now, counter, counted>>

\* A command raises before Redis has run it: the request is answered with a 500.
Raise(c) ==
    /\ call[c].stage # "idle"
    /\ Done(c)
    /\ UNCHANGED <<now, counter, lapse, history>>

\* A second passes, whatever the calls are waiting for, and Redis drops the keys whose time has come.
Tick ==
    LET gone == {s \in Slot : lapse[s] # 0 /\ lapse[s] <= now + 1} IN
    /\ now < Horizon
    /\ now' = now + 1
    /\ counter' = [s \in Slot |-> IF s \in gone THEN 0 ELSE counter[s]]
    /\ lapse' = [s \in Slot |-> IF s \in gone THEN 0 ELSE lapse[s]]
    /\ UNCHANGED <<call, history>>

Init ==
    /\ now = 0
    /\ counter = [s \in Slot |-> 0] /\ lapse = [s \in Slot |-> 0]
    /\ call = [c \in Caller |-> Idle]
    /\ admitted = [s \in Slot |-> 0] /\ counted = [s \in Slot |-> 0] /\ refused = {}

Next ==
    \/ Tick
    \/ \E c \in Caller : Read(c) \/ Incr(c) \/ Expire(c) \/ Raise(c)

Spec == Init /\ [][Next]_vars

-----------------------------------------------------------------------------
\* Every variable keeps its type, and only keys that exist have a time to live.
TypeOK ==
    /\ now \in Time /\ counter \in [Slot -> Nat] /\ lapse \in [Slot -> Nat]
    /\ call \in [Caller -> Call]
    /\ admitted \in [Slot -> Nat] /\ counted \in [Slot -> Nat] /\ refused \subseteq Slot
    /\ \A s \in Slot : lapse[s] # 0 => counter[s] # 0

\* Until Grace seconds after its end, a window has admitted no more than Limit calls,
\* however the calls of all threads interleave and whichever of them fail or come
\* after the window has ended (SECURITY.md: rate limiting is distributed;
\* test_staff_security.py: the sixth attempt is told 429).  Nothing is said of what
\* comes later: the counter may be gone by then, and a call that read the clock in the
\* window and sends its INCR only now counts from 1 again.
Open(s) == now < s * Window + Window + Grace
WindowLimit == \A s \in Slot : Open(s) => admitted[s] <= Limit

\* A call is refused only if Limit calls of its own window were counted before it:
\* a counter that lost its EXPIRE, and lives for ever, refuses nobody later.
RefusedOnlyOverLimit == \A s \in refused : counted[s] > Limit

\* What the proof rests on.  While a window is open its counter is not dropped, and it
\* counts every call let through and the one that is about to be.
First(s) == {c \in Caller : call[c].stage = "first" /\ SlotOf(call[c].at) = s}
Pending(s) == IF First(s) = {} THEN 0 ELSE 1
Windows ==
    /\ \A c \in Caller : call[c].at <= now
    /\ \A s \in Slot :
          /\ lapse[s] # 0 => lapse[s] >= s * Window + Window + Grace
          /\ Open(s) => /\ \A c, d \in First(s) : c = d
                        /\ admitted[s] + Pending(s) <= Limit
                        /\ admitted[s] + Pending(s) <= counter[s]
Counts == RefusedOnlyOverLimit /\ \A s \in Slot : counter[s] <= counted[s]
RateLimitInv == TypeOK /\ Counts /\ Windows
=============================================================================
