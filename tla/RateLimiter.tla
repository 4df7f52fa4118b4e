----------------------------- MODULE RateLimiter ----------------------------
(***************************************************************************)
(* The fixed-window rate limiter of one process, translated from           *)
(* app/core/ratelimit.py.  A thread reads the clock first and takes the    *)
(* lock afterwards: when it decides, others may have decided on later      *)
(* times.                                                                  *)
(***************************************************************************)
EXTENDS Naturals, Integers, FiniteSets

CONSTANTS
  Threads,
  Keys,
  MaxRequests,  \* max_requests
  Window,       \* window_seconds
  MaxTime,      \* bound on the clock
  None

Times == 0..MaxTime
Windows == [count : 0..MaxRequests, start : Times]

LimiterAssumption ==
  /\ None \notin Nat \cup Windows
  /\ MaxRequests \in Nat \ {0} /\ Window \in Nat \ {0} /\ MaxTime \in Nat

VARIABLES
  clock,    \* time.monotonic()
  counts,   \* _counts: of each key a count and the start of its window, or None
  read,     \* what each thread has read of the clock, or None
  granted,  \* history variable: granted[k][w] requests in the window from w
  forgot,   \* history variable: the time at which a key's window was last pruned
  late      \* history variable: keys charged at a time before that

vars == <<clock, counts, read, granted, forgot, late>>

NoGrants == [w \in Times |-> 0]

Init ==
  /\ clock = 0
  /\ counts = [k \in Keys |-> None]
  /\ read = [t \in Threads |-> None]
  /\ granted = [k \in Keys |-> NoGrants]
  /\ forgot = [k \in Keys |-> 0]
  /\ late = {}

Tick ==
  /\ clock < MaxTime
  /\ clock' = clock + 1
  /\ UNCHANGED <<counts, read, granted, forgot, late>>

ReadClock(t) ==
  /\ read[t] = None
  /\ read' = [read EXCEPT ![t] = clock]
  /\ UNCHANGED <<clock, counts, granted, forgot, late>>

(* Bug: a window is over at its last moment.                               *)
ExpiredEarly(w, now) == now - w.start >= Window - 1

Expired(w, now) == now - w.start >= Window

(* The window that a request is charged to.                                *)
Current(k, now) ==
  IF counts[k] = None \/ Expired(counts[k], now)
  THEN [count |-> 0, start |-> now] ELSE counts[k]

(* _prune                                                                  *)
Pruned(windows, now) ==
  [k \in Keys |-> IF windows[k] # None /\ Expired(windows[k], now) THEN None ELSE windows[k]]

(* Bug: one request too many is let through.                               *)
ExhaustedBeyond(w) == w.count > MaxRequests

Exhausted(w) == w.count >= MaxRequests

(* The rest of allow, under the lock.                                      *)
Decide(t, k) ==
  LET now == read[t]  w == Current(k, now) IN
  /\ now # None
  /\ \/ /\ Exhausted(w)
        /\ counts' = [counts EXCEPT ![k] = w]
        /\ UNCHANGED <<granted, forgot, late>>
     \/ /\ ~ Exhausted(w)
        /\ counts' = Pruned([counts EXCEPT ![k] = [w EXCEPT !.count = @ + 1]], now)
        /\ granted' = [granted EXCEPT ![k][w.start] = @ + 1]
        /\ forgot' = [j \in Keys |-> IF counts[j] # None /\ counts'[j] = None THEN now
                                     ELSE forgot[j]]
        /\ late' = IF counts[k] = None /\ now < forgot[k] THEN late \cup {k} ELSE late
  /\ read' = [read EXCEPT ![t] = None]
  /\ UNCHANGED clock

Next ==
  \/ Tick
  \/ \E t \in Threads : ReadClock(t) \/ \E k \in Keys : Decide(t, k)

Spec == Init /\ [][Next]_vars
-----------------------------------------------------------------------------
(* Type invariant.                                                         *)
LimiterTypeOK ==
  /\ clock \in Times
  /\ counts \in [Keys -> Windows \cup {None}]
  /\ read \in [Threads -> Times \cup {None}]
  /\ granted \in [Keys -> [Times -> Nat]]
  /\ forgot \in [Keys -> Times]
  /\ late \subseteq Keys

(* A key is granted MaxRequests in a window at most, and its windows do    *)
(* not overlap, however long a thread waits between the clock and the lock *)
(* and whatever others decide meanwhile, for this key or for another.      *)
(* Excepted is a key of which another decision pruned the window at a      *)
(* later time than the thread's: what that window had used up is gone.     *)
BudgetIsKept ==
  \A k \in Keys \ late :
    /\ \A w \in Times : granted[k][w] <= MaxRequests
    /\ \A v, w \in Times :
         granted[k][v] > 0 /\ granted[k][w] > 0 /\ v < w => w - v >= Window
=============================================================================
