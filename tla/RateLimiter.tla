----------------------------- MODULE RateLimiter -----------------------------
(***************************************************************************)
(* The gateway's fixed-window limiter, internal/aigateway/rate_limiter.go, *)
(* as enforceRateLimit uses it: a request passes the counter of its app,   *)
(* then the counter of its user in that app.                               *)
(*                                                                         *)
(* Allow reads the clock before it takes the mutex, so the clock may move, *)
(* and other requests may pass, between the two.  Time is counted in       *)
(* windows of a minute.                                                    *)
(***************************************************************************)
EXTENDS Integers, FiniteSets

CONSTANTS
    Workers,        \* goroutines that serve requests, one after another
    Counters,       \* keys of the limiter: "app:..." and "app_user:..."
    AppCounter,     \* the counters a worker's requests pass
    UserCounter,
    Limit,          \* requests per window of a counter; 0 turns it off
    Kept,           \* windows the clean-up keeps before the current one, 5
    MaxWindow       \* bound on the clock

ASSUME RateLimiterAssumption ==
    /\ IsFiniteSet(Workers)
    /\ AppCounter \in [Workers -> Counters]
    /\ UserCounter \in [Workers -> Counters]
    /\ Limit \in [Counters -> Nat]
    /\ Kept \in Nat
    /\ MaxWindow \in Nat

VARIABLES
    clock,      \* the current window
    windows,    \* the limiter's map
    at,         \* where a worker is
    windowStart,\* the window a worker has read
    admitted,   \* history: requests a counter let pass, by window read
    late        \* history: requests counted too late, by counter

vars == <<clock, windows, at, windowStart, admitted, late>>

NoWindow == [start |-> -1, count |-> 0]

(* The counter a worker is about to pass, or has read the clock for.       *)
CounterOf(w) == IF at[w] \in {"app", "app_locking"} THEN AppCounter[w] ELSE UserCounter[w]

(* History: the windows a counter has counted requests of.                 *)
Seen(c) == {v \in 0 .. MaxWindow : admitted[c][v] > 0}

(* History: a request of window v comes to counter c after one of a later  *)
(* window, or more than Kept windows after a request of any counter.       *)
TooLate(c, v) ==
    \/ \E n \in Seen(c) : n > v
    \/ \E d \in Counters : \E n \in Seen(d) : n > v + Kept

TypeOK ==
    /\ clock \in 0 .. MaxWindow
    /\ windows \in [Counters -> [start : -1 .. MaxWindow, count : Nat]]
    /\ \A c \in Counters : windows[c].count <= Limit[c]
    /\ at \in [Workers -> {"app", "app_locking", "user", "user_locking"}]
    /\ windowStart \in [Workers -> 0 .. MaxWindow]
    /\ admitted \in [Counters -> [0 .. MaxWindow -> Nat]]
    /\ late \in [Counters -> Nat]

Init ==
    /\ clock = 0
    /\ windows = [c \in Counters |-> NoWindow]
    /\ at = [w \in Workers |-> "app"]
    /\ windowStart = [w \in Workers |-> 0]
    /\ admitted = [c \in Counters |-> [v \in 0 .. MaxWindow |-> 0]]
    /\ late = [c \in Counters |-> 0]

(* Allow up to the lock: without a limit at once, else having read the     *)
(* clock.                                                                  *)
ReadClock(w) ==
    /\ at[w] \in {"app", "user"}
    /\ Limit[CounterOf(w)] > 0
    /\ windowStart' = [windowStart EXCEPT ![w] = clock]
    /\ at' = [at EXCEPT ![w] = IF @ = "app" THEN "app_locking" ELSE "user_locking"]
    /\ UNCHANGED <<clock, windows, admitted, late>>

(* The worker's place after Allow: the next counter of the request, or the *)
(* next request.                                                           *)
After(w, ok) == IF at[w] \in {"app", "app_locking"} /\ ok THEN "user" ELSE "app"

Unlimited(w) ==
    /\ at[w] \in {"app", "user"}
    /\ Limit[CounterOf(w)] = 0
    /\ at' = [at EXCEPT ![w] = After(w, TRUE)]
    /\ UNCHANGED <<clock, windows, windowStart, admitted, late>>

(* Faulty variant: the cutoff is a window too late.                         *)
cleanupEarly(map, current) ==
    [c \in Counters |-> IF map[c].start <= current - Kept THEN NoWindow ELSE map[c]]

cleanupLocked(map, current) ==
    [c \in Counters |-> IF map[c].start < current - Kept THEN NoWindow ELSE map[c]]

(* What both ways to be admitted record.                                   *)
Admit(w) ==
    LET c == CounterOf(w)
        v == windowStart[w]
    IN  /\ admitted' = [admitted EXCEPT ![c][v] = @ + 1]
        /\ late' = [late EXCEPT ![c] = @ + IF TooLate(c, v) THEN 1 ELSE 0]
        /\ at' = [at EXCEPT ![w] = After(w, TRUE)]
        /\ UNCHANGED <<clock, windowStart>>

(* Faulty variant: a new window starts with the count of the last one.     *)
OpenWindowCounting(w) ==
    LET c == CounterOf(w)
        v == windowStart[w]
    IN  /\ at[w] \in {"app_locking", "user_locking"}
        /\ windows[c].start # v
        /\ windows' = [windows EXCEPT ![c] = [start |-> v, count |-> @.count + 1]]
        /\ Admit(w)

OpenWindow(w) ==
    LET c == CounterOf(w)
        v == windowStart[w]
    IN  /\ at[w] \in {"app_locking", "user_locking"}
        /\ windows[c].start # v
        /\ windows' = cleanupLocked([windows EXCEPT ![c] = [start |-> v, count |-> 1]], v)
        /\ Admit(w)

(* Faulty variant: one request too many.                                    *)
CountOneMore(w) ==
    LET c == CounterOf(w)
    IN  /\ at[w] \in {"app_locking", "user_locking"}
        /\ windows[c].start = windowStart[w]
        /\ windows[c].count <= Limit[c]
        /\ windows' = [windows EXCEPT ![c].count = @ + 1]
        /\ Admit(w)

CountRequest(w) ==
    LET c == CounterOf(w)
    IN  /\ at[w] \in {"app_locking", "user_locking"}
        /\ windows[c].start = windowStart[w]
        /\ windows[c].count < Limit[c]
        /\ windows' = [windows EXCEPT ![c].count = @ + 1]
        /\ Admit(w)

(* Answered 429; what the app's counter counted stays counted.             *)
Reject(w) ==
    LET c == CounterOf(w)
    IN  /\ at[w] \in {"app_locking", "user_locking"}
        /\ windows[c].start = windowStart[w]
        /\ windows[c].count >= Limit[c]
        /\ at' = [at EXCEPT ![w] = After(w, FALSE)]
        /\ UNCHANGED <<clock, windows, windowStart, admitted, late>>

Tick ==
    /\ clock < MaxWindow
    /\ clock' = clock + 1
    /\ UNCHANGED <<windows, at, windowStart, admitted, late>>

Next ==
    \/ \E w \in Workers :
          ReadClock(w) \/ Unlimited(w) \/ OpenWindow(w) \/ CountRequest(w) \/ Reject(w)
    \/ Tick

Spec == Init /\ [][Next]_vars

-----------------------------------------------------------------------------
(* A counter that turns requests away has admitted its limit in that very  *)
(* window: nobody is rejected for requests of another window, or for       *)
(* requests that were rejected themselves.                                 *)
RejectedOnlyWhenFull ==
    \A c \in Counters :
        /\ windows[c] # NoWindow
        /\ windows[c].count >= Limit[c]
        => admitted[c][windows[c].start] >= Limit[c]

(* A window admits its limit once more for each request that took the lock *)
(* late, after one of a later window: without such a request never more    *)
(* than its limit.  The clean-up forgets only what nobody needs who is not *)
(* more than Kept windows late.                                            *)
OvershootIsBounded ==
    \A c \in Counters, v \in 0 .. MaxWindow :
        admitted[c][v] <= Limit[c] * (1 + late[c])

(* docs/api.md: a limit is the most requests of an app, or of a user, in a *)
(* minute.                                                                 *)
LimitPerWindow ==
    \A c \in Counters, v \in 0 .. MaxWindow : admitted[c][v] <= Limit[c]
=============================================================================
