----------------------------- MODULE RateLimiter -----------------------------
(***************************************************************************)
(* The sliding window of the admin API (apps/api, rate_limit.py): per      *)
(* client a deque of the times of its admitted requests.  One API process  *)
(* and its monotonic clock; allow() has no await, so it is one step.       *)
(***************************************************************************)
EXTENDS Naturals, Sequences

CONSTANTS Clients,      \* client addresses
          MaxRequests,  \* admin_rate_limit_requests
          Window,       \* admin_rate_limit_window_seconds
          Horizon       \* bound on the clock

\* main.py installs the limiter only if both are positive.
ASSUME LimiterAssumption ==
    /\ MaxRequests \in Nat \ {0}
    /\ Window \in Nat \ {0}

VARIABLES
    now,       \* the clock
    bucket,    \* self._requests
    admitted,  \* history: the times of all admitted requests
    refused    \* history: the times of all refused requests

limiterVars == <<now, bucket, admitted, refused>>

LimiterTypeOK ==
    /\ now \in Nat
    /\ bucket \in [Clients -> Seq(Nat)]
    /\ admitted \in [Clients -> Seq(Nat)]
    /\ refused \in [Clients -> SUBSET Nat]
    /\ \A c \in Clients : Len(bucket[c]) <= MaxRequests

LimiterInit ==
    /\ now = 0
    /\ bucket = [c \in Clients |-> << >>]
    /\ admitted = [c \in Clients |-> << >>]
    /\ refused = [c \in Clients |-> {}]

-----------------------------------------------------------------------------
InWindowOrAtItsEdge(t) == now <= t + Window

InWindow(t) == now < t + Window

\* The loop pops the oldest entries and stops at the first in the window.
Popped(c, k) ==
    /\ \A i \in 1..k : ~InWindow(bucket[c][i])
    /\ k < Len(bucket[c]) => InWindow(bucket[c][k + 1])

RoomForOneMore(c, k) == Len(bucket[c]) - k <= MaxRequests

HasRoom(c, k) == Len(bucket[c]) - k < MaxRequests

RemainingUnpopped(c, k) == bucket[c]

Remaining(c, k) == SubSeq(bucket[c], k + 1, Len(bucket[c]))

Allow(c) ==
    \E k \in 0..Len(bucket[c]) :
        /\ Popped(c, k)
        /\ HasRoom(c, k)
        /\ bucket' = [bucket EXCEPT ![c] = Append(Remaining(c, k), now)]
        /\ admitted' = [admitted EXCEPT ![c] = Append(@, now)]
        /\ UNCHANGED <<now, refused>>

Refuse(c) ==
    \E k \in 0..Len(bucket[c]) :
        /\ Popped(c, k)
        /\ ~HasRoom(c, k)
        /\ bucket' = [bucket EXCEPT ![c] = Remaining(c, k)]
        /\ refused' = [refused EXCEPT ![c] = @ \cup {now}]
        /\ UNCHANGED <<now, admitted>>

Tick ==
    /\ now < Horizon
    /\ now' = now + 1
    /\ UNCHANGED <<bucket, admitted, refused>>

LimiterNext == Tick \/ \E c \in Clients : Allow(c) \/ Refuse(c)

LimiterSpec == LimiterInit /\ [][LimiterNext]_limiterVars

-----------------------------------------------------------------------------
(* Properties.                                                             *)

\* No window of Window seconds, wherever it starts, holds more than
\* MaxRequests admitted requests of a client.
WindowLimit ==
    \A c \in Clients : \A i \in 1..Len(admitted[c]) :
        i + MaxRequests <= Len(admitted[c]) =>
            admitted[c][i] + Window <= admitted[c][i + MaxRequests]

\* A client is refused only if MaxRequests of its requests were admitted
\* within the Window seconds before: entries at the window's edge are gone.
RefusedWasFull ==
    \A c \in Clients : \A t \in refused[c] :
        \E i \in 1..Len(admitted[c]) :
            LET last == i + MaxRequests - 1 IN
            /\ last <= Len(admitted[c])
            /\ t < admitted[c][i] + Window
            /\ admitted[c][last] <= t
==============================================================================
