-------------------------- MODULE RateLimiterProofs --------------------------
(* The window is exact for any clients, limit, window and clock.           *)
EXTENDS RateLimiter, TLAPS

USE LimiterAssumption DEF LimiterAssumption

\* The admitted times of a client grow and lie in the past.
Ordered(c) ==
    /\ \A i \in 1..Len(admitted[c]) : admitted[c][i] <= now
    /\ \A i \in 1..Len(admitted[c]) : \A j \in i..Len(admitted[c]) :
         admitted[c][i] <= admitted[c][j]

\* The bucket is the end of the history ...
Suffix(c) ==
    /\ Len(bucket[c]) <= Len(admitted[c])
    /\ \A i \in 1..Len(bucket[c]) :
         bucket[c][i] = admitted[c][Len(admitted[c]) - Len(bucket[c]) + i]

\* ... and what it has lost is out of the window.
Expired(c) ==
    \A i \in 1..(Len(admitted[c]) - Len(bucket[c])) : ~InWindow(admitted[c][i])

LimiterInv ==
    /\ LimiterTypeOK
    /\ \A c \in Clients : Ordered(c) /\ Suffix(c) /\ Expired(c)
    /\ WindowLimit
    /\ RefusedWasFull

\* No client has asked yet.
LEMMA LimiterInit_Inv == LimiterInit => LimiterInv
BY DEF LimiterInit, LimiterInv, LimiterTypeOK, Ordered, Suffix, Expired,
       WindowLimit, RefusedWasFull

\* Popping keeps the types.
LEMMA RemainingTypes ==
    ASSUME LimiterTypeOK, NEW c \in Clients, NEW k \in 0..Len(bucket[c])
    PROVE  /\ Remaining(c, k) \in Seq(Nat)
           /\ Len(Remaining(c, k)) = Len(bucket[c]) - k
           /\ \A i \in 1..(Len(bucket[c]) - k) : Remaining(c, k)[i] = bucket[c][k + i]
BY DEF LimiterTypeOK, Remaining

\* An admitted request ends the history and the bucket; what was popped has
\* left the window, and with it the request MaxRequests before.
LEMMA AllowStep ==
    ASSUME LimiterInv, NEW c \in Clients, Allow(c)
    PROVE  LimiterInv'
<1>0. /\ LimiterTypeOK /\ WindowLimit /\ RefusedWasFull
      /\ \A d \in Clients : Ordered(d) /\ Suffix(d) /\ Expired(d)
  BY DEF LimiterInv
<1>1. PICK k \in 0..Len(bucket[c]) :
        /\ Popped(c, k)
        /\ HasRoom(c, k)
        /\ bucket' = [bucket EXCEPT ![c] = Append(Remaining(c, k), now)]
        /\ admitted' = [admitted EXCEPT ![c] = Append(@, now)]
        /\ UNCHANGED <<now, refused>>
  BY DEF Allow
<1> DEFINE n == Len(admitted[c])
           b == Len(bucket[c])
           rest == Remaining(c, k)
           new == Append(rest, now)
           hist == Append(admitted[c], now)
<1>2. bucket'[c] = new /\ admitted'[c] = hist
  BY <1>0, <1>1 DEF LimiterTypeOK
<1>3. /\ n \in Nat /\ b \in Nat /\ k \in Nat /\ k <= b /\ b <= n /\ now \in Nat
      /\ b - k < MaxRequests
  BY <1>0, <1>1 DEF LimiterTypeOK, HasRoom, Suffix
<1>4. /\ hist \in Seq(Nat)
      /\ Len(hist) = n + 1
      /\ \A i \in 1..n : hist[i] = admitted[c][i]
      /\ hist[n + 1] = now
      /\ \A i \in 1..n : admitted[c][i] \in Nat
  BY <1>0 DEF LimiterTypeOK
<1>5. /\ rest \in Seq(Nat)
      /\ Len(rest) = b - k
      /\ \A i \in 1..(b - k) : rest[i] = bucket[c][k + i]
  BY <1>0, RemainingTypes
<1>6. /\ new \in Seq(Nat)
      /\ Len(new) = b - k + 1
      /\ \A i \in 1..(b - k) : new[i] = bucket[c][k + i]
      /\ new[b - k + 1] = now
  <2> HIDE DEF rest
  <2>1. /\ new \in Seq(Nat)
        /\ Len(new) = Len(rest) + 1
        /\ \A i \in 1..Len(rest) : new[i] = rest[i]
        /\ new[Len(rest) + 1] = now
    BY <1>3, <1>5 DEF new
  <2> QED
    BY <1>5, <2>1
<1>7. \A i \in 1..b : bucket[c][i] = admitted[c][n - b + i]
  BY <1>0 DEF Suffix
<1>8. \A i \in 1..k : ~InWindow(bucket[c][i])
  BY <1>1 DEF Popped
<1>9. ASSUME NEW d \in Clients, d # c
      PROVE  admitted'[d] = admitted[d] /\ bucket'[d] = bucket[d]
  BY <1>0, <1>1, <1>9 DEF LimiterTypeOK
<1> HIDE DEF n, b, rest, new, hist
<1>10. LimiterTypeOK'
  <2>1. bucket' \in [Clients -> Seq(Nat)] /\ admitted' \in [Clients -> Seq(Nat)]
    BY <1>0, <1>1, <1>4, <1>6 DEF LimiterTypeOK, new, rest, hist
  <2>2. \A d \in Clients : Len(bucket'[d]) <= MaxRequests
    <3> TAKE d \in Clients
    <3>1. CASE d = c
      BY <3>1, <1>2, <1>3, <1>6, LimiterAssumption
    <3>2. CASE d # c
      BY <3>2, <1>0, <1>9 DEF LimiterTypeOK
    <3> QED
      BY <3>1, <3>2
  <2> QED
    BY <1>0, <1>1, <2>1, <2>2 DEF LimiterTypeOK
<1>11. \A i \in 1..(n - b + k) : i \in 1..n /\ ~InWindow(admitted[c][i])
  <2> TAKE i \in 1..(n - b + k)
  <2>1. CASE i <= n - b
    BY <2>1, <1>0, <1>3 DEF Expired, n, b
  <2>2. CASE i > n - b
    <3>1. PICK j \in 1..k : i = n - b + j
      <4>1. i - (n - b) \in 1..k /\ i = n - b + (i - (n - b))
        BY <2>2, <1>3
      <4> QED
        BY <4>1
    <3>2. j \in 1..b
      BY <1>3, <3>1
    <3>3. bucket[c][j] = admitted[c][i]
      BY <1>7, <3>1, <3>2
    <3>4. ~InWindow(admitted[c][i])
      BY <1>8, <3>3
    <3> QED
      BY <1>3, <3>4
  <2> QED
    BY <2>1, <2>2, <1>3
<1>12. Ordered(c)'
  <2>1. \A i \in 1..n : admitted[c][i] <= now
    BY <1>0 DEF Ordered, n
  <2>2. \A i \in 1..n : \A j \in i..n : admitted[c][i] <= admitted[c][j]
    BY <1>0 DEF Ordered, n
  <2>3. ASSUME NEW i \in 1..(n + 1), NEW j \in i..(n + 1)
        PROVE  hist[i] <= now /\ hist[i] <= hist[j]
    <3>1. CASE j <= n
      <4>1. i \in 1..n /\ j \in i..n /\ j \in 1..n
        BY <3>1, <1>3
      <4> QED
        BY <4>1, <1>4, <2>1, <2>2
    <3>2. CASE j = n + 1 /\ i <= n
      BY <3>2, <1>3, <1>4, <2>1
    <3>3. CASE i = n + 1
      BY <3>3, <1>3, <1>4
    <3> QED
      BY <3>1, <3>2, <3>3, <1>3
  <2>4. \A i \in 1..(n + 1) : i \in i..(n + 1)
    BY <1>3
  <2> QED
    BY <1>1, <1>2, <1>4, <2>3, <2>4 DEF Ordered
<1>13. Suffix(c)'
  <2>1. ASSUME NEW i \in 1..(b - k + 1)
        PROVE  new[i] = hist[(n + 1) - (b - k + 1) + i]
    <3>1. CASE i <= b - k
      <4>1. i \in 1..(b - k) /\ k + i \in 1..b /\ n - b + (k + i) \in 1..n
        BY <3>1, <1>3
      <4>2. (n + 1) - (b - k + 1) + i = n - b + (k + i)
        BY <1>3
      <4> QED
        BY <4>1, <4>2, <1>4, <1>6, <1>7
    <3>2. CASE i = b - k + 1
      <4>1. (n + 1) - (b - k + 1) + i = n + 1
        BY <3>2, <1>3
      <4> QED
        BY <3>2, <4>1, <1>4, <1>6
    <3> QED
      BY <3>1, <3>2, <1>3
  <2>2. Len(new) <= Len(hist)
    BY <1>3, <1>4, <1>6
  <2> QED
    BY <1>2, <1>4, <1>6, <2>1, <2>2 DEF Suffix
<1>14. Expired(c)'
  <2>1. (n + 1) - (b - k + 1) = n - b + k
    BY <1>3
  <2>2. \A i \in 1..(n - b + k) : ~(now < hist[i] + Window)
    BY <1>4, <1>11 DEF InWindow
  <2> QED
    BY <1>1, <1>2, <1>4, <1>6, <2>1, <2>2 DEF Expired, InWindow
<1>15. \A d \in Clients : (Ordered(d) /\ Suffix(d) /\ Expired(d))'
  <2> TAKE d \in Clients
  <2>1. CASE d = c
    BY <2>1, <1>12, <1>13, <1>14
  <2>2. CASE d # c
    <3>1. admitted'[d] = admitted[d] /\ bucket'[d] = bucket[d] /\ now' = now
      BY <2>2, <1>1, <1>9
    <3>2. Ordered(d) /\ Suffix(d) /\ Expired(d)
      BY <1>0
    <3> QED
      BY <3>1, <3>2 DEF Ordered, Suffix, Expired, InWindow
  <2> QED
    BY <2>1, <2>2
<1>16. WindowLimit'
  <2> SUFFICES ASSUME NEW d \in Clients, NEW i \in 1..Len(admitted'[d]),
                      i + MaxRequests <= Len(admitted'[d])
               PROVE  admitted'[d][i] + Window <= admitted'[d][i + MaxRequests]
    BY DEF WindowLimit
  <2>1. CASE d # c
    BY <2>1, <1>0, <1>9 DEF WindowLimit
  <2>2. CASE d = c /\ i + MaxRequests <= n
    <3>1. i \in 1..n /\ i + MaxRequests \in 1..n
      BY <2>2, <1>3
    <3>2. admitted[c][i] + Window <= admitted[c][i + MaxRequests]
      BY <2>2, <3>1, <1>0 DEF WindowLimit, n
    <3> QED
      BY <2>2, <3>1, <3>2, <1>2, <1>4
  <2>3. CASE d = c /\ i + MaxRequests = n + 1
    <3>1. i \in 1..(n - b + k)
      BY <2>3, <1>3
    <3>2. i \in 1..n /\ admitted[c][i] + Window <= now
      BY <3>1, <1>3, <1>4, <1>11 DEF InWindow
    <3> QED
      BY <2>3, <3>2, <1>2, <1>4
  <2> QED
    BY <2>1, <2>2, <2>3, <1>2, <1>3, <1>4
<1>17. RefusedWasFull'
  <2> SUFFICES ASSUME NEW d \in Clients, NEW t \in refused[d]
               PROVE  \E i \in 1..Len(admitted'[d]) :
                        /\ i + MaxRequests - 1 <= Len(admitted'[d])
                        /\ t < admitted'[d][i] + Window
                        /\ admitted'[d][i + MaxRequests - 1] <= t
    BY <1>1 DEF RefusedWasFull
  <2>1. PICK i \in 1..Len(admitted[d]) :
          /\ i + MaxRequests - 1 <= Len(admitted[d])
          /\ t < admitted[d][i] + Window
          /\ admitted[d][i + MaxRequests - 1] <= t
    BY <1>0 DEF RefusedWasFull
  <2>2. CASE d # c
    BY <2>1, <2>2, <1>9
  <2>3. CASE d = c
    <3>1. /\ i \in 1..n /\ i \in 1..(n + 1)
          /\ i + MaxRequests - 1 \in 1..n /\ i + MaxRequests - 1 <= n + 1
      BY <2>1, <2>3, <1>3 DEF n
    <3>2. hist[i] = admitted[c][i] /\ hist[i + MaxRequests - 1] = admitted[c][i + MaxRequests - 1]
      BY <3>1, <1>4
    <3> QED
      BY <2>1, <2>3, <3>1, <3>2, <1>2, <1>4
  <2> QED
    BY <2>2, <2>3
<1> QED
  BY <1>10, <1>15, <1>16, <1>17 DEF LimiterInv

\* A refusal finds the bucket full, so nothing was popped: the bucket holds
\* the last MaxRequests admitted requests and its oldest is in the window.
LEMMA RefuseStep ==
    ASSUME LimiterInv, NEW c \in Clients, Refuse(c)
    PROVE  LimiterInv'
<1>0. /\ LimiterTypeOK /\ WindowLimit /\ RefusedWasFull
      /\ \A d \in Clients : Ordered(d) /\ Suffix(d) /\ Expired(d)
  BY DEF LimiterInv
<1>1. PICK k \in 0..Len(bucket[c]) :
        /\ Popped(c, k)
        /\ ~HasRoom(c, k)
        /\ bucket' = [bucket EXCEPT ![c] = Remaining(c, k)]
        /\ refused' = [refused EXCEPT ![c] = @ \cup {now}]
        /\ UNCHANGED <<now, admitted>>
  BY DEF Refuse
<1> DEFINE n == Len(admitted[c])
<1>2. /\ k = 0 /\ Len(bucket[c]) = MaxRequests
      /\ n \in Nat /\ MaxRequests <= n /\ now \in Nat
      /\ \A i \in 1..n : admitted[c][i] \in Nat
  <2>1. /\ n \in Nat /\ now \in Nat /\ Len(bucket[c]) \in Nat
        /\ \A i \in 1..n : admitted[c][i] \in Nat
        /\ Len(bucket[c]) <= MaxRequests
    BY <1>0 DEF LimiterTypeOK
  <2>2. Len(bucket[c]) <= n
    BY <1>0 DEF Suffix
  <2>3. k \in Nat /\ ~(Len(bucket[c]) - k < MaxRequests)
    BY <1>1, <2>1 DEF HasRoom
  <2> HIDE DEF n
  <2> QED
    BY <2>1, <2>2, <2>3, LimiterAssumption
<1>3. bucket' = bucket
  <2>1. Remaining(c, 0) = bucket[c]
    BY <1>0 DEF LimiterTypeOK, Remaining
  <2> QED
    BY <1>0, <1>1, <1>2, <2>1 DEF LimiterTypeOK
<1>4. LimiterTypeOK'
  BY <1>0, <1>1, <1>3 DEF LimiterTypeOK
<1>5. \A d \in Clients : (Ordered(d) /\ Suffix(d) /\ Expired(d))'
  BY <1>0, <1>1, <1>3 DEF Ordered, Suffix, Expired, InWindow
<1>6. WindowLimit'
  BY <1>0, <1>1 DEF WindowLimit
<1>7. /\ n - MaxRequests + 1 \in 1..n
      /\ now < admitted[c][n - MaxRequests + 1] + Window
      /\ admitted[c][n] <= now
  <2>1. bucket[c][1] = admitted[c][n - MaxRequests + 1]
    <3>1. 1 \in 1..Len(bucket[c])
      BY <1>2, LimiterAssumption
    <3>2. bucket[c][1] = admitted[c][n - Len(bucket[c]) + 1]
      BY <1>0, <3>1 DEF Suffix
    <3> QED
      BY <1>2, <3>2
  <2>2. InWindow(bucket[c][1])
    BY <1>1, <1>2 DEF Popped
  <2>3. admitted[c][n] <= now
    BY <1>0, <1>2 DEF Ordered
  <2> QED
    BY <1>2, <2>1, <2>2, <2>3 DEF InWindow
<1>8. RefusedWasFull'
  <2> SUFFICES ASSUME NEW d \in Clients, NEW t \in refused'[d]
               PROVE  \E i \in 1..Len(admitted[d]) :
                        /\ i + MaxRequests - 1 <= Len(admitted[d])
                        /\ t < admitted[d][i] + Window
                        /\ admitted[d][i + MaxRequests - 1] <= t
    BY <1>1 DEF RefusedWasFull
  <2>1. CASE t \in refused[d]
    BY <1>0, <2>1 DEF RefusedWasFull
  <2>2. CASE d = c /\ t = now
    <3> DEFINE i == n - MaxRequests + 1
    <3>1. i + MaxRequests - 1 = n
      BY <1>2
    <3>2. /\ i \in 1..n /\ i + MaxRequests - 1 <= n
          /\ t < admitted[c][i] + Window
          /\ admitted[c][i + MaxRequests - 1] <= t
      BY <2>2, <1>2, <1>7, <3>1
    <3> QED
      BY <2>2, <3>2
  <2>3. t \in refused[d] \/ (d = c /\ t = now)
    BY <1>0, <1>1 DEF LimiterTypeOK
  <2> QED
    BY <2>1, <2>2, <2>3
<1> QED
  BY <1>4, <1>5, <1>6, <1>8 DEF LimiterInv

\* The clock only takes entries out of the window.
LEMMA TickStep ==
    ASSUME LimiterInv, Tick
    PROVE  LimiterInv'
BY DEF Tick, LimiterInv, LimiterTypeOK, Ordered, Suffix, Expired, InWindow,
       WindowLimit, RefusedWasFull

\* The invariant is inductive.
LEMMA LimiterStep == LimiterInv /\ [LimiterNext]_limiterVars => LimiterInv'
<1> SUFFICES ASSUME LimiterInv, [LimiterNext]_limiterVars
             PROVE  LimiterInv'
  OBVIOUS
<1>1. CASE UNCHANGED limiterVars
  BY <1>1 DEF limiterVars, LimiterInv, LimiterTypeOK, Ordered, Suffix, Expired,
              InWindow, WindowLimit, RefusedWasFull
<1> QED
  BY <1>1, AllowStep, RefuseStep, TickStep DEF LimiterNext

\* Buckets are ordered and hold all that was admitted but what has expired;
\* no window holds more than the limit.
THEOREM LimiterInvariant == LimiterSpec => []LimiterInv
BY LimiterInit_Inv, LimiterStep, PTL DEF LimiterSpec

\* No window of any length and start holds more than the limit, for the
\* limiter of rate_limit.py by itself.
THEOREM WindowHolds == LimiterSpec => []WindowLimit
BY LimiterInvariant, PTL DEF LimiterInv

\* Who is refused had used up the limit within the window.
THEOREM RefusalJustified == LimiterSpec => []RefusedWasFull
BY LimiterInvariant, PTL DEF LimiterInv
==============================================================================
