--------------------- MODULE TelegramRateLimiterProofs ---------------------
(***************************************************************************)
(* Proofs about the token bucket, for any number of threads, any limits    *)
(* and any length of the run.                                              *)
(***************************************************************************)
EXTENDS TelegramRateLimiter, TLAPS

(* A product grows with either factor. *)
LEMMA ProductMonotonic ==
  ASSUME NEW a \in Nat, NEW b \in Nat, NEW c \in Nat, a <= b
  PROVE  /\ a * c \in Nat
         /\ a * c <= b * c
         /\ c * a = a * c
<1>1. PICK d \in Nat : b = a + d
  <2>1. b - a \in Nat /\ b = a + (b - a)
    OBVIOUS
  <2> QED
    BY <2>1
<1>2. b * c = a * c + d * c
  BY <1>1
<1>3. a * c \in Nat /\ d * c \in Nat
  BY <1>1
<1> QED
  BY <1>2, <1>3

(* What the constants and the bucket are. *)
LEMMA Sizes ==
  ASSUME TypeOK
  PROVE  /\ rate \in Nat /\ 1 <= rate /\ rate <= MaxRate
         /\ Minute \in Nat /\ 1 <= Minute /\ MaxRate \in Nat /\ Gap \in Nat
         /\ Capacity \in Nat /\ Minute <= Capacity /\ Capacity <= MaxRate * Minute
         /\ tokens \in Nat /\ tokens <= Capacity
<1>1. rate \in 1..MaxRate /\ Minute \in Nat \ {0} /\ MaxRate \in Nat /\ Gap \in Nat
  BY LimiterAssumption DEF TypeOK
<1>2. rate \in Nat /\ 1 <= rate /\ rate <= MaxRate /\ 1 <= Minute
  BY <1>1
<1>3. 1 * Minute <= rate * Minute /\ rate * Minute \in Nat
  BY <1>1, <1>2, ProductMonotonic
<1>4. rate * Minute <= MaxRate * Minute
  BY <1>1, <1>2, ProductMonotonic
<1> QED
  BY <1>1, <1>2, <1>3, <1>4 DEF TypeOK, Capacity

(* A refilled bucket holds what it held and what was refilled, up to a limit. *)
LEMMA RefillBounds ==
  ASSUME TypeOK
  PROVE  /\ Refilled \in Nat
         /\ Refilled <= Capacity
         /\ Refilled <= tokens + MaxRate * (now - updated)
<1>1. now - updated \in Nat
  BY DEF TypeOK
<1>2. rate * (now - updated) <= MaxRate * (now - updated)
      /\ rate * (now - updated) \in Nat
      /\ (now - updated) * rate = rate * (now - updated)
  BY <1>1, Sizes, ProductMonotonic
<1>3. MaxRate * (now - updated) \in Nat
  BY <1>1, Sizes
<1> QED
  BY <1>2, <1>3, Sizes DEF Refilled, AtMost

(* A request is only granted on a bucket that holds a token, after the gap. *)
LEMMA GrantNeedsToken ==
  ASSUME TypeOK, Delay <= 0
  PROVE  Minute <= Refilled /\ Gap <= now - last
<1>1. now \in Nat /\ last \in Int
  BY DEF TypeOK
<1>2. CASE Refilled < Minute
  <2>1. Deficit = (Minute - Refilled + rate - 1) \div rate
    BY <1>2 DEF Deficit
  <2>2. Minute - Refilled + rate - 1 \in Nat /\ rate <= Minute - Refilled + rate - 1
    BY <1>2, Sizes, RefillBounds
  <2>3. Deficit \in Nat /\ 1 <= Deficit
    <3> DEFINE n == Minute - Refilled + rate - 1
    <3>1. n \in Nat /\ rate \in Nat /\ 1 <= rate /\ rate <= n
      BY <2>2, Sizes
    <3> HIDE DEF n
    <3>2. n \div rate \in Nat /\ 1 <= n \div rate
      <4>1. n \div rate \in Int /\ n = rate * (n \div rate) + (n % rate) /\ n % rate \in 0..(rate - 1)
        BY <3>1
      <4>2. CASE n \div rate <= 0
        <5>1. PICK q \in Nat : n \div rate = -q
          <6>1. -(n \div rate) \in Nat /\ n \div rate = -(-(n \div rate))
            BY <4>1, <4>2
          <6> QED
            BY <6>1
        <5>2. rate * (n \div rate) = -(rate * q) /\ rate * q \in Nat
          BY <3>1, <5>1
        <5> QED
          BY <3>1, <4>1, <5>2
      <4> QED
        BY <4>1, <4>2
    <3> QED
      BY <2>1, <3>2 DEF n
  <2> QED
    BY <1>1, <2>3, Sizes DEF Delay, AtLeast
<1>3. CASE ~(Refilled < Minute)
  <2>1. Deficit = 0
    BY <1>3 DEF Deficit
  <2> QED
    BY <1>1, <1>3, <2>1, Sizes, RefillBounds DEF Delay, AtLeast
<1> QED
  BY <1>2, <1>3

-----------------------------------------------------------------------------
(* TypeOK is inductive. *)
LEMMA TypeInvariance == TypeOK /\ [Next]_vars => TypeOK'
<1> SUFFICES ASSUME TypeOK, [Next]_vars PROVE TypeOK'
  OBVIOUS
<1>1. CASE Tick
  BY <1>1 DEF Tick, TypeOK, Capacity
<1>2. ASSUME NEW t \in Threads, StartCall(t) PROVE TypeOK'
  <2>1. [pc |-> "acquire", attempt |-> 0, wake |-> now] \in Calls
    BY LimiterAssumption DEF TypeOK, Calls
  <2> QED
    BY <1>2, <2>1 DEF StartCall, TypeOK, Capacity
<1>3. ASSUME NEW t \in Threads, Acquire(t) PROVE TypeOK'
  <2>1. Refilled \in 0..Capacity
    BY RefillBounds, Sizes
  <2>2. updated' \in 0..now' /\ now' = now /\ rate' = rate /\ Capacity' = Capacity
    BY <1>3 DEF Acquire, TypeOK, Capacity
  <2>3. CASE Delay <= 0 /\ tokens' = Refilled - Minute /\ last' = now /\ grants' = Append(grants, now)
             /\ call' = [call EXCEPT ![t].pc = "request"]
    <3>1. tokens' \in 0..Capacity
      BY <2>1, <2>3, GrantNeedsToken, Sizes
    <3>2. call' \in [Threads -> Calls]
      BY <2>3 DEF TypeOK, Calls
    <3> QED
      BY <2>2, <2>3, <3>1, <3>2 DEF TypeOK
  <2>4. CASE Delay > 0 /\ tokens' = Refilled /\ call' = [call EXCEPT ![t].wake = now + Delay] /\ UNCHANGED <<last, grants>>
    <3>1. Delay \in Int
      <4>1. Minute - Refilled + rate - 1 \in Int /\ rate \in Nat /\ 1 <= rate
        BY RefillBounds, Sizes
      <4>2. Deficit \in Int
        BY <4>1 DEF Deficit
      <4> QED
        BY <4>2, Sizes DEF Delay, AtLeast, TypeOK
    <3>2. now + Delay \in Nat
      BY <2>4, <3>1 DEF TypeOK
    <3>3. call' \in [Threads -> Calls]
      BY <2>4, <3>2 DEF TypeOK, Calls
    <3> QED
      BY <2>1, <2>2, <2>4, <3>3 DEF TypeOK
  <2> QED
    BY <1>3, <2>3, <2>4 DEF Acquire
<1>4. ASSUME NEW t \in Threads, Answer(t) PROVE TypeOK'
  <2>1. Idle \in Calls
    BY LimiterAssumption DEF Idle, Calls
  <2> QED
    BY <1>4, <2>1 DEF Answer, TypeOK, Capacity
<1>5. ASSUME NEW t \in Threads, TooManyRequests(t) PROVE TypeOK'
  <2>1. PICK wait \in RetryAfter :
          call' = [call EXCEPT ![t] = [pc |-> "acquire", attempt |-> @.attempt + 1, wake |-> now + wait]]
    BY <1>5 DEF TooManyRequests
  <2>2. call[t].attempt + 1 \in 0..MaxRetries /\ now + wait \in Nat
    BY <1>5, LimiterAssumption DEF TooManyRequests, TypeOK, Calls
  <2>3. [pc |-> "acquire", attempt |-> call[t].attempt + 1, wake |-> now + wait] \in Calls
    BY <2>2 DEF Calls
  <2> QED
    BY <1>5, <2>1, <2>3 DEF TooManyRequests, TypeOK, Capacity
<1>6. ASSUME NEW r \in Rates, Configure(r) PROVE TypeOK'
  <2>1. r \in Nat /\ r * Minute \in Nat
    BY LimiterAssumption
  <2>2. tokens' \in 0..(r * Minute)
    BY <1>6, <2>1, Sizes DEF Configure, AtMost
  <2> QED
    BY <1>6, <2>2 DEF Configure, TypeOK, Capacity
<1>7. CASE UNCHANGED vars
  BY <1>7 DEF vars, TypeOK, Capacity
<1> QED
  BY <1>1, <1>2, <1>3, <1>4, <1>5, <1>6, <1>7 DEF Next

(* The bucket starts full and the history empty. *)
LEMMA TypeInit == Init => TypeOK
<1> SUFFICES ASSUME Init PROVE TypeOK
  OBVIOUS
<1>1. rate \in Nat /\ Minute \in Nat /\ Gap \in Nat
  BY LimiterAssumption DEF Init
<1>2. rate * Minute \in Nat
  BY <1>1
<1>3. tokens \in 0..Capacity
  BY <1>2 DEF Init, Capacity
<1>4. Idle \in Calls
  BY LimiterAssumption DEF Idle, Calls
<1> QED
  BY <1>1, <1>3, <1>4 DEF Init, TypeOK

(* The bucket is never overdrawn, for any limits and any threads. *)
THEOREM TypeCorrectness == Spec => []TypeOK
BY TypeInit, TypeInvariance, PTL DEF Spec

-----------------------------------------------------------------------------
(* The requests on record lie in the past of the last refill, and the last *)
(* of them is what the gap is measured from.                               *)
Past ==
  /\ \A i \in 1..Len(grants) : grants[i] \in 0..updated
  /\ grants # <<>> => last = grants[Len(grants)]

(* From request i on, what was granted and what is left in the bucket is   *)
(* covered by a full bucket and the refills since: BurstIsBounded with the *)
(* bucket as its slack, which is what a refill and a grant preserve.       *)
Headroom ==
  \A i \in 1..Len(grants) :
    (Len(grants) - i + 1) * Minute + tokens <= MaxRate * Minute + MaxRate * (updated - grants[i])

LimiterInv == TypeOK /\ Past /\ Headroom /\ BurstIsBounded /\ RequestsKeepTheGap

(* Another grant costs one token more. *)
LEMMA OneMore ==
  ASSUME NEW n \in Nat, NEW m \in Nat
  PROVE  (n + 1) * m = n * m + m /\ n * m \in Nat /\ 1 * m = m
OBVIOUS

(* The refills of two stretches add up. *)
LEMMA Stretches ==
  ASSUME NEW m \in Int, NEW a \in Int, NEW b \in Int, NEW c \in Int
  PROVE  m * (c - a) = m * (b - a) + m * (c - b)
<1>1. c - a = (b - a) + (c - b)
  OBVIOUS
<1>2. \A x, y \in Int : m * (x + y) = m * x + m * y
  OBVIOUS
<1> QED
  BY <1>1, <1>2

(* A grant takes a token out of what was there and what was refilled.      *)
LEMMA Spent ==
  ASSUME NEW m \in Int, NEW granted \in Int, NEW left \in Int, NEW full \in Int,
         NEW refill \in Int, NEW more \in Int, NEW held \in Int,
         granted + left <= full + refill, held <= left + more
  PROVE  (granted + m) + (held - m) <= full + (refill + more)
OBVIOUS

(* A step that leaves the requests alone and adds nothing but a refill.    *)
LEMMA QuietStep ==
  ASSUME LimiterInv, TypeOK',
         UNCHANGED <<last, grants>>,
         updated' \in Nat, updated <= updated',
         tokens' <= tokens + MaxRate * (updated' - updated)
  PROVE  LimiterInv'
<1>1. Past'
  BY DEF LimiterInv, Past, TypeOK
<1>2. Headroom'
  <2> SUFFICES ASSUME NEW i \in 1..Len(grants)
               PROVE  (Len(grants) - i + 1) * Minute + tokens'
                        <= MaxRate * Minute + MaxRate * (updated' - grants[i])
    BY DEF Headroom
  <2>1. (Len(grants) - i + 1) * Minute + tokens <= MaxRate * Minute + MaxRate * (updated - grants[i])
    BY DEF LimiterInv, Headroom
  <2>2. grants[i] \in Nat /\ updated \in Nat
    BY DEF LimiterInv, Past, TypeOK
  <2>3. MaxRate \in Nat /\ Minute \in Nat
    BY Sizes DEF LimiterInv
  <2>4. MaxRate * (updated' - grants[i]) = MaxRate * (updated - grants[i]) + MaxRate * (updated' - updated)
    BY <2>2, <2>3, Stretches
  <2>5. /\ (Len(grants) - i + 1) * Minute \in Int
        /\ MaxRate * Minute \in Int
        /\ MaxRate * (updated - grants[i]) \in Int
        /\ MaxRate * (updated' - updated) \in Int
    BY <2>2, <2>3
  <2>6. tokens \in Int /\ tokens' \in Int
    BY DEF LimiterInv, TypeOK
  <2> QED
    BY <2>1, <2>4, <2>5, <2>6
<1>3. BurstIsBounded' /\ RequestsKeepTheGap'
  BY DEF LimiterInv, BurstIsBounded, RequestsKeepTheGap
<1> QED
  BY <1>1, <1>2, <1>3 DEF LimiterInv

(* A grant takes a token that the refill has covered. *)
LEMMA GrantStep ==
  ASSUME LimiterInv, TypeOK', Delay <= 0,
         updated' = now, tokens' = Refilled - Minute, last' = now, grants' = Append(grants, now)
  PROVE  LimiterInv'
<1> DEFINE n == Len(grants)
<1>1. /\ n \in Nat /\ now \in Nat /\ updated \in 0..now
      /\ \A i \in 1..n : grants'[i] = grants[i] /\ grants[i] \in 0..updated
      /\ Len(grants') = n + 1 /\ grants'[n + 1] = now
      /\ MaxRate \in Nat /\ Minute \in Nat
  BY Sizes DEF LimiterInv, TypeOK, Past
<1>2. /\ Refilled \in Nat /\ Minute <= Refilled /\ Refilled <= MaxRate * Minute
      /\ Refilled <= tokens + MaxRate * (now - updated)
      /\ Gap <= now - last /\ tokens \in Nat
  BY Sizes, RefillBounds, GrantNeedsToken DEF LimiterInv
<1>3. n = 0 \/ last = grants[n]
  BY <1>1 DEF LimiterInv, Past
<1> HIDE DEF n
<1>4. Past'
  <2>1. \A i \in 1..Len(grants') : grants'[i] \in 0..updated'
    <3> TAKE i \in 1..Len(grants')
    <3>1. CASE i = n + 1
      BY <1>1, <3>1
    <3>2. CASE i \in 1..n
      BY <1>1, <3>2
    <3> QED
      BY <1>1, <3>1, <3>2
  <2>2. last' = grants'[Len(grants')]
    BY <1>1
  <2> QED
    BY <2>1, <2>2 DEF Past
(* Each stretch that ends with the new request. *)
<1>5. ASSUME NEW i \in 1..(n + 1)
      PROVE  ((n + 1) - i + 1) * Minute + tokens' <= MaxRate * Minute + MaxRate * (now - grants'[i])
  <2>1. CASE i = n + 1
    <3>1. ((n + 1) - i + 1) * Minute = Minute /\ MaxRate * (now - grants'[i]) = 0
      BY <1>1, <2>1
    <3>2. Minute + tokens' <= MaxRate * Minute + 0
      BY <1>1, <1>2
    <3> QED
      BY <3>1, <3>2
  <2>2. CASE i \in 1..n
    <3>1. (n - i + 1) * Minute + tokens <= MaxRate * Minute + MaxRate * (updated - grants[i])
      BY <2>2 DEF LimiterInv, Headroom, n
    <3>2. grants'[i] = grants[i] /\ grants[i] \in Nat /\ updated \in Nat
      BY <1>1, <2>2
    <3>3. MaxRate * (now - grants[i]) = MaxRate * (updated - grants[i]) + MaxRate * (now - updated)
      BY <1>1, <3>2, Stretches
    <3>4. ((n + 1) - i + 1) * Minute = (n - i + 1) * Minute + Minute
      <4>1. n - i + 1 \in Nat /\ (n + 1) - i + 1 = (n - i + 1) + 1
        BY <1>1, <2>2
      <4> QED
        BY <1>1, <4>1, OneMore
    <3>5. /\ (n - i + 1) * Minute \in Int
          /\ MaxRate * Minute \in Int
          /\ MaxRate * (updated - grants[i]) \in Int
          /\ MaxRate * (now - updated) \in Int
      BY <1>1, <2>2, <3>2
    <3>6. tokens \in Int /\ Refilled \in Int /\ Minute \in Int /\ tokens' = Refilled - Minute
      BY <1>1, <1>2
    <3>7. ((n - i + 1) * Minute + Minute) + (Refilled - Minute)
            <= MaxRate * Minute + (MaxRate * (updated - grants[i]) + MaxRate * (now - updated))
      <4> DEFINE granted == (n - i + 1) * Minute
                 full == MaxRate * Minute
                 refill == MaxRate * (updated - grants[i])
                 more == MaxRate * (now - updated)
      <4>1. granted \in Int /\ full \in Int /\ refill \in Int /\ more \in Int
        BY <3>5, Zenon
      <4>2. granted + tokens <= full + refill /\ Refilled <= tokens + more
        BY <1>2, <3>1, Zenon
      <4> HIDE DEF granted, full, refill, more
      <4>3. (granted + Minute) + (Refilled - Minute) <= full + (refill + more)
        BY <3>6, <4>1, <4>2, Spent
      <4> QED
        BY <4>3, Zenon DEF granted, full, refill, more
    <3> QED
      BY <3>2, <3>3, <3>4, <3>6, <3>7, Zenon
  <2> QED
    BY <1>1, <2>1, <2>2
<1>6. Headroom'
  BY <1>1, <1>5 DEF Headroom
<1>7. BurstIsBounded'
  <2> SUFFICES ASSUME NEW j \in 1..(n + 1), NEW i \in 1..j
               PROVE  (j - i + 1) * Minute <= MaxRate * Minute + MaxRate * (grants'[j] - grants'[i])
    BY <1>1 DEF BurstIsBounded
  <2>1. CASE j = n + 1
    <3>1. ((n + 1) - i + 1) * Minute + tokens' <= MaxRate * Minute + MaxRate * (now - grants'[i])
      BY <1>5, <2>1
    <3>2. grants'[j] = now /\ grants'[i] \in Nat
      <4>1. CASE i = n + 1
        BY <1>1, <2>1, <4>1
      <4>2. CASE i \in 1..n
        BY <1>1, <2>1, <4>2
      <4> QED
        BY <1>1, <2>1, <4>1, <4>2
    <3>3. /\ ((n + 1) - i + 1) * Minute \in Int
          /\ MaxRate * Minute \in Int
          /\ MaxRate * (now - grants'[i]) \in Int
          /\ tokens' \in Nat
      BY <1>1, <1>2, <2>1, <3>2
    <3>4. ((n + 1) - i + 1) * Minute <= MaxRate * Minute + MaxRate * (now - grants'[i])
      <4> DEFINE granted == ((n + 1) - i + 1) * Minute
                 allowed == MaxRate * Minute + MaxRate * (now - grants'[i])
      <4>1. granted + tokens' <= allowed
        BY <3>1
      <4>2. granted \in Int /\ allowed \in Int /\ tokens' \in Nat
        <5>1. \A x, y \in Int : x + y \in Int
          OBVIOUS
        <5>2. allowed \in Int
          BY <3>3, <5>1, Zenon
        <5> QED
          BY <3>3, <5>2, Zenon
      <4> HIDE DEF granted, allowed
      <4>3. granted <= allowed
        BY <4>1, <4>2
      <4> QED
        BY <4>3 DEF granted, allowed
    <3> QED
      BY <2>1, <3>2, <3>4
  <2>2. CASE j \in 1..n
    <3>1. i \in 1..n /\ grants'[i] = grants[i] /\ grants'[j] = grants[j]
      BY <1>1, <2>2
    <3>2. (j - i + 1) * Minute <= MaxRate * Minute + MaxRate * (grants[j] - grants[i])
      BY <2>2 DEF LimiterInv, BurstIsBounded, n
    <3> QED
      BY <3>1, <3>2
  <2> QED
    BY <1>1, <2>1, <2>2
<1>8. RequestsKeepTheGap'
  <2> SUFFICES ASSUME NEW i \in 1..n PROVE grants'[i + 1] - grants'[i] >= Gap
    BY <1>1 DEF RequestsKeepTheGap
  <2>1. CASE i = n
    <3>1. last = grants[n] /\ grants'[n] = grants[n] /\ grants'[n + 1] = now
      BY <1>1, <1>3, <2>1
    <3> QED
      BY <1>1, <1>2, <2>1, <3>1, Sizes DEF LimiterInv, TypeOK
  <2>2. CASE i \in 1..(n - 1)
    <3>1. grants'[i + 1] = grants[i + 1] /\ grants'[i] = grants[i]
      BY <1>1, <2>2
    <3> QED
      BY <2>2, <3>1 DEF LimiterInv, RequestsKeepTheGap, n
  <2> QED
    BY <1>1, <2>1, <2>2
<1> QED
  BY <1>4, <1>6, <1>7, <1>8 DEF LimiterInv

(* Every step is quiet but a grant. *)
LEMMA LimiterStep == LimiterInv /\ [Next]_vars => LimiterInv'
<1> SUFFICES ASSUME LimiterInv, [Next]_vars PROVE LimiterInv'
  OBVIOUS
<1>1. TypeOK /\ TypeOK'
  BY TypeInvariance DEF LimiterInv
<1>2. MaxRate * (updated - updated) = 0 /\ updated \in Nat /\ tokens \in Nat /\ MaxRate \in Nat
  BY <1>1, Sizes DEF TypeOK
<1>3. ASSUME UNCHANGED <<last, grants, updated>>, tokens' <= tokens PROVE LimiterInv'
  <2>1. tokens' \in Nat
    BY <1>1 DEF TypeOK
  <2>2. tokens' <= tokens + MaxRate * (updated' - updated)
    BY <1>2, <1>3, <2>1
  <2> QED
    BY <1>1, <1>2, <1>3, <2>2, QuietStep
<1>4. CASE Tick
  BY <1>2, <1>3, <1>4 DEF Tick
<1>5. ASSUME NEW t \in Threads, StartCall(t) \/ Answer(t) \/ TooManyRequests(t) PROVE LimiterInv'
  BY <1>2, <1>3, <1>5 DEF StartCall, Answer, TooManyRequests
<1>6. ASSUME NEW t \in Threads, Acquire(t) PROVE LimiterInv'
  <2>1. updated' = now /\ now \in Nat /\ updated <= now
    BY <1>1, <1>6 DEF Acquire, TypeOK
  <2>2. CASE Delay <= 0 /\ tokens' = Refilled - Minute /\ last' = now /\ grants' = Append(grants, now)
    BY <1>1, <2>1, <2>2, GrantStep
  <2>3. CASE tokens' = Refilled /\ UNCHANGED <<last, grants>>
    <3>1. tokens' <= tokens + MaxRate * (updated' - updated)
      BY <1>1, <2>1, <2>3, RefillBounds
    <3> QED
      BY <1>1, <2>1, <2>3, <3>1, QuietStep
  <2> QED
    BY <1>6, <2>2, <2>3 DEF Acquire
<1>7. ASSUME NEW r \in Rates, Configure(r) PROVE LimiterInv'
  <2>1. r * Minute \in Nat
    BY LimiterAssumption
  <2>2. tokens' <= tokens
    BY <1>2, <1>7, <2>1 DEF Configure, AtMost
  <2> QED
    BY <1>3, <1>7, <2>2 DEF Configure
<1>8. CASE UNCHANGED vars
  BY <1>2, <1>3, <1>8 DEF vars
<1> QED
  BY <1>4, <1>5, <1>6, <1>7, <1>8 DEF Next

(* The invariant holds of the empty history. *)
LEMMA LimiterInit == Init => LimiterInv
<1> SUFFICES ASSUME Init PROVE LimiterInv
  OBVIOUS
<1>1. grants = <<>> /\ Len(grants) = 0
  BY DEF Init
<1>2. Past /\ Headroom /\ BurstIsBounded /\ RequestsKeepTheGap
  BY <1>1 DEF Past, Headroom, BurstIsBounded, RequestsKeepTheGap
<1> QED
  BY <1>2, TypeInit DEF LimiterInv

(* acquire: no stretch of time sees more requests than a full bucket and   *)
(* its refills, whatever the threads, the limits and the clock do.         *)
THEOREM BurstBound == Spec => []BurstIsBounded
<1>1. LimiterInv => BurstIsBounded
  BY DEF LimiterInv
<1> QED
  BY <1>1, LimiterInit, LimiterStep, PTL DEF Spec

(* min_interval: any two requests keep the gap.                            *)
THEOREM GapKept == Spec => []RequestsKeepTheGap
<1>1. LimiterInv => RequestsKeepTheGap
  BY DEF LimiterInv
<1> QED
  BY <1>1, LimiterInit, LimiterStep, PTL DEF Spec
=============================================================================
