------------------------ MODULE TelegramRateLimiter ------------------------
(***************************************************************************)
(* TelegramRateLimiter and TelegramSender of Chat Sync: a token bucket     *)
(* that every thread calling Telegram shares, and the retries after a 429. *)
(* Time is counted in ticks.  A token is worth Minute units, so that a     *)
(* limit of rate messages a minute refills rate units a tick and every     *)
(* quantity of the bucket is an integer.                                   *)
(***************************************************************************)
EXTENDS Integers, Sequences

CONSTANTS
  Threads,      \* the queue's worker, the bulk sync, refreshers, commands
  Rates,        \* limits an administrator may set, in messages a minute
  MaxRate,      \* the largest of them (MAX_MESSAGES_PER_MINUTE)
  Minute,       \* ticks of a minute
  Gap,          \* ticks between two calls (min_interval)
  MaxRetries,   \* retries of one call (max_retries)
  RetryAfter,   \* waits a 429 may ask for, in ticks
  MaxTime,      \* bound: ticks
  MaxCalls      \* bound: requests granted

ASSUME LimiterAssumption ==
  /\ MaxRate \in Nat
  /\ Rates \subseteq 1..MaxRate
  /\ Rates # {}
  /\ Minute \in Nat \ {0}
  /\ Gap \in Nat
  /\ MaxRetries \in Nat
  /\ RetryAfter \subseteq Nat
  /\ MaxTime \in Nat
  /\ MaxCalls \in Nat

VARIABLES
  now,      \* the clock
  rate,     \* messages a minute, as configured
  tokens,   \* content of the bucket, in units
  updated,  \* when the bucket was last refilled (_updated_at)
  last,     \* when the last request was granted (_last_call_at)
  call,     \* what each thread does
  grants    \* history: when requests were granted, in order

vars == <<now, rate, tokens, updated, last, call, grants>>

Capacity == rate * Minute

Idle == [pc |-> "idle", attempt |-> 0, wake |-> 0]

Calls == [pc : {"idle", "acquire", "request"}, attempt : 0..MaxRetries, wake : Nat]

AtMost(x, y) == IF x <= y THEN x ELSE y

AtLeast(x, y) == IF x >= y THEN x ELSE y

Init ==
  /\ now = 0
  /\ rate \in Rates
  /\ tokens = Capacity
  /\ updated = 0
  /\ last = -Gap
  /\ call = [t \in Threads |-> Idle]
  /\ grants = <<>>

Tick ==
  /\ now < MaxTime
  /\ now' = now + 1
  /\ UNCHANGED <<rate, tokens, updated, last, call, grants>>

(* TelegramSender.call *)
StartCall(t) ==
  /\ call[t] = Idle
  /\ Len(grants) < MaxCalls
  /\ call' = [call EXCEPT ![t] = [pc |-> "acquire", attempt |-> 0, wake |-> now]]
  /\ UNCHANGED <<now, rate, tokens, updated, last, grants>>

(* Mutant: what was saved up has no limit. *)
RefilledUncapped == tokens + (now - updated) * rate

Refilled == AtMost(Capacity, tokens + (now - updated) * rate)

(* Ticks until the bucket holds a token, rounded up. *)
Deficit == IF Refilled < Minute THEN (Minute - Refilled + rate - 1) \div rate ELSE 0

(* Mutant: only an empty bucket delays. *)
DelayByBucket == Deficit

Delay == AtLeast(Deficit, Gap - (now - last))

(* One turn of the loop of acquire; a thread told to sleep may oversleep. *)
Acquire(t) ==
  /\ call[t].pc = "acquire"
  /\ call[t].wake <= now
  /\ updated' = now
  /\ \/ /\ Delay <= 0
        /\ Len(grants) < MaxCalls
        /\ tokens' = Refilled - Minute
        /\ last' = now
        /\ grants' = Append(grants, now)
        /\ call' = [call EXCEPT ![t].pc = "request"]
     \/ /\ Delay > 0
        /\ tokens' = Refilled
        /\ call' = [call EXCEPT ![t].wake = now + Delay]
        /\ UNCHANGED <<last, grants>>
  /\ UNCHANGED <<now, rate>>

(* The call succeeds, or fails for good. *)
Answer(t) ==
  /\ call[t].pc = "request"
  /\ call' = [call EXCEPT ![t] = Idle]
  /\ UNCHANGED <<now, rate, tokens, updated, last, grants>>

(* A 429 with retries left: the thread waits and asks the limiter again. *)
TooManyRequests(t) ==
  /\ call[t].pc = "request"
  /\ call[t].attempt < MaxRetries
  /\ \E wait \in RetryAfter :
       call' = [call EXCEPT ![t] = [pc |-> "acquire", attempt |-> @.attempt + 1, wake |-> now + wait]]
  /\ UNCHANGED <<now, rate, tokens, updated, last, grants>>

(* Mutant: a new limit fills the bucket. *)
ConfigureFilling(r) ==
  /\ rate' = r
  /\ tokens' = r * Minute
  /\ UNCHANGED <<now, updated, last, call, grants>>

(* configure, when an administrator sets another limit. *)
Configure(r) ==
  /\ rate' = r
  /\ tokens' = AtMost(tokens, r * Minute)
  /\ UNCHANGED <<now, updated, last, call, grants>>

Next ==
  \/ Tick
  \/ \E t \in Threads : StartCall(t) \/ Acquire(t) \/ Answer(t) \/ TooManyRequests(t)
  \/ \E r \in Rates : Configure(r)

Spec == Init /\ [][Next]_vars

-----------------------------------------------------------------------------
(* Types; the bucket is never overdrawn and never holds more than a limit. *)
TypeOK ==
  /\ now \in Nat
  /\ rate \in Rates
  /\ tokens \in 0..Capacity
  /\ updated \in 0..now
  /\ last \in Int
  /\ call \in [Threads -> Calls]
  /\ grants \in Seq(0..now)

(* acquire: whichever threads compete, whenever they wake up and however   *)
(* the limit is changed, no stretch of time sees more requests than a full *)
(* bucket and what is refilled during the stretch at the highest limit.    *)
BurstIsBounded ==
  \A j \in 1..Len(grants) : \A i \in 1..j :
    (j - i + 1) * Minute <= MaxRate * Minute + MaxRate * (grants[j] - grants[i])

(* min_interval: two requests, also of different threads, keep the gap.    *)
RequestsKeepTheGap ==
  \A i \in 1..(Len(grants) - 1) : grants[i + 1] - grants[i] >= Gap
=============================================================================
