----------------------------- MODULE RateLimit -----------------------------
(***************************************************************************)
(* The in-memory fixed-window limiter every API route calls first          *)
(* (apps/web/lib/server/rate-limit.ts).  A key is one scope and one client *)
(* address; its bucket starts with its first request, lasts a window, and  *)
(* is replaced by the first request after it.  Buckets are never evicted.  *)
(***************************************************************************)
EXTENDS Integers, Sequences

CONSTANTS
  Keys,         \* `${scope}:${ip}`
  MaxRequests,  \* options.maxRequests
  Window,       \* options.windowMs
  MaxTime,      \* bound: the clock stops here
  MaxCount      \* bound: requests counted in one bucket

ASSUME RateAssumption == /\ MaxRequests \in Nat \ {0}
                         /\ Window \in Nat \ {0}
                         /\ MaxTime \in Nat /\ MaxCount \in Nat

VARIABLES
  now,      \* Date.now()
  buckets,  \* buckets[k] = [count, resetAt]; count 0 while there is no bucket
  accepts   \* history: accepts[k] is the sequence of times k was let through

vars == <<now, buckets, accepts>>

NoBucket == [count |-> 0, resetAt |-> 0]

Init == /\ now = 0
        /\ buckets = [k \in Keys |-> NoBucket]
        /\ accepts = [k \in Keys |-> <<>>]

\* Faulty: the bucket ends a tick early.
Expired_TooEarly(k) == buckets[k].count = 0 \/ buckets[k].resetAt - 1 <= now

Expired(k) == buckets[k].count = 0 \/ buckets[k].resetAt <= now

Accept(k) == accepts' = [accepts EXCEPT ![k] = Append(@, now)]

\* The first request of a window opens a bucket and is always let through.
Open(k) ==
  /\ Expired(k)
  /\ buckets' = [buckets EXCEPT ![k] = [count |-> 1, resetAt |-> now + Window]]
  /\ Accept(k)
  /\ UNCHANGED now

\* Faulty: every request pushes the end of the bucket back.
Within_Sliding(k) ==
  /\ ~Expired(k)
  /\ buckets[k].count < MaxCount
  /\ buckets' = [buckets EXCEPT ![k].count = @ + 1, ![k].resetAt = now + Window]

\* A later request of the window is counted, whether it passes or not.
Within(k) ==
  /\ ~Expired(k)
  /\ buckets[k].count < MaxCount
  /\ buckets' = [buckets EXCEPT ![k].count = @ + 1]

Pass(k) ==
  /\ Within(k)
  /\ buckets'[k].count <= MaxRequests
  /\ Accept(k)
  /\ UNCHANGED now

Refuse(k) ==
  /\ Within(k)
  /\ buckets'[k].count > MaxRequests
  /\ UNCHANGED <<now, accepts>>

Tick == now < MaxTime /\ now' = now + 1 /\ UNCHANGED <<buckets, accepts>>

\* The bounded clock is at its end.
Stop == now = MaxTime /\ UNCHANGED vars

Next == (\E k \in Keys : Open(k) \/ Pass(k) \/ Refuse(k)) \/ Tick \/ Stop

Spec == Init /\ [][Next]_vars
-----------------------------------------------------------------------------
(* Properties *)

\* Every variable has its type; no bucket outlives a window.
TypeOK ==
  /\ now \in Nat
  /\ buckets \in [Keys -> [count : Nat, resetAt : 0 .. now + Window]]
  /\ accepts \in [Keys -> Seq(Nat)]

\* However requests straddle the end of a window, any 2 * MaxRequests of them
\* that were let through in a row span at least a window: a key never gets more
\* than 2 * MaxRequests - 1 through in less than a window.
BurstsBounded ==
  \A k \in Keys : \A i \in 1 .. Len(accepts[k]) :
    i + 2 * MaxRequests - 1 <= Len(accepts[k]) =>
      accepts[k][i + 2 * MaxRequests - 1] - accepts[k][i] >= Window

\* A request is refused only when MaxRequests of the same key were let through
\* less than a window ago: refused requests do not prolong the refusal.
RefusedOnlyWhenBusy ==
  [][\A k \in Keys :
       Refuse(k) => /\ Len(accepts[k]) >= MaxRequests
                    /\ accepts[k][Len(accepts[k]) - MaxRequests + 1] > now - Window]_vars
=============================================================================
