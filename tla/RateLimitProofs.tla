--------------------------- MODULE RateLimitProofs ---------------------------
(***************************************************************************)
(* The properties of RateLimit for any keys, limit and window.  Keys do    *)
(* not touch each other, so the invariant is one of a key: its history a,  *)
(* its bucket b and the time t.  The bucket remembers where in the history *)
(* it started, and that the one before it had started a window earlier.    *)
(***************************************************************************)
EXTENDS RateLimit, TLAPS

Bucket == [count : Nat, resetAt : Nat]

Ordered(a, t) ==
  \A i, j \in 1 .. Len(a) : (i <= j => a[i] <= a[j]) /\ a[i] <= t

\* The bucket started at the j-th request that was let through, and has let
\* through all since.  More than MaxRequests before it, a window had passed.
StartsAt(a, b, j) ==
  /\ a[j] = b.resetAt - Window
  /\ Len(a) - j < MaxRequests
  /\ b.count >= Len(a) - j + 1
  /\ Len(a) - j + 1 < MaxRequests => b.count = Len(a) - j + 1
  /\ j > MaxRequests => a[j - MaxRequests] + Window <= a[j]

Bursts(a) ==
  \A i \in 1 .. Len(a) :
    i + 2 * MaxRequests - 1 <= Len(a) => a[i + 2 * MaxRequests - 1] - a[i] >= Window

KeyInv(a, b, t) ==
  /\ a \in Seq(Nat) /\ b \in Bucket /\ t \in Nat
  /\ b.resetAt <= t + Window
  /\ Ordered(a, t)
  /\ b.count = 0 => a = <<>>
  /\ b.count > 0 => \E j \in 1 .. Len(a) : StartsAt(a, b, j)
  /\ Bursts(a)

IInv ==
  /\ buckets \in [Keys -> Bucket] /\ accepts \in [Keys -> Seq(Nat)] /\ now \in Nat
  /\ \A k \in Keys : KeyInv(accepts[k], buckets[k], now)

-----------------------------------------------------------------------------
\* What appending to a history does.
LEMMA Appended ==
  ASSUME NEW a \in Seq(Nat), NEW t \in Nat, Ordered(a, t)
  PROVE  /\ Append(a, t) \in Seq(Nat)
         /\ Len(Append(a, t)) = Len(a) + 1 /\ Len(a) \in Nat
         /\ \A i \in 1 .. Len(a) : Append(a, t)[i] = a[i] /\ a[i] \in Nat
         /\ Append(a, t)[Len(a) + 1] = t
         /\ Ordered(Append(a, t), t)
<1>1. /\ Append(a, t) \in Seq(Nat)
      /\ Len(Append(a, t)) = Len(a) + 1 /\ Len(a) \in Nat
      /\ \A i \in 1 .. Len(a) : Append(a, t)[i] = a[i] /\ a[i] \in Nat
      /\ Append(a, t)[Len(a) + 1] = t
  OBVIOUS
<1>2. Ordered(Append(a, t), t)
  BY <1>1 DEF Ordered
<1> QED BY <1>1, <1>2

\* The first request of a window: all the earlier ones that count against the
\* bound came before the last window began.
LEMMA OpenKeeps ==
  ASSUME NEW a, NEW b, NEW t, KeyInv(a, b, t), b.count = 0 \/ b.resetAt <= t
  PROVE  KeyInv(Append(a, t), [count |-> 1, resetAt |-> t + Window], t)
<1> DEFINE a1 == Append(a, t)
           b1 == [count |-> 1, resetAt |-> t + Window]
           n  == Len(a)
<1> USE RateAssumption
<1>1. /\ a \in Seq(Nat) /\ b \in Bucket /\ t \in Nat /\ Ordered(a, t) /\ Bursts(a)
  BY DEF KeyInv
<1>2. /\ a1 \in Seq(Nat) /\ Len(a1) = n + 1 /\ n \in Nat
      /\ \A i \in 1 .. n : a1[i] = a[i] /\ a[i] \in Nat
      /\ a1[n + 1] = t /\ Ordered(a1, t)
  BY <1>1, Appended
<1>3. b1 \in Bucket /\ b1.count = 1 /\ b1.resetAt = t + Window
  BY <1>1 DEF Bucket
<1>4. ASSUME NEW i \in 1 .. n, i <= n - MaxRequests + 1
      PROVE  a[i] + Window <= t
  <2>1. b.count > 0 /\ b.resetAt <= t
    BY <1>1, <1>2, <1>4 DEF KeyInv, Bucket
  <2>2. PICK j \in 1 .. n : StartsAt(a, b, j)
    BY <2>1 DEF KeyInv
  <2>3. a[j] = b.resetAt - Window /\ i <= j
    BY <1>2, <1>4, <2>2 DEF StartsAt
  <2>4. a[i] <= a[j]
    BY <1>1, <1>4, <2>3 DEF Ordered
  <2> QED BY <1>1, <1>2, <2>1, <2>3, <2>4 DEF Bucket
<1>5. StartsAt(a1, b1, n + 1)
  <2>1. n + 1 > MaxRequests => a1[n + 1 - MaxRequests] + Window <= a1[n + 1]
    <3> SUFFICES ASSUME n + 1 > MaxRequests
                 PROVE  a1[n + 1 - MaxRequests] + Window <= a1[n + 1]
      OBVIOUS
    <3>1. n + 1 - MaxRequests \in 1 .. n
      BY <1>2
    <3> QED BY <1>2, <1>4, <3>1
  <2> QED BY <1>1, <1>2, <1>3, <2>1 DEF StartsAt
<1>6. Bursts(a1)
  <2> SUFFICES ASSUME NEW i \in 1 .. n + 1, i + 2 * MaxRequests - 1 <= n + 1
               PROVE  a1[i + 2 * MaxRequests - 1] - a1[i] >= Window
    BY <1>2 DEF Bursts
  <2>1. CASE i + 2 * MaxRequests - 1 <= n
    <3>1. i \in 1 .. n /\ i + 2 * MaxRequests - 1 \in 1 .. n
      BY <1>2, <2>1
    <3> QED BY <1>1, <1>2, <2>1, <3>1 DEF Bursts
  <2>2. CASE i + 2 * MaxRequests - 1 = n + 1 /\ i # n + 1
    <3>1. i \in 1 .. n /\ i <= n - MaxRequests + 1
      BY <1>2, <2>2
    <3>2. a[i] + Window <= t /\ a1[i] = a[i] /\ a[i] \in Nat
      BY <1>2, <1>4, <3>1
    <3> QED BY <1>1, <1>2, <2>2, <3>2
  <2> QED BY <1>2, <2>1, <2>2
<1> QED
  BY <1>1, <1>2, <1>3, <1>5, <1>6 DEF KeyInv

\* A later request that is let through: a whole window lies between the start of
\* its bucket and the start of the one before.
LEMMA PassKeeps ==
  ASSUME NEW a, NEW b, NEW t, KeyInv(a, b, t), b.count > 0, b.resetAt > t,
         b.count + 1 <= MaxRequests,
         NEW b1 \in Bucket, b1.count = b.count + 1, b1.resetAt = b.resetAt
  PROVE  KeyInv(Append(a, t), b1, t)
<1> DEFINE a1 == Append(a, t)
           n  == Len(a)
<1> USE RateAssumption
<1>1. /\ a \in Seq(Nat) /\ b \in Bucket /\ t \in Nat /\ Ordered(a, t) /\ Bursts(a)
      /\ b.resetAt <= t + Window
  BY DEF KeyInv
<1>2. /\ a1 \in Seq(Nat) /\ Len(a1) = n + 1 /\ n \in Nat
      /\ \A i \in 1 .. n : a1[i] = a[i] /\ a[i] \in Nat
      /\ a1[n + 1] = t /\ Ordered(a1, t)
  BY <1>1, Appended
<1>3. b.count \in Nat /\ b.resetAt \in Nat
  BY <1>1 DEF Bucket
<1>4. PICK j \in 1 .. n : StartsAt(a, b, j)
  BY DEF KeyInv
<1>5. /\ a[j] = b.resetAt - Window /\ b.count = n - j + 1 /\ n - j + 2 <= MaxRequests
      /\ j > MaxRequests => a[j - MaxRequests] + Window <= a[j]
  BY <1>2, <1>3, <1>4 DEF StartsAt
<1>6. StartsAt(a1, b1, j)
  <2>1. j > MaxRequests => a1[j - MaxRequests] + Window <= a1[j]
    <3> SUFFICES ASSUME j > MaxRequests PROVE a1[j - MaxRequests] + Window <= a1[j]
      OBVIOUS
    <3>1. j - MaxRequests \in 1 .. n
      BY <1>2
    <3> QED BY <1>2, <1>5, <3>1
  <2> QED BY <1>2, <1>3, <1>5, <2>1 DEF StartsAt
<1>7. Bursts(a1)
  <2> SUFFICES ASSUME NEW i \in 1 .. n + 1, i + 2 * MaxRequests - 1 <= n + 1
               PROVE  a1[i + 2 * MaxRequests - 1] - a1[i] >= Window
    BY <1>2 DEF Bursts
  <2>1. CASE i + 2 * MaxRequests - 1 <= n
    <3>1. i \in 1 .. n /\ i + 2 * MaxRequests - 1 \in 1 .. n
      BY <1>2, <2>1
    <3> QED BY <1>1, <1>2, <2>1, <3>1 DEF Bursts
  <2>2. CASE i + 2 * MaxRequests - 1 = n + 1
    <3>1. n - j + 2 <= MaxRequests /\ n \in Nat /\ i \in Nat /\ j \in 1 .. n
      BY <1>2, <1>5
    <3>2. i \in 1 .. n /\ j - MaxRequests \in 1 .. n /\ i <= j - MaxRequests
      BY <2>2, <3>1
    <3>3. a[j - MaxRequests] + Window <= a[j]
      BY <1>5, <3>1, <3>2
    <3>4. a[i] <= a[j - MaxRequests] /\ a[j] <= t
      BY <1>1, <3>1, <3>2 DEF Ordered
    <3>5. a[i] \in Nat /\ a[j] \in Nat /\ a[j - MaxRequests] \in Nat /\ a1[i] = a[i]
      BY <1>2, <3>1, <3>2
    <3>6. a1[i + 2 * MaxRequests - 1] = t
      BY <1>2, <2>2
    <3>7. \A x, y, z, u \in Nat :
            y + Window <= z /\ x <= y /\ z <= u => u - x >= Window
      OBVIOUS
    <3>8. t - a[i] >= Window
      BY <1>1, <3>3, <3>4, <3>5, <3>7, Zenon
    <3> QED BY <3>5, <3>6, <3>8
  <2> QED BY <1>2, <2>1, <2>2
<1> QED
  BY <1>1, <1>2, <1>3, <1>6, <1>7 DEF KeyInv

\* A request that is refused is counted, and nothing else.
LEMMA RefuseKeeps ==
  ASSUME NEW a, NEW b, NEW t, KeyInv(a, b, t), b.count > 0, b.count + 1 > MaxRequests,
         NEW b1 \in Bucket, b1.count = b.count + 1, b1.resetAt = b.resetAt
  PROVE  KeyInv(a, b1, t)
<1> USE RateAssumption
<1>1. b.count \in Nat
  BY DEF KeyInv, Bucket
<1>2. PICK j \in 1 .. Len(a) : StartsAt(a, b, j)
  BY DEF KeyInv
<1>3. Len(a) \in Nat
  BY DEF KeyInv
<1>4. StartsAt(a, b1, j)
  BY <1>1, <1>2, <1>3 DEF StartsAt
<1> QED BY <1>1, <1>4 DEF KeyInv

\* A bucket that refuses has let MaxRequests through since it started.
LEMMA FullBucket ==
  ASSUME NEW a, NEW b, NEW t, KeyInv(a, b, t), b.count > 0, b.resetAt > t,
         b.count + 1 > MaxRequests
  PROVE  Len(a) >= MaxRequests /\ a[Len(a) - MaxRequests + 1] > t - Window
<1>1. Len(a) \in Nat /\ b.count \in Nat /\ b.resetAt \in Nat /\ t \in Nat
  BY DEF KeyInv, Bucket
<1>2. PICK j \in 1 .. Len(a) : StartsAt(a, b, j)
  BY DEF KeyInv
<1>3. a[j] = b.resetAt - Window
  BY <1>2 DEF StartsAt
<1>4. j = Len(a) - MaxRequests + 1
  BY <1>1, <1>2, RateAssumption DEF StartsAt
<1>5. Len(a) >= MaxRequests
  BY <1>1, <1>2, <1>4, RateAssumption
<1>6. a[Len(a) - MaxRequests + 1] = b.resetAt - Window
  BY <1>3, <1>4
<1> QED BY <1>1, <1>5, <1>6, RateAssumption

\* Time passes.
LEMMA LaterKeeps ==
  ASSUME NEW a, NEW b, NEW t, KeyInv(a, b, t)
  PROVE  KeyInv(a, b, t + 1)
<1>1. a \in Seq(Nat) /\ b \in Bucket /\ t \in Nat /\ t + 1 \in Nat /\ Ordered(a, t)
  BY DEF KeyInv
<1>2. Ordered(a, t + 1)
  BY <1>1 DEF Ordered
<1>3. b.resetAt <= t + 1 + Window
  BY <1>1, RateAssumption DEF KeyInv, Bucket
<1> QED BY <1>1, <1>2, <1>3 DEF KeyInv

-----------------------------------------------------------------------------
LEMMA InitIInv == Init => IInv
<1> SUFFICES ASSUME Init PROVE IInv
  OBVIOUS
<1>1. NoBucket \in Bucket /\ NoBucket.count = 0 /\ NoBucket.resetAt = 0
  BY DEF NoBucket, Bucket
<1>2. <<>> \in Seq(Nat) /\ Len(<<>>) = 0
  OBVIOUS
<1>3. KeyInv(<<>>, NoBucket, 0)
  BY <1>1, <1>2, RateAssumption DEF KeyInv, Ordered, Bursts
<1> QED BY <1>1, <1>2, <1>3 DEF Init, IInv

LEMMA StepIInv == IInv /\ [Next]_vars => IInv'
<1> SUFFICES ASSUME IInv, [Next]_vars PROVE IInv'
  OBVIOUS
<1> USE RateAssumption
<1>1. ASSUME NEW k \in Keys, UNCHANGED now, NEW b1 \in Bucket, NEW a1 \in Seq(Nat),
             buckets' = [buckets EXCEPT ![k] = b1], accepts' = [accepts EXCEPT ![k] = a1],
             KeyInv(a1, b1, now)
      PROVE  IInv'
  <2>1. /\ buckets' \in [Keys -> Bucket] /\ accepts' \in [Keys -> Seq(Nat)] /\ now' \in Nat
        /\ \A q \in Keys : /\ q = k => buckets'[q] = b1 /\ accepts'[q] = a1
                           /\ q # k => buckets'[q] = buckets[q] /\ accepts'[q] = accepts[q]
    BY <1>1 DEF IInv
  <2>2. ASSUME NEW q \in Keys PROVE KeyInv(accepts'[q], buckets'[q], now')
    <3>1. CASE q = k
      BY <1>1, <2>1, <3>1
    <3>2. CASE q # k
      BY <1>1, <2>1, <3>2 DEF IInv
    <3> QED BY <3>1, <3>2
  <2> QED BY <2>1, <2>2 DEF IInv
<1>2. ASSUME NEW k \in Keys, Open(k) PROVE IInv'
  <2>1. KeyInv(Append(accepts[k], now), [count |-> 1, resetAt |-> now + Window], now)
    BY <1>2, OpenKeeps DEF Open, Expired, IInv
  <2>2. /\ UNCHANGED now
        /\ buckets' = [buckets EXCEPT ![k] = [count |-> 1, resetAt |-> now + Window]]
        /\ accepts' = [accepts EXCEPT ![k] = Append(accepts[k], now)]
    BY <1>2 DEF Open, Accept
  <2>3. /\ Append(accepts[k], now) \in Seq(Nat)
        /\ [count |-> 1, resetAt |-> now + Window] \in Bucket
    BY <2>1 DEF KeyInv
  <2> QED BY <1>1, <2>1, <2>2, <2>3
<1>3. ASSUME NEW k \in Keys, Within(k)
      PROVE  /\ buckets[k].count > 0 /\ buckets[k].resetAt > now
             /\ buckets'[k] \in Bucket
             /\ buckets' = [buckets EXCEPT ![k] = buckets'[k]]
             /\ buckets'[k].count = buckets[k].count + 1
             /\ buckets'[k].resetAt = buckets[k].resetAt
  BY <1>3 DEF Within, Expired, IInv, Bucket
<1>4. ASSUME NEW k \in Keys, Pass(k) PROVE IInv'
  <2>1. /\ Within(k) /\ buckets'[k].count <= MaxRequests /\ UNCHANGED now
        /\ accepts' = [accepts EXCEPT ![k] = Append(accepts[k], now)]
    BY <1>4 DEF Pass, Accept
  <2>2. KeyInv(Append(accepts[k], now), buckets'[k], now)
    BY <1>3, <2>1, PassKeeps DEF IInv
  <2>3. Append(accepts[k], now) \in Seq(Nat)
    BY <2>2 DEF KeyInv
  <2> QED BY <1>1, <1>3, <2>1, <2>2, <2>3
<1>5. ASSUME NEW k \in Keys, Refuse(k) PROVE IInv'
  <2>1. Within(k) /\ buckets'[k].count > MaxRequests /\ UNCHANGED <<now, accepts>>
    BY <1>5 DEF Refuse
  <2>2. KeyInv(accepts[k], buckets'[k], now)
    BY <1>3, <2>1, RefuseKeeps DEF IInv
  <2>3. accepts[k] \in Seq(Nat) /\ accepts' = [accepts EXCEPT ![k] = accepts[k]]
    BY <2>1 DEF IInv
  <2> QED BY <1>1, <1>3, <2>1, <2>2, <2>3
<1>6. CASE Tick
  <2>1. now' = now + 1 /\ UNCHANGED <<buckets, accepts>>
    BY <1>6 DEF Tick
  <2>2. ASSUME NEW k \in Keys PROVE KeyInv(accepts[k], buckets[k], now + 1)
    BY LaterKeeps DEF IInv
  <2> QED BY <2>1, <2>2 DEF IInv
<1>7. CASE UNCHANGED vars
  BY <1>7 DEF vars, IInv
<1> QED
  BY <1>2, <1>4, <1>5, <1>6, <1>7 DEF Next, Stop

LEMMA InductiveInvariant == Spec => []IInv
BY InitIInv, StepIInv, PTL DEF Spec

-----------------------------------------------------------------------------
\* A bucket ends at most a window from now.
THEOREM TypeCorrect == Spec => []TypeOK
<1>1. IInv => TypeOK
  <2> SUFFICES ASSUME IInv PROVE TypeOK
    OBVIOUS
  <2>1. ASSUME NEW k \in Keys
        PROVE  buckets[k] \in [count : Nat, resetAt : 0 .. now + Window]
    BY RateAssumption DEF IInv, KeyInv, Bucket
  <2> QED BY <2>1 DEF IInv, TypeOK
<1> QED BY <1>1, InductiveInvariant, PTL

\* However requests straddle the end of a window, a key gets fewer than
\* 2 * MaxRequests through in less than a window.
THEOREM BurstsAreBounded == Spec => []BurstsBounded
<1>1. IInv => BurstsBounded
  BY DEF IInv, KeyInv, Bursts, BurstsBounded
<1> QED BY <1>1, InductiveInvariant, PTL

\* A refusal means that MaxRequests were let through less than a window ago.
THEOREM RefusalsJustified == Spec => RefusedOnlyWhenBusy
<1> USE RateAssumption
<1>1. ASSUME IInv, NEW k \in Keys, Refuse(k)
      PROVE  /\ Len(accepts[k]) >= MaxRequests
             /\ accepts[k][Len(accepts[k]) - MaxRequests + 1] > now - Window
  <2>1. KeyInv(accepts[k], buckets[k], now) /\ buckets[k] \in Bucket
    BY <1>1 DEF IInv
  <2>2. /\ buckets[k].count > 0 /\ buckets[k].resetAt > now
        /\ buckets[k].count + 1 > MaxRequests
    BY <1>1, <2>1 DEF Refuse, Within, Expired, IInv, Bucket
  <2> QED BY <2>1, <2>2, FullBucket
<1>2. IInv /\ [Next]_vars =>
        [\A k \in Keys :
           Refuse(k) => /\ Len(accepts[k]) >= MaxRequests
                        /\ accepts[k][Len(accepts[k]) - MaxRequests + 1] > now - Window]_vars
  BY <1>1
<1> QED BY <1>2, InductiveInvariant, PTL DEF Spec, RefusedOnlyWhenBusy
=============================================================================
