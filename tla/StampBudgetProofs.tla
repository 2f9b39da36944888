------------------------- MODULE StampBudgetProofs -------------------------
(***************************************************************************)
(* Proofs about the file-backed stamp budget, for any finite number of     *)
(* requests, any clients, days and limits.  The inductive invariant is     *)
(* built in layers, each proved with the help of those before it: types    *)
(* and lock, slots, order of days, the counts in memory and on disk, and   *)
(* who is late after midnight.  The last part is about StampPipeline.      *)
(***************************************************************************)
EXTENDS StampPipeline, FiniteSetTheorems, SequenceTheorems, TLAPS

-----------------------------------------------------------------------------
(* The inductive invariant *)

\* As TypeOK, but that the slot counter never goes below zero is left to SlotInv.
Types ==
  /\ day \in 0 .. MaxDay
  /\ pc \in [Requests -> Inside \cup {"idle", "done"}]
  /\ client \in [Requests -> Clients \cup {NoClient}]
  /\ dayKey \in [Requests -> 0 .. MaxDay \cup {NoDay}]
  /\ active \in Int
  /\ queue \in Seq(Requests)
  /\ file \in [day : 0 .. MaxDay \cup {NoDay}, total : Nat, byIp : [Clients -> Nat]]
  /\ snap \in [Requests -> [total : Nat, byIp : [Clients -> Nat]]]
  /\ charged \in SUBSET Requests
  /\ grantDay \in [Requests -> 0 .. MaxDay \cup {NoDay}]

\* The lock's chain holds each reserving request once; only its head is past
\* the lock.
LockInv ==
  /\ \A i \in 1 .. Len(queue) : pc[queue[i]] \in Reserving
  /\ \A i, j \in 1 .. Len(queue) : queue[i] = queue[j] => i = j
  /\ \A r \in Requests : pc[r] \in Reserving => \E i \in 1 .. Len(queue) : queue[i] = r
  /\ \A r \in Requests : pc[r] \in Critical => queue # <<>> /\ queue[1] = r

SlotSet == {r \in Requests : pc[r] \in Inside}
SlotInv == active = Cardinality(SlotSet) /\ active <= Concurrency

\* Days grow along the chain, and the file is never ahead of it.
DayInv ==
  /\ \A i, j \in 1 .. Len(queue) : i <= j => dayKey[queue[i]] <= dayKey[queue[j]]
  /\ \A r \in Requests : dayKey[r] <= day
  /\ \A r \in Requests : pc[r] \in Reserving => /\ file.day <= dayKey[r]
                                                /\ dayKey[r] \in 0 .. MaxDay
                                                /\ client[r] \in Clients
  /\ file.day <= day

\* Which requests are charged, by where they are and by day.
ChargeInv ==
  /\ \A r \in Requests : pc[r] \in {"idle", "waiting", "checking", "writing"} => r \notin charged
  /\ \A r \in Requests : pc[r] = "renamed" => r \in charged /\ grantDay[r] = NoDay
  /\ \A r \in Requests : grantDay[r] # NoDay => r \in charged
  /\ \A r \in charged : /\ dayKey[r] \in 0 .. MaxDay /\ dayKey[r] <= file.day
                         /\ client[r] \in Clients

\* A request past the check holds what the file said, plus itself.
SnapInv ==
  \A r \in Requests :
    /\ pc[r] = "checking" => snap[r] = DayOf(dayKey[r])
    /\ pc[r] = "writing" =>
         /\ snap[r] = CountFor(DayOf(dayKey[r]), client[r])
         /\ snap[r].total <= GlobalDailyLimit
         /\ snap[r].byIp[client[r]] <= IpDailyLimit

Limits ==
  \A d \in 0 .. MaxDay :
    /\ Cardinality(ChargedTo(d)) <= GlobalDailyLimit
    /\ \A c \in Clients : Cardinality(ChargedBy(d, c)) <= IpDailyLimit

-----------------------------------------------------------------------------
(* Types and lock *)

\* Counting a request keeps the shape of a day's counts.
LEMMA CountForType ==
  ASSUME NEW d \in [total : Nat, byIp : [Clients -> Nat]], NEW c
  PROVE  CountFor(d, c) \in [total : Nat, byIp : [Clients -> Nat]]
<1>1. d.total + 1 \in Nat /\ d.byIp \in [Clients -> Nat]
  OBVIOUS
<1>2. ASSUME NEW f \in [Clients -> Nat]
      PROVE  [f EXCEPT ![c] = @ + 1] \in [Clients -> Nat]
  <2>1. CASE c \in Clients
    BY <2>1
  <2>2. CASE c \notin Clients
    BY <2>2
  <2> QED
    BY <2>1, <2>2
<1> QED
  BY <1>1, <1>2 DEF CountFor

\* First layer: every step keeps the types and the chain of promises in order
\* (budgetLock of reservePublicStampBudget); the cases are the actions of Next.
LEMMA TypesAndLock == Spec => [](Types /\ LockInv)
<1> USE LimitsAssumption DEF NoDay, NoClient, Inside, Reserving, Critical
<1>1. Init => Types /\ LockInv
  BY DEF Init, Zero, Types, LockInv
<1>2. Types /\ LockInv /\ [Next]_vars => (Types /\ LockInv)'
  <2> SUFFICES ASSUME Types, LockInv, [Next]_vars
               PROVE  (Types /\ LockInv)'
    OBVIOUS
  <2> /\ Len(queue) \in Nat
      /\ \A i \in 1 .. Len(queue) : queue[i] \in Requests
    <3>1. queue \in Seq(Requests)
      BY DEF Types
    <3> QED
      BY <3>1, ElementOfSeq, LenProperties
  <2>1. ASSUME NEW r \in Requests, NEW c \in Clients, Enter(r, c)
        PROVE  (Types /\ LockInv)'
    <3>1. Types'
      BY <2>1 DEF Types, Enter, Goto
    <3>2. /\ Len(queue') = Len(queue) + 1
          /\ \A i \in 1 .. Len(queue) : queue'[i] = queue[i]
          /\ queue'[Len(queue) + 1] = r
          /\ Len(queue) \in Nat
      BY <2>1, AppendProperties DEF Types, Enter
    <3>3. \A i \in 1 .. Len(queue) : queue[i] \in Requests /\ queue[i] # r
      BY <2>1 DEF Types, LockInv, Enter
    <3>4. LockInv'
      <4>1. \A i \in 1 .. Len(queue') : i = Len(queue) + 1 \/ i \in 1 .. Len(queue)
        BY <3>2
      <4>2. \A s \in Requests : s # r => pc'[s] = pc[s]
        BY <2>1 DEF Types, Enter, Goto
      <4>3. pc'[r] = "waiting"
        BY <2>1 DEF Types, Enter, Goto
      <4>4. \A i \in 1 .. Len(queue') : pc'[queue'[i]] \in Reserving
        BY <3>2, <3>3, <4>1, <4>2, <4>3 DEF LockInv
      <4>5. \A i, j \in 1 .. Len(queue') : queue'[i] = queue'[j] => i = j
        BY <3>2, <3>3, <4>1 DEF LockInv
      <4>6. ASSUME NEW s \in Requests, pc'[s] \in Reserving
            PROVE  \E i \in 1 .. Len(queue') : queue'[i] = s
        <5>1. CASE s = r
          BY <3>2, <5>1
        <5>2. CASE s # r
          <6>1. PICK i \in 1 .. Len(queue) : queue[i] = s
            BY <4>2, <4>6, <5>2 DEF LockInv
          <6> QED
            BY <6>1, <3>2
        <5> QED
          BY <5>1, <5>2
      <4>7. \A s \in Requests : pc'[s] \in Critical => queue' # <<>> /\ queue'[1] = s
        <5> SUFFICES ASSUME NEW s \in Requests, pc'[s] \in Critical
                     PROVE  queue' # <<>> /\ queue'[1] = s
          OBVIOUS
        <5>1. s # r /\ pc[s] \in Critical
          BY <4>2, <4>3
        <5>2. queue # <<>> /\ queue[1] = s
          BY <5>1 DEF LockInv
        <5>3. 1 \in 1 .. Len(queue)
          BY <5>2 DEF Types
        <5> QED
          BY <5>2, <5>3, <3>2
      <4> QED
        BY <4>4, <4>5, <4>6, <4>7 DEF LockInv
    <3> QED
      BY <3>1, <3>4
  \* Every way out of the lock pops its own entry off the chain.
  <2>2. ASSUME NEW r \in Requests, queue # <<>>, queue[1] = r,
               Release, NEW l \in {"leaving", "publishing"}, Goto(r, l)
        PROVE  LockInv'
    <3>1. /\ Len(queue') = Len(queue) - 1
          /\ \A i \in 1 .. Len(queue') : queue'[i] = queue[i + 1] /\ i + 1 \in 1 .. Len(queue)
          /\ Len(queue) > 0
      BY <2>2, HeadTailProperties DEF Types, Release
    <3>2. \A i \in 1 .. Len(queue') : queue'[i] \in Requests /\ queue'[i] # r
      <4> TAKE i \in 1 .. Len(queue')
      <4>1. i + 1 \in 1 .. Len(queue) /\ i + 1 # 1 /\ 1 \in 1 .. Len(queue)
        BY <3>1
      <4>2. queue[i + 1] # queue[1]
        BY <4>1 DEF LockInv
      <4> QED
        BY <3>1, <4>1, <4>2, <2>2
    <3>3. pc'[r] = l /\ \A s \in Requests : s # r => pc'[s] = pc[s]
      BY <2>2 DEF Types, Goto
    <3>4. \A i \in 1 .. Len(queue') : pc'[queue'[i]] \in Reserving
      BY <3>1, <3>2, <3>3 DEF LockInv
    <3>5. \A i, j \in 1 .. Len(queue') : queue'[i] = queue'[j] => i = j
      BY <3>1 DEF LockInv
    <3>6. ASSUME NEW s \in Requests, pc'[s] \in Reserving
          PROVE  \E i \in 1 .. Len(queue') : queue'[i] = s
      <4>1. s # r
        BY <3>3, <3>6
      <4>2. PICK i \in 1 .. Len(queue) : queue[i] = s
        BY <3>3, <3>6, <4>1 DEF LockInv
      <4>3. i # 1 /\ i - 1 \in 1 .. Len(queue')
        BY <4>1, <4>2, <2>2, <3>1
      <4>4. queue'[i - 1] = queue[(i - 1) + 1] /\ (i - 1) + 1 = i
        BY <4>3, <3>1
      <4> QED
        BY <4>2, <4>3, <4>4
    <3>7. \A s \in Requests : pc'[s] \notin Critical
      BY <2>2, <3>3 DEF LockInv
    <3> QED
      BY <3>4, <3>5, <3>6, <3>7 DEF LockInv
  \* A step inside the lock moves the head on and leaves the chain alone.
  <2>3. ASSUME NEW r \in Requests, queue # <<>>, queue[1] = r, pc[r] \in Reserving,
               queue' = queue, NEW l \in Critical, Goto(r, l)
        PROVE  LockInv'
    <3>1. pc'[r] = l /\ \A s \in Requests : s # r => pc'[s] = pc[s]
      BY <2>3 DEF Types, Goto
    <3>2. \A i \in 1 .. Len(queue) : queue[i] \in Requests
      BY DEF Types
    <3> QED
      BY <2>3, <3>1, <3>2 DEF LockInv
  <2>4. ASSUME NEW r \in Requests, pc[r] \in {"waiting", "checking", "writing"},
               queue # <<>>, queue[1] = r, Throw(r)
        PROVE  (Types /\ LockInv)'
    <3>1. Types'
      BY <2>4 DEF Types, Throw, Release, Goto, Zero
    <3> QED
      BY <2>2, <2>4, <3>1 DEF Throw
  <2>5. ASSUME NEW r \in Requests, Busy(r) PROVE (Types /\ LockInv)'
    <3>1. Types'
      BY <2>5 DEF Types, Busy, Goto
    <3>2. LockInv'
      BY <2>5 DEF Types, LockInv, Busy, Goto
    <3> QED
      BY <3>1, <3>2
  <2>6. ASSUME NEW r \in Requests, Read(r) PROVE (Types /\ LockInv)'
    <3>1. Types'
      BY <2>6 DEF Types, Read, Goto, DayOf, Zero
    <3> QED
      BY <2>3, <2>6, <3>1 DEF Read, MayRun
  <2>7. ASSUME NEW r \in Requests, Count(r) PROVE (Types /\ LockInv)'
    <3>1. Types'
      <4>1. snap[r] \in [total : Nat, byIp : [Clients -> Nat]]
        BY DEF Types
      <4>2. CountFor(snap[r], client[r]) \in [total : Nat, byIp : [Clients -> Nat]]
        BY <4>1, CountForType
      <4> QED
        BY <2>7, <4>2 DEF Types, Count, Goto
    <3>2. queue # <<>> /\ queue[1] = r
      BY <2>7 DEF LockInv, Count
    <3> QED
      BY <2>3, <2>7, <3>1, <3>2 DEF Count
  <2>8. ASSUME NEW r \in Requests, Rename(r) PROVE (Types /\ LockInv)'
    <3>1. Types'
      BY <2>8 DEF Types, Rename, Goto
    <3>2. queue # <<>> /\ queue[1] = r
      BY <2>8 DEF LockInv, Rename
    <3> QED
      BY <2>3, <2>8, <3>1, <3>2 DEF Rename
  <2>9. ASSUME NEW r \in Requests, Grant(r) PROVE (Types /\ LockInv)'
    <3>1. queue # <<>> /\ queue[1] = r
      BY <2>9 DEF LockInv, Grant
    <3>2. Types'
      BY <2>9, <3>1 DEF Types, Grant, Release, Goto, Zero
    <3> QED
      BY <2>2, <2>9, <3>1, <3>2 DEF Grant
  <2>10. ASSUME NEW r \in Requests, Leave(r) PROVE (Types /\ LockInv)'
    <3>1. Types'
      BY <2>10 DEF Types, Leave, Goto
    <3>2. LockInv'
      BY <2>10 DEF Types, LockInv, Leave, Goto
    <3> QED
      BY <3>1, <3>2
  <2>11. ASSUME NEW r \in Requests, ReadFails(r) \/ Refuse(r) \/ WriteFails(r)
         PROVE (Types /\ LockInv)'
    BY <2>4, <2>11 DEF ReadFails, Refuse, WriteFails, MayRun, LockInv
  <2>12. CASE Midnight
    BY <2>12 DEF Types, LockInv, Midnight
  <2>13. CASE Restart
    <3>1. Types'
      BY <2>13 DEF Types, Restart, Zero
    <3>2. LockInv'
      BY <2>13 DEF Types, LockInv, Restart
    <3> QED
      BY <3>1, <3>2
  <2>14. CASE UNCHANGED vars
    BY <2>14 DEF Types, LockInv, vars
  <2> QED
    BY <2>1, <2>5, <2>6, <2>7, <2>8, <2>9, <2>10, <2>11, <2>12, <2>13, <2>14
       DEF Next, Step, Quiescent
<1> QED
  BY <1>1, <1>2, PTL DEF Spec
-----------------------------------------------------------------------------
(* Slots *)

\* The requests inside runPublicStampOperation are finitely many, so counted.
LEMMA SlotSetFinite == IsFiniteSet(SlotSet)
BY RequestsAssumption, FS_Subset DEF SlotSet

\* Second layer: activeStampOperations counts the requests inside, at most
\* Concurrency of them: Enter adds one, Leave removes one, Restart empties both.
LEMMA Slots == Spec => []SlotInv
<1> USE LimitsAssumption DEF Inside, Reserving, Critical
<1>1. Init => SlotInv
  <2> SUFFICES ASSUME Init PROVE SlotInv
    OBVIOUS
  <2>1. SlotSet = {}
    BY DEF Init, SlotSet
  <2> QED
    BY <2>1, FS_EmptySet DEF Init, SlotInv
<1>2. Types /\ LockInv /\ SlotInv /\ [Next]_vars => SlotInv'
  <2> SUFFICES ASSUME Types, LockInv, SlotInv, [Next]_vars PROVE SlotInv'
    OBVIOUS
  <2> IsFiniteSet(SlotSet)
    BY SlotSetFinite
  <2>1. ASSUME NEW r \in Requests, NEW c \in Clients, Enter(r, c) PROVE SlotInv'
    <3>1. SlotSet' = SlotSet \cup {r} /\ r \notin SlotSet
      BY <2>1 DEF Types, Enter, Goto, SlotSet
    <3>2. Cardinality(SlotSet') = Cardinality(SlotSet) + 1
      BY <3>1, FS_AddElement
    <3> QED
      BY <2>1, <3>2 DEF Types, Enter, SlotInv
  <2>2. ASSUME NEW r \in Requests, Leave(r) PROVE SlotInv'
    <3>1. SlotSet' = SlotSet \ {r} /\ r \in SlotSet
      BY <2>2 DEF Types, Leave, Goto, SlotSet
    <3>2. Cardinality(SlotSet') = Cardinality(SlotSet) - 1
      BY <3>1, FS_RemoveElement
    <3> QED
      BY <2>2, <3>2 DEF Types, Leave, SlotInv
  <2>3. CASE Restart
    <3>1. SlotSet' = {}
      BY <2>3 DEF Types, Restart, SlotSet
    <3> QED
      BY <2>3, <3>1, FS_EmptySet DEF Restart, SlotInv
  \* A step from inside to inside, or from outside to outside, keeps the slots.
  <2>4. ASSUME UNCHANGED active, SlotSet' = SlotSet PROVE SlotInv'
    BY <2>4 DEF SlotInv
  <2>5. ASSUME NEW r \in Requests, NEW l \in Inside \cup {"done"}, Goto(r, l),
               pc[r] \in Inside <=> l \in Inside
        PROVE  SlotSet' = SlotSet
    BY <2>5 DEF Types, Goto, SlotSet
  <2>6. ASSUME NEW r \in Requests, Busy(r) PROVE SlotInv'
    BY <2>4, <2>5, <2>6 DEF Busy
  <2>7. ASSUME NEW r \in Requests, Step(r), ~Leave(r) PROVE SlotInv'
    BY <2>4, <2>5, <2>7 DEF Step, Read, ReadFails, Refuse, Count, Rename, WriteFails,
                            Grant, Throw
  <2>8. CASE Midnight
    BY <2>4, <2>8 DEF Midnight, SlotSet
  <2>9. CASE UNCHANGED vars
    BY <2>4, <2>9 DEF vars, SlotSet
  <2> QED
    BY <2>1, <2>2, <2>3, <2>6, <2>7, <2>8, <2>9 DEF Next, Quiescent
<1> QED
  BY <1>1, <1>2, TypesAndLock, PTL DEF Spec

\* Every variable keeps its type; the slot counter in particular never goes
\* below zero, since a slot is freed only by a request that took one.
THEOREM TypeCorrect == Spec => []TypeOK
<1>1. Types /\ SlotInv => TypeOK
  BY SlotSetFinite, FS_CardinalityType DEF Types, SlotInv, TypeOK
<1> QED
  BY <1>1, TypesAndLock, Slots, PTL

\* No path through a request leaks a slot or frees it twice.
THEOREM SlotsCorrect == Spec => []SlotsMatchRequests
<1>1. SlotInv => SlotsMatchRequests
  BY DEF SlotInv, SlotSet, SlotsMatchRequests
<1> QED
  BY <1>1, Slots, PTL

\* The chain of promises is a lock: one request at a time reads and rewrites.
THEOREM MutualExclusion == Spec => []OneInCriticalSection
<1>1. LockInv => OneInCriticalSection
  BY DEF LockInv, OneInCriticalSection
<1> QED
  BY <1>1, TypesAndLock, PTL
-----------------------------------------------------------------------------
(* Order of days *)

\* Third layer: a request that joins the chain has a day no earlier than those
\* before it, and only the head of the chain moves the file's day.
LEMMA Days == Spec => []DayInv
<1> USE LimitsAssumption DEF NoDay, NoClient, Inside, Reserving, Critical
<1>1. Init => DayInv
  BY DEF Init, DayInv
<1>2. Types /\ Types' /\ LockInv /\ DayInv /\ [Next]_vars => DayInv'
  <2> SUFFICES ASSUME Types, Types', LockInv, DayInv, [Next]_vars PROVE DayInv'
    OBVIOUS
  <2> /\ queue \in Seq(Requests)
      /\ Len(queue) \in Nat
      /\ \A i \in 1 .. Len(queue) : queue[i] \in Requests
    <3>1. queue \in Seq(Requests)
      BY DEF Types
    <3> QED
      BY <3>1, ElementOfSeq, LenProperties
  <2> /\ file.day \in Int /\ day \in Int
      /\ \A r \in Requests : dayKey[r] \in Int
    BY DEF Types
  <2>1. ASSUME NEW r \in Requests, NEW c \in Clients, Enter(r, c) PROVE DayInv'
    <3>1. /\ Len(queue') = Len(queue) + 1
          /\ \A i \in 1 .. Len(queue) : queue'[i] = queue[i] /\ queue[i] # r
          /\ queue'[Len(queue) + 1] = r
      BY <2>1, AppendProperties DEF LockInv, Enter
    <3>2. dayKey'[r] = day /\ \A s \in Requests : s # r => dayKey'[s] = dayKey[s]
      BY <2>1 DEF Types, Enter
    <3>3. ASSUME NEW i \in 1 .. Len(queue'), NEW j \in 1 .. Len(queue'), i <= j
          PROVE  dayKey'[queue'[i]] <= dayKey'[queue'[j]]
      <4>1. CASE j \in 1 .. Len(queue)
        <5>1. i \in 1 .. Len(queue)
          BY <3>3, <4>1
        <5> QED
          BY <3>1, <3>2, <3>3, <4>1, <5>1 DEF DayInv
      <4>2. CASE j = Len(queue) + 1 /\ i \in 1 .. Len(queue)
        BY <3>1, <3>2, <4>2 DEF DayInv
      <4>3. CASE i = Len(queue) + 1 /\ j = Len(queue) + 1
        BY <3>1, <3>2, <4>3
      <4> QED
        BY <3>1, <3>3, <4>1, <4>2, <4>3
    <3>4. \A s \in Requests : dayKey'[s] <= day'
      BY <2>1, <3>2 DEF DayInv, Enter
    <3>5. ASSUME NEW s \in Requests, pc'[s] \in Reserving
          PROVE  file'.day <= dayKey'[s] /\ dayKey'[s] \in 0 .. MaxDay /\ client'[s] \in Clients
      <4>1. CASE s = r
        BY <2>1, <3>2, <4>1 DEF Types, DayInv, Enter
      <4>2. CASE s # r
        <5>1. pc'[s] = pc[s] /\ client'[s] = client[s] /\ file' = file
          BY <2>1, <4>2 DEF Types, Enter, Goto
        <5> QED
          BY <3>2, <3>5, <4>2, <5>1 DEF DayInv
      <4> QED
        BY <4>1, <4>2
    <3> QED
      BY <2>1, <3>3, <3>4, <3>5 DEF DayInv, Enter
  \* A step that moves r along and writes nothing keeps the order.
  <2>2. ASSUME NEW r \in Requests, NEW l, Goto(r, l), l \in Reserving => pc[r] \in Reserving,
               UNCHANGED <<day, client, dayKey, file>>,
               UNCHANGED queue \/ (queue # <<>> /\ Release)
        PROVE  DayInv'
    <3>1. \A i, j \in 1 .. Len(queue') : i <= j => dayKey[queue'[i]] <= dayKey[queue'[j]]
      <4>1. CASE UNCHANGED queue
        BY <4>1 DEF DayInv
      <4>2. CASE queue # <<>> /\ Release
        <5>1. \A i \in 1 .. Len(queue') : queue'[i] = queue[i + 1] /\ i + 1 \in 1 .. Len(queue)
          BY <4>2, HeadTailProperties DEF Release
        <5>2. Len(queue') \in Nat
          BY <4>2, HeadTailProperties, LenProperties DEF Release
        <5> SUFFICES ASSUME NEW i \in 1 .. Len(queue'), NEW j \in 1 .. Len(queue'), i <= j
                     PROVE  dayKey[queue'[i]] <= dayKey[queue'[j]]
          OBVIOUS
        <5>3. i + 1 <= j + 1
          BY <5>2
        <5>4. dayKey[queue[i + 1]] <= dayKey[queue[j + 1]]
          BY <5>1, <5>3 DEF DayInv
        <5> QED
          BY <5>1, <5>4
      <4> QED
        BY <2>2, <4>1, <4>2
    <3>2. \A s \in Requests : pc'[s] \in Reserving => pc[s] \in Reserving
      BY <2>2 DEF Types, Goto
    <3> QED
      BY <2>2, <3>1, <3>2 DEF DayInv
  <2>3. ASSUME NEW r \in Requests, queue # <<>>, Throw(r) PROVE DayInv'
    BY <2>2, <2>3 DEF Throw
  <2>4. ASSUME NEW r \in Requests, Rename(r) PROVE DayInv'
    <3>1. queue # <<>> /\ queue[1] = r /\ 1 \in 1 .. Len(queue)
      BY <2>4 DEF LockInv, Rename
    <3>2. \A s \in Requests : pc[s] \in Reserving => dayKey[r] <= dayKey[s]
      <4> SUFFICES ASSUME NEW s \in Requests, pc[s] \in Reserving
                   PROVE  dayKey[r] <= dayKey[s]
        OBVIOUS
      <4>1. PICK i \in 1 .. Len(queue) : queue[i] = s
        BY DEF LockInv
      <4> QED
        BY <3>1, <4>1 DEF DayInv
    <3>3. file'.day = dayKey[r]
      BY <2>4 DEF Rename
    <3>4. \A s \in Requests : pc'[s] \in Reserving => pc[s] \in Reserving
      BY <2>4 DEF Types, Goto, Rename
    <3> QED
      BY <2>4, <3>2, <3>3, <3>4 DEF DayInv, Rename
  <2>5. ASSUME NEW r \in Requests, Busy(r) \/ Leave(r) PROVE DayInv'
    BY <2>2, <2>5 DEF Busy, Leave
  <2>6. ASSUME NEW r \in Requests, Read(r) \/ Count(r) PROVE DayInv'
    BY <2>2, <2>6 DEF Read, Count
  <2>7. ASSUME NEW r \in Requests, ReadFails(r) \/ Refuse(r) \/ WriteFails(r) PROVE DayInv'
    BY <2>3, <2>7 DEF ReadFails, Refuse, WriteFails, MayRun, LockInv
  <2>8. ASSUME NEW r \in Requests, Grant(r) PROVE DayInv'
    <3>1. queue # <<>>
      BY <2>8 DEF Grant, LockInv
    <3> QED
      BY <2>2, <2>8, <3>1 DEF Grant
  <2>9. CASE Midnight
    BY <2>9 DEF Midnight, DayInv
  <2>10. CASE Restart
    BY <2>10 DEF Restart, DayInv, Types
  <2>11. CASE UNCHANGED vars
    BY <2>11 DEF vars, DayInv
  <2> QED
    BY <2>1, <2>4, <2>5, <2>6, <2>7, <2>8, <2>9, <2>10, <2>11 DEF Next, Step, Quiescent
<1> QED
  BY <1>1, <1>2, TypesAndLock, PTL DEF Spec

\* A reservation that computed its day before midnight never overwrites the
\* counts of the new day: the chain keeps arrival order.
THEOREM DayNeverGoesBack == Spec => DayNeverReverts
<1>1. Types /\ LockInv /\ DayInv /\ [Next]_vars => [file'.day >= file.day]_file
  <2> SUFFICES ASSUME Types, LockInv, DayInv, [Next]_vars, file' # file
               PROVE  file'.day >= file.day
    OBVIOUS
  <2>1. PICK r \in Requests : Rename(r)
    BY DEF Next, Step, Enter, Busy, Read, ReadFails, Refuse, Count, WriteFails, Throw,
           Grant, Leave, Midnight, Restart, Quiescent, vars
  <2>2. file.day <= dayKey[r] /\ file'.day = dayKey[r]
    BY <2>1 DEF DayInv, Reserving, Critical, Rename
  <2> QED
    BY <2>2, LimitsAssumption DEF Types, NoDay
<1> QED
  BY <1>1, TypesAndLock, Days, PTL DEF Spec, DayNeverReverts
-----------------------------------------------------------------------------
(* Counts *)

Counts == ChargeInv /\ SnapInv /\ FileCountsCharges /\ Limits

\* The requests charged to a day, or to a client on a day, are finitely many.
LEMMA ChargedFinite ==
  ASSUME charged \in SUBSET Requests
  PROVE  /\ \A d : IsFiniteSet(ChargedTo(d))
         /\ \A d, c : IsFiniteSet(ChargedBy(d, c))
BY RequestsAssumption, FS_Subset DEF ChargedTo, ChargedBy

\* Read for any day the file has not passed, the file gives the true counts:
\* nobody is charged to a later day yet.
LEMMA DayOfCounts ==
  ASSUME Types, ChargeInv, FileCountsCharges,
         NEW d \in 0 .. MaxDay, file.day <= d
  PROVE  /\ DayOf(d).total = Cardinality(ChargedTo(d))
         /\ \A c \in Clients : DayOf(d).byIp[c] = Cardinality(ChargedBy(d, c))
         /\ DayOf(d) \in [total : Nat, byIp : [Clients -> Nat]]
<1>1. CASE file.day = d
  BY <1>1 DEF DayOf, FileCountsCharges, Types
<1>2. CASE file.day # d
  <2>1. file.day < d
    BY <1>2 DEF Types, NoDay
  <2>2. \A r \in charged : dayKey[r] # d
    BY <2>1, LimitsAssumption DEF ChargeInv, Types, NoDay
  <2>3. ChargedTo(d) = {} /\ \A c : ChargedBy(d, c) = {}
    BY <2>2 DEF ChargedTo, ChargedBy
  <2> QED
    BY <1>2, <2>3, FS_EmptySet DEF DayOf, Zero
<1> QED
  BY <1>1, <1>2

\* The one step that charges: the file and the set of charged requests move
\* together, by exactly the request that renames.
LEMMA RenameKeepsCounts ==
  ASSUME Types, LockInv, DayInv, Counts, NEW r \in Requests, Rename(r)
  PROVE  Counts'
<1> DEFINE dk == dayKey[r]
           ip == client[r]
<1> USE LimitsAssumption DEF NoDay, NoClient, Reserving, Critical
<1> /\ dk \in 0 .. MaxDay /\ ip \in Clients /\ file.day <= dk
    /\ pc[r] = "writing" /\ r \notin charged
  BY DEF DayInv, Counts, ChargeInv, Rename
<1> /\ file' = [day |-> dk, total |-> snap[r].total, byIp |-> snap[r].byIp]
    /\ charged' = charged \cup {r}
    /\ UNCHANGED <<client, dayKey, grantDay, snap>>
  BY DEF Rename
<1> pc'[r] = "renamed" /\ \A s \in Requests : s # r => pc'[s] = pc[s]
  BY DEF Types, Rename, Goto
<1>1. ChargeInv'
  <2>1. \A s \in charged' : /\ dayKey'[s] \in 0 .. MaxDay /\ dayKey'[s] <= file'.day
                             /\ client'[s] \in Clients
    BY DEF Counts, ChargeInv, Types
  <2> QED
    BY <2>1 DEF Counts, ChargeInv, Types
<1>2. SnapInv'
  <2>1. \A s \in Requests : pc'[s] \notin {"checking", "writing"}
    BY DEF LockInv
  <2> QED
    BY <2>1 DEF SnapInv
<1>3. \A d : ChargedTo(d)' = IF d = dk THEN ChargedTo(d) \cup {r} ELSE ChargedTo(d)
  BY DEF ChargedTo
<1>4. \A d, c : ChargedBy(d, c)' = IF d = dk /\ c = ip THEN ChargedBy(d, c) \cup {r}
                                                      ELSE ChargedBy(d, c)
  BY DEF ChargedBy
<1>5. r \notin ChargedTo(dk) /\ r \notin ChargedBy(dk, ip)
  BY DEF ChargedTo, ChargedBy
<1>6. /\ Cardinality(ChargedTo(dk) \cup {r}) = Cardinality(ChargedTo(dk)) + 1
      /\ Cardinality(ChargedBy(dk, ip) \cup {r}) = Cardinality(ChargedBy(dk, ip)) + 1
  <2>1. charged \in SUBSET Requests
    BY DEF Types
  <2>2. IsFiniteSet(ChargedTo(dk)) /\ IsFiniteSet(ChargedBy(dk, ip))
    BY <2>1, ChargedFinite
  <2> QED
    BY <1>5, <2>2, FS_AddElement
<1>7. /\ snap[r].total = Cardinality(ChargedTo(dk)) + 1
      /\ snap[r].byIp[ip] = Cardinality(ChargedBy(dk, ip)) + 1
      /\ \A c \in Clients : c # ip => snap[r].byIp[c] = Cardinality(ChargedBy(dk, c))
      /\ snap[r].total <= GlobalDailyLimit
      /\ snap[r].byIp[ip] <= IpDailyLimit
  <2>1. /\ snap[r] = CountFor(DayOf(dk), ip)
        /\ snap[r].total <= GlobalDailyLimit
        /\ snap[r].byIp[ip] <= IpDailyLimit
    BY DEF Counts, SnapInv
  <2>2. /\ DayOf(dk).total = Cardinality(ChargedTo(dk))
        /\ \A c \in Clients : DayOf(dk).byIp[c] = Cardinality(ChargedBy(dk, c))
        /\ DayOf(dk) \in [total : Nat, byIp : [Clients -> Nat]]
    BY DayOfCounts DEF Counts
  <2>3. /\ snap[r].total = DayOf(dk).total + 1
        /\ snap[r].byIp = [DayOf(dk).byIp EXCEPT ![ip] = @ + 1]
    BY <2>1 DEF CountFor
  <2>4. DayOf(dk).byIp \in [Clients -> Nat]
    BY <2>2
  <2>5. snap[r].byIp[ip] = DayOf(dk).byIp[ip] + 1
    BY <2>3, <2>4
  <2>6. \A c \in Clients : c # ip => snap[r].byIp[c] = DayOf(dk).byIp[c]
    BY <2>3, <2>4
  <2> QED
    BY <2>1, <2>2, <2>3, <2>5, <2>6
<1>8. FileCountsCharges'
  <2>1. file'.total = Cardinality(ChargedTo(dk)')
    BY <1>3, <1>6, <1>7
  <2>2. \A c \in Clients : file'.byIp[c] = Cardinality(ChargedBy(dk, c)')
    BY <1>4, <1>6, <1>7
  <2>3. file'.day = dk
    OBVIOUS
  <2> QED
    BY <2>1, <2>2, <2>3 DEF FileCountsCharges
<1>9. Limits'
  <2> SUFFICES ASSUME NEW d \in 0 .. MaxDay
               PROVE  /\ Cardinality(ChargedTo(d)') <= GlobalDailyLimit
                      /\ \A c \in Clients : Cardinality(ChargedBy(d, c)') <= IpDailyLimit
    BY DEF Limits
  <2>1. Cardinality(ChargedTo(d)') <= GlobalDailyLimit
    BY <1>3, <1>6, <1>7 DEF Counts, Limits
  <2>2. \A c \in Clients : Cardinality(ChargedBy(d, c)') <= IpDailyLimit
    BY <1>4, <1>6, <1>7 DEF Counts, Limits
  <2> QED
    BY <2>1, <2>2
<1> QED
  BY <1>1, <1>2, <1>8, <1>9 DEF Counts

\* The counting invariant holds in every reachable state.
LEMMA CountsHold == Spec => []Counts
<1> USE LimitsAssumption DEF NoDay, NoClient, Inside, Reserving, Critical
<1>1. Init => Counts
  <2> SUFFICES ASSUME Init PROVE Counts
    OBVIOUS
  <2>1. (\A d : ChargedTo(d) = {}) /\ (\A d, c : ChargedBy(d, c) = {})
    BY DEF Init, ChargedTo, ChargedBy
  <2>2. Cardinality({}) = 0
    BY FS_EmptySet
  <2>3. file = [day |-> -1, total |-> 0, byIp |-> [c \in Clients |-> 0]]
    BY DEF Init
  <2>4. FileCountsCharges
    BY <2>1, <2>2, <2>3 DEF FileCountsCharges
  <2>5. Limits
    BY <2>1, <2>2 DEF Limits
  <2> QED
    BY <2>4, <2>5 DEF Init, Counts, ChargeInv, SnapInv
<1>2. Types /\ LockInv /\ DayInv /\ Counts /\ [Next]_vars => Counts'
  <2> SUFFICES ASSUME Types, LockInv, DayInv, Counts, [Next]_vars PROVE Counts'
    OBVIOUS
  \* While nobody is charged, the sets that are counted stay as they are.
  <2>1. ASSUME UNCHANGED <<charged, file>>,
               \A r \in charged : dayKey'[r] = dayKey[r] /\ client'[r] = client[r]
        PROVE  FileCountsCharges' /\ Limits'
    <3>1. /\ \A d : ChargedTo(d)' = ChargedTo(d)
          /\ \A d, c : ChargedBy(d, c)' = ChargedBy(d, c)
      BY <2>1 DEF ChargedTo, ChargedBy
    <3> QED
      BY <2>1, <3>1 DEF Counts, FileCountsCharges, Limits
  \* Requests that leave, or have nothing in memory, carry no obligation.
  <2>2. ASSUME NEW r \in Requests, NEW l \in {"waiting", "leaving", "done"}, Goto(r, l),
               l = "waiting" => r \notin charged,
               UNCHANGED <<charged, file, grantDay>>,
               \A s \in Requests : s # r => /\ dayKey'[s] = dayKey[s]
                                            /\ client'[s] = client[s]
                                            /\ snap'[s] = snap[s],
               r \in charged => dayKey'[r] = dayKey[r] /\ client'[r] = client[r]
        PROVE  Counts'
    <3>1. pc'[r] = l /\ \A s \in Requests : s # r => pc'[s] = pc[s]
      BY <2>2 DEF Types, Goto
    <3>2. \A s \in charged : dayKey'[s] = dayKey[s] /\ client'[s] = client[s]
      BY <2>2 DEF Types
    <3>3. ChargeInv'
      BY <2>2, <3>1, <3>2 DEF Counts, ChargeInv, Types
    <3>4. SnapInv'
      BY <2>2, <3>1 DEF Counts, SnapInv, DayOf
    <3> QED
      BY <2>1, <2>2, <3>2, <3>3, <3>4 DEF Counts
  <2>3. ASSUME NEW r \in Requests, NEW c \in Clients, Enter(r, c) PROVE Counts'
    <3>1. r \notin charged
      BY <2>3 DEF Enter, Counts, ChargeInv
    <3> QED
      BY <2>2, <2>3, <3>1 DEF Enter, Types
  <2>4. ASSUME NEW r \in Requests, Busy(r) PROVE Counts'
    BY <2>2, <2>4 DEF Busy
  <2>5. ASSUME NEW r \in Requests, Throw(r) PROVE Counts'
    BY <2>2, <2>5 DEF Throw, Types
  <2>6. ASSUME NEW r \in Requests, ReadFails(r) \/ Refuse(r) \/ WriteFails(r) PROVE Counts'
    BY <2>5, <2>6 DEF ReadFails, Refuse, WriteFails
  <2>7. ASSUME NEW r \in Requests, Leave(r) PROVE Counts'
    BY <2>2, <2>7 DEF Leave
  <2>8. ASSUME NEW r \in Requests, Read(r) PROVE Counts'
    <3>1. /\ pc'[r] = "checking" /\ snap'[r] = DayOf(dayKey[r])
          /\ \A s \in Requests : s # r => pc'[s] = pc[s] /\ snap'[s] = snap[s]
          /\ UNCHANGED <<client, dayKey, file, charged, grantDay>>
      BY <2>8 DEF Types, Read, Goto
    <3>2. ChargeInv'
      BY <2>8, <3>1 DEF Counts, ChargeInv, Read
    <3>3. SnapInv'
      BY <3>1 DEF Counts, SnapInv, DayOf
    <3> QED
      BY <2>1, <3>1, <3>2, <3>3 DEF Counts
  <2>9. ASSUME NEW r \in Requests, Count(r) PROVE Counts'
    <3>1. /\ pc'[r] = "writing" /\ snap'[r] = CountFor(snap[r], client[r])
          /\ \A s \in Requests : s # r => pc'[s] = pc[s] /\ snap'[s] = snap[s]
          /\ UNCHANGED <<client, dayKey, file, charged, grantDay>>
      BY <2>9 DEF Types, Count, Goto
    <3>2. ChargeInv'
      BY <2>9, <3>1 DEF Counts, ChargeInv, Count
    <3>3. /\ snap[r] = DayOf(dayKey[r]) /\ client[r] \in Clients
          /\ snap[r] \in [total : Nat, byIp : [Clients -> Nat]]
          /\ snap[r].total < GlobalDailyLimit /\ snap[r].byIp[client[r]] < IpDailyLimit
      BY <2>9 DEF Counts, SnapInv, DayInv, Count, Types, OverGlobal, OverIp
    <3>4. snap'[r].total <= GlobalDailyLimit /\ snap'[r].byIp[client[r]] <= IpDailyLimit
      <4>1. snap[r].total \in Nat /\ snap[r].byIp \in [Clients -> Nat]
        BY <3>3
      <4> QED
        BY <3>1, <3>3, <4>1 DEF CountFor
    <3>5. SnapInv'
      BY <3>1, <3>3, <3>4 DEF Counts, SnapInv, DayOf
    <3> QED
      BY <2>1, <3>1, <3>2, <3>5 DEF Counts
  <2>10. ASSUME NEW r \in Requests, Grant(r) PROVE Counts'
    <3>1. /\ pc'[r] = "publishing"
          /\ \A s \in Requests : s # r => /\ pc'[s] = pc[s] /\ snap'[s] = snap[s]
                                          /\ grantDay'[s] = grantDay[s]
          /\ UNCHANGED <<client, dayKey, file, charged>>
      BY <2>10 DEF Types, Grant, Goto
    <3>2. r \in charged
      BY <2>10 DEF Counts, ChargeInv, Grant
    <3>3. ChargeInv'
      BY <3>1, <3>2 DEF Counts, ChargeInv
    <3>4. SnapInv'
      BY <3>1 DEF Counts, SnapInv, DayOf
    <3> QED
      BY <2>1, <3>1, <3>3, <3>4 DEF Counts
  <2>11. CASE Midnight
    BY <2>1, <2>11 DEF Midnight, Counts, ChargeInv, SnapInv, DayOf
  <2>12. CASE Restart
    <3>1. \A s \in Requests : pc'[s] \in {"idle", "done"} /\ (pc'[s] = "idle" => pc[s] = "idle")
      BY <2>12 DEF Types, Restart
    <3>2. ChargeInv'
      BY <2>12, <3>1 DEF Restart, Counts, ChargeInv
    <3>3. SnapInv'
      BY <3>1 DEF SnapInv
    <3> QED
      BY <2>1, <2>12, <3>2, <3>3 DEF Restart, Counts
  <2>13. CASE UNCHANGED vars
    BY <2>1, <2>13 DEF vars, Counts, ChargeInv, SnapInv, DayOf
  <2> QED
    BY <2>3, <2>4, <2>6, <2>7, <2>8, <2>9, <2>10, <2>11, <2>12, <2>13, RenameKeepsCounts
       DEF Next, Step, Quiescent
<1> QED
  BY <1>1, <1>2, TypesAndLock, Days, PTL DEF Spec

\* The daily limit and the client limit hold for every day, whatever the
\* interleaving, and nothing is granted before its charge is on disk.
THEOREM BudgetCorrect == Spec => []BudgetHolds
<1>1. Types /\ Counts => BudgetHolds
  BY DEF Types, Counts, ChargeInv, Limits, BudgetHolds, Granted
<1> QED
  BY <1>1, TypesAndLock, CountsHold, PTL

\* The stored counters are exact: no update is lost, no refusal is counted.
THEOREM FileCorrect == Spec => []FileCountsCharges
<1>1. Counts => FileCountsCharges
  BY DEF Counts
<1> QED
  BY <1>1, CountsHold, PTL

\* A request is refused only when its day or its client has spent the budget.
THEOREM RefusalsJustified == Spec => RefusedOnlyWhenSpent
<1>1. ASSUME Types, LockInv, DayInv, Counts, [Next]_vars, NEW r \in Requests, Refuse(r)
      PROVE  \/ Cardinality(ChargedTo(dayKey[r])) >= GlobalDailyLimit
             \/ Cardinality(ChargedBy(dayKey[r], client[r])) >= IpDailyLimit
  <2>1. /\ snap[r] = DayOf(dayKey[r])
        /\ dayKey[r] \in 0 .. MaxDay /\ file.day <= dayKey[r] /\ client[r] \in Clients
    BY <1>1 DEF Counts, SnapInv, DayInv, Refuse, Reserving, Critical
  <2>2. /\ snap[r].total = Cardinality(ChargedTo(dayKey[r]))
        /\ snap[r].byIp[client[r]] = Cardinality(ChargedBy(dayKey[r], client[r]))
    BY <1>1, <2>1, DayOfCounts DEF Counts
  <2> QED
    BY <1>1, <2>2 DEF Refuse, OverGlobal, OverIp
<1>2. Types /\ LockInv /\ DayInv /\ Counts /\ [Next]_vars =>
        [\A r \in Requests :
           Refuse(r) => \/ Cardinality(ChargedTo(dayKey[r])) >= GlobalDailyLimit
                       \/ Cardinality(ChargedBy(dayKey[r], client[r])) >= IpDailyLimit]_vars
  BY <1>1
<1> QED
  BY <1>2, TypesAndLock, Days, CountsHold, PTL DEF Spec, RefusedOnlyWhenSpent
-----------------------------------------------------------------------------
(* Midnight *)

\* Requests that arrived on an earlier day and may still return, or did, today.
Late == {r \in Requests : dayKey[r] < day /\ (pc[r] \in Inside \/ grantDay[r] = day)}

LateInv ==
  /\ \A r \in Requests : grantDay[r] <= day
  /\ \A r \in Requests : grantDay[r] # NoDay => dayKey[r] <= grantDay[r]
  /\ Cardinality(Late) <= Concurrency
  /\ \A d \in 0 .. MaxDay : Cardinality(GrantedLate(d)) <= Concurrency

\* A set of requests is no larger than one it is part of.
LEMMA Fewer ==
  ASSUME NEW S, NEW T \in SUBSET Requests, S \subseteq T, NEW n \in Nat, Cardinality(T) <= n
  PROVE  Cardinality(S) <= n
<1>1. IsFiniteSet(T)
  BY RequestsAssumption, FS_Subset
<1>2. /\ IsFiniteSet(S)
      /\ Cardinality(S) <= Cardinality(T)
  BY <1>1, FS_Subset
<1> QED
  BY <1>1, <1>2, FS_CardinalityType

\* Whoever is late today was inside at midnight: the slots bound their number,
\* and until the next midnight nobody joins them.
LEMMA LateHolds == Spec => []LateInv
<1> USE LimitsAssumption DEF NoDay, NoClient, Inside, Reserving, Critical
<1>1. Init => LateInv
  <2> SUFFICES ASSUME Init PROVE LateInv
    OBVIOUS
  <2>1. Late = {} /\ \A d \in 0 .. MaxDay : GrantedLate(d) = {}
    BY DEF Init, Late, GrantedLate
  <2>2. Cardinality({}) = 0
    BY FS_EmptySet
  <2>3. /\ Cardinality(Late) <= Concurrency
        /\ \A d \in 0 .. MaxDay : Cardinality(GrantedLate(d)) <= Concurrency
    BY <2>1, <2>2
  <2>4. day = 0 /\ \A r \in Requests : grantDay[r] = NoDay
    BY DEF Init
  <2> QED
    BY <2>3, <2>4 DEF LateInv
<1>2. Types /\ SlotInv /\ DayInv /\ Counts /\ LateInv /\ [Next]_vars => LateInv'
  <2> SUFFICES ASSUME Types, SlotInv, DayInv, Counts, LateInv, [Next]_vars PROVE LateInv'
    OBVIOUS
  \* Today: late requests only leave, and the returns of other days are past.
  <2>1. ASSUME UNCHANGED day,
               \A r \in Requests : dayKey'[r] < day =>
                 /\ dayKey'[r] = dayKey[r]
                 /\ pc'[r] \in Inside => pc[r] \in Inside,
               \A r \in Requests :
                 \/ grantDay'[r] = grantDay[r] /\ (grantDay[r] # NoDay => dayKey'[r] = dayKey[r])
                 \/ grantDay'[r] = day /\ pc[r] \in Inside /\ dayKey'[r] = dayKey[r]
        PROVE  LateInv'
    <3>1. \A r \in Requests : grantDay'[r] <= day'
      <4>1. day \in Int
        BY DEF Types
      <4> QED
        BY <2>1, <4>1 DEF LateInv
    <3>2. \A r \in Requests : grantDay'[r] # NoDay => dayKey'[r] <= grantDay'[r]
      BY <2>1 DEF LateInv, DayInv
    <3>3. Late' \subseteq Late
      BY <2>1 DEF Late
    <3>4. Cardinality(Late') <= Concurrency
      BY <3>3, Fewer DEF Late, LateInv
    <3>5. ASSUME NEW d \in 0 .. MaxDay PROVE Cardinality(GrantedLate(d)') <= Concurrency
      <4>1. CASE d = day
        <5>1. GrantedLate(d)' \subseteq Late
          BY <2>1, <4>1, <3>3 DEF Late, GrantedLate
        <5> QED
          BY <5>1, Fewer DEF Late, LateInv
      <4>2. CASE d # day
        <5>1. GrantedLate(d)' \subseteq GrantedLate(d)
          BY <2>1, <4>2 DEF GrantedLate
        <5> QED
          BY <5>1, Fewer DEF GrantedLate, LateInv
      <4> QED
        BY <4>1, <4>2
    <3> QED
      BY <3>1, <3>2, <3>4, <3>5 DEF LateInv
  <2>2. ASSUME NEW r \in Requests, NEW c \in Clients, Enter(r, c) PROVE LateInv'
    <3>1. grantDay[r] = NoDay
      BY <2>2 DEF Enter, Counts, ChargeInv
    <3>2. \A s \in Requests : s # r => dayKey'[s] = dayKey[s] /\ pc'[s] = pc[s]
      BY <2>2 DEF Enter, Goto, Types
    <3>3. dayKey'[r] = day /\ day \in Int /\ UNCHANGED <<day, grantDay>>
      BY <2>2 DEF Enter, Types
    <3> QED
      BY <2>1, <3>1, <3>2, <3>3
  <2>3. ASSUME NEW r \in Requests, NEW l, Goto(r, l), l \in Inside => pc[r] \in Inside,
               UNCHANGED <<day, dayKey, grantDay>>
        PROVE  LateInv'
    BY <2>1, <2>3 DEF Goto, Types
  <2>4. ASSUME NEW r \in Requests, \/ Busy(r) \/ Read(r) \/ ReadFails(r) \/ Refuse(r)
                                   \/ Count(r) \/ Rename(r) \/ WriteFails(r) \/ Leave(r)
        PROVE  LateInv'
    BY <2>3, <2>4 DEF Busy, Read, ReadFails, Refuse, Count, Rename, WriteFails, Leave, Throw
  <2>5. ASSUME NEW r \in Requests, Grant(r) PROVE LateInv'
    <3>1. /\ pc[r] \in Inside /\ UNCHANGED <<day, dayKey>>
          /\ \A s \in Requests : pc'[s] \in Inside => pc[s] \in Inside
          /\ grantDay'[r] = day
          /\ \A s \in Requests : s # r => grantDay'[s] = grantDay[s]
      BY <2>5 DEF Grant, Goto, Types
    <3> QED
      BY <2>1, <3>1
  <2>6. CASE Midnight
    <3>1. day' = day + 1 /\ UNCHANGED <<pc, dayKey, grantDay>> /\ day \in 0 .. MaxDay
      BY <2>6 DEF Midnight, Types
    <3>2. \A r \in Requests : grantDay[r] \in Int /\ grantDay[r] <= day
      BY DEF LateInv, Types
    <3>3. Late' \subseteq SlotSet
      BY <3>1, <3>2 DEF Late, SlotSet
    <3>4. Cardinality(Late') <= Concurrency
      BY <3>3, Fewer DEF SlotSet, SlotInv
    <3>5. \A d \in 0 .. MaxDay : GrantedLate(d)' = GrantedLate(d)
      BY <3>1 DEF GrantedLate
    <3> QED
      BY <3>1, <3>2, <3>4, <3>5 DEF LateInv
  <2>7. CASE Restart
    <3>1. /\ UNCHANGED <<day, dayKey, grantDay>>
          /\ \A s \in Requests : pc'[s] \in Inside => pc[s] \in Inside
      BY <2>7 DEF Restart
    <3> QED
      BY <2>1, <3>1
  <2>8. CASE UNCHANGED vars
    BY <2>1, <2>8 DEF vars
  <2> QED
    BY <2>2, <2>4, <2>5, <2>6, <2>7, <2>8 DEF Next, Step, Quiescent
<1> QED
  BY <1>1, <1>2, TypesAndLock, Slots, Days, CountsHold, PTL DEF Spec

\* What starts publishing on one calendar day exceeds the daily limit by at most
\* the requests that were inside at midnight.
THEOREM CalendarDay == Spec => []PublishesPerCalendarDay
<1>1. Types /\ Counts /\ LateInv => PublishesPerCalendarDay
  <2> SUFFICES ASSUME Types, Counts, LateInv, NEW d \in 0 .. MaxDay
               PROVE  Cardinality({r \in Requests : grantDay[r] = d})
                        <= GlobalDailyLimit + Concurrency
    BY DEF PublishesPerCalendarDay
  <2> USE LimitsAssumption DEF NoDay
  <2>1. {r \in Requests : grantDay[r] = d} \subseteq ChargedTo(d) \cup GrantedLate(d)
    BY DEF Types, Counts, ChargeInv, LateInv, ChargedTo, GrantedLate
  <2>2. IsFiniteSet(ChargedTo(d)) /\ IsFiniteSet(GrantedLate(d))
    BY RequestsAssumption, ChargedFinite, FS_Subset DEF Types, GrantedLate
  <2>3. Cardinality(ChargedTo(d)) <= GlobalDailyLimit /\ Cardinality(GrantedLate(d)) <= Concurrency
    BY DEF Counts, Limits, LateInv
  <2>4. /\ IsFiniteSet(ChargedTo(d) \cap GrantedLate(d))
        /\ Cardinality(ChargedTo(d) \cup GrantedLate(d)) =
             Cardinality(ChargedTo(d)) + Cardinality(GrantedLate(d))
               - Cardinality(ChargedTo(d) \cap GrantedLate(d))
    BY <2>2, FS_Union, FS_Intersection
  <2>5. Cardinality(ChargedTo(d) \cup GrantedLate(d)) <= GlobalDailyLimit + Concurrency
    BY <2>2, <2>3, <2>4, FS_CardinalityType
  <2>6. ChargedTo(d) \cup GrantedLate(d) \in SUBSET Requests
    BY DEF Types, ChargedTo, GrantedLate
  <2> QED
    BY <2>1, <2>5, <2>6, Fewer
<1> QED
  BY <1>1, TypesAndLock, CountsHold, LateHolds, PTL
-----------------------------------------------------------------------------
(* Refinement *)

\* The abstract account of a request, as the instance of BudgetSpec has it.
Account == [r \in Requests |-> IF r \in charged THEN <<dayKey[r], client[r]>> ELSE <<>>]

\* The instance's cardinality is the cardinality.
LEMMA SameCardinality == \A S : Abstract!Cardinality(S) = Cardinality(S)
BY DEF Abstract!Cardinality, Cardinality

\* The abstract accounts of a day or a client are the requests charged to it.
LEMMA AccountsAreCharges ==
  ASSUME Types, ChargeInv
  PROVE  /\ \A d \in 0 .. MaxDay : Abstract!OnDay(d) = ChargedTo(d)
         /\ \A d \in 0 .. MaxDay, c \in Clients : Abstract!OnAccount(d, c) = ChargedBy(d, c)
<1>1. \A d : \A c : \A r \in Requests :
        Account[r] = <<d, c>> <=> r \in charged /\ dayKey[r] = d /\ client[r] = c
  BY DEF Account
<1>2. \A r \in charged : r \in Requests /\ client[r] \in Clients
  BY DEF Types, ChargeInv
<1>3. \A d \in 0 .. MaxDay : Abstract!OnDay(d) = ChargedTo(d)
  BY <1>1, <1>2 DEF Abstract!OnDay, ChargedTo, Account
<1>4. \A d \in 0 .. MaxDay, c \in Clients : Abstract!OnAccount(d, c) = ChargedBy(d, c)
  BY <1>1, <1>2 DEF Abstract!OnAccount, ChargedBy, Account
<1> QED
  BY <1>3, <1>4

\* The rename is the abstract charge: both limits still leave room for it.
LEMMA RenameCharges ==
  ASSUME Types, LockInv, DayInv, Counts, NEW r \in Requests, Rename(r)
  PROVE  Abstract!Charge(r, dayKey[r], client[r])
<1> DEFINE dk == dayKey[r]
           ip == client[r]
<1> USE LimitsAssumption DEF NoDay, NoClient, Reserving, Critical
<1>1. /\ dk \in 0 .. MaxDay /\ ip \in Clients /\ file.day <= dk
      /\ pc[r] = "writing" /\ r \notin charged
  BY DEF DayInv, Counts, ChargeInv, Rename
<1>2. Cardinality(ChargedTo(dk)) < GlobalDailyLimit /\ Cardinality(ChargedBy(dk, ip)) < IpDailyLimit
  <2>1. /\ snap[r] = CountFor(DayOf(dk), ip)
        /\ snap[r].total <= GlobalDailyLimit
        /\ snap[r].byIp[ip] <= IpDailyLimit
    BY <1>1 DEF Counts, SnapInv
  <2>2. /\ DayOf(dk).total = Cardinality(ChargedTo(dk))
        /\ DayOf(dk).byIp[ip] = Cardinality(ChargedBy(dk, ip))
        /\ DayOf(dk) \in [total : Nat, byIp : [Clients -> Nat]]
    BY <1>1, DayOfCounts DEF Counts
  <2>3. DayOf(dk).total \in Nat /\ DayOf(dk).byIp \in [Clients -> Nat]
    BY <2>2
  <2>4. snap[r].total = DayOf(dk).total + 1 /\ snap[r].byIp[ip] = DayOf(dk).byIp[ip] + 1
    BY <1>1, <2>1, <2>3 DEF CountFor
  <2>5. DayOf(dk).byIp[ip] \in Nat
    BY <1>1, <2>3
  <2> QED
    BY <2>1, <2>2, <2>3, <2>4, <2>5
<1>3. /\ charged' = charged \cup {r}
      /\ UNCHANGED <<dayKey, client, grantDay>>
  BY DEF Rename
<1>4. Account' = [Account EXCEPT ![r] = <<dk, ip>>]
  BY <1>3 DEF Account
<1>5. Account[r] = <<>>
  BY <1>1 DEF Account
<1>6. Granted' = Granted
  BY <1>3 DEF Granted
<1> QED
  BY <1>1, <1>2, <1>4, <1>5, <1>6, AccountsAreCharges, SameCardinality
     DEF Counts, Abstract!Charge, Account

\* The return of the reservation is the abstract grant, and happens once.
LEMMA GrantGrants ==
  ASSUME Types, Counts, NEW r \in Requests, Grant(r)
  PROVE  Abstract!Grant(r)
<1> USE DEF NoDay
<1>1. r \in charged /\ grantDay[r] = NoDay
  BY DEF Counts, ChargeInv, Grant
<1>2. /\ UNCHANGED <<charged, dayKey, client>>
      /\ grantDay' = [grantDay EXCEPT ![r] = day]
  BY DEF Grant
<1>3. Account' = Account
  BY <1>2 DEF Account
<1>4. Account[r] # <<>>
  BY <1>1 DEF Account
<1>5. Granted' = Granted \cup {r} /\ r \notin Granted
  BY <1>1, <1>2, LimitsAssumption DEF Granted, Types
<1> QED
  BY <1>3, <1>4, <1>5 DEF Abstract!Grant, Account

\* The file store implements the abstract budget: a rename charges, a return
\* grants, and every other step, midnight, failures and restarts included, is
\* invisible.
THEOREM Refinement == Spec => ImplementsBudget
<1>1. Init => Abstract!SpecInit
  BY DEF Init, Abstract!SpecInit, Granted
<1>2. ASSUME Types, LockInv, DayInv, Counts, [Next]_vars
      PROVE  [Abstract!SpecNext]_(Abstract!specVars)
  \* A step that leaves the charges, and what they are for, alone.
  <2>1. ASSUME UNCHANGED <<charged, grantDay>>,
               \A r \in charged : dayKey'[r] = dayKey[r] /\ client'[r] = client[r]
        PROVE  UNCHANGED Abstract!specVars
    BY <1>2, <2>1 DEF Abstract!specVars, Granted, Types
  <2>2. ASSUME NEW r \in Requests, NEW c \in Clients, Enter(r, c)
        PROVE  UNCHANGED Abstract!specVars
    <3>1. r \notin charged
      BY <1>2, <2>2 DEF Enter, Counts, ChargeInv
    <3>2. \A s \in charged : dayKey'[s] = dayKey[s] /\ client'[s] = client[s]
      BY <1>2, <2>2, <3>1 DEF Enter, Types
    <3> QED
      BY <2>1, <2>2, <3>2 DEF Enter
  <2>3. ASSUME NEW r \in Requests, \/ Busy(r) \/ Read(r) \/ ReadFails(r) \/ Refuse(r)
                                   \/ Count(r) \/ WriteFails(r) \/ Leave(r)
        PROVE  UNCHANGED Abstract!specVars
    BY <2>1, <2>3 DEF Busy, Read, ReadFails, Refuse, Count, WriteFails, Leave, Throw
  <2>4. ASSUME NEW r \in Requests, Rename(r) PROVE Abstract!SpecNext
    <3>1. dayKey[r] \in 0 .. MaxDay /\ client[r] \in Clients
      BY <1>2, <2>4 DEF DayInv, Rename, Reserving, Critical
    <3> QED
      BY <1>2, <2>4, <3>1, RenameCharges DEF Abstract!SpecNext, Abstract!Charge
  <2>5. ASSUME NEW r \in Requests, Grant(r) PROVE Abstract!SpecNext
    BY <1>2, <2>5, GrantGrants DEF Abstract!SpecNext
  <2>6. CASE Midnight \/ Restart \/ UNCHANGED vars
    BY <2>1, <2>6 DEF Midnight, Restart, vars
  <2> QED
    BY <1>2, <2>2, <2>3, <2>4, <2>5, <2>6 DEF Next, Step, Quiescent
<1>3. Types /\ LockInv /\ DayInv /\ Counts /\ [Next]_vars => [Abstract!SpecNext]_(Abstract!specVars)
  BY <1>2
<1> QED
  BY <1>1, <1>3, TypesAndLock, Days, CountsHold, PTL
     DEF Spec, ImplementsBudget, Abstract!BudgetedGrants

-----------------------------------------------------------------------------
(***************************************************************************)
(* The pipeline, for any number of requests and restarts.  Every step of   *)
(* it is a step of StampBudget or leaves it alone, so what is proved above *)
(* holds here; PipeInv adds how the wallet's operation of a request        *)
(* follows its child and its charge.                                       *)
(***************************************************************************)
PipeTypes ==
  /\ child \in [Requests -> ChildStates]
  /\ result \in [Requests -> Results]
  /\ op \in [Requests -> OpStates]
  /\ sends \in [Requests -> Nat]
  /\ tx \in [Requests -> TxStates]
  /\ restarts \in [server : 0 .. MaxServerRestarts, wallet : 0 .. MaxWalletRestarts]

\* A child is started for a charged request, and asks the wallet once; the
\* wallet takes what was asked at most once, and a transaction comes from it.
PipeInv ==
  \A r \in Requests :
    /\ pc[r] = "publishing" => r \in charged
    /\ child[r] # "none" => r \in charged
    /\ child[r] \in {"none", "started"} => op[r] = "none"
    /\ op[r] \in {"none", "posted", "dropped"} => sends[r] = 0
    /\ op[r] \in {"running", "success", "failed", "forgotten"} => sends[r] = 1
    /\ tx[r] # "none" => op[r] \in {"success", "forgotten"}

-----------------------------------------------------------------------------
\* The budget of the pipeline is the budget of StampBudget.
LEMMA StepIsBudgeted == [PipeNext]_allVars => [Next]_vars
<1> SUFFICES ASSUME [PipeNext]_allVars PROVE [Next]_vars
  OBVIOUS
<1>1. CASE UNCHANGED allVars
  BY <1>1 DEF allVars
<1>2. CASE \E r \in Requests : ServerStep(r) \/ ChildStep(r) \/ WalletStep(r)
  <2>1. PICK r \in Requests : ServerStep(r) \/ ChildStep(r) \/ WalletStep(r)
    BY <1>2
  <2>2. CASE BudgetStep(r)
    BY <2>2 DEF BudgetStep, Next, Step
  <2>3. CASE BudgetError(r)
    BY <2>3 DEF BudgetError, Next, Step
  <2>4. CASE Answer(r)
    BY <2>4 DEF Answer, Next, Step
  <2>5. CASE Spawn(r) \/ AnchorFails(r) \/ Kill(r) \/ Fetch(r)
    BY <2>5 DEF Spawn, AnchorFails, Kill, Fetch
  <2>6. CASE ChildStep(r)
    BY <2>6 DEF ChildStep, SendMany, SendManyReturns, Poll
  <2>7. CASE WalletStep(r)
    BY <2>7 DEF WalletStep, Take, Drop, Submit, OpFails, Mine
  <2> QED BY <2>1, <2>2, <2>3, <2>4, <2>5, <2>6, <2>7 DEF ServerStep
<1>3. CASE Midnight
  BY <1>3 DEF Next
<1>4. CASE ServerRestart
  BY <1>4 DEF ServerRestart, Next
<1>5. CASE WalletRestart
  BY <1>5 DEF WalletRestart
<1>6. CASE PipeQuiescent
  BY <1>6 DEF PipeQuiescent, allVars
<1> QED BY <1>1, <1>2, <1>3, <1>4, <1>5, <1>6 DEF PipeNext

LEMMA PipelineIsBudgeted == PipeSpec => Spec
<1>1. PipeInit => Init
  BY DEF PipeInit
<1> QED BY <1>1, StepIsBudgeted, PTL DEF PipeSpec, Spec

\* Who publishes has been charged, and a charge is never taken back.
LEMMA ChargedPublish ==
  ASSUME Types, ChargeInv, [Next]_vars,
         \A r \in Requests : pc[r] = "publishing" => r \in charged
  PROVE  /\ charged \subseteq charged'
         /\ \A r \in Requests : pc'[r] = "publishing" => r \in charged'
<1>1. CASE UNCHANGED vars
  BY <1>1 DEF vars
<1>2. ASSUME NEW r \in Requests, NEW l \in Inside \cup {"done"}, Goto(r, l),
             charged \subseteq charged', l = "publishing" => r \in charged
      PROVE  /\ charged \subseteq charged'
             /\ \A q \in Requests : pc'[q] = "publishing" => q \in charged'
  BY <1>2 DEF Types, Goto
<1>3. ASSUME NEW r \in Requests, NEW c \in Clients, Enter(r, c)
      PROVE  /\ charged \subseteq charged'
             /\ \A q \in Requests : pc'[q] = "publishing" => q \in charged'
  BY <1>2, <1>3 DEF Enter, Inside, Reserving
<1>4. ASSUME NEW r \in Requests, Busy(r) \/ Step(r)
      PROVE  /\ charged \subseteq charged'
             /\ \A q \in Requests : pc'[q] = "publishing" => q \in charged'
  <2>1. CASE Grant(r)
    BY <1>2, <2>1 DEF Grant, Inside, ChargeInv
  <2>2. CASE Rename(r)
    BY <1>2, <2>2 DEF Rename, Inside, Reserving, Critical
  <2>3. CASE Busy(r) \/ Leave(r)
    BY <1>2, <2>3 DEF Busy, Leave
  <2>4. CASE Read(r) \/ Count(r)
    BY <1>2, <2>4 DEF Read, Count, Inside, Reserving, Critical
  <2>5. CASE ReadFails(r) \/ Refuse(r) \/ WriteFails(r)
    BY <1>2, <2>5 DEF ReadFails, Refuse, WriteFails, Throw, Inside
  <2> QED BY <1>4, <2>1, <2>2, <2>3, <2>4, <2>5 DEF Step
<1>5. CASE Midnight
  BY <1>5 DEF Midnight
<1>6. CASE Restart
  BY <1>6 DEF Restart, Types
<1> QED BY <1>1, <1>3, <1>4, <1>5, <1>6 DEF Next, Quiescent

-----------------------------------------------------------------------------
LEMMA PipeInitInv == PipeInit => PipeTypes /\ PipeInv
<1> SUFFICES ASSUME PipeInit PROVE PipeTypes /\ PipeInv
  OBVIOUS
<1>1. PipeTypes
  BY RestartsAssumption DEF PipeInit, PipeTypes, ChildStates, Results, OpStates, TxStates
<1>2. PipeInv
  BY DEF PipeInit, Init, PipeInv
<1> QED BY <1>1, <1>2

LEMMA PipeStepTypes ==
  ASSUME PipeTypes, [PipeNext]_allVars
  PROVE  PipeTypes'
<1> USE DEF Running, ChildStates, Results, OpStates, TxStates, SetChild, SetResult, SetOp
<1>1. CASE UNCHANGED pipeVars
  BY <1>1 DEF pipeVars, PipeTypes
<1>2. ASSUME NEW r \in Requests, ServerStep(r) \/ ChildStep(r) \/ WalletStep(r)
      PROVE  PipeTypes'
  <2>1. CASE BudgetStep(r) \/ Answer(r)
    BY <1>1, <2>1 DEF BudgetStep, Answer
  <2>2. CASE BudgetError(r)
    BY <2>2 DEF BudgetError, PipeTypes
  <2>3. CASE Spawn(r)
    BY <2>3 DEF Spawn, PipeTypes
  <2>4. CASE AnchorFails(r) \/ Kill(r) \/ Fetch(r)
    BY <2>4 DEF AnchorFails, Kill, Fetch, PipeTypes
  <2>5. CASE SendMany(r)
    BY <2>5 DEF SendMany, PipeTypes
  <2>6. CASE SendManyReturns(r) \/ Poll(r)
    BY <2>6 DEF SendManyReturns, Poll, PipeTypes
  <2>7. CASE Take(r)
    BY <2>7 DEF Take, PipeTypes
  <2>8. CASE Drop(r) \/ Submit(r)
    BY <2>8 DEF Drop, Submit, PipeTypes
  <2>9. CASE OpFails(r) \/ Mine(r)
    BY <2>9 DEF OpFails, Mine, PipeTypes
  <2> QED
    BY <1>2, <2>1, <2>2, <2>3, <2>4, <2>5, <2>6, <2>7, <2>8, <2>9
       DEF ServerStep, ChildStep, WalletStep
<1>3. CASE ServerRestart
  <2>1. restarts' \in [server : 0 .. MaxServerRestarts, wallet : 0 .. MaxWalletRestarts]
    <3>1. restarts.server + 1 \in 0 .. MaxServerRestarts
      BY <1>3, RestartsAssumption DEF ServerRestart, PipeTypes
    <3> QED BY <1>3, <3>1 DEF ServerRestart, PipeTypes
  <2> QED BY <1>3, <2>1 DEF ServerRestart, PipeTypes
<1>4. CASE WalletRestart
  <2>1. restarts' \in [server : 0 .. MaxServerRestarts, wallet : 0 .. MaxWalletRestarts]
    <3>1. restarts.wallet + 1 \in 0 .. MaxWalletRestarts
      BY <1>4, RestartsAssumption DEF WalletRestart, PipeTypes
    <3> QED BY <1>4, <3>1 DEF WalletRestart, PipeTypes
  <2> QED BY <1>4, <2>1 DEF WalletRestart, PipeTypes
<1> QED
  BY <1>1, <1>2, <1>3, <1>4 DEF PipeNext, PipeQuiescent, allVars

LEMMA PipeStepInv ==
  ASSUME Types, ChargeInv, PipeTypes, PipeInv, [PipeNext]_allVars
  PROVE  PipeInv'
<1>1. /\ charged \subseteq charged'
      /\ \A r \in Requests : pc'[r] = "publishing" => r \in charged'
  BY StepIsBudgeted, ChargedPublish DEF PipeInv
<1>2. CASE UNCHANGED pipeVars
  BY <1>1, <1>2 DEF pipeVars, PipeInv
<1>3. ASSUME NEW r \in Requests, ServerStep(r) \/ ChildStep(r) \/ WalletStep(r)
      PROVE  PipeInv'
  <2> USE DEF SetChild, SetResult, SetOp
  <2>1. CASE BudgetStep(r) \/ Answer(r)
    BY <1>2, <2>1 DEF BudgetStep, Answer
  <2>2. CASE BudgetError(r)
    BY <1>1, <2>2 DEF BudgetError, PipeTypes, PipeInv
  <2>3. CASE Spawn(r)
    BY <1>1, <2>3 DEF Spawn, Serving, PipeTypes, PipeInv
  <2>4. CASE AnchorFails(r)
    BY <1>1, <2>4 DEF AnchorFails, PipeTypes, PipeInv
  <2>5. CASE Kill(r)
    BY <1>1, <2>5 DEF Kill, Serving, PipeTypes, PipeInv
  <2>6. CASE Fetch(r)
    BY <1>1, <2>6 DEF Fetch, PipeTypes, PipeInv
  <2>7. CASE SendMany(r)
    BY <1>1, <2>7 DEF SendMany, PipeTypes, PipeInv
  <2>8. CASE SendManyReturns(r) \/ Poll(r)
    BY <1>1, <2>8 DEF SendManyReturns, Poll, PipeTypes, PipeInv
  <2>9. CASE Take(r)
    BY <1>1, <2>9 DEF Take, PipeTypes, PipeInv
  <2>10. CASE Drop(r)
    BY <1>1, <2>10 DEF Drop, PipeTypes, PipeInv
  <2>11. CASE Submit(r)
    BY <1>1, <2>11 DEF Submit, PipeTypes, PipeInv
  <2>12. CASE OpFails(r)
    BY <1>1, <2>12 DEF OpFails, PipeTypes, PipeInv
  <2>13. CASE Mine(r)
    BY <1>1, <2>13 DEF Mine, PipeTypes, PipeInv
  <2> QED
    BY <1>3, <2>1, <2>2, <2>3, <2>4, <2>5, <2>6, <2>7, <2>8, <2>9, <2>10, <2>11, <2>12,
       <2>13 DEF ServerStep, ChildStep, WalletStep
<1>4. CASE ServerRestart
  BY <1>1, <1>4 DEF ServerRestart, PipeTypes, PipeInv
<1>5. CASE WalletRestart
  BY <1>1, <1>5 DEF WalletRestart, PipeTypes, PipeInv
<1> QED
  BY <1>2, <1>3, <1>4, <1>5 DEF PipeNext, PipeQuiescent, allVars

LEMMA PipeInvariant == PipeSpec => [](Types /\ Counts /\ PipeTypes /\ PipeInv)
<1>1. PipeTypes /\ [PipeNext]_allVars => PipeTypes'
  BY PipeStepTypes
<1>2. Types /\ Counts /\ PipeTypes /\ PipeInv /\ [PipeNext]_allVars => PipeInv'
  BY PipeStepInv DEF Counts
<1>3. PipeSpec => [](Types /\ Counts)
  BY PipelineIsBudgeted, TypesAndLock, CountsHold, PTL
<1> QED
  BY <1>1, <1>2, <1>3, PipeInitInv, PTL DEF PipeSpec

-----------------------------------------------------------------------------
\* The budget's variables and the pipeline's keep their types.
THEOREM PipeTypeCorrect == PipeSpec => []PipeTypeOK
<1>1. PipeTypes /\ TypeOK => PipeTypeOK
  BY DEF PipeTypes, PipeTypeOK
<1>2. PipeSpec => []TypeOK
  BY PipelineIsBudgeted, TypeCorrect, PTL
<1> QED BY <1>1, <1>2, PipeInvariant, PTL

\* The wallet is asked at most once for each charged request: no timeout, lost
\* answer, crash or restart makes the daily limit on what it spends go up.
THEOREM SpendingIsBudgeted == PipeSpec => []SpendWithinBudget
<1>1. Types /\ Counts /\ PipeTypes /\ PipeInv => SpendWithinBudget
  <2> SUFFICES ASSUME Types, Counts, PipeTypes, PipeInv PROVE SpendWithinBudget
    OBVIOUS
  <2>1. ASSUME NEW r \in Requests
        PROVE  sends[r] <= 1 /\ (sends[r] > 0 => r \in charged)
    BY DEF PipeTypes, PipeInv, OpStates
  <2>2. ASSUME NEW d \in 0 .. MaxDay
        PROVE  Cardinality(Sent(d)) <= GlobalDailyLimit
    <3>1. Sent(d) \subseteq ChargedTo(d) /\ ChargedTo(d) \in SUBSET Requests
      BY <2>1 DEF Sent, ChargedTo, Types
    <3>2. Cardinality(ChargedTo(d)) <= GlobalDailyLimit
      BY DEF Counts, Limits
    <3> QED BY <3>1, <3>2, Fewer, LimitsAssumption
  <2> QED BY <2>1, <2>2 DEF SpendWithinBudget
<1> QED BY <1>1, PipeInvariant, PTL

-----------------------------------------------------------------------------
(* Slots and processes *)

Orphans == {r \in Publishers : result[r] = "lost"}

\* A process that runs belongs to a request that is served, or to one that a
\* restart of the server ended.
Held(r) ==
  /\ result[r] = "lost" => pc[r] = "done"
  /\ child[r] \in Running => Serving(r) \/ result[r] = "lost"
ChildInv == \A r \in Requests : Held(r)

\* Only a restart makes orphans, at most as many as there are slots.
OrphanInv == Cardinality(Orphans) <= Concurrency * restarts.server

LEMMA ChildStepInv ==
  ASSUME Types, PipeTypes, ChildInv, [PipeNext]_allVars
  PROVE  ChildInv'
<1> USE DEF Held, Inside, Reserving, Critical
<1>1. SUFFICES ASSUME NEW q \in Requests
               PROVE  Held(q)'
  BY DEF ChildInv, Publishers, Held
<1>2. Held(q)
  BY DEF ChildInv, Publishers, Held
<1>3. CASE UNCHANGED <<pc, child, result>>
  BY <1>2, <1>3 DEF Serving
<1>4. ASSUME NEW r \in Requests, ServerStep(r) PROVE Held(q)'
  <2> USE DEF SetChild, SetResult, Serving, Goto, Running, Types, PipeTypes
  <2>1. CASE BudgetStep(r)
    <3>1. /\ UNCHANGED <<child, result>>
          /\ pc'[q] = pc[q] \/ pc[q] \in {"idle", "waiting", "checking", "writing", "renamed"}
      BY <2>1 DEF BudgetStep, pipeVars, Enter, Read, Count, Rename, Grant
    <3> QED BY <1>2, <3>1
  <2>2. CASE BudgetError(r)
    <3>1. /\ UNCHANGED child /\ result' = [result EXCEPT ![r] = "error"]
          /\ pc[r] \in {"idle", "waiting", "checking", "writing"}
          /\ q # r => pc'[q] = pc[q]
      BY <2>2 DEF BudgetError, Busy, ReadFails, Refuse, WriteFails, Throw
    <3> QED BY <1>2, <3>1
  <2>3. CASE Spawn(r)
    BY <1>2, <2>3 DEF Spawn, vars
  <2>4. CASE AnchorFails(r) \/ Kill(r) \/ Fetch(r)
    BY <1>2, <2>4 DEF AnchorFails, Kill, Fetch, vars
  <2>5. CASE Answer(r)
    BY <1>2, <2>5 DEF Answer, Leave, pipeVars
  <2> QED BY <1>4, <2>1, <2>2, <2>3, <2>4, <2>5 DEF ServerStep
<1>5. ASSUME NEW r \in Requests, ChildStep(r) PROVE Held(q)'
  <2>1. /\ UNCHANGED <<pc, result>> /\ child[r] \in Running
        /\ q # r => child'[q] = child[q]
    BY <1>5 DEF ChildStep, SendMany, SendManyReturns, Poll, SetChild, PipeTypes, vars, Running
  <2> QED BY <1>2, <2>1 DEF Serving
<1>6. CASE ServerRestart
  BY <1>2, <1>6 DEF ServerRestart, Restart, Serving, Types, PipeTypes
<1>7. ASSUME NEW r \in Requests, WalletStep(r) PROVE UNCHANGED <<pc, child, result>>
  BY <1>7 DEF WalletStep, Take, Drop, Submit, OpFails, Mine, vars
<1>8. CASE (Midnight /\ UNCHANGED pipeVars) \/ WalletRestart \/ UNCHANGED allVars
  BY <1>3, <1>8 DEF Midnight, WalletRestart, vars, pipeVars, allVars
<1> QED
  BY <1>3, <1>4, <1>5, <1>6, <1>7, <1>8 DEF PipeNext, PipeQuiescent

LEMMA OrphanStepInv ==
  ASSUME Types, SlotInv, PipeTypes, ChildInv, OrphanInv, [PipeNext]_allVars
  PROVE  OrphanInv'
<1>1. /\ restarts.server \in Nat /\ Concurrency \in Nat
      /\ Concurrency * restarts.server \in Nat
  BY RestartsAssumption, LimitsAssumption DEF PipeTypes
<1>2. IsFiniteSet(Orphans) /\ Orphans \in SUBSET Requests
  BY RequestsAssumption, FS_Subset DEF Orphans, Publishers
<1>3. CASE ServerRestart
  <2>1. restarts'.server = restarts.server + 1
    BY <1>3 DEF ServerRestart, PipeTypes
  <2>2. Orphans' \subseteq Orphans \cup SlotSet
    BY <1>3 DEF ServerRestart, Orphans, Publishers, SlotSet, PipeTypes
  <2>3. /\ IsFiniteSet(SlotSet) /\ SlotSet \in SUBSET Requests
        /\ Cardinality(SlotSet) <= Concurrency
    BY SlotSetFinite DEF SlotInv, SlotSet
  <2>4. /\ IsFiniteSet(Orphans \cap SlotSet)
        /\ Cardinality(Orphans \cup SlotSet) =
             Cardinality(Orphans) + Cardinality(SlotSet) - Cardinality(Orphans \cap SlotSet)
    BY <1>2, <2>3, FS_Union, FS_Intersection
  <2>5. Cardinality(Orphans \cup SlotSet) <= Concurrency * restarts.server + Concurrency
    BY <1>1, <1>2, <2>3, <2>4, FS_CardinalityType DEF OrphanInv
  <2>6. Concurrency * restarts.server + Concurrency = Concurrency * restarts'.server
    BY <1>1, <2>1
  <2>7. Concurrency * restarts.server + Concurrency \in Nat
    BY <1>1
  <2> QED
    BY <1>2, <2>2, <2>3, <2>5, <2>6, <2>7, Fewer DEF OrphanInv
<1>4. ASSUME ~ServerRestart PROVE OrphanInv'
  <2>1. restarts'.server = restarts.server
    BY <1>4 DEF PipeNext, PipeQuiescent, allVars, pipeVars, ServerStep, BudgetStep, BudgetError,
       Spawn, AnchorFails, Kill, Fetch, Answer, ChildStep, SendMany, SendManyReturns, Poll,
       WalletStep, Take, Drop, Submit, OpFails, Mine, WalletRestart, PipeTypes
  <2>2. Orphans' \subseteq Orphans
    <3>1. CASE UNCHANGED <<child, result>>
      BY <3>1 DEF Orphans, Publishers
    <3>2. ASSUME NEW r \in Requests, ServerStep(r) PROVE Orphans' \subseteq Orphans
      <4> USE DEF SetChild, SetResult, Orphans, Publishers, PipeTypes
      <4>1. CASE BudgetStep(r) \/ Answer(r)
        BY <3>1, <4>1 DEF BudgetStep, Answer, pipeVars
      <4>2. CASE BudgetError(r) \/ AnchorFails(r) \/ Fetch(r)
        BY <4>2 DEF BudgetError, AnchorFails, Fetch
      <4>3. CASE Spawn(r) \/ Kill(r)
        BY <4>3 DEF Spawn, Kill, Serving, Running
      <4> QED BY <3>2, <4>1, <4>2, <4>3 DEF ServerStep
    <3>3. ASSUME NEW r \in Requests, ChildStep(r) PROVE Orphans' \subseteq Orphans
      BY <3>3 DEF ChildStep, SendMany, SendManyReturns, Poll, SetChild, Orphans, Publishers,
         PipeTypes, Running
    <3>4. ASSUME NEW r \in Requests, WalletStep(r) PROVE UNCHANGED <<child, result>>
      BY <3>4 DEF WalletStep, Take, Drop, Submit, OpFails, Mine
    <3>5. CASE UNCHANGED pipeVars \/ WalletRestart
      BY <3>1, <3>5 DEF WalletRestart, pipeVars
    <3> QED
      BY <1>4, <3>1, <3>2, <3>3, <3>4, <3>5 DEF PipeNext, PipeQuiescent, allVars
  <2>3. Concurrency * restarts'.server = Concurrency * restarts.server
    BY <2>1
  <2> QED
    BY <1>1, <1>2, <2>2, <2>3, Fewer DEF OrphanInv
<1> QED
  BY <1>3, <1>4

LEMMA ChildrenHold == PipeSpec => [](ChildInv /\ OrphanInv)
<1>1. PipeInit => ChildInv /\ OrphanInv
  <2> SUFFICES ASSUME PipeInit PROVE ChildInv /\ OrphanInv
    OBVIOUS
  <2>1. Publishers = {} /\ Orphans = {}
    BY DEF PipeInit, Publishers, Running, Orphans
  <2>2. Concurrency * restarts.server = 0
    BY LimitsAssumption DEF PipeInit
  <2> QED
    BY <2>1, <2>2, FS_EmptySet DEF PipeInit, ChildInv, Held, Running, OrphanInv
<1>2. /\ Types /\ PipeTypes /\ ChildInv /\ [PipeNext]_allVars => ChildInv'
      /\ Types /\ SlotInv /\ PipeTypes /\ ChildInv /\ OrphanInv /\ [PipeNext]_allVars => OrphanInv'
  BY ChildStepInv, OrphanStepInv
<1>3. PipeSpec => []SlotInv
  BY PipelineIsBudgeted, Slots, PTL
<1> QED
  BY <1>1, <1>2, <1>3, PipeInvariant, PTL DEF PipeSpec

\* The concurrency limit bounds the anchor processes: each runs on a slot, but
\* for those that restarts of the server left behind, a limit's worth each.
THEOREM ProcessesAreBounded == PipeSpec => []PublishersHoldSlots
<1>1. Types /\ SlotInv /\ PipeTypes /\ ChildInv /\ OrphanInv => PublishersHoldSlots
  <2> SUFFICES ASSUME Types, SlotInv, PipeTypes, ChildInv, OrphanInv PROVE PublishersHoldSlots
    OBVIOUS
  <2>1. Publishers \subseteq Orphans \cup SlotSet
    BY DEF ChildInv, Held, Orphans, Publishers, SlotSet, Serving, Inside
  <2>2. /\ IsFiniteSet(Orphans) /\ Orphans \in SUBSET Requests
        /\ IsFiniteSet(SlotSet) /\ SlotSet \in SUBSET Requests
    BY RequestsAssumption, FS_Subset, SlotSetFinite DEF Orphans, Publishers, SlotSet
  <2>3. /\ IsFiniteSet(Orphans \cap SlotSet)
        /\ Cardinality(Orphans \cup SlotSet) =
             Cardinality(Orphans) + Cardinality(SlotSet) - Cardinality(Orphans \cap SlotSet)
    BY <2>2, FS_Union, FS_Intersection
  <2>4. /\ active \in Nat /\ Concurrency * restarts.server \in Nat
        /\ active = Cardinality(SlotSet)
    BY <2>2, FS_CardinalityType, RestartsAssumption, LimitsAssumption DEF SlotInv, PipeTypes
  <2>5. Cardinality(Orphans \cup SlotSet) <= active + Concurrency * restarts.server
    BY <2>2, <2>3, <2>4, FS_CardinalityType DEF OrphanInv
  <2>6. Cardinality(Publishers) <= active + Concurrency * restarts.server
    BY <2>1, <2>2, <2>4, <2>5, Fewer
  <2> QED
    BY <2>6 DEF ChildInv, Held, Publishers, PublishersHoldSlots
<1>2. PipeSpec => []SlotInv
  BY PipelineIsBudgeted, Slots, PTL
<1> QED
  BY <1>1, <1>2, ChildrenHold, PipeInvariant, PTL
=============================================================================
