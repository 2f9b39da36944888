---------------------------- MODULE StampBudget ----------------------------
(***************************************************************************)
(* Public stamp budget of the web server, kept in a JSON file              *)
(* (apps/web/lib/server/stamp-budget.ts): the in-process slot counter of   *)
(* runPublicStampOperation, the promise-chain lock and the read / check /  *)
(* write / rename sequence of reservePublicStampBudget, the UTC midnight,  *)
(* and the server process stopping at any point and starting again.        *)
(*                                                                         *)
(* One step is one synchronous run of JavaScript between two awaits.       *)
(***************************************************************************)
EXTENDS Integers, Sequences, FiniteSets

CONSTANTS
  Requests,          \* POST requests reaching runPublicStampOperation
  Clients,           \* client addresses, as their hashes
  GlobalDailyLimit,  \* ZECTIME_PUBLIC_STAMP_DAILY_LIMIT
  IpDailyLimit,      \* ZECTIME_PUBLIC_STAMP_IP_DAILY_LIMIT
  Concurrency,       \* ZECTIME_PUBLIC_STAMP_CONCURRENCY
  MaxDay             \* bound: UTC days are 0 .. MaxDay

ASSUME RequestsAssumption == IsFiniteSet(Requests)
ASSUME LimitsAssumption == /\ GlobalDailyLimit \in Nat \ {0}
                           /\ IpDailyLimit \in Nat \ {0}
                           /\ Concurrency \in Nat \ {0}
                           /\ MaxDay \in Nat

VARIABLES
  day,       \* the current UTC day
  pc,        \* pc[r]: where request r is
  client,    \* client[r]: the address r came from, once it arrived
  dayKey,    \* dayKey[r]: the day r computed when it arrived
  active,    \* activeStampOperations
  queue,     \* the budgetLock chain: its head may run, the others await
  file,      \* the stored state; the file never holds more than one day
  snap,      \* snap[r]: the `day` object r read and updates in memory
  charged,   \* history: requests whose count reached the file
  grantDay   \* history: the day on which r's reservation returned

vars == <<day, pc, client, dayKey, active, queue, file, snap, charged, grantDay>>

NoDay    == -1
NoClient == "none"
Zero     == [total |-> 0, byIp |-> [c \in Clients |-> 0]]

Critical  == {"checking", "writing", "renamed"}
Reserving == {"waiting"} \cup Critical
Inside    == Reserving \cup {"publishing", "leaving"}

\* Faulty: the counters are not reset for a new day.
DayOf_NoReset(d) == [total |-> file.total, byIp |-> file.byIp]

(* `state.days[dayKey] ?? { total: 0, byIp: {} }` *)
DayOf(d) == IF file.day = d THEN [total |-> file.total, byIp |-> file.byIp] ELSE Zero

Init ==
  /\ day = 0
  /\ pc = [r \in Requests |-> "idle"]
  /\ client = [r \in Requests |-> NoClient]
  /\ dayKey = [r \in Requests |-> NoDay]
  /\ active = 0
  /\ queue = <<>>
  /\ file = [day |-> NoDay, total |-> 0, byIp |-> [c \in Clients |-> 0]]
  /\ snap = [r \in Requests |-> Zero]
  /\ charged = {}
  /\ grantDay = [r \in Requests |-> NoDay]

Goto(r, label) == pc' = [pc EXCEPT ![r] = label]

\* The request takes a slot, computes its day and joins the lock's chain.
Enter(r, c) ==
  /\ pc[r] = "idle"
  /\ active < Concurrency
  /\ active' = active + 1
  /\ client' = [client EXCEPT ![r] = c]
  /\ dayKey' = [dayKey EXCEPT ![r] = day]
  /\ queue' = Append(queue, r)
  /\ Goto(r, "waiting")
  /\ UNCHANGED <<day, file, snap, charged, grantDay>>

\* Faulty: the busy check throws inside the `try` that frees the slot.
Busy_InsideTry(r) ==
  /\ pc[r] = "idle"
  /\ active >= Concurrency
  /\ Goto(r, "leaving")
  /\ UNCHANGED <<day, client, dayKey, active, queue, file, snap, charged, grantDay>>

\* All slots are taken: "Public timestamp service is busy".
Busy(r) ==
  /\ pc[r] = "idle"
  /\ active >= Concurrency
  /\ Goto(r, "done")
  /\ UNCHANGED <<day, client, dayKey, active, queue, file, snap, charged, grantDay>>

\* Faulty: no lock, or a lock that hands over in any order.
MayRun_NoLock(r)  == r \in Requests
MayRun_AnyNext(r) == \A s \in Requests : pc[s] \notin Critical

MayRun(r) == queue # <<>> /\ Head(queue) = r

\* `await previous` returns and the file is read.
Read(r) ==
  /\ pc[r] = "waiting"
  /\ MayRun(r)
  /\ snap' = [snap EXCEPT ![r] = DayOf(dayKey[r])]
  /\ Goto(r, "checking")
  /\ UNCHANGED <<day, client, dayKey, active, queue, file, charged, grantDay>>

Release == queue' = Tail(queue)

\* The reservation throws: `finally { release() }`, and the error propagates.
Throw(r) ==
  /\ Release
  /\ snap' = [snap EXCEPT ![r] = Zero]
  /\ Goto(r, "leaving")
  /\ UNCHANGED <<day, client, dayKey, active, file, charged, grantDay>>

\* An unreadable or malformed file rethrows out of readBudgetState.
ReadFails(r) == pc[r] = "waiting" /\ MayRun(r) /\ Throw(r)

\* Faulty: one too many a day, or no limit for one client.
OverGlobal_OffByOne(r) == snap[r].total > GlobalDailyLimit
OverIp_Unchecked(r)    == snap[r].byIp[client[r]] < 0

OverGlobal(r) == snap[r].total >= GlobalDailyLimit
OverIp(r)     == snap[r].byIp[client[r]] >= IpDailyLimit

\* Budget exhausted, for the day or for this client.
Refuse(r) == pc[r] = "checking" /\ (OverGlobal(r) \/ OverIp(r)) /\ Throw(r)

\* `day.total += 1; day.byIp[ipHash] = ipCount + 1`
CountFor(d, c) == [total |-> d.total + 1, byIp |-> [d.byIp EXCEPT ![c] = @ + 1]]

\* Within both limits: count in memory and start writing.
Count(r) ==
  /\ pc[r] = "checking"
  /\ ~OverGlobal(r) /\ ~OverIp(r)
  /\ snap' = [snap EXCEPT ![r] = CountFor(@, client[r])]
  /\ Goto(r, "writing")
  /\ UNCHANGED <<day, client, dayKey, active, queue, file, charged, grantDay>>

\* The temporary file is renamed over the store: the only step others can see.
Rename(r) ==
  /\ pc[r] = "writing"
  /\ file' = [day |-> dayKey[r], total |-> snap[r].total, byIp |-> snap[r].byIp]
  /\ charged' = charged \cup {r}
  /\ Goto(r, "renamed")
  /\ UNCHANGED <<day, client, dayKey, active, queue, snap, grantDay>>

\* mkdir, the write of the temporary file or the rename fails.
WriteFails(r) == pc[r] = "writing" /\ Throw(r)

\* Faulty: the write is not awaited.
Grant_Unawaited(r) ==
  /\ pc[r] \in {"writing", "renamed"}
  /\ Release
  /\ snap' = [snap EXCEPT ![r] = Zero]
  /\ grantDay' = [grantDay EXCEPT ![r] = day]
  /\ Goto(r, "publishing")
  /\ UNCHANGED <<day, client, dayKey, active, file, charged>>

\* The reservation returns and the publish starts.
Grant(r) ==
  /\ pc[r] = "renamed"
  /\ Release
  /\ snap' = [snap EXCEPT ![r] = Zero]
  /\ grantDay' = [grantDay EXCEPT ![r] = day]
  /\ Goto(r, "publishing")
  /\ UNCHANGED <<day, client, dayKey, active, file, charged>>

\* Faulty: the slot is freed only when the operation succeeds.
Leave_OnSuccess(r) ==
  /\ pc[r] \in {"publishing", "leaving"}
  /\ active' = IF pc[r] = "publishing" THEN active - 1 ELSE active
  /\ Goto(r, "done")
  /\ UNCHANGED <<day, client, dayKey, queue, file, snap, charged, grantDay>>

\* The operation settles, or the error arrives: `finally` frees the slot.
Leave(r) ==
  /\ pc[r] \in {"publishing", "leaving"}
  /\ active' = active - 1
  /\ Goto(r, "done")
  /\ UNCHANGED <<day, client, dayKey, queue, file, snap, charged, grantDay>>

Midnight ==
  /\ day < MaxDay
  /\ day' = day + 1
  /\ UNCHANGED <<pc, client, dayKey, active, queue, file, snap, charged, grantDay>>

\* The server process dies and restarts: module state is new, the file stays.
Restart ==
  /\ \E r \in Requests : pc[r] \in Inside
  /\ pc' = [r \in Requests |-> IF pc[r] \in Inside THEN "done" ELSE pc[r]]
  /\ active' = 0
  /\ queue' = <<>>
  /\ snap' = [r \in Requests |-> Zero]
  /\ UNCHANGED <<day, client, dayKey, file, charged, grantDay>>

Step(r) == \/ Read(r) \/ ReadFails(r) \/ Refuse(r) \/ Count(r) \/ Rename(r)
           \/ WriteFails(r) \/ Grant(r) \/ Leave(r)

\* Every request has been answered and the bounded clock is at its end.
Quiescent == /\ day = MaxDay
             /\ \A r \in Requests : pc[r] = "done"
             /\ UNCHANGED vars

Next == \/ \E r \in Requests : (\E c \in Clients : Enter(r, c)) \/ Busy(r) \/ Step(r)
        \/ Midnight
        \/ Restart
        \/ Quiescent

Spec == Init /\ [][Next]_vars
-----------------------------------------------------------------------------
(* Properties *)

ChargedTo(d)     == {r \in charged : dayKey[r] = d}
ChargedBy(d, c)  == {r \in charged : dayKey[r] = d /\ client[r] = c}
Granted          == {r \in Requests : grantDay[r] # NoDay}
GrantedLate(d)   == {r \in Requests : grantDay[r] = d /\ dayKey[r] < d}

\* Every variable has its type.
TypeOK ==
  /\ day \in 0 .. MaxDay
  /\ pc \in [Requests -> Inside \cup {"idle", "done"}]
  /\ client \in [Requests -> Clients \cup {NoClient}]
  /\ dayKey \in [Requests -> 0 .. MaxDay \cup {NoDay}]
  /\ active \in Nat
  /\ queue \in Seq(Requests)
  /\ file \in [day : 0 .. MaxDay \cup {NoDay}, total : Nat, byIp : [Clients -> Nat]]
  /\ snap \in [Requests -> [total : Nat, byIp : [Clients -> Nat]]]
  /\ charged \subseteq Requests
  /\ grantDay \in [Requests -> 0 .. MaxDay \cup {NoDay}]

\* Over any interleaving, midnight, failed write or restart, what was charged
\* to a day stays within the daily limit and the client limit, and a request
\* is granted only after its charge is on disk.
BudgetHolds ==
  /\ Granted \subseteq charged
  /\ \A d \in 0 .. MaxDay :
       /\ Cardinality(ChargedTo(d)) <= GlobalDailyLimit
       /\ \A c \in Clients : Cardinality(ChargedBy(d, c)) <= IpDailyLimit

\* The file counts exactly the requests charged to its day, client by client:
\* no update is lost between the read and the rename, and a refused or failed
\* reservation leaves no trace.
FileCountsCharges ==
  /\ file.total = Cardinality(ChargedTo(file.day))
  /\ \A c \in Clients : file.byIp[c] = Cardinality(ChargedBy(file.day, c))

\* A slot is held by exactly the requests that are inside, never more than the
\* configured concurrency: no path leaks a slot or frees it twice.
SlotsMatchRequests ==
  /\ active = Cardinality({r \in Requests : pc[r] \in Inside})
  /\ active <= Concurrency

\* From the read of the file to its rename a request is alone.
OneInCriticalSection ==
  \A r, s \in Requests : pc[r] \in Critical /\ pc[s] \in Critical => r = s

\* The day is read before the lock is awaited, so a reservation may return
\* after midnight: what starts publishing on one calendar day exceeds the
\* daily limit by at most the requests that were inside at midnight.
PublishesPerCalendarDay ==
  \A d \in 0 .. MaxDay :
    Cardinality({r \in Requests : grantDay[r] = d}) <= GlobalDailyLimit + Concurrency

\* A request that computed its day before midnight never overwrites the counts
\* of the new day, although it writes a file with only its own day in it.
DayNeverReverts == [][file'.day >= file.day]_file

\* A request is refused only when its day or its client has really spent the
\* budget: earlier refusals, failed writes and other days' requests cost nothing.
RefusedOnlyWhenSpent ==
  [][\A r \in Requests :
       Refuse(r) => \/ Cardinality(ChargedTo(dayKey[r])) >= GlobalDailyLimit
                   \/ Cardinality(ChargedBy(dayKey[r], client[r])) >= IpDailyLimit]_vars

\* The file store implements the abstract budget.
Abstract == INSTANCE BudgetSpec WITH
  Days <- 0 .. MaxDay,
  account <- [r \in Requests |-> IF r \in charged THEN <<dayKey[r], client[r]>> ELSE <<>>],
  granted <- Granted
ImplementsBudget == Abstract!BudgetedGrants
=============================================================================
