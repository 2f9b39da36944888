--------------------------- MODULE UpstashBudget ---------------------------
(***************************************************************************)
(* The public stamp budget in an Upstash Redis (reserveUpstashBudget and   *)
(* runUpstashPipeline of apps/web/lib/server/stamp-budget.ts).  Each       *)
(* reservation of any server instance sends one pipeline of four commands, *)
(* INCR and EXPIRE of the day's counter and of the client's, without       *)
(* having read anything first, and judges the counts that come back.  The  *)
(* store runs the commands of a pipeline in order, but one by one; answers *)
(* get lost, and a pipeline may run long after it was sent.                *)
(*                                                                         *)
(* A tick is half a second, so that the rounding of a remaining time to    *)
(* whole seconds shows.                                                    *)
(***************************************************************************)
EXTENDS Integers, FiniteSets

CONSTANTS
  Requests, Clients,
  GlobalDailyLimit, IpDailyLimit,
  DayTicks,    \* length of a UTC day
  MinTtl,      \* the shortest time to live, in seconds (60 in the code)
  MaxTime      \* bound: the clock stops here

ASSUME RequestsAssumption == IsFiniteSet(Requests)
ASSUME UpstashAssumption ==
  /\ GlobalDailyLimit \in Nat \ {0} /\ IpDailyLimit \in Nat \ {0}
  /\ DayTicks \in Nat \ {0} /\ MinTtl \in Nat \ {0} /\ MaxTime \in Nat
  /\ "all" \notin Clients

VARIABLES
  now,      \* the clock, the same for all instances
  pc,       \* pc[r]: idle, sent, granted, refused, error
  sent,     \* sent[r] = [day, client, ttl]: what its pipeline says
  next,     \* next[r]: the command of its pipeline the store runs next, 5 = done
  reply,    \* reply[r] = [total, own, failed]: what its pipeline answered
  store,    \* store[d][k] = [count, expires] for k a client or "all" (external)
  counted   \* history: counted[r], the INCRs that ran: the key, the count, and
            \* whether the day of the pipeline still was

vars == <<now, pc, sent, next, reply, store, counted>>

Days    == 0 .. MaxTime \div DayTicks
Today   == now \div DayTicks
Keys    == Clients \cup {"all"}
Never   == -1
NoKey   == [count |-> 0, expires |-> Never]
NotSent == [day |-> -1]
NoReply == [total |-> 0, own |-> 0, failed |-> FALSE]

Init ==
  /\ now = 0
  /\ pc = [r \in Requests |-> "idle"]
  /\ sent = [r \in Requests |-> NotSent]
  /\ next = [r \in Requests |-> 1]
  /\ reply = [r \in Requests |-> NoReply]
  /\ store = [d \in Days |-> [k \in Keys |-> NoKey]]
  /\ counted = [r \in Requests |-> {}]

-----------------------------------------------------------------------------
(* The server instances *)

Greater(a, b) == IF a >= b THEN a ELSE b

Remaining == (Today + 1) * DayTicks - now

\* Faulty: the remaining time is rounded down, or left in milliseconds.
SecondsUntilTomorrow_Floor  == Greater(MinTtl, Remaining \div 2)
SecondsUntilTomorrow_Millis == Greater(MinTtl, 500 * Remaining)

SecondsUntilTomorrow == Greater(MinTtl, (Remaining + 1) \div 2)

Send(r, c) ==
  /\ pc[r] = "idle"
  /\ pc' = [pc EXCEPT ![r] = "sent"]
  /\ sent' = [sent EXCEPT ![r] =
                [day |-> Today, client |-> c, ttl |-> 2 * SecondsUntilTomorrow]]
  /\ UNCHANGED <<now, next, reply, store, counted>>

Settle(r, outcome) ==
  /\ pc[r] = "sent"
  /\ pc' = [pc EXCEPT ![r] = outcome]
  /\ reply' = [reply EXCEPT ![r] = NoReply]
  /\ UNCHANGED <<now, sent, next, store, counted>>

\* Faulty: the errors of single commands are not looked at.
Answered_IgnoresErrors(r) == next[r] = 5

Answered(r) == next[r] = 5 /\ ~reply[r].failed

\* Faulty: the count that comes back is taken for the count before the INCR.
OverGlobal_Before(r) == reply[r].total - 1 > GlobalDailyLimit

OverGlobal(r) == reply[r].total > GlobalDailyLimit
OverIp(r)     == reply[r].own > IpDailyLimit

Refuse(r) == Answered(r) /\ (OverGlobal(r) \/ OverIp(r)) /\ Settle(r, "refused")
Grant(r)  == Answered(r) /\ ~OverGlobal(r) /\ ~OverIp(r) /\ Settle(r, "granted")

\* A command of the pipeline failed, or the call did: no connection, an HTTP
\* status, a body that is no array, an answer that never comes.
Fail(r) == Settle(r, "error")

-----------------------------------------------------------------------------
(* The store (external) *)

Key(r) == IF next[r] <= 2 THEN "all" ELSE sent[r].client

SetKey(r, value) == store' = [store EXCEPT ![sent[r].day][Key(r)] = value]

Step(r) == next' = [next EXCEPT ![r] = @ + 1]

\* What the pipeline answers is of no use once the request was settled.
Tell(r, value) == reply' = IF pc[r] = "sent" THEN [reply EXCEPT ![r] = value] ELSE reply

\* INCR keeps the expiry of a counter that is there and starts a new one at 1.
Incr(r) ==
  /\ pc[r] # "idle" /\ next[r] \in {1, 3}
  /\ LET old == store[sent[r].day][Key(r)]
         n   == old.count + 1
     IN  /\ SetKey(r, [old EXCEPT !.count = n])
         /\ Tell(r, IF next[r] = 1 THEN [reply[r] EXCEPT !.total = n]
                                   ELSE [reply[r] EXCEPT !.own = n])
  /\ counted' = [counted EXCEPT ![r] =
                   @ \cup {[key |-> Key(r), inTime |-> sent[r].day = Today,
                          count |-> store'[sent[r].day][Key(r)].count]}]
  /\ Step(r)
  /\ UNCHANGED <<now, pc, sent>>

\* EXPIRE replaces the expiry of a counter that is there.
Expire(r) ==
  /\ pc[r] # "idle" /\ next[r] \in {2, 4}
  /\ LET old == store[sent[r].day][Key(r)] IN
       SetKey(r, IF old.count = 0 THEN old ELSE [old EXCEPT !.expires = now + sent[r].ttl])
  /\ Step(r)
  /\ UNCHANGED <<now, pc, sent, reply, counted>>

\* A command fails and leaves the keys alone; those after it still run.
CommandFails(r) ==
  /\ pc[r] # "idle" /\ next[r] <= 4
  /\ Tell(r, [reply[r] EXCEPT !.failed = TRUE])
  /\ Step(r)
  /\ UNCHANGED <<now, pc, sent, store, counted>>

\* Time passes, and keys at the end of their life are gone.
Tick ==
  /\ now < MaxTime
  /\ now' = now + 1
  /\ store' = [d \in Days |-> [k \in Keys |->
                 IF store[d][k].expires = now' THEN NoKey ELSE store[d][k]]]
  /\ UNCHANGED <<pc, sent, next, reply, counted>>

\* The bounded clock is at its end.
Stop == now = MaxTime /\ UNCHANGED vars

Next ==
  \/ \E r \in Requests :
       \/ \E c \in Clients : Send(r, c)
       \/ Refuse(r) \/ Grant(r) \/ Fail(r)
       \/ Incr(r) \/ Expire(r) \/ CommandFails(r)
  \/ Tick
  \/ Stop

Spec == Init /\ [][Next]_vars
-----------------------------------------------------------------------------
(* Properties *)

Charged(d, k) ==
  {r \in Requests : sent[r].day = d /\ \E i \in counted[r] : i.key = k}

\* r was counted on the day it was sent, not after midnight.
OnTime(r) == \A i \in counted[r] : i.inTime

\* Every variable has its type.
TypeOK ==
  /\ now \in 0 .. MaxTime
  /\ pc \in [Requests -> {"idle", "sent", "granted", "refused", "error"}]
  /\ \A r \in Requests :
       sent[r] \in {NotSent} \cup [day : Days, client : Clients, ttl : 1 .. DayTicks + 2 * MinTtl]
  /\ next \in [Requests -> 1 .. 5]
  /\ reply \in [Requests -> [total : Nat, own : Nat, failed : BOOLEAN]]
  /\ store \in [Days -> [Keys -> [count : Nat, expires : Nat \cup {Never}]]]

\* As long as a day lasts its counters count every INCR that ran, from however
\* many instances and in whatever order: none expires before midnight, however
\* its time to live was rounded and however often it was set again.
CountersLastTheDay ==
  \A k \in Keys : store[Today][k].count = Cardinality(Charged(Today, k))

\* What is granted among the requests counted on their own day stays within
\* both limits, although nothing is read before it is counted and the commands
\* of different pipelines interleave.
GrantsWithinLimits ==
  \A d \in Days :
    LET granted == {r \in Requests : pc[r] = "granted" /\ sent[r].day = d /\ OnTime(r)}
    IN  /\ Cardinality(granted) <= GlobalDailyLimit
        /\ \A c \in Clients :
             Cardinality({r \in granted : sent[r].client = c}) <= IpDailyLimit

\* A grant was counted twice, for its day and for its client: a lost answer or
\* a failed command never turns into a publish nobody counted.
GrantsAreCounted ==
  \A r \in Requests :
    pc[r] = "granted" => {i.key : i \in counted[r]} = {"all", sent[r].client}

\* The budget a pipeline took: both counts in time and within their limits.
LimitOf(k) == IF k = "all" THEN GlobalDailyLimit ELSE IpDailyLimit
Took(r, k) == \E i \in counted[r] : i.key = k /\ i.inTime /\ i.count <= LimitOf(k)
Account == [r \in Requests |->
  IF Took(r, "all") /\ Took(r, sent[r].client)
  THEN <<sent[r].day, sent[r].client>> ELSE <<>>]

\* The Upstash store, too, implements the abstract budget as long as pipelines
\* run on their day, though it counts first and judges later: a pipeline takes
\* budget when its second count is within the limit, a lost answer leaves the
\* budget taken and nothing granted, and a refusal takes none.
Abstract == INSTANCE BudgetSpec WITH
  account <- Account,
  granted <- {r \in Requests : pc[r] = "granted" /\ OnTime(r)}
ImplementsBudget == Abstract!BudgetedGrants

=============================================================================
