------------------------ MODULE UpstashBudgetProofs ------------------------
(***************************************************************************)
(* The properties of UpstashBudget for any finite number of requests, any  *)
(* clients, limits and lengths of the day: a grant was counted for its day *)
(* and its client; while a day lasts its counters lose no count, since a   *)
(* key that any request of a day sets expires after that day, however the  *)
(* remainder was rounded; so the n-th that is counted is told n or more,   *)
(* and no more are granted than the limits say.                            *)
(***************************************************************************)
EXTENDS UpstashBudget, FiniteSetTheorems, TLAPS

Pipeline == [day : Days, client : Clients, ttl : 1 .. DayTicks + 2 * MinTtl]
Counter  == [count : Nat, expires : Nat \cup {Never}]
Answers  == [total : Nat, own : Nat, failed : BOOLEAN]

Types ==
  /\ now \in 0 .. MaxTime
  /\ pc \in [Requests -> {"idle", "sent", "granted", "refused", "error"}]
  /\ sent \in [Requests -> {NotSent} \cup Pipeline]
  /\ next \in [Requests -> 1 .. 5]
  /\ reply \in [Requests -> Answers]
  /\ store \in [Days -> [Keys -> Counter]]
  /\ counted \in [Requests -> SUBSET [key : Keys, inTime : BOOLEAN, count : Nat]]

DayEnd(d) == (d + 1) * DayTicks

\* A pipeline was sent on its day, with a time to live that outlasts it.
SentInv ==
  \A r \in Requests :
    /\ pc[r] = "idle" => next[r] = 1 /\ counted[r] = {}
    /\ pc[r] # "idle" => /\ sent[r] \in Pipeline /\ sent[r].day <= Today
                         /\ DayEnd(sent[r].day) <= now + sent[r].ttl

KeysOf(r) == {i.key : i \in counted[r]}

\* The keys counted are those of the commands that ran without an error.
KeysInv ==
  \A r \in Requests :
    /\ next[r] = 1 => KeysOf(r) = {}
    /\ next[r] <= 3 => KeysOf(r) \subseteq {"all"}
    /\ pc[r] # "idle" => KeysOf(r) \subseteq {"all", sent[r].client}
    /\ pc[r] = "sent" /\ ~reply[r].failed =>
         /\ next[r] >= 2 => "all" \in KeysOf(r)
         /\ next[r] >= 4 => sent[r].client \in KeysOf(r)
    /\ pc[r] = "granted" => next[r] = 5 /\ KeysOf(r) = {"all", sent[r].client}

ExpiryInv ==
  \A d \in Days, k \in Keys :
    store[d][k].expires = Never \/ DayEnd(d) <= store[d][k].expires

CountInv ==
  \A d \in Days, k \in Keys :
    Today <= d => store[d][k].count = Cardinality(Charged(d, k))

IInv == Types /\ SentInv /\ KeysInv /\ ExpiryInv /\ CountInv

-----------------------------------------------------------------------------
(* The calendar *)

LEMMA DayFacts ==
  ASSUME now \in 0 .. MaxTime
  PROVE  Today \in Days /\ Today * DayTicks <= now /\ now < DayEnd(Today)
<1> USE UpstashAssumption
<1>1. /\ now \div DayTicks \in Nat /\ (now \div DayTicks) * DayTicks <= now
      /\ now < (now \div DayTicks + 1) * DayTicks
  OBVIOUS
<1>2. now \div DayTicks <= MaxTime \div DayTicks /\ MaxTime \div DayTicks \in Nat
  OBVIOUS
<1> QED BY <1>1, <1>2 DEF Today, Days, DayEnd

LEMMA DaysGrow ==
  ASSUME NEW d \in Nat, NEW e \in Nat, d <= e
  PROVE  DayEnd(d) <= DayEnd(e) /\ DayEnd(d) \in Nat /\ DayEnd(e) \in Nat
BY UpstashAssumption DEF DayEnd

LEMMA DaysInNat == Days \subseteq Nat
<1>1. MaxTime \div DayTicks \in Nat
  BY UpstashAssumption
<1> QED BY <1>1 DEF Days

\* Rounded up to whole seconds, what remains of the day is not cut short.
LEMMA TimeToLive ==
  ASSUME now \in 0 .. MaxTime
  PROVE  /\ 2 * SecondsUntilTomorrow \in 1 .. DayTicks + 2 * MinTtl
         /\ DayEnd(Today) <= now + 2 * SecondsUntilTomorrow
<1> USE UpstashAssumption
<1>1. Remaining = DayEnd(Today) - now
  BY DEF Remaining, DayEnd
<1>2. Remaining \in 1 .. DayTicks
  <2>1. Today \in Nat /\ Today * DayTicks <= now /\ now < DayEnd(Today)
    BY DayFacts, DaysInNat
  <2>2. DayEnd(Today) = Today * DayTicks + DayTicks /\ Today * DayTicks \in Nat
    BY <2>1 DEF DayEnd
  <2> QED BY <1>1, <2>1, <2>2
<1>3. /\ (Remaining + 1) \div 2 \in Nat
      /\ 2 * ((Remaining + 1) \div 2) >= Remaining
      /\ 2 * ((Remaining + 1) \div 2) <= Remaining + 1
  BY <1>2
<1>4. /\ 2 * SecondsUntilTomorrow >= Remaining
      /\ 2 * SecondsUntilTomorrow \in 1 .. DayTicks + 2 * MinTtl
  BY <1>2, <1>3 DEF SecondsUntilTomorrow, Greater
<1>5. DayEnd(Today) \in Nat
  <2>1. Today \in Nat
    BY DayFacts, DaysInNat
  <2>2. Today <= Today
    BY <2>1
  <2> QED BY <2>1, <2>2, DaysGrow
<1> QED BY <1>1, <1>4, <1>5

-----------------------------------------------------------------------------
(* The steps *)

LEMMA InitIInv == Init => IInv
<1> SUFFICES ASSUME Init PROVE IInv
  OBVIOUS
<1> USE UpstashAssumption DEF Init
<1>1. Types
  BY DEF Types, Answers, NoReply, Counter, NoKey
<1>2. SentInv
  BY DEF SentInv
<1>3. \A r \in Requests : KeysOf(r) = {}
  BY DEF KeysOf
<1>4. KeysInv
  BY <1>3 DEF KeysInv
<1>5. ExpiryInv
  BY DEF ExpiryInv, NoKey
<1>6. \A d \in Days, k \in Keys : Charged(d, k) = {}
  BY DEF Charged
<1>7. CountInv
  BY <1>6, FS_EmptySet DEF CountInv, NoKey
<1> QED BY <1>1, <1>2, <1>4, <1>5, <1>7 DEF IInv

\* A pipeline under way has a day, a client, and a key for its next command.
LEMMA KeyFacts ==
  ASSUME Types, SentInv, NEW r \in Requests, pc[r] # "idle"
  PROVE  /\ sent[r] \in Pipeline /\ sent[r].day \in Days /\ sent[r].client \in Clients
         /\ sent[r].client # "all" /\ Key(r) \in Keys
         /\ next[r] <= 2 => Key(r) = "all"
         /\ next[r] > 2 => Key(r) = sent[r].client
BY UpstashAssumption DEF Types, SentInv, Pipeline, Key, Keys

LEMMA ChargedKeys ==
  /\ \A d, k : Charged(d, k) = {r \in Requests : sent[r].day = d /\ k \in KeysOf(r)}
  /\ \A d, k : IsFiniteSet(Charged(d, k))
<1>1. \A d, k : Charged(d, k) = {r \in Requests : sent[r].day = d /\ k \in KeysOf(r)}
  BY DEF Charged, KeysOf
<1>2. \A d, k : Charged(d, k) \subseteq Requests
  BY DEF Charged
<1> QED BY <1>1, <1>2, RequestsAssumption, FS_Subset

\* A step that counts nothing and leaves the counters alone.
LEMMA NothingCounted ==
  ASSUME CountInv, UNCHANGED <<now, counted>>,
         \A d \in Days, k \in Keys : store'[d][k].count = store[d][k].count,
         \A r \in Requests : sent'[r] = sent[r] \/ counted[r] = {}
  PROVE  CountInv'
<1>1. \A d \in Days, k \in Keys : Charged(d, k)' = Charged(d, k)
  BY DEF Charged
<1>2. Today' = Today
  BY DEF Today
<1> QED BY <1>1, <1>2 DEF CountInv

LEMMA SendStep ==
  ASSUME IInv, NEW r \in Requests, NEW c \in Clients, Send(r, c)
  PROVE  IInv'
<1> DEFINE p == [day |-> Today, client |-> c, ttl |-> 2 * SecondsUntilTomorrow]
<1>1. /\ pc[r] = "idle" /\ pc' = [pc EXCEPT ![r] = "sent"] /\ sent' = [sent EXCEPT ![r] = p]
      /\ UNCHANGED <<now, next, reply, store, counted>>
  BY DEF Send
<1>2. Types /\ now \in 0 .. MaxTime
  BY DEF IInv, Types
<1>3. /\ p \in Pipeline /\ p.day = Today /\ p.client = c
      /\ DayEnd(p.day) <= now + p.ttl /\ Today \in Nat
  BY <1>2, DayFacts, DaysInNat, TimeToLive DEF Pipeline
<1> HIDE DEF p
<1>4. Types'
  BY <1>1, <1>2, <1>3 DEF Types
<1>5. Today' = Today
  BY <1>1 DEF Today
<1>6. /\ pc'[r] = "sent" /\ sent'[r] = p /\ next[r] = 1 /\ counted[r] = {}
      /\ \A q \in Requests : q # r => pc'[q] = pc[q] /\ sent'[q] = sent[q]
  BY <1>1, <1>2 DEF Types, IInv, SentInv
<1>7. SentInv'
  BY <1>1, <1>3, <1>5, <1>6 DEF SentInv, IInv
<1>8. \A q \in Requests : KeysOf(q)' = KeysOf(q)
  BY <1>1 DEF KeysOf
<1>9. KeysOf(r) = {}
  BY <1>6 DEF KeysOf
<1>10. KeysInv'
  BY <1>1, <1>6, <1>8, <1>9 DEF KeysInv, IInv
<1>11. ExpiryInv'
  BY <1>1 DEF ExpiryInv, IInv
<1>12. CountInv'
  BY <1>1, <1>6, NothingCounted DEF IInv
<1> QED BY <1>4, <1>7, <1>10, <1>11, <1>12 DEF IInv

LEMMA SettleStep ==
  ASSUME IInv, NEW r \in Requests, Refuse(r) \/ Grant(r) \/ Fail(r)
  PROVE  IInv'
<1>1. PICK o \in {"granted", "refused", "error"} :
        /\ Settle(r, o)
        /\ o = "granted" => next[r] = 5 /\ ~reply[r].failed
  BY DEF Refuse, Grant, Fail, Answered
<1>2. /\ pc[r] = "sent" /\ pc' = [pc EXCEPT ![r] = o]
      /\ reply' = [reply EXCEPT ![r] = NoReply]
      /\ UNCHANGED <<now, sent, next, store, counted>>
  BY <1>1 DEF Settle
<1>3. Types'
  BY <1>2 DEF IInv, Types, NoReply, Answers
<1>4. /\ pc'[r] = o
      /\ \A q \in Requests : q # r => pc'[q] = pc[q] /\ reply'[q] = reply[q]
  BY <1>2 DEF IInv, Types
<1>5. Today' = Today
  BY <1>2 DEF Today
<1>6. SentInv'
  BY <1>2, <1>4, <1>5 DEF SentInv, IInv
<1>7. \A q \in Requests : KeysOf(q)' = KeysOf(q)
  BY <1>2 DEF KeysOf
<1>8. o = "granted" => KeysOf(r) = {"all", sent[r].client}
  <2> SUFFICES ASSUME o = "granted" PROVE KeysOf(r) = {"all", sent[r].client}
    OBVIOUS
  <2>1. next[r] = 5 /\ ~reply[r].failed
    BY <1>1
  <2>2. "all" \in KeysOf(r) /\ sent[r].client \in KeysOf(r)
    BY <1>2, <2>1 DEF IInv, KeysInv
  <2>3. KeysOf(r) \subseteq {"all", sent[r].client}
    BY <1>2 DEF IInv, KeysInv
  <2> QED BY <2>2, <2>3
<1>9. KeysInv'
  <2> SUFFICES ASSUME NEW q \in Requests PROVE
        /\ next'[q] = 1 => KeysOf(q)' = {}
        /\ next'[q] <= 3 => KeysOf(q)' \subseteq {"all"}
        /\ pc'[q] # "idle" => KeysOf(q)' \subseteq {"all", sent'[q].client}
        /\ pc'[q] = "sent" /\ ~reply'[q].failed =>
             /\ next'[q] >= 2 => "all" \in KeysOf(q)'
             /\ next'[q] >= 4 => sent'[q].client \in KeysOf(q)'
        /\ pc'[q] = "granted" => next'[q] = 5 /\ KeysOf(q)' = {"all", sent'[q].client}
    BY DEF KeysInv
  <2>1. CASE q = r
    BY <1>1, <1>2, <1>4, <1>7, <1>8, <2>1 DEF KeysInv, IInv
  <2>2. CASE q # r
    BY <1>2, <1>4, <1>7, <2>2 DEF KeysInv, IInv
  <2> QED BY <2>1, <2>2
<1>10. ExpiryInv'
  BY <1>2 DEF ExpiryInv, IInv
<1>11. CountInv'
  BY <1>2, NothingCounted DEF IInv
<1> QED BY <1>3, <1>6, <1>9, <1>10, <1>11 DEF IInv

\* One more.
LEMMA CounterUp ==
  ASSUME NEW c \in Counter
  PROVE  LET n == [c EXCEPT !.count = c.count + 1]
         IN  n \in Counter /\ n.count = c.count + 1 /\ n.expires = c.expires
BY DEF Counter

\* An INCR counts its request, which was not counted for this key before.
LEMMA IncrStep ==
  ASSUME IInv, NEW r \in Requests, Incr(r)
  PROVE  IInv'
<1> DEFINE dr  == sent[r].day
           kr  == Key(r)
           old == store[dr][kr]
           new == [old EXCEPT !.count = old.count + 1]
           i   == [key |-> kr, inTime |-> dr = Today, count |-> store'[dr][kr].count]
<1>1. /\ pc[r] # "idle" /\ next[r] \in {1, 3}
      /\ store' = [store EXCEPT ![dr][kr] = new]
      /\ counted' = [counted EXCEPT ![r] = @ \cup {i}]
      /\ next' = [next EXCEPT ![r] = @ + 1]
      /\ UNCHANGED <<now, pc, sent>>
  BY DEF Incr, SetKey, Step
<1>2. Types /\ SentInv /\ KeysInv
  BY DEF IInv
<1>3. /\ sent[r] \in Pipeline /\ dr \in Days /\ sent[r].client \in Clients
      /\ sent[r].client # "all" /\ kr \in Keys
      /\ next[r] = 1 => kr = "all"
      /\ next[r] = 3 => kr = sent[r].client
  BY <1>1, <1>2, KeyFacts
<1>4. old \in Counter /\ new \in Counter /\ new.count = old.count + 1 /\ new.expires = old.expires
  <2>1. old \in Counter
    BY <1>2, <1>3 DEF Types
  <2> QED BY <2>1, CounterUp
<1>5. /\ reply' \in [Requests -> Answers]
      /\ reply'[r].failed = reply[r].failed
      /\ \A q \in Requests : q # r => reply'[q] = reply[q]
  <2>1. reply' = reply \/ \E n \in Nat :
            \/ reply' = [reply EXCEPT ![r] = [reply[r] EXCEPT !.total = n]]
            \/ reply' = [reply EXCEPT ![r] = [reply[r] EXCEPT !.own = n]]
    BY <1>2, <1>3, <1>4 DEF Incr, Tell, Counter
  <2> QED BY <1>2, <2>1 DEF Types, Answers
<1>6. counted' \in [Requests -> SUBSET [key : Keys, inTime : BOOLEAN, count : Nat]]
  <2>1. store'[dr][kr] = new /\ new.count \in Nat
    BY <1>1, <1>2, <1>3, <1>4 DEF Types, Counter
  <2>2. i \in [key : Keys, inTime : BOOLEAN, count : Nat]
    BY <1>3, <2>1
  <2> HIDE DEF i
  <2> QED BY <1>1, <1>2, <2>2 DEF Types
<1>7. /\ counted'[r] = counted[r] \cup {i} /\ i.key = kr
      /\ \A q \in Requests : q # r => counted'[q] = counted[q]
  BY <1>1, <1>2 DEF Types
<1> HIDE DEF i
<1>8. KeysOf(r)' = KeysOf(r) \cup {kr} /\ kr \notin KeysOf(r)
  <2>1. KeysOf(r)' = KeysOf(r) \cup {kr}
    BY <1>7 DEF KeysOf
  <2>2. kr \notin KeysOf(r)
    BY <1>1, <1>2, <1>3 DEF KeysInv
  <2> QED BY <2>1, <2>2
<1>9. \A q \in Requests : q # r => KeysOf(q)' = KeysOf(q)
  BY <1>7 DEF KeysOf
<1>10. /\ next'[r] = next[r] + 1 /\ next' \in [Requests -> 1 .. 5]
       /\ \A q \in Requests : q # r => next'[q] = next[q]
  BY <1>1, <1>2 DEF Types
<1>11. /\ store' \in [Days -> [Keys -> Counter]]
       /\ \A d \in Days, k \in Keys :
            store'[d][k] = IF d = dr /\ k = kr THEN new ELSE store[d][k]
  <2> HIDE DEF new, dr, kr, old
  <2>1. store \in [Days -> [Keys -> Counter]]
    BY <1>2 DEF Types
  <2> QED BY <1>1, <1>3, <1>4, <2>1
<1>12. Types'
  BY <1>1, <1>2, <1>5, <1>6, <1>10, <1>11 DEF Types
<1>13. SentInv'
  <2>1. Today' = Today
    BY <1>1 DEF Today
  <2> QED BY <1>1, <1>2, <1>7, <1>10, <2>1 DEF SentInv
<1>14. KeysInv'
  <2> SUFFICES ASSUME NEW q \in Requests PROVE
        /\ next'[q] = 1 => KeysOf(q)' = {}
        /\ next'[q] <= 3 => KeysOf(q)' \subseteq {"all"}
        /\ pc'[q] # "idle" => KeysOf(q)' \subseteq {"all", sent'[q].client}
        /\ pc'[q] = "sent" /\ ~reply'[q].failed =>
             /\ next'[q] >= 2 => "all" \in KeysOf(q)'
             /\ next'[q] >= 4 => sent'[q].client \in KeysOf(q)'
        /\ pc'[q] = "granted" => next'[q] = 5 /\ KeysOf(q)' = {"all", sent'[q].client}
    BY DEF KeysInv
  <2>1. CASE q # r
    BY <1>1, <1>2, <1>5, <1>9, <1>10, <2>1 DEF KeysInv
  <2>2. CASE q = r /\ next[r] = 1
    <3>1. kr = "all" /\ next'[r] = 2 /\ KeysOf(r)' = {"all"} /\ pc[r] # "granted"
      BY <1>1, <1>2, <1>3, <1>8, <1>10, <2>2 DEF KeysInv
    <3> QED BY <1>1, <2>2, <3>1
  <2>3. CASE q = r /\ next[r] = 3
    <3>1. /\ kr = sent[r].client /\ next'[r] = 4 /\ KeysOf(r)' = KeysOf(r) \cup {kr}
          /\ KeysOf(r) \subseteq {"all"} /\ pc[r] # "granted"
      BY <1>1, <1>2, <1>3, <1>8, <1>10, <2>3 DEF KeysInv
    <3>2. pc[r] = "sent" /\ ~reply'[r].failed => "all" \in KeysOf(r)
      BY <1>2, <1>5, <2>3 DEF KeysInv
    <3> QED BY <1>1, <2>3, <3>1, <3>2
  <2> QED BY <1>1, <2>1, <2>2, <2>3
<1>15. ExpiryInv'
  BY <1>4, <1>11 DEF ExpiryInv, IInv
<1>16. CountInv'
  <2> SUFFICES ASSUME NEW d \in Days, NEW k \in Keys, Today <= d
               PROVE  store'[d][k].count = Cardinality(Charged(d, k)')
    BY <1>1 DEF CountInv, Today
  <2>1. store[d][k].count = Cardinality(Charged(d, k))
    BY DEF IInv, CountInv
  <2>2. /\ Charged(d, k) = {q \in Requests : sent[q].day = d /\ k \in KeysOf(q)}
        /\ Charged(d, k)' = {q \in Requests : sent[q].day = d /\ k \in KeysOf(q)'}
    BY <1>1 DEF Charged, KeysOf
  <2>3. CASE d = dr /\ k = kr
    <3>1. Charged(d, k)' = Charged(d, k) \cup {r} /\ r \notin Charged(d, k)
      BY <1>8, <1>9, <2>2, <2>3
    <3>2. IsFiniteSet(Charged(d, k))
      BY ChargedKeys
    <3>3. Cardinality(Charged(d, k) \cup {r}) = Cardinality(Charged(d, k)) + 1
      BY <3>1, <3>2, FS_AddElement
    <3>4. store'[d][k].count = store[d][k].count + 1
      BY <1>4, <1>11, <2>3
    <3> QED BY <2>1, <3>1, <3>3, <3>4
  <2>4. CASE ~(d = dr /\ k = kr)
    <3>1. Charged(d, k)' = Charged(d, k)
      BY <1>8, <1>9, <2>2, <2>4
    <3> QED BY <1>11, <2>1, <2>4, <3>1
  <2> QED BY <2>3, <2>4
<1> QED BY <1>12, <1>13, <1>14, <1>15, <1>16 DEF IInv

\* An EXPIRE moves the end of its counter, and not before the end of its day.
LEMMA ExpireStep ==
  ASSUME IInv, NEW r \in Requests, Expire(r)
  PROVE  IInv'
<1> DEFINE dr  == sent[r].day
           kr  == Key(r)
           old == store[dr][kr]
           new == IF old.count = 0 THEN old ELSE [old EXCEPT !.expires = now + sent[r].ttl]
<1>1. /\ pc[r] # "idle" /\ next[r] \in {2, 4}
      /\ store' = [store EXCEPT ![dr][kr] = new]
      /\ next' = [next EXCEPT ![r] = @ + 1]
      /\ UNCHANGED <<now, pc, sent, reply, counted>>
  BY DEF Expire, SetKey, Step
<1>2. Types /\ SentInv /\ KeysInv
  BY DEF IInv
<1>3. sent[r] \in Pipeline /\ dr \in Days /\ kr \in Keys /\ sent[r].ttl \in Nat
  BY <1>1, <1>2, KeyFacts DEF Pipeline
<1>4. /\ new \in Counter /\ new.count = old.count
      /\ new.expires = old.expires \/ new.expires = now + sent[r].ttl
  BY <1>2, <1>3, UpstashAssumption DEF Types, Counter
<1>5. DayEnd(dr) <= now + sent[r].ttl
  BY <1>1, <1>2 DEF SentInv
<1>6. /\ store' \in [Days -> [Keys -> Counter]]
      /\ \A d \in Days, k \in Keys :
           store'[d][k] = IF d = dr /\ k = kr THEN new ELSE store[d][k]
  <2> HIDE DEF new, dr, kr, old
  <2>1. store \in [Days -> [Keys -> Counter]]
    BY <1>2 DEF Types
  <2> QED BY <1>1, <1>3, <1>4, <2>1
<1>7. /\ next'[r] = next[r] + 1 /\ next' \in [Requests -> 1 .. 5]
      /\ \A q \in Requests : q # r => next'[q] = next[q]
  BY <1>1, <1>2 DEF Types
<1> HIDE DEF new
<1>8. Types'
  BY <1>1, <1>2, <1>6, <1>7 DEF Types
<1>9. SentInv'
  <2>1. Today' = Today
    BY <1>1 DEF Today
  <2> QED BY <1>1, <1>2, <1>7, <2>1 DEF SentInv
<1>10. KeysInv'
  <2>1. \A q \in Requests : KeysOf(q)' = KeysOf(q)
    BY <1>1 DEF KeysOf
  <2> QED BY <1>1, <1>2, <1>7, <2>1 DEF KeysInv
<1>11. ExpiryInv'
  BY <1>4, <1>5, <1>6 DEF ExpiryInv, IInv
<1>12. CountInv'
  <2>1. \A d \in Days, k \in Keys : store'[d][k].count = store[d][k].count
    BY <1>4, <1>6
  <2> QED BY <1>1, <2>1, NothingCounted DEF IInv
<1> QED BY <1>8, <1>9, <1>10, <1>11, <1>12 DEF IInv

LEMMA CommandFailsStep ==
  ASSUME IInv, NEW r \in Requests, CommandFails(r)
  PROVE  IInv'
<1>1. /\ pc[r] # "idle" /\ next[r] <= 4
      /\ next' = [next EXCEPT ![r] = @ + 1]
      /\ UNCHANGED <<now, pc, sent, store, counted>>
  BY DEF CommandFails, Step
<1>2. Types /\ SentInv /\ KeysInv
  BY DEF IInv
<1>3. /\ reply' \in [Requests -> Answers]
      /\ \A q \in Requests : q # r => reply'[q] = reply[q]
      /\ pc[r] = "sent" => reply'[r].failed
  BY <1>2 DEF CommandFails, Tell, Types, Answers
<1>4. /\ next'[r] = next[r] + 1 /\ next' \in [Requests -> 1 .. 5]
      /\ \A q \in Requests : q # r => next'[q] = next[q]
  BY <1>1, <1>2 DEF Types
<1>5. Types'
  BY <1>1, <1>2, <1>3, <1>4 DEF Types
<1>6. SentInv'
  <2>1. Today' = Today
    BY <1>1 DEF Today
  <2> QED BY <1>1, <1>2, <1>4, <2>1 DEF SentInv
<1>7. KeysInv'
  <2>1. \A q \in Requests : KeysOf(q)' = KeysOf(q)
    BY <1>1 DEF KeysOf
  <2> SUFFICES ASSUME NEW q \in Requests PROVE
        /\ next'[q] = 1 => KeysOf(q) = {}
        /\ next'[q] <= 3 => KeysOf(q) \subseteq {"all"}
        /\ pc[q] # "idle" => KeysOf(q) \subseteq {"all", sent[q].client}
        /\ pc[q] = "sent" /\ ~reply'[q].failed =>
             /\ next'[q] >= 2 => "all" \in KeysOf(q)
             /\ next'[q] >= 4 => sent[q].client \in KeysOf(q)
        /\ pc[q] = "granted" => next'[q] = 5 /\ KeysOf(q) = {"all", sent[q].client}
    BY <1>1, <2>1 DEF KeysInv
  <2>2. CASE q # r
    BY <1>2, <1>3, <1>4, <2>2 DEF KeysInv
  <2>3. CASE q = r
    <3>1. /\ next[r] \in 1 .. 4 /\ next'[r] = next[r] + 1 /\ pc[r] # "granted"
          /\ pc[r] = "sent" => reply'[r].failed
      BY <1>1, <1>2, <1>3, <1>4 DEF KeysInv, Types
    <3>2. next'[r] <= 3 => next[r] <= 3
      BY <3>1
    <3> QED BY <1>1, <1>2, <2>3, <3>1, <3>2 DEF KeysInv
  <2> QED BY <2>2, <2>3
<1>8. ExpiryInv'
  BY <1>1 DEF ExpiryInv, IInv
<1>9. CountInv'
  BY <1>1, NothingCounted DEF IInv
<1> QED BY <1>5, <1>6, <1>7, <1>8, <1>9 DEF IInv

\* Time takes away the counters of days that are over, and no others.
LEMMA TickStep == ASSUME IInv, Tick PROVE IInv'
<1> USE UpstashAssumption
<1>1. /\ now' = now + 1 /\ now < MaxTime
      /\ store' = [d \in Days |-> [k \in Keys |->
                     IF store[d][k].expires = now' THEN NoKey ELSE store[d][k]]]
      /\ UNCHANGED <<pc, sent, next, reply, counted>>
  BY DEF Tick
<1>2. Types /\ now \in 0 .. MaxTime /\ now' \in 0 .. MaxTime
  BY <1>1 DEF IInv, Types
<1>3. /\ Today \in Nat /\ Today' \in Nat /\ Today <= Today'
      /\ now' < DayEnd(Today')
  <2>1. now \div DayTicks \in Nat /\ (now + 1) \div DayTicks \in Nat
        /\ now \div DayTicks <= (now + 1) \div DayTicks
    BY <1>2
  <2>2. now + 1 < ((now + 1) \div DayTicks + 1) * DayTicks
    BY <1>2
  <2> QED BY <1>1, <2>1, <2>2 DEF Today, DayEnd
<1>4. NoKey \in Counter /\ NoKey.expires = Never /\ Never \notin Nat
  BY DEF NoKey, Counter, Never
<1>5. Types'
  BY <1>1, <1>2, <1>4 DEF Types
<1>6. SentInv'
  <2> SUFFICES ASSUME NEW r \in Requests, pc[r] # "idle"
               PROVE  sent[r].day <= Today' /\ DayEnd(sent[r].day) <= now' + sent[r].ttl
    BY <1>1 DEF IInv, SentInv
  <2>1. /\ sent[r] \in Pipeline /\ sent[r].day <= Today
        /\ DayEnd(sent[r].day) <= now + sent[r].ttl
    BY DEF IInv, SentInv
  <2>2. sent[r].day \in Nat /\ sent[r].ttl \in Nat
    <3>1. sent[r].day \in Days /\ sent[r].ttl \in 1 .. DayTicks + 2 * MinTtl
      BY <2>1 DEF Pipeline
    <3>2. sent[r].day \in Nat
      BY <3>1, DaysInNat
    <3>3. sent[r].ttl \in Nat
      BY <3>1
    <3> QED BY <3>2, <3>3
  <2>3. sent[r].day <= sent[r].day
    BY <2>2
  <2>4. DayEnd(sent[r].day) \in Nat
    BY <2>2, <2>3, DaysGrow
  <2> QED BY <1>1, <1>2, <1>3, <2>1, <2>2, <2>4
<1>7. KeysInv'
  <2>1. \A q \in Requests : KeysOf(q)' = KeysOf(q)
    BY <1>1 DEF KeysOf
  <2> QED BY <1>1, <2>1 DEF IInv, KeysInv
<1>8. ExpiryInv'
  BY <1>1, <1>4 DEF IInv, ExpiryInv
<1>9. CountInv'
  <2> SUFFICES ASSUME NEW d \in Days, NEW k \in Keys, Today' <= d
               PROVE  store'[d][k].count = Cardinality(Charged(d, k)')
    BY DEF CountInv
  <2>1. d \in Nat /\ Today <= d
    BY <1>3, DaysInNat
  <2>2. now' < DayEnd(d)
    <3>1. DayEnd(Today') <= DayEnd(d) /\ DayEnd(d) \in Nat /\ DayEnd(Today') \in Nat
      BY <1>3, <2>1, DaysGrow
    <3> QED BY <1>2, <1>3, <3>1
  <2>3. store[d][k].expires # now'
    <3>1. store[d][k].expires = Never \/ DayEnd(d) <= store[d][k].expires
      BY DEF IInv, ExpiryInv
    <3>2. now' \in Nat /\ DayEnd(d) \in Nat
      BY <1>2, <2>1 DEF DayEnd
    <3> QED BY <2>2, <3>1, <3>2 DEF Never
  <2>4. store'[d][k] = store[d][k]
    BY <1>1, <2>3
  <2>5. Charged(d, k)' = Charged(d, k)
    BY <1>1 DEF Charged
  <2> QED BY <2>1, <2>4, <2>5 DEF IInv, CountInv
<1> QED BY <1>5, <1>6, <1>7, <1>8, <1>9 DEF IInv

LEMMA StepIInv == IInv /\ [Next]_vars => IInv'
<1> SUFFICES ASSUME IInv, [Next]_vars PROVE IInv'
  OBVIOUS
<1>1. CASE UNCHANGED vars
  <2>1. Types' /\ ExpiryInv'
    BY <1>1 DEF vars, IInv, Types, ExpiryInv
  <2>2. SentInv'
    BY <1>1 DEF vars, IInv, SentInv, Today
  <2>3. \A r \in Requests : KeysOf(r)' = KeysOf(r)
    BY <1>1 DEF vars, KeysOf
  <2>4. KeysInv'
    BY <1>1, <2>3 DEF vars, IInv, KeysInv
  <2>5. CountInv'
    BY <1>1, NothingCounted DEF vars, IInv
  <2> QED BY <2>1, <2>2, <2>4, <2>5 DEF IInv
<1>2. CASE Next
  BY <1>1, <1>2, SendStep, SettleStep, IncrStep, ExpireStep, CommandFailsStep, TickStep
     DEF Next, Stop
<1> QED BY <1>1, <1>2

LEMMA InductiveInvariant == Spec => []IInv
BY InitIInv, StepIInv, PTL DEF Spec

-----------------------------------------------------------------------------
\* Every variable keeps its type.
THEOREM TypeCorrect == Spec => []TypeOK
<1>1. IInv => TypeOK
  BY DEF IInv, Types, TypeOK, Pipeline, Counter, Answers
<1> QED BY <1>1, InductiveInvariant, PTL

\* As long as a day lasts its counters count every INCR of its requests.
THEOREM CountersAreKept == Spec => []CountersLastTheDay
<1>1. IInv => CountersLastTheDay
  <2> SUFFICES ASSUME IInv, NEW k \in Keys
               PROVE  store[Today][k].count = Cardinality(Charged(Today, k))
    BY DEF CountersLastTheDay
  <2>1. now \in 0 .. MaxTime
    BY DEF IInv, Types
  <2>2. Today \in Days /\ Today \in Nat
    BY <2>1, DayFacts, DaysInNat
  <2>3. Today <= Today
    BY <2>2
  <2> QED BY <2>2, <2>3 DEF IInv, CountInv
<1> QED BY <1>1, InductiveInvariant, PTL

\* A granted request is in the counters of its day and of its client.
THEOREM GrantsCounted == Spec => []GrantsAreCounted
<1>1. IInv => GrantsAreCounted
  BY DEF IInv, KeysInv, KeysOf, GrantsAreCounted
<1> QED BY <1>1, InductiveInvariant, PTL

-----------------------------------------------------------------------------
(* The limits *)

\* The requests that took of the budget of a key on their day.
Takers(d, k) == {r \in Requests : sent[r].day = d /\ Took(r, k)}

LimitInv ==
  \A d \in Days, k \in Keys : Cardinality(Takers(d, k)) <= LimitOf(k)

\* What a pipeline is told is what it was counted as, and whoever was granted
\* was counted within the limits.
ReplyInv ==
  \A r \in Requests : \A i \in counted[r] :
    /\ pc[r] = "sent" => i.count = IF i.key = "all" THEN reply[r].total ELSE reply[r].own
    /\ pc[r] = "granted" => i.count <= LimitOf(i.key)

\* A set of requests is no larger than one it is part of.
LEMMA Fewer ==
  ASSUME NEW S, NEW T, S \subseteq T, T \subseteq Requests, NEW n \in Nat, Cardinality(T) <= n
  PROVE  Cardinality(S) <= n
<1>1. IsFiniteSet(T)
  BY RequestsAssumption, FS_Subset
<1>2. IsFiniteSet(S) /\ Cardinality(S) <= Cardinality(T)
  BY <1>1, FS_Subset
<1> QED BY <1>1, <1>2, FS_CardinalityType

LEMMA LimitInNat == \A k : LimitOf(k) \in Nat
BY UpstashAssumption DEF LimitOf

\* A step that sends at most, and counts nothing.
LEMMA NothingTaken ==
  ASSUME UNCHANGED counted, \A r \in Requests : sent'[r] = sent[r] \/ counted[r] = {}
  PROVE  \A d, k : Takers(d, k)' = Takers(d, k)
<1>1. \A r, k : Took(r, k)' <=> Took(r, k)
  BY DEF Took
<1>2. \A r \in Requests : \A k : Took(r, k) => sent'[r] = sent[r]
  BY DEF Took
<1> QED BY <1>1, <1>2 DEF Takers, LimitOf

LEMMA InitLimits == Init => LimitInv /\ ReplyInv
<1> SUFFICES ASSUME Init PROVE LimitInv /\ ReplyInv
  OBVIOUS
<1>1. \A d, k : Takers(d, k) = {}
  BY DEF Init, Takers, Took
<1>2. LimitInv
  BY <1>1, FS_EmptySet, LimitInNat DEF LimitInv
<1>3. ReplyInv
  BY DEF Init, ReplyInv
<1> QED BY <1>2, <1>3

\* What an INCR does to the history: one more count, for a key not counted yet.
LEMMA IncrFacts ==
  ASSUME IInv, NEW r \in Requests, Incr(r)
  PROVE  \E n \in Nat :
    LET i == [key |-> Key(r), inTime |-> sent[r].day = Today, count |-> n] IN
    /\ counted' = [counted EXCEPT ![r] = @ \cup {i}]
    /\ n = store'[sent[r].day][Key(r)].count
    /\ Key(r) \in {"all", sent[r].client} /\ Key(r) \notin KeysOf(r)
    /\ sent[r].day \in Days /\ sent[r].client \in Clients /\ pc[r] # "idle"
    /\ pc[r] # "granted" /\ UNCHANGED <<now, pc, sent>>
    /\ \A q \in Requests : q # r => reply'[q] = reply[q]
    /\ pc[r] = "sent" /\ Key(r) = "all" => reply'[r].total = n /\ reply'[r].own = reply[r].own
    /\ pc[r] = "sent" /\ Key(r) # "all" => reply'[r].own = n /\ reply'[r].total = reply[r].total
<1> DEFINE dr == sent[r].day
           kr == Key(r)
           n  == store[dr][kr].count + 1
           i  == [key |-> kr, inTime |-> dr = Today, count |-> n]
<1>1. /\ pc[r] # "idle" /\ next[r] \in {1, 3}
      /\ store' = [store EXCEPT ![dr][kr] = [store[dr][kr] EXCEPT !.count = n]]
      /\ counted' = [counted EXCEPT ![r] = @ \cup
           {[key |-> kr, inTime |-> dr = Today, count |-> store'[dr][kr].count]}]
      /\ UNCHANGED <<now, pc, sent>>
  BY DEF Incr, SetKey
<1>2. Types /\ SentInv /\ KeysInv
  BY DEF IInv
<1>3. /\ dr \in Days /\ sent[r].client \in Clients /\ sent[r].client # "all" /\ kr \in Keys
      /\ next[r] = 1 => kr = "all"
      /\ next[r] = 3 => kr = sent[r].client
  BY <1>1, <1>2, KeyFacts
<1>4. n \in Nat /\ store'[dr][kr].count = n
  <2>1. store \in [Days -> [Keys -> Counter]] /\ store[dr][kr] \in Counter
    BY <1>2, <1>3 DEF Types
  <2> QED BY <1>1, <1>3, <2>1 DEF Counter
<1>5. /\ \A q \in Requests : q # r => reply'[q] = reply[q]
      /\ pc[r] = "sent" /\ kr = "all" => /\ reply'[r].total = n
                                         /\ reply'[r].own = reply[r].own
      /\ pc[r] = "sent" /\ kr # "all" => /\ reply'[r].own = n
                                         /\ reply'[r].total = reply[r].total
  <2>1. /\ pc[r] = "sent" /\ next[r] = 1 =>
             reply' = [reply EXCEPT ![r] = [reply[r] EXCEPT !.total = n]]
        /\ pc[r] = "sent" /\ next[r] = 3 =>
             reply' = [reply EXCEPT ![r] = [reply[r] EXCEPT !.own = n]]
        /\ pc[r] # "sent" => reply' = reply
    <3>1. Tell(r, IF next[r] = 1 THEN [reply[r] EXCEPT !.total = n]
                                 ELSE [reply[r] EXCEPT !.own = n])
      BY DEF Incr
    <3> HIDE DEF n
    <3>2. CASE pc[r] = "sent" /\ next[r] = 1
      BY <3>1, <3>2 DEF Tell
    <3>3. CASE pc[r] = "sent" /\ next[r] = 3
      BY <3>1, <3>3 DEF Tell
    <3>4. CASE pc[r] # "sent"
      BY <3>1, <3>4 DEF Tell
    <3> QED BY <1>1, <3>2, <3>3, <3>4
  <2> QED BY <1>1, <1>2, <1>3, <2>1 DEF Types, Answers
<1>6. kr \notin KeysOf(r) /\ pc[r] # "granted"
  BY <1>1, <1>2, <1>3 DEF KeysInv
<1>7. counted' = [counted EXCEPT ![r] = @ \cup {i}]
  BY <1>1, <1>4
<1> HIDE DEF n
<1> QED BY <1>1, <1>3, <1>4, <1>5, <1>6, <1>7

\* Who takes of a budget in an INCR: nobody new, but for its own request, of the
\* key it counts, on the day itself, if the count is within the limit.
LEMMA IncrTakers ==
  ASSUME IInv, NEW r \in Requests, Incr(r)
  PROVE  /\ \A q \in Requests : \A k : q # r => (Took(q, k)' <=> Took(q, k))
         /\ \A k : Took(r, k) => Took(r, k)'
         /\ \A k : Took(r, k)' /\ ~Took(r, k) =>
              /\ k = Key(r) /\ sent[r].day = Today
              /\ store'[sent[r].day][k].count <= LimitOf(k)
<1>1. PICK n \in Nat :
        /\ counted' = [counted EXCEPT ![r] = @ \cup
             {[key |-> Key(r), inTime |-> sent[r].day = Today, count |-> n]}]
        /\ n = store'[sent[r].day][Key(r)].count
  BY IncrFacts, Zenon
<1> DEFINE i == [key |-> Key(r), inTime |-> sent[r].day = Today, count |-> n]
<1>2. /\ counted'[r] = counted[r] \cup {i}
      /\ \A q \in Requests : q # r => counted'[q] = counted[q]
  BY <1>1 DEF IInv, Types
<1>3. i.key = Key(r) /\ (i.inTime => sent[r].day = Today) /\ i.count = n
  OBVIOUS
<1> HIDE DEF i
<1>4. \A k : LimitOf(k)' = LimitOf(k)
  BY DEF LimitOf
<1> QED BY <1>1, <1>2, <1>3, <1>4 DEF Took

LEMMA IncrLimits ==
  ASSUME IInv, IInv', LimitInv, ReplyInv, NEW r \in Requests, Incr(r)
  PROVE  LimitInv' /\ ReplyInv'
<1>1. PICK n \in Nat :
        LET i == [key |-> Key(r), inTime |-> sent[r].day = Today, count |-> n] IN
        /\ counted' = [counted EXCEPT ![r] = @ \cup {i}]
        /\ Key(r) \in {"all", sent[r].client} /\ Key(r) \notin KeysOf(r)
        /\ sent[r].day \in Days /\ sent[r].client \in Clients /\ pc[r] # "idle"
        /\ pc[r] # "granted" /\ UNCHANGED <<now, pc, sent>>
        /\ \A q \in Requests : q # r => reply'[q] = reply[q]
        /\ pc[r] = "sent" /\ Key(r) = "all" => reply'[r].total = n /\ reply'[r].own = reply[r].own
        /\ pc[r] = "sent" /\ Key(r) # "all" => reply'[r].own = n /\ reply'[r].total = reply[r].total
  BY IncrFacts, Zenon
<1> DEFINE i == [key |-> Key(r), inTime |-> sent[r].day = Today, count |-> n]
<1>2. /\ counted'[r] = counted[r] \cup {i} /\ i.key = Key(r) /\ i.count = n
      /\ \A q \in Requests : q # r => counted'[q] = counted[q]
  BY <1>1 DEF IInv, Types
<1> HIDE DEF i
<1>3. sent[r].client # "all" /\ \A j \in counted[r] : j.key \in {"all", sent[r].client} \ {Key(r)}
  <2>1. KeysOf(r) \subseteq {"all", sent[r].client}
    BY <1>1 DEF IInv, KeysInv
  <2> QED BY <1>1, <2>1, UpstashAssumption DEF KeysOf
<1>4. ReplyInv'
  <2> SUFFICES ASSUME NEW q \in Requests, NEW j \in counted'[q]
               PROVE  /\ pc'[q] = "sent" =>
                           j.count = IF j.key = "all" THEN reply'[q].total ELSE reply'[q].own
                      /\ pc'[q] = "granted" => j.count <= LimitOf(j.key)
    BY DEF ReplyInv, LimitOf
  <2>1. CASE q # r
    BY <1>1, <1>2, <2>1 DEF ReplyInv
  <2>2. CASE q = r /\ j = i
    BY <1>1, <1>2, <2>2
  <2>3. CASE q = r /\ j \in counted[r]
    <3>1. j.key \in {"all", sent[r].client} \ {Key(r)} /\ pc' = pc /\ pc[r] # "granted"
      BY <1>1, <1>3, <2>3
    <3>2. pc[r] = "sent" => j.count = IF j.key = "all" THEN reply[r].total ELSE reply[r].own
      BY <2>3 DEF ReplyInv
    <3>3. CASE Key(r) = "all"
      BY <1>1, <1>3, <2>3, <3>1, <3>2, <3>3
    <3>4. CASE Key(r) # "all"
      BY <1>1, <1>3, <2>3, <3>1, <3>2, <3>4
    <3> QED BY <3>3, <3>4
  <2> QED BY <1>2, <2>1, <2>2, <2>3
<1>5. LimitInv'
  <2> SUFFICES ASSUME NEW d \in Days, NEW k \in Keys
               PROVE  Cardinality(Takers(d, k)') <= LimitOf(k)
    BY DEF LimitInv, LimitOf
  <2>1. Cardinality(Takers(d, k)) <= LimitOf(k)
    BY DEF LimitInv
  <2>2. /\ Takers(d, k) \subseteq Requests /\ Takers(d, k)' \subseteq Requests
        /\ Takers(d, k)' = {q \in Requests : sent[q].day = d /\ Took(q, k)'}
    BY <1>1 DEF Takers
  <2>3. CASE /\ Took(r, k)' /\ ~Took(r, k) /\ sent[r].day = d
    <3>1. k = Key(r) /\ d = Today /\ store'[d][k].count <= LimitOf(k)
      BY <2>3, IncrTakers
    <3>2. store'[d][k].count = Cardinality(Charged(d, k)')
      <4>1. Today \in Nat /\ Today' = Today
        BY <1>1, DayFacts, DaysInNat DEF IInv, Types, Today
      <4>2. Today' <= d
        BY <3>1, <4>1
      <4> QED BY <4>2 DEF IInv, CountInv
    <3>3. Takers(d, k)' \subseteq Charged(d, k)' /\ Charged(d, k)' \subseteq Requests
      BY <2>2, <1>1 DEF Takers, Took, Charged
    <3> QED BY <3>1, <3>2, <3>3, Fewer, LimitInNat
  <2>4. CASE ~(Took(r, k)' /\ ~Took(r, k) /\ sent[r].day = d)
    <3>1. Takers(d, k)' \subseteq Takers(d, k)
      BY <2>2, <2>4, IncrTakers DEF Takers
    <3> QED BY <2>1, <2>2, <3>1, Fewer, LimitInNat
  <2> QED BY <2>3, <2>4
<1> QED BY <1>4, <1>5

LEMMA SettleLimits ==
  ASSUME IInv, LimitInv, ReplyInv, NEW r \in Requests, Refuse(r) \/ Grant(r) \/ Fail(r)
  PROVE  LimitInv' /\ ReplyInv'
<1>1. PICK o \in {"granted", "refused", "error"} :
        Settle(r, o) /\ (o = "granted" => ~OverGlobal(r) /\ ~OverIp(r))
  BY DEF Refuse, Grant, Fail
<1>2. /\ pc[r] = "sent" /\ pc' = [pc EXCEPT ![r] = o]
      /\ reply' = [reply EXCEPT ![r] = NoReply]
      /\ UNCHANGED <<sent, counted>>
  BY <1>1 DEF Settle
<1>3. /\ pc'[r] = o
      /\ \A q \in Requests : q # r => pc'[q] = pc[q] /\ reply'[q] = reply[q]
  BY <1>2 DEF IInv, Types
<1>4. LimitInv'
  BY <1>2, NothingTaken DEF LimitInv, LimitOf
<1>5. o = "granted" => /\ reply[r].total <= GlobalDailyLimit /\ reply[r].own <= IpDailyLimit
  BY <1>1, UpstashAssumption DEF OverGlobal, OverIp, IInv, Types, Answers
<1>6. o = "granted" => \A i \in counted[r] : i.count <= LimitOf(i.key)
  BY <1>2, <1>5 DEF ReplyInv, LimitOf
<1>7. ReplyInv'
  <2> SUFFICES ASSUME NEW q \in Requests, NEW i \in counted[q]
               PROVE  /\ pc'[q] = "sent" =>
                           i.count = IF i.key = "all" THEN reply'[q].total ELSE reply'[q].own
                      /\ pc'[q] = "granted" => i.count <= LimitOf(i.key)
    BY <1>2 DEF ReplyInv, LimitOf
  <2>1. CASE q # r
    BY <1>3, <2>1 DEF ReplyInv
  <2>2. CASE q = r
    BY <1>3, <1>6, <2>2
  <2> QED BY <2>1, <2>2
<1> QED BY <1>4, <1>7

LEMMA StepLimits ==
  IInv /\ IInv' /\ LimitInv /\ ReplyInv /\ [Next]_vars => LimitInv' /\ ReplyInv'
<1> SUFFICES ASSUME IInv, IInv', LimitInv, ReplyInv, [Next]_vars PROVE LimitInv' /\ ReplyInv'
  OBVIOUS
\* Steps that count nothing and leave what a pipeline is told.
<1>1. ASSUME UNCHANGED counted, \A q \in Requests : sent'[q] = sent[q] \/ counted[q] = {},
             \A q \in Requests : /\ pc'[q] = pc[q] \/ counted[q] = {}
                                 /\ reply'[q].total = reply[q].total
                                 /\ reply'[q].own = reply[q].own
      PROVE  LimitInv' /\ ReplyInv'
  <2>1. LimitInv'
    BY <1>1, NothingTaken DEF LimitInv, LimitOf
  <2>2. ReplyInv'
    BY <1>1 DEF ReplyInv, LimitOf
  <2> QED BY <2>1, <2>2
<1>2. ASSUME NEW r \in Requests, NEW c \in Clients, Send(r, c) PROVE LimitInv' /\ ReplyInv'
  <2>1. /\ pc[r] = "idle" /\ counted[r] = {} /\ UNCHANGED <<reply, counted>>
        /\ \A q \in Requests : q # r => pc'[q] = pc[q] /\ sent'[q] = sent[q]
    BY <1>2 DEF Send, IInv, Types, SentInv
  <2> QED BY <1>1, <2>1
<1>3. ASSUME NEW r \in Requests, Expire(r) PROVE LimitInv' /\ ReplyInv'
  <2>1. UNCHANGED <<pc, sent, reply, counted>>
    BY <1>3 DEF Expire
  <2> QED BY <1>1, <2>1
<1>4. ASSUME NEW r \in Requests, CommandFails(r) PROVE LimitInv' /\ ReplyInv'
  <2>1. UNCHANGED <<pc, sent, counted>>
    BY <1>4 DEF CommandFails
  <2>2. \A q \in Requests : /\ reply'[q].total = reply[q].total
                           /\ reply'[q].own = reply[q].own
    BY <1>4 DEF CommandFails, Tell, IInv, Types, Answers
  <2> QED BY <1>1, <2>1, <2>2
<1>5. CASE Tick \/ UNCHANGED vars
  <2>1. UNCHANGED <<pc, sent, reply, counted>>
    BY <1>5 DEF Tick, vars
  <2> QED BY <1>1, <2>1
<1> QED
  BY <1>2, <1>3, <1>4, <1>5, SettleLimits, IncrLimits DEF Next, Stop

LEMMA Limits == Spec => [](LimitInv /\ ReplyInv)
BY InitLimits, StepLimits, InductiveInvariant, PTL DEF Spec

\* Whoever was granted, and counted on its day, took of both budgets.
LEMMA GrantedTook ==
  ASSUME IInv, ReplyInv, NEW r \in Requests, pc[r] = "granted", OnTime(r)
  PROVE  /\ Took(r, "all")
         /\ Took(r, sent[r].client)
         /\ sent[r].client \in Clients /\ sent[r].client # "all" /\ sent[r].day \in Days
<1>1. "all" \in KeysOf(r) /\ sent[r].client \in KeysOf(r)
  BY DEF IInv, KeysInv
<1>2. \A i \in counted[r] : i.inTime /\ i.count <= LimitOf(i.key)
  BY DEF OnTime, ReplyInv
<1>3. sent[r].client \in Clients /\ sent[r].client # "all" /\ sent[r].day \in Days
  BY KeyFacts DEF IInv
<1> QED BY <1>1, <1>2, <1>3 DEF KeysOf, Took

\* Nothing is read before it is counted, and yet no more is granted than the
\* limits allow, for the day and for each client.
THEOREM GrantsAreLimited == Spec => []GrantsWithinLimits
<1>1. IInv /\ LimitInv /\ ReplyInv => GrantsWithinLimits
  <2> SUFFICES ASSUME IInv, LimitInv, ReplyInv, NEW d \in Days
               PROVE  LET granted == {r \in Requests : pc[r] = "granted" /\ sent[r].day = d
                                                        /\ OnTime(r)}
                      IN  /\ Cardinality(granted) <= GlobalDailyLimit
                          /\ \A c \in Clients :
                               Cardinality({r \in granted : sent[r].client = c}) <= IpDailyLimit
    BY DEF GrantsWithinLimits
  <2> DEFINE granted == {r \in Requests : pc[r] = "granted" /\ sent[r].day = d /\ OnTime(r)}
  <2>1. Cardinality(granted) <= GlobalDailyLimit
    <3>1. granted \subseteq Takers(d, "all") /\ Takers(d, "all") \subseteq Requests
      BY GrantedTook DEF Takers
    <3>2. Cardinality(Takers(d, "all")) <= GlobalDailyLimit
      BY DEF LimitInv, LimitOf, Keys
    <3> QED BY <3>1, <3>2, Fewer, UpstashAssumption
  <2>2. ASSUME NEW c \in Clients
        PROVE  Cardinality({r \in granted : sent[r].client = c}) <= IpDailyLimit
    <3>1. /\ {r \in granted : sent[r].client = c} \subseteq Takers(d, c)
          /\ Takers(d, c) \subseteq Requests
      BY GrantedTook DEF Takers
    <3>2. Cardinality(Takers(d, c)) <= IpDailyLimit
      BY UpstashAssumption DEF LimitInv, LimitOf, Keys
    <3> QED BY <3>1, <3>2, Fewer, UpstashAssumption
  <2> QED BY <2>1, <2>2
<1> QED BY <1>1, Limits, InductiveInvariant, PTL

-----------------------------------------------------------------------------
(* Refinement *)

OnTimeGrants == {r \in Requests : pc[r] = "granted" /\ OnTime(r)}

\* The instance's cardinality is the cardinality.
LEMMA SameCardinality == \A S : Abstract!Cardinality(S) = Cardinality(S)
BY DEF Abstract!Cardinality, Cardinality

\* A step after which nobody took what it had not taken, or is granted anew.
LEMMA Invisible ==
  ASSUME IInv, UNCHANGED counted, \A r \in Requests : sent'[r] = sent[r] \/ counted[r] = {},
         \A r \in Requests : OnTime(r) => (pc'[r] = "granted" <=> pc[r] = "granted")
  PROVE  UNCHANGED Abstract!specVars
<1>1. \A r, k : Took(r, k)' <=> Took(r, k)
  BY DEF Took
<1>2. \A r \in Requests : \A k : Took(r, k) => sent'[r] = sent[r]
  BY DEF Took
<1>3. Account' = Account
  BY <1>1, <1>2 DEF Account
<1>4. \A r : OnTime(r)' <=> OnTime(r)
  BY DEF OnTime
<1>5. OnTimeGrants' = OnTimeGrants
  BY <1>4 DEF OnTimeGrants
<1> QED BY <1>3, <1>5 DEF Abstract!specVars, OnTimeGrants

\* An INCR charges its request, when it is the second one within its limit, or
\* is invisible: whoever was there before it leaves room for it.
LEMMA IncrCharges ==
  ASSUME IInv, IInv', LimitInv', NEW r \in Requests, Incr(r)
  PROVE  [Abstract!SpecNext]_(Abstract!specVars)
<1> DEFINE d == sent[r].day
           c == sent[r].client
<1>1. /\ pc[r] # "granted" /\ UNCHANGED <<pc, sent>> /\ d \in Days /\ c \in Clients
      /\ \A q \in Requests : q # r => counted'[q] = counted[q]
  <2>1. /\ pc[r] # "idle" /\ next[r] \in {1, 3} /\ UNCHANGED <<pc, sent>>
        /\ \E i : counted' = [counted EXCEPT ![r] = @ \cup {i}]
    BY DEF Incr
  <2>2. pc[r] # "granted"
    BY <2>1 DEF IInv, KeysInv
  <2>3. d \in Days /\ c \in Clients
    BY <2>1, KeyFacts DEF IInv
  <2> QED BY <2>1, <2>2, <2>3 DEF IInv, Types
<1>2. OnTimeGrants' = OnTimeGrants
  BY <1>1 DEF OnTimeGrants, OnTime
<1>3. \A q \in Requests : q # r => Account'[q] = Account[q]
  BY <1>1 DEF Account, Took
<1>4. Account = [q \in Requests |-> Account[q]] /\ Account' = [q \in Requests |-> Account'[q]]
  BY DEF Account
<1>5. CASE Account'[r] = Account[r]
  <2>1. Account' = Account
    BY <1>3, <1>4, <1>5
  <2> QED BY <1>2, <2>1 DEF Abstract!specVars, OnTimeGrants
<1>6. CASE Account'[r] # Account[r]
  <2>1. c # "all"
    BY <1>1, UpstashAssumption
  <2>2. Account[r] = <<>> /\ Account'[r] = <<d, c>>
    <3>1. \A k : Took(r, k) => Took(r, k)'
      BY IncrTakers
    <3> QED BY <1>1, <1>6, <3>1 DEF Account
  <2>3. Account' = [Account EXCEPT ![r] = <<d, c>>]
    BY <1>3, <1>4, <2>2
  <2>4. ASSUME NEW S \in SUBSET Requests, NEW T \in SUBSET Requests, NEW n \in Nat,
               S \cup {r} \subseteq T, r \notin S, Cardinality(T) <= n
        PROVE  Cardinality(S) < n
    <3>1. Cardinality(S \cup {r}) <= n /\ IsFiniteSet(S)
      BY <2>4, Fewer, RequestsAssumption, FS_Subset
    <3>2. Cardinality(S \cup {r}) = Cardinality(S) + 1 /\ Cardinality(S) \in Nat
      BY <2>4, <3>1, FS_AddElement, FS_CardinalityType
    <3> QED BY <3>1, <3>2
  <2>5. /\ Abstract!OnDay(d) \cup {r} \subseteq Abstract!OnDay(d)'
        /\ Abstract!OnAccount(d, c) \cup {r} \subseteq Abstract!OnAccount(d, c)'
        /\ r \notin Abstract!OnDay(d) /\ r \notin Abstract!OnAccount(d, c)
        /\ Abstract!OnDay(d) \subseteq Requests /\ Abstract!OnAccount(d, c) \subseteq Requests
    <3>1. <<d, c>> # <<>>
      OBVIOUS
    <3>2. \A q \in Requests : \A e : Account[q] = <<d, e>> => Account'[q] = <<d, e>>
      BY <1>3, <2>2, <3>1
    <3>3. /\ Abstract!OnDay(d) = {q \in Requests : \E e \in Clients : Account[q] = <<d, e>>}
          /\ Abstract!OnDay(d)' = {q \in Requests : \E e \in Clients : Account'[q] = <<d, e>>}
          /\ Abstract!OnAccount(d, c) = {q \in Requests : Account[q] = <<d, c>>}
          /\ Abstract!OnAccount(d, c)' = {q \in Requests : Account'[q] = <<d, c>>}
      BY <1>1 DEF Abstract!OnDay, Abstract!OnAccount, Account
    <3>4. \A e : Account[r] # <<d, e>>
      BY <2>2
    <3> HIDE DEF d, c
    <3> QED BY <1>1, <2>2, <3>2, <3>3, <3>4
  <2>6. /\ Abstract!OnDay(d)' \subseteq Takers(d, "all")'
        /\ Abstract!OnAccount(d, c)' \subseteq Takers(d, c)'
    <3>1. \A q \in Requests : Account'[q] # <<>> =>
            /\ Took(q, "all")' /\ Took(q, sent[q].client)'
            /\ Account'[q] = <<sent[q].day, sent[q].client>>
      BY <1>1 DEF Account, Took
    <3>2. \A q \in Requests : \A e : Account'[q] = <<d, e>> =>
            sent[q].day = d /\ sent[q].client = e /\ Took(q, "all")'
      <4>1. \A e : <<d, e>> # <<>>
        OBVIOUS
      <4>2. \A x, y, e : <<x, y>> = <<d, e>> => x = d /\ y = e
        OBVIOUS
      <4> HIDE DEF d
      <4> QED BY <3>1, <4>1, <4>2
    <3>3. \A q \in Requests : Account'[q] = <<d, c>> => Took(q, c)'
      <4>1. ASSUME NEW q \in Requests, Account'[q] = <<d, c>> PROVE Took(q, c)'
        <5>1. sent'[q].client = c /\ Account'[q] # <<>>
          BY <1>1, <3>2, <4>1
        <5>2. \E i \in counted'[q] :
                i.key = sent'[q].client /\ i.inTime /\ i.count <= LimitOf(sent'[q].client)
          BY <3>1, <5>1 DEF Took
        <5> HIDE DEF c
        <5>3. \E i \in counted'[q] : i.key = c /\ i.inTime /\ i.count <= LimitOf(c)
          BY <5>1, <5>2, Zenon
        <5> QED BY <5>3, <1>1 DEF Took, c
      <4> QED BY <4>1
    <3> QED BY <1>1, <3>2, <3>3 DEF Abstract!OnDay, Abstract!OnAccount, Account, Takers
  <2>7. /\ Cardinality(Takers(d, "all")') <= GlobalDailyLimit
        /\ Cardinality(Takers(d, c)') <= IpDailyLimit
        /\ Takers(d, "all")' \subseteq Requests /\ Takers(d, c)' \subseteq Requests
    BY <1>1, <2>1 DEF LimitInv, LimitOf, Keys, Takers
  <2>8. /\ Cardinality(Abstract!OnDay(d)) < GlobalDailyLimit
        /\ Cardinality(Abstract!OnAccount(d, c)) < IpDailyLimit
    <3>1. GlobalDailyLimit \in Nat /\ IpDailyLimit \in Nat
      BY UpstashAssumption
    <3> HIDE DEF d, c
    <3> QED BY <2>4, <2>5, <2>6, <2>7, <3>1
  <2>9. Abstract!Charge(r, d, c)
    BY <1>2, <2>2, <2>3, <2>8, SameCardinality DEF Abstract!Charge, Account, OnTimeGrants
  <2> QED BY <1>1, <2>9 DEF Abstract!SpecNext
<1> QED BY <1>5, <1>6

\* A grant is the abstract grant of a request that was charged, or, when a part
\* of its pipeline ran after midnight, invisible.
LEMMA GrantGrants ==
  ASSUME IInv, IInv', ReplyInv', NEW r \in Requests, Grant(r)
  PROVE  [Abstract!SpecNext]_(Abstract!specVars)
<1>1. /\ pc[r] = "sent" /\ pc' = [pc EXCEPT ![r] = "granted"] /\ UNCHANGED <<sent, counted>>
  BY DEF Grant, Settle
<1>2. pc'[r] = "granted" /\ \A q \in Requests : q # r => pc'[q] = pc[q]
  BY <1>1 DEF IInv, Types
<1>3. CASE ~OnTime(r)
  BY <1>1, <1>2, <1>3, Invisible
<1>4. CASE OnTime(r)
  <2>1. OnTimeGrants' = OnTimeGrants \cup {r} /\ r \notin OnTimeGrants
    BY <1>1, <1>2, <1>4 DEF OnTimeGrants, OnTime
  <2>2. Account' = Account
    BY <1>1 DEF Account, Took
  <2>3. Account[r] # <<>>
    <3>1. OnTime(r)'
      BY <1>1, <1>4 DEF OnTime
    <3>2. "all" \in KeysOf(r) /\ sent[r].client \in KeysOf(r)
      BY <1>1, <1>2 DEF IInv, KeysInv, KeysOf
    <3>3. sent[r].client # "all"
      BY <1>1, KeyFacts DEF IInv
    <3>4. \A i \in counted[r] :
            i.inTime /\ i.count <= IF i.key = "all" THEN GlobalDailyLimit ELSE IpDailyLimit
      BY <1>1, <1>2, <1>4 DEF OnTime, ReplyInv, LimitOf
    <3>5. Took(r, "all") /\ Took(r, sent[r].client)
      BY <3>2, <3>3, <3>4 DEF KeysOf, Took, LimitOf
    <3> QED BY <3>5 DEF Account
  <2> QED BY <2>1, <2>2, <2>3 DEF Abstract!SpecNext, Abstract!Grant, Account, OnTimeGrants
<1> QED BY <1>3, <1>4

\* The Upstash store implements the abstract budget for whatever runs on its own
\* day: the second INCR charges, the return grants, and every other step, lost
\* answers and failed commands included, is invisible.
THEOREM Refinement == Spec => ImplementsBudget
<1>1. Init => Abstract!SpecInit
  <2> SUFFICES ASSUME Init PROVE Abstract!SpecInit
    OBVIOUS
  <2>1. Account = [r \in Requests |-> <<>>] /\ OnTimeGrants = {}
    BY DEF Init, Account, Took, OnTimeGrants
  <2> QED BY <2>1 DEF Abstract!SpecInit, OnTimeGrants
<1>2. IInv /\ IInv' /\ (LimitInv /\ ReplyInv)' /\ [Next]_vars
        => [Abstract!SpecNext]_(Abstract!specVars)
  <2> SUFFICES ASSUME IInv, IInv', (LimitInv /\ ReplyInv)', [Next]_vars
               PROVE  [Abstract!SpecNext]_(Abstract!specVars)
    OBVIOUS
  <2>1. ASSUME NEW r \in Requests, NEW c \in Clients, Send(r, c)
        PROVE  UNCHANGED Abstract!specVars
    <3>1. /\ pc[r] = "idle" /\ counted[r] = {} /\ counted' = counted
          /\ pc' = [pc EXCEPT ![r] = "sent"]
          /\ \A q \in Requests : q # r => sent'[q] = sent[q]
      BY <2>1 DEF Send, IInv, Types, SentInv
    <3>2. \A q \in Requests : pc'[q] = "granted" <=> pc[q] = "granted"
      BY <3>1 DEF IInv, Types
    <3> QED BY <3>1, <3>2, Invisible
  <2>2. ASSUME NEW r \in Requests, Refuse(r) \/ Fail(r) PROVE UNCHANGED Abstract!specVars
    <3>1. PICK o \in {"refused", "error"} : pc' = [pc EXCEPT ![r] = o] /\ pc[r] = "sent"
      BY <2>2 DEF Refuse, Fail, Settle
    <3>2. \A q \in Requests : pc'[q] = "granted" <=> pc[q] = "granted"
      BY <3>1 DEF IInv, Types
    <3>3. UNCHANGED <<sent, counted>>
      BY <2>2 DEF Refuse, Fail, Settle
    <3> QED BY <3>2, <3>3, Invisible
  <2>3. CASE Tick \/ UNCHANGED vars \/ \E r \in Requests : Expire(r) \/ CommandFails(r)
    <3>1. UNCHANGED <<pc, sent, counted>>
      BY <2>3 DEF Tick, vars, Expire, CommandFails
    <3> QED BY <3>1, Invisible
  <2>4. ASSUME NEW r \in Requests, Grant(r) PROVE [Abstract!SpecNext]_(Abstract!specVars)
    BY <2>4, GrantGrants
  <2>5. ASSUME NEW r \in Requests, Incr(r) PROVE [Abstract!SpecNext]_(Abstract!specVars)
    BY <2>5, IncrCharges
  <2> QED BY <2>1, <2>2, <2>3, <2>4, <2>5 DEF Next, Stop
<1> QED
  BY <1>1, <1>2, InductiveInvariant, Limits, PTL
     DEF Spec, ImplementsBudget, Abstract!BudgetedGrants
=============================================================================
