-------------------------- MODULE AnchorReadProofs --------------------------
(***************************************************************************)
(* What AnchorRead says of a fetch, proved for every set of transactions,  *)
(* every content of their outputs, and chains and reorganizations of any   *)
(* length.                                                                 *)
(***************************************************************************)
EXTENDS AnchorRead, FiniteSetTheorems, WellFoundedInduction, TLAPS

-----------------------------------------------------------------------------
(* The least element of a set of numbers *)

LessThan == {ss \in Nat \X Nat : ss[1] < ss[2]}

LEMMA LessThanIsWellFounded == IsWellFoundedOn(LessThan, Nat)
<1>1. LessThan = OpToRel(<, Nat)
  BY Zenon DEF LessThan, OpToRel
<1>2. IsWellFoundedOn(OpToRel(<, Nat), Nat)
  BY NatLessThanWellFounded, Zenon
<1> QED
  BY <1>1, <1>2, Zenon

LEMMA MinIsLeast ==
  ASSUME NEW S, S \subseteq Nat, S # {}
  PROVE  Min(S) \in S /\ \A y \in S : Min(S) <= y
<1>1. \E x \in S : \A y \in S : ~(<<y, x>> \in LessThan)
  BY LessThanIsWellFounded, WFMin, Zenon
<1>2. PICK x \in S : \A y \in S : ~(<<y, x>> \in LessThan)
  BY <1>1
<1>3. ASSUME NEW y \in S PROVE x <= y
  <2>1. x \in Nat /\ y \in Nat /\ ~(<<y, x>> \in LessThan)
    BY <1>2
  <2> QED
    BY <2>1 DEF LessThan
<1> QED
  BY <1>2, <1>3 DEF Min

-----------------------------------------------------------------------------
(* The invariant *)

Types ==
  /\ setup \in [zallet : Zallets, proxied : BOOLEAN, walletDb : BOOLEAN]
  /\ outputs \in [Txids -> Seq(Output)]
  /\ height \in [Txids -> -1 .. tip]
  /\ tip \in 1 .. MaxHeight /\ reorgs \in 0 .. MaxReorgs
  /\ pc \in {"idle", "zallet", "proxy", "client", "fallback"}
  /\ asked \in Txids
  /\ window \subseteq -1 .. MaxHeight /\ faulty \in BOOLEAN

\* The outputs of the transaction asked for hold m, if m is a commitment.
Held(m) == m \in Commitments => \E j \in DOMAIN outputs[asked] : outputs[asked][j].memo = m

\* A reply of wallet or database that has memos, and a height.
View(r) ==
  /\ \E h \in 1 .. MaxHeight, m \in Seq(Memos) : r = [height |-> h, memos |-> m]
  /\ r.height \in window
  /\ \A i \in DOMAIN r.memos : Held(r.memos[i])

Unmined(r) == \E m \in Seq(Memos) : r = [memos |-> m]

ErrorReply(r) == \E e \in Errors : r = Error(e)

ReplyInv ==
  \/ reply = None /\ pc \in {"idle", "zallet"}
  \/ ErrorReply(reply)
  \/ Unmined(reply) \/ View(reply)

AnswerInv ==
  \/ answer = None
  \/ ErrorReply(answer)
  \/ /\ pc = "idle"
     /\ \E h \in window, c \in Commitments :
          /\ h \in 1 .. MaxHeight /\ Held(c)
          /\ answer = [txid |-> asked, height |-> h, commitment |-> c]

\* While a call runs, the height of its transaction is one of its heights.
CallInv == pc # "idle" => answer = None /\ height[asked] \in window

Inv == Types /\ CallInv /\ ReplyInv /\ AnswerInv

-----------------------------------------------------------------------------
(* What the operators return *)

LEMMA OutputsTyped ==
  ASSUME Types, NEW t \in Txids, NEW i \in DOMAIN outputs[t]
  PROVE  outputs[t][i].memo \in Memos /\ outputs[t][i].db \in BOOLEAN /\ i \in Nat \ {0}
<1>1. outputs[t] \in Seq(Output)
  BY DEF Types
<1>2. outputs[t][i] \in Output /\ i \in Nat \ {0}
  BY <1>1
<1> QED
  BY <1>2 DEF Output

\* The database answers for the transaction asked, with its height and the
\* memo of its first row, or not at all.
LEMMA FromWalletDbFacts ==
  ASSUME ReadAssumption, Types, NEW t \in Txids
  PROVE  \/ /\ \E e \in {"not found", "not mined"} : FromWalletDb(t) = Error(e)
            /\ Rows(t) = {} \/ ~(height[t] > 0)
         \/ /\ height[t] > 0 /\ Rows(t) # {}
            /\ Min(Rows(t)) \in Rows(t) /\ \A j \in Rows(t) : Min(Rows(t)) <= j
            /\ FromWalletDb(t) = [height |-> height[t],
                                  memos |-> <<outputs[t][Min(Rows(t))].memo>>]
<1> DEFINE found == {u \in Txids : -u = DbTxid(t) /\ Known(u) /\ Rows(u) # {}}
<1>1. \A u \in Txids : -u = DbTxid(t) <=> u = t
  BY DEF DbTxid, ReadAssumption
<1>2. height[t] \in Int
  BY DEF Types
<1>3. Rows(t) \subseteq Nat
  BY OutputsTyped DEF Rows
<1>4. CASE t \notin found
  <2>1. found = {}
    BY <1>1, <1>4
  <2>2. FromWalletDb(t) = Error("not found")
    BY <2>1, Zenon DEF FromWalletDb
  <2>3. Rows(t) = {} \/ ~(height[t] > 0)
    BY <1>1, <1>2, <1>4 DEF Known
  <2> QED
    BY <2>2, <2>3
<1>5. CASE t \in found
  <2>1. found = {t}
    BY <1>1, <1>5
  <2>2. (CHOOSE u \in found : TRUE) = t /\ found # {}
    BY <2>1
  <2>3. FromWalletDb(t) = IF Mined(t)
                          THEN [height |-> height[t], memos |-> <<outputs[t][Min(Rows(t))].memo>>]
                          ELSE Error("not mined")
    BY <2>2, Zenon DEF FromWalletDb
  <2>4. Rows(t) # {}
    BY <1>5
  <2>5. Min(Rows(t)) \in Rows(t) /\ \A j \in Rows(t) : Min(Rows(t)) <= j
    BY <1>3, <2>4, MinIsLeast
  <2> QED
    BY <2>3, <2>4, <2>5 DEF Mined
<1> QED
  BY <1>4, <1>5

LEMMA RowsAreMemos ==
  ASSUME Types, NEW t \in Txids, NEW i \in Rows(t)
  PROVE  /\ i \in DOMAIN outputs[t] /\ outputs[t][i].db = TRUE
         /\ outputs[t][i].memo \in Memos \ {"none", "plain"}
BY OutputsTyped DEF Rows

\* What proxy and client make of the database's answer is a reply of its own.
LEMMA FallbackIsTrue ==
  ASSUME ReadAssumption, Types, height[asked] \in window
  PROVE  \/ FallbackReply(FromWalletDb(asked)) = Error("fallback failed")
         \/ View(FallbackReply(FromWalletDb(asked)))
<1>1. asked \in Txids /\ height[asked] \in -1 .. MaxHeight
  BY DEF Types, ReadAssumption
<1>2. CASE \E e \in {"not found", "not mined"} : FromWalletDb(asked) = Error(e)
  BY <1>2 DEF FallbackReply, IsError, Error
<1>3. CASE /\ height[asked] > 0
           /\ Min(Rows(asked)) \in Rows(asked)
           /\ FromWalletDb(asked) = [height |-> height[asked],
                                     memos |-> <<outputs[asked][Min(Rows(asked))].memo>>]
  <2> DEFINE i == Min(Rows(asked))
             memo == outputs[asked][i].memo
             r == [height |-> height[asked], memos |-> <<memo>>]
  <2>1. i \in DOMAIN outputs[asked] /\ memo \in Memos
    BY <1>1, <1>3, RowsAreMemos
  <2>2. FallbackReply(FromWalletDb(asked)) = r
    BY <1>3 DEF FallbackReply, IsError
  <2>3. height[asked] \in 1 .. MaxHeight /\ <<memo>> \in Seq(Memos)
    BY <1>1, <1>3, <2>1
  <2>4. r.height \in window /\ \A k \in DOMAIN r.memos : Held(r.memos[k])
    <3>1. Held(memo)
      BY <2>1 DEF Held
    <3>2. \A k \in DOMAIN r.memos : r.memos[k] = memo
      OBVIOUS
    <3> QED
      BY <3>1, <3>2
  <2> QED
    BY <2>2, <2>3, <2>4 DEF View
<1> QED
  BY <1>1, <1>2, <1>3, FromWalletDbFacts

LEMMA FirstMemoFacts ==
  ASSUME NEW m \in Seq(Memos)
  PROVE  \/ FirstMemo(m) = "none"
         \/ \E i \in DOMAIN m : FirstMemo(m) = m[i] /\ \A j \in 1 .. i - 1 : m[j] = "none"
<1> DEFINE full == {i \in DOMAIN m : m[i] # "none"}
<1>1. full \subseteq Nat
  OBVIOUS
<1>2. CASE full = {}
  BY <1>2 DEF FirstMemo
<1>3. CASE full # {}
  <2>1. Min(full) \in full /\ \A y \in full : Min(full) <= y
    BY <1>1, <1>3, MinIsLeast
  <2>2. FirstMemo(m) = m[Min(full)]
    BY <1>3, Zenon DEF FirstMemo
  <2>3. ASSUME NEW j \in 1 .. Min(full) - 1 PROVE m[j] = "none"
    <3> DEFINE k == Min(full)
    <3>1. k \in DOMAIN m /\ k \in 1 .. Len(m) /\ \A y \in full : k <= y
      BY <2>1
    <3> HIDE DEF k
    <3>2. j \in DOMAIN m /\ ~(k <= j)
      BY <3>1 DEF k
    <3> QED
      BY <3>1, <3>2
  <2> QED
    BY <2>1, <2>2, <2>3
<1> QED
  BY <1>2, <1>3

\* The command answers an error, or what the reply holds.
LEMMA FetchTimestampFacts ==
  ASSUME Types, NEW r, ErrorReply(r) \/ Unmined(r) \/ View(r)
  PROVE  \/ ErrorReply(FetchTimestamp(r))
         \/ /\ View(r) /\ FirstMemo(r.memos) \in Commitments /\ Held(FirstMemo(r.memos))
            /\ FetchTimestamp(r) =
                 [txid |-> asked, height |-> r.height, commitment |-> FirstMemo(r.memos)]
<1>1. CASE ErrorReply(r)
  BY <1>1 DEF ErrorReply, FetchTimestamp, IsError, Error
<1>2. CASE Unmined(r)
  <2>1. ~IsError(r) /\ "height" \notin DOMAIN r
    BY <1>2 DEF Unmined, IsError
  <2>2. FetchTimestamp(r) = Error("protocol")
    BY <2>1 DEF FetchTimestamp
  <2> QED
    BY <2>2 DEF ErrorReply, Errors
<1>3. CASE View(r)
  <2> DEFINE memo == FirstMemo(r.memos)
  <2>1. ~IsError(r) /\ "height" \in DOMAIN r /\ r.memos \in Seq(Memos)
    BY <1>3 DEF View, IsError
  <2>2. FetchTimestamp(r) = IF memo = "none" THEN Error("protocol")
                            ELSE IF memo \notin Commitments THEN Error("memo")
                            ELSE [txid |-> asked, height |-> r.height, commitment |-> memo]
    BY <2>1 DEF FetchTimestamp
  <2>3. memo = "none" \/ Held(memo)
    BY <2>1, <1>3, FirstMemoFacts DEF View
  <2>4. ErrorReply(Error("protocol")) /\ ErrorReply(Error("memo"))
    BY DEF ErrorReply, Errors
  <2> QED
    BY <1>3, <2>2, <2>3, <2>4
<1> QED
  BY <1>1, <1>2, <1>3

-----------------------------------------------------------------------------
(* The invariant holds initially and is kept *)

\* A reply that has come is not the missing one.
LEMMA RepliesAreSome ==
  ASSUME NEW r, ErrorReply(r) \/ Unmined(r) \/ View(r)
  PROVE  ~(r = None)
<1>1. DOMAIN None = {"none"}
  BY DEF None
<1>2. "none" \notin DOMAIN r
  BY DEF ErrorReply, Error, Unmined, View
<1> QED
  BY <1>1, <1>2

LEMMA InitInv == ReadAssumption /\ Init => Inv
<1> SUFFICES ASSUME ReadAssumption, Init PROVE Inv
  OBVIOUS
<1>1. height \in [Txids -> -1 .. tip] /\ tip \in 1 .. MaxHeight /\ reorgs \in 0 .. MaxReorgs
  BY DEF Init, ReadAssumption
<1>2. outputs \in [Txids -> Seq(Output)]
  BY DEF Init, ReadAssumption
<1> QED
  BY <1>1, <1>2 DEF Init, Inv, Types, CallInv, ReplyInv, AnswerInv

\* When the chain moves, the replies and answers it was asked for stay true.
LEMMA ChainKeepsInv ==
  ASSUME ReadAssumption, Inv, NEW h, Chain(h), h \in [Txids -> -1 .. tip'],
         tip' \in 1 .. MaxHeight, reorgs' \in 0 .. MaxReorgs
  PROVE  Inv'
<1>1. window \subseteq window' /\ window' \subseteq -1 .. MaxHeight
      /\ (pc # "idle" => h[asked] \in window')
  <2>1. h[asked] \in -1 .. MaxHeight
    BY DEF Inv, Types, ReadAssumption
  <2> QED
    BY <2>1 DEF Inv, Types, Chain
<1>2. Types'
  BY <1>1 DEF Inv, Types, Chain
<1>3. CallInv'
  BY <1>1 DEF Inv, CallInv, Chain
<1>4. UNCHANGED <<outputs, pc, asked, reply, answer>>
  BY DEF Chain
<1>5. ReplyInv'
  BY <1>1, <1>4 DEF Inv, ReplyInv, ErrorReply, Unmined, View, Held
<1>6. AnswerInv'
  BY <1>1, <1>4 DEF Inv, AnswerInv, ErrorReply, Held
<1> QED
  BY <1>2, <1>3, <1>5, <1>6 DEF Inv

LEMMA ViewTransactionIsTrue ==
  ASSUME ReadAssumption, Types, height[asked] \in window, NEW r \in ViewTransaction(asked)
  PROVE  ErrorReply(r) \/ Unmined(r) \/ View(r)
<1> DEFINE memos == [i \in DOMAIN outputs[asked] |-> outputs[asked][i].memo]
<1>1. memos \in Seq(Memos)
  <2>1. outputs[asked] \in Seq(Output)
    BY DEF Types
  <2>2. Len(outputs[asked]) \in Nat /\ DOMAIN outputs[asked] = 1 .. Len(outputs[asked])
    BY <2>1
  <2>3. \A i \in DOMAIN outputs[asked] : outputs[asked][i].memo \in Memos
    BY OutputsTyped DEF Types
  <2> QED
    BY <2>2, <2>3
<1>2. \/ r \in {Error("fetch bug"), Error("not found"), Error("HTTP not found")}
      \/ Mined(asked) /\ r = [height |-> height[asked], memos |-> memos]
      \/ r = [memos |-> memos]
  BY DEF ViewTransaction
<1>3. CASE r \in {Error("fetch bug"), Error("not found"), Error("HTTP not found")}
  BY <1>3 DEF ErrorReply, Errors
<1>4. CASE r = [memos |-> memos]
  BY <1>1, <1>4 DEF Unmined
<1>5. CASE Mined(asked) /\ r = [height |-> height[asked], memos |-> memos]
  <2> HIDE DEF memos
  <2>1. height[asked] \in 1 .. MaxHeight
    BY <1>5 DEF Types, Mined, ReadAssumption
  <2>2. \A i \in DOMAIN memos : Held(memos[i])
    BY DEF memos, Held
  <2> QED
    BY <1>1, <1>5, <2>1, <2>2 DEF View
<1> QED
  BY <1>2, <1>3, <1>4, <1>5

LEMMA StepKeepsInv == ReadAssumption /\ Inv /\ [Next]_vars => Inv'
<1> SUFFICES ASSUME ReadAssumption, Inv, [Next]_vars PROVE Inv'
  OBVIOUS
<1> USE DEF Inv
<1>1. CASE UNCHANGED vars
  BY <1>1 DEF vars, wallet, Types, CallInv, ReplyInv, AnswerInv, ErrorReply, Unmined, View, Held
<1>2. CASE Arrive
  <2>1. PICK t \in Txids : Chain([height EXCEPT ![t] = 0]) /\ UNCHANGED <<tip, reorgs>>
    BY <1>2 DEF Arrive
  <2>2. [height EXCEPT ![t] = 0] \in [Txids -> -1 .. tip'] /\ tip' \in 1 .. MaxHeight
        /\ reorgs' \in 0 .. MaxReorgs
    BY <2>1 DEF Types
  <2> QED
    BY <2>1, <2>2, ChainKeepsInv
<1>3. CASE Mine
  <2>1. tip' = tip + 1 /\ tip < MaxHeight /\ reorgs' = reorgs
    BY <1>3 DEF Mine
  <2>2. PICK S : Chain([t \in Txids |-> IF t \in S THEN tip' ELSE height[t]])
    BY <1>3 DEF Mine
  <2>3. tip' \in 1 .. MaxHeight /\ reorgs' \in 0 .. MaxReorgs
    BY <2>1 DEF Types, ReadAssumption
  <2>4. \A t \in Txids : height[t] \in -1 .. tip' /\ tip' \in -1 .. tip'
    BY <2>1 DEF Types, ReadAssumption
  <2>5. [t \in Txids |-> IF t \in S THEN tip' ELSE height[t]] \in [Txids -> -1 .. tip']
    BY <2>4
  <2> QED
    BY <2>2, <2>3, <2>5, ChainKeepsInv
<1>4. CASE Reorg
  <2>1. tip > 1 /\ tip' = tip - 1 /\ reorgs < MaxReorgs /\ reorgs' = reorgs + 1
        /\ Chain([t \in Txids |-> IF height[t] = tip THEN 0 ELSE height[t]])
    BY <1>4 DEF Reorg
  <2>2. tip' \in 1 .. MaxHeight /\ reorgs' \in 0 .. MaxReorgs
    BY <2>1 DEF Types, ReadAssumption
  <2>3. \A t \in Txids : /\ height[t] # tip => height[t] \in -1 .. tip'
                         /\ 0 \in -1 .. tip'
    BY <2>1 DEF Types, ReadAssumption
  <2>4. [t \in Txids |-> IF height[t] = tip THEN 0 ELSE height[t]] \in [Txids -> -1 .. tip']
    BY <2>3
  <2> QED
    BY <2>1, <2>2, <2>4, ChainKeepsInv
<1>5. ASSUME NEW t \in Txids, Fetch(t) PROVE Inv'
  <2>1. height[t] \in -1 .. MaxHeight
    BY DEF Types, ReadAssumption
  <2> QED
    BY <1>5, <2>1 DEF Fetch, wallet, Types, CallInv, ReplyInv, AnswerInv
<1>6. CASE Zallet
  <2>1. ErrorReply(reply') \/ Unmined(reply') \/ View(reply')
    BY <1>6, ViewTransactionIsTrue DEF Zallet, CallInv
  <2>2. UNCHANGED <<wallet, asked, answer, window, faulty>> /\ pc' \in {"proxy", "client"}
        /\ pc = "zallet"
    BY <1>6 DEF Zallet
  <2>3. Types' /\ CallInv' /\ AnswerInv'
    BY <2>2 DEF wallet, Types, CallInv, AnswerInv
  <2>4. ReplyInv'
    BY <2>1, <2>2 DEF wallet, ReplyInv, ErrorReply, Unmined, View, Held
  <2> QED
    BY <2>3, <2>4
<1>7. CASE Proxy
  <2>1. UNCHANGED <<wallet, asked, answer, window>> /\ pc' = "client" /\ pc = "proxy"
        /\ faulty' \in BOOLEAN
    BY <1>7 DEF Proxy, Types
  <2>2. ErrorReply(reply') \/ Unmined(reply') \/ View(reply')
    <3>1. ErrorReply(Error("fallback failed"))
      BY DEF ErrorReply, Errors
    <3>2. ErrorReply(reply) \/ Unmined(reply) \/ View(reply)
      BY <2>1 DEF ReplyInv
    <3> QED
      BY <1>7, <2>1, <3>1, <3>2, FallbackIsTrue DEF Proxy, CallInv
  <2>3. Types' /\ CallInv' /\ AnswerInv'
    BY <2>1 DEF wallet, Types, CallInv, AnswerInv
  <2>4. ReplyInv'
    BY <2>1, <2>2 DEF wallet, ReplyInv, ErrorReply, Unmined, View, Held
  <2> QED
    BY <2>3, <2>4
<1>8. ASSUME NEW a, Finish(a), UNCHANGED <<wallet, asked, reply, window>>,
             faulty' \in BOOLEAN, pc # "idle", ~(reply = None),
             \/ ErrorReply(a)
             \/ \E r : /\ View(r) /\ FirstMemo(r.memos) \in Commitments /\ Held(FirstMemo(r.memos))
                       /\ a = [txid |-> asked, height |-> r.height,
                               commitment |-> FirstMemo(r.memos)]
      PROVE  Inv'
  <2>1. Types' /\ CallInv'
    BY <1>8 DEF Finish, wallet, Types, CallInv
  <2>2. ReplyInv'
    BY <1>8 DEF Finish, wallet, ReplyInv, ErrorReply, Unmined, View, Held
  <2>3. AnswerInv'
    <3>1. CASE ErrorReply(a)
      BY <1>8, <3>1 DEF Finish, AnswerInv, ErrorReply
    <3>2. CASE ~ErrorReply(a)
      <4>1. PICK r : /\ View(r) /\ FirstMemo(r.memos) \in Commitments /\ Held(FirstMemo(r.memos))
                     /\ a = [txid |-> asked, height |-> r.height,
                             commitment |-> FirstMemo(r.memos)]
        BY <1>8, <3>2
      <4>2. r.height \in window /\ r.height \in 1 .. MaxHeight
        BY <4>1 DEF View
      <4>3. \E h \in window, c \in Commitments :
               /\ h \in 1 .. MaxHeight /\ Held(c)
               /\ a = [txid |-> asked, height |-> h, commitment |-> c]
        BY <4>1, <4>2
      <4> QED
        BY <1>8, <4>3 DEF Finish, wallet, AnswerInv, Held
    <3> QED
      BY <3>1, <3>2
  <2> QED
    BY <2>1, <2>2, <2>3
<1>9. CASE Lost
  <2>1. UNCHANGED <<wallet, asked, reply, window>> /\ pc' = "idle" /\ faulty' = TRUE
        /\ answer' = Error("transport")
    BY <1>9 DEF Lost
  <2>2. ErrorReply(Error("transport"))
    BY DEF ErrorReply, Errors
  <2>3. Types' /\ CallInv' /\ AnswerInv'
    BY <2>1, <2>2 DEF wallet, Types, CallInv, AnswerInv, ErrorReply
  <2>4. ReplyInv'
    BY <2>1 DEF wallet, ReplyInv, ErrorReply, Unmined, View, Held
  <2> QED
    BY <2>3, <2>4
<1>10. CASE Client
  <2>1. UNCHANGED <<wallet, asked, reply, window, faulty>> /\ pc = "client" /\ ~(reply = None)
    BY <1>10, RepliesAreSome DEF Client, ReplyInv
  <2>2. CASE pc' = "fallback" /\ UNCHANGED answer
    <3>1. Types' /\ CallInv' /\ AnswerInv'
      BY <2>1, <2>2 DEF wallet, Types, CallInv, AnswerInv
    <3>2. ReplyInv'
      BY <2>1, <2>2 DEF wallet, ReplyInv, ErrorReply, Unmined, View, Held
    <3> QED
      BY <3>1, <3>2
  <2>3. CASE Finish(FetchTimestamp(reply))
    <3>1. ErrorReply(reply) \/ Unmined(reply) \/ View(reply)
      BY <2>1 DEF ReplyInv
    <3>2. faulty' \in BOOLEAN
      BY <2>1 DEF Types
    <3> QED
      BY <1>8, <2>1, <2>3, <3>1, <3>2, FetchTimestampFacts
  <2> QED
    BY <1>10, <2>2, <2>3 DEF Client
<1>11. CASE Fallback
  <2>1. UNCHANGED <<wallet, asked, reply, window>> /\ pc = "fallback" /\ faulty' \in BOOLEAN
        /\ ~(reply = None)
    BY <1>11, RepliesAreSome DEF Fallback, Types, ReplyInv
  <2>2. ErrorReply(Error("fallback failed"))
    BY DEF ErrorReply, Errors
  <2>3. CASE Finish(FetchTimestamp(FallbackReply(FromWalletDb(asked))))
    <3>1. ErrorReply(FallbackReply(FromWalletDb(asked))) \/ View(FallbackReply(FromWalletDb(asked)))
      BY <2>1, <2>2, FallbackIsTrue DEF CallInv
    <3> QED
      BY <1>8, <2>1, <2>3, <3>1, FetchTimestampFacts
  <2>4. CASE Finish(Error("fallback failed"))
    BY <1>8, <2>1, <2>2, <2>4
  <2> QED
    BY <1>11, <2>3, <2>4 DEF Fallback
<1> QED
  BY <1>1, <1>2, <1>3, <1>4, <1>5, <1>6, <1>7, <1>9, <1>10, <1>11 DEF Next

LEMMA InductiveInvariant == Spec => []Inv
<1> QED
  BY ReadAssumption, InitInv, StepKeepsInv, PTL DEF Spec

-----------------------------------------------------------------------------
\* Every variable keeps its type; in particular no answer has a height of zero
\* or below, since a transaction that is not mined is an error (zallet.rs).
THEOREM TypeCorrect == Spec => []TypeOK
<1>1. Inv => TypeOK
  <2> SUFFICES ASSUME Inv PROVE TypeOK
    OBVIOUS
  <2>1. \A t \in Txids : outputs[t] \in Seq(Output) /\ height[t] \in -1 .. tip
    BY DEF Inv, Types
  <2>2. reply \in {None} \cup [error : Errors] \cup
               [height : 0 .. MaxHeight, memos : Seq(Memos)] \cup [memos : Seq(Memos)]
    <3>1. ErrorReply(reply) => reply \in [error : Errors]
      BY DEF ErrorReply, Error
    <3>2. Unmined(reply) => reply \in [memos : Seq(Memos)]
      BY DEF Unmined
    <3>3. View(reply) => reply \in [height : 0 .. MaxHeight, memos : Seq(Memos)]
      BY DEF View
    <3> QED
      BY <3>1, <3>2, <3>3 DEF Inv, ReplyInv
  <2>3. answer \in {None} \cup [error : Errors] \cup
                [txid : Txids, height : 1 .. MaxHeight, commitment : Commitments]
    BY DEF Inv, Types, AnswerInv, ErrorReply, Error
  <2> QED
    BY <2>1, <2>2, <2>3 DEF Inv, Types, TypeOK
<1> QED
  BY <1>1, InductiveInvariant, PTL

\* Whatever way the reply came, a fetch that succeeds tells what the chain had
\* for the transaction asked for, at a height it had during the call.
THEOREM AnswersAreTrue == Spec => []ReadsTheChain
<1>1. Inv => ReadsTheChain
  <2> SUFFICES ASSUME Inv, Ok PROVE ReadsTheChain
    BY DEF ReadsTheChain
  <2>1. ~ErrorReply(answer)
    BY DEF Ok, IsError, ErrorReply, Error
  <2>2. PICK h \in window, c \in Commitments :
           Held(c) /\ answer = [txid |-> asked, height |-> h, commitment |-> c]
    BY <2>1 DEF Inv, AnswerInv, Ok
  <2> QED
    BY <2>2 DEF ReadsTheChain, Held
<1> QED
  BY <1>1, InductiveInvariant, PTL

-----------------------------------------------------------------------------
(* An anchor that stays where it is, is read *)

\* The transaction asked for was mined throughout the call.
Steady == Cardinality(window) = 1 /\ \A h \in window : h > 0

Useful(r) ==
  /\ ~IsError(r) /\ "height" \in DOMAIN r /\ r.memos \in Seq(Memos)
  /\ FirstMemo(r.memos) \in Commitments

BugReply(r) == r = Error("fetch bug")

\* On its way through the layers the reply is useful, or says that the next
\* layer should look into the database, and that layer can.
ReadInv ==
  ~faulty /\ Readable(asked) /\ Steady =>
    /\ pc = "proxy" => Useful(reply) \/ BugReply(reply)
    /\ pc = "client" => Useful(reply) \/ (BugReply(reply) /\ setup.walletDb)
    /\ pc = "idle" => answer = None \/ Ok

LEMMA SteadyBefore ==
  ASSUME NEW V, V \subseteq -1 .. MaxHeight, Cardinality(V) = 1,
         NEW W, W \subseteq V, W # {}
  PROVE  W = V
<1>1. IsFiniteSet(V)
  <2>1. IsFiniteSet(-1 .. MaxHeight)
    BY ReadAssumption, FS_Interval
  <2> QED
    BY <2>1, FS_Subset
<1>2. PICK h : V = {h}
  BY <1>1, FS_Singleton
<1> QED
  BY <1>2

LEMMA ReadableFacts ==
  ASSUME Types, Readable(asked), ReadAssumption
  PROVE  \E i \in Rows(asked) :
           /\ outputs[asked][i].memo \in Commitments
           /\ \A j \in 1 .. i - 1 : outputs[asked][j].memo = "none"
<1>1. PICK i \in DOMAIN outputs[asked] :
        /\ outputs[asked][i].db /\ outputs[asked][i].memo \in Commitments
        /\ \A j \in 1 .. i - 1 : outputs[asked][j].memo = "none"
  BY DEF Readable
<1>2. outputs[asked][i].memo \notin {"none", "plain"}
  BY <1>1 DEF ReadAssumption
<1> QED
  BY <1>1, <1>2 DEF Rows

LEMMA FirstMemoIs ==
  ASSUME NEW m \in Seq(Memos), NEW i \in DOMAIN m, m[i] # "none",
         \A j \in 1 .. i - 1 : m[j] = "none"
  PROVE  FirstMemo(m) = m[i]
<1> DEFINE full == {k \in DOMAIN m : m[k] # "none"}
<1>1. full \subseteq Nat /\ i \in full /\ full # {}
  OBVIOUS
<1>2. Min(full) \in full /\ \A y \in full : Min(full) <= y
  BY <1>1, MinIsLeast
<1>3. FirstMemo(m) = m[Min(full)]
  BY <1>1, Zenon DEF FirstMemo
<1>4. Min(full) = i
  <2> DEFINE k == Min(full)
  <2>1. k \in DOMAIN m /\ m[k] # "none" /\ k <= i /\ k \in Nat /\ i \in Nat /\ k >= 1
    BY <1>1, <1>2
  <2> HIDE DEF k
  <2>2. ~(k <= i - 1)
    BY <2>1
  <2>3. k = i
    BY <2>1, <2>2
  <2> QED
    BY <2>3 DEF k
<1> QED
  BY <1>3, <1>4

\* The database has the memo of an anchor that can be read.
LEMMA FallbackIsUseful ==
  ASSUME ReadAssumption, Types, Readable(asked), height[asked] > 0
  PROVE  Useful(FallbackReply(FromWalletDb(asked)))
<1>1. PICK i \in Rows(asked) :
        /\ outputs[asked][i].memo \in Commitments
        /\ \A j \in 1 .. i - 1 : outputs[asked][j].memo = "none"
  BY ReadableFacts
<1> DEFINE k == Min(Rows(asked))
           memo == outputs[asked][k].memo
<1>2. asked \in Txids
  BY DEF Types
<1>3. /\ k \in Rows(asked) /\ k <= i
      /\ FromWalletDb(asked) = [height |-> height[asked], memos |-> <<memo>>]
  BY <1>1, <1>2, FromWalletDbFacts
<1>4. k \in DOMAIN outputs[asked] /\ memo \in Memos \ {"none", "plain"} /\ k \in Nat \ {0}
      /\ i \in Nat \ {0}
  BY <1>1, <1>2, <1>3, RowsAreMemos, OutputsTyped
<1>5. k = i
  <2> HIDE DEF k
  <2>1. ~(k \in 1 .. i - 1)
    BY <1>1, <1>4
  <2> QED
    BY <1>3, <1>4, <2>1
<1>6. memo \in Commitments
  BY <1>1, <1>5
<1> HIDE DEF k, memo
<1>7. FallbackReply(FromWalletDb(asked)) = [height |-> height[asked], memos |-> <<memo>>]
  BY <1>3 DEF FallbackReply, IsError
<1>8. FirstMemo(<<memo>>) = memo
  <2>1. <<memo>> \in Seq(Memos) /\ 1 \in DOMAIN <<memo>> /\ <<memo>>[1] = memo /\ memo # "none"
    BY <1>4
  <2>2. \A j \in 1 .. 1 - 1 : <<memo>>[j] = "none"
    OBVIOUS
  <2> QED
    BY <2>1, <2>2, FirstMemoIs
<1>9. <<memo>> \in Seq(Memos)
  BY <1>4
<1> QED
  BY <1>6, <1>7, <1>8, <1>9 DEF Useful, IsError

\* The wallet has it too, unless it fails as the alpha versions do.
LEMMA ViewTransactionIsUseful ==
  ASSUME ReadAssumption, Types, Readable(asked), height[asked] > 0,
         NEW r \in ViewTransaction(asked)
  PROVE  Useful(r) \/ (BugReply(r) /\ setup.zallet # "fixed")
<1> DEFINE memos == [i \in DOMAIN outputs[asked] |-> outputs[asked][i].memo]
<1>1. Known(asked) /\ Mined(asked) /\ asked \in Txids
  BY DEF Types, Known, Mined
<1>2. (BugReply(r) /\ setup.zallet # "fixed") \/ r = [height |-> height[asked], memos |-> memos]
  BY <1>1 DEF ViewTransaction, BugReply
<1>3. memos \in Seq(Memos)
  <2>1. outputs[asked] \in Seq(Output)
    BY <1>1 DEF Types
  <2>2. Len(outputs[asked]) \in Nat /\ DOMAIN outputs[asked] = 1 .. Len(outputs[asked])
    BY <2>1
  <2>3. \A i \in DOMAIN outputs[asked] : outputs[asked][i].memo \in Memos
    BY <1>1, OutputsTyped
  <2> QED
    BY <2>2, <2>3
<1>4. FirstMemo(memos) \in Commitments
  <2>1. PICK i \in Rows(asked) :
          /\ outputs[asked][i].memo \in Commitments
          /\ \A j \in 1 .. i - 1 : outputs[asked][j].memo = "none"
    BY ReadableFacts
  <2>2. i \in DOMAIN memos /\ memos[i] \in Commitments /\ memos[i] # "none"
    BY <1>1, <2>1, RowsAreMemos
  <2>3. DOMAIN memos = DOMAIN outputs[asked] /\ i \in 1 .. Len(outputs[asked])
        /\ Len(outputs[asked]) \in Nat /\ DOMAIN outputs[asked] = 1 .. Len(outputs[asked])
    <3>1. outputs[asked] \in Seq(Output)
      BY <1>1 DEF Types
    <3> QED
      BY <2>2, <3>1
  <2>4. \A j \in 1 .. i - 1 : memos[j] = "none"
    <3>1. \A j \in 1 .. i - 1 : j \in DOMAIN outputs[asked]
      BY <2>3
    <3> QED
      BY <2>1, <3>1
  <2> HIDE DEF memos
  <2> QED
    BY <1>3, <2>2, <2>4, FirstMemoIs
<1> HIDE DEF memos
<1> QED
  BY <1>2, <1>3, <1>4 DEF Useful, IsError

LEMMA UsefulIsRead ==
  ASSUME ReadAssumption, NEW r, Useful(r)
  PROVE  FetchTimestamp(r) # None /\ ~IsError(FetchTimestamp(r))
<1>1. FirstMemo(r.memos) # "none"
  BY DEF Useful, ReadAssumption
<1>2. FetchTimestamp(r) = [txid |-> asked, height |-> r.height, commitment |-> FirstMemo(r.memos)]
  BY <1>1 DEF Useful, FetchTimestamp
<1>3. "txid" \in DOMAIN FetchTimestamp(r) /\ "error" \notin DOMAIN FetchTimestamp(r)
  BY <1>2
<1>4. "txid" \notin DOMAIN None
  BY DEF None
<1> QED
  BY <1>3, <1>4 DEF IsError

LEMMA BugIsSeen == ASSUME NEW r, BugReply(r) PROVE IsFetchBug(r)
<1>1. r = [error |-> "fetch bug"]
  BY DEF BugReply, Error
<1>2. "error" \in DOMAIN r /\ r.error = "fetch bug"
  BY <1>1
<1> QED
  BY <1>2 DEF IsFetchBug, IsError

LEMMA StepKeepsReadInv == ReadAssumption /\ Inv /\ ReadInv /\ [Next]_vars => ReadInv'
<1> SUFFICES ASSUME ReadAssumption, Inv, ReadInv, [Next]_vars,
                    ~faulty', Readable(asked)', Steady'
             PROVE  /\ pc' = "proxy" => Useful(reply)' \/ BugReply(reply)'
                    /\ pc' = "client" => Useful(reply)' \/ (BugReply(reply)' /\ setup'.walletDb)
                    /\ pc' = "idle" => answer' = None \/ Ok'
  BY DEF ReadInv
<1>a. Inv'
  BY StepKeepsInv
<1>1. CASE UNCHANGED vars
  BY <1>1 DEF vars, wallet, ReadInv, Readable, Steady, Useful, BugReply, Ok
<1>2. ASSUME NEW h, Chain(h)
      PROVE  /\ pc' = "proxy" => Useful(reply)' \/ BugReply(reply)'
             /\ pc' = "client" => Useful(reply)' \/ (BugReply(reply)' /\ setup'.walletDb)
             /\ pc' = "idle" => answer' = None \/ Ok'
  <2>1. UNCHANGED <<setup, outputs, pc, asked, reply, answer, faulty>>
    BY <1>2 DEF Chain
  <2>2. window' = window
    <3>1. CASE pc = "idle"
      BY <1>2, <3>1 DEF Chain
    <3>2. CASE pc # "idle"
      <4>1. window \subseteq window' /\ window # {}
        BY <1>2, <3>2 DEF Chain, Inv, CallInv
      <4> QED
        BY <4>1, <1>a, SteadyBefore DEF Inv, Types, Steady
    <3> QED
      BY <3>1, <3>2
  <2> QED
    BY <2>1, <2>2 DEF ReadInv, Readable, Steady, Useful, BugReply, Ok
<1>3. CASE Arrive \/ Mine \/ Reorg
  BY <1>2, <1>3 DEF Arrive, Mine, Reorg
<1>4. CASE \E t \in Txids : Fetch(t)
  BY <1>4 DEF Fetch
<1>5. CASE Lost
  BY <1>5 DEF Lost
<1>6. ASSUME pc # "idle", UNCHANGED <<wallet, asked, window>>
      PROVE  Readable(asked) /\ Steady /\ height[asked] > 0
  <2>1. Readable(asked) /\ Steady
    BY <1>6 DEF wallet, Readable, Steady
  <2> QED
    BY <2>1, <1>6 DEF Inv, CallInv, Steady
<1>7. CASE Zallet
  <2>1. /\ Readable(asked) /\ Steady /\ height[asked] > 0
        /\ reply' \in ViewTransaction(asked) /\ setup' = setup
        /\ pc' = IF setup.proxied THEN "proxy" ELSE "client"
    BY <1>6, <1>7 DEF Zallet, wallet
  <2>2. Useful(reply') \/ (BugReply(reply') /\ setup.zallet # "fixed")
    BY <2>1, ViewTransactionIsUseful DEF Inv
  <2> QED
    BY <2>1, <2>2 DEF Readable, Useful, BugReply
<1>8. CASE Proxy
  <2>1. /\ Readable(asked) /\ Steady /\ height[asked] > 0
        /\ pc' = "client" /\ pc = "proxy" /\ setup' = setup
    BY <1>6, <1>8 DEF Proxy, wallet
  <2>2. CASE IsFetchBug(reply)
    <3>1. reply' = FallbackReply(FromWalletDb(asked))
      BY <1>8, <2>2 DEF Proxy
    <3> QED
      BY <2>1, <3>1, FallbackIsUseful DEF Inv, Useful
  <2>3. CASE ~IsFetchBug(reply)
    <3>1. reply' = reply /\ faulty' = faulty
      BY <1>8, <2>3 DEF Proxy
    <3>2. Useful(reply)
      BY <2>1, <2>3, <3>1, BugIsSeen DEF ReadInv
    <3> QED
      BY <2>1, <3>1, <3>2 DEF Useful
  <2> QED
    BY <2>2, <2>3
<1>9. CASE Client
  <2>1. /\ Readable(asked) /\ Steady /\ height[asked] > 0 /\ ~faulty
        /\ Useful(reply) \/ (BugReply(reply) /\ setup.walletDb)
    BY <1>6, <1>9 DEF Client, ReadInv
  <2>2. CASE IsFetchBug(reply) /\ setup.walletDb
    BY <1>9, <2>2 DEF Client
  <2>3. CASE ~(IsFetchBug(reply) /\ setup.walletDb)
    <3>1. Useful(reply)
      BY <2>1, <2>3, BugIsSeen
    <3>2. pc' = "idle" /\ answer' = FetchTimestamp(reply)
      BY <1>9, <2>3 DEF Client, Finish
    <3> QED
      BY <3>1, <3>2, UsefulIsRead DEF Ok
  <2> QED
    BY <2>2, <2>3
<1>10. CASE Fallback
  <2>1. /\ Readable(asked) /\ Steady /\ height[asked] > 0 /\ pc' = "idle"
        /\ answer' = FetchTimestamp(FallbackReply(FromWalletDb(asked)))
    BY <1>6, <1>10 DEF Fallback, Finish
  <2>2. Useful(FallbackReply(FromWalletDb(asked)))
    BY <2>1, FallbackIsUseful DEF Inv
  <2> QED
    BY <2>1, <2>2, UsefulIsRead DEF Ok
<1> QED
  BY <1>1, <1>3, <1>4, <1>5, <1>7, <1>8, <1>9, <1>10 DEF Next

\* An anchor that was mined and stayed where it was is read, if nothing failed
\* on the way: through every combination of proxy and database access, no
\* layer's error keeps the next one from falling back.
THEOREM AnchorsAreRead == Spec => []MinedAnchorIsRead
<1>1. Init => ReadInv
  BY DEF Init, ReadInv
<1>2. ReadInv => MinedAnchorIsRead
  BY DEF ReadInv, MinedAnchorIsRead, Steady
<1> QED
  BY <1>1, <1>2, ReadAssumption, StepKeepsReadInv, InductiveInvariant, PTL DEF Spec
=============================================================================
