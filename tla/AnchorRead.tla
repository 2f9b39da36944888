----------------------------- MODULE AnchorRead -----------------------------
(***************************************************************************)
(* Reading an anchor back: `zectime timestamp fetch` (rpc/timestamp.rs,    *)
(* rpc/zallet.rs) asks the zallet wallet, perhaps through the operations   *)
(* proxy (zallet-rpc-proxy.py), and proxy and client each look into the    *)
(* wallet's database when zallet answers with the fetch error of its alpha *)
(* versions.  Between a call and its fallback blocks come and go.          *)
(*                                                                         *)
(* A txid is an integer; -t is t with its bytes reversed, the order of the *)
(* database.  All outputs are of one pool, in the order of their index.    *)
(***************************************************************************)
EXTENDS Integers, Sequences, FiniteSets, FiniteSetsExt

CONSTANTS
  Txids,       \* transactions the wallet may hold
  Commitments, \* what their timestamp memos say
  Contents,    \* txid -> the outputs it may have
  MaxHeight,   \* bound: chain heights are 1 .. MaxHeight
  MaxReorgs    \* bound: blocks that are reorganized away

VARIABLES
  setup,    \* [zallet, proxied, walletDb]: the installation
  outputs,  \* outputs[t]: the outputs of t (external)
  height,   \* height[t] as the wallet has it: -1 unknown, 0 not mined (external)
  tip,      \* height of the chain (external)
  reorgs,   \* blocks reorganized away (external)
  pc,       \* who has the call: idle, zallet, proxy, client, fallback
  asked,    \* the txid asked for
  reply,    \* the reply on its way to the client
  answer,   \* what the command ends with
  window,   \* history: the heights that asked had during the call
  faulty    \* history: has a message or a database failed during the call?

wallet == <<setup, outputs, height, tip, reorgs>>
vars   == <<wallet, pc, asked, reply, answer, window, faulty>>

\* A memo is absent, 512 bytes without the magic bytes, a memo of this program
\* in another version, or a timestamp; db: is it in the tables that are read?
Memos  == {"none", "plain", "other"} \cup Commitments
Output == [memo : Memos, db : BOOLEAN]

ASSUME ReadAssumption ==
  /\ Txids \subseteq Int /\ Contents \subseteq Seq(Output)
  /\ Commitments \cap {"none", "plain", "other"} = {}
  /\ MaxHeight \in Nat \ {0} /\ MaxReorgs \in Nat

Zallets == {"fixed", "binary", "schema"}
None    == [none |-> TRUE]

Known(t) == height[t] >= 0
Mined(t) == height[t] > 0

Init ==
  /\ setup \in [zallet : Zallets, proxied : BOOLEAN, walletDb : BOOLEAN]
  /\ outputs \in [Txids -> Contents]
  /\ height = [t \in Txids |-> -1] /\ tip = 1 /\ reorgs = 0
  /\ pc = "idle" /\ asked \in Txids /\ reply = None /\ answer = None
  /\ window = {} /\ faulty = FALSE

-----------------------------------------------------------------------------
(* The chain and the wallet (external) *)

Chain(h) ==
  /\ height' = h
  /\ window' = IF pc = "idle" THEN window ELSE window \cup {h[asked]}
  /\ UNCHANGED <<setup, outputs, pc, asked, reply, answer, faulty>>

Arrive ==
  /\ \E t \in Txids : ~Known(t) /\ Chain([height EXCEPT ![t] = 0])
  /\ UNCHANGED <<tip, reorgs>>

Mine ==
  /\ tip < MaxHeight
  /\ tip' = tip + 1
  /\ \E S \in SUBSET {t \in Txids : height[t] = 0} :
       Chain([t \in Txids |-> IF t \in S THEN tip' ELSE height[t]])
  /\ UNCHANGED reorgs

Reorg ==
  /\ tip > 1 /\ reorgs < MaxReorgs
  /\ tip' = tip - 1 /\ reorgs' = reorgs + 1
  /\ Chain([t \in Txids |-> IF height[t] = tip THEN 0 ELSE height[t]])

-----------------------------------------------------------------------------
(* The wallet's answers *)

Error(e)   == [error |-> e]
IsError(r) == "error" \in DOMAIN r

\* Zallet has t and answers, does not know it, or fails as its alphas do: with
\* every transaction, or with one whose memo is binary.  An error has an HTTP
\* status of its own or none, as the server likes.
IsBinary(t) == \E i \in DOMAIN outputs[t] : outputs[t][i].memo \notin {"none", "plain"}

ViewTransaction(t) ==
  IF \/ setup.zallet = "schema"
     \/ setup.zallet = "binary" /\ Known(t) /\ IsBinary(t)
  THEN {Error("fetch bug")}
  ELSE IF ~Known(t) THEN {Error("not found"), Error("HTTP not found")}
  ELSE LET memos == [i \in DOMAIN outputs[t] |-> outputs[t][i].memo]
       IN {IF Mined(t) THEN [height |-> height[t], memos |-> memos] ELSE [memos |-> memos]}

\* Faulty: the bytes of the txid are not reversed.
DbTxid_Display(t) == t
DbTxid(t) == -t

\* The rows of the query: memos with the magic bytes.
Rows(t) == {i \in DOMAIN outputs[t] :
              outputs[t][i].db /\ outputs[t][i].memo \notin {"none", "plain"}}

\* Faulty: a transaction without a height has height 0.
FromWalletDb_Unmined(txid) ==
  LET found == {t \in Txids : -t = DbTxid(txid) /\ Known(t) /\ Rows(t) # {}}
  IN IF found = {} THEN Error("not found")
     ELSE LET t == CHOOSE t \in found : TRUE
          IN [height |-> height[t], memos |-> <<outputs[t][Min(Rows(t))].memo>>]
\* The lowest output index; no row, and a transaction that is not mined, are
\* errors.  Proxy and client have the same query.
FromWalletDb(txid) ==
  LET found == {t \in Txids : -t = DbTxid(txid) /\ Known(t) /\ Rows(t) # {}}
  IN IF found = {} THEN Error("not found")
     ELSE LET t == CHOOSE t \in found : TRUE
          IN IF Mined(t)
             THEN [height |-> height[t], memos |-> <<outputs[t][Min(Rows(t))].memo>>]
             ELSE Error("not mined")

\* Faulty: the error about binary memos is not known.
IsFetchBug_Schema(r) == IsError(r) /\ r.error = "fetch bug" /\ setup.zallet = "schema"
IsFetchBug(r) == IsError(r) /\ r.error = "fetch bug"

-----------------------------------------------------------------------------
(* The command *)

Fetch(t) ==
  /\ pc = "idle"
  /\ pc' = "zallet" /\ asked' = t /\ reply' = None /\ answer' = None
  /\ window' = {height[t]} /\ faulty' = FALSE
  /\ UNCHANGED wallet

Zallet ==
  /\ pc = "zallet"
  /\ reply' \in ViewTransaction(asked)
  /\ pc' = IF setup.proxied THEN "proxy" ELSE "client"
  /\ UNCHANGED <<wallet, asked, answer, window, faulty>>

FallbackReply(r) == IF IsError(r) THEN Error("fallback failed") ELSE r

\* do_POST passes the reply on, or replaces it by the database's; the error of
\* a failing lookup has none of the markers of the bug.
Proxy ==
  /\ pc = "proxy"
  /\ pc' = "client"
  /\ IF IsFetchBug(reply)
     THEN \/ reply' = FallbackReply(FromWalletDb(asked)) /\ UNCHANGED faulty
          \/ reply' = Error("fallback failed") /\ faulty' = TRUE
     ELSE UNCHANGED <<reply, faulty>>
  /\ UNCHANGED <<wallet, asked, answer, window>>

\* The connection fails or the client gives up after its 30 seconds.
Lost ==
  /\ pc \in {"zallet", "proxy", "client"}
  /\ pc' = "idle" /\ faulty' = TRUE
  /\ answer' = Error("transport")
  /\ UNCHANGED <<wallet, asked, reply, window>>

\* fetch_anchor takes the first output that has a memo of 512 bytes, and
\* decode_timestamp says whether it is one of ours.
FirstMemo(memos) ==
  LET full == {i \in DOMAIN memos : memos[i] # "none"}
  IN IF full = {} THEN "none" ELSE memos[Min(full)]

FetchTimestamp(r) ==
  IF IsError(r) THEN r
  ELSE LET memo == FirstMemo(r.memos) IN
  IF "height" \notin DOMAIN r \/ memo = "none" THEN Error("protocol")
  ELSE IF memo \notin Commitments THEN Error("memo")
  ELSE [txid |-> asked, height |-> r.height, commitment |-> memo]

Finish(a) == pc' = "idle" /\ answer' = a

Client ==
  /\ pc = "client"
  /\ IF IsFetchBug(reply) /\ setup.walletDb
     THEN pc' = "fallback" /\ UNCHANGED answer
     ELSE Finish(FetchTimestamp(reply))
  /\ UNCHANGED <<wallet, asked, reply, window, faulty>>

\* Any error of the fallback is a protocol error.
Fallback ==
  /\ pc = "fallback"
  /\ \/ Finish(FetchTimestamp(FallbackReply(FromWalletDb(asked)))) /\ UNCHANGED faulty
     \/ Finish(Error("fallback failed")) /\ faulty' = TRUE
  /\ UNCHANGED <<wallet, asked, reply, window>>

Next ==
  \/ Arrive \/ Mine \/ Reorg
  \/ \E t \in Txids : Fetch(t)
  \/ Zallet \/ Proxy \/ Lost \/ Client \/ Fallback

Spec == Init /\ [][Next]_vars

-----------------------------------------------------------------------------
Errors == {"fetch bug", "not found", "HTTP not found", "fallback failed",
           "transport", "protocol", "memo"}
Ok == answer # None /\ ~IsError(answer)

\* Every variable has its type.
TypeOK ==
  /\ setup \in [zallet : Zallets, proxied : BOOLEAN, walletDb : BOOLEAN]
  /\ \A t \in Txids : outputs[t] \in Seq(Output) /\ height[t] \in -1 .. tip
  /\ tip \in 1 .. MaxHeight /\ reorgs \in 0 .. MaxReorgs
  /\ pc \in {"idle", "zallet", "proxy", "client", "fallback"} /\ asked \in Txids
  /\ reply \in {None} \cup [error : Errors] \cup
               [height : 0 .. MaxHeight, memos : Seq(Memos)] \cup [memos : Seq(Memos)]
  /\ answer \in {None} \cup [error : Errors] \cup
                [txid : Txids, height : 1 .. MaxHeight, commitment : Commitments]
  /\ window \subseteq -1 .. MaxHeight /\ faulty \in BOOLEAN

\* What is read back is true whichever of the three ways it came: the
\* transaction asked for holds that commitment, and was at that height at some
\* moment of the call, though height and memo may come from a fallback that
\* looked later than the wallet that failed.
ReadsTheChain ==
  Ok => /\ answer.txid = asked
        /\ answer.height \in window
        /\ \E i \in DOMAIN outputs[asked] : outputs[asked][i].memo = answer.commitment

\* The installations that docs/OPERATIONS.md describes can read t: zallet works,
\* or proxy or client can see into its database; and the first memo of t is a
\* timestamp the database has.
Readable(t) ==
  /\ setup.zallet = "fixed" \/ setup.proxied \/ setup.walletDb
  /\ \E i \in DOMAIN outputs[t] :
       /\ outputs[t][i].db /\ outputs[t][i].memo \in Commitments
       /\ \A j \in 1 .. i - 1 : outputs[t][j].memo = "none"

\* And they do: an anchor that was mined before the call, and stayed where it
\* was, is read unless a message or a database failed; no error of one layer
\* hides from the next that it should fall back.
MinedAnchorIsRead ==
  pc = "idle" /\ answer # None /\ ~faulty /\ Readable(asked) /\ Cardinality(window) = 1
  /\ (\A h \in window : h > 0) => Ok

=============================================================================
