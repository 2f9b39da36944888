--------------------------- MODULE StampPipeline ---------------------------
(***************************************************************************)
(* POST /api/timestamps/stamp from end to end: the budgeted request of     *)
(* StampBudget, the CLI child that anchors its commitment                  *)
(* (anchorTimestampReceipt, `zectime timestamp anchor`, ZalletRpc::        *)
(* broadcast_anchor), the child that reads it back (fetchTimestampAnchor,  *)
(* ZalletRpc::fetch_anchor), and, as an external component, the zallet     *)
(* wallet with its asynchronous operations and the chain.                  *)
(*                                                                         *)
(* The web server, the CLI child and the wallet are three processes: each  *)
(* may go on after another died, timed out or missed an answer.            *)
(***************************************************************************)
EXTENDS StampBudget

CONSTANTS MaxServerRestarts,  \* bound: how often the web server restarts
          MaxWalletRestarts   \* bound: how often the wallet restarts

ASSUME RestartsAssumption == MaxServerRestarts \in Nat /\ MaxWalletRestarts \in Nat

VARIABLES
  child,    \* child[r]: the anchor CLI process
  result,   \* result[r]: what the route will answer
  op,       \* op[r]: the wallet's z_sendmany operation (external)
  sends,    \* history: sends[r] counts the z_sendmany calls the wallet took
  tx,       \* tx[r]: the anchor transaction (external)
  restarts  \* how often the server and the wallet have restarted

pipeVars == <<child, result, op, sends, tx, restarts>>
allVars  == <<vars, pipeVars>>

Running     == {"started", "sending", "polling"}
ChildStates == Running \cup {"none", "succeeded", "failed"}
OpStates    == {"none", "posted", "dropped", "running", "success", "failed", "forgotten"}
TxStates    == {"none", "mempool", "mined"}
Results     == {"none", "ok", "error", "lost"}

PipeInit ==
  /\ Init
  /\ child = [r \in Requests |-> "none"]
  /\ result = [r \in Requests |-> "none"]
  /\ op = [r \in Requests |-> "none"]
  /\ sends = [r \in Requests |-> 0]
  /\ tx = [r \in Requests |-> "none"]
  /\ restarts = [server |-> 0, wallet |-> 0]

SetChild(r, s)  == child' = [child EXCEPT ![r] = s]
SetResult(r, s) == result' = [result EXCEPT ![r] = s]
SetOp(r, s)     == op' = [op EXCEPT ![r] = s]

Serving(r) == pc[r] = "publishing" /\ result[r] = "none"

-----------------------------------------------------------------------------
(* The web server *)

\* Everything up to the granted reservation, and the refusals.
BudgetStep(r) ==
  /\ \/ \E c \in Clients : Enter(r, c)
     \/ Read(r) \/ Count(r) \/ Rename(r) \/ Grant(r)
  /\ UNCHANGED pipeVars

BudgetError(r) ==
  /\ Busy(r) \/ ReadFails(r) \/ Refuse(r) \/ WriteFails(r)
  /\ SetResult(r, "error")
  /\ UNCHANGED <<child, op, sends, tx, restarts>>

\* anchorTimestampReceipt: temporary directory, receipt file, spawn.
Spawn(r) ==
  /\ Serving(r) /\ child[r] = "none"
  /\ \/ SetChild(r, "started") /\ UNCHANGED result
     \/ SetResult(r, "error") /\ UNCHANGED child
  /\ UNCHANGED <<vars, op, sends, tx, restarts>>

\* Faulty: a publish that failed gives its reservation back.
AnchorFails_Refunds(r) ==
  /\ Serving(r) /\ child[r] = "failed"
  /\ SetResult(r, "error")
  /\ charged' = charged \ {r}
  /\ file' = IF file.day = dayKey[r]
             THEN [file EXCEPT !.total = @ - 1, !.byIp[client[r]] = @ - 1] ELSE file
  /\ UNCHANGED <<day, pc, client, dayKey, active, queue, snap, grantDay>>
  /\ UNCHANGED <<child, op, sends, tx, restarts>>

\* Faulty: the failed publish frees the slot, and so does the finally block.
AnchorFails_FreesSlot(r) ==
  /\ Serving(r) /\ child[r] = "failed"
  /\ SetResult(r, "error")
  /\ active' = active - 1
  /\ UNCHANGED <<day, pc, client, dayKey, queue, file, snap, charged, grantDay>>
  /\ UNCHANGED <<child, op, sends, tx, restarts>>

\* The child exits with an error, and the route answers with one.
AnchorFails(r) ==
  /\ Serving(r) /\ child[r] = "failed"
  /\ SetResult(r, "error")
  /\ UNCHANGED <<vars, child, op, sends, tx, restarts>>

\* Faulty: the timer ends the wait for the child, and not the child.
Kill_LeavesChild(r) ==
  /\ Serving(r) /\ child[r] \in Running
  /\ SetResult(r, "error")
  /\ UNCHANGED <<vars, child, op, sends, tx, restarts>>

\* runZecTime kills a child that runs longer than cliTimeoutMs.
Kill(r) ==
  /\ Serving(r) /\ child[r] \in Running
  /\ SetChild(r, "failed")
  /\ UNCHANGED <<vars, result, op, sends, tx, restarts>>

\* fetchTimestampAnchor, once and right after the child exits.  It may fail for
\* its own reasons; it must fail while the transaction has no height.
Fetch(r) ==
  /\ Serving(r) /\ child[r] = "succeeded"
  /\ \/ tx[r] = "mined" /\ SetResult(r, "ok")
     \/ SetResult(r, "error")
  /\ UNCHANGED <<vars, child, op, sends, tx, restarts>>

\* Faulty: the slot is not freed after an error.
Answer_OnSuccess(r) ==
  /\ Leave(r)
  /\ result[r] = "ok"
  /\ UNCHANGED pipeVars

\* The answer goes out and the slot is freed.
Answer(r) ==
  /\ Leave(r)
  /\ pc[r] = "publishing" => result[r] # "none"
  /\ UNCHANGED pipeVars

\* The server restarts; a spawned child is a process of its own and lives on.
ServerRestart ==
  /\ restarts.server < MaxServerRestarts
  /\ restarts' = [restarts EXCEPT !.server = @ + 1]
  /\ Restart
  /\ result' = [r \in Requests |-> IF pc[r] \in Inside THEN "lost" ELSE result[r]]
  /\ UNCHANGED <<child, op, sends, tx>>

-----------------------------------------------------------------------------
(* The CLI child: broadcast_anchor *)

\* The z_sendmany call goes out, or the child ends before it: an unreadable
\* receipt, a bad address or URL, no connection.
SendMany(r) ==
  /\ child[r] = "started"
  /\ \/ SetChild(r, "sending") /\ SetOp(r, "posted")
     \/ SetChild(r, "failed") /\ UNCHANGED op
  /\ UNCHANGED <<vars, result, sends, tx, restarts>>

\* Its answer is an operation id, if the wallet took the call; or the call is
\* refused, breaks or times out, which says nothing about the wallet.
SendManyReturns(r) ==
  /\ child[r] = "sending"
  /\ \/ op[r] \in {"running", "success", "failed", "forgotten"} /\ SetChild(r, "polling")
     \/ SetChild(r, "failed")
  /\ UNCHANGED <<vars, result, op, sends, tx, restarts>>

\* One round of poll_operation: a finished operation ends it, any error ends
\* it, and so does the deadline; otherwise it sleeps and polls again.  After a
\* success the CLI still has to write its metadata file.
Poll(r) ==
  /\ child[r] = "polling"
  /\ \/ op[r] = "success" /\ SetChild(r, "succeeded")
     \/ SetChild(r, "failed")
  /\ UNCHANGED <<vars, result, op, sends, tx, restarts>>

ChildStep(r) == SendMany(r) \/ SendManyReturns(r) \/ Poll(r)

-----------------------------------------------------------------------------
(* The wallet and the chain (external) *)

\* A posted call reaches the wallet, perhaps long after its caller gave up...
Take(r) ==
  /\ op[r] = "posted"
  /\ SetOp(r, "running")
  /\ sends' = [sends EXCEPT ![r] = @ + 1]
  /\ UNCHANGED <<vars, child, result, tx, restarts>>

\* ... or never, or is refused.
Drop(r) ==
  /\ op[r] = "posted"
  /\ SetOp(r, "dropped")
  /\ UNCHANGED <<vars, child, result, sends, tx, restarts>>

Submit(r) ==
  /\ op[r] = "running"
  /\ SetOp(r, "success")
  /\ tx' = [tx EXCEPT ![r] = "mempool"]
  /\ UNCHANGED <<vars, child, result, sends, restarts>>

OpFails(r) ==
  /\ op[r] = "running"
  /\ SetOp(r, "failed")
  /\ UNCHANGED <<vars, child, result, sends, tx, restarts>>

\* Operations live in the wallet's memory: a restart forgets them.
WalletRestart ==
  /\ restarts.wallet < MaxWalletRestarts
  /\ restarts' = [restarts EXCEPT !.wallet = @ + 1]
  /\ op' = [r \in Requests |-> 
             IF op[r] \in {"running", "success", "failed"} THEN "forgotten" ELSE op[r]]
  /\ UNCHANGED <<vars, child, result, sends, tx>>

Mine(r) ==
  /\ tx[r] = "mempool"
  /\ tx' = [tx EXCEPT ![r] = "mined"]
  /\ UNCHANGED <<vars, child, result, op, sends, restarts>>

WalletStep(r) == Take(r) \/ Drop(r) \/ Submit(r) \/ OpFails(r) \/ Mine(r)

-----------------------------------------------------------------------------
ServerStep(r) ==
  \/ BudgetStep(r) \/ BudgetError(r) \/ Spawn(r) \/ AnchorFails(r) \/ Kill(r)
  \/ Fetch(r) \/ Answer(r)

PipeQuiescent == /\ day = MaxDay /\ restarts.wallet = MaxWalletRestarts
                 /\ \A r \in Requests : pc[r] = "done" /\ op[r] \notin {"posted", "running"}
                                        /\ tx[r] # "mempool"
                 /\ UNCHANGED allVars

PipeNext ==
  \/ \E r \in Requests : ServerStep(r) \/ ChildStep(r) \/ WalletStep(r)
  \/ Midnight /\ UNCHANGED pipeVars
  \/ ServerRestart
  \/ WalletRestart
  \/ PipeQuiescent

PipeSpec == PipeInit /\ [][PipeNext]_allVars

\* Every process runs its ready code, the RPC client's and poll_operation's
\* timeouts included; the wallet and the chain promise nothing.
PipeFairSpec ==
  /\ PipeSpec
  /\ \A r \in Requests : WF_allVars(pc[r] # "idle" /\ (ServerStep(r) \/ ChildStep(r)))
-----------------------------------------------------------------------------
(* Properties *)

Sent(d) == {r \in Requests : sends[r] > 0 /\ dayKey[r] = d}

\* The pipeline's own variables have their types.
PipeTypeOK ==
  /\ TypeOK
  /\ child \in [Requests -> ChildStates]
  /\ result \in [Requests -> Results]
  /\ op \in [Requests -> OpStates]
  /\ sends \in [Requests -> Nat]
  /\ tx \in [Requests -> TxStates]
  /\ restarts \in [server : 0 .. MaxServerRestarts, wallet : 0 .. MaxWalletRestarts]

\* The wallet is asked to spend at most once for each charged request, and for
\* no more than the daily limit, whatever is lost, killed or restarted: no
\* answer that went missing makes the code send again.
SpendWithinBudget ==
  /\ \A r \in Requests : sends[r] <= 1 /\ (sends[r] > 0 => r \in charged)
  /\ \A d \in 0 .. MaxDay : Cardinality(Sent(d)) <= GlobalDailyLimit

Publishers == {r \in Requests : child[r] \in Running}

\* What the concurrency limit does bound.  A slot is never free while the anchor
\* process it was taken for runs on, unless a restart of the server forgot the
\* slot and left the process; so the processes that run at once are no more
\* than the slots in use and one limit's worth for each restart.
PublishersHoldSlots ==
  /\ \A r \in Publishers : Serving(r) \/ result[r] = "lost"
  /\ Cardinality(Publishers) <= active + Concurrency * restarts.server

\* Every request that takes a slot gets the lock in turn and is answered,
\* whatever fails on the way and whatever the wallet does.
EveryRequestAnswered ==
  \A r \in Requests : pc[r] \in Inside ~> pc[r] = "done" /\ result[r] # "none"

-----------------------------------------------------------------------------
(* What the documentation says, and the code does not keep *)

\* docs/OPERATIONS.md: "1 active zallet publish at a time" by default, that is,
\* as many as the concurrency limit.
OnePublishAtATime == Cardinality({r \in Requests : op[r] = "running"}) <= Concurrency

\* crates/anchor/src/rpc/timestamp.rs: "callers wait for confirmation and then
\* call fetch_timestamp".
CallersWaitForConfirmation ==
  [][\A r \in Requests : Fetch(r) => tx[r] = "mined"]_allVars
=============================================================================
