--------------------------- MODULE PredicatePanel ---------------------------
(***************************************************************************)
(* One visit of the predicate page (zk-timestamp-predicate-panel.tsx) with *)
(* the predicate verify route.  Proving is refused on the page; verifying  *)
(* posts the proof and, if one was pasted, the receipt.                    *)
(***************************************************************************)
EXTENDS ReceiptFormats, FiniteSets

CONSTANTS
  Witnesses, \* what the witness box holds, blank, garbage and JSON
  Proofs,    \* what the proof box holds
  Inputs,    \* proof -> [commitment, height]: those that verify (external)
  Pasted,    \* what the receipt box holds
  MaxPosts   \* bound: verifications that reach the server

VARIABLES
  panel,   \* the state the panel renders; "none" is the empty error
  calls    \* verifications that wait for the server: their bodies

vars == <<panel, calls>>

Blank   == [blank |-> TRUE]
Garbage == [garbage |-> TRUE]
Sample  == [json |-> [sample |-> TRUE]]
NoProof == "blank"

Init ==
  /\ panel = [witness |-> Blank, proveStatus |-> "idle", proveError |-> "none",
              proof |-> NoProof, receiptJson |-> Blank,
              verifyStatus |-> "idle", verifyError |-> "none", verifyResult |-> None,
              posts |-> 0]
  /\ calls = {}

Set(p) == panel' = p
Editable == panel.verifyStatus # "busy"

-----------------------------------------------------------------------------
(* The prove form *)

WitnessChange(w) ==
  /\ Set([panel EXCEPT !.witness = w])
  /\ UNCHANGED calls

FillSampleWitness ==
  /\ Set([panel EXCEPT !.witness = Sample, !.proveStatus = "idle", !.proveError = "none"])
  /\ UNCHANGED calls

ProveMessage ==
  CASE panel.witness = Blank   -> "missingWitness"
    [] panel.witness = Garbage -> "invalidWitness"
    [] OTHER -> "localOnly"

\* Faulty: a witness that parses is sent to the prove route, which refuses it.
ProveSubmit_Posts ==
  /\ Set([panel EXCEPT !.proveStatus = IF ProveMessage = "localOnly" THEN "busy" ELSE "error",
                       !.proveError = ProveMessage])
  /\ calls' = IF ProveMessage = "localOnly"
              THEN calls \cup {[witness |-> panel.witness.json]} ELSE calls
\* onProveSubmit: a well formed witness is refused too.
ProveSubmit ==
  /\ Set([panel EXCEPT !.proveStatus = "error", !.proveError = ProveMessage])
  /\ UNCHANGED calls

-----------------------------------------------------------------------------
(* The verify form *)

ProofChange(p) ==
  /\ Editable
  /\ Set([panel EXCEPT !.proof = p])
  /\ UNCHANGED calls

ReceiptChange(t) ==
  /\ Editable
  /\ Set([panel EXCEPT !.receiptJson = t])
  /\ UNCHANGED calls

VerifyRefusal ==
  IF panel.proof = NoProof THEN "missingProof"
  ELSE IF panel.receiptJson = Garbage THEN "invalidReceipt" ELSE "none"

VerifyRefused ==
  /\ Editable
  /\ VerifyRefusal # "none"
  /\ Set([panel EXCEPT !.verifyStatus = "error", !.verifyError = VerifyRefusal,
                       !.verifyResult = None])
  /\ UNCHANGED calls

\* The whole of the pasted JSON is posted.
VerifySubmit ==
  /\ Editable
  /\ VerifyRefusal = "none"
  /\ panel.posts < MaxPosts
  /\ LET body == [proof |-> panel.proof,
                  receipt |-> IF panel.receiptJson = Blank THEN Scalar
                              ELSE panel.receiptJson.json]
     IN calls' = {body}
  /\ Set([panel EXCEPT !.verifyStatus = "busy", !.verifyError = "none",
                       !.verifyResult = None, !.posts = @ + 1])

-----------------------------------------------------------------------------
(* The route *)

\* extractReceipt: a receipt that is not an object is taken for none.
ExtractReceipt(body) ==
  IF body.receipt = Scalar THEN None ELSE ParseTimestampReceipt(body.receipt)

\* The bytes of a text in the other order.
Swap(t) == <<-t[4], -t[3], -t[2], -t[1]>>

\* What `zectime timestamp predicate-verify` prints; with a receipt it fails
\* unless the receipt has the printed commitment and the height.
CliAccepts(p, receipt) ==
  /\ p \in DOMAIN Inputs
  /\ receipt # None => /\ receipt.commitment = Swap(Inputs[p].commitment)
                       /\ receipt.block_height = Inputs[p].height

\* predicatePublicInputsMatchReceipt, on the bytes the server swaps back.
MatchesReceipt(p, receipt) ==
  IF receipt = None THEN "null"
  ELSE IF /\ receipt.commitment = Inputs[p].commitment
          /\ receipt.block_height = Inputs[p].height
  THEN "true" ELSE "false"

Answer(body) ==
  /\ body \in calls
  /\ LET receipt == ExtractReceipt(body) IN
     /\ receipt # Invalid
     /\ CliAccepts(body.proof, receipt)
     /\ Set([panel EXCEPT !.verifyStatus = "success",
               !.verifyResult = [publicInputs |-> Inputs[body.proof],
                                 matchesReceipt |-> MatchesReceipt(body.proof, receipt)]])
  /\ calls' = {}

\* A refusal of the route or of the CLI, or no answer.
Fail(body) ==
  /\ body \in calls
  /\ Set([panel EXCEPT !.verifyStatus = "error", !.verifyError = "serverError"])
  /\ calls' = {}

Next ==
  \/ \E w \in Witnesses : WitnessChange(w)
  \/ FillSampleWitness \/ ProveSubmit
  \/ \E p \in Proofs : ProofChange(p)
  \/ \E t \in Pasted : ReceiptChange(t)
  \/ VerifyRefused \/ VerifySubmit
  \/ \E body \in calls : Answer(body) \/ Fail(body)

Spec == Init /\ [][Next]_vars

-----------------------------------------------------------------------------
TypeOK ==
  /\ panel.witness \in Witnesses \cup {Blank, Sample}
  /\ panel.proof \in Proofs \cup {NoProof} /\ panel.receiptJson \in Pasted \cup {Blank}
  /\ panel.proveStatus \in {"idle", "error"} \* never busy, never a result
  /\ panel.verifyStatus \in {"idle", "busy", "error", "success"}
  /\ panel.posts \in 0 .. MaxPosts

=============================================================================
