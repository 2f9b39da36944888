---------------------------- MODULE VerifyPanel ----------------------------
(***************************************************************************)
(* One visit of the verify page (zk-timestamp-verify-panel.tsx) with the   *)
(* fetch route that answers it.  An event handler runs to its end or to    *)
(* its next await, and React shows the state it leaves; what happens       *)
(* between two awaits of a handler is any other event.                     *)
(***************************************************************************)
EXTENDS ReceiptFormats, FiniteSets

CONSTANTS
  Typed,      \* what a user types in the txid field
  Texts,      \* receipt texts that are pasted
  FileTexts,  \* and the contents of receipt files
  Chain,      \* txid -> [commitment, height]: the mined anchors (external)
  MaxCalls,   \* bound: submissions in flight at once
  MaxReads    \* bound: receipt files being read at once

VARIABLES
  panel,   \* the state the panel renders; "none" is the empty error
  calls,   \* submissions that wait for the server, with what they captured
  reads,   \* receipt files that were chosen and whose text has not arrived
  late     \* history: has a text arrived while a submission was running?

vars == <<panel, calls, reads, late>>

Blank   == [blank |-> TRUE]
Garbage == [garbage |-> TRUE]
Json(v) == [json |-> v]

NoResult == [artifact |-> None, publicReceipt |-> None, document |-> None]

Init ==
  /\ panel = [txid |-> <<>>, receiptJson |-> Blank, file |-> None,
              status |-> "idle", error |-> "none", result |-> NoResult]
  /\ calls = {} /\ reads = {} /\ late = FALSE

\* Inputs and the submit button are disabled while busy.
Editable == panel.status # "busy"

Set(p) == panel' = p

-----------------------------------------------------------------------------
(* The form *)

TxidChange(t) ==
  /\ Editable
  /\ Set([panel EXCEPT !.txid = t])
  /\ UNCHANGED <<calls, reads, late>>

ReceiptChange(t) ==
  /\ Editable
  /\ Set([panel EXCEPT !.receiptJson = t])
  /\ UNCHANGED <<calls, reads, late>>

\* onFileChange leaves the result of the last submission where it is.
FileChange(f) ==
  /\ Editable
  /\ Set([panel EXCEPT !.file = f])
  /\ UNCHANGED <<calls, reads, late>>

\* onReceiptFileChange up to its await.
ReceiptFileChange(t) ==
  /\ Editable
  /\ Cardinality(reads) < MaxReads
  /\ Set([panel EXCEPT !.error = "none"])
  /\ reads' = reads \cup {t}
  /\ UNCHANGED <<calls, late>>

\* ... with no file chosen, the text of the receipt stays.
ReceiptFileCleared ==
  /\ Editable
  /\ Set([panel EXCEPT !.error = "none"])
  /\ UNCHANGED <<calls, reads, late>>

\* ... and after it, whatever the panel does by then.
ReceiptFileText(t) ==
  /\ t \in reads
  /\ reads' = reads \ {t}
  /\ late' = (late \/ ~Editable)
  /\ \/ Set([panel EXCEPT !.receiptJson = t, !.status = "idle"])
     \/ Set([panel EXCEPT !.status = "error", !.error = "invalidReceipt"])
  /\ UNCHANGED calls

-----------------------------------------------------------------------------
(* onSubmit *)

Input ==
  CASE panel.receiptJson = Blank   -> NoInput
    [] panel.receiptJson = Garbage -> Invalid
    [] OTHER -> ParseReceiptInput(panel.receiptJson.json)

SubmitTxid(input) ==
  IF IsTxid(panel.txid) THEN Plain(panel.txid) ELSE Plain(input.txid)

\* The message of the early return that is taken, "none" when none is.
Refusal(input) ==
  IF input = Invalid THEN "invalidReceipt"
  ELSE IF ~IsTxid(SubmitTxid(input)) THEN "missingTxid"
  ELSE IF panel.file # None /\ None \in {input.publicReceipt, input.privateOpening}
  THEN "invalidReceipt" ELSE "none"

SubmitRefused ==
  /\ Editable
  /\ LET refusal == Refusal(Input) IN
     /\ refusal # "none"
     /\ Set([panel EXCEPT !.status = "error", !.error = refusal, !.result = NoResult])
  /\ UNCHANGED <<calls, reads, late>>

\* Faulty: the text is sent as it is, for the route to pick the receipt from it.
Body_Whole(input, txid) ==
  IF input.publicReceipt = None THEN [txid |-> txid]
  ELSE [txid |-> txid, receipt |-> panel.receiptJson.json]
Body(input, txid) ==
  IF input.publicReceipt = None THEN [txid |-> txid]
  ELSE [txid |-> txid, receipt |-> input.publicReceipt]

\* The closure keeps the file and the parsed receipt of this render.
Submit ==
  /\ Editable
  /\ Cardinality(calls) < MaxCalls
  /\ LET input == Input IN
     /\ Refusal(input) = "none"
     /\ Set([panel EXCEPT !.status = "busy", !.error = "none", !.result = NoResult])
     /\ calls' = calls \cup {[body |-> Body(input, SubmitTxid(input)), input |-> input,
                              file |-> panel.file]}
  /\ UNCHANGED <<reads, late>>

\* The fetch route: the receipt it parses out of the body, None without one.
RouteReceipt(body) ==
  IF ~Has(body, "receipt") THEN None
  ELSE LET e == ParseReceiptEnvelope(body.receipt) IN
       IF e = Invalid THEN Invalid ELSE e.receipt

Verification(file, input) ==
  IF None \in {file, input.publicReceipt, input.privateOpening} THEN None
  ELSE VerifyDocument(file, input.publicReceipt, input.privateOpening)

\* Faulty: the receipt is read from the form again after the awaits.
Answer_Reread(c) ==
  /\ c \in calls
  /\ c.body.txid \in DOMAIN Chain /\ RouteReceipt(c.body) # Invalid
  /\ Set([panel EXCEPT !.status = "success",
            !.result = [artifact |-> FetchAnchor(c.body.txid, RouteReceipt(c.body),
                                                 Chain[c.body.txid]),
                        publicReceipt |-> IF Input = Invalid THEN None
                                          ELSE Input.publicReceipt,
                        document |-> Verification(c.file, c.input)]])
  /\ calls' = calls \ {c}
  /\ UNCHANGED <<reads, late>>
\* The server answers about a mined anchor, and the file is hashed here.
Answer(c) ==
  /\ c \in calls
  /\ c.body.txid \in DOMAIN Chain /\ RouteReceipt(c.body) # Invalid
  /\ Set([panel EXCEPT !.status = "success",
            !.result = [artifact |-> FetchAnchor(c.body.txid, RouteReceipt(c.body),
                                                 Chain[c.body.txid]),
                        publicReceipt |-> c.input.publicReceipt,
                        document |-> Verification(c.file, c.input)]])
  /\ calls' = calls \ {c}
  /\ UNCHANGED <<reads, late>>

\* No answer, an error of the route, or a file that cannot be read.
Fail(c) ==
  /\ c \in calls
  /\ Set([panel EXCEPT !.status = "error", !.error = "serverError"])
  /\ calls' = calls \ {c}
  /\ UNCHANGED <<reads, late>>

Next ==
  \/ \E t \in Typed : TxidChange(t)
  \/ \E t \in Texts : ReceiptChange(t)
  \/ \E t \in FileTexts : ReceiptFileChange(t) \/ ReceiptFileText(t)
  \/ ReceiptFileCleared
  \/ \E f \in Docs \cup {None} : FileChange(f)
  \/ SubmitRefused \/ Submit
  \/ \E c \in calls : Answer(c) \/ Fail(c)

Spec == Init /\ [][Next]_vars

-----------------------------------------------------------------------------
TypeOK ==
  /\ panel.status \in {"idle", "busy", "error", "success"}
  /\ panel.error \in {"none", "invalidReceipt", "missingTxid", "serverError"}
  /\ late \in BOOLEAN
  /\ \A c \in calls : c.file \in Docs \cup {None} /\ IsTxid(c.body.txid)
  /\ reads \subseteq FileTexts

Result == panel.result

\* pickResultTitle, and the rows below it.
Title(a) == CASE a.matchesReceipt = "true"  -> "match"
              [] a.matchesReceipt = "false" -> "mismatch"
              [] OTHER                      -> "noReceipt"
Shown ==
  LET a == Result.artifact  r == Result.publicReceipt IN
  [title   |-> Title(a),
   anchor  |-> <<a.commitment, a.blockHeight>>,
   receipt |-> IF r = None THEN None ELSE <<r.commitment, r.block_height>>]

\* The title of a result (match, mismatch, no receipt) says what its own rows
\* say: the receipt shown beside the anchor is the one the route compared with
\* it, though a receipt text may have arrived while the route worked.
ShownTogether ==
  Result.artifact # None =>
    Shown.title = IF Shown.receipt = None THEN "noReceipt"
                  ELSE IF Shown.receipt = Shown.anchor THEN "match" ELSE "mismatch"

\* c is a commitment, with some nonce, to the digest of d (of its first half, in
\* the legacy scheme).
CommitsTo(c, d) ==
  LET q == Digest[d] IN
  c \in {<<2, Pack(Lo(q)), Pack(Hi(q)), c[4]>>, <<1, -q[1], -q[2], c[4]>>}

\* When the page says that the receipt matches its anchor and that the file
\* matches the receipt, the chain holds, at the height shown, a commitment to
\* that very file: parsers, scheme choice, route and hashes all agree.
VerdictSound ==
  LET a == Result.artifact  v == Result.document IN
  a # None /\ v # None /\ a.matchesReceipt = "true" /\ v.matchesReceipt =>
    \E d \in Docs :
      /\ HashDocument(d) = v.hash
      /\ CommitsTo(Chain[a.txid].commitment, d)
      /\ Chain[a.txid].height = a.blockHeight

\* A text that the page and the fetch route (as receiptJson) both accept is the
\* same receipt and the same txid to both, though each has its own rules for
\* where in an envelope to look.
SameExtraction ==
  Has(panel.receiptJson, "json") =>
    LET page == ParseReceiptInput(panel.receiptJson.json)
        route == ParseReceiptEnvelope(panel.receiptJson.json)
    IN Invalid \notin {page, route} =>
         /\ page.publicReceipt = route.receipt
         /\ page.txid = route.txid

=============================================================================
