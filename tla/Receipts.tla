----------------------------- MODULE Receipts -----------------------------
(***************************************************************************)
(* The life of a receipt across the tools that write and check it: the     *)
(* browser (stamp and verify panels, timestamp-client-crypto.ts), the      *)
(* server (zectime-client.ts), the zectime CLI (cli/src/main.rs), the memo *)
(* on chain (timestamp_memo.rs, rpc/timestamp.rs) and the proof files.     *)
(*                                                                         *)
(* A commitment is a field element; Poseidon is taken to be injective, so  *)
(* the element is its opening.  What can differ between two tools is the   *)
(* order in which its 32 bytes are written: little endian is `reversed =   *)
(* FALSE`, and hex encoding alone does not change the order.  The txid of  *)
(* the anchor of receipt r is r.                                           *)
(***************************************************************************)
EXTENDS Integers, FiniteSets

CONSTANTS
  Receipts,   \* receipts, each with a fresh nonce of its own
  Docs,       \* files or structured documents, as their digests
  Claims,     \* heights given by hand: --block-height, the height of a witness
  MaxHeight,  \* bound: chain heights are 1 .. MaxHeight; height 0 is "none yet"
  MaxReorgs   \* bound: blocks that are reorganized away

ASSUME ReceiptsAssumption == /\ MaxHeight \in Nat \ {0} /\ MaxReorgs \in Nat
                             /\ Claims \subseteq 0 .. MaxHeight

VARIABLES
  tip,      \* height of the chain (external)
  reorgs,   \* blocks reorganized away so far (external)
  stage,    \* stage[r]: none, draft (in the browser), anchoring, held, lost
  receipt,  \* receipt[r] = [maker, doc, text, height]
  born,     \* history: the tip when the commitment of r was computed
  anchor,   \* anchor[r] = [memo, height]: its transaction, height 0 while unmined
  proof,    \* proof[r] = [commitment, height]: a proof file made for r
  answer    \* what the last step answered, NoAnswer if it was no verification

vars == <<tip, reorgs, stage, receipt, born, anchor, proof, answer>>

Makers  == {"web", "cli", "structured"}
Heights == 0 .. MaxHeight
Bytes   == [of : Docs \X Receipts, reversed : BOOLEAN]

NoReceipt == [maker |-> "none"]
NoAnchor  == [height |-> 0]
NoProof   == [height |-> 0]
NoAnswer  == [by |-> "nobody"]

Published(r) == anchor[r] # NoAnchor
Mined(r)     == anchor[r].height > 0
Held(r)      == stage[r] = "held"
Opening(r)   == <<receipt[r].doc, r>>

-----------------------------------------------------------------------------
(* Encodings *)

\* A field element as to_repr and formatFieldHex write it.
Repr(o) == [of |-> o, reversed |-> FALSE]
Swap(b) == [b EXCEPT !.reversed = ~@]

\* hex_le writes the bytes backwards, and the CLI reads them backwards again.
HexLe(b) == Swap(b)

\* Faulty: the text is decoded in the order it is written.
ParseCommitment_InOrder(text) == text
ParseCommitment(text) == Swap(text)

\* encode_timestamp and decode_timestamp keep the bytes as they are.
Memo(text)    == ParseCommitment(text)
FetchText(r)  == HexLe(anchor[r].memo)
RawHex(text)  == Swap(text)

-----------------------------------------------------------------------------
(* Making receipts *)

Init ==
  /\ tip = 1 /\ reorgs = 0
  /\ stage = [r \in Receipts |-> "none"]
  /\ receipt = [r \in Receipts |-> NoReceipt]
  /\ born = [r \in Receipts |-> 0]
  /\ anchor = [r \in Receipts |-> NoAnchor]
  /\ proof = [r \in Receipts |-> NoProof]
  /\ answer = NoAnswer

Write(r, maker, d, text, h, s) ==
  /\ stage[r] = "none"
  /\ stage' = [stage EXCEPT ![r] = s]
  /\ receipt' = [receipt EXCEPT ![r] =
                   [maker |-> maker, doc |-> d, text |-> text, height |-> h]]
  /\ born' = [born EXCEPT ![r] = tip]
  /\ answer' = NoAnswer
  /\ UNCHANGED <<tip, reorgs, anchor, proof>>

\* The browser hashes the file and commits to it; nothing is kept yet.
Draft(r, d) == Write(r, "web", d, Repr(<<d, r>>), 0, "draft")

\* `zectime timestamp stamp [--block-height h]`.
CliStamp(r, d, h) == Write(r, "cli", d, HexLe(Repr(<<d, r>>)), h, "held")

\* A receipt for the predicate commitment of a structured document.  No tool
\* writes one; its text may be in the order of the browser or of the CLI.
StructuredReceipt(r, d, h) ==
  \E text \in {Repr(<<d, r>>), HexLe(Repr(<<d, r>>))} :
    Write(r, "structured", d, text, h, "held")

\* `zectime timestamp anchor`, run by the owner or by the stamp route.
Anchor(r) ==
  /\ stage[r] \in {"draft", "held"}
  /\ ~Published(r)
  /\ anchor' = [anchor EXCEPT ![r] = [memo |-> Memo(receipt[r].text), height |-> 0]]
  /\ stage' = [stage EXCEPT ![r] = IF @ = "draft" THEN "anchoring" ELSE @]
  /\ answer' = NoAnswer
  /\ UNCHANGED <<tip, reorgs, receipt, born, proof>>

\* Faulty: the height of the anchor's metadata is kept, or that of the next block.
Confirm_Metadata(r) ==
  /\ stage[r] = "anchoring"
  /\ Mined(r)
  /\ FetchText(r) = receipt[r].text
  /\ stage' = [stage EXCEPT ![r] = "held"]
  /\ answer' = NoAnswer
  /\ UNCHANGED <<tip, reorgs, receipt, born, anchor, proof>>
Confirm_NextBlock(r) ==
  /\ stage[r] = "anchoring"
  /\ Mined(r)
  /\ FetchText(r) = receipt[r].text
  /\ stage' = [stage EXCEPT ![r] = "held"]
  /\ receipt' = [receipt EXCEPT ![r].height = tip + 1]
  /\ answer' = NoAnswer
  /\ UNCHANGED <<tip, reorgs, born, anchor, proof>>

\* anchorTimestampCommitment reads the anchor back and compares it; the browser
\* fills in the height and offers the receipt.
Confirm(r) ==
  /\ stage[r] = "anchoring"
  /\ Mined(r)
  /\ FetchText(r) = receipt[r].text
  /\ stage' = [stage EXCEPT ![r] = "held"]
  /\ receipt' = [receipt EXCEPT ![r].height = anchor[r].height]
  /\ answer' = NoAnswer
  /\ UNCHANGED <<tip, reorgs, born, anchor, proof>>

\* The route fails before or after the anchor was published: the draft, nonce
\* included, is gone.
StampFails(r) ==
  /\ stage[r] \in {"draft", "anchoring"}
  /\ stage' = [stage EXCEPT ![r] = "lost"]
  /\ answer' = NoAnswer
  /\ UNCHANGED <<tip, reorgs, receipt, born, anchor, proof>>

\* `zectime timestamp reveal`: the height is the receipt's.
Reveal(r) ==
  /\ Held(r) /\ receipt[r].maker # "structured"
  /\ proof' = [proof EXCEPT ![r] =
                 [commitment |-> Repr(Opening(r)), height |-> receipt[r].height]]
  /\ answer' = NoAnswer
  /\ UNCHANGED <<tip, reorgs, stage, receipt, born, anchor>>

\* `zectime timestamp predicate-prove`: the witness names any height.
PredicateProve(r, h) ==
  /\ Held(r) /\ receipt[r].maker = "structured"
  /\ proof' = [proof EXCEPT ![r] = [commitment |-> Repr(Opening(r)), height |-> h]]
  /\ answer' = NoAnswer
  /\ UNCHANGED <<tip, reorgs, stage, receipt, born, anchor>>

-----------------------------------------------------------------------------
(* The chain (external) *)

\* A block with any of the transactions that wait.
Mine ==
  /\ tip < MaxHeight
  /\ tip' = tip + 1
  /\ \E included \in SUBSET {r \in Receipts : Published(r) /\ ~Mined(r)} :
       anchor' = [r \in Receipts |-> IF r \in included
                                     THEN [anchor[r] EXCEPT !.height = tip']
                                     ELSE anchor[r]]
  /\ answer' = NoAnswer
  /\ UNCHANGED <<reorgs, stage, receipt, born, proof>>

\* The newest block is reorganized away; its transactions wait again.
Reorg ==
  /\ reorgs < MaxReorgs /\ tip > 1
  /\ tip' = tip - 1 /\ reorgs' = reorgs + 1
  /\ anchor' = [r \in Receipts |-> IF Mined(r) /\ anchor[r].height = tip
                                   THEN [anchor[r] EXCEPT !.height = 0]
                                   ELSE anchor[r]]
  /\ answer' = NoAnswer
  /\ UNCHANGED <<stage, receipt, born, proof>>

-----------------------------------------------------------------------------
(* Checking receipts *)

Answer(by, r, of, value) ==
  /\ answer' = [by |-> by, receipt |-> r, of |-> of, value |-> value]
  /\ UNCHANGED <<tip, reorgs, stage, receipt, born, anchor, proof>>

\* Faulty: only the commitment, or only the height, is compared.
SameAnchor_AnyHeight(r, t) == FetchText(t) = receipt[r].text
SameAnchor_AnyCommitment(r, t) == anchor[t].height = receipt[r].height

SameAnchor(r, t) ==
  FetchText(t) = receipt[r].text /\ anchor[t].height = receipt[r].height

\* POST /api/timestamps/fetch with a receipt: matchesReceipt.
WebFetch(r, t) ==
  /\ Held(r) /\ Published(t)
  /\ Answer("web fetch", r, t,
            IF ~Mined(t) THEN "error" ELSE IF SameAnchor(r, t) THEN "match" ELSE "mismatch")

\* `zectime timestamp fetch --receipt`: an error unless all is the same.
CliFetch(r, t) ==
  /\ Held(r) /\ Published(t)
  /\ Answer("cli fetch", r, t, IF Mined(t) /\ SameAnchor(r, t) THEN "match" ELSE "error")

\* verifyClientTimestampDocument: the file opens the opening, and the opening
\* the commitment.
SameFile(r, d) == d = receipt[r].doc /\ Repr(Opening(r)) = receipt[r].text

WebFile(r, d) ==
  /\ Held(r) /\ receipt[r].maker # "structured"
  /\ Answer("web file", r, d, IF SameFile(r, d) THEN "match" ELSE "mismatch")

\* assert_receipt_matches_open_proof, assert_predicate_receipt_matches.
Binds(r, p) ==
  HexLe(proof[p].commitment) = receipt[r].text /\ proof[p].height = receipt[r].height

\* `zectime timestamp verify --receipt`, on the proof made for p.
CliProof(r, p) ==
  /\ Held(r) /\ proof[p] # NoProof
  /\ receipt[r].maker # "structured" /\ receipt[p].maker # "structured"
  /\ Answer("cli proof", r, p, IF Binds(r, p) THEN "match" ELSE "error")

\* predicatePublicInputsMatchReceipt, on the inputs the CLI printed.
ReportsMatch(r, p) ==
  RawHex(HexLe(proof[p].commitment)) = receipt[r].text /\ proof[p].height = receipt[r].height

\* POST /api/timestamps/predicate/verify with a receipt: the CLI compares
\* first, and its refusal is an error; then the server compares.
PredicateRoute(r, p) ==
  /\ Held(r) /\ proof[p] # NoProof
  /\ receipt[r].maker = "structured" /\ receipt[p].maker = "structured"
  /\ Answer("predicate route", r, p,
            IF ~Binds(r, p) THEN "error" ELSE IF ReportsMatch(r, p) THEN "match" ELSE "mismatch")

-----------------------------------------------------------------------------
Next ==
  \/ \E r \in Receipts, d \in Docs :
       Draft(r, d) \/ WebFile(r, d)
       \/ \E h \in Claims : CliStamp(r, d, h) \/ StructuredReceipt(r, d, h)
  \/ \E r \in Receipts :
       Anchor(r) \/ Confirm(r) \/ StampFails(r) \/ Reveal(r)
       \/ \E h \in Claims : PredicateProve(r, h)
  \/ \E r, s \in Receipts :
       WebFetch(r, s) \/ CliFetch(r, s) \/ CliProof(r, s) \/ PredicateRoute(r, s)
  \/ Mine
  \/ Reorg

Spec == Init /\ [][Next]_vars
-----------------------------------------------------------------------------
(* Properties *)

\* Every variable has its type.
TypeOK ==
  /\ tip \in 1 .. MaxHeight /\ reorgs \in 0 .. MaxReorgs
  /\ stage \in [Receipts -> {"none", "draft", "anchoring", "held", "lost"}]
  /\ \A r \in Receipts :
       /\ receipt[r] \in {NoReceipt} \cup
            [maker : Makers, doc : Docs, text : Bytes, height : Heights]
       /\ anchor[r] \in {NoAnchor} \cup [memo : Bytes, height : 0 .. tip]
       /\ proof[r] \in {NoProof} \cup [commitment : Bytes, height : Heights]
       /\ born[r] \in Heights

Matched(by) == answer # NoAnswer /\ answer.by \in by /\ answer.value = "match"

\* No check by any tool says "match" across two openings: the fetched
\* transaction, the file or the proof belongs to the very receipt it was
\* checked against, whichever tools wrote them and in whichever byte order;
\* and a proof that verifies claims no other height than the receipt.
MatchBinds ==
  /\ Matched({"web fetch", "cli fetch", "cli proof"}) => answer.of = answer.receipt
  /\ Matched({"web file"}) => answer.of = receipt[answer.receipt].doc
  /\ Matched({"cli proof"}) => proof[answer.of].height = receipt[answer.receipt].height

\* A height that verifies against the chain is later than the document's
\* commitment, but for the blocks that were reorganized away: neither a height
\* claimed at stamping time nor one that went stale is ever confirmed.
NoBackdating ==
  Matched({"web fetch", "cli fetch"}) =>
    receipt[answer.receipt].height > born[answer.receipt] - reorgs

\* A receipt that names the block its anchor is in verifies, with both
\* fetchers, whichever tool wrote and anchored it: the text that comes back
\* from the memo is the text that went in.
AnchoredReceiptVerifies ==
  answer # NoAnswer /\ answer.by \in {"web fetch", "cli fetch"} /\ answer.of = answer.receipt
    => LET r == answer.receipt
       IN  Mined(r) /\ anchor[r].height = receipt[r].height => answer.value = "match"

\* Until a block is reorganized away, a receipt the browser offered stands: its
\* anchor is in the block it names, and its own file verifies in the browser.
OfferedReceiptStands ==
  \A r \in Receipts : Held(r) /\ receipt[r].maker = "web" =>
    /\ reorgs = 0 => Mined(r) /\ SameAnchor(r, r)
    /\ SameFile(r, receipt[r].doc)

-----------------------------------------------------------------------------
(* What the documentation says, and the code does not keep *)

\* README.md: "re-hashes the original file locally" to verify a receipt: the
\* file a receipt was made for matches it, whichever tool made the receipt.
OwnFileVerifies ==
  answer # NoAnswer /\ answer.by = "web file" /\ answer.of = receipt[answer.receipt].doc
    => answer.value = "match"

\* docs/ROADMAP.md: "Predicate receipt binding checks commitment and block
\* height": a proof that is bound to the receipt is reported as such.
PredicateBindingReported ==
  answer # NoAnswer /\ answer.by = "predicate route" => answer.value # "mismatch"
=============================================================================
