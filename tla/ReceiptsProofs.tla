-------------------------- MODULE ReceiptsProofs --------------------------
(***************************************************************************)
(* What Receipts says of matches and heights, proved for any set of        *)
(* receipts and documents, and chains of any length.                       *)
(***************************************************************************)
EXTENDS Receipts, TLAPS

ReceiptRecord == [maker : Makers, doc : Docs, text : Bytes, height : Heights]
AnchorRecord  == [memo : Bytes, height : 0 .. MaxHeight]
ProofRecord   == [commitment : Bytes, height : Heights]
Stages        == {"none", "draft", "anchoring", "held", "lost"}

Exists(r) == stage[r] # "none"

Types ==
  /\ tip \in 1 .. MaxHeight /\ reorgs \in 0 .. MaxReorgs
  /\ stage \in [Receipts -> Stages]
  /\ receipt \in [Receipts -> {NoReceipt} \cup ReceiptRecord]
  /\ born \in [Receipts -> Heights]
  /\ anchor \in [Receipts -> {NoAnchor} \cup AnchorRecord]
  /\ proof \in [Receipts -> {NoProof} \cup ProofRecord]

\* A receipt commits to its document under its own nonce; what is published for
\* it is the same bytes backwards, and a proof made for it opens it.
TextOk(r) ==
  /\ Exists(r) => /\ receipt[r] \in ReceiptRecord
                  /\ receipt[r].text.of = Opening(r)
                  /\ receipt[r].maker = "web" => receipt[r].text = Repr(Opening(r))
  /\ ~Exists(r) => receipt[r] = NoReceipt

AnchorOk(r) ==
  Published(r) => /\ Exists(r) /\ anchor[r] \in AnchorRecord
                  /\ anchor[r].memo = Swap(receipt[r].text)

ProofOk(r) ==
  proof[r] # NoProof => Exists(r) /\ proof[r] \in ProofRecord
                        /\ proof[r].commitment = Repr(Opening(r))

\* An anchor is in a block, and that is later than the commitment, but for the
\* blocks that were reorganized away.
HeightOk(r) ==
  /\ anchor[r].height <= tip
  /\ born[r] <= tip + reorgs
  /\ Mined(r) => anchor[r].height > born[r] - reorgs

OfferOk(r) ==
  Held(r) /\ receipt[r].maker = "web" /\ reorgs = 0 =>
    Mined(r) /\ anchor[r].height = receipt[r].height

RInv(r) == TextOk(r) /\ AnchorOk(r) /\ ProofOk(r) /\ HeightOk(r) /\ OfferOk(r)

Inv == Types /\ \A r \in Receipts : RInv(r)

-----------------------------------------------------------------------------
(* Encodings *)

LEMMA SwapFacts ==
  ASSUME NEW b \in Bytes
  PROVE  Swap(b) \in Bytes /\ Swap(b).of = b.of /\ Swap(Swap(b)) = b
<1>1. PICK o \in Docs \X Receipts, v \in BOOLEAN : b = [of |-> o, reversed |-> v]
  BY DEF Bytes
<1>2. ASSUME NEW w PROVE Swap([of |-> o, reversed |-> w]) = [of |-> o, reversed |-> ~w]
  BY DEF Swap
<1>3. [of |-> o, reversed |-> TRUE] \in Bytes /\ [of |-> o, reversed |-> FALSE] \in Bytes
  BY DEF Bytes
<1>4. /\ Swap([of |-> o, reversed |-> TRUE]) = [of |-> o, reversed |-> FALSE]
      /\ Swap([of |-> o, reversed |-> FALSE]) = [of |-> o, reversed |-> TRUE]
  BY <1>2
<1>5. b = [of |-> o, reversed |-> TRUE] \/ b = [of |-> o, reversed |-> FALSE]
  <2>1. CASE v = TRUE
    BY <1>1, <2>1
  <2>2. CASE v = FALSE
    BY <1>1, <2>2
  <2> QED
    BY <2>1, <2>2
<1>6. CASE b = [of |-> o, reversed |-> TRUE]
  <2>1. Swap(b) = [of |-> o, reversed |-> FALSE]
    BY <1>4, <1>6
  <2>2. Swap(Swap(b)) = b
    BY <1>4, <1>6, <2>1
  <2> QED
    BY <1>3, <1>6, <2>1, <2>2
<1>7. CASE b = [of |-> o, reversed |-> FALSE]
  <2>1. Swap(b) = [of |-> o, reversed |-> TRUE]
    BY <1>4, <1>7
  <2>2. Swap(Swap(b)) = b
    BY <1>4, <1>7, <2>1
  <2> QED
    BY <1>3, <1>7, <2>1, <2>2
<1> QED
  BY <1>5, <1>6, <1>7

LEMMA ReprFacts ==
  ASSUME NEW r \in Receipts, NEW d \in Docs
  PROVE  /\ Repr(<<d, r>>) \in Bytes /\ Repr(<<d, r>>).of = <<d, r>>
         /\ HexLe(Repr(<<d, r>>)) \in Bytes /\ HexLe(Repr(<<d, r>>)).of = <<d, r>>
<1>1. Repr(<<d, r>>) \in Bytes /\ Repr(<<d, r>>).of = <<d, r>>
  BY DEF Repr, Bytes
<1> QED
  BY <1>1, SwapFacts DEF HexLe

\* The text that comes back from a memo is the text that went in.
LEMMA TextComesBack ==
  ASSUME Types, NEW r \in Receipts, RInv(r), Published(r)
  PROVE  FetchText(r) = receipt[r].text
<1>1. receipt[r].text \in Bytes /\ anchor[r].memo = Swap(receipt[r].text)
  BY DEF RInv, TextOk, AnchorOk, ReceiptRecord
<1> QED
  BY <1>1, SwapFacts DEF FetchText, HexLe

\* Texts that are the same belong to the same receipt.
LEMMA TextsBind ==
  ASSUME NEW r \in Receipts, NEW t \in Receipts, TextOk(r), TextOk(t), Exists(r), Exists(t),
         receipt[r].text.of = receipt[t].text.of
  PROVE  r = t
BY DEF TextOk, Opening

LEMMA HeldExists == ASSUME NEW r, Held(r) PROVE Exists(r)
  BY DEF Held, Exists

-----------------------------------------------------------------------------
LEMMA InitInv == ReceiptsAssumption /\ Init => Inv
<1> SUFFICES ASSUME ReceiptsAssumption, Init PROVE Inv
  OBVIOUS
<1>1. Types
  BY DEF Init, Types, ReceiptsAssumption, Stages, Heights
<1>2. ASSUME NEW r \in Receipts PROVE RInv(r)
  <2>1. /\ stage[r] = "none" /\ receipt[r] = NoReceipt /\ anchor[r] = NoAnchor
        /\ proof[r] = NoProof /\ born[r] = 0 /\ tip = 1 /\ reorgs = 0
    BY DEF Init
  <2>2. anchor[r].height = 0
    BY <2>1 DEF NoAnchor
  <2> QED
    BY <2>1, <2>2 DEF RInv, TextOk, AnchorOk, ProofOk, HeightOk, OfferOk, Exists, Published,
                      Mined, Held
<1> QED
  BY <1>1, <1>2 DEF Inv

\* A receipt that no step touches stays as it is.
LEMMA Untouched ==
  ASSUME NEW q \in Receipts, RInv(q), UNCHANGED <<tip, reorgs>>,
         stage'[q] = stage[q], receipt'[q] = receipt[q], born'[q] = born[q],
         anchor'[q] = anchor[q], proof'[q] = proof[q]
  PROVE  RInv(q)'
BY DEF RInv, TextOk, AnchorOk, ProofOk, HeightOk, OfferOk, Exists, Published, Mined, Held, Opening

LEMMA WriteKeepsInv ==
  ASSUME ReceiptsAssumption, Inv, NEW r \in Receipts, NEW d \in Docs,
         NEW maker \in Makers, NEW text \in Bytes, text.of = <<d, r>>,
         maker = "web" => text = Repr(<<d, r>>),
         NEW h \in Heights, NEW s \in {"draft", "held"}, maker = "web" => s = "draft",
         Write(r, maker, d, text, h, s)
  PROVE  Inv'
<1> DEFINE new == [maker |-> maker, doc |-> d, text |-> text, height |-> h]
<1>1. /\ stage[r] = "none" /\ stage' = [stage EXCEPT ![r] = s]
      /\ receipt' = [receipt EXCEPT ![r] = new]
      /\ born' = [born EXCEPT ![r] = tip]
      /\ UNCHANGED <<tip, reorgs, anchor, proof>>
  BY DEF Write
<1>2. new \in ReceiptRecord /\ tip \in Heights
  BY DEF ReceiptRecord, Inv, Types, Heights, ReceiptsAssumption
<1>3. Types'
  BY <1>1, <1>2 DEF Inv, Types, Stages
<1>4. ASSUME NEW q \in Receipts, q # r PROVE RInv(q)'
  <2>1. stage'[q] = stage[q] /\ receipt'[q] = receipt[q] /\ born'[q] = born[q]
        /\ anchor'[q] = anchor[q] /\ proof'[q] = proof[q]
    BY <1>1, <1>4 DEF Inv, Types
  <2> QED
    BY <1>1, <2>1, Untouched DEF Inv
<1>5. RInv(r)'
  <2>1. stage'[r] = s /\ receipt'[r] = new /\ born'[r] = tip
    BY <1>1 DEF Inv, Types
  <2>2. ~Published(r) /\ proof[r] = NoProof
    BY <1>1 DEF Inv, RInv, AnchorOk, ProofOk, Exists
  <2>3. anchor'[r] = NoAnchor /\ proof'[r] = NoProof /\ anchor'[r].height = 0
    BY <1>1, <2>2 DEF Published, NoAnchor
  <2>4. TextOk(r)'
    BY <1>2, <2>1 DEF TextOk, Exists, Opening
  <2>5. HeightOk(r)'
    BY <1>1, <2>1, <2>3 DEF Inv, Types, HeightOk, Mined
  <2>6. OfferOk(r)' /\ AnchorOk(r)' /\ ProofOk(r)'
    BY <2>1, <2>3 DEF OfferOk, Held, AnchorOk, Published, ProofOk
  <2> QED
    BY <2>4, <2>5, <2>6 DEF RInv
<1> QED
  BY <1>3, <1>4, <1>5 DEF Inv

\* The steps that concern one receipt and leave chain and anchors' heights alone.
LEMMA StepOfOneKeepsInv ==
  ASSUME Inv, NEW r \in Receipts, Types', RInv(r)', UNCHANGED <<tip, reorgs>>,
         \A q \in Receipts \ {r} :
           /\ stage'[q] = stage[q] /\ receipt'[q] = receipt[q] /\ born'[q] = born[q]
           /\ anchor'[q] = anchor[q] /\ proof'[q] = proof[q]
  PROVE  Inv'
<1>1. ASSUME NEW q \in Receipts \ {r} PROVE RInv(q)'
  BY Untouched DEF Inv
<1> QED
  BY <1>1 DEF Inv

LEMMA AnchorKeepsInv == ASSUME Inv, NEW r \in Receipts, Anchor(r) PROVE Inv'
<1> DEFINE memo == Memo(receipt[r].text)
<1>1. /\ stage[r] \in {"draft", "held"} /\ ~Published(r)
      /\ anchor' = [anchor EXCEPT ![r] = [memo |-> memo, height |-> 0]]
      /\ stage' = [stage EXCEPT ![r] = IF @ = "draft" THEN "anchoring" ELSE @]
      /\ UNCHANGED <<tip, reorgs, receipt, born, proof>>
  BY DEF Anchor
<1>2. Exists(r) /\ receipt[r] \in ReceiptRecord /\ memo = Swap(receipt[r].text) /\ memo \in Bytes
  <2>1. Exists(r) /\ receipt[r] \in ReceiptRecord
    BY <1>1 DEF Inv, RInv, TextOk, Exists
  <2>2. receipt[r].text \in Bytes
    BY <2>1 DEF ReceiptRecord
  <2> QED
    BY <2>1, <2>2, SwapFacts DEF Memo, ParseCommitment
<1> HIDE DEF memo
<1>3. [memo |-> memo, height |-> 0] \in AnchorRecord
  BY <1>2, ReceiptsAssumption DEF AnchorRecord
<1>4. Types'
  BY <1>1, <1>3 DEF Inv, Types, Stages
<1>5. /\ anchor'[r] = [memo |-> memo, height |-> 0] /\ receipt'[r] = receipt[r]
      /\ stage'[r] \in Stages \ {"none"} /\ (stage'[r] = "held" => stage[r] = "held")
      /\ born'[r] = born[r] /\ proof'[r] = proof[r]
  BY <1>1 DEF Inv, Types, Stages
<1>6. RInv(r)'
  <2>1. TextOk(r)' /\ AnchorOk(r)' /\ ProofOk(r)'
    BY <1>2, <1>3, <1>5 DEF Inv, RInv, TextOk, AnchorOk, ProofOk, Exists, Opening
  <2>2. HeightOk(r)'
    BY <1>1, <1>5 DEF Inv, Types, RInv, HeightOk, Mined
  <2>3. OfferOk(r)'
    <3>1. ~Mined(r)
      BY <1>1 DEF Mined, Published, NoAnchor
    <3> QED
      BY <1>1, <1>5, <3>1 DEF Inv, RInv, OfferOk, Held
  <2> QED
    BY <2>1, <2>2, <2>3 DEF RInv
<1>7. \A q \in Receipts \ {r} :
        /\ stage'[q] = stage[q] /\ receipt'[q] = receipt[q] /\ born'[q] = born[q]
        /\ anchor'[q] = anchor[q] /\ proof'[q] = proof[q]
  BY <1>1 DEF Inv, Types
<1> QED
  BY <1>1, <1>4, <1>6, <1>7, StepOfOneKeepsInv

LEMMA ConfirmKeepsInv == ASSUME ReceiptsAssumption, Inv, NEW r \in Receipts, Confirm(r) PROVE Inv'
<1>1. /\ stage[r] = "anchoring" /\ Mined(r)
      /\ stage' = [stage EXCEPT ![r] = "held"]
      /\ receipt' = [receipt EXCEPT ![r].height = anchor[r].height]
      /\ UNCHANGED <<tip, reorgs, born, anchor, proof>>
  BY DEF Confirm
<1>2. receipt[r] \in ReceiptRecord /\ Exists(r)
  BY <1>1 DEF Inv, RInv, TextOk, Exists
<1>3. anchor[r].height \in Heights
  BY DEF Inv, Types, AnchorRecord, NoAnchor, Heights, ReceiptsAssumption
<1> DEFINE new == [maker |-> receipt[r].maker, doc |-> receipt[r].doc,
                   text |-> receipt[r].text, height |-> anchor[r].height]
<1>4. receipt' = [receipt EXCEPT ![r] = new]
  <2>1. [receipt[r] EXCEPT !.height = anchor[r].height] = new
    BY <1>2 DEF ReceiptRecord
  <2> QED
    BY <1>1, <2>1 DEF Inv, Types
<1>5. new \in ReceiptRecord
  BY <1>2, <1>3 DEF ReceiptRecord
<1>6. Types'
  BY <1>1, <1>4, <1>5 DEF Inv, Types, Stages
<1>7. receipt'[r] = new /\ stage'[r] = "held" /\ anchor'[r] = anchor[r] /\ born'[r] = born[r]
      /\ proof'[r] = proof[r]
  BY <1>1, <1>4 DEF Inv, Types
<1>8. RInv(r)'
  <2>1. TextOk(r)' /\ AnchorOk(r)' /\ ProofOk(r)'
    BY <1>2, <1>5, <1>7 DEF Inv, RInv, TextOk, AnchorOk, ProofOk, Exists, Opening, Published
  <2>2. HeightOk(r)' /\ OfferOk(r)'
    BY <1>1, <1>7 DEF Inv, RInv, HeightOk, OfferOk, Mined
  <2> QED
    BY <2>1, <2>2 DEF RInv
<1>9. \A q \in Receipts \ {r} :
        /\ stage'[q] = stage[q] /\ receipt'[q] = receipt[q] /\ born'[q] = born[q]
        /\ anchor'[q] = anchor[q] /\ proof'[q] = proof[q]
  BY <1>1, <1>4 DEF Inv, Types
<1> QED
  BY <1>1, <1>6, <1>8, <1>9, StepOfOneKeepsInv

LEMMA StampFailsKeepsInv == ASSUME Inv, NEW r \in Receipts, StampFails(r) PROVE Inv'
<1>1. /\ stage[r] \in {"draft", "anchoring"} /\ stage' = [stage EXCEPT ![r] = "lost"]
      /\ UNCHANGED <<tip, reorgs, receipt, born, anchor, proof>>
  BY DEF StampFails
<1>2. Types'
  BY <1>1 DEF Inv, Types, Stages
<1>3. RInv(r)'
  BY <1>1 DEF Inv, Types, RInv, TextOk, AnchorOk, ProofOk, HeightOk, OfferOk, Exists, Held,
              Published, Mined, Opening
<1>4. \A q \in Receipts \ {r} : stage'[q] = stage[q]
  BY <1>1 DEF Inv, Types
<1> QED
  BY <1>1, <1>2, <1>3, <1>4, StepOfOneKeepsInv

LEMMA ProveKeepsInv ==
  ASSUME Inv, NEW r \in Receipts, NEW h \in Heights, Held(r),
         proof' = [proof EXCEPT ![r] = [commitment |-> Repr(Opening(r)), height |-> h]],
         UNCHANGED <<tip, reorgs, stage, receipt, born, anchor>>
  PROVE  Inv'
<1>1. Exists(r) /\ receipt[r] \in ReceiptRecord
  BY HeldExists DEF Inv, RInv, TextOk
<1>2. Repr(Opening(r)) \in Bytes
  BY <1>1, ReprFacts DEF ReceiptRecord, Opening
<1>3. [commitment |-> Repr(Opening(r)), height |-> h] \in ProofRecord
  BY <1>2 DEF ProofRecord
<1>4. Types'
  BY <1>3 DEF Inv, Types
<1>5. RInv(r)'
  <2>1. ProofOk(r)'
    BY <1>1, <1>3 DEF Inv, Types, ProofOk, Exists, Opening
  <2> QED
    BY <2>1 DEF Inv, RInv, TextOk, AnchorOk, HeightOk, OfferOk, Exists, Held, Published, Mined,
                Opening
<1>6. \A q \in Receipts \ {r} : proof'[q] = proof[q]
  BY DEF Inv, Types
<1> QED
  BY <1>4, <1>5, <1>6, StepOfOneKeepsInv

\* The chain moves: the heights of anchors follow it, and nothing else changes.
LEMMA MineKeepsInv == ASSUME ReceiptsAssumption, Inv, Mine PROVE Inv'
<1>1. tip < MaxHeight /\ tip' = tip + 1 /\ UNCHANGED <<reorgs, stage, receipt, born, proof>>
  BY DEF Mine
<1>2. PICK included \in SUBSET {r \in Receipts : Published(r) /\ ~Mined(r)} :
        anchor' = [r \in Receipts |-> IF r \in included
                                      THEN [anchor[r] EXCEPT !.height = tip']
                                      ELSE anchor[r]]
  BY DEF Mine
<1>3. tip' \in 1 .. MaxHeight
  BY <1>1 DEF Inv, Types, ReceiptsAssumption
<1>4. ASSUME NEW r \in Receipts, r \in included
      PROVE  /\ anchor[r] \in AnchorRecord /\ Published(r) /\ ~Mined(r)
             /\ anchor'[r] = [memo |-> anchor[r].memo, height |-> tip']
             /\ anchor'[r] \in AnchorRecord
  <2>1. Published(r) /\ ~Mined(r)
    BY <1>4
  <2>2. anchor[r] \in AnchorRecord
    BY <2>1 DEF Inv, RInv, AnchorOk
  <2>3. [anchor[r] EXCEPT !.height = tip'] = [memo |-> anchor[r].memo, height |-> tip']
    BY <2>2 DEF AnchorRecord
  <2>4. [memo |-> anchor[r].memo, height |-> tip'] \in AnchorRecord
    BY <1>3, <2>2 DEF AnchorRecord
  <2> QED
    BY <1>2, <1>4, <2>1, <2>2, <2>3, <2>4
<1>5. ASSUME NEW r \in Receipts, r \notin included PROVE anchor'[r] = anchor[r]
  BY <1>2, <1>5
<1>6. Types'
  <2>1. \A r \in Receipts : anchor'[r] \in {NoAnchor} \cup AnchorRecord
    BY <1>4, <1>5 DEF Inv, Types
  <2>2. anchor' \in [Receipts -> {NoAnchor} \cup AnchorRecord]
    BY <1>2, <2>1
  <2> QED
    BY <1>1, <1>3, <2>2 DEF Inv, Types
<1>7. ASSUME NEW r \in Receipts PROVE RInv(r)'
  <2>1. TextOk(r)' /\ ProofOk(r)'
    BY <1>1 DEF Inv, RInv, TextOk, ProofOk, Exists, Opening
  <2>2. CASE r \in included
    <3>0. /\ Published(r) /\ anchor'[r] \in AnchorRecord
          /\ anchor'[r].memo = anchor[r].memo /\ anchor'[r].height = tip'
      <4>1. Published(r) /\ anchor'[r] \in AnchorRecord
            /\ anchor'[r] = [memo |-> anchor[r].memo, height |-> tip']
        BY <1>4, <2>2, Zenon
      <4> QED
        BY <4>1
    <3>1. AnchorOk(r)'
      BY <1>1, <3>0 DEF Inv, RInv, AnchorOk, Exists
    <3>2. HeightOk(r)'
      <4>1. born[r] \in Int /\ tip \in Int /\ reorgs \in Int /\ born[r] <= tip + reorgs
        BY DEF Inv, Types, RInv, HeightOk, Heights
      <4> QED
        BY <1>1, <3>0, <4>1 DEF HeightOk
    <3>3. OfferOk(r)'
      BY <1>1, <1>4, <2>2 DEF Inv, RInv, OfferOk, Held, Mined
    <3> QED
      BY <2>1, <3>1, <3>2, <3>3 DEF RInv
  <2>3. CASE r \notin included
    <3>1. AnchorOk(r)' /\ OfferOk(r)'
      BY <1>1, <1>5, <2>3 DEF Inv, RInv, AnchorOk, OfferOk, Published, Exists, Held, Mined
    <3>2. HeightOk(r)'
      <4>1. anchor[r].height \in Int /\ born[r] \in Int /\ tip \in Int /\ reorgs \in Int
        BY DEF Inv, Types, AnchorRecord, NoAnchor, Heights
      <4> QED
        BY <1>1, <1>5, <2>3, <4>1 DEF Inv, RInv, HeightOk, Mined
    <3> QED
      BY <2>1, <3>1, <3>2 DEF RInv
  <2> QED
    BY <2>2, <2>3
<1> QED
  BY <1>6, <1>7 DEF Inv

LEMMA ReorgKeepsInv == ASSUME ReceiptsAssumption, Inv, Reorg PROVE Inv'
<1>1. /\ reorgs < MaxReorgs /\ tip > 1 /\ tip' = tip - 1 /\ reorgs' = reorgs + 1
      /\ UNCHANGED <<stage, receipt, born, proof>>
      /\ anchor' = [r \in Receipts |-> IF Mined(r) /\ anchor[r].height = tip
                                       THEN [anchor[r] EXCEPT !.height = 0]
                                       ELSE anchor[r]]
  BY DEF Reorg
<1>2. tip' \in 1 .. MaxHeight /\ reorgs' \in 0 .. MaxReorgs /\ reorgs' # 0
  BY <1>1 DEF Inv, Types, ReceiptsAssumption
<1>3. ASSUME NEW r \in Receipts, Mined(r), anchor[r].height = tip
      PROVE  /\ anchor[r] \in AnchorRecord /\ Published(r)
             /\ anchor'[r] = [memo |-> anchor[r].memo, height |-> 0]
             /\ anchor'[r] \in AnchorRecord
  <2>1. Published(r)
    BY <1>3 DEF Mined, Published, NoAnchor
  <2>2. anchor[r] \in AnchorRecord
    BY <2>1 DEF Inv, RInv, AnchorOk
  <2>3. [anchor[r] EXCEPT !.height = 0] = [memo |-> anchor[r].memo, height |-> 0]
    BY <2>2 DEF AnchorRecord
  <2>4. [memo |-> anchor[r].memo, height |-> 0] \in AnchorRecord
    BY <2>2 DEF AnchorRecord, ReceiptsAssumption
  <2> QED
    BY <1>1, <1>3, <2>1, <2>2, <2>3, <2>4
<1>4. ASSUME NEW r \in Receipts, ~(Mined(r) /\ anchor[r].height = tip)
      PROVE  anchor'[r] = anchor[r]
  BY <1>1, <1>4
<1>5. Types'
  <2>1. \A r \in Receipts : anchor'[r] \in {NoAnchor} \cup AnchorRecord
    BY <1>3, <1>4 DEF Inv, Types
  <2>2. anchor' \in [Receipts -> {NoAnchor} \cup AnchorRecord]
    BY <1>1, <2>1
  <2> QED
    BY <1>1, <1>2, <2>2 DEF Inv, Types
<1>6. ASSUME NEW r \in Receipts PROVE RInv(r)'
  <2>1. TextOk(r)' /\ ProofOk(r)' /\ OfferOk(r)'
    BY <1>1, <1>2 DEF Inv, RInv, TextOk, ProofOk, OfferOk, Exists, Opening
  <2>2. AnchorOk(r)'
    <3>1. CASE Mined(r) /\ anchor[r].height = tip
      <4>1. Published(r) /\ anchor'[r] \in AnchorRecord
            /\ anchor'[r] = [memo |-> anchor[r].memo, height |-> 0]
        BY <1>3, <3>1, Zenon
      <4>2. anchor'[r].memo = anchor[r].memo
        BY <4>1
      <4> QED
        BY <1>1, <4>1, <4>2 DEF Inv, RInv, AnchorOk, Exists
    <3>2. CASE ~(Mined(r) /\ anchor[r].height = tip)
      BY <1>1, <1>4, <3>2 DEF Inv, RInv, AnchorOk, Published, Exists
    <3> QED
      BY <3>1, <3>2
  <2>3. HeightOk(r)'
    <3>1. anchor[r].height \in Int /\ born[r] \in Int /\ tip \in Int /\ reorgs \in Int
      BY DEF Inv, Types, AnchorRecord, NoAnchor, Heights
    <3>2. CASE Mined(r) /\ anchor[r].height = tip
      <4>1. anchor'[r] = [memo |-> anchor[r].memo, height |-> 0]
        BY <1>3, <3>2
      <4>2. anchor'[r].height = 0
        BY <4>1
      <4> QED
        BY <1>1, <3>1, <4>2 DEF Inv, RInv, HeightOk, Mined
    <3>3. CASE ~(Mined(r) /\ anchor[r].height = tip)
      BY <1>1, <1>4, <3>1, <3>3 DEF Inv, RInv, HeightOk, Mined
    <3> QED
      BY <3>2, <3>3
  <2> QED
    BY <2>1, <2>2, <2>3 DEF RInv
<1> QED
  BY <1>5, <1>6 DEF Inv

\* No check changes what it looks at.
LEMMA CheckKeepsInv ==
  ASSUME Inv, UNCHANGED <<tip, reorgs, stage, receipt, born, anchor, proof>>
  PROVE  Inv'
<1>1. Types'
  BY DEF Inv, Types
<1>2. ASSUME NEW r \in Receipts PROVE RInv(r)'
  BY Untouched DEF Inv
<1> QED
  BY <1>1, <1>2 DEF Inv

Checks(r, s) ==
  \/ WebFetch(r, s) \/ CliFetch(r, s) \/ CliProof(r, s) \/ PredicateRoute(r, s)

LEMMA StepKeepsInv == ReceiptsAssumption /\ Inv /\ [Next]_vars => Inv'
<1> SUFFICES ASSUME ReceiptsAssumption, Inv, [Next]_vars PROVE Inv'
  OBVIOUS
<1>0. Claims \subseteq Heights /\ 0 \in Heights
  BY DEF ReceiptsAssumption, Heights
<1>1. CASE UNCHANGED vars
  BY <1>1, CheckKeepsInv DEF vars
<1>2. ASSUME NEW r \in Receipts, NEW d \in Docs, Draft(r, d) PROVE Inv'
  BY <1>0, <1>2, ReprFacts, WriteKeepsInv DEF Draft, Makers
<1>3. ASSUME NEW r \in Receipts, NEW d \in Docs, NEW h \in Claims, CliStamp(r, d, h) PROVE Inv'
  BY <1>0, <1>3, ReprFacts, WriteKeepsInv DEF CliStamp, Makers
<1>4. ASSUME NEW r \in Receipts, NEW d \in Docs, NEW h \in Claims, StructuredReceipt(r, d, h)
      PROVE  Inv'
  BY <1>0, <1>4, ReprFacts, WriteKeepsInv DEF StructuredReceipt, Makers
<1>5. ASSUME NEW r \in Receipts, Reveal(r) PROVE Inv'
  <2>1. Held(r) /\ receipt[r].height \in Heights
    BY <1>5, HeldExists DEF Reveal, Inv, RInv, TextOk, ReceiptRecord
  <2> QED
    BY <1>5, <2>1, ProveKeepsInv DEF Reveal
<1>6. ASSUME NEW r \in Receipts, NEW h \in Claims, PredicateProve(r, h) PROVE Inv'
  BY <1>0, <1>6, ProveKeepsInv DEF PredicateProve
<1>7. ASSUME NEW r \in Receipts, NEW d \in Docs, WebFile(r, d) PROVE Inv'
  BY <1>7, CheckKeepsInv DEF WebFile, Answer
<1>8. ASSUME NEW r \in Receipts, NEW s \in Receipts, Checks(r, s) PROVE Inv'
  BY <1>8, CheckKeepsInv DEF Checks, WebFetch, CliFetch, CliProof, PredicateRoute, Answer
<1> QED
  BY <1>1, <1>2, <1>3, <1>4, <1>5, <1>6, <1>7, <1>8, AnchorKeepsInv, ConfirmKeepsInv,
     StampFailsKeepsInv, MineKeepsInv, ReorgKeepsInv DEF Next, Checks

LEMMA InductiveInvariant == Spec => []Inv
<1> QED
  BY ReceiptsAssumption, InitInv, StepKeepsInv, PTL DEF Spec

-----------------------------------------------------------------------------
\* Every variable keeps its type.
THEOREM TypeCorrect == Spec => []TypeOK
<1>1. Inv => TypeOK
  <2> SUFFICES ASSUME Inv, NEW r \in Receipts
               PROVE  /\ receipt[r] \in {NoReceipt} \cup ReceiptRecord
                      /\ anchor[r] \in {NoAnchor} \cup [memo : Bytes, height : 0 .. tip]
                      /\ proof[r] \in {NoProof} \cup ProofRecord
                      /\ born[r] \in Heights
    BY DEF Inv, Types, TypeOK, Stages, ReceiptRecord, ProofRecord
  <2>1. CASE anchor[r] = NoAnchor
    BY <2>1 DEF Inv, Types
  <2>2. CASE anchor[r] # NoAnchor
    <3>1. anchor[r] \in AnchorRecord /\ anchor[r].height <= tip /\ tip \in Int
      BY <2>2 DEF Inv, Types, RInv, HeightOk
    <3>2. anchor[r] \in [memo : Bytes, height : 0 .. tip]
      BY <3>1 DEF AnchorRecord
    <3> QED
      BY <3>2 DEF Inv, Types
  <2> QED
    BY <2>1, <2>2
<1> QED
  BY <1>1, InductiveInvariant, PTL

\* Until a block is reorganized away, a receipt the browser offered stands.
THEOREM OffersStand == Spec => []OfferedReceiptStands
<1>1. Inv => OfferedReceiptStands
  <2> SUFFICES ASSUME Inv, NEW r \in Receipts, Held(r), receipt[r].maker = "web"
               PROVE  /\ reorgs = 0 => Mined(r) /\ SameAnchor(r, r)
                      /\ SameFile(r, receipt[r].doc)
    BY DEF OfferedReceiptStands
  <2>1. SameFile(r, receipt[r].doc)
    BY HeldExists DEF Inv, RInv, TextOk, SameFile
  <2>2. ASSUME reorgs = 0 PROVE Mined(r) /\ SameAnchor(r, r)
    <3>1. Mined(r) /\ anchor[r].height = receipt[r].height
      BY <2>2 DEF Inv, RInv, OfferOk
    <3>2. Published(r)
      BY <3>1 DEF Mined, Published, NoAnchor
    <3> QED
      BY <3>1, <3>2, TextComesBack DEF Inv, SameAnchor
  <2> QED
    BY <2>1, <2>2
<1> QED
  BY <1>1, InductiveInvariant, PTL

-----------------------------------------------------------------------------
(* What an answer says is so when it is given; the next step forgets it *)

Fetched(a) ==
  /\ a.by \in {"web fetch", "cli fetch"} /\ a.receipt \in Receipts /\ a.of \in Receipts
  /\ Held(a.receipt) /\ Published(a.of)
  /\ a.value = "match" => Mined(a.of) /\ SameAnchor(a.receipt, a.of)
  /\ Mined(a.of) /\ SameAnchor(a.receipt, a.of) => a.value = "match"

Opened(a) ==
  /\ a.by = "web file" /\ a.receipt \in Receipts
  /\ a.value = "match" => SameFile(a.receipt, a.of)

Proved(a) ==
  /\ a.by = "cli proof" /\ a.receipt \in Receipts /\ a.of \in Receipts
  /\ Held(a.receipt) /\ proof[a.of] # NoProof
  /\ a.value = "match" => Binds(a.receipt, a.of)

AnswerInv ==
  answer = NoAnswer \/ Fetched(answer) \/ Opened(answer) \/ Proved(answer)
  \/ answer.by = "predicate route"

LEMMA AnswerStays ==
  ASSUME AnswerInv, UNCHANGED vars
  PROVE  AnswerInv'
BY DEF AnswerInv, vars, Fetched, Opened, Proved, Held, Published, Mined, SameAnchor, FetchText,
       SameFile, Opening, Binds

LEMMA StepKeepsAnswer == AnswerInv /\ [Next]_vars => AnswerInv'
<1> SUFFICES ASSUME AnswerInv, [Next]_vars PROVE AnswerInv'
  OBVIOUS
<1> DEFINE Rest == UNCHANGED <<tip, reorgs, stage, receipt, born, anchor, proof>>
<1>1. ASSUME NEW r \in Receipts, NEW t \in Receipts, WebFetch(r, t) \/ CliFetch(r, t)
      PROVE  AnswerInv'
  <2> DEFINE Said(by, v) == answer' = [by |-> by, receipt |-> r, of |-> t, value |-> v]
  <2> DEFINE Told ==
        /\ answer'.by \in {"web fetch", "cli fetch"} /\ answer'.receipt = r /\ answer'.of = t
        /\ answer'.value = "match" => Mined(t) /\ SameAnchor(r, t)
        /\ Mined(t) /\ SameAnchor(r, t) => answer'.value = "match"
  <2>a. Held(r) /\ Published(t) /\ Rest
    BY <1>1 DEF WebFetch, CliFetch, Answer
  <2>b. ASSUME NEW by \in {"web fetch", "cli fetch"}, NEW v, Said(by, v),
               v = "match" <=> Mined(t) /\ SameAnchor(r, t)
        PROVE  Told
    <3>1. answer'.by = by /\ answer'.receipt = r /\ answer'.of = t /\ answer'.value = v
      BY <2>b
    <3> QED
      BY <3>1, <2>b
  <2>c. ASSUME WebFetch(r, t) PROVE Told
    <3> DEFINE v == IF ~Mined(t) THEN "error" ELSE IF SameAnchor(r, t) THEN "match" ELSE "mismatch"
    <3>1. Said("web fetch", v)
      BY <2>c DEF WebFetch, Answer
    <3>2. v = "match" <=> Mined(t) /\ SameAnchor(r, t)
      OBVIOUS
    <3> HIDE DEF v, Told, Said
    <3> QED
      BY <3>1, <3>2, <2>b
  <2>d. ASSUME CliFetch(r, t) PROVE Told
    <3> DEFINE v == IF Mined(t) /\ SameAnchor(r, t) THEN "match" ELSE "error"
    <3>1. Said("cli fetch", v)
      BY <2>d DEF CliFetch, Answer
    <3>2. v = "match" <=> Mined(t) /\ SameAnchor(r, t)
      OBVIOUS
    <3> HIDE DEF v, Told, Said
    <3> QED
      BY <3>1, <3>2, <2>b
  <2>1. Told /\ Held(r) /\ Published(t) /\ Rest
    BY <1>1, <2>a, <2>c, <2>d
  <2>2. Fetched(answer)'
    BY <2>1 DEF Fetched, Held, Published, Mined, SameAnchor, FetchText
  <2> QED
    BY <2>2 DEF AnswerInv
<1>2. ASSUME NEW r \in Receipts, NEW d \in Docs, WebFile(r, d) PROVE AnswerInv'
  <2>1. /\ answer'.by = "web file" /\ answer'.receipt = r /\ answer'.of = d
        /\ answer'.value = "match" => SameFile(r, d)
        /\ Rest
    BY <1>2 DEF WebFile, Answer
  <2>2. Opened(answer)'
    BY <2>1 DEF Opened, SameFile, Opening
  <2> QED
    BY <2>2 DEF AnswerInv
<1>3. ASSUME NEW r \in Receipts, NEW p \in Receipts, CliProof(r, p) PROVE AnswerInv'
  <2>1. /\ answer'.by = "cli proof" /\ answer'.receipt = r /\ answer'.of = p
        /\ answer'.value = "match" => Binds(r, p)
        /\ Held(r) /\ proof[p] # NoProof /\ Rest
    BY <1>3 DEF CliProof, Answer
  <2>2. Proved(answer)'
    BY <2>1 DEF Proved, Held, Binds
  <2> QED
    BY <2>2 DEF AnswerInv
<1>4. ASSUME NEW r \in Receipts, NEW p \in Receipts, PredicateRoute(r, p) PROVE AnswerInv'
  BY <1>4 DEF PredicateRoute, Answer, AnswerInv
<1>5. ASSUME answer' = NoAnswer PROVE AnswerInv'
  BY <1>5 DEF AnswerInv
<1>6. CASE UNCHANGED vars
  BY <1>6, AnswerStays
<1>7. ASSUME NEW r \in Receipts,
             \/ \E d \in Docs : Draft(r, d)
             \/ \E d \in Docs, h \in Claims : CliStamp(r, d, h) \/ StructuredReceipt(r, d, h)
             \/ Anchor(r) \/ Confirm(r) \/ StampFails(r) \/ Reveal(r)
             \/ \E h \in Claims : PredicateProve(r, h)
      PROVE  answer' = NoAnswer
  BY <1>7 DEF Draft, CliStamp, StructuredReceipt, Write, Anchor, Confirm, StampFails, Reveal,
              PredicateProve
<1>8. CASE Mine \/ Reorg
  BY <1>8, <1>5 DEF Mine, Reorg
<1> QED
  BY <1>1, <1>2, <1>3, <1>4, <1>5, <1>6, <1>7, <1>8 DEF Next

LEMMA AnswersAreSo == Spec => []AnswerInv
<1>1. Init => AnswerInv
  BY DEF Init, AnswerInv
<1> QED
  BY <1>1, StepKeepsAnswer, PTL DEF Spec

LEMMA FetchMatch ==
  ASSUME AnswerInv, Matched({"web fetch", "cli fetch"})
  PROVE  Fetched(answer) /\ Mined(answer.of) /\ SameAnchor(answer.receipt, answer.of)
<1>1. answer # NoAnswer /\ answer.by \in {"web fetch", "cli fetch"} /\ answer.value = "match"
  BY DEF Matched
<1>2. Fetched(answer)
  BY <1>1 DEF AnswerInv, Opened, Proved
<1> QED
  BY <1>1, <1>2 DEF Fetched

LEMMA FileMatch ==
  ASSUME AnswerInv, Matched({"web file"})
  PROVE  SameFile(answer.receipt, answer.of)
<1>1. answer # NoAnswer /\ answer.by = "web file" /\ answer.value = "match"
  BY DEF Matched
<1>2. Opened(answer)
  BY <1>1 DEF AnswerInv, Fetched, Proved
<1> QED
  BY <1>1, <1>2 DEF Opened

LEMMA ProofMatch ==
  ASSUME AnswerInv, Matched({"cli proof"})
  PROVE  Proved(answer) /\ Binds(answer.receipt, answer.of)
<1>1. answer # NoAnswer /\ answer.by = "cli proof" /\ answer.value = "match"
  BY DEF Matched
<1>2. Proved(answer)
  BY <1>1 DEF AnswerInv, Fetched, Opened
<1> QED
  BY <1>1, <1>2 DEF Proved

\* A transaction that matches a receipt is its own anchor.
LEMMA AnchorsBind ==
  ASSUME Inv, NEW r \in Receipts, NEW t \in Receipts, Held(r), Published(t), SameAnchor(r, t)
  PROVE  r = t
<1>1. FetchText(t) = receipt[t].text /\ Exists(t)
  BY TextComesBack DEF Inv, RInv, AnchorOk
<1>2. receipt[r].text.of = receipt[t].text.of
  BY <1>1 DEF SameAnchor
<1> QED
  BY <1>1, <1>2, HeldExists, TextsBind DEF Inv, RInv

\* No check by any tool says "match" across two openings, and a proof that
\* verifies claims no other height than the receipt.
THEOREM MatchesBind == Spec => []MatchBinds
<1>1. Inv /\ AnswerInv => MatchBinds
  <2> SUFFICES ASSUME Inv, AnswerInv PROVE MatchBinds
    OBVIOUS
  <2>1. ASSUME Matched({"web fetch", "cli fetch"}) PROVE answer.of = answer.receipt
    <3>1. Fetched(answer) /\ SameAnchor(answer.receipt, answer.of)
      BY <2>1, FetchMatch
    <3> QED
      BY <3>1, AnchorsBind DEF Fetched
  <2>2. ASSUME Matched({"web file"}) PROVE answer.of = receipt[answer.receipt].doc
    BY <2>2, FileMatch DEF SameFile
  <2>3. ASSUME Matched({"cli proof"})
        PROVE  /\ answer.of = answer.receipt
               /\ proof[answer.of].height = receipt[answer.receipt].height
    <3>1. Proved(answer) /\ Binds(answer.receipt, answer.of)
      BY <2>3, ProofMatch
    <3> DEFINE r == answer.receipt
               p == answer.of
    <3>2. r \in Receipts /\ p \in Receipts /\ Exists(r) /\ Exists(p)
          /\ proof[p].commitment = Repr(Opening(p)) /\ receipt[p] \in ReceiptRecord
      BY <3>1, HeldExists DEF Proved, Inv, RInv, ProofOk, TextOk
    <3>3. HexLe(Repr(Opening(p))) = receipt[r].text
      BY <3>1, <3>2 DEF Binds
    <3>4. receipt[r].text.of = Opening(p) /\ receipt[p].text.of = Opening(p)
      BY <3>2, <3>3, ReprFacts DEF Opening, ReceiptRecord, Inv, RInv, TextOk
    <3>5. r = p
      BY <3>2, <3>4, TextsBind DEF Inv, RInv
    <3> QED
      BY <3>1, <3>5 DEF Binds
  <2>4. Matched({"web fetch", "cli fetch", "cli proof"}) =>
          Matched({"web fetch", "cli fetch"}) \/ Matched({"cli proof"})
    BY DEF Matched
  <2> QED
    BY <2>1, <2>2, <2>3, <2>4 DEF MatchBinds
<1> QED
  BY <1>1, InductiveInvariant, AnswersAreSo, PTL

\* A height that verifies against the chain is later than the commitment, but
\* for the blocks that were reorganized away.
THEOREM HeightsAreNotBackdated == Spec => []NoBackdating
<1>1. Inv /\ AnswerInv => NoBackdating
  <2> SUFFICES ASSUME Inv, AnswerInv, Matched({"web fetch", "cli fetch"})
               PROVE  receipt[answer.receipt].height > born[answer.receipt] - reorgs
    BY DEF NoBackdating
  <2> DEFINE r == answer.receipt
  <2>1. /\ r \in Receipts /\ answer.of \in Receipts /\ Held(r) /\ Published(answer.of)
        /\ Mined(answer.of) /\ SameAnchor(r, answer.of)
    BY FetchMatch DEF Fetched
  <2>2. answer.of = r
    BY <2>1, AnchorsBind
  <2>3. anchor[r].height = receipt[r].height /\ anchor[r].height > born[r] - reorgs
    BY <2>1, <2>2 DEF SameAnchor, Inv, RInv, HeightOk
  <2> QED
    BY <2>3
<1> QED
  BY <1>1, InductiveInvariant, AnswersAreSo, PTL

\* A receipt that names the block its anchor is in verifies with both fetchers,
\* whichever tool wrote and anchored it.
THEOREM AnchoredVerify == Spec => []AnchoredReceiptVerifies
<1>1. Inv /\ AnswerInv => AnchoredReceiptVerifies
  <2> SUFFICES ASSUME Inv, AnswerInv, answer # NoAnswer, answer.by \in {"web fetch", "cli fetch"},
                      answer.of = answer.receipt, Mined(answer.receipt),
                      anchor[answer.receipt].height = receipt[answer.receipt].height
               PROVE  answer.value = "match"
    BY DEF AnchoredReceiptVerifies
  <2>1. Fetched(answer)
    BY DEF AnswerInv, Opened, Proved
  <2>2. FetchText(answer.receipt) = receipt[answer.receipt].text
    BY <2>1, TextComesBack DEF Fetched, Inv
  <2> QED
    BY <2>1, <2>2 DEF Fetched, SameAnchor
<1> QED
  BY <1>1, InductiveInvariant, AnswersAreSo, PTL
=============================================================================
