--------------------------- MODULE ReceiptFormats ---------------------------
(***************************************************************************)
(* The JSON that carries receipts between the pages and the server, and    *)
(* the functions that write and read it: timestamp-client-crypto.ts, the   *)
(* parsers of the verify panel, of the fetch route and of                  *)
(* zectime-client.ts.                                                      *)
(*                                                                         *)
(* A hex text is a sequence of words of 8 bytes, so 16, 32 and 64 digits   *)
(* have length 1, 2 and 4; -w is the word w with its bytes reversed, and a *)
(* leading 0 is the prefix "0x".  Case and white space are left out.       *)
(* A JSON object is a record of the members that are present with the type *)
(* the code looks for: every reader takes a member of another type for an  *)
(* absent one.  Any other JSON value is Scalar.                            *)
(***************************************************************************)
EXTENDS Integers, Sequences, TLC

CONSTANTS
  Docs,   \* the files
  Digest  \* Digest[d]: the four words of the SHA-256 of d

\* Zero stands for the prefix.
Word == Int \ {0}
ASSUME FormatsAssumption == Digest \in [Docs -> Word \X Word \X Word \X Word]

Scalar  == [scalar |-> TRUE]
Invalid == [invalid |-> TRUE]
None    == [none |-> TRUE]
Has(v, k) == k \in DOMAIN v

Only(v, ks) == [k \in DOMAIN v \cap ks |-> v[k]]

\* normalizeHex, normalizeFixedHex, normalizeU128Hex ..., normalizeTxid.
Plain(t)      == IF t # <<>> /\ Head(t) = 0 THEN Tail(t) ELSE t
Fixed(t, n)   == Len(Plain(t)) = n
IsTxid(t)     == Fixed(t, 4)

-----------------------------------------------------------------------------
(* Hashes and commitments *)

Lo(q)  == <<-q[2], -q[1]>>
Hi(q)  == <<-q[4], -q[3]>>
Sha(q) == <<q[1], q[2], q[3], q[4]>>
Truncated(q) == <<q[1], q[2]>>

HashDocument(d) ==
  [lo |-> Lo(Digest[d]), hi |-> Hi(Digest[d]), sha |-> Sha(Digest[d])]

\* Poseidon, taken to be injective: the field element is its inputs.
Pack(t) == IF Len(t) = 1 THEN t[1] ELSE 100 * t[1] + t[2]
CommitmentV1(lo, hi, nonce) == <<1, Pack(lo), Pack(hi), Pack(nonce)>>
CommitmentV2(lo, hi, nonce) == <<2, Pack(lo), Pack(hi), Pack(nonce)>>

\* createClientTimestampDraft: the receipt that stays in the browser.
Draft(d, n) ==
  LET h == HashDocument(d) IN
  [commitment_scheme |-> "v2", commitment |-> CommitmentV2(h.lo, h.hi, <<n, n>>),
   block_height |-> 0, nonce |-> <<n, n>>,
   doc_hash_lo |-> h.lo, doc_hash_hi |-> h.hi, doc_hash_sha256 |-> h.sha]

BuildPublicReceipt(r) ==
  [commitment_scheme |-> r.commitment_scheme, commitment |-> Plain(r.commitment),
   block_height |-> r.block_height]

BuildPrivateOpening(r) ==
  [commitment_scheme |-> r.commitment_scheme, nonce |-> Plain(r.nonce),
   doc_hash_lo |-> Plain(r.doc_hash_lo), doc_hash_hi |-> Plain(r.doc_hash_hi),
   doc_hash_sha256 |-> Plain(r.doc_hash_sha256)]

IsLegacyOpening(o) ==
  \/ Has(o, "commitment_scheme") /\ o.commitment_scheme = "v1"
  \/ ~Has(o, "commitment_scheme") /\ Has(o, "doc_hash_truncated")

CommitmentFromOpening(o) ==
  IF IsLegacyOpening(o)
  THEN CommitmentV1(o.doc_hash_lo, o.doc_hash_hi, o.nonce)
  ELSE CommitmentV2(o.doc_hash_lo, o.doc_hash_hi, o.nonce)

OpeningMatchesFile(o, d) ==
  LET h == HashDocument(d) IN
  IF IsLegacyOpening(o)
  THEN /\ o.doc_hash_lo = <<h.lo[2]>> /\ o.doc_hash_hi = <<h.lo[1]>>
       /\ o.doc_hash_truncated = <<h.sha[1], h.sha[2]>>
  ELSE /\ o.doc_hash_lo = h.lo /\ o.doc_hash_hi = h.hi
       /\ o.doc_hash_sha256 = h.sha

\* Faulty: the opening opens the commitment, whatever the file.
VerifyDocument_AnyFile(d, receipt, o) ==
  [hash |-> HashDocument(d),
   matchesReceipt |-> CommitmentFromOpening(o) = receipt.commitment]
\* verifyClientTimestampDocument, given what the panel parsed.
VerifyDocument(d, receipt, o) ==
  [hash |-> HashDocument(d),
   matchesReceipt |-> /\ OpeningMatchesFile(o, d)
                      /\ CommitmentFromOpening(o) = receipt.commitment]

-----------------------------------------------------------------------------
(* The parsers of the verify panel *)

HasPublicReceiptShape(v) == Has(v, "commitment") /\ Has(v, "block_height")

HasPrivateOpeningShape(v) ==
  /\ Has(v, "nonce") /\ Has(v, "doc_hash_lo") /\ Has(v, "doc_hash_hi")
  /\ Has(v, "doc_hash_sha256") \/ Has(v, "doc_hash_truncated")

PublicMembers == {"commitment_scheme", "commitment", "block_height"}

ParsePublicReceipt(v) ==
  IF Fixed(v.commitment, 4) /\ v.block_height >= 0
  THEN [Only(v, PublicMembers) EXCEPT !.commitment = Plain(@)]
  ELSE Invalid

\* An opening without a scheme, or with one that is not v1, is legacy when it
\* has the truncated hash alone.
ParsePrivateOpening(v) ==
  LET legacy == \/ Has(v, "commitment_scheme") /\ v.commitment_scheme = "v1"
                \/ ~Has(v, "doc_hash_sha256")
      n == IF legacy THEN 1 ELSE 2
      hash == IF legacy THEN "doc_hash_truncated" ELSE "doc_hash_sha256"
  IN IF /\ Fixed(v.nonce, n) /\ Fixed(v.doc_hash_lo, n) /\ Fixed(v.doc_hash_hi, n)
        /\ Has(v, hash) /\ Fixed(v[hash], 2 * n)
     THEN [k \in {"commitment_scheme", "nonce", "doc_hash_lo", "doc_hash_hi", hash} |->
             IF k # "commitment_scheme" THEN Plain(v[k])
             ELSE IF legacy THEN "v1" ELSE "v2"]
     ELSE Invalid

\* Where both readers look for the txid: undefined is the empty text.
EnvelopeTxid(v) ==
  CASE Has(v, "anchor") -> IF Has(v.anchor, "txid") THEN v.anchor.txid ELSE <<>>
    [] Has(v, "txid") /\ ~Has(v, "anchor") -> v.txid
    [] OTHER -> <<>>

NoInput == [publicReceipt |-> None, privateOpening |-> None, txid |-> <<>>]

\* Faulty: a bundle's whole receipt is taken before its public one.
ParseReceiptInput_WholeFirst(v) ==
  LET whole == IF Has(v, "receipt") THEN v.receipt
               ELSE IF Has(v, "publicReceipt") THEN v.publicReceipt ELSE v
      receipt == IF HasPublicReceiptShape(whole)
                 THEN ParsePublicReceipt(whole) ELSE Invalid
  IN IF receipt = Invalid THEN Invalid
     ELSE [publicReceipt |-> receipt, privateOpening |-> None, txid |-> EnvelopeTxid(v)]
\* parseReceiptInput: a receipt kit, a public receipt, a private opening file,
\* a bundle with the whole receipt, or a bare receipt.
ParseReceiptInput(v) ==
  LET public == IF Has(v, "publicReceipt") THEN v.publicReceipt
                ELSE IF Has(v, "receipt") THEN v.receipt ELSE v
      private == IF Has(v, "privateOpening") THEN v.privateOpening
                 ELSE IF Has(v, "receipt") THEN v.receipt ELSE v
      receipt == IF HasPublicReceiptShape(public)
                 THEN ParsePublicReceipt(public) ELSE Invalid
      opening == IF HasPrivateOpeningShape(private)
                 THEN ParsePrivateOpening(private) ELSE None
  IN IF Invalid \in {receipt, opening} THEN Invalid
     ELSE [publicReceipt |-> receipt, privateOpening |-> opening,
           txid |-> EnvelopeTxid(v)]

-----------------------------------------------------------------------------
(* The readers of the server *)

ParseTimestampPublicReceipt(v) ==
  IF HasPublicReceiptShape(v) /\ Fixed(v.commitment, 4)
  THEN [Only(v, PublicMembers) EXCEPT !.commitment = Plain(@)]
  ELSE Invalid

\* parseReceiptEnvelope of the fetch route.
ParseReceiptEnvelope(v) ==
  LET IsObject(k) == Has(v, k) /\ v[k] # Scalar
      receipt == ParseTimestampPublicReceipt(
                   IF IsObject("publicReceipt") THEN v.publicReceipt
                   ELSE IF IsObject("receipt") THEN v.receipt ELSE v)
  IN IF receipt = Invalid THEN Invalid
     ELSE [receipt |-> receipt, txid |-> EnvelopeTxid(v)]

\* parseTimestampReceipt: the whole receipt, opening included.
ParseTimestampReceipt(v) ==
  LET v2 == \/ Has(v, "commitment_scheme") /\ v.commitment_scheme = "v2"
            \/ Has(v, "doc_hash_sha256")
      n == IF v2 THEN 2 ELSE 1
      hash == IF v2 THEN "doc_hash_sha256" ELSE "doc_hash_truncated"
      texts == {"commitment", "nonce", "doc_hash_lo", "doc_hash_hi", hash}
  IN IF /\ HasPublicReceiptShape(v) /\ HasPrivateOpeningShape(v)
        /\ v.block_height >= 0 /\ Has(v, hash)
        /\ Fixed(v.commitment, 4) /\ Fixed(v.nonce, n)
        /\ Fixed(v.doc_hash_lo, n) /\ Fixed(v.doc_hash_hi, n)
        /\ Fixed(v[hash], 2 * n)
     THEN [k \in texts |-> Plain(v[k])]
          @@ [commitment_scheme |-> IF v2 THEN "v2" ELSE "v1",
              block_height |-> v.block_height]
     ELSE Invalid

\* fetchTimestampAnchor: what the route answers about a txid of the chain, from
\* the anchor that `zectime timestamp fetch` read there.
FetchAnchor(txid, receipt, anchor) ==
  [txid |-> txid, blockHeight |-> anchor.height, commitment |-> anchor.commitment,
   matchesReceipt |->
     IF receipt = None THEN "null"
     ELSE IF /\ receipt.commitment = anchor.commitment
             /\ receipt.block_height = anchor.height
     THEN "true" ELSE "false"]

=============================================================================
