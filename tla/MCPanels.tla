------------------------------ MODULE MCPanels ------------------------------
(* Two files, their receipts in every form in which a user may have them, and *)
(* texts that are nearly receipts.                                            *)
EXTENDS Panels

CONSTANTS d1, d2

MCDocs   == {d1, d2}
MCDigest == (d1 :> <<1, 2, 3, 4>>) @@ (d2 :> <<1, 5, 3, 6>>)

txidA == <<11, 12, 13, 14>>
txidB == <<15, 16, 17, 18>>

\* A receipt of the stamp page and one of an early CLI.
receiptA == [Draft(d1, 7) EXCEPT !.block_height = 3]
receiptB == [commitment |-> CommitmentV1(<<-1>>, <<-2>>, <<8>>), block_height |-> 2,
             nonce |-> <<8>>, doc_hash_lo |-> <<-1>>, doc_hash_hi |-> <<-2>>,
             doc_hash_truncated |-> <<1, 2>>]

MCChain ==
  (txidA :> [commitment |-> receiptA.commitment, height |-> 3]) @@
  (txidB :> [commitment |-> receiptB.commitment, height |-> 2])

publicA  == BuildPublicReceipt(receiptA)
openingA == BuildPrivateOpening(receiptA)
kitA     == [txid |-> txidA, publicReceipt |-> publicA, privateOpening |-> openingA,
             anchor |-> [txid |-> txidA]]
Json(v)  == [json |-> v]

MCTexts == {
  Json(kitA),
  Json([txid |-> txidA, publicReceipt |-> publicA]),      \* no opening
  Json([receipt |-> receiptB, txid |-> txidB]),           \* legacy bundle
  Json([receiptA EXCEPT !.commitment = <<0>> \o @,        \* flat, 0x, no txid,
                        !.doc_hash_sha256 = Sha(MCDigest[d2])]), \* mixed up
  Json([publicReceipt |-> publicA, receipt |-> receiptB,  \* of two receipts
        anchor |-> [txid |-> txidA]]),
  Json([publicReceipt |-> Scalar, receipt |-> receiptA, txid |-> txidA]),
  [blank |-> TRUE], [garbage |-> TRUE]}

MCFileTexts == {Json(kitA), Json([receipt |-> receiptB, txid |-> txidB])}
MCTyped     == {<<>>, <<0>> \o txidA}

\* A receipt of a structured document, in the byte order of the CLI.
receiptP == [receiptA EXCEPT !.commitment = <<-4, -3, -2, -1>>]
MCInputs == "proofA" :> [commitment |-> <<1, 2, 3, 4>>, height |-> 3]
MCProofs == {"blank", "proofA", "notBase64"}
MCPasted == {[blank |-> TRUE], [garbage |-> TRUE], Json(Scalar), Json(receiptP),
             Json(receiptA), Json(receiptB), Json(publicA)}
MCWitnesses == {[blank |-> TRUE], [garbage |-> TRUE], Json([witness |-> TRUE])}
=============================================================================
