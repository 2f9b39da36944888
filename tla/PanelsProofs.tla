---------------------------- MODULE PanelsProofs ----------------------------
(***************************************************************************)
(* What the pages promise, proved for all files, receipt texts and proofs, *)
(* any anchors, and any number of submissions.                             *)
(***************************************************************************)
EXTENDS Panels, FiniteSetTheorems, TLAPS

StampPanelMembers == {"file", "status", "busyPhase", "elapsed", "error", "result"}
VerifyPanelMembers == {"txid", "receiptJson", "file", "status", "error", "result"}
PredicatePanelMembers ==
  {"witness", "proveStatus", "proveError", "proof", "receiptJson", "verifyStatus",
   "verifyError", "verifyResult", "posts"}

-----------------------------------------------------------------------------
(* The invariant *)

\* The stamp page has one submission at most, its last, and no result meanwhile;
\* until the draft is made nothing is posted, and then the commitment alone.
StampCall(b) ==
  /\ panel.status = "busy" /\ panel.result = None
  /\ b = None => panel.busyPhase = "hashing"
  /\ b # None => DOMAIN b = {"commitment"}

StampInv ==
  /\ DOMAIN panel = StampPanelMembers
  /\ panel.file \in Docs \cup {None}
  /\ panel.elapsed \in Nat /\ stamped \in Seq(Docs)
  /\ panel.busyPhase \in {"hashing", "anchoring", "finalizing"}
  /\ \/ calls = {} /\ panel.status # "busy"
     \/ \E b : calls = {[nr |-> Len(stamped), body |-> b]} /\ StampCall(b)

InFlight == {c.nr : c \in calls}
OpeningHeld(nr) ==
  \/ nr \in InFlight
  \/ \E f \in saved \cup S!Downloads : f.nr = nr /\ Has(f.json, "privateOpening")

\* What is published or may be was asked for by a submission that is still
\* waited for, or whose opening is held, or that has ended otherwise.
LossInv ==
  /\ server \subseteq InFlight \cup dropped
  /\ \A nr \in DOMAIN chain : OpeningHeld(nr) \/ nr \in dropped

PublicShape(r) ==
  /\ r # None
  /\ {"commitment", "block_height"} \subseteq DOMAIN r
  /\ DOMAIN r \subseteq PublicMembers
  /\ Len(r.commitment) = 4

\* A submission of the verify page posts the receipt it parsed, and nothing
\* that is not public.
VerifyCall(c) ==
  /\ c.file \in Docs \cup {None}
  /\ \/ /\ c.input.publicReceipt = None
        /\ \E t : c.body = [txid |-> t]
     \/ /\ PublicShape(c.input.publicReceipt)
        /\ \E t : c.body = [txid |-> t, receipt |-> c.input.publicReceipt]

\* A result was made from one submission.
ResultOf(c) ==
  /\ VerifyCall(c)
  /\ V!RouteReceipt(c.body) # Invalid
  /\ panel.result =
       [artifact |-> V!FetchAnchor(c.body.txid, V!RouteReceipt(c.body), Chain[c.body.txid]),
        publicReceipt |-> c.input.publicReceipt,
        document |-> V!Verification(c.file, c.input)]

VerifyInv ==
  /\ DOMAIN panel = VerifyPanelMembers
  /\ panel.file \in Docs \cup {None}
  /\ late \in BOOLEAN
  /\ panel.status = "busy" => calls # {}
  /\ ~late => \/ calls = {}
              \/ panel.status = "busy" /\ \E c : calls = {c}
  /\ \A c \in calls : VerifyCall(c)
  /\ panel.result = V!NoResult \/ \E c : ResultOf(c)

PredicateInv ==
  /\ DOMAIN panel = PredicatePanelMembers
  /\ \/ calls = {} /\ panel.verifyStatus # "busy"
     \/ /\ panel.verifyStatus = "busy"
        /\ \E b : calls = {b} /\ ~Has(b, "witness")

Inv ==
  /\ page \in {"stamp", "verify", "predicate"}
  /\ On("stamp") => StampInv /\ LossInv
  /\ On("verify") => VerifyInv
  /\ On("predicate") => PredicateInv

-----------------------------------------------------------------------------
\* The pages share the definitions of ReceiptFormats.
LEMMA SharedTerms ==
  /\ S!None = None /\ V!None = None /\ P!None = None
  /\ V!Invalid = Invalid
  /\ \A v, k : /\ S!Has(v, k) <=> Has(v, k)
               /\ V!Has(v, k) <=> Has(v, k)
               /\ P!Has(v, k) <=> Has(v, k)
BY DEF S!None, V!None, P!None, None, V!Invalid, Invalid, S!Has, V!Has, P!Has, Has

\* None is no record of another kind.
LEMMA NoneIsNothing ==
  ASSUME NEW v, DOMAIN v # {"none"}
  PROVE  v # None
BY DEF None

-----------------------------------------------------------------------------
(* The stamp page *)

LEMMA StampInit == S!Init => StampInv /\ LossInv
<1> SUFFICES ASSUME S!Init PROVE StampInv /\ LossInv
  OBVIOUS
<1>1. StampInv
  <2>1. stamped = <<>> /\ calls = {} /\ panel = S!Mounted
    BY DEF S!Init
  <2>2. stamped \in Seq(Docs)
    BY <2>1
  <2> QED
    BY <2>1, <2>2, SharedTerms DEF S!Mounted, StampInv, StampPanelMembers
<1>2. LossInv
  BY DEF S!Init, LossInv
<1> QED
  BY <1>1, <1>2

\* The page's own steps, by what they do to the submission in flight.
LEMMA StampStep ==
  ASSUME StampInv, S!Next
  PROVE  StampInv'
<1> USE SharedTerms DEF S!Set, StampPanelMembers
<1>1. ASSUME NEW f \in Docs \cup {None}, S!FileChange(f) PROVE StampInv'
  BY <1>1 DEF StampInv, StampCall, S!FileChange, S!Editable
<1>2. CASE S!SubmitNoFile
  BY <1>2 DEF StampInv, StampCall, S!SubmitNoFile, S!Editable
<1>3. CASE S!Submit
  BY <1>3 DEF StampInv, StampCall, S!Submit, S!Editable, S!Nr
<1>4. CASE S!Tick
  <2>1. MaxElapsed \in Nat /\ panel.elapsed \in Nat
    BY BoundsAssumption DEF BoundsAssumption, StampInv
  <2>2. PICK s \in panel.elapsed + 1 .. MaxElapsed : panel' = [panel EXCEPT !.elapsed = s]
    BY <1>4 DEF S!Tick
  <2>3. s \in Nat
    BY <2>1
  <2> QED
    BY <1>4, <2>2, <2>3 DEF StampInv, StampCall, S!Tick
<1>5. CASE S!Leave
  BY <1>5 DEF StampInv, StampCall, S!Leave, S!Mounted
<1>6. CASE S!Download
  BY <1>6 DEF StampInv, StampCall, S!Download
<1>7. ASSUME NEW c \in calls, S!Hashed(c) PROVE StampInv'
  <2>1. PICK b : /\ calls = {[nr |-> Len(stamped), body |-> b]} /\ StampCall(b)
    BY DEF StampInv
  <2>2. c = [nr |-> Len(stamped), body |-> b]
    BY <2>1
  <2> DEFINE posted == [commitment |-> S!DraftOf(c.nr).commitment]
  <2> HIDE DEF posted
  <2>3. calls' = {[nr |-> Len(stamped), body |-> posted]}
    BY <1>7, <2>1, <2>2 DEF S!Hashed, posted
  <2>4. DOMAIN posted = {"commitment"}
    BY DEF posted
  <2>5. posted # None
    BY <2>4, NoneIsNothing
  <2> QED
    BY <1>7, <2>1, <2>3, <2>4, <2>5 DEF StampInv, StampCall, S!Hashed
<1>8. ASSUME NEW c \in calls, S!Answer(c) PROVE StampInv'
  BY <1>8 DEF StampInv, StampCall, S!Answer
<1>9. ASSUME NEW c \in calls, S!Fail(c) PROVE StampInv'
  BY <1>9 DEF StampInv, StampCall, S!Fail
<1>10. CASE S!ServerStep
  BY <1>10 DEF StampInv, StampCall, S!ServerStep
<1> QED
  BY <1>1, <1>2, <1>3, <1>4, <1>5, <1>6, <1>7, <1>8, <1>9, <1>10 DEF S!Next, S!PageStep

\* An opening that is held stays with its submission's call, in a downloaded
\* file or on the page, until the step that drops it.
LEMMA DownloadedOpening ==
  ASSUME panel.result # None
  PROVE  \E f \in S!Downloads : f.nr = Len(stamped) /\ Has(f.json, "privateOpening")
<1>1. [nr |-> Len(stamped), json |-> S!ReceiptKit] \in S!Downloads
  BY SharedTerms DEF S!Downloads, S!Nr
<1>2. Has(S!ReceiptKit, "privateOpening")
  BY DEF S!ReceiptKit, Has
<1> QED
  BY <1>1, <1>2

LEMMA DownloadsOfLast ==
  ASSUME NEW f \in S!Downloads
  PROVE  f.nr = Len(stamped) /\ panel.result # None
BY SharedTerms DEF S!Downloads, S!Nr

\* What a step has to show for LossInv.
LEMMA LossKept ==
  ASSUME LossInv,
         \A nr : nr \in InFlight => nr \in InFlight' \/ nr \in dropped' \/
                  (OpeningHeld(nr)' /\ nr \notin server'),
         panel.result # None /\ panel'.result # panel.result => Len(stamped) \in dropped',
         panel'.result = panel.result /\ panel.result # None => S!Downloads' = S!Downloads,
         server' \subseteq server \cup InFlight' \cup dropped',
         DOMAIN chain' \subseteq DOMAIN chain \cup server,
         saved \subseteq saved', dropped \subseteq dropped'
  PROVE  LossInv'
<1>1. ASSUME NEW nr, OpeningHeld(nr) PROVE OpeningHeld(nr)' \/ nr \in dropped'
  <2>1. CASE nr \in InFlight
    BY <2>1 DEF OpeningHeld
  <2>2. ASSUME NEW f \in saved, f.nr = nr, Has(f.json, "privateOpening")
        PROVE  OpeningHeld(nr)'
    BY <2>2 DEF OpeningHeld, Has
  <2>3. ASSUME NEW f \in S!Downloads, f.nr = nr, Has(f.json, "privateOpening")
        PROVE  OpeningHeld(nr)' \/ nr \in dropped'
    <3>1. nr = Len(stamped) /\ panel.result # None
      BY <2>3, DownloadsOfLast
    <3>2. CASE panel'.result = panel.result
      BY <2>3, <3>1, <3>2 DEF OpeningHeld, Has
    <3> QED
      BY <3>1, <3>2
  <2> QED
    BY <1>1, <2>1, <2>2, <2>3 DEF OpeningHeld
<1>2. ASSUME NEW nr \in server' PROVE nr \in InFlight' \cup dropped'
  BY <1>2 DEF LossInv
<1>3. ASSUME NEW nr \in DOMAIN chain' PROVE OpeningHeld(nr)' \/ nr \in dropped'
  BY <1>1, <1>3 DEF LossInv, OpeningHeld
<1> QED
  BY <1>2, <1>3 DEF LossInv

LEMMA StampLoss ==
  ASSUME StampInv, LossInv, S!Next
  PROVE  LossInv'
<1> USE SharedTerms DEF S!Set, S!Nr, StampPanelMembers
<1> DEFINE Kept == S!Downloads' = S!Downloads
<1>a. ASSUME panel'.result = panel.result, stamped' = stamped PROVE Kept
  BY <1>a DEF S!Downloads, S!PublicReceiptFile, S!PrivateOpeningFile, S!ReceiptKit
<1>b. /\ DOMAIN panel = StampPanelMembers
      /\ calls # {} => panel.result = None
      /\ \A c \in calls : c.nr = Len(stamped)
      /\ panel.status # "busy" => calls = {}
      /\ \A c \in calls : calls \ {c} = {}
  BY DEF StampInv, StampCall
<1> HIDE DEF Kept
<1>1. ASSUME NEW f \in Docs \cup {None}, S!FileChange(f) PROVE LossInv'
  <2>1. panel'.result = panel.result /\ UNCHANGED <<calls, stamped, server, chain, saved, dropped>>
    BY <1>1, <1>b DEF S!FileChange
  <2> QED
    BY <2>1, <1>a, LossKept DEF Kept, InFlight
<1>2. CASE S!SubmitNoFile
  <2>1. /\ UNCHANGED <<calls, stamped, server, chain, saved>>
        /\ dropped \subseteq dropped'
        /\ panel.result # None => Len(stamped) \in dropped'
        /\ panel'.result = None
    BY <1>2, <1>b DEF S!SubmitNoFile, S!Replaced
  <2> QED
    BY <2>1, LossKept DEF InFlight
<1>3. CASE S!Submit
  <2>1. /\ UNCHANGED <<server, chain, saved>>
        /\ calls \subseteq calls'
        /\ dropped \subseteq dropped'
        /\ panel.result # None => Len(stamped) \in dropped'
        /\ panel'.result = None
    BY <1>3, <1>b DEF S!Submit, S!Replaced
  <2> QED
    BY <2>1, LossKept DEF InFlight
<1>4. CASE S!Tick
  <2>1. panel'.result = panel.result /\ UNCHANGED <<calls, stamped, server, chain, saved, dropped>>
    BY <1>4, <1>b DEF S!Tick
  <2> QED
    BY <2>1, <1>a, LossKept DEF Kept, InFlight
<1>5. CASE S!Leave
  <2>1. /\ UNCHANGED <<stamped, chain, saved>>
        /\ dropped \subseteq dropped' /\ InFlight \subseteq dropped'
        /\ panel.result # None => Len(stamped) \in dropped'
        /\ panel'.result = None
        /\ server' \subseteq server \cup dropped'
    BY <1>5 DEF S!Leave, S!Replaced, S!Mounted, InFlight
  <2> QED
    BY <2>1, LossKept
<1>6. CASE S!Download
  <2>1. UNCHANGED <<panel, calls, stamped, server, chain, dropped>> /\ saved \subseteq saved'
    BY <1>6 DEF S!Download
  <2> QED
    BY <2>1, <1>a, LossKept DEF Kept, InFlight
<1>7. ASSUME NEW c \in calls, S!Hashed(c) PROVE LossInv'
  <2>1. /\ UNCHANGED <<stamped, chain, saved, dropped>> /\ panel'.result = panel.result
        /\ server' = server \cup {c.nr}
    BY <1>7, <1>b DEF S!Hashed
  <2>2. PICK b : calls = {[nr |-> Len(stamped), body |-> b]}
    BY <1>7 DEF StampInv
  <2>3. \E b1 : calls' = {[nr |-> Len(stamped), body |-> b1]}
    <3>1. c = [nr |-> Len(stamped), body |-> b]
      BY <2>2
    <3> DEFINE posted == [commitment |-> S!DraftOf(c.nr).commitment]
    <3> HIDE DEF posted
    <3>2. calls' = {[nr |-> Len(stamped), body |-> posted]}
      BY <1>7, <2>2, <3>1 DEF S!Hashed, posted
    <3> QED
      BY <3>2
  <2>4. InFlight = {Len(stamped)} /\ InFlight' = {Len(stamped)} /\ c.nr = Len(stamped)
    BY <2>2, <2>3, <1>b, <1>7 DEF InFlight
  <2> QED
    BY <2>1, <2>4, <1>a, LossKept DEF Kept
<1>8. ASSUME NEW c \in calls, S!Answer(c) PROVE LossInv'
  <2>1. /\ UNCHANGED <<stamped, chain, saved, dropped>>
        /\ server' = server \ {c.nr} /\ calls' = {}
        /\ panel.result = None /\ c.nr = Len(stamped)
        /\ \A d \in calls : d.nr = Len(stamped)
    BY <1>8, <1>b DEF S!Answer
  <2>2. /\ DOMAIN panel'.result = {"publicReceipt", "privateOpening", "anchor"}
    BY <1>8, <1>b DEF S!Answer
  <2>3. panel'.result # None
    BY <2>2, NoneIsNothing
  <2>4. [nr |-> Len(stamped), json |-> (S!ReceiptKit)'] \in (S!Downloads)'
    BY <2>1, <2>3 DEF S!Downloads
  <2>5. Has((S!ReceiptKit)', "privateOpening")
    BY DEF S!ReceiptKit, Has
  <2>6. OpeningHeld(Len(stamped))'
    BY <2>4, <2>5, <2>1 DEF OpeningHeld, Has
  <2>7. \A nr \in InFlight : OpeningHeld(nr)' /\ nr \notin server'
    BY <2>1, <2>6 DEF InFlight, OpeningHeld
  <2> QED
    BY <2>1, <2>7, LossKept
<1>9. ASSUME NEW c \in calls, S!Fail(c) PROVE LossInv'
  <2>1. /\ UNCHANGED <<stamped, server, chain, saved>> /\ panel'.result = panel.result
        /\ dropped \subseteq dropped' /\ c.nr \in dropped'
        /\ \A d \in calls : d.nr = c.nr
    BY <1>9, <1>b DEF S!Fail
  <2>2. InFlight \subseteq dropped'
    BY <2>1 DEF InFlight
  <2> QED
    BY <2>1, <2>2, <1>a, LossKept DEF Kept
<1>10. CASE S!ServerStep
  <2>1. /\ UNCHANGED <<panel, calls, stamped, saved, dropped>>
        /\ server' \subseteq server
        /\ DOMAIN chain' \subseteq DOMAIN chain \cup server
    BY <1>10 DEF S!ServerStep
  <2> QED
    BY <2>1, <1>a, LossKept DEF Kept, InFlight
<1> QED
  BY <1>1, <1>2, <1>3, <1>4, <1>5, <1>6, <1>7, <1>8, <1>9, <1>10 DEF S!Next, S!PageStep

-----------------------------------------------------------------------------
(* The verify page *)

\* A receipt the verify page has parsed has public members only.
LEMMA ParsedIsPublic ==
  ASSUME V!Input # Invalid
  PROVE  V!Input.publicReceipt = None \/ PublicShape(V!Input.publicReceipt)
<1>1. CASE V!Input = V!NoInput
  BY <1>1, SharedTerms DEF V!NoInput
<1>2. ASSUME NEW v, V!Input = V!ParseReceiptInput(v) PROVE PublicShape(V!Input.publicReceipt)
  <2> DEFINE public == IF V!Has(v, "publicReceipt") THEN v.publicReceipt
                       ELSE IF V!Has(v, "receipt") THEN v.receipt ELSE v
             private == IF V!Has(v, "privateOpening") THEN v.privateOpening
                        ELSE IF V!Has(v, "receipt") THEN v.receipt ELSE v
             receipt == IF V!HasPublicReceiptShape(public)
                        THEN V!ParsePublicReceipt(public) ELSE V!Invalid
             opening == IF V!HasPrivateOpeningShape(private)
                        THEN V!ParsePrivateOpening(private) ELSE V!None
             parsed  == [publicReceipt |-> receipt, privateOpening |-> opening,
                         txid |-> V!EnvelopeTxid(v)]
  <2>1. V!Input = IF V!Invalid \in {receipt, opening} THEN V!Invalid ELSE parsed
    BY <1>2 DEF V!ParseReceiptInput
  <2>2. receipt # Invalid /\ V!Input.publicReceipt = receipt
    <3> HIDE DEF receipt, opening
    <3> QED
      BY <2>1, SharedTerms
  <2>3. /\ V!HasPublicReceiptShape(public)
        /\ receipt = V!ParsePublicReceipt(public)
    BY <2>2, SharedTerms
  <2>4. receipt = [V!Only(public, V!PublicMembers) EXCEPT !.commitment = V!Plain(@)]
    <3> HIDE DEF public
    <3> QED
      BY <2>2, <2>3, SharedTerms DEF V!ParsePublicReceipt
  <2>5. DOMAIN receipt = DOMAIN public \cap PublicMembers
    <3> HIDE DEF public, receipt
    <3> QED
      BY <2>4 DEF V!Only, V!PublicMembers, PublicMembers
  <2>6. {"commitment", "block_height"} \subseteq DOMAIN public
    BY <2>3 DEF V!HasPublicReceiptShape, V!Has
  <2>7. Len(receipt.commitment) = 4
    <3> HIDE DEF public, receipt
    <3>1. Len(V!Plain(public.commitment)) = 4
      BY <2>2, <2>3, SharedTerms DEF V!ParsePublicReceipt, V!Fixed
    <3>2. receipt.commitment = V!Plain(public.commitment)
      BY <2>4, <2>6 DEF V!Only, V!PublicMembers
    <3> QED
      BY <3>1, <3>2
  <2>8. PublicShape(receipt)
    <3> HIDE DEF public, receipt
    <3> QED
      BY <2>5, <2>6, <2>7, NoneIsNothing DEF PublicShape, PublicMembers
  <2> QED
    BY <2>2, <2>8
<1> QED
  BY <1>1, <1>2, SharedTerms DEF V!Input

LEMMA VerifyInit == V!Init => VerifyInv
<1> SUFFICES ASSUME V!Init PROVE VerifyInv
  OBVIOUS
<1>1. /\ DOMAIN panel = VerifyPanelMembers
      /\ panel.file = None /\ panel.status = "idle" /\ panel.result = V!NoResult
      /\ calls = {}
  BY SharedTerms DEF V!Init, VerifyPanelMembers
<1>2. late \in BOOLEAN
  BY Zenon DEF V!Init
<1> QED
  BY <1>1, <1>2 DEF VerifyInv

LEMMA SubmitCall ==
  ASSUME VerifyInv, V!Submit
  PROVE  \E c : VerifyCall(c) /\ calls' = calls \cup {c}
<1> DEFINE input == V!Input
           txid  == V!SubmitTxid(input)
           body  == V!Body(input, txid)
           c     == [body |-> body, input |-> input, file |-> panel.file]
<1>1. calls' = calls \cup {c} /\ V!Refusal(input) = "none"
  BY DEF V!Submit
<1>2. input # Invalid
  BY <1>1, SharedTerms DEF V!Refusal
<1>3. input.publicReceipt = None \/ PublicShape(input.publicReceipt)
  BY <1>2, ParsedIsPublic
<1>4. /\ input.publicReceipt = None => body = [txid |-> txid]
      /\ input.publicReceipt # None => body = [txid |-> txid, receipt |-> input.publicReceipt]
  BY SharedTerms DEF V!Body
<1>5. c.body = body /\ c.input = input /\ c.file = panel.file
  OBVIOUS
<1>6. panel.file \in Docs \cup {None}
  BY DEF VerifyInv
<1>7. VerifyCall(c)
  <2> HIDE DEF input, txid, body, c
  <2>1. CASE input.publicReceipt = None
    BY <1>4, <1>5, <1>6, <2>1 DEF VerifyCall
  <2>2. CASE PublicShape(input.publicReceipt)
    BY <1>4, <1>5, <1>6, <2>2 DEF VerifyCall, PublicShape
  <2> QED
    BY <1>3, <2>1, <2>2
<1> QED
  BY <1>1, <1>7

\* A step that touches neither result nor calls, nor the status but to leave a
\* form editable that was so.
LEMMA FormStep ==
  ASSUME VerifyInv, V!Editable, UNCHANGED <<calls, late>>,
         DOMAIN panel' = VerifyPanelMembers,
         panel'.file \in Docs \cup {None}, panel'.status # "busy",
         panel'.result = panel.result \/ panel'.result = V!NoResult
  PROVE  VerifyInv'
<1>1. ~late' => calls' = {}
  BY DEF VerifyInv, V!Editable
<1>2. panel'.result = V!NoResult \/ \E c : ResultOf(c)'
  BY DEF VerifyInv, ResultOf, V!FetchAnchor, V!RouteReceipt, V!Verification
<1> QED
  BY <1>1, <1>2 DEF VerifyInv, VerifyCall

LEMMA VerifyStep ==
  ASSUME VerifyInv, V!Next
  PROVE  VerifyInv'
<1> USE SharedTerms DEF V!Set, VerifyPanelMembers
<1>a. /\ DOMAIN panel = VerifyPanelMembers /\ panel.file \in Docs \cup {None}
      /\ V!Editable <=> panel.status # "busy"
  BY DEF VerifyInv, V!Editable
<1>1. ASSUME NEW t, V!TxidChange(t) \/ V!ReceiptChange(t) \/ V!ReceiptFileChange(t)
      PROVE  VerifyInv'
  <2>1. /\ V!Editable /\ UNCHANGED <<calls, late>>
        /\ DOMAIN panel' = VerifyPanelMembers /\ panel'.file = panel.file
        /\ panel'.status = panel.status /\ panel'.result = panel.result
    BY <1>1, <1>a DEF V!TxidChange, V!ReceiptChange, V!ReceiptFileChange
  <2> QED
    BY <2>1, <1>a, FormStep
<1>2. ASSUME NEW f \in Docs \cup {None}, V!FileChange(f) PROVE VerifyInv'
  <2>1. /\ V!Editable /\ UNCHANGED <<calls, late>>
        /\ DOMAIN panel' = VerifyPanelMembers /\ panel'.file = f
        /\ panel'.status = panel.status /\ panel'.result = panel.result
    BY <1>2, <1>a DEF V!FileChange
  <2> QED
    BY <2>1, <1>a, FormStep
<1>3. CASE V!ReceiptFileCleared
  <2>1. /\ V!Editable /\ UNCHANGED <<calls, late>>
        /\ DOMAIN panel' = VerifyPanelMembers /\ panel'.file = panel.file
        /\ panel'.status = panel.status /\ panel'.result = panel.result
    BY <1>3, <1>a DEF V!ReceiptFileCleared
  <2> QED
    BY <2>1, <1>a, FormStep
<1>4. CASE V!SubmitRefused
  <2>1. /\ V!Editable /\ UNCHANGED <<calls, late>>
        /\ DOMAIN panel' = VerifyPanelMembers /\ panel'.file = panel.file
        /\ panel'.status = "error" /\ panel'.result = V!NoResult
    BY <1>4, <1>a DEF V!SubmitRefused
  <2> QED
    BY <2>1, <1>a, FormStep
<1>5. ASSUME NEW t, V!ReceiptFileText(t) PROVE VerifyInv'
  <2>1. /\ calls' = calls /\ late' = (late \/ ~V!Editable)
        /\ DOMAIN panel' = VerifyPanelMembers /\ panel'.file = panel.file
        /\ panel'.status \in {"idle", "error"} /\ panel'.result = panel.result
    BY <1>5, <1>a DEF V!ReceiptFileText
  <2>2. late' \in BOOLEAN
    BY <2>1, Zenon
  <2>3. ~late' => calls' = {}
    BY <2>1, <1>a DEF VerifyInv
  <2>4. panel'.result = V!NoResult \/ \E c : ResultOf(c)'
    BY <2>1 DEF VerifyInv, ResultOf, V!FetchAnchor, V!RouteReceipt, V!Verification
  <2> QED
    BY <2>1, <2>2, <2>3, <2>4, <1>a DEF VerifyInv, VerifyCall
<1>6. CASE V!Submit
  <2>1. PICK c : VerifyCall(c) /\ calls' = calls \cup {c}
    BY <1>6, SubmitCall
  <2>2. /\ V!Editable /\ late' = late
        /\ DOMAIN panel' = VerifyPanelMembers /\ panel'.file = panel.file
        /\ panel'.status = "busy" /\ panel'.result = V!NoResult
    BY <1>6, <1>a DEF V!Submit
  <2>3. ~late => calls' = {c}
    BY <2>1, <2>2, <1>a DEF VerifyInv
  <2>4. \A d \in calls' : VerifyCall(d)
    BY <2>1 DEF VerifyInv
  <2> QED
    BY <2>1, <2>2, <2>3, <2>4, <1>a DEF VerifyInv, VerifyCall
<1>7. ASSUME NEW c \in calls, V!Answer(c) PROVE VerifyInv'
  <2>1. /\ calls' = calls \ {c} /\ late' = late
        /\ DOMAIN panel' = VerifyPanelMembers /\ panel'.file = panel.file
        /\ panel'.status = "success" /\ V!RouteReceipt(c.body) # Invalid
        /\ panel'.result =
              [artifact |-> V!FetchAnchor(c.body.txid, V!RouteReceipt(c.body),
                                          Chain[c.body.txid]),
               publicReceipt |-> c.input.publicReceipt,
               document |-> V!Verification(c.file, c.input)]
    BY <1>7, <1>a DEF V!Answer
  <2>2. VerifyCall(c)
    BY DEF VerifyInv
  <2>3. ResultOf(c)'
    BY <2>1, <2>2 DEF ResultOf, VerifyCall, V!FetchAnchor, V!RouteReceipt, V!Verification
  <2>4. ~late' => calls' = {}
    BY <2>1 DEF VerifyInv
  <2> QED
    BY <2>1, <2>3, <2>4, <1>a DEF VerifyInv, VerifyCall
<1>8. ASSUME NEW c \in calls, V!Fail(c) PROVE VerifyInv'
  <2>1. /\ calls' = calls \ {c} /\ late' = late
        /\ DOMAIN panel' = VerifyPanelMembers /\ panel'.file = panel.file
        /\ panel'.status = "error" /\ panel'.result = panel.result
    BY <1>8, <1>a DEF V!Fail
  <2>3. panel'.result = V!NoResult \/ \E d : ResultOf(d)'
    BY <2>1 DEF VerifyInv, ResultOf, V!FetchAnchor, V!RouteReceipt, V!Verification
  <2>4. ~late' => calls' = {}
    BY <2>1 DEF VerifyInv
  <2> QED
    BY <2>1, <2>3, <2>4, <1>a DEF VerifyInv, VerifyCall
<1> QED
  BY <1>1, <1>2, <1>3, <1>4, <1>5, <1>6, <1>7, <1>8 DEF V!Next

-----------------------------------------------------------------------------
(* The predicate page *)

LEMMA PredicateInit == P!Init => PredicateInv
<1> SUFFICES ASSUME P!Init PROVE PredicateInv
  OBVIOUS
<1>1. DOMAIN panel = PredicatePanelMembers /\ panel.verifyStatus = "idle" /\ calls = {}
  BY DEF P!Init, PredicatePanelMembers
<1> QED
  BY <1>1 DEF PredicateInv

LEMMA PredicateStep ==
  ASSUME PredicateInv, P!Next
  PROVE  PredicateInv'
<1> USE SharedTerms DEF P!Set, PredicatePanelMembers
<1>a. DOMAIN panel = PredicatePanelMembers
  BY DEF PredicateInv
<1>1. ASSUME UNCHANGED calls, DOMAIN panel' = DOMAIN panel,
             \/ panel'.verifyStatus = panel.verifyStatus
             \/ P!Editable /\ panel'.verifyStatus # "busy"
      PROVE  PredicateInv'
  BY <1>1 DEF PredicateInv, P!Editable
<1>2. ASSUME NEW w, \/ P!WitnessChange(w) \/ P!FillSampleWitness \/ P!ProveSubmit
                    \/ P!ProofChange(w) \/ P!ReceiptChange(w)
      PROVE  PredicateInv'
  <2>1. /\ UNCHANGED calls /\ DOMAIN panel' = DOMAIN panel
        /\ panel'.verifyStatus = panel.verifyStatus
    BY <1>2, <1>a DEF P!WitnessChange, P!FillSampleWitness, P!ProveSubmit, P!ProofChange,
                      P!ReceiptChange
  <2> QED
    BY <2>1, <1>1
<1>3. CASE P!VerifyRefused
  <2>1. /\ UNCHANGED calls /\ DOMAIN panel' = DOMAIN panel
        /\ P!Editable /\ panel'.verifyStatus = "error"
    BY <1>3, <1>a DEF P!VerifyRefused
  <2> QED
    BY <2>1, <1>1
<1>4. CASE P!VerifySubmit
  <2> DEFINE receipt == IF panel.receiptJson = P!Blank THEN P!Scalar ELSE panel.receiptJson.json
             body == [proof |-> panel.proof, receipt |-> receipt]
  <2> HIDE DEF receipt
  <2>1. calls' = {body}
    BY <1>4 DEF P!VerifySubmit, receipt
  <2>2. ~Has(body, "witness")
    BY DEF Has
  <2>3. DOMAIN panel' = DOMAIN panel /\ panel'.verifyStatus = "busy"
    BY <1>4, <1>a DEF P!VerifySubmit
  <2> HIDE DEF body
  <2> QED
    BY <2>1, <2>2, <2>3, <1>a DEF PredicateInv, Has
<1>5. ASSUME NEW body, P!Answer(body) \/ P!Fail(body) PROVE PredicateInv'
  <2>1. calls' = {} /\ DOMAIN panel' = DOMAIN panel
        /\ panel'.verifyStatus \in {"success", "error"}
    BY <1>5, <1>a DEF P!Answer, P!Fail
  <2> QED
    BY <2>1, <1>a DEF PredicateInv
<1> QED
  BY <1>2, <1>3, <1>4, <1>5 DEF P!Next

-----------------------------------------------------------------------------
LEMMA InitInv == Init => Inv
BY StampInit, VerifyInit, PredicateInit DEF Init, On, Inv

LEMMA StepInv == Inv /\ [Next]_vars => Inv'
<1> SUFFICES ASSUME Inv, [Next]_vars PROVE Inv'
  OBVIOUS
<1>1. CASE On("stamp") /\ S!Next /\ UNCHANGED <<page, verifyRest>>
  <2>1. StampInv' /\ LossInv'
    BY <1>1, StampStep, StampLoss DEF Inv
  <2> QED
    BY <1>1, <2>1 DEF Inv, On
<1>2. CASE On("verify") /\ V!Next /\ UNCHANGED <<page, stampRest>>
  <2>1. VerifyInv'
    BY <1>2, VerifyStep DEF Inv
  <2> QED
    BY <1>2, <2>1 DEF Inv, On
<1>3. CASE On("predicate") /\ P!Next /\ UNCHANGED <<page, stampRest, verifyRest>>
  <2>1. PredicateInv'
    BY <1>3, PredicateStep DEF Inv
  <2> QED
    BY <1>3, <2>1 DEF Inv, On
<1>4. CASE UNCHANGED vars
  <2>1. UNCHANGED <<page, panel, calls, stamped, server, chain, saved, dropped, reads, late>>
    BY <1>4 DEF vars, stampRest, verifyRest
  <2>2. S!Downloads' = S!Downloads
    BY <2>1 DEF S!Downloads, S!PublicReceiptFile, S!PrivateOpeningFile, S!ReceiptKit, S!Nr
  <2>3. On("stamp") => StampInv' /\ LossInv'
    BY <2>1, <2>2 DEF Inv, On, StampInv, StampCall, LossInv, OpeningHeld, InFlight
  <2>4. On("verify") => VerifyInv'
    BY <2>1 DEF Inv, On, VerifyInv, VerifyCall, ResultOf, V!FetchAnchor, V!RouteReceipt,
                V!Verification
  <2>5. On("predicate") => PredicateInv'
    BY <2>1 DEF Inv, On, PredicateInv
  <2> QED
    BY <2>1, <2>3, <2>4, <2>5 DEF Inv, On
<1> QED
  BY <1>1, <1>2, <1>3, <1>4 DEF Next

LEMMA InductiveInvariant == Spec => []Inv
BY InitInv, StepInv, PTL DEF Spec

-----------------------------------------------------------------------------
(* The theorems *)

\* A form is busy exactly while its one submission is in flight, but for the
\* text that arrives late: no click publishes or asks twice.
THEOREM OneSubmission == Spec => []BusyMeansInFlight
<1>1. Inv => BusyMeansInFlight
  <2> SUFFICES ASSUME Inv PROVE BusyMeansInFlight
    OBVIOUS
  <2>1. ASSUME NEW c PROVE Cardinality({c}) = 1
    BY FS_Singleton
  <2>2. ASSUME On("stamp") PROVE /\ Busy => calls # {}
                                 /\ calls # {} => Busy /\ \E c : calls = {c}
    BY <2>2 DEF Inv, StampInv, StampCall, Busy, On
  <2>3. ASSUME On("verify") PROVE /\ Busy => calls # {}
                                  /\ ~late /\ calls # {} => Busy /\ \E c : calls = {c}
    BY <2>3 DEF Inv, VerifyInv, Busy, On
  <2>4. ASSUME On("predicate") PROVE /\ Busy => calls # {}
                                     /\ calls # {} => Busy /\ \E c : calls = {c}
    BY <2>4 DEF Inv, PredicateInv, Busy, On
  <2>a. On("stamp") \/ On("verify") \/ On("predicate")
    BY DEF Inv, On
  <2>5. Busy => calls # {}
    BY <2>a, <2>2, <2>3, <2>4
  <2>6. ASSUME ~(On("verify") /\ late)
        PROVE  /\ calls # {} => Busy
               /\ Cardinality(calls) <= 1
    <3>1. calls # {} => Busy /\ \E c : calls = {c}
      BY <2>a, <2>6, <2>2, <2>3, <2>4, Zenon
    <3>2. CASE calls = {}
      <4>1. Cardinality(calls) = 0
        BY <3>2, FS_EmptySet, Zenon
      <4> QED
        BY <3>2, <4>1
    <3>3. ASSUME NEW c, calls = {c}, Busy PROVE Busy /\ Cardinality(calls) <= 1
      <4>1. Cardinality(calls) = 1
        BY <3>3, <2>1, Zenon
      <4> QED
        BY <3>3, <4>1
    <3> QED
      BY <3>1, <3>2, <3>3
  <2> QED
    BY <2>5, <2>6 DEF BusyMeansInFlight
<1> QED
  BY <1>1, InductiveInvariant, PTL

\* Whatever fails, in whatever order, an anchor whose opening is lost has one of
\* three causes: an error, leaving the page, the next submission.
THEOREM LossIsCaused == Spec => []LossHasCause
<1>1. Inv => LossHasCause
  <2> SUFFICES ASSUME Inv, On("stamp"), NEW nr \in DOMAIN chain
               PROVE  \/ \E c \in calls : c.nr = nr
                      \/ \E f \in saved \cup S!Downloads : f.nr = nr /\ Has(f.json, "privateOpening")
                      \/ nr \in dropped
    BY SharedTerms DEF LossHasCause, S!LossHasCause
  <2> QED
    BY DEF Inv, LossInv, OpeningHeld, InFlight
<1> QED
  BY <1>1, InductiveInvariant, PTL

\* Stamping sends the commitment alone and verifying the public receipt alone,
\* whatever the texts and files hold; and a witness is never sent.
THEOREM PrivateIsKept == Spec => []PrivateStaysLocal
<1>1. Inv => PrivateStaysLocal
  <2> SUFFICES ASSUME Inv, NEW body \in Bodies
               PROVE  /\ ~On("predicate") => ~CarriesOpening(body)
                      /\ ~Has(body, "witness")
    BY DEF PrivateStaysLocal
  <2>1. ASSUME On("stamp") PROVE ~CarriesOpening(body) /\ ~Has(body, "witness")
    <3>1. PICK b : calls = {[nr |-> Len(stamped), body |-> b]} /\ StampCall(b)
      BY <2>1 DEF Inv, StampInv, Bodies, On
    <3>2. body = b /\ b # None
      BY <3>1, <2>1 DEF Bodies, On
    <3>3. DOMAIN body = {"commitment"}
      BY <3>1, <3>2 DEF StampCall
    <3> QED
      BY <3>3 DEF CarriesOpening, PrivateMembers, Has
  <2>2. ASSUME On("verify") PROVE ~CarriesOpening(body) /\ ~Has(body, "witness")
    <3>1. PICK c \in calls : VerifyCall(c) /\ body = c.body
      BY <2>2 DEF Inv, VerifyInv, Bodies, On
    <3>2. CASE \E t : c.body = [txid |-> t]
      BY <3>1, <3>2 DEF CarriesOpening, PrivateMembers, Has
    <3>3. CASE PublicShape(c.input.publicReceipt) /\
               \E t : c.body = [txid |-> t, receipt |-> c.input.publicReceipt]
      <4>1. DOMAIN body = {"txid", "receipt"} /\ body.receipt = c.input.publicReceipt
        BY <3>1, <3>3
      <4>2. DOMAIN body.receipt \subseteq PublicMembers
        BY <4>1, <3>3 DEF PublicShape
      <4> QED
        BY <4>1, <4>2 DEF CarriesOpening, PrivateMembers, PublicMembers, Has
    <3> QED
      BY <3>1, <3>2, <3>3 DEF VerifyCall
  <2>3. ASSUME On("predicate") PROVE ~Has(body, "witness")
    BY <2>3 DEF Inv, PredicateInv, Bodies, On
  <2> QED
    BY <2>1, <2>2, <2>3 DEF Inv, On
<1> QED
  BY <1>1, InductiveInvariant, PTL

\* The phases by their place in the display.
LEMMA ActivePhase ==
  /\ S!DisplayedPhase = "hashing"    => S!ActiveIndex = 1
  /\ S!DisplayedPhase = "anchoring"  => S!ActiveIndex = 2
  /\ S!DisplayedPhase = "confirming" => S!ActiveIndex = 3
  /\ S!DisplayedPhase = "finalizing" => S!ActiveIndex = 4
  /\ S!DisplayedPhase' = "hashing"    => S!ActiveIndex' = 1
  /\ S!DisplayedPhase' = "anchoring"  => S!ActiveIndex' = 2
  /\ S!DisplayedPhase' = "confirming" => S!ActiveIndex' = 3
  /\ S!DisplayedPhase' = "finalizing" => S!ActiveIndex' = 4
<1>1. /\ DOMAIN S!Phases = {1, 2, 3, 4}
      /\ S!Phases[1] = "hashing" /\ S!Phases[2] = "anchoring"
      /\ S!Phases[3] = "confirming" /\ S!Phases[4] = "finalizing"
  BY DEF S!Phases
<1>2. \A p : /\ p = "hashing"    => (CHOOSE i \in DOMAIN S!Phases : S!Phases[i] = p) = 1
             /\ p = "anchoring"  => (CHOOSE i \in DOMAIN S!Phases : S!Phases[i] = p) = 2
             /\ p = "confirming" => (CHOOSE i \in DOMAIN S!Phases : S!Phases[i] = p) = 3
             /\ p = "finalizing" => (CHOOSE i \in DOMAIN S!Phases : S!Phases[i] = p) = 4
  BY <1>1
<1> QED
  BY <1>2 DEF S!ActiveIndex, S!Phases

\* The clock goes on, or the handler does.
LEMMA Progress ==
  ASSUME StampInv, S!Next, panel.status = "busy", panel'.status = "busy"
  PROVE  \/ /\ panel'.busyPhase = panel.busyPhase
            /\ panel.elapsed \in Nat /\ panel'.elapsed \in Nat
            /\ panel'.elapsed >= panel.elapsed
         \/ /\ panel.busyPhase = "hashing" /\ panel'.busyPhase = "anchoring"
            /\ panel'.elapsed = panel.elapsed
<1> USE DEF S!Set, StampPanelMembers
<1>a. DOMAIN panel = StampPanelMembers /\ panel.elapsed \in Nat /\ MaxElapsed \in Nat
  BY BoundsAssumption DEF StampInv, BoundsAssumption
<1>1. ~S!Editable
  BY DEF S!Editable
<1>2. CASE S!Tick
  <2>1. PICK s \in panel.elapsed + 1 .. MaxElapsed : panel' = [panel EXCEPT !.elapsed = s]
    BY <1>2 DEF S!Tick
  <2> QED
    BY <1>a, <2>1
<1>3. ASSUME NEW c \in calls, S!Hashed(c)
      PROVE  /\ panel.busyPhase = "hashing" /\ panel'.busyPhase = "anchoring"
             /\ panel'.elapsed = panel.elapsed
  BY <1>3, <1>a, SharedTerms DEF S!Hashed, StampInv, StampCall
<1>4. CASE S!Download \/ S!ServerStep
  BY <1>4, <1>a DEF S!Download, S!ServerStep
<1>5. ASSUME NEW c \in calls, S!Answer(c) \/ S!Fail(c) PROVE FALSE
  BY <1>5, <1>a DEF S!Answer, S!Fail
<1>6. ASSUME S!Leave PROVE FALSE
  <2>1. panel' = S!Mounted
    BY <1>6 DEF S!Leave
  <2> QED
    BY <2>1 DEF S!Mounted
<1> QED
  BY <1>1, <1>2, <1>3, <1>4, <1>5, <1>6
     DEF S!Next, S!PageStep, S!FileChange, S!SubmitNoFile, S!Submit

\* While a stamp runs the progress is never shown going back, however late the
\* clock and the handler are with each other.
THEOREM ProgressAdvances == Spec => PhasesAdvance
<1>1. Inv /\ [Next]_vars => [On("stamp") => S!NoPhaseBack]_vars
  <2> SUFFICES ASSUME Inv, Next, On("stamp"), panel.status = "busy", panel'.status = "busy"
               PROVE  S!ActiveIndex' >= S!ActiveIndex
    BY DEF S!NoPhaseBack
  <2>1. S!Next /\ StampInv
    BY DEF Next, Inv, On
  <2>2. panel.busyPhase \in {"hashing", "anchoring", "finalizing"}
    BY <2>1 DEF StampInv
  <2>3. CASE /\ panel'.busyPhase = panel.busyPhase
             /\ panel.elapsed \in Nat /\ panel'.elapsed \in Nat
             /\ panel'.elapsed >= panel.elapsed
    <3>1. CASE panel.busyPhase = "hashing"
      BY <2>3, <3>1, ActivePhase DEF S!DisplayedPhase
    <3>2. CASE panel.busyPhase = "anchoring"
      BY <2>3, <3>2, ActivePhase DEF S!DisplayedPhase
    <3>3. CASE panel.busyPhase = "finalizing"
      BY <2>3, <3>3, ActivePhase DEF S!DisplayedPhase
    <3> QED
      BY <2>2, <3>1, <3>2, <3>3
  <2>4. CASE /\ panel.busyPhase = "hashing" /\ panel'.busyPhase = "anchoring"
             /\ panel'.elapsed = panel.elapsed
    <3>1. panel.elapsed \in Nat
      BY <2>1 DEF StampInv
    <3> QED
      BY <2>4, <3>1, ActivePhase DEF S!DisplayedPhase
  <2> QED
    BY <2>1, <2>3, <2>4, Progress
<1> QED
  BY <1>1, InductiveInvariant, PTL DEF Spec, PhasesAdvance

-----------------------------------------------------------------------------
(* Texts *)

\* What has the shape of a public receipt is an object.
LEMMA ShapeIsObject ==
  ASSUME NEW v, V!HasPublicReceiptShape(v)
  PROVE  v # V!Scalar
BY DEF V!HasPublicReceiptShape, V!Has, V!Scalar

\* Whatever the text, if the page and the fetch route both read it, they read
\* the same receipt and txid.
THEOREM ReadersAgree == Spec => []SameExtraction
<1>1. SameExtraction
  <2> SUFFICES ASSUME NEW v, V!Invalid \notin {V!ParseReceiptInput(v), V!ParseReceiptEnvelope(v)}
               PROVE  /\ V!ParseReceiptInput(v).publicReceipt = V!ParseReceiptEnvelope(v).receipt
                      /\ V!ParseReceiptInput(v).txid = V!ParseReceiptEnvelope(v).txid
    BY DEF SameExtraction, V!SameExtraction
  <2> DEFINE public == IF V!Has(v, "publicReceipt") THEN v.publicReceipt
                       ELSE IF V!Has(v, "receipt") THEN v.receipt ELSE v
             private == IF V!Has(v, "privateOpening") THEN v.privateOpening
                        ELSE IF V!Has(v, "receipt") THEN v.receipt ELSE v
             receipt == IF V!HasPublicReceiptShape(public)
                        THEN V!ParsePublicReceipt(public) ELSE V!Invalid
             opening == IF V!HasPrivateOpeningShape(private)
                        THEN V!ParsePrivateOpening(private) ELSE V!None
             IsObject(k) == V!Has(v, k) /\ v[k] # V!Scalar
             taken == IF IsObject("publicReceipt") THEN v.publicReceipt
                      ELSE IF IsObject("receipt") THEN v.receipt ELSE v
             read == V!ParseTimestampPublicReceipt(taken)
  <2>1. V!ParseReceiptInput(v) = IF V!Invalid \in {receipt, opening} THEN V!Invalid
                                 ELSE [publicReceipt |-> receipt, privateOpening |-> opening,
                                       txid |-> V!EnvelopeTxid(v)]
    BY DEF V!ParseReceiptInput
  <2>2. V!ParseReceiptEnvelope(v) = IF read = V!Invalid THEN V!Invalid
                                    ELSE [receipt |-> read, txid |-> V!EnvelopeTxid(v)]
    BY DEF V!ParseReceiptEnvelope
  <2>3. receipt # V!Invalid /\ read # V!Invalid
    <3> HIDE DEF receipt, opening, read
    <3> QED
      BY <2>1, <2>2
  <2>4. V!HasPublicReceiptShape(public) /\ receipt = V!ParsePublicReceipt(public)
    <3> HIDE DEF public
    <3> QED
      BY <2>3
  <2>5. taken = public
    BY <2>4, ShapeIsObject
  <2>6. receipt = read
    <3> HIDE DEF public, taken
    <3> QED
      BY <2>3, <2>4, <2>5 DEF V!ParsePublicReceipt, V!ParseTimestampPublicReceipt
  <2> HIDE DEF receipt, opening, read
  <2> QED
    BY <2>1, <2>2, <2>3, <2>6
<1> QED
  BY <1>1, PTL

\* A text of full length has no prefix that could be taken from it again.
LEMMA OneLess == ASSUME NEW t, Len(t) = 4 PROVE Len(Tail(t)) = 3
OBVIOUS

LEMMA PlainIsPlain ==
  ASSUME NEW t, Len(t) = 4, Len(V!Plain(t)) = 4
  PROVE  V!Plain(t) = t
<1>1. CASE t # <<>> /\ Head(t) = 0
  <2>1. Len(Tail(t)) = 3
    BY OneLess
  <2>2. V!Plain(t) = Tail(t)
    BY <1>1 DEF V!Plain
  <2>3. Len(V!Plain(t)) = 3
    BY <2>1, <2>2, Zenon
  <2> QED
    BY <2>3
<1>2. CASE ~(t # <<>> /\ Head(t) = 0)
  BY <1>2 DEF V!Plain
<1> QED
  BY <1>1, <1>2

\* The route reads the receipt that the page parsed.
LEMMA RouteReads ==
  ASSUME NEW r, PublicShape(r), NEW t,
         V!RouteReceipt([txid |-> t, receipt |-> r]) # Invalid
  PROVE  LET q == V!RouteReceipt([txid |-> t, receipt |-> r])
         IN  q # None /\ q.commitment = r.commitment /\ q.block_height = r.block_height
<1> DEFINE IsObject(k) == V!Has(r, k) /\ r[k] # V!Scalar
           taken == IF IsObject("publicReceipt") THEN r.publicReceipt
                    ELSE IF IsObject("receipt") THEN r.receipt ELSE r
           read == V!ParseTimestampPublicReceipt(taken)
           q == V!RouteReceipt([txid |-> t, receipt |-> r])
<1>1. taken = r
  BY DEF PublicShape, PublicMembers, V!Has
<1>2. V!ParseReceiptEnvelope(r) = IF read = V!Invalid THEN V!Invalid
                                  ELSE [receipt |-> read, txid |-> V!EnvelopeTxid(r)]
  BY DEF V!ParseReceiptEnvelope
<1>3. q = IF V!ParseReceiptEnvelope(r) = V!Invalid THEN V!Invalid
          ELSE V!ParseReceiptEnvelope(r).receipt
  BY DEF V!RouteReceipt, V!Has
<1>4. q = read /\ read # V!Invalid
  <2> HIDE DEF read, q
  <2>1. q # V!Invalid
    BY SharedTerms DEF q
  <2> QED
    BY <1>2, <1>3, <2>1
<1>5. /\ V!Fixed(r.commitment, 4)
      /\ read = [V!Only(r, V!PublicMembers) EXCEPT !.commitment = V!Plain(@)]
  <2> HIDE DEF taken
  <2> QED
    BY <1>1, <1>4 DEF V!ParseTimestampPublicReceipt
<1>6. V!Plain(r.commitment) = r.commitment
  BY <1>5, PlainIsPlain DEF V!Fixed, PublicShape
<1>7. /\ DOMAIN read = DOMAIN r
      /\ read.commitment = r.commitment /\ read.block_height = r.block_height
  <2> HIDE DEF read
  <2> QED
    BY <1>5, <1>6 DEF V!Only, V!PublicMembers, PublicMembers, PublicShape
<1>8. read # None
  <2> HIDE DEF read
  <2> QED
    BY <1>7, NoneIsNothing DEF PublicShape
<1> QED
  <2> HIDE DEF q, read
  <2>1. q # None /\ q.commitment = r.commitment /\ q.block_height = r.block_height
    BY <1>4, <1>7, <1>8
  <2> QED
    BY <2>1 DEF q

\* What a result says of receipt and anchor.
LEMMA ResultFacts ==
  ASSUME NEW c, ResultOf(c)
  PROVE  LET a == panel.result.artifact
             r == panel.result.publicReceipt
             x == Chain[c.body.txid]
         IN  /\ a.txid = c.body.txid /\ a.commitment = x.commitment /\ a.blockHeight = x.height
             /\ r = c.input.publicReceipt
             /\ panel.result.document = V!Verification(c.file, c.input)
             /\ r = None => a.matchesReceipt = "null"
             /\ r # None => a.matchesReceipt =
                              IF r.commitment = x.commitment /\ r.block_height = x.height
                              THEN "true" ELSE "false"
<1> DEFINE q == V!RouteReceipt(c.body)
           x == Chain[c.body.txid]
           r == c.input.publicReceipt
           a == V!FetchAnchor(c.body.txid, q, x)
<1>1. /\ panel.result.artifact = a /\ panel.result.publicReceipt = r
      /\ panel.result.document = V!Verification(c.file, c.input)
  <2> HIDE DEF a, r
  <2> QED
    BY DEF ResultOf, a, r
<1>2. /\ a.txid = c.body.txid /\ a.commitment = x.commitment /\ a.blockHeight = x.height
      /\ a.matchesReceipt =
           IF q = None THEN "null"
           ELSE IF q.commitment = x.commitment /\ q.block_height = x.height
           THEN "true" ELSE "false"
  <2> HIDE DEF q, x
  <2> QED
    BY SharedTerms DEF V!FetchAnchor
<1>3. CASE r = None
  <2>1. PICK t : c.body = [txid |-> t]
    BY <1>3 DEF ResultOf, VerifyCall, PublicShape
  <2>2. q = None
    BY <2>1, SharedTerms DEF V!RouteReceipt, V!Has
  <2> HIDE DEF a, q, x, r
  <2> QED
    BY <1>1, <1>2, <1>3, <2>2 DEF x, r
<1>4. CASE PublicShape(r)
  <2>1. PICK t : c.body = [txid |-> t, receipt |-> r]
    BY <1>4 DEF ResultOf, VerifyCall, PublicShape
  <2>2. q # Invalid
    BY DEF ResultOf
  <2>3. q # None /\ q.commitment = r.commitment /\ q.block_height = r.block_height
    BY <1>4, <2>1, <2>2, RouteReads
  <2>4. r # None
    BY <1>4 DEF PublicShape
  <2> HIDE DEF a, q, x, r
  <2> QED
    BY <1>1, <1>2, <2>3, <2>4 DEF x, r
<1> QED
  BY <1>3, <1>4 DEF ResultOf, VerifyCall

\* Title, receipt and anchor of a result belong together, though receipt texts
\* arrive while the route works.
THEOREM ResultsCohere == Spec => []ShownTogether
<1>1. Inv => ShownTogether
  <2> SUFFICES ASSUME Inv, On("verify"), panel.result.artifact # None
               PROVE  V!Shown.title = IF V!Shown.receipt = None THEN "noReceipt"
                                      ELSE IF V!Shown.receipt = V!Shown.anchor
                                      THEN "match" ELSE "mismatch"
    BY SharedTerms DEF ShownTogether, V!ShownTogether, V!Result
  <2> DEFINE a == panel.result.artifact
             r == panel.result.publicReceipt
  <2>1. PICK c : ResultOf(c)
    BY SharedTerms DEF Inv, VerifyInv, V!NoResult
  <2>2. /\ V!Shown.title = V!Title(a)
        /\ V!Shown.anchor = <<a.commitment, a.blockHeight>>
        /\ V!Shown.receipt = IF r = None THEN None ELSE <<r.commitment, r.block_height>>
    <3> HIDE DEF a, r
    <3> QED
      BY SharedTerms DEF V!Shown, V!Result, a, r
  <2>3. CASE r = None
    <3>1. V!Title(a) = "noReceipt"
      BY <2>1, <2>3, ResultFacts DEF V!Title
    <3> QED
      BY <2>2, <2>3, <3>1
  <2>4. CASE r # None
    <3>1. V!Shown.receipt = <<r.commitment, r.block_height>>
      BY <2>2, <2>4
    <3>2. V!Shown.receipt # None
      BY <3>1 DEF None
    <3>3. a.matchesReceipt = IF r.commitment = a.commitment /\ r.block_height = a.blockHeight
                             THEN "true" ELSE "false"
      BY <2>1, <2>4, ResultFacts
    <3>4. V!Title(a) = IF r.commitment = a.commitment /\ r.block_height = a.blockHeight
                       THEN "match" ELSE "mismatch"
      BY <3>3 DEF V!Title
    <3> HIDE DEF a, r
    <3>5. V!Shown.receipt = V!Shown.anchor <=>
            r.commitment = a.commitment /\ r.block_height = a.blockHeight
      BY <3>1, <2>2
    <3> QED
      BY <2>2, <3>2, <3>4, <3>5
  <2> QED
    BY <2>3, <2>4
<1> QED
  BY <1>1, InductiveInvariant, PTL

\* A verdict that receipt and file match means that the chain holds, at the
\* height shown, a commitment to that file.
THEOREM VerdictsAreSound == Spec => []VerdictSound
<1>1. Inv => VerdictSound
  <2> DEFINE a == panel.result.artifact
             v == panel.result.document
             r == panel.result.publicReceipt
  <2> SUFFICES ASSUME Inv, On("verify"), a # None, v # None,
                      a.matchesReceipt = "true", v.matchesReceipt
               PROVE  \E d \in Docs : /\ V!HashDocument(d) = v.hash
                                     /\ V!CommitsTo(Chain[a.txid].commitment, d)
                                     /\ Chain[a.txid].height = a.blockHeight
    BY SharedTerms DEF VerdictSound, V!VerdictSound, V!Result
  <2>1. PICK c : ResultOf(c)
    BY SharedTerms DEF Inv, VerifyInv, V!NoResult
  <2> DEFINE x == Chain[c.body.txid]
             d == c.file
             o == c.input.privateOpening
  <2>2. /\ a.txid = c.body.txid /\ a.blockHeight = x.height
        /\ r = c.input.publicReceipt /\ v = V!Verification(d, c.input)
    BY <2>1, ResultFacts
  <2>3. r # None /\ r.commitment = x.commitment
    BY <2>1, ResultFacts
  <2>4. d # None /\ o # None /\ v = V!VerifyDocument(d, r, o)
    <3> HIDE DEF a, v, r, x, d, o
    <3> QED
      BY <2>2, SharedTerms DEF V!Verification, d, o, v
  <2>5. d \in Docs
    BY <2>1, <2>4 DEF ResultOf, VerifyCall
  <2>6. /\ v.hash = V!HashDocument(d)
        /\ V!OpeningMatchesFile(o, d) /\ V!CommitmentFromOpening(o) = r.commitment
    <3> HIDE DEF d, r, o, v
    <3> QED
      BY <2>4 DEF V!VerifyDocument, v
  <2> DEFINE q == Digest[d]
  <2>7. ASSUME V!IsLegacyOpening(o) PROVE V!CommitsTo(r.commitment, d)
    <3>1. o.doc_hash_lo = <<-q[1]>> /\ o.doc_hash_hi = <<-q[2]>>
      BY <2>6, <2>7 DEF V!OpeningMatchesFile, V!HashDocument, V!Lo
    <3>2. r.commitment = <<1, V!Pack(o.doc_hash_lo), V!Pack(o.doc_hash_hi), V!Pack(o.nonce)>>
      BY <2>6, <2>7 DEF V!CommitmentFromOpening, V!CommitmentV1
    <3>3. r.commitment = <<1, -q[1], -q[2], V!Pack(o.nonce)>>
      BY <3>1, <3>2 DEF V!Pack
    <3>4. r.commitment[4] = V!Pack(o.nonce)
      BY <3>3
    <3>5. r.commitment = <<1, -q[1], -q[2], r.commitment[4]>>
      BY <3>3, <3>4
    <3> HIDE DEF r
    <3> QED
      BY <3>5 DEF V!CommitsTo
  <2>8. ASSUME ~V!IsLegacyOpening(o) PROVE V!CommitsTo(r.commitment, d)
    <3>1. o.doc_hash_lo = V!Lo(q) /\ o.doc_hash_hi = V!Hi(q)
      BY <2>6, <2>8 DEF V!OpeningMatchesFile, V!HashDocument
    <3>2. r.commitment = <<2, V!Pack(o.doc_hash_lo), V!Pack(o.doc_hash_hi), V!Pack(o.nonce)>>
      BY <2>6, <2>8 DEF V!CommitmentFromOpening, V!CommitmentV2
    <3>3. r.commitment[4] = V!Pack(o.nonce)
      BY <3>2
    <3>4. r.commitment = <<2, V!Pack(V!Lo(q)), V!Pack(V!Hi(q)), r.commitment[4]>>
      BY <3>1, <3>2, <3>3
    <3> HIDE DEF r
    <3> QED
      BY <3>4 DEF V!CommitsTo
  <2>9. V!CommitsTo(r.commitment, d)
    BY <2>7, <2>8
  <2> QED
    BY <2>2, <2>3, <2>5, <2>6, <2>9
<1> QED
  BY <1>1, InductiveInvariant, PTL

-----------------------------------------------------------------------------
(* The files that the stamp page offers *)

Receipt(nr, h) == S!Filled(S!DraftOf(nr), h)
Anchor(nr)     == [txid |-> S!Txid(nr), commitment |-> chain[nr].commitment,
                   blockHeight |-> chain[nr].height]
Public(nr)     == S!BuildPublicReceipt(Receipt(nr, chain[nr].height))
Private(nr)    == S!BuildPrivateOpening(Receipt(nr, chain[nr].height))

FilesOf(nr) ==
  {[txid |-> S!Txid(nr), publicReceipt |-> Public(nr), anchor |-> Anchor(nr)],
   [txid |-> S!Txid(nr), publicReceipt |-> Public(nr), privateOpening |-> Private(nr)],
   [txid |-> S!Txid(nr), publicReceipt |-> Public(nr), privateOpening |-> Private(nr),
    anchor |-> Anchor(nr)]}

Confirmed(nr) == nr \in DOMAIN chain /\ chain[nr].height \in Nat \ {0}

\* Anchors hold the commitments of the drafts, and what was or is offered was
\* made from a confirmed one.
FilesInv ==
  /\ \A nr \in DOMAIN chain : /\ nr \in 1 .. Len(stamped) /\ chain[nr].height \in Nat
                              /\ chain[nr].commitment = S!DraftOf(nr).commitment
  /\ server \cup InFlight \subseteq 1 .. Len(stamped)
  /\ \A f \in saved : Confirmed(f.nr) /\ f.json \in FilesOf(f.nr)
  /\ panel.result # None =>
       /\ Confirmed(Len(stamped))
       /\ panel.result = [publicReceipt |-> Public(Len(stamped)),
                          privateOpening |-> Private(Len(stamped)),
                          anchor |-> Anchor(Len(stamped))]

LEMMA DownloadsAreFiles ==
  ASSUME FilesInv, NEW f \in S!Downloads
  PROVE  Confirmed(f.nr) /\ f.json \in FilesOf(f.nr)
<1>1. f.nr = Len(stamped) /\ panel.result # None
  BY DownloadsOfLast
<1>2. f.json \in {S!PublicReceiptFile, S!PrivateOpeningFile, S!ReceiptKit}
  BY SharedTerms DEF S!Downloads
<1>3. /\ panel.result.publicReceipt = Public(f.nr)
      /\ panel.result.privateOpening = Private(f.nr)
      /\ panel.result.anchor = Anchor(f.nr)
      /\ panel.result.anchor.txid = S!Txid(f.nr)
  <2>1. panel.result = [publicReceipt |-> Public(f.nr), privateOpening |-> Private(f.nr),
                        anchor |-> Anchor(f.nr)]
    BY <1>1 DEF FilesInv
  <2>2. Anchor(f.nr).txid = S!Txid(f.nr)
    BY DEF Anchor
  <2> QED
    BY <2>1, <2>2
<1>4. f.json \in FilesOf(f.nr)
  BY <1>2, <1>3 DEF FilesOf, S!PublicReceiptFile, S!PrivateOpeningFile, S!ReceiptKit
<1> QED
  BY <1>1, <1>4 DEF FilesInv

\* Files depend on the stamped file and on the confirmed anchor.
LEMMA SameFiles ==
  ASSUME NEW nr, S!DraftOf(nr)' = S!DraftOf(nr), chain'[nr] = chain[nr]
  PROVE  /\ FilesOf(nr)' = FilesOf(nr) /\ Public(nr)' = Public(nr)
         /\ Private(nr)' = Private(nr) /\ Anchor(nr)' = Anchor(nr)
<1>1. Receipt(nr, chain[nr].height)' = Receipt(nr, chain[nr].height)
  BY DEF Receipt, S!Filled
<1>2. Public(nr)' = Public(nr) /\ Private(nr)' = Private(nr)
  BY <1>1 DEF Public, Private, S!BuildPublicReceipt, S!BuildPrivateOpening, S!Plain
<1>3. Anchor(nr)' = Anchor(nr)
  BY DEF Anchor, S!Txid, S!Fresh
<1> QED
  BY <1>2, <1>3 DEF FilesOf, S!Txid, S!Fresh

\* A file stays stamped under its number.
LEMMA DraftStays ==
  ASSUME NEW nr, stamped'[nr] = stamped[nr]
  PROVE  S!DraftOf(nr)' = S!DraftOf(nr)
BY DEF S!DraftOf, S!Draft, S!HashDocument, S!Fresh, S!Lo, S!Hi, S!Sha, S!CommitmentV2, S!Pack

\* What a step has to show for FilesInv: no file or confirmed anchor changes,
\* and what is new was downloaded, stamped, published or answered.
LEMMA FilesKept ==
  ASSUME StampInv, FilesInv,
         Len(stamped') \in Nat, Len(stamped) <= Len(stamped'),
         \A nr \in 1 .. Len(stamped) : stamped'[nr] = stamped[nr],
         \A nr \in DOMAIN chain :
           /\ nr \in DOMAIN chain' /\ chain'[nr].commitment = chain[nr].commitment
           /\ chain'[nr].height \in Nat
           /\ chain[nr].height # 0 => chain'[nr] = chain[nr],
         \A nr \in DOMAIN chain' \ DOMAIN chain :
           /\ nr \in server /\ chain'[nr].height \in Nat
           /\ chain'[nr].commitment = S!DraftOf(nr).commitment,
         (server \cup InFlight)' \subseteq 1 .. Len(stamped'),
         saved' \subseteq saved \cup S!Downloads,
         \/ panel'.result = None
         \/ panel'.result = panel.result /\ Len(stamped') = Len(stamped)
         \/ /\ Confirmed(Len(stamped)) /\ Len(stamped') = Len(stamped)
            /\ panel'.result = [publicReceipt |-> Public(Len(stamped)),
                                privateOpening |-> Private(Len(stamped)),
                                anchor |-> Anchor(Len(stamped))]
  PROVE  FilesInv'
<1>0. Len(stamped) \in Nat
  BY DEF StampInv
<1>1. ASSUME NEW nr \in 1 .. Len(stamped) PROVE S!DraftOf(nr)' = S!DraftOf(nr)
  BY <1>1, DraftStays
<1>2. ASSUME NEW nr, Confirmed(nr)
      PROVE  /\ Confirmed(nr)' /\ FilesOf(nr)' = FilesOf(nr) /\ Public(nr)' = Public(nr)
             /\ Private(nr)' = Private(nr) /\ Anchor(nr)' = Anchor(nr)
  <2>1. nr \in 1 .. Len(stamped) /\ nr \in DOMAIN chain /\ chain[nr].height \in Nat \ {0}
    BY <1>2 DEF FilesInv, Confirmed
  <2>2. nr \in DOMAIN chain' /\ chain'[nr] = chain[nr]
    BY <2>1
  <2>3. Confirmed(nr)'
    BY <2>1, <2>2 DEF Confirmed
  <2>4. S!DraftOf(nr)' = S!DraftOf(nr)
    BY <2>1, <1>1
  <2> QED
    BY <2>2, <2>3, <2>4, SameFiles
<1>3. ASSUME NEW nr \in DOMAIN chain'
      PROVE  /\ nr \in 1 .. Len(stamped') /\ chain'[nr].height \in Nat
             /\ chain'[nr].commitment = S!DraftOf(nr)'.commitment
  <2>1. nr \in 1 .. Len(stamped) /\ chain'[nr].height \in Nat
        /\ chain'[nr].commitment = S!DraftOf(nr).commitment
    BY <1>3 DEF FilesInv
  <2> QED
    BY <2>1, <1>0, <1>1
<1>4. ASSUME NEW f \in saved' PROVE Confirmed(f.nr)' /\ f.json \in FilesOf(f.nr)'
  <2>1. Confirmed(f.nr) /\ f.json \in FilesOf(f.nr)
    BY <1>4, DownloadsAreFiles DEF FilesInv
  <2> QED
    BY <2>1, <1>2
<1>5. ASSUME panel'.result # None
      PROVE  (/\ Confirmed(Len(stamped))
              /\ panel.result = [publicReceipt |-> Public(Len(stamped)),
                                 privateOpening |-> Private(Len(stamped)),
                                 anchor |-> Anchor(Len(stamped))])'
  <2> DEFINE n == Len(stamped)
  <2>1. /\ Confirmed(n) /\ Len(stamped') = n
        /\ panel'.result = [publicReceipt |-> Public(n), privateOpening |-> Private(n),
                            anchor |-> Anchor(n)]
    BY <1>5 DEF FilesInv
  <2>2. /\ Confirmed(n)' /\ Public(n)' = Public(n)
        /\ Private(n)' = Private(n) /\ Anchor(n)' = Anchor(n)
    BY <2>1, <1>2
  <2> QED
    BY <2>1, <2>2
<1>6. ((server \cup InFlight) \subseteq 1 .. Len(stamped))'
  OBVIOUS
<1> QED
  BY <1>3, <1>4, <1>5, <1>6 DEF FilesInv

\* Every step of the stamp page is of that kind.
LEMMA StampFiles ==
  ASSUME StampInv, FilesInv, S!Next
  PROVE  FilesInv'
<1> USE SharedTerms DEF S!Set, S!Nr, StampPanelMembers
<1> DEFINE SameFile == \A nr \in 1 .. Len(stamped) : stamped'[nr] = stamped[nr]
<1>a. /\ DOMAIN panel = StampPanelMembers
      /\ \A c \in calls : c.nr = Len(stamped)
      /\ Len(stamped) \in Nat
  BY DEF StampInv
<1>b. /\ server \subseteq 1 .. Len(stamped) /\ InFlight \subseteq 1 .. Len(stamped)
      /\ \A nr \in DOMAIN chain : chain[nr].height \in Nat
  BY DEF FilesInv
<1>c. ASSUME UNCHANGED <<stamped, chain>>, saved' \subseteq saved \cup S!Downloads,
             panel'.result = None \/ panel'.result = panel.result,
             server' \subseteq server \cup InFlight, InFlight' \subseteq InFlight
      PROVE  FilesInv'
  <2>1. (server \cup InFlight)' \subseteq 1 .. Len(stamped')
    BY <1>c, <1>b
  <2> QED
    BY <1>a, <1>b, <1>c, <2>1, FilesKept
<1>1. ASSUME NEW f \in Docs \cup {None}, S!FileChange(f) PROVE FilesInv'
  <2>1. panel'.result = panel.result /\ UNCHANGED <<calls, stamped, server, chain, saved>>
    BY <1>1, <1>a DEF S!FileChange
  <2> QED
    BY <2>1, <1>c DEF InFlight
<1>2. CASE S!SubmitNoFile
  <2>1. panel'.result = None /\ UNCHANGED <<calls, stamped, server, chain, saved>>
    BY <1>2, <1>a DEF S!SubmitNoFile
  <2> QED
    BY <2>1, <1>c DEF InFlight
<1>3. CASE S!Submit
  <2>1. /\ panel'.result = None /\ UNCHANGED <<server, chain, saved>>
        /\ panel.file \in Docs /\ stamped' = Append(stamped, panel.file)
        /\ \A c \in calls' : c \in calls \/ c.nr = Len(stamped) + 1
    BY <1>3, <1>a DEF S!Submit, StampInv
  <2>2. stamped \in Seq(Docs)
    BY DEF StampInv
  <2>3. Len(stamped') = Len(stamped) + 1 /\ SameFile
    BY <2>1, <2>2
  <2>4. (server \cup InFlight)' \subseteq 1 .. Len(stamped')
    <3>1. \A c \in calls' : c.nr \in InFlight \/ c.nr = Len(stamped) + 1
      BY <2>1 DEF InFlight
    <3>2. \A nr \in (server \cup InFlight)' : nr \in 1 .. Len(stamped) \/ nr = Len(stamped) + 1
      BY <2>1, <3>1, <1>b DEF InFlight
    <3> QED
      BY <2>3, <3>2, <1>a
  <2> QED
    BY <1>a, <1>b, <2>1, <2>3, <2>4, FilesKept
<1>4. CASE S!Tick
  <2>1. panel'.result = panel.result /\ UNCHANGED <<calls, stamped, server, chain, saved>>
    BY <1>4, <1>a DEF S!Tick
  <2> QED
    BY <2>1, <1>c DEF InFlight
<1>5. CASE S!Leave
  <2>1. /\ UNCHANGED <<stamped, chain, saved>> /\ panel'.result = None
        /\ server' \subseteq server \cup InFlight /\ InFlight' = {}
    BY <1>5 DEF S!Leave, S!Mounted, InFlight
  <2> QED
    BY <2>1, <1>c
<1>6. CASE S!Download
  <2>1. UNCHANGED <<panel, calls, stamped, server, chain>> /\ saved' \subseteq saved \cup S!Downloads
    BY <1>6 DEF S!Download
  <2> QED
    BY <2>1, <1>c DEF InFlight
<1>7. ASSUME NEW c \in calls, S!Hashed(c) PROVE FilesInv'
  <2>1. /\ UNCHANGED <<stamped, chain, saved>> /\ panel'.result = panel.result
        /\ server' \subseteq server \cup InFlight
    BY <1>7, <1>a DEF S!Hashed, InFlight
  <2>2. \A b \in calls' : b.nr \in InFlight
    <3> DEFINE posted == [commitment |-> S!DraftOf(c.nr).commitment]
    <3> HIDE DEF posted
    <3>1. calls' = (calls \ {c}) \cup {[c EXCEPT !.body = posted]}
      BY <1>7 DEF S!Hashed, posted
    <3>2. c.nr \in InFlight /\ "nr" \in DOMAIN c
      BY DEF InFlight, StampInv
    <3>3. [c EXCEPT !.body = posted].nr = c.nr
      BY <3>2
    <3> QED
      BY <3>1, <3>2, <3>3 DEF InFlight
  <2> QED
    BY <2>1, <2>2, <1>c DEF InFlight
<1>8. ASSUME NEW c \in calls, S!Answer(c) PROVE FilesInv'
  <2> DEFINE n == Len(stamped)
  <2>1. /\ UNCHANGED <<stamped, chain, saved>> /\ c.nr = n
        /\ server' \subseteq server /\ InFlight' \subseteq InFlight
        /\ n \in DOMAIN chain /\ chain[n].height > 0
    BY <1>8, <1>a DEF S!Answer, InFlight
  <2>2. Confirmed(n)
    BY <2>1, <1>b DEF Confirmed
  <2>3. panel'.result = [publicReceipt |-> Public(n), privateOpening |-> Private(n),
                         anchor |-> Anchor(n)]
    BY <1>8, <1>a, <2>1 DEF S!Answer, Public, Private, Receipt, Anchor
  <2>4. (server \cup InFlight)' \subseteq 1 .. Len(stamped')
    BY <2>1, <1>b
  <2> QED
    BY <1>a, <1>b, <2>1, <2>2, <2>3, <2>4, FilesKept
<1>9. ASSUME NEW c \in calls, S!Fail(c) PROVE FilesInv'
  <2>1. /\ UNCHANGED <<stamped, server, chain, saved>> /\ panel'.result = panel.result
        /\ InFlight' \subseteq InFlight
    BY <1>9, <1>a DEF S!Fail, InFlight
  <2> QED
    BY <2>1, <1>c
<1>10. CASE S!ServerStep
  <2>1. UNCHANGED <<panel, calls, stamped, saved>> /\ server' \subseteq server
    BY <1>10 DEF S!ServerStep
  <2> DEFINE Grown ==
        /\ \A nr \in DOMAIN chain :
             /\ nr \in DOMAIN chain' /\ chain'[nr].commitment = chain[nr].commitment
             /\ chain'[nr].height \in Nat
             /\ chain[nr].height # 0 => chain'[nr] = chain[nr]
        /\ \A nr \in DOMAIN chain' \ DOMAIN chain :
             /\ nr \in server /\ chain'[nr].height \in Nat
             /\ chain'[nr].commitment = S!DraftOf(nr).commitment
  <2>2. Grown
    <3>1. ASSUME NEW nr \in server, nr \notin DOMAIN chain,
                 chain' = [n \in DOMAIN chain \cup {nr} |->
                             IF n = nr THEN [commitment |-> S!DraftOf(nr).commitment, height |-> 0]
                             ELSE chain[n]]
          PROVE  Grown
      BY <3>1, <1>b
    <3>2. ASSUME NEW nr \in DOMAIN chain, chain[nr].height = 0,
                 chain' = [chain EXCEPT ![nr].height = nr]
          PROVE  Grown
      <4>1. nr \in Nat
        BY DEF FilesInv
      <4>2. DOMAIN chain' = DOMAIN chain /\ chain'[nr] = [chain[nr] EXCEPT !.height = nr]
            /\ \A n \in DOMAIN chain \ {nr} : chain'[n] = chain[n]
        BY <3>2
      <4>3. chain'[nr].commitment = chain[nr].commitment /\ chain'[nr].height \in Nat
        BY <4>1, <4>2
      <4> QED
        BY <1>b, <3>2, <4>2, <4>3
    <3>3. CASE UNCHANGED chain
      BY <3>3, <1>b
    <3> QED
      BY <1>10, <3>1, <3>2, <3>3 DEF S!ServerStep
  <2>3. (server \cup InFlight)' \subseteq 1 .. Len(stamped')
    BY <2>1, <1>b DEF InFlight
  <2> QED
    BY <1>a, <2>1, <2>2, <2>3, FilesKept
<1> QED
  BY <1>1, <1>2, <1>3, <1>4, <1>5, <1>6, <1>7, <1>8, <1>9, <1>10 DEF S!Next, S!PageStep

-----------------------------------------------------------------------------
(* What the verify page makes of them *)

\* A text of n words without a prefix.
Hex(t, n) == t \in Seq(Int) /\ Len(t) = n /\ t[1] # 0

LEMMA PlainHex ==
  ASSUME NEW n \in Nat \ {0}, NEW t, Hex(t, n)
  PROVE  S!Plain(t) = t /\ S!Fixed(t, n)
<1>1. Head(t) = t[1]
  BY DEF Hex
<1>2. S!Plain(t) = t
  BY <1>1 DEF S!Plain, Hex
<1> QED
  BY <1>2 DEF S!Fixed, Hex

LEMMA HexTexts ==
  /\ \A a, b \in Int : a # 0 => Hex(<<a, b>>, 2)
  /\ \A a, b, c, d \in Int : a # 0 => Hex(<<a, b, c, d>>, 4)
<1>1. ASSUME NEW a \in Int, NEW b \in Int, a # 0 PROVE Hex(<<a, b>>, 2)
  BY <1>1 DEF Hex
<1>2. ASSUME NEW a \in Int, NEW b \in Int, NEW c \in Int, NEW d \in Int, a # 0
      PROVE  Hex(<<a, b, c, d>>, 4)
  BY <1>2 DEF Hex
<1> QED
  BY <1>1, <1>2

\* The draft of a submission: its texts have the lengths the parsers ask for,
\* and it opens its commitment to the stamped file.
LEMMA DraftTexts ==
  ASSUME NEW nr \in Nat, stamped[nr] \in Docs
  PROVE  LET R == S!DraftOf(nr)
             H == S!HashDocument(stamped[nr])
         IN /\ DOMAIN R = {"commitment_scheme", "commitment", "block_height", "nonce",
                           "doc_hash_lo", "doc_hash_hi", "doc_hash_sha256"}
            /\ R.commitment_scheme = "v2"
            /\ Hex(R.commitment, 4) /\ Hex(R.nonce, 2) /\ Hex(R.doc_hash_lo, 2)
            /\ Hex(R.doc_hash_hi, 2) /\ Hex(R.doc_hash_sha256, 4)
            /\ R.doc_hash_lo = H.lo /\ R.doc_hash_hi = H.hi /\ R.doc_hash_sha256 = H.sha
            /\ R.commitment = S!CommitmentV2(R.doc_hash_lo, R.doc_hash_hi, R.nonce)
<1> DEFINE q == Digest[stamped[nr]]
           n == S!Fresh(nr)
<1>1. q \in Word \X Word \X Word \X Word
  BY FormatsAssumption DEF FormatsAssumption
<1>2. /\ q[1] \in Int /\ q[2] \in Int /\ q[3] \in Int /\ q[4] \in Int
      /\ q[1] # 0 /\ q[2] # 0 /\ q[3] # 0 /\ q[4] # 0
  BY <1>1 DEF Word
<1>3. n \in Int /\ n # 0
  BY DEF S!Fresh
<1> HIDE DEF q, n
<1> DEFINE lo == <<-q[2], -q[1]>>
           hi == <<-q[4], -q[3]>>
           sha == <<q[1], q[2], q[3], q[4]>>
           com == S!CommitmentV2(lo, hi, <<n, n>>)
<1>4. Hex(lo, 2) /\ Hex(hi, 2) /\ Hex(sha, 4) /\ Hex(<<n, n>>, 2)
  <2>1. /\ -q[1] \in Int /\ -q[2] \in Int /\ -q[3] \in Int /\ -q[4] \in Int
        /\ -q[2] # 0 /\ -q[4] # 0
    BY <1>2
  <2>2. Hex(lo, 2)
    BY <2>1, HexTexts, Zenon
  <2>3. Hex(hi, 2)
    BY <2>1, HexTexts, Zenon
  <2>4. Hex(sha, 4)
    BY <1>2, HexTexts, Zenon
  <2>5. Hex(<<n, n>>, 2)
    BY <1>3, HexTexts, Zenon
  <2> QED
    BY <2>2, <2>3, <2>4, <2>5
<1>5. Hex(com, 4)
  <2>1. /\ S!Pack(lo) = 100 * (-q[2]) + (-q[1])
        /\ S!Pack(hi) = 100 * (-q[4]) + (-q[3])
        /\ S!Pack(<<n, n>>) = 100 * n + n
    BY DEF S!Pack
  <2>2. S!Pack(lo) \in Int /\ S!Pack(hi) \in Int /\ S!Pack(<<n, n>>) \in Int
    BY <1>2, <1>3, <2>1
  <2>3. com = <<2, S!Pack(lo), S!Pack(hi), S!Pack(<<n, n>>)>>
    BY DEF S!CommitmentV2
  <2> HIDE DEF com, lo, hi
  <2> QED
    BY <2>2, <2>3, HexTexts
<1>6. S!HashDocument(stamped[nr]) = [lo |-> lo, hi |-> hi, sha |-> sha]
  BY DEF S!HashDocument, S!Lo, S!Hi, S!Sha, q
<1>7. S!DraftOf(nr) =
        [commitment_scheme |-> "v2", commitment |-> com, block_height |-> 0,
         nonce |-> <<n, n>>, doc_hash_lo |-> lo, doc_hash_hi |-> hi,
         doc_hash_sha256 |-> sha]
  BY <1>6 DEF S!DraftOf, S!Draft, n
<1> HIDE DEF lo, hi, sha
<1>8. com = S!CommitmentV2(lo, hi, <<n, n>>)
  OBVIOUS
<1> HIDE DEF com
<1> QED
  BY <1>4, <1>5, <1>6, <1>7, <1>8

\* The two halves of the receipt: the parsers leave them as they are.
LEMMA HalvesParse ==
  ASSUME NEW nr \in Nat, stamped[nr] \in Docs, chain[nr].height \in Nat
  PROVE  LET R == S!DraftOf(nr) IN
         /\ Public(nr) = [commitment_scheme |-> "v2", commitment |-> R.commitment,
                          block_height |-> chain[nr].height]
         /\ Private(nr) = [commitment_scheme |-> "v2", nonce |-> R.nonce,
                           doc_hash_lo |-> R.doc_hash_lo, doc_hash_hi |-> R.doc_hash_hi,
                           doc_hash_sha256 |-> R.doc_hash_sha256]
         /\ S!HasPublicReceiptShape(Public(nr)) /\ S!HasPrivateOpeningShape(Private(nr))
         /\ S!ParsePublicReceipt(Public(nr)) = Public(nr)
         /\ S!ParsePrivateOpening(Private(nr)) = Private(nr)
<1> DEFINE R == S!DraftOf(nr)
           h == chain[nr].height
<1>1. /\ DOMAIN R = {"commitment_scheme", "commitment", "block_height", "nonce",
                     "doc_hash_lo", "doc_hash_hi", "doc_hash_sha256"}
      /\ R.commitment_scheme = "v2"
      /\ Hex(R.commitment, 4) /\ Hex(R.nonce, 2) /\ Hex(R.doc_hash_lo, 2)
      /\ Hex(R.doc_hash_hi, 2) /\ Hex(R.doc_hash_sha256, 4)
  BY DraftTexts
<1>2. /\ S!Plain(R.commitment) = R.commitment /\ S!Plain(R.nonce) = R.nonce
      /\ S!Plain(R.doc_hash_lo) = R.doc_hash_lo /\ S!Plain(R.doc_hash_hi) = R.doc_hash_hi
      /\ S!Plain(R.doc_hash_sha256) = R.doc_hash_sha256
      /\ S!Fixed(R.commitment, 4) /\ S!Fixed(R.nonce, 2) /\ S!Fixed(R.doc_hash_lo, 2)
      /\ S!Fixed(R.doc_hash_hi, 2) /\ S!Fixed(R.doc_hash_sha256, 4)
  <2>1. 2 \in Nat \ {0} /\ 4 \in Nat \ {0}
    OBVIOUS
  <2> QED
    BY <1>1, <2>1, PlainHex
<1> DEFINE r == S!Filled(R, h)
<1>3. /\ r.commitment_scheme = "v2" /\ r.commitment = R.commitment /\ r.block_height = h
      /\ r.nonce = R.nonce /\ r.doc_hash_lo = R.doc_hash_lo /\ r.doc_hash_hi = R.doc_hash_hi
      /\ r.doc_hash_sha256 = R.doc_hash_sha256
  <2> HIDE DEF R, h
  <2> QED
    BY <1>1 DEF S!Filled
<1>4. Public(nr) = S!BuildPublicReceipt(r) /\ Private(nr) = S!BuildPrivateOpening(r)
  BY DEF Public, Private, Receipt
<1> HIDE DEF r, R, h
<1>5. Public(nr) = [commitment_scheme |-> "v2", commitment |-> R.commitment, block_height |-> h]
  BY <1>2, <1>3, <1>4 DEF S!BuildPublicReceipt
<1>6. Private(nr) = [commitment_scheme |-> "v2", nonce |-> R.nonce,
                     doc_hash_lo |-> R.doc_hash_lo, doc_hash_hi |-> R.doc_hash_hi,
                     doc_hash_sha256 |-> R.doc_hash_sha256]
  BY <1>2, <1>3, <1>4 DEF S!BuildPrivateOpening
<1>7. h \in Nat
  BY DEF h
<1>8. S!HasPublicReceiptShape(Public(nr)) /\ S!HasPrivateOpeningShape(Private(nr))
  BY <1>5, <1>6 DEF S!HasPublicReceiptShape, S!HasPrivateOpeningShape, S!Has
<1>9. S!ParsePublicReceipt(Public(nr)) = Public(nr)
  <2>1. S!Only(Public(nr), S!PublicMembers) = Public(nr)
    BY <1>5 DEF S!Only, S!PublicMembers
  <2>2. [Public(nr) EXCEPT !.commitment = S!Plain(@)] = Public(nr)
    BY <1>2, <1>5
  <2>3. S!Fixed(Public(nr).commitment, 4) /\ Public(nr).block_height >= 0
    BY <1>2, <1>5, <1>7
  <2> QED
    BY <2>1, <2>2, <2>3 DEF S!ParsePublicReceipt
<1>10. S!ParsePrivateOpening(Private(nr)) = Private(nr)
  <2> DEFINE v == Private(nr)
             ms == {"commitment_scheme", "nonce", "doc_hash_lo", "doc_hash_hi",
                    "doc_hash_sha256"}
  <2>1. /\ S!Has(v, "commitment_scheme") /\ v.commitment_scheme = "v2"
        /\ S!Has(v, "doc_hash_sha256")
    BY <1>6 DEF S!Has
  <2>2. /\ S!Fixed(v.nonce, 2) /\ S!Fixed(v.doc_hash_lo, 2) /\ S!Fixed(v.doc_hash_hi, 2)
        /\ S!Fixed(v.doc_hash_sha256, 4)
    BY <1>2, <1>6
  <2>3. [k \in ms |-> IF k # "commitment_scheme" THEN S!Plain(v[k]) ELSE "v2"] = v
    <3>1. DOMAIN v = ms /\ v = [k \in ms |-> v[k]]
      BY <1>6
    <3>2. \A k \in ms : (IF k # "commitment_scheme" THEN S!Plain(v[k]) ELSE "v2") = v[k]
      BY <1>2, <1>6
    <3> HIDE DEF v, ms
    <3> QED
      BY <3>1, <3>2
  <2> HIDE DEF v
  <2>4. S!ParsePrivateOpening(v) =
          [k \in ms |-> IF k # "commitment_scheme" THEN S!Plain(v[k]) ELSE "v2"]
    BY <2>1, <2>2 DEF S!ParsePrivateOpening
  <2> QED
    BY <2>3, <2>4 DEF v
<1> QED
  BY <1>5, <1>6, <1>8, <1>9, <1>10 DEF R, h

\* What the verify page reads out of an offered file.
LEMMA FilesParse ==
  ASSUME NEW nr \in Nat, stamped[nr] \in Docs, chain[nr].height \in Nat,
         NEW v \in FilesOf(nr)
  PROVE  LET input == S!ParseReceiptInput(v) IN
         /\ input # S!Invalid
         /\ input.txid = S!Txid(nr) /\ input.publicReceipt = Public(nr)
         /\ S!Has(v, "privateOpening") => input.privateOpening = Private(nr)
<1> DEFINE pub == Public(nr)
           priv == Private(nr)
           public == IF S!Has(v, "publicReceipt") THEN v.publicReceipt
                     ELSE IF S!Has(v, "receipt") THEN v.receipt ELSE v
           private == IF S!Has(v, "privateOpening") THEN v.privateOpening
                      ELSE IF S!Has(v, "receipt") THEN v.receipt ELSE v
           receipt == IF S!HasPublicReceiptShape(public)
                      THEN S!ParsePublicReceipt(public) ELSE S!Invalid
           opening == IF S!HasPrivateOpeningShape(private)
                      THEN S!ParsePrivateOpening(private) ELSE S!None
<1>1. /\ S!HasPublicReceiptShape(pub) /\ S!HasPrivateOpeningShape(priv)
      /\ S!ParsePublicReceipt(pub) = pub /\ S!ParsePrivateOpening(priv) = priv
      /\ DOMAIN pub = {"commitment_scheme", "commitment", "block_height"}
      /\ DOMAIN priv = {"commitment_scheme", "nonce", "doc_hash_lo", "doc_hash_hi",
                        "doc_hash_sha256"}
  BY HalvesParse
<1>2. pub # S!Invalid /\ priv # S!Invalid /\ S!None # S!Invalid
  BY <1>1 DEF S!Invalid, S!None
<1>3. Anchor(nr).txid = S!Txid(nr) /\ S!Has(Anchor(nr), "txid")
  BY DEF Anchor, S!Has
<1> HIDE DEF pub, priv
<1>4. \/ v = [txid |-> S!Txid(nr), publicReceipt |-> pub, anchor |-> Anchor(nr)]
      \/ v = [txid |-> S!Txid(nr), publicReceipt |-> pub, privateOpening |-> priv]
      \/ v = [txid |-> S!Txid(nr), publicReceipt |-> pub, privateOpening |-> priv,
              anchor |-> Anchor(nr)]
  BY DEF FilesOf, pub, priv
<1>5. S!EnvelopeTxid(v) = S!Txid(nr)
  <2>1. CASE S!Has(v, "anchor")
    <3>1. v.anchor = Anchor(nr)
      BY <1>4, <2>1 DEF S!Has
    <3> QED
      BY <1>3, <2>1, <3>1 DEF S!EnvelopeTxid
  <2>2. CASE ~S!Has(v, "anchor")
    <3>1. S!Has(v, "txid") /\ v.txid = S!Txid(nr)
      BY <1>4 DEF S!Has
    <3> QED
      BY <2>2, <3>1 DEF S!EnvelopeTxid
  <2> QED
    BY <2>1, <2>2
<1>6. S!Has(v, "publicReceipt") /\ v.publicReceipt = pub
  BY <1>4 DEF S!Has
<1>7. receipt = pub
  BY <1>1, <1>6
<1>8. /\ S!Has(v, "privateOpening") => opening = priv
      /\ ~S!Has(v, "privateOpening") => opening = S!None
  <2>1. ASSUME S!Has(v, "privateOpening") PROVE opening = priv
    <3>1. v.privateOpening = priv
      BY <1>4, <2>1 DEF S!Has
    <3> QED
      BY <1>1, <2>1, <3>1
  <2>2. ASSUME ~S!Has(v, "privateOpening") PROVE opening = S!None
    <3>1. ~S!Has(v, "receipt") /\ ~S!Has(v, "nonce")
      BY <1>4, <2>2 DEF S!Has
    <3>2. private = v
      BY <2>2, <3>1
    <3>3. ~S!HasPrivateOpeningShape(private)
      BY <3>1, <3>2 DEF S!HasPrivateOpeningShape
    <3> QED
      BY <3>3
  <2> QED
    BY <2>1, <2>2
<1>9. S!ParseReceiptInput(v) =
        IF S!Invalid \in {receipt, opening} THEN S!Invalid
        ELSE [publicReceipt |-> receipt, privateOpening |-> opening,
              txid |-> S!EnvelopeTxid(v)]
  BY DEF S!ParseReceiptInput
<1> HIDE DEF public, private, receipt, opening
<1>10. S!ParseReceiptInput(v) =
         [publicReceipt |-> pub, privateOpening |-> opening, txid |-> S!Txid(nr)]
  BY <1>2, <1>5, <1>7, <1>8, <1>9
<1>11. S!ParseReceiptInput(v) # S!Invalid
  BY <1>10 DEF S!Invalid
<1> QED
  BY <1>8, <1>10, <1>11 DEF pub, priv

\* The opening of an offered file opens its receipt to the stamped file.
LEMMA FilesMatch ==
  ASSUME NEW nr \in Nat, stamped[nr] \in Docs, chain[nr].height \in Nat
  PROVE  S!VerifyDocument(stamped[nr], Public(nr), Private(nr)).matchesReceipt
<1> DEFINE R == S!DraftOf(nr)
           d == stamped[nr]
           pub == Public(nr)
           o == Private(nr)
<1>1. /\ R.doc_hash_lo = S!HashDocument(d).lo /\ R.doc_hash_hi = S!HashDocument(d).hi
      /\ R.doc_hash_sha256 = S!HashDocument(d).sha
      /\ R.commitment = S!CommitmentV2(R.doc_hash_lo, R.doc_hash_hi, R.nonce)
  BY DraftTexts
<1>2. /\ pub = [commitment_scheme |-> "v2", commitment |-> R.commitment,
                block_height |-> chain[nr].height]
      /\ o = [commitment_scheme |-> "v2", nonce |-> R.nonce,
              doc_hash_lo |-> R.doc_hash_lo, doc_hash_hi |-> R.doc_hash_hi,
              doc_hash_sha256 |-> R.doc_hash_sha256]
  BY HalvesParse
<1> HIDE DEF R, d, pub, o
<1>3. ~S!IsLegacyOpening(o)
  BY <1>2 DEF S!IsLegacyOpening, S!Has
<1>4. S!OpeningMatchesFile(o, d)
  BY <1>1, <1>2, <1>3 DEF S!OpeningMatchesFile
<1>5. S!CommitmentFromOpening(o) = pub.commitment
  BY <1>1, <1>2, <1>3 DEF S!CommitmentFromOpening
<1>6. S!VerifyDocument(d, pub, o).matchesReceipt
  BY <1>4, <1>5 DEF S!VerifyDocument
<1> QED
  BY <1>6 DEF d, pub, o

LEMMA FilesAlways == Spec => [](On("stamp") => FilesInv)
<1>1. Init => (On("stamp") => FilesInv)
  <2> SUFFICES ASSUME Init, On("stamp") PROVE FilesInv
    OBVIOUS
  <2>1. S!Init
    BY DEF Init, On
  <2>2. panel.result = None
    BY <2>1, SharedTerms DEF S!Init, S!Mounted
  <2> QED
    BY <2>1, <2>2 DEF S!Init, FilesInv, InFlight
<1>2. Inv /\ (On("stamp") => FilesInv) /\ [Next]_vars => (On("stamp") => FilesInv)'
  <2> SUFFICES ASSUME Inv, On("stamp") => FilesInv, [Next]_vars, On("stamp")'
               PROVE  FilesInv'
    OBVIOUS
  <2>1. CASE Next
    <3>1. On("stamp") /\ S!Next
      BY <2>1 DEF Next, On
    <3> QED
      BY <3>1, StampFiles DEF Inv
  <2>2. CASE UNCHANGED vars
    <3>1. UNCHANGED <<panel, calls, stamped, server, chain, saved>> /\ On("stamp")
      BY <2>2 DEF vars, stampRest, On
    <3>2. StampInv /\ FilesInv /\ InFlight' = InFlight
      BY <3>1 DEF Inv, InFlight
    <3>3. (server \cup InFlight)' \subseteq 1 .. Len(stamped')
      BY <3>1, <3>2 DEF FilesInv
    <3> QED
      BY <3>1, <3>2, <3>3, FilesKept DEF StampInv, FilesInv
  <2> QED
    BY <2>1, <2>2
<1> QED
  BY <1>1, <1>2, InductiveInvariant, PTL DEF Spec

\* Whatever is stamped, left, answered and downloaded, each file the stamp page
\* offers verifies: alone, and against its anchor and the file that was stamped.
THEOREM OfferedFilesVerify == Spec => []DownloadsVerify
<1>1. Inv /\ (On("stamp") => FilesInv) => DownloadsVerify
  <2> SUFFICES ASSUME Inv, On("stamp"), FilesInv, NEW f \in saved \cup S!Downloads
               PROVE  LET input == S!ParseReceiptInput(f.json) IN
                 /\ input # S!Invalid
                 /\ input.txid = S!Txid(f.nr)
                 /\ S!FetchAnchor(input.txid, input.publicReceipt, chain[f.nr]).matchesReceipt
                      = "true"
                 /\ S!Has(f.json, "privateOpening") =>
                      S!VerifyDocument(stamped[f.nr], input.publicReceipt,
                                       input.privateOpening).matchesReceipt
    BY DEF DownloadsVerify, S!DownloadsVerify
  <2> DEFINE nr == f.nr
             input == S!ParseReceiptInput(f.json)
  <2>1. Confirmed(nr) /\ f.json \in FilesOf(nr)
    BY DownloadsAreFiles DEF FilesInv
  <2>2. /\ nr \in 1 .. Len(stamped) /\ chain[nr].height \in Nat
        /\ chain[nr].commitment = S!DraftOf(nr).commitment
    BY <2>1 DEF FilesInv, Confirmed
  <2>3. nr \in Nat /\ stamped[nr] \in Docs
    BY <2>2 DEF Inv, StampInv
  <2>4. /\ input # S!Invalid
        /\ input.txid = S!Txid(nr) /\ input.publicReceipt = Public(nr)
        /\ S!Has(f.json, "privateOpening") => input.privateOpening = Private(nr)
    BY <2>1, <2>2, <2>3, FilesParse
  <2>5. S!FetchAnchor(input.txid, Public(nr), chain[nr]).matchesReceipt = "true"
    <3>1. Public(nr) = [commitment_scheme |-> "v2", commitment |-> S!DraftOf(nr).commitment,
                        block_height |-> chain[nr].height]
      BY <2>2, <2>3, HalvesParse
    <3>2. /\ Public(nr) # S!None /\ Public(nr).commitment = chain[nr].commitment
          /\ Public(nr).block_height = chain[nr].height
      <4> HIDE DEF nr
      <4> QED
        BY <2>2, <3>1 DEF S!None
    <3> HIDE DEF input, nr
    <3> QED
      BY <3>2 DEF S!FetchAnchor
  <2>6. S!VerifyDocument(stamped[nr], Public(nr), Private(nr)).matchesReceipt
    BY <2>2, <2>3, FilesMatch
  <2> QED
    BY <2>4, <2>5, <2>6
<1> QED
  BY <1>1, InductiveInvariant, FilesAlways, PTL

-----------------------------------------------------------------------------
(* Types: a step keeps those of the page it is on, given the invariants *)

LEMMA StampTypes ==
  ASSUME StampInv, FilesInv, FilesInv', S!TypeOK, S!Next
  PROVE  S!TypeOK'
<1> USE SharedTerms DEF S!Set, S!Nr
<1>a. /\ DOMAIN panel = StampPanelMembers /\ stamped \in Seq(Docs)
      /\ Len(stamped) \in Nat /\ MaxElapsed \in Nat /\ MaxStamps \in Nat
  BY BoundsAssumption DEF StampInv, BoundsAssumption
<1>b. S!Range(S!Phases) = {"hashing", "anchoring", "confirming", "finalizing"}
  <2>1. /\ DOMAIN S!Phases = {1, 2, 3, 4}
        /\ S!Phases[1] = "hashing" /\ S!Phases[2] = "anchoring"
        /\ S!Phases[3] = "confirming" /\ S!Phases[4] = "finalizing"
    BY DEF S!Phases
  <2> HIDE DEF S!Phases
  <2> QED
    BY <2>1 DEF S!Range
<1>c. /\ panel.status \in {"idle", "busy", "error", "success"}
      /\ panel.error \in {"none", "missingFile", "missingAnchorConfig", "serverError"}
      /\ panel.file \in Docs \cup {None} /\ panel.elapsed \in 0 .. MaxElapsed
      /\ panel.busyPhase \in {"hashing", "anchoring", "confirming", "finalizing"}
      /\ Len(stamped) <= MaxStamps /\ dropped \subseteq 1 .. Len(stamped)
  BY <1>b DEF S!TypeOK
<1>d. /\ \A c \in calls' : c.nr \in 1 .. Len(stamped')
      /\ server' \subseteq 1 .. Len(stamped') /\ DOMAIN chain' \subseteq 1 .. Len(stamped')
  BY DEF FilesInv, InFlight
<1>e. S!Replaced \subseteq 1 .. Len(stamped) /\ {c.nr : c \in calls} \subseteq 1 .. Len(stamped)
  BY DEF FilesInv, Confirmed, InFlight, S!Replaced
<1>1. ASSUME panel'.status \in {"idle", "busy", "error", "success"},
             panel'.error \in {"none", "missingFile", "missingAnchorConfig", "serverError"},
             panel'.file \in Docs \cup {None}, panel'.elapsed \in 0 .. MaxElapsed,
             panel'.busyPhase \in {"hashing", "anchoring", "confirming", "finalizing"},
             stamped' \in Seq(Docs), Len(stamped') <= MaxStamps,
             dropped' \subseteq 1 .. Len(stamped')
      PROVE  S!TypeOK'
  <2>1. S!Range(S!Phases)' = {"hashing", "anchoring", "confirming", "finalizing"}
    BY <1>b DEF S!Phases
  <2> QED
    BY <1>1, <1>d, <2>1 DEF S!TypeOK
<1>2. ASSUME NEW f \in Docs \cup {None}, S!FileChange(f) PROVE S!TypeOK'
  BY <1>1, <1>2, <1>a, <1>c DEF S!FileChange, StampPanelMembers
<1>3. CASE S!SubmitNoFile
  BY <1>1, <1>3, <1>a, <1>c, <1>e DEF S!SubmitNoFile, StampPanelMembers
<1>4. CASE S!Submit
  <2>0. Len(stamped) < MaxStamps /\ dropped' = dropped \cup S!Replaced
    BY <1>4 DEF S!Submit
  <2>1. panel.file \in Docs /\ stamped' = Append(stamped, panel.file)
    BY <1>4, <1>c DEF S!Submit
  <2>2. stamped' \in Seq(Docs) /\ Len(stamped') = Len(stamped) + 1
    BY <2>1, <1>a
  <2>3. Len(stamped') <= MaxStamps /\ 1 .. Len(stamped) \subseteq 1 .. Len(stamped')
    <3> DEFINE m == Len(stamped)
               n == Len(stamped')
    <3>1. m \in Nat /\ m < MaxStamps /\ n = m + 1 /\ MaxStamps \in Nat
      BY <2>0, <2>2, <1>a
    <3> HIDE DEF m, n
    <3>2. n <= MaxStamps /\ 1 .. m \subseteq 1 .. n
      BY <3>1
    <3> QED
      BY <3>2 DEF m, n
  <2>5. dropped' \subseteq 1 .. Len(stamped')
    BY <2>0, <2>3, <1>c, <1>e
  <2>4. /\ panel'.status = "busy" /\ panel'.error = "none" /\ panel'.file = panel.file
        /\ panel'.elapsed = 0 /\ panel'.busyPhase = "hashing"
    BY <1>4, <1>a DEF S!Submit, StampPanelMembers
  <2> QED
    BY <1>1, <1>a, <1>c, <2>2, <2>3, <2>4, <2>5
<1>5. CASE S!Tick
  <2>1. PICK s \in panel.elapsed + 1 .. MaxElapsed : panel' = [panel EXCEPT !.elapsed = s]
    BY <1>5 DEF S!Tick
  <2>2. s \in 0 .. MaxElapsed
    BY <1>a, <1>c
  <2>3. /\ panel'.status = panel.status /\ panel'.error = panel.error
        /\ panel'.file = panel.file /\ panel'.elapsed = s
        /\ panel'.busyPhase = panel.busyPhase
    BY <2>1, <1>a DEF StampPanelMembers
  <2>4. UNCHANGED <<stamped, dropped>>
    BY <1>5 DEF S!Tick
  <2> QED
    BY <1>1, <1>a, <1>c, <2>2, <2>3, <2>4
<1>6. CASE S!Leave
  <2>1. panel' = S!Mounted /\ stamped' = stamped
        /\ dropped' = dropped \cup S!Replaced \cup {c.nr : c \in calls}
    BY <1>6 DEF S!Leave
  <2>2. /\ panel'.status = "idle" /\ panel'.error = "none" /\ panel'.file = None
        /\ panel'.elapsed = 0 /\ panel'.busyPhase = "hashing"
    BY <2>1 DEF S!Mounted
  <2>3. dropped' \subseteq 1 .. Len(stamped')
    BY <1>c, <1>e, <2>1
  <2>4. Len(stamped') <= MaxStamps /\ stamped' \in Seq(Docs) /\ 0 \in 0 .. MaxElapsed
    BY <1>a, <1>c, <2>1
  <2> QED
    BY <1>1, <2>2, <2>3, <2>4
<1>7. CASE S!Download
  <2>1. UNCHANGED <<panel, stamped, dropped>>
    BY <1>7 DEF S!Download
  <2> QED
    BY <1>1, <1>a, <1>c, <2>1
<1>8. ASSUME NEW c \in calls, S!Hashed(c) \/ S!Answer(c) PROVE S!TypeOK'
  <2>1. /\ panel'.status \in {panel.status, "success"} /\ panel'.error = panel.error
        /\ panel'.file = panel.file /\ panel'.elapsed = panel.elapsed
        /\ panel'.busyPhase \in {"anchoring", "finalizing"}
    BY <1>8, <1>a DEF S!Hashed, S!Answer, StampPanelMembers
  <2>2. UNCHANGED <<stamped, dropped>>
    BY <1>8 DEF S!Hashed, S!Answer
  <2> QED
    BY <1>1, <1>a, <1>c, <2>1, <2>2
<1>9. ASSUME NEW c \in calls, S!Fail(c) PROVE S!TypeOK'
  <2>1. PICK m \in {"serverError", "missingAnchorConfig"} :
          panel' = [panel EXCEPT !.status = "error", !.error = m]
    BY <1>9 DEF S!Fail
  <2>2. /\ panel'.status = "error" /\ panel'.error = m /\ panel'.file = panel.file
        /\ panel'.elapsed = panel.elapsed /\ panel'.busyPhase = panel.busyPhase
    BY <2>1, <1>a DEF StampPanelMembers
  <2>3. stamped' = stamped /\ dropped' = dropped \cup {c.nr}
    BY <1>9 DEF S!Fail
  <2>4. c.nr \in 1 .. Len(stamped)
    BY <1>e
  <2> QED
    BY <1>1, <1>a, <1>c, <2>2, <2>3, <2>4
<1>10. CASE S!ServerStep
  <2>1. UNCHANGED <<panel, stamped, dropped>>
    BY <1>10 DEF S!ServerStep
  <2> QED
    BY <1>1, <1>a, <1>c, <2>1
<1> QED
  BY <1>2, <1>3, <1>4, <1>5, <1>6, <1>7, <1>8, <1>9, <1>10 DEF S!Next, S!PageStep

\* A submission is sent only with a txid that is one.
LEMMA SubmitTyped ==
  ASSUME V!Submit
  PROVE  \E c : /\ calls' = calls \cup {c} /\ c.file = panel.file /\ V!IsTxid(c.body.txid)
<1> DEFINE input == V!Input
           txid  == V!SubmitTxid(input)
           body  == V!Body(input, txid)
           c     == [body |-> body, input |-> input, file |-> panel.file]
<1>1. calls' = calls \cup {c} /\ V!Refusal(input) = "none"
  BY DEF V!Submit
<1>2. V!IsTxid(txid)
  BY <1>1 DEF V!Refusal
<1>3. body.txid = txid
  BY DEF V!Body
<1>4. c.body = body /\ c.file = panel.file
  OBVIOUS
<1> HIDE DEF input, txid, body, c
<1> QED
  BY <1>1, <1>2, <1>3, <1>4

LEMMA VerifyTypes ==
  ASSUME VerifyInv, VerifyInv', V!TypeOK, V!Next
  PROVE  V!TypeOK'
<1> USE SharedTerms DEF V!Set
<1>a. /\ DOMAIN panel = VerifyPanelMembers
      /\ panel.status \in {"idle", "busy", "error", "success"}
      /\ panel.error \in {"none", "invalidReceipt", "missingTxid", "serverError"}
      /\ panel.file \in Docs \cup {None} /\ late' \in BOOLEAN
  BY DEF VerifyInv, V!TypeOK
<1>1. ASSUME panel'.status \in {"idle", "busy", "error", "success"},
             panel'.error \in {"none", "invalidReceipt", "missingTxid", "serverError"},
             calls' \subseteq calls, reads' \subseteq reads \cup FileTexts
      PROVE  V!TypeOK'
  BY <1>1, <1>a DEF V!TypeOK, V!IsTxid, V!Fixed, V!Plain
<1>2. ASSUME NEW t, V!TxidChange(t) \/ V!ReceiptChange(t) PROVE V!TypeOK'
  BY <1>1, <1>2, <1>a DEF V!TxidChange, V!ReceiptChange, VerifyPanelMembers
<1>3. ASSUME NEW t \in FileTexts, V!ReceiptFileChange(t) \/ V!ReceiptFileText(t)
      PROVE  V!TypeOK'
  BY <1>1, <1>3, <1>a DEF V!ReceiptFileChange, V!ReceiptFileText, VerifyPanelMembers
<1>4. CASE V!ReceiptFileCleared
  BY <1>1, <1>4, <1>a DEF V!ReceiptFileCleared, VerifyPanelMembers
<1>5. ASSUME NEW f, V!FileChange(f) PROVE V!TypeOK'
  BY <1>1, <1>5, <1>a DEF V!FileChange, VerifyPanelMembers
<1>6. CASE V!SubmitRefused
  <2>1. /\ V!Refusal(V!Input) \in {"invalidReceipt", "missingTxid"}
        /\ calls' = calls /\ reads' = reads
        /\ panel' = [panel EXCEPT !.status = "error", !.error = V!Refusal(V!Input),
                                  !.result = V!NoResult]
    BY <1>6 DEF V!SubmitRefused, V!Refusal
  <2>2. panel'.status = "error" /\ panel'.error = V!Refusal(V!Input)
    BY <2>1, <1>a DEF VerifyPanelMembers
  <2> QED
    BY <1>1, <2>1, <2>2
<1>7. CASE V!Submit
  <2>1. PICK c : calls' = calls \cup {c} /\ c.file = panel.file /\ V!IsTxid(c.body.txid)
    BY <1>7, SubmitTyped
  <2>2. /\ reads' = reads /\ panel'.status = "busy" /\ panel'.error = "none"
    BY <1>7, <1>a DEF V!Submit, VerifyPanelMembers
  <2> QED
    BY <1>a, <2>1, <2>2 DEF V!TypeOK, V!IsTxid, V!Fixed, V!Plain
<1>8. ASSUME NEW c, V!Answer(c) \/ V!Fail(c) PROVE V!TypeOK'
  <2>1. /\ calls' \subseteq calls /\ reads' = reads
        /\ panel'.status \in {"success", "error"}
        /\ panel'.error \in {panel.error, "serverError"}
    BY <1>8, <1>a DEF V!Answer, V!Fail, VerifyPanelMembers
  <2> QED
    BY <1>1, <1>a, <2>1
<1> QED
  BY <1>2, <1>3, <1>4, <1>5, <1>6, <1>7, <1>8 DEF V!Next

LEMMA PredicateTypes ==
  ASSUME PredicateInv, P!TypeOK, P!Next
  PROVE  P!TypeOK'
<1> USE DEF P!Set, PredicatePanelMembers, P!TypeOK
<1>a. DOMAIN panel = PredicatePanelMembers /\ MaxPosts \in Nat
  BY BoundsAssumption DEF PredicateInv, BoundsAssumption
<1>1. ASSUME NEW w \in Witnesses, P!WitnessChange(w) PROVE P!TypeOK'
  BY <1>1, <1>a DEF P!WitnessChange
<1>2. CASE P!FillSampleWitness \/ P!ProveSubmit
  BY <1>2, <1>a DEF P!FillSampleWitness, P!ProveSubmit
<1>3. ASSUME NEW p \in Proofs, P!ProofChange(p) PROVE P!TypeOK'
  BY <1>3, <1>a DEF P!ProofChange
<1>4. ASSUME NEW t \in Pasted, P!ReceiptChange(t) PROVE P!TypeOK'
  BY <1>4, <1>a DEF P!ReceiptChange
<1>5. CASE P!VerifyRefused \/ P!VerifySubmit
  <2> DEFINE rest == <<panel.witness, panel.proof, panel.receiptJson, panel.proveStatus>>
  <2>1. rest' = rest /\ panel'.verifyStatus \in {"error", "busy"}
    BY <1>5, <1>a DEF P!VerifyRefused, P!VerifySubmit
  <2>2. \/ panel'.posts = panel.posts
        \/ panel.posts < MaxPosts /\ panel'.posts = panel.posts + 1
    BY <1>5, <1>a DEF P!VerifyRefused, P!VerifySubmit
  <2>3. panel'.posts \in 0 .. MaxPosts
    BY <1>a, <2>2
  <2> QED
    BY <2>1, <2>3
<1>6. ASSUME NEW b, P!Answer(b) \/ P!Fail(b) PROVE P!TypeOK'
  BY <1>6, <1>a DEF P!Answer, P!Fail
<1> QED
  BY <1>1, <1>2, <1>3, <1>4, <1>5, <1>6 DEF P!Next

\* Whatever the user, the server and the readers of files do, each page keeps
\* the types its code relies on: a txid that is sent is one, the proof form is
\* never busy, and no number of the stamp page is of a submission not made.
THEOREM PageTypes == Spec => []TypeOK
<1>1. Init => TypeOK
  <2> SUFFICES ASSUME Init PROVE TypeOK
    OBVIOUS
  <2>a. {MaxElapsed, MaxStamps, MaxPosts} \subseteq Nat
    BY BoundsAssumption DEF BoundsAssumption
  <2>1. ASSUME On("stamp"), S!Init PROVE S!TypeOK
    <3>1. stamped = <<>> /\ calls = {} /\ panel = S!Mounted /\ server = {} /\ dropped = {}
          /\ DOMAIN chain = {}
      BY <2>1 DEF S!Init
    <3>2. "hashing" \in S!Range(S!Phases)
      <4>1. 1 \in DOMAIN S!Phases /\ S!Phases[1] = "hashing"
        BY DEF S!Phases
      <4> QED
        BY <4>1 DEF S!Range
    <3>3. stamped \in Seq(Docs) /\ Len(stamped) = 0
      BY <3>1
    <3> QED
      BY <2>a, <3>1, <3>2, <3>3 DEF S!TypeOK, S!Nr, S!Mounted
  <2>2. ASSUME On("verify"), V!Init PROVE V!TypeOK
    <3>1. late \in BOOLEAN
      BY <2>2, Zenon DEF V!Init
    <3> QED
      BY <2>2, <3>1 DEF V!Init, V!TypeOK
  <2>3. ASSUME On("predicate"), P!Init PROVE P!TypeOK
    BY <2>a, <2>3 DEF P!Init, P!TypeOK
  <2> QED
    BY <2>1, <2>2, <2>3 DEF Init, TypeOK, On
<1>2. /\ Inv /\ (On("stamp") => FilesInv) /\ TypeOK /\ [Next]_vars
      /\ Inv' /\ (On("stamp") => FilesInv)'
      => TypeOK'
  <2> SUFFICES ASSUME Inv, On("stamp") => FilesInv, TypeOK, [Next]_vars,
                      Inv', (On("stamp") => FilesInv)'
               PROVE  TypeOK'
    OBVIOUS
  <2>1. CASE On("stamp") /\ S!Next /\ UNCHANGED <<page, verifyRest>>
    <3>1. S!TypeOK'
      BY <2>1, StampTypes DEF Inv, TypeOK, On
    <3> QED
      BY <2>1, <3>1 DEF TypeOK, On
  <2>2. CASE On("verify") /\ V!Next /\ UNCHANGED <<page, stampRest>>
    <3>1. V!TypeOK'
      BY <2>2, VerifyTypes DEF Inv, TypeOK, On
    <3> QED
      BY <2>2, <3>1 DEF TypeOK, On
  <2>3. CASE On("predicate") /\ P!Next /\ UNCHANGED <<page, stampRest, verifyRest>>
    <3>1. P!TypeOK'
      BY <2>3, PredicateTypes DEF Inv, TypeOK
    <3> QED
      BY <2>3, <3>1 DEF TypeOK, On
  <2>4. CASE UNCHANGED vars
    <3>1. UNCHANGED <<page, panel, calls, stamped, server, chain, dropped, reads, late>>
      BY <2>4 DEF vars, stampRest, verifyRest
    <3> QED
      BY <3>1 DEF TypeOK, On, S!TypeOK, S!Nr, S!Range, S!Phases, V!TypeOK, V!IsTxid,
                  V!Fixed, V!Plain, P!TypeOK
  <2> QED
    BY <2>1, <2>2, <2>3, <2>4 DEF Next
<1> QED
  BY <1>1, <1>2, InductiveInvariant, FilesAlways, PTL DEF Spec

=============================================================================
