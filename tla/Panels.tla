------------------------------- MODULE Panels -------------------------------
(***************************************************************************)
(* The pages of the web app that do something: a behaviour is a visit of   *)
(* one of them (the pages share no state, so the visits add up).  panel    *)
(* and calls are those of the page that is visited.                        *)
(***************************************************************************)
EXTENDS ReceiptFormats, FiniteSets

CONSTANTS
  Pages,                                                  \* pages visited
  MaxStamps, MaxElapsed,                                  \* StampPanel
  Typed, Texts, FileTexts, Chain, MaxCalls, MaxReads,   \* VerifyPanel
  Witnesses, Proofs, Inputs, Pasted, MaxPosts             \* PredicatePanel

ASSUME BoundsAssumption == {MaxStamps, MaxElapsed, MaxCalls, MaxReads, MaxPosts} \subseteq Nat

VARIABLES
  page, panel, calls,
  stamped, server, chain, saved, dropped,  \* of the stamp page
  reads, late                              \* of the verify page

\* Nothing has happened on a page that is not visited.
NoStamps == stamped = <<>> /\ server = {} /\ chain = <<>> /\ saved = {} /\ dropped = {}
NoReads  == reads = {} /\ late = FALSE

stampRest  == <<stamped, server, chain, saved, dropped>>
verifyRest == <<reads, late>>
vars == <<page, panel, calls, stampRest, verifyRest>>

S == INSTANCE StampPanel
V == INSTANCE VerifyPanel
P == INSTANCE PredicatePanel

On(p) == page = p

Init ==
  /\ page \in Pages
  /\ \/ On("stamp")     /\ S!Init /\ NoReads
     \/ On("verify")    /\ V!Init /\ NoStamps
     \/ On("predicate") /\ P!Init /\ NoStamps /\ NoReads

Next ==
  \/ On("stamp")     /\ S!Next /\ UNCHANGED <<page, verifyRest>>
  \/ On("verify")    /\ V!Next /\ UNCHANGED <<page, stampRest>>
  \/ On("predicate") /\ P!Next /\ UNCHANGED <<page, stampRest, verifyRest>>

Spec == Init /\ [][Next]_vars

-----------------------------------------------------------------------------
(* Properties of one page, stated in its module *)

\* Every variable has its type, on the page that is visited.
TypeOK ==
  /\ page \in {"stamp", "verify", "predicate"}
  /\ On("stamp") => S!TypeOK
  /\ On("verify") => V!TypeOK
  /\ On("predicate") => P!TypeOK

\* Every file the stamp page offers verifies on the verify page (StampPanel).
DownloadsVerify == On("stamp") => S!DownloadsVerify

\* An anchor whose opening is lost has one of three causes (StampPanel).
LossHasCause == On("stamp") => S!LossHasCause

\* The progress of a stamp is never shown going back (StampPanel).
PhasesAdvance == [][On("stamp") => S!NoPhaseBack]_vars

\* A result's title, receipt and anchor belong together (VerifyPanel).
ShownTogether == On("verify") => V!ShownTogether

\* A match for receipt and file means the chain commits to the file (VerifyPanel).
VerdictSound == On("verify") => V!VerdictSound

\* The page and the fetch route read the same out of a text (VerifyPanel).
SameExtraction == On("verify") => V!SameExtraction

-----------------------------------------------------------------------------
(* Properties of all pages *)

Busy == IF On("predicate") THEN panel.verifyStatus = "busy" ELSE panel.status = "busy"

\* A form is busy exactly while its one submission is in flight: whatever that
\* one meets (an unreadable file, an error of the route, no answer), its handler
\* gives the form back; and though handlers give way at their awaits, no second
\* click publishes or asks twice.  The exception: a receipt text that arrives on
\* the verify page during a submission makes the form editable again.
BusyMeansInFlight ==
  /\ Busy => calls # {}
  /\ ~(On("verify") /\ late) => /\ calls # {} => Busy
                                /\ Cardinality(calls) <= 1

PrivateMembers == {"nonce", "doc_hash_lo", "doc_hash_hi", "doc_hash_sha256",
                   "doc_hash_truncated", "privateOpening"}

Bodies == IF On("predicate") THEN calls ELSE {c.body : c \in calls} \ {None}

\* The body of a request, or the receipt in it, has a part of an opening.
CarriesOpening(body) ==
  \E v \in {body} \cup (IF Has(body, "receipt") THEN {body.receipt} ELSE {}) :
    DOMAIN v \cap PrivateMembers # {}

\* Stamping sends the commitment alone and verifying the public receipt alone,
\* though both pages hold the whole opening, and though the text that is
\* verified may hold it too; and a witness is never sent.
PrivateStaysLocal ==
  \A body \in Bodies :
    /\ ~On("predicate") => ~CarriesOpening(body)
    /\ ~Has(body, "witness")

=============================================================================
