----------------------------- MODULE StampPanel -----------------------------
(***************************************************************************)
(* The stamp page (zk-timestamp-stamp-panel.tsx) as a user meets it: the   *)
(* panel, the submission in flight with its draft, which no one else has,  *)
(* the requests at the server and the anchors they publish (StampPipeline  *)
(* has their inside), and the files the user downloads.                    *)
(*                                                                         *)
(* Submission nr k stamps file stamped[k]; its nonce and its txid are      *)
(* Fresh(k), its commitment CommitmentOf(k).                               *)
(***************************************************************************)
EXTENDS ReceiptFormats, FiniteSets, SequencesExt

CONSTANTS
  MaxStamps,  \* bound: submissions with a file
  MaxElapsed  \* bound: seconds counted by the progress clock

VARIABLES
  panel,    \* the state the panel renders; "none" is the empty error
  calls,    \* submissions in flight: [nr, body], body None while hashing
  stamped,  \* history: the file of each submission
  server,   \* nr of the requests the server works on (external)
  chain,    \* nr -> [commitment, height]: published anchors, height 0 unmined
  saved,    \* downloaded files: [nr, json]
  dropped   \* history: nr whose submission failed, or was left or replaced

vars == <<panel, calls, stamped, server, chain, saved, dropped>>

Fresh(nr) == 20 + nr
Txid(nr)  == [w \in 1 .. 4 |-> Fresh(nr)]
DraftOf(nr) == Draft(stamped[nr], Fresh(nr))

Mounted == [file |-> None, status |-> "idle", busyPhase |-> "hashing",
            elapsed |-> 0, error |-> "none", result |-> None]

Init ==
  /\ panel = Mounted
  /\ calls = {} /\ stamped = <<>> /\ server = {}
  /\ chain = [nr \in {} |-> None] /\ saved = {} /\ dropped = {}

Editable == panel.status # "busy"
Set(p)   == panel' = p
Nr       == Len(stamped)
Replaced == IF panel.result = None THEN {} ELSE {Nr}

-----------------------------------------------------------------------------
(* The form *)

\* Faulty: the result of the file that was there goes with it.
FileChange_ClearsResult(f) ==
  /\ Editable
  /\ Set([panel EXCEPT !.file = f, !.result = None])
  /\ UNCHANGED <<calls, stamped, server, chain, saved, dropped>>
FileChange(f) ==
  /\ Editable
  /\ Set([panel EXCEPT !.file = f])
  /\ UNCHANGED <<calls, stamped, server, chain, saved, dropped>>

\* The result goes before anything is looked at.
SubmitNoFile ==
  /\ Editable
  /\ panel.file = None
  /\ Set([panel EXCEPT !.status = "error", !.error = "missingFile", !.result = None])
  /\ dropped' = dropped \cup Replaced
  /\ UNCHANGED <<calls, stamped, server, chain, saved>>

\* Faulty: the panel is busy only once the draft is made.
Submit_BusyLater ==
  /\ Editable
  /\ panel.file # None
  /\ Nr < MaxStamps
  /\ Set([panel EXCEPT !.busyPhase = "hashing", !.elapsed = 0,
                       !.error = "none", !.result = None])
  /\ calls' = calls \cup {[nr |-> Nr + 1, body |-> None]}
  /\ stamped' = Append(stamped, panel.file)
  /\ dropped' = dropped \cup Replaced
  /\ UNCHANGED <<server, chain, saved>>
\* onSubmit up to its first await, and the effect that starts the clock, which
\* React runs before the click is over.
Submit ==
  /\ Editable
  /\ panel.file # None
  /\ Nr < MaxStamps
  /\ Set([panel EXCEPT !.status = "busy", !.busyPhase = "hashing", !.elapsed = 0,
                       !.error = "none", !.result = None])
  /\ calls' = calls \cup {[nr |-> Nr + 1, body |-> None]}
  /\ stamped' = Append(stamped, panel.file)
  /\ dropped' = dropped \cup Replaced
  /\ UNCHANGED <<server, chain, saved>>

\* The draft is made and its commitment, and nothing else of it, is posted.
Hashed(c) ==
  /\ c \in calls /\ c.body = None
  /\ Set([panel EXCEPT !.busyPhase = "anchoring"])
  /\ calls' = (calls \ {c}) \cup
                {[c EXCEPT !.body = [commitment |-> DraftOf(c.nr).commitment]]}
  /\ server' = server \cup {c.nr}
  /\ UNCHANGED <<stamped, chain, saved, dropped>>

\* The interval of the effect; a hidden page is late with it.
Tick ==
  /\ panel.status = "busy"
  /\ \E s \in panel.elapsed + 1 .. MaxElapsed : Set([panel EXCEPT !.elapsed = s])
  /\ UNCHANGED <<calls, stamped, server, chain, saved, dropped>>

-----------------------------------------------------------------------------
(* The server (external to the page) *)

ServerStep ==
  /\ \/ \E nr \in server :
          /\ nr \notin DOMAIN chain
          /\ chain' = [n \in DOMAIN chain \cup {nr} |->
                         IF n = nr THEN [commitment |-> DraftOf(nr).commitment, height |-> 0]
                         ELSE chain[n]]
          /\ UNCHANGED server
     \/ \E nr \in DOMAIN chain : /\ chain[nr].height = 0
                                 /\ chain' = [chain EXCEPT ![nr].height = nr]
                                 /\ UNCHANGED server
     \/ \E nr \in server : server' = server \ {nr} /\ UNCHANGED chain
  /\ UNCHANGED <<panel, calls, stamped, saved, dropped>>

-----------------------------------------------------------------------------
(* The end of a submission *)

\* Faulty: the receipt of the draft is offered as it is.
Filled_DraftHeight(draft, height) == draft
Filled(draft, height) == [draft EXCEPT !.block_height = height]

Answer(c) ==
  /\ c \in calls /\ c.body # None
  /\ c.nr \in DOMAIN chain /\ chain[c.nr].height > 0
  /\ LET receipt == Filled(DraftOf(c.nr), chain[c.nr].height) IN
     Set([panel EXCEPT !.status = "success", !.busyPhase = "finalizing",
            !.result = [publicReceipt |-> BuildPublicReceipt(receipt),
                        privateOpening |-> BuildPrivateOpening(receipt),
                        anchor |-> [txid |-> Txid(c.nr),
                                    commitment |-> chain[c.nr].commitment,
                                    blockHeight |-> chain[c.nr].height]]])
  /\ calls' = calls \ {c}
  /\ server' = server \ {c.nr}
  /\ UNCHANGED <<stamped, chain, saved, dropped>>

\* An unreadable file, no answer, or an error of the route: the server may have
\* published the anchor, or may still do it.  A server without configuration
\* says so before it starts.
Fail(c) ==
  /\ c \in calls
  /\ \E m \in {"serverError"} \cup
              (IF c.body # None /\ c.nr \notin DOMAIN chain
               THEN {"missingAnchorConfig"} ELSE {}) :
       Set([panel EXCEPT !.status = "error", !.error = m])
  /\ calls' = calls \ {c}
  /\ dropped' = dropped \cup {c.nr}
  /\ UNCHANGED <<stamped, server, chain, saved>>

\* The page is left or loaded again.  A link leaves the handler running: a draft
\* may still be posted, and no one is there to take the answer.
Leave ==
  /\ panel' = Mounted
  /\ calls' = {}
  /\ dropped' = dropped \cup Replaced \cup {c.nr : c \in calls}
  /\ \E S \in SUBSET {c.nr : c \in {b \in calls : b.body = None}} :
       server' = server \cup S
  /\ UNCHANGED <<stamped, chain, saved>>

-----------------------------------------------------------------------------
(* Downloads *)

PublicReceiptFile ==
  [txid |-> panel.result.anchor.txid, publicReceipt |-> panel.result.publicReceipt,
   anchor |-> panel.result.anchor]

PrivateOpeningFile ==
  [txid |-> panel.result.anchor.txid, publicReceipt |-> panel.result.publicReceipt,
   privateOpening |-> panel.result.privateOpening]

ReceiptKit ==
  [txid |-> panel.result.anchor.txid, publicReceipt |-> panel.result.publicReceipt,
   privateOpening |-> panel.result.privateOpening, anchor |-> panel.result.anchor]

Downloads ==
  IF panel.result = None THEN {}
  ELSE {[nr |-> Nr, json |-> j] : j \in {PublicReceiptFile, PrivateOpeningFile, ReceiptKit}}

Download ==
  /\ \E f \in Downloads : saved' = saved \cup {f}
  /\ UNCHANGED <<panel, calls, stamped, server, chain, dropped>>

PageStep ==
  \/ \E f \in Docs \cup {None} : FileChange(f)
  \/ SubmitNoFile \/ Submit \/ Tick \/ Leave \/ Download
  \/ \E c \in calls : Hashed(c) \/ Answer(c) \/ Fail(c)

Next == PageStep \/ ServerStep

Spec == Init /\ [][Next]_vars

-----------------------------------------------------------------------------
(* The progress display *)

\* Faulty: a long hash is shown as a confirmation.
DisplayedPhase_Skips ==
  CASE panel.busyPhase = "hashing"   /\ panel.elapsed >= 2  -> "confirming"
    [] panel.busyPhase = "anchoring" /\ panel.elapsed >= 20 -> "confirming"
    [] OTHER -> panel.busyPhase
\* getDisplayedBusyPhase.
DisplayedPhase ==
  CASE panel.busyPhase = "hashing"   /\ panel.elapsed >= 2  -> "anchoring"
    [] panel.busyPhase = "anchoring" /\ panel.elapsed >= 20 -> "confirming"
    [] OTHER -> panel.busyPhase

Phases == <<"hashing", "anchoring", "confirming", "finalizing">>
\* The steps before this one are shown as done, the later ones as pending.
ActiveIndex == CHOOSE i \in DOMAIN Phases : Phases[i] = DisplayedPhase

-----------------------------------------------------------------------------
TypeOK ==
  /\ panel.status \in {"idle", "busy", "error", "success"}
  /\ panel.busyPhase \in Range(Phases) /\ panel.elapsed \in 0 .. MaxElapsed
  /\ panel.error \in {"none", "missingFile", "missingAnchorConfig", "serverError"}
  /\ panel.file \in Docs \cup {None} /\ stamped \in Seq(Docs) /\ Nr <= MaxStamps
  /\ \A c \in calls : c.nr \in 1 .. Nr
  /\ server \subseteq 1 .. Nr /\ DOMAIN chain \subseteq 1 .. Nr
  /\ dropped \subseteq 1 .. Nr

\* Whatever file the page offered, now or earlier, the verify page can read, and
\* it matches: the anchor of that very submission at its height and, where the
\* opening is in it, the file that was stamped, not one chosen since.
DownloadsVerify ==
  \A f \in saved \cup Downloads :
    LET input == ParseReceiptInput(f.json) IN
    /\ input # Invalid
    /\ input.txid = Txid(f.nr)
    /\ FetchAnchor(input.txid, input.publicReceipt, chain[f.nr]).matchesReceipt = "true"
    /\ Has(f.json, "privateOpening") =>
         VerifyDocument(stamped[f.nr], input.publicReceipt,
                        input.privateOpening).matchesReceipt

\* An anchor on chain whose opening no one holds (it is not in flight, on the
\* page or in a downloaded file) has one of three causes: its submission ended
\* with an error, the page was left, or another submission took its place.
LossHasCause ==
  \A nr \in DOMAIN chain :
    \/ \E c \in calls : c.nr = nr
    \/ \E f \in saved \cup Downloads : f.nr = nr /\ Has(f.json, "privateOpening")
    \/ nr \in dropped

\* While a stamp runs, the progress display never goes back a step, though it
\* guesses its steps from a clock that is not told what the server does.
NoPhaseBack ==
  panel.status = "busy" /\ panel'.status = "busy" => ActiveIndex' >= ActiveIndex

=============================================================================
