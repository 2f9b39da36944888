----------------------------- MODULE CliBridge -----------------------------
(***************************************************************************)
(* One request to the API of the web server, from its first byte to its    *)
(* answer: the route handlers, the body reader (request-body.ts), the      *)
(* bridge to the zectime CLI (zectime-client.ts) with its temporary        *)
(* directory, child process and timer, and the classification of errors    *)
(* (error-kinds.ts).  Requests share nothing here: a directory has a name  *)
(* of its own, and budget and rate limit are modules of their own.         *)
(***************************************************************************)
EXTENDS Integers, Sequences

CONSTANTS
  MaxBytes,  \* MAX_BODY_BYTES of the route, in units of the smallest chunk
  MaxChunk   \* bound: size of a chunk of the body

ASSUME BridgeAssumption == MaxBytes \in Nat /\ MaxChunk \in Nat \ {0}

VARIABLES
  route,   \* the route asked
  config,  \* what the environment of the server is like
  pc,      \* where the handler is
  body,    \* bytes read and kept
  leg,     \* which of the route's CLI runs is on
  dir,     \* its temporary directory: none, made, or stuck if rm failed
  child,   \* its process: none, running, exited (pipes still open)
  code,    \* exit code of that process: 0, 1, or -1 after SIGKILL
  timer,   \* its timer: off, armed, fired
  failure, \* error the run ends with, or "none"
  readback,\* the commitment read back: same as the one anchored, or other
  ended,   \* history: the exit codes of the processes that ended
  status   \* HTTP status of the answer, 0 before

vars == <<route, config, pc, body, leg, dir, child, code, timer, failure,
          readback, ended, status>>

request == <<route, config>>
run     == <<leg, dir, child, code, timer, failure, readback, ended>>

Routes  == {"stamp", "fetch", "predicate/verify", "predicate/prove", "anchor"}
Configs == {"complete", "invalid", "badNetwork", "incomplete"}

\* What a run can end with, besides what it prints.
Failures == {"none", "write failed", "ENOENT", "timed out", "stderr", "missing fields"}

Legs(r) == CASE r = "stamp" -> <<"anchor", "fetch">>
             [] r = "fetch" -> <<"fetch">>
             [] r = "predicate/verify" -> <<"predicate-verify">>
             [] OTHER -> <<>>

-----------------------------------------------------------------------------
(* error-kinds.ts *)

STATUS_BY_KIND ==
  [missing_proof |-> 409, missing_anchor |-> 409, missing_bundle |-> 409,
   missing_flow |-> 409, missing_holder |-> 409, proof_mismatch |-> 422,
   anchor_mismatch |-> 422, nullifier_replay |-> 409, cli_unavailable |-> 503,
   network_unsupported |-> 422, flow_conflict |-> 409, validation |-> 400,
   rate_limit |-> 429, unknown |-> 500]

\* Faulty: an error without a pattern is taken for a bad request.
ClassifyError_Validation(e) ==
  CASE e \in {"validation", "rate_limit"} -> e
    [] e \in {"Missing anchor configuration", "Missing anchor fetch configuration"}
         -> "cli_unavailable"
    [] e = "Unsupported Zcash network" -> "network_unsupported"
    [] OTHER -> "validation"
\* A ServerError has a kind; of the patterns, these are the ones that a message
\* of this code can match.  No message of the CLI or of Node matches one.
ClassifyError(e) ==
  CASE e \in {"validation", "rate_limit"} -> e
    [] e \in {"Missing anchor configuration", "Missing anchor fetch configuration"}
         -> "cli_unavailable"
    [] e = "Unsupported Zcash network" -> "network_unsupported"
    [] OTHER -> "unknown"

Respond(s) == status' = s /\ pc' = "answered"
Throw(e)   == Respond(STATUS_BY_KIND[ClassifyError(e)])

-----------------------------------------------------------------------------
(* The route handlers, up to a valid request *)

Init ==
  /\ route \in Routes /\ config \in Configs
  /\ pc = "arrived" /\ body = 0 /\ leg = 1 /\ dir = "none"
  /\ child = "none" /\ code = 0 /\ timer = "off" /\ failure = "none"
  /\ readback = "same" /\ ended = <<>> /\ status = 0

\* enforceRateLimit (RateLimit).
Throttle ==
  /\ pc = "arrived"
  /\ Respond(429)
  /\ UNCHANGED <<request, body, run>>

\* The anchor route is gone, and reads nothing.
Retired ==
  /\ pc = "arrived" /\ route = "anchor"
  /\ Respond(410)
  /\ UNCHANGED <<request, body, run>>

\* The fetch route takes no form.
RefuseForm ==
  /\ pc = "arrived" /\ route = "fetch"
  /\ Throw("validation")
  /\ UNCHANGED <<request, body, run>>

\* A declared length that is no number, or is too large, is refused before a
\* byte is read.
RefuseHead ==
  /\ pc = "arrived" /\ route # "anchor"
  /\ Throw("validation")
  /\ UNCHANGED <<request, body, run>>

StartReading ==
  /\ pc = "arrived" /\ route # "anchor"
  /\ pc' = "reading"
  /\ UNCHANGED <<request, body, run, status>>

\* Faulty: the declared length is trusted.
ReadChunk_Unchecked ==
  /\ pc = "reading" /\ body < 2 * MaxBytes
  /\ \E n \in 1 .. MaxChunk : body' = body + n
  /\ UNCHANGED <<request, pc, run, status>>
\* The loop of readLimitedText: a chunk too many is not kept.
ReadChunk ==
  /\ pc = "reading"
  /\ \E n \in 1 .. MaxChunk :
       IF body + n > MaxBytes
       THEN Throw("validation") /\ UNCHANGED body
       ELSE body' = body + n /\ UNCHANGED <<pc, status>>
  /\ UNCHANGED <<request, run>>

\* The client goes away.
ReadAborted ==
  /\ pc = "reading"
  /\ Throw("aborted")
  /\ UNCHANGED <<request, body, run>>

\* readLimitedJsonObject: the body is no JSON object.
RefuseBody ==
  /\ pc = "reading" /\ body > 0
  /\ Throw("validation")
  /\ UNCHANGED <<request, body, run>>

\* An object that lacks what the route asks for, as an empty body does; and
\* whatever it is, proving is refused.
RefusePayload ==
  /\ pc = "reading"
  /\ Throw("validation")
  /\ UNCHANGED <<request, body, run>>

Admit ==
  /\ pc = "reading" /\ body > 0 /\ route # "predicate/prove"
  /\ pc' = IF route = "stamp" THEN "budget" ELSE "admitted"
  /\ UNCHANGED <<request, body, run, status>>

\* runPublicStampOperation and reservePublicStampBudget (StampBudget): the
\* budget is asked, and spent, before the configuration is looked at.
Budget ==
  /\ pc = "budget"
  /\ \/ \E e \in {"rate_limit", "validation", "store failed"} : Throw(e)
     \/ pc' = "admitted" /\ UNCHANGED status
  /\ UNCHANGED <<request, body, run>>

-----------------------------------------------------------------------------
(* A run of the CLI *)

Run == Legs(route)[leg]

\* getZecTimeConfig and the check that follows it.
ConfigError ==
  CASE config = "complete"   -> "none"
    [] config = "invalid"    -> "must be a positive integer"
    [] config = "badNetwork" -> "Unsupported Zcash network"
    [] config = "incomplete" ->
         CASE Run = "anchor" -> "Missing anchor configuration"
           [] Run = "fetch"  -> "Missing anchor fetch configuration"
           [] OTHER          -> "Missing ZECTIME_PREDICATE_PARAMS_PATH"

Configure ==
  /\ pc = "admitted"
  /\ IF ConfigError # "none" THEN Throw(ConfigError) /\ UNCHANGED dir
     ELSE \/ Throw("mkdtemp failed") /\ UNCHANGED dir
          \/ dir' = "made" /\ pc' = "writing" /\ UNCHANGED status
  /\ UNCHANGED <<request, body, leg, child, code, timer, failure, readback, ended>>

\* The receipt or the proof is written for the child.
WriteInput ==
  /\ pc = "writing"
  /\ \/ pc' = "cleanup" /\ Run # "fetch" /\ failure' = "write failed"
     \/ pc' = "spawning" /\ UNCHANGED failure
  /\ UNCHANGED <<request, body, leg, dir, child, code, timer, readback, ended, status>>

\* runZecTime: a child that cannot be started is an error event, and leaves the
\* timer armed.
Spawn ==
  /\ pc = "spawning"
  /\ timer' = "armed"
  /\ \/ child' = "running" /\ pc' = "waiting" /\ UNCHANGED failure
     \/ pc' = "cleanup" /\ failure' = "ENOENT" /\ UNCHANGED child
  /\ UNCHANGED <<request, body, leg, dir, code, readback, ended, status>>

ChildExits(c) ==
  /\ child = "running"
  /\ child' = "exited" /\ code' = c
  /\ UNCHANGED <<request, pc, body, leg, dir, timer, failure, readback, ended, status>>

\* Faulty: the promise is rejected at once.
TimerFires_Rejects ==
  /\ timer = "armed"
  /\ timer' = "fired"
  /\ IF pc = "waiting" THEN pc' = "cleanup" /\ failure' = "timed out"
     ELSE UNCHANGED <<pc, failure>>
  /\ UNCHANGED <<request, body, leg, dir, child, code, readback, ended, status>>
\* Faulty: the child is asked to end, and does not have to.
TimerFires_NoKill ==
  /\ timer = "armed"
  /\ timer' = "fired"
  /\ UNCHANGED <<request, pc, body, leg, dir, child, code, failure, readback, ended, status>>
\* SIGKILL; a process that has exited does not notice.
TimerFires ==
  /\ timer = "armed"
  /\ timer' = "fired"
  /\ IF child = "running" THEN child' = "exited" /\ code' = -1
     ELSE UNCHANGED <<child, code>>
  /\ UNCHANGED <<request, pc, body, leg, dir, failure, readback, ended, status>>

\* Faulty: the exit code is not looked at.
ChildError_AnyCode ==
  IF timer = "fired" THEN {"timed out"} ELSE {"none", "missing fields"}
\* What runZecTime throws, or the parser of the output.
ChildError ==
  IF timer = "fired" THEN {"timed out"}
  ELSE IF code # 0 THEN {"stderr"} ELSE {"none", "missing fields"}

\* The close event: the pipes are closed too.
ChildCloses ==
  /\ child = "exited"
  /\ child' = "none"
  /\ ended' = Append(ended, code)
  /\ IF pc = "waiting"
     THEN /\ pc' = "cleanup" /\ failure' \in ChildError
          /\ timer' = "off"
          /\ readback' \in (IF Run = "fetch" THEN {"same", "other"} ELSE {readback})
     ELSE UNCHANGED <<pc, failure, timer, readback>>
  /\ UNCHANGED <<request, body, leg, dir, code, status>>

\* The finally block, what it throws in the place of a result, and then the next
\* run, the comparison of anchorTimestampCommitment or the answer.
CleanUp ==
  /\ pc = "cleanup"
  /\ \/ Throw("rm failed") /\ dir' = "stuck" /\ UNCHANGED leg
     \/ /\ dir' = "none"
        /\ CASE failure # "none" -> Throw(failure) /\ UNCHANGED leg
             [] failure = "none" /\ leg < Len(Legs(route)) ->
                  leg' = leg + 1 /\ pc' = "admitted" /\ UNCHANGED status
             [] OTHER -> /\ IF route = "stamp" /\ readback = "other"
                            THEN Throw("does not match client commitment")
                            ELSE Respond(200)
                         /\ UNCHANGED leg
  /\ UNCHANGED <<request, body, child, code, timer, failure, readback, ended>>

\* The server process dies, its timers with it; its child goes on.
Crash ==
  /\ pc \notin {"answered", "crashed"}
  /\ pc' = "crashed" /\ timer' = "off"
  /\ UNCHANGED <<request, body, leg, dir, child, code, failure, readback, ended, status>>

Handler == Budget \/ Configure \/ WriteInput \/ Spawn \/ CleanUp

Next ==
  \/ Throttle \/ Retired \/ RefuseForm \/ RefuseHead
  \/ StartReading \/ ReadChunk \/ ReadAborted
  \/ RefuseBody \/ RefusePayload \/ Admit
  \/ Handler
  \/ \E c \in {0, 1} : ChildExits(c)
  \/ TimerFires \/ ChildCloses
  \/ Crash

\* The handler goes on, an armed timer fires, and a process that is gone closes
\* its pipes (the CLI starts no process that could keep them).  A child need not
\* end by itself, nor a client send its body.
Fairness == WF_vars(Handler) /\ WF_vars(TimerFires) /\ WF_vars(ChildCloses)

Spec == Init /\ [][Next]_vars /\ Fairness

-----------------------------------------------------------------------------
\* Every variable has its type; what is kept of a body is within the limit of
\* the route.
TypeOK ==
  /\ route \in Routes /\ config \in Configs
  /\ pc \in {"arrived", "reading", "budget", "admitted", "writing", "spawning",
             "waiting", "cleanup", "answered", "crashed"}
  /\ body \in 0 .. MaxBytes
  /\ leg \in {1, 2} /\ dir \in {"none", "made", "stuck"} /\ readback \in {"same", "other"}
  /\ child \in {"none", "running", "exited"} /\ code \in {-1, 0, 1}
  /\ timer \in {"off", "armed", "fired"}
  /\ failure \in Failures /\ ended \in Seq({-1, 0, 1})
  /\ status \in {0, 200, 400, 410, 422, 429, 500, 503}

\* While a child runs, so does its directory exist: neither its time limit nor
\* the end of the request removes the files it works on (zectime-client.ts waits
\* for close before it cleans up).  And a request that was answered has left no
\* process behind, and no directory but one that could not be removed.
NothingLeft ==
  /\ child = "running" => dir = "made"
  /\ pc = "answered" => child = "none" /\ dir # "made"

\* Success means that every run of the route ended by itself with exit code 0,
\* in its order, and for a stamp that the chain holds the commitment sent.
OkMeansFinished ==
  status = 200 =>
    /\ ended = [i \in 1 .. Len(Legs(route)) |-> 0]
    /\ route = "stamp" => readback = "same"

\* A refusal the client may answer by trying again (400, 410, 429) comes before
\* any process or directory: nothing can have been published.
RefusedHasNoEffect ==
  status \in {400, 410, 429} => ended = <<>> /\ child = "none" /\ dir = "none" /\ leg = 1

\* An admitted request is answered, though the CLI may hang for ever: the timer
\* kills it.
BridgeAnswers == pc = "budget" \/ pc = "admitted" ~> pc \in {"answered", "crashed"}

=============================================================================
