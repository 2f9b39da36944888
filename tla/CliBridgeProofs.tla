-------------------------- MODULE CliBridgeProofs --------------------------
(***************************************************************************)
(* The safety properties of CliBridge for a body limit and a chunk size of *)
(* any length.  IInv says, for each place of the handler, what exists      *)
(* beside it: directory, child, timer, and what the finished runs returned.*)
(***************************************************************************)
EXTENDS CliBridge, TLAPS

Zeros(n) == [i \in 1 .. n |-> 0]

\* The routes whose requests are admitted run the CLI.
Admitted == {"stamp", "fetch", "predicate/verify"}

\* The first half of NothingLeft.
DirOutlivesChild == child = "running" => dir = "made"

\* Before a run, nothing exists.
Early ==
  pc \in {"arrived", "reading", "budget"} =>
    /\ leg = 1 /\ dir = "none" /\ child = "none" /\ ended = <<>> /\ failure = "none"
    /\ pc = "reading" => route # "anchor"
    /\ pc = "budget" => route = "stamp"

\* A run that is on: the runs before it ended with 0.
OnLeg ==
  pc \in {"admitted", "writing", "spawning", "waiting", "cleanup"} =>
    /\ route \in Admitted /\ leg <= Len(Legs(route))
    /\ pc # "cleanup" => ended = Zeros(leg - 1) /\ failure = "none"
    /\ pc = "cleanup" /\ failure = "none" => ended = Zeros(leg)

\* A second run needs the configuration that the first one had.
Configured ==
  (pc = "admitted" /\ leg > 1) \/ pc \in {"writing", "spawning", "waiting", "cleanup"}
    => config = "complete"

Resources ==
  /\ pc = "admitted" => dir = "none" /\ child = "none"
  /\ pc \in {"writing", "spawning", "cleanup"} => dir = "made" /\ child = "none"
  /\ pc = "waiting" => dir = "made" /\ child \in {"running", "exited"}
  /\ pc = "answered" => dir # "made" /\ child = "none"

Unanswered == pc # "answered" => status = 0

IInv ==
  /\ TypeOK /\ DirOutlivesChild /\ NothingLeft
  /\ OkMeansFinished /\ RefusedHasNoEffect
  /\ Early /\ OnLeg /\ Configured /\ Resources /\ Unanswered

-----------------------------------------------------------------------------
\* The runs of each route.
LEMMA LegsFacts ==
  /\ Len(Legs("stamp")) = 2 /\ Legs("stamp")[1] = "anchor" /\ Legs("stamp")[2] = "fetch"
  /\ Len(Legs("fetch")) = 1 /\ Legs("fetch")[1] = "fetch"
  /\ Len(Legs("predicate/verify")) = 1 /\ Legs("predicate/verify")[1] = "predicate-verify"
BY DEF Legs

\* One more run that ended with 0.
LEMMA ZerosGrow ==
  ASSUME NEW n \in {1, 2}
  PROVE  Append(Zeros(n - 1), 0) = Zeros(n)
<1>1. Append(Zeros(0), 0) = Zeros(1)
  BY DEF Zeros
<1>2. Append(Zeros(1), 0) = Zeros(2)
  BY DEF Zeros
<1> QED BY <1>1, <1>2

\* The statuses of the errors that are thrown.
LEMMA Statuses ==
  /\ STATUS_BY_KIND[ClassifyError("validation")] = 400
  /\ STATUS_BY_KIND[ClassifyError("rate_limit")] = 429
  /\ STATUS_BY_KIND[ClassifyError("store failed")] = 500
  /\ STATUS_BY_KIND[ClassifyError("aborted")] = 500
  /\ STATUS_BY_KIND[ClassifyError("mkdtemp failed")] = 500
  /\ STATUS_BY_KIND[ClassifyError("rm failed")] = 500
  /\ STATUS_BY_KIND[ClassifyError("does not match client commitment")] = 500
  /\ \A f \in Failures : STATUS_BY_KIND[ClassifyError(f)] = 500
BY DEF STATUS_BY_KIND, ClassifyError, Failures

LEMMA ConfigStatuses ==
  ASSUME config \in Configs, route \in Admitted, leg \in {1, 2},
         leg <= Len(Legs(route))
  PROVE  /\ config = "complete" <=> ConfigError = "none"
         /\ ConfigError # "none" =>
              STATUS_BY_KIND[ClassifyError(ConfigError)] \in {422, 500, 503}
<1>1. Run \in {"anchor", "fetch", "predicate-verify"}
  BY LegsFacts DEF Run, Admitted
<1>2. ConfigError \in {"none", "must be a positive integer", "Unsupported Zcash network",
                       "Missing anchor configuration",
                       "Missing anchor fetch configuration",
                       "Missing ZECTIME_PREDICATE_PARAMS_PATH"}
  BY <1>1 DEF ConfigError, Configs
<1>3. config = "complete" <=> ConfigError = "none"
  BY <1>1 DEF ConfigError, Configs
<1>4. \A e \in {"must be a positive integer", "Unsupported Zcash network",
                "Missing anchor configuration", "Missing anchor fetch configuration",
                "Missing ZECTIME_PREDICATE_PARAMS_PATH"} :
        ClassifyError(e) \in {"cli_unavailable", "network_unsupported", "unknown"}
  BY DEF ClassifyError
<1>5. /\ STATUS_BY_KIND["cli_unavailable"] = 503
      /\ STATUS_BY_KIND["network_unsupported"] = 422
      /\ STATUS_BY_KIND["unknown"] = 500
  BY DEF STATUS_BY_KIND
<1>6. ASSUME ConfigError # "none"
      PROVE  ClassifyError(ConfigError) \in {"cli_unavailable", "network_unsupported", "unknown"}
  BY <1>2, <1>4, <1>6
<1>7. \A k \in {"cli_unavailable", "network_unsupported", "unknown"} :
        STATUS_BY_KIND[k] \in {422, 500, 503}
  BY <1>5
<1> QED BY <1>3, <1>6, <1>7

-----------------------------------------------------------------------------
LEMMA InitIInv == Init => IInv
<1> SUFFICES ASSUME Init PROVE IInv
  OBVIOUS
<1>1. /\ route \in Routes /\ config \in Configs /\ pc = "arrived" /\ body = 0 /\ leg = 1
      /\ dir = "none" /\ child = "none" /\ code = 0 /\ timer = "off" /\ failure = "none"
      /\ readback = "same" /\ ended = <<>> /\ status = 0
  BY DEF Init
<1>2. ended \in Seq({-1, 0, 1})
  BY <1>1
<1>3. TypeOK
  BY <1>1, <1>2, BridgeAssumption DEF TypeOK, Failures
<1>5. status \notin {200, 400, 410, 429}
  BY <1>1
<1> QED
  BY <1>1, <1>3, <1>5 DEF IInv, DirOutlivesChild, NothingLeft, OkMeansFinished,
     RefusedHasNoEffect, Early, OnLeg, Configured, Resources, Unanswered

\* An answer that is not a success, before anything was started.
LEMMA Refusals ==
  ASSUME IInv, pc \in {"arrived", "reading", "budget"},
         NEW s \in {400, 410, 429, 500}, Respond(s),
         body' = body, UNCHANGED <<request, run>>
  PROVE  IInv'
<1>1. /\ status' = s /\ pc' = "answered" /\ route' = route /\ config' = config
      /\ leg' = leg /\ dir' = dir /\ child' = child /\ code' = code /\ timer' = timer
      /\ failure' = failure /\ readback' = readback /\ ended' = ended
  BY DEF Respond, request, run
<1>2. TypeOK'
  BY <1>1 DEF IInv, TypeOK
<1>4. leg = 1 /\ dir = "none" /\ child = "none" /\ ended = <<>>
  BY DEF IInv, Early
<1> QED
  BY <1>1, <1>2, <1>4 DEF IInv, DirOutlivesChild, NothingLeft, OkMeansFinished,
     RefusedHasNoEffect, Early, OnLeg, Configured, Resources, Unanswered

\* An error thrown there.
LEMMA EarlyThrows ==
  ASSUME IInv, pc \in {"arrived", "reading", "budget"},
         NEW e \in {"validation", "rate_limit", "store failed", "aborted"}, Throw(e),
         UNCHANGED <<request, body, run>>
  PROVE  IInv'
<1>0. body' = body /\ UNCHANGED <<request, run>>
  OBVIOUS
<1>1. CASE e = "validation"
  <2>1. Respond(400)
    BY <1>1, Statuses DEF Throw
  <2> QED BY <2>1, <1>0, Refusals
<1>2. CASE e = "rate_limit"
  <2>1. Respond(429)
    BY <1>2, Statuses DEF Throw
  <2> QED BY <2>1, <1>0, Refusals
<1>3. CASE e = "store failed"
  <2>1. Respond(500)
    BY <1>3, Statuses DEF Throw
  <2> QED BY <2>1, <1>0, Refusals
<1>4. CASE e = "aborted"
  <2>1. Respond(500)
    BY <1>4, Statuses DEF Throw
  <2> QED BY <2>1, <1>0, Refusals
<1> QED BY <1>1, <1>2, <1>3, <1>4

\* Up to an admitted request.
LEMMA HeadSteps ==
  ASSUME IInv,
         Throttle \/ Retired \/ RefuseForm \/ RefuseHead \/ StartReading \/ ReadChunk
           \/ ReadAborted \/ RefuseBody \/ RefusePayload \/ Admit \/ Budget
  PROVE  IInv'
<1>1. CASE Throttle
  BY <1>1, Refusals DEF Throttle
<1>2. CASE Retired
  BY <1>2, Refusals DEF Retired
<1>3. CASE RefuseForm
  BY <1>3, EarlyThrows DEF RefuseForm
<1>4. CASE RefuseHead
  BY <1>4, EarlyThrows DEF RefuseHead
<1>5. CASE StartReading
  <2>1. TypeOK'
    BY <1>5 DEF StartReading, request, run, IInv, TypeOK
  <2> QED
    BY <1>5, <2>1 DEF StartReading, request, run, IInv, TypeOK, DirOutlivesChild,
       NothingLeft, OkMeansFinished, RefusedHasNoEffect, Early, OnLeg, Configured,
       Resources, Unanswered
<1>6. CASE ReadChunk
  <2>1. PICK n \in 1 .. MaxChunk :
          IF body + n > MaxBytes
          THEN Throw("validation") /\ UNCHANGED body
          ELSE body' = body + n /\ UNCHANGED <<pc, status>>
    BY <1>6 DEF ReadChunk
  <2>2. CASE body + n > MaxBytes
    <3>1. Throw("validation") /\ UNCHANGED <<request, body, run>> /\ pc = "reading"
      BY <1>6, <2>1, <2>2 DEF ReadChunk
    <3> QED BY <3>1, EarlyThrows
  <2>3. CASE ~(body + n > MaxBytes)
    <3>1. body' \in Nat /\ body' <= MaxBytes /\ UNCHANGED <<pc, status>>
      BY <2>1, <2>3, BridgeAssumption DEF IInv, TypeOK
    <3>2. TypeOK'
      BY <1>6, <3>1 DEF ReadChunk, request, run, IInv, TypeOK
    <3> QED
      BY <1>6, <3>1, <3>2 DEF ReadChunk, request, run, IInv, DirOutlivesChild,
         NothingLeft, OkMeansFinished, RefusedHasNoEffect, Early, OnLeg, Configured,
         Resources, Unanswered
  <2> QED BY <2>2, <2>3
<1>7. CASE ReadAborted
  BY <1>7, EarlyThrows DEF ReadAborted
<1>8. CASE RefuseBody
  BY <1>8, EarlyThrows DEF RefuseBody
<1>9. CASE RefusePayload
  BY <1>9, EarlyThrows DEF RefusePayload
<1>10. CASE Admit
  <2>1. TypeOK'
    BY <1>10 DEF Admit, request, run, IInv, TypeOK
  <2>3. route \in Admitted
    BY <1>10 DEF Admit, IInv, TypeOK, Early, Routes, Admitted
  <2>4. ended = Zeros(leg - 1) /\ leg <= Len(Legs(route))
    BY <1>10, <2>3, LegsFacts DEF Admit, IInv, Early, Zeros, Admitted
  <2> QED
    BY <1>10, <2>1, <2>3, <2>4 DEF Admit, request, run, IInv, DirOutlivesChild,
       NothingLeft, OkMeansFinished, RefusedHasNoEffect, Early, OnLeg, Configured,
       Resources, Unanswered
<1>11. CASE Budget
  <2>1. CASE \E e \in {"rate_limit", "validation", "store failed"} : Throw(e)
    <3>1. PICK e \in {"rate_limit", "validation", "store failed"} : Throw(e)
      BY <2>1
    <3>2. UNCHANGED <<request, body, run>> /\ pc = "budget"
      BY <1>11 DEF Budget
    <3> QED BY <3>1, <3>2, EarlyThrows
  <2>2. CASE pc' = "admitted" /\ UNCHANGED status
    <3>1. TypeOK'
      BY <1>11, <2>2 DEF Budget, request, run, IInv, TypeOK
    <3>2. pc = "budget"
      BY <1>11 DEF Budget
    <3>3. route = "stamp" /\ leg = 1 /\ ended = <<>>
      BY <3>2 DEF IInv, Early
    <3>4. Zeros(0) = <<>>
      BY DEF Zeros
    <3>5. route' = "stamp" /\ leg' = 1 /\ ended' = <<>>
      BY <1>11, <3>3 DEF Budget, request, run
    <3>6. leg' - 1 = 0 /\ leg' <= Len(Legs(route'))
      BY <3>5, LegsFacts
    <3>7. /\ route' \in Admitted /\ leg' <= Len(Legs(route')) /\ leg' = 1
          /\ ended' = Zeros(leg' - 1)
      BY <3>4, <3>5, <3>6 DEF Admitted
    <3> QED
      BY <1>11, <2>2, <3>1, <3>7 DEF Budget, request, run, IInv, DirOutlivesChild,
         NothingLeft, OkMeansFinished, RefusedHasNoEffect, Early, OnLeg, Configured,
         Resources, Unanswered
  <2> QED BY <1>11, <2>1, <2>2 DEF Budget
<1> QED
  BY <1>1, <1>2, <1>3, <1>4, <1>5, <1>6, <1>7, <1>8, <1>9, <1>10, <1>11

-----------------------------------------------------------------------------
\* What there is to show of a step that does not answer.
LEMMA Unfinished ==
  ASSUME TypeOK', status' = 0, OnLeg', Configured', Resources',
         pc' \in {"admitted", "writing", "spawning", "waiting", "cleanup", "crashed"},
         DirOutlivesChild'
  PROVE  IInv'
BY DEF IInv, DirOutlivesChild, NothingLeft, OkMeansFinished, RefusedHasNoEffect, Early, Unanswered

\* An error answered when a run is over or could not begin.
LEMMA LateRefusal ==
  ASSUME IInv, NEW s \in {422, 500, 503}, Respond(s), child = "none",
         dir' \in {"none", "stuck"},
         UNCHANGED <<request, body, leg, child, code, timer, failure, readback, ended>>
  PROVE  IInv'
<1>1. /\ status' = s /\ pc' = "answered" /\ route' = route /\ config' = config
      /\ body' = body /\ leg' = leg /\ child' = child /\ code' = code /\ timer' = timer
      /\ failure' = failure /\ readback' = readback /\ ended' = ended
  BY DEF Respond, request
<1>2. TypeOK'
  BY <1>1 DEF IInv, TypeOK
<1> QED
  BY <1>1, <1>2 DEF IInv, DirOutlivesChild, NothingLeft, OkMeansFinished,
     RefusedHasNoEffect, Early, OnLeg, Configured, Resources, Unanswered

LEMMA ConfigureStep == ASSUME IInv, Configure PROVE IInv'
<1>1. pc = "admitted" /\ UNCHANGED <<request, body, leg, child, code, timer, failure, readback, ended>>
  BY DEF Configure
<1>2. /\ route \in Admitted /\ leg <= Len(Legs(route)) /\ leg \in {1, 2}
      /\ dir = "none" /\ child = "none" /\ status = 0 /\ config \in Configs
      /\ ended = Zeros(leg - 1) /\ failure = "none"
  BY <1>1 DEF IInv, TypeOK, OnLeg, Resources, Unanswered
<1>3. CASE ConfigError # "none"
  <2>1. Throw(ConfigError) /\ dir' = dir
    BY <1>3 DEF Configure
  <2>2. STATUS_BY_KIND[ClassifyError(ConfigError)] \in {422, 500, 503}
    BY <1>2, <1>3, ConfigStatuses
  <2>3. PICK s \in {422, 500, 503} : s = STATUS_BY_KIND[ClassifyError(ConfigError)]
    BY <2>2
  <2>4. Respond(s)
    BY <2>1, <2>3 DEF Throw
  <2> QED BY <1>1, <1>2, <2>1, <2>4, LateRefusal
<1>4. CASE ConfigError = "none"
  <2>1. config = "complete"
    BY <1>2, <1>4, ConfigStatuses
  <2>2. CASE Throw("mkdtemp failed") /\ UNCHANGED dir
    <3>1. Respond(500)
      BY <2>2, Statuses DEF Throw
    <3> QED BY <1>1, <1>2, <2>2, <3>1, LateRefusal
  <2>3. CASE dir' = "made" /\ pc' = "writing" /\ UNCHANGED status
    <3>1. TypeOK'
      BY <1>1, <2>3 DEF IInv, TypeOK, request
    <3>2. OnLeg' /\ Configured' /\ Resources' /\ DirOutlivesChild'
      BY <1>1, <1>2, <2>1, <2>3 DEF OnLeg, Configured, Resources, DirOutlivesChild, request
    <3> QED BY <1>2, <2>3, <3>1, <3>2, Unfinished
  <2> QED BY <1>4, <2>2, <2>3 DEF Configure
<1> QED BY <1>3, <1>4

\* The two steps between the directory and the child.
LEMMA StartSteps == ASSUME IInv, WriteInput \/ Spawn PROVE IInv'
<1>1. pc \in {"writing", "spawning"} /\ pc' \in {"spawning", "waiting", "cleanup"}
  BY DEF WriteInput, Spawn
<1>2. UNCHANGED <<request, body, leg, dir, code, readback, ended, status>>
  BY DEF WriteInput, Spawn
<1>3. /\ route \in Admitted /\ leg <= Len(Legs(route)) /\ dir = "made" /\ child = "none"
      /\ status = 0 /\ config = "complete" /\ ended = Zeros(leg - 1) /\ failure = "none"
  BY <1>1 DEF IInv, OnLeg, Resources, Configured, Unanswered
<1>4. /\ failure' \in Failures /\ timer' \in {"off", "armed", "fired"}
      /\ child' \in {"none", "running"}
      /\ pc' = "waiting" <=> child' = "running"
      /\ pc' = "cleanup" => failure' # "none"
      /\ pc' # "cleanup" => failure' = "none"
  <2>1. CASE WriteInput
    BY <2>1, <1>3 DEF WriteInput, IInv, TypeOK, Failures
  <2>2. CASE Spawn
    BY <2>2, <1>3 DEF Spawn, Failures
  <2> QED BY <2>1, <2>2
<1>5. TypeOK'
  BY <1>1, <1>2, <1>4 DEF IInv, TypeOK, request
<1>6. OnLeg' /\ Configured' /\ Resources' /\ DirOutlivesChild'
  BY <1>1, <1>2, <1>3, <1>4 DEF OnLeg, Configured, Resources, DirOutlivesChild, request
<1> QED BY <1>1, <1>2, <1>3, <1>5, <1>6, Unfinished

\* The child ends, or is killed: nothing but the child and its timer changes.
LEMMA ProcessSteps ==
  ASSUME IInv, (\E c \in {0, 1} : ChildExits(c)) \/ TimerFires
  PROVE  IInv'
<1>1. UNCHANGED <<request, pc, body, leg, dir, failure, readback, ended, status>>
  BY DEF ChildExits, TimerFires
<1>2. /\ child' \in {child, "exited"} /\ code' \in {-1, 0, 1}
      /\ timer' \in {"off", "armed", "fired"}
      /\ child # "running" => child' = child
  BY DEF ChildExits, TimerFires, IInv, TypeOK
<1>3. TypeOK'
  BY <1>1, <1>2 DEF IInv, TypeOK, request
<1>4. Early' /\ OnLeg' /\ Configured' /\ Unanswered'
  BY <1>1, <1>2 DEF IInv, Early, OnLeg, Configured, Unanswered, request
<1>5. Resources' /\ DirOutlivesChild' /\ NothingLeft'
  BY <1>1, <1>2 DEF IInv, Resources, DirOutlivesChild, NothingLeft
<1>6. OkMeansFinished' /\ RefusedHasNoEffect'
  BY <1>1, <1>2 DEF IInv, OkMeansFinished, RefusedHasNoEffect, request
<1> QED BY <1>3, <1>4, <1>5, <1>6 DEF IInv

LEMMA ChildClosesStep == ASSUME IInv, ChildCloses PROVE IInv'
<1>1. /\ child = "exited" /\ child' = "none" /\ ended' = Append(ended, code)
      /\ UNCHANGED <<request, body, leg, dir, code, status>>
  BY DEF ChildCloses
<1>2. code \in {-1, 0, 1} /\ ended' \in Seq({-1, 0, 1}) /\ leg \in {1, 2}
  BY <1>1 DEF IInv, TypeOK
<1>3. pc \in {"waiting", "crashed"}
  BY <1>1 DEF IInv, TypeOK, Early, Resources
<1>4. CASE pc = "waiting"
  <2>1. /\ pc' = "cleanup" /\ failure' \in ChildError /\ timer' = "off"
        /\ readback' \in {"same", "other"}
    BY <1>4 DEF ChildCloses, IInv, TypeOK
  <2>2. failure' \in Failures /\ (failure' = "none" => code = 0)
    BY <2>1 DEF ChildError, Failures
  <2>3. TypeOK'
    BY <1>1, <1>2, <2>1, <2>2 DEF IInv, TypeOK, request
  <2>4. /\ route \in Admitted /\ leg <= Len(Legs(route)) /\ dir = "made"
        /\ status = 0 /\ config = "complete" /\ ended = Zeros(leg - 1)
    BY <1>4 DEF IInv, OnLeg, Resources, Configured, Unanswered
  <2>5. failure' = "none" => ended' = Zeros(leg)
    BY <1>1, <1>2, <2>2, <2>4, ZerosGrow
  <2>6. OnLeg' /\ Configured' /\ Resources' /\ DirOutlivesChild'
    BY <1>1, <2>1, <2>4, <2>5 DEF OnLeg, Configured, Resources, DirOutlivesChild, request
  <2> QED BY <1>1, <2>1, <2>3, <2>4, <2>6, Unfinished
<1>5. CASE pc = "crashed"
  <2>1. UNCHANGED <<pc, failure, timer, readback>>
    BY <1>5 DEF ChildCloses
  <2>2. TypeOK'
    BY <1>1, <1>2, <2>1 DEF IInv, TypeOK, request
  <2>3. status' = 0
    BY <1>1, <1>5 DEF IInv, Unanswered
  <2> QED
    BY <1>1, <1>5, <2>1, <2>2, <2>3, Unfinished DEF OnLeg, Configured, Resources,
       DirOutlivesChild
<1> QED BY <1>3, <1>4, <1>5

LEMMA CleanUpStep == ASSUME IInv, CleanUp PROVE IInv'
<1>1. pc = "cleanup" /\ UNCHANGED <<request, body, child, code, timer, failure, readback, ended>>
  BY DEF CleanUp
<1>2. /\ route \in Admitted /\ leg <= Len(Legs(route)) /\ leg \in {1, 2}
      /\ dir = "made" /\ child = "none" /\ status = 0 /\ config = "complete"
      /\ failure \in Failures /\ (failure = "none" => ended = Zeros(leg))
      /\ readback \in {"same", "other"}
  BY <1>1 DEF IInv, TypeOK, OnLeg, Resources, Configured, Unanswered
<1>3. CASE Throw("rm failed") /\ dir' = "stuck" /\ UNCHANGED leg
  <2>1. Respond(500)
    BY <1>3, Statuses DEF Throw
  <2> QED BY <1>1, <1>2, <1>3, <2>1, LateRefusal
<1>4. CASE dir' = "none" /\ failure # "none"
  <2>1. Throw(failure) /\ UNCHANGED leg
    BY <1>4 DEF CleanUp
  <2>2. STATUS_BY_KIND[ClassifyError(failure)] = 500
    BY <1>2, Statuses
  <2>3. Respond(500)
    BY <2>1, <2>2 DEF Throw
  <2> QED BY <1>1, <1>2, <1>4, <2>1, <2>3, LateRefusal
<1>5. CASE dir' = "none" /\ failure = "none" /\ leg < Len(Legs(route))
  <2>1. leg' = leg + 1 /\ pc' = "admitted" /\ UNCHANGED status
    BY <1>5 DEF CleanUp
  <2>2. leg = 1 /\ leg' = 2 /\ leg' <= Len(Legs(route))
    <3>1. Len(Legs(route)) \in {1, 2}
      BY <1>2, LegsFacts DEF Admitted
    <3>2. leg \in {1, 2} /\ leg < Len(Legs(route)) /\ leg' = leg + 1
      BY <1>2, <1>5, <2>1
    <3>3. \A m, n \in {1, 2} : m < n => m = 1 /\ n = 2
      OBVIOUS
    <3>4. leg = 1 /\ Len(Legs(route)) = 2
      BY <3>1, <3>2, <3>3, Zenon
    <3> QED BY <3>2, <3>4
  <2>3. TypeOK'
    BY <1>1, <1>5, <2>1, <2>2 DEF IInv, TypeOK, request
  <2>4. ended' = Zeros(leg' - 1)
    <3>1. ended' = Zeros(1) /\ leg' - 1 = 1
      BY <1>1, <1>2, <1>5, <2>2
    <3> QED BY <3>1
  <2>5. OnLeg' /\ Configured' /\ Resources' /\ DirOutlivesChild'
    BY <1>1, <1>2, <1>5, <2>1, <2>2, <2>4 DEF OnLeg, Configured, Resources,
       DirOutlivesChild, request
  <2> QED BY <1>2, <2>1, <2>3, <2>5, Unfinished
<1>6. CASE dir' = "none" /\ failure = "none" /\ ~(leg < Len(Legs(route)))
  <2>1. /\ UNCHANGED leg
        /\ IF route = "stamp" /\ readback = "other"
           THEN Throw("does not match client commitment")
           ELSE Respond(200)
    BY <1>6 DEF CleanUp
  <2>2. CASE route = "stamp" /\ readback = "other"
    <3>1. Respond(500)
      BY <2>1, <2>2, Statuses DEF Throw
    <3> QED BY <1>1, <1>2, <1>6, <2>1, <3>1, LateRefusal
  <2>3. CASE ~(route = "stamp" /\ readback = "other")
    <3>1. Respond(200)
      BY <2>1, <2>3
    <3>2. status' = 200 /\ pc' = "answered"
      BY <3>1 DEF Respond
    <3>3. /\ leg' = leg /\ dir' = "none" /\ route' = route /\ config' = config
          /\ body' = body /\ child' = child /\ code' = code /\ timer' = timer
          /\ failure' = failure /\ readback' = readback /\ ended' = ended
      BY <1>1, <1>6, <2>1 DEF request
    <3>4. TypeOK'
      BY <3>2, <3>3 DEF IInv, TypeOK
    <3>5. leg = Len(Legs(route))
      BY <1>2, <1>6, LegsFacts DEF Admitted
    <3>6. ended = [i \in 1 .. Len(Legs(route)) |-> 0]
      BY <1>2, <1>6, <3>5 DEF Zeros
    <3>7. OkMeansFinished'
      BY <1>1, <1>2, <2>3, <3>6 DEF OkMeansFinished, request
    <3> QED
      BY <1>2, <3>2, <3>4, <3>7, <3>3 DEF IInv, DirOutlivesChild, NothingLeft,
         RefusedHasNoEffect, Early, OnLeg, Configured, Resources, Unanswered
  <2> QED BY <2>2, <2>3
<1> QED BY <1>3, <1>4, <1>5, <1>6 DEF CleanUp

LEMMA CrashStep == ASSUME IInv, Crash PROVE IInv'
<1>1. /\ pc \notin {"answered", "crashed"} /\ pc' = "crashed" /\ timer' = "off"
      /\ UNCHANGED <<request, body, leg, dir, child, code, failure, readback, ended, status>>
  BY DEF Crash
<1>2. TypeOK'
  BY <1>1 DEF IInv, TypeOK, request
<1>3. status' = 0
  BY <1>1 DEF IInv, Unanswered
<1>4. DirOutlivesChild'
  BY <1>1 DEF IInv, DirOutlivesChild
<1> QED
  BY <1>1, <1>2, <1>3, <1>4, Unfinished DEF OnLeg, Configured, Resources

LEMMA StepIInv == IInv /\ [Next]_vars => IInv'
<1> SUFFICES ASSUME IInv, [Next]_vars PROVE IInv'
  OBVIOUS
<1>1. CASE UNCHANGED vars
  BY <1>1 DEF vars, IInv, TypeOK, DirOutlivesChild, NothingLeft,
     OkMeansFinished, RefusedHasNoEffect, Early, OnLeg, Configured, Resources, Unanswered
<1>2. CASE Next
  BY <1>2, HeadSteps, ConfigureStep, StartSteps, ProcessSteps, ChildClosesStep,
     CleanUpStep, CrashStep DEF Next, Handler
<1> QED BY <1>1, <1>2

LEMMA InductiveInvariant == Spec => []IInv
BY InitIInv, StepIInv, PTL DEF Spec

-----------------------------------------------------------------------------
\* The variables of a request keep their types; whatever the chunks are, no more
\* than the limit of the route is kept.
THEOREM TypeCorrect == Spec => []TypeOK
<1>1. IInv => TypeOK
  BY DEF IInv
<1> QED BY <1>1, InductiveInvariant, PTL

\* A running child has its directory, also after the server crashed; an answered
\* request has left nothing behind but what rm could not remove.
THEOREM NothingIsLeft == Spec => []NothingLeft
<1>1. IInv => NothingLeft
  BY DEF IInv
<1> QED BY <1>1, InductiveInvariant, PTL

\* A success was preceded by every run of the route, each with exit code 0.
THEOREM OkAfterEveryRun == Spec => []OkMeansFinished
<1>1. IInv => OkMeansFinished
  BY DEF IInv
<1> QED BY <1>1, InductiveInvariant, PTL

\* A refusal that invites to try again comes before any effect.
THEOREM RefusalsAreSafe == Spec => []RefusedHasNoEffect
<1>1. IInv => RefusedHasNoEffect
  BY DEF IInv
<1> QED BY <1>1, InductiveInvariant, PTL
=============================================================================
