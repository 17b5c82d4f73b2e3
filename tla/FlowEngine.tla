------------------------------ MODULE FlowEngine ------------------------------
(***************************************************************************)
(* packages/server/order-shared: the HTTP execution engine runs the two    *)
(* phases of a flow script, acquire and settle, step by step with retries, *)
(* through the egress of the adapters (middleware-egress.js), which falls  *)
(* silent after a 429 or a 5xx, and perhaps through the vault, whose       *)
(* client gives up on a request that its daemon goes on to execute.  A     *)
(* flow is run by the runs 1..MaxRuns of one task, one after the other.    *)
(***************************************************************************)
EXTENDS Integers, Sequences, FiniteSets, SequencesExt

CONSTANTS Flows,             \* the flow scripts to choose from
          SupportedVersions, \* adapter.capabilities.supportedFlowVersions
          SiteConfigured,    \* does the adapter have a config: is egress wrapped
          MaxRuns            \* bound: runs of the task

\* The actions that send a request, when there is a URL to ask.
Requesting == {"navigate", "tap", "navigate_with_state"}

FlowActions == Requesting \cup
  {"wait", "checkpoint", "humanize", "input", "select", "abort", "assert", "capture",
   "condition"}

\* A step as a script defines it: `asks` tells whether it has a URL, `when`
\* whether its condition holds, `retry` is retry.max.
FlowSteps ==
  [id : STRING, action : FlowActions, method : {"GET", "POST"}, asks : BOOLEAN,
   retry : Nat, when : BOOLEAN,
   captureAs : {"none", "reservation_token", "order_confirmation"}]

ASSUME EngineAssumption ==
  /\ SiteConfigured \in BOOLEAN
  /\ MaxRuns \in Nat
  /\ \A f \in Flows : \A p \in {"acquire", "settle"} :
       /\ f[p] \in Seq(FlowSteps)
       /\ \A i \in DOMAIN f[p] : f[p][i].asks => f[p][i].action \in Requesting

VARIABLES flow,      \* the script of the task
          run,       \* the current run, 0 before the first
          liveRuns,  \* the runs whose transactionControl allows live requests
          phase,     \* "acquire" or "settle" while executePhase runs, or "none"
          step,      \* index of the current step of the phase
          attempt,   \* runStep's attempt
          captured,  \* the names captured in this phase
          response,  \* executionState.lastResponse
          held,      \* is backoffUntil of this engine's egress in the future
          result,    \* what the last phase returned
          executed,  \* the mutating requests the site has executed, per run
                     \* and phase
          late       \* those the engine gave up on that may yet be executed

siteVars == <<executed, late>>
engineVars == <<flow, run, liveRuns, phase, step, attempt, captured, response,
                held, result, executed, late>>

Phases == {"acquire", "settle"}
Runs == 1..MaxRuns

NoResponse == [status |-> "none", complete |-> FALSE]

\* What the site answers: `complete` tells whether the field a step captures
\* is in it; a challenge is a 3DS page; "refused" is a 4xx status, "declined"
\* one whose body matches a decline reason.
Responses ==
  [status : {"ok", "challenge", "limited", "error", "refused", "declined"},
   complete : BOOLEAN]

-----------------------------------------------------------------------------
(* Validation of a flow *)

WellFormed(f) ==
  /\ f.acquire # <<>> /\ f.settle # <<>>
  /\ IsInjective([i \in DOMAIN (f.acquire \o f.settle) |-> (f.acquire \o f.settle)[i].id])
  /\ Last(f.acquire).captureAs = "reservation_token"
  /\ Head(f.settle).id = "validate_reservation"
  /\ Head(f.settle).action = "navigate_with_state"

Supported(f) == f.version \in SupportedVersions

-----------------------------------------------------------------------------
(* Errors *)

\* ERROR_META[code].recovery, of the codes that occur; an error without a
\* code has no entry.
Recovery ==
  [code \in {"acquire_failed", "payment_failed", "network_error",
             "rate_limited", "vault_unavailable", "internal_error"} |-> "retry"]

Retriable(code) == code = "uncoded" \/ code \in DOMAIN Recovery

Current == flow[phase][step]

Fail(reason) == [ok |-> FALSE, reason |-> reason]

\* Mutant of Retried: one attempt more than retry.max allows.
RetriedOnceMore(code) == Retriable(code) /\ attempt <= Current.retry

\* The catch block of runStep tries the step again.
Retried(code) == Retriable(code) /\ attempt < Current.retry

\* normalizeErrorCode(error.code ?? ...) of the phase's catch block.
Reason(code) ==
  IF code # "uncoded" THEN code
  ELSE IF phase = "acquire" THEN "acquire_failed" ELSE "payment_failed"

\* The current step throws.
Throw(code) ==
  /\ IF Retried(code)
     THEN attempt' = attempt + 1 /\ UNCHANGED <<phase, result>>
     ELSE attempt' = 0 /\ phase' = "none" /\ result' = Fail(Reason(code))
  /\ UNCHANGED <<step, captured>>

\* The current step returns, with a value if `value`.
StepDone(value) ==
  /\ step' = step + 1
  /\ attempt' = 0
  /\ captured' = (captured \ {Current.captureAs})
                   \cup (IF value THEN {Current.captureAs} \ {"none"} ELSE {})
  /\ UNCHANGED <<phase, result>>

-----------------------------------------------------------------------------
(* The phases *)

EngineInit ==
  /\ flow \in Flows
  /\ run = 0 /\ liveRuns = {}
  /\ phase = "none" /\ step = 1 /\ attempt = 0 /\ captured = {}
  /\ response = NoResponse /\ held = FALSE
  /\ result = Fail("none")
  /\ executed = [r \in Runs |-> [p \in Phases |-> 0]]
  /\ late = [r \in Runs |-> [p \in Phases |-> 0]]

\* runAcquirePhase and runSettlePhase of the engine begin: with an engine, an
\* egress wrapper and an execution state of their own.
StartPhase(p) ==
  /\ IF Supported(flow) /\ WellFormed(flow)
     THEN phase' = p /\ UNCHANGED result
     ELSE /\ phase' = "none"
          /\ result' = Fail(IF Supported(flow) THEN "flow_validation_failed"
                            ELSE "flow_version_unsupported")
  /\ step' = 1 /\ attempt' = 0 /\ response' = NoResponse /\ held' = FALSE
  /\ captured' = IF p = "settle" THEN {"reservation_token"} ELSE {}

\* executePhase returns: an acquire phase needs its token.
EndPhase ==
  /\ phase # "none" /\ step > Len(flow[phase])
  /\ result' = IF phase = "acquire" /\ "reservation_token" \notin captured
               THEN Fail("acquire_failed")
               ELSE [ok |-> TRUE, reason |-> "none"]
  /\ phase' = "none"
  /\ UNCHANGED <<flow, run, liveRuns, step, attempt, captured, response, held, siteVars>>

\* A step is executed that sends nothing.
At(actions) ==
  /\ phase # "none" /\ step <= Len(flow[phase])
  /\ Current.when /\ Current.action \in actions

Locally == UNCHANGED <<flow, run, liveRuns, response, held, siteVars>>

\* A step whose `when` does not hold.
SkipStep ==
  /\ phase # "none" /\ step <= Len(flow[phase])
  /\ ~Current.when
  /\ StepDone(FALSE) /\ Locally

LocalStep ==
  /\ At({"wait", "checkpoint", "humanize", "input", "select"})
  /\ StepDone(FALSE) /\ Locally

AbortStep ==
  /\ At({"abort"})
  /\ \E code \in {"user_cancelled", "internal_error"} : Throw(code)
  /\ Locally

\* An assertion about the last response.
AssertStep ==
  /\ At({"assert"})
  /\ StepDone(FALSE) \/ Throw("flow_outdated")
  /\ Locally

\* How captureValue fails: the field is missing, its pattern does not match, or
\* no such kind of field is known.
CaptureFailures == {"acquire_failed", "flow_outdated", "flow_validation_failed"}

\* A capture of a field of the last response.
CaptureStep ==
  /\ At({"capture"})
  /\ IF response.complete THEN StepDone(TRUE)
     ELSE \E code \in CaptureFailures : Throw(code)
  /\ Locally

\* `condition` is a FlowAction, but no case of the engine.
UnsupportedStep ==
  /\ At({"condition"})
  /\ IF Current.captureAs = "none" THEN Throw("flow_validation_failed")
     ELSE IF response.complete THEN StepDone(TRUE)
     ELSE \E code \in CaptureFailures : Throw(code)
  /\ Locally

-----------------------------------------------------------------------------
(* Requests *)

Mutating == Current.method # "GET"

BlockedByDryRun == run \notin liveRuns /\ Mutating

\* A token that was not captured has expired.
TokenMissing ==
  Current.action = "navigate_with_state" /\ "reservation_token" \notin captured

\* navigate_with_state without a URL only remembers the token.
UseToken ==
  /\ At({"navigate_with_state"})
  /\ IF TokenMissing THEN Throw("acquire_expired") ELSE ~Current.asks /\ StepDone(TRUE)
  /\ Locally

\* The step ends before anything is sent.
NotSent ==
  /\ At(Requesting)
  /\ \/ /\ ~Current.asks /\ Current.action # "navigate_with_state"
        /\ Throw(IF Current.action = "tap" THEN "flow_outdated"
                 ELSE "flow_validation_failed")
     \/ /\ Current.asks /\ ~TokenMissing /\ BlockedByDryRun
        /\ Throw("user_cancelled")
     \/ /\ Current.asks /\ ~TokenMissing /\ ~BlockedByDryRun /\ held
        /\ Throw("rate_limited")
  /\ Locally

Sends ==
  /\ At(Requesting)
  /\ Current.asks /\ ~TokenMissing /\ ~BlockedByDryRun /\ ~held

Executes == executed' = [executed EXCEPT ![run][phase] = @ + 1]

\* Mutant of Outcomes: a declined payment is a failed one.
OutcomesDecline(a) ==
  IF a.status = "challenge" /\ phase = "settle" THEN {"payment_3ds_required"}
  ELSE IF a.status = "limited" THEN {"rate_limited"}
  ELSE IF a.status = "error" THEN {"network_error"}
  ELSE IF a.status \in {"refused", "declined"}
       THEN {IF phase = "settle" THEN "payment_failed" ELSE "acquire_failed"}
  ELSE IF Current.captureAs # "none" /\ ~a.complete THEN CaptureFailures
  ELSE {"none"}

\* The errors an answer may end in, in the order #request looks for them; it
\* ends with the step's capture.
Outcomes(a) ==
  IF a.status = "challenge" /\ phase = "settle" THEN {"payment_3ds_required"}
  ELSE IF a.status = "limited" THEN {"rate_limited"}
  ELSE IF a.status = "error" THEN {"network_error"}
  ELSE IF a.status = "declined" /\ phase = "settle" THEN {"payment_declined"}
  ELSE IF a.status \in {"refused", "declined"}
       THEN {IF phase = "settle" THEN "payment_failed" ELSE "acquire_failed"}
  ELSE IF Current.captureAs # "none" /\ ~a.complete THEN CaptureFailures
  ELSE {"none"}

\* The site answers.  It has executed a mutating request when it says so, and
\* perhaps when it fails.
Answered(a) ==
  /\ Sends
  /\ response' = a
  /\ held' = (SiteConfigured /\ a.status \in {"limited", "error"})
  /\ \E code \in Outcomes(a) : IF code = "none" THEN StepDone(TRUE) ELSE Throw(code)
  /\ \/ Mutating /\ a.status \in {"ok", "error"} /\ Executes
     \/ ~(Mutating /\ a.status = "ok") /\ UNCHANGED executed
  /\ UNCHANGED <<flow, run, liveRuns, late>>

\* The engine gives up: fetch fails, is aborted at timeout_ms, or the vault's
\* client is out of time.  The site may have executed the request, may never
\* see it, or sees it later.
GivenUp ==
  /\ Sends
  /\ \E code \in {"uncoded", "vault_unavailable"} : Throw(code)
  /\ \/ Mutating /\ Executes /\ UNCHANGED late
     \/ Mutating /\ late' = [late EXCEPT ![run][phase] = @ + 1] /\ UNCHANGED executed
     \/ UNCHANGED siteVars
  /\ UNCHANGED <<flow, run, liveRuns, response, held>>

\* The daemon or the site executes a request nobody waits for.
LateExecution(r, p) ==
  /\ late[r][p] > 0
  /\ late' = [late EXCEPT ![r][p] = @ - 1]
  /\ executed' = [executed EXCEPT ![r][p] = @ + 1]
  /\ UNCHANGED <<flow, run, liveRuns, phase, step, attempt, captured, response,
                 held, result>>

\* The hold of 30 minutes ends while the engine waits for a retry.
HoldEnds ==
  /\ held /\ phase # "none"
  /\ held' = FALSE
  /\ UNCHANGED <<flow, run, liveRuns, phase, step, attempt, captured, response,
                 result, siteVars>>

EngineStep ==
  \/ EndPhase \/ SkipStep \/ LocalStep \/ AbortStep \/ AssertStep
  \/ CaptureStep \/ UnsupportedStep \/ UseToken \/ NotSent \/ GivenUp
  \/ \E a \in Responses : Answered(a)
=============================================================================
