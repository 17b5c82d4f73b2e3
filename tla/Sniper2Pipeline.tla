--------------------------- MODULE Sniper2Pipeline ---------------------------
(***************************************************************************)
(* The order pipeline of packages/server/sniper2-service/index.js: tasks   *)
(* acquire a reservation through the AcquirePool and pay for it through    *)
(* the PaymentChannel of their card.  A run is one request that drives a   *)
(* task: the whole pipeline (POST /run, or the scheduler's trigger), or    *)
(* one phase of it (POST /acquire, POST /settle).                          *)
(*                                                                         *)
(* Node runs one callback at a time: an action is what happens between two *)
(* awaits on I/O.  A run suspends while the adapter fetches a snapshot,    *)
(* while it waits for a slot, and while an engine runs a phase.            *)
(***************************************************************************)
EXTENDS AcquirePool, PaymentChannel, StateMachines

CONSTANTS TaskOf,    \* the task each run drives
          Kinds,     \* the requests made: a subset of {"run", "acquire", "settle"}
          AutoDriven,\* the runs the scheduler triggers, not a request
          Forced,    \* the runs whose request sets forceNow
          Cancels    \* the tasks that cancelTask may be called on

\* A run asks the pool for a slot under its own name.
Runs == Requests

ASSUME PipelineAssumption ==
  /\ TaskOf \in [Runs -> Tasks]
  /\ Kinds \subseteq {"run", "acquire", "settle"}
  /\ AutoDriven \subseteq Runs /\ Forced \subseteq Runs
  /\ Cancels \subseteq Tasks

VARIABLES pc,        \* where each run is suspended
          kind,      \* what each run was asked to do
          machine,   \* the state of each task's machine
          reserved,  \* task.acquireResult: when the reservation expires
          terminals, \* history: sniper2:task:terminal events of each run
          charged    \* history: settle phases of the task the vendor confirmed

runVars == <<pc, kind, terminals>>
taskVars == <<machine, reserved, charged>>
pipelineVars == <<poolVars, channelVars, runVars, taskVars>>

Suspended == {"fetching", "waiting", "acquiring", "rechecking", "paying"}
Ended == {"done", "threw"}

PipelineTypeOK ==
  /\ PoolTypeOK
  /\ ChannelTypeOK
  /\ pc \in [Runs -> {"idle"} \cup Suspended \cup Ended]
  /\ kind \in [Runs -> Kinds \cup {None}]
  /\ machine \in [Tasks -> Sniper2States]
  /\ reserved \in [Tasks -> Nat \cup {None}]
  /\ terminals \in [Runs -> Nat]
  /\ charged \in [Tasks -> Nat]

\* createTask has put every task in the state `configured`.
PipelineInit ==
  /\ PoolInit
  /\ ChannelInit
  /\ pc = [r \in Runs |-> "idle"]
  /\ kind = [r \in Runs |-> None]
  /\ machine = [t \in Tasks |-> "configured"]
  /\ reserved = [t \in Tasks |-> None]
  /\ terminals = [r \in Runs |-> 0]
  /\ charged = [t \in Tasks |-> 0]

-----------------------------------------------------------------------------
(* How a run resumes and ends *)

\* The runs whose slot the step grants, at once or from the queue.
Granted == {r \in Runs : caller[r] # "granted" /\ caller'[r] = "granted"}

\* Where the runs are once r is at `at` and the granted ones have resumed.
MoveTo(r, at) ==
  pc' = [q \in Runs |-> IF q = r THEN at ELSE IF q \in Granted THEN "acquiring" ELSE pc[q]]

\* A granted run sends strike and acquire to its task's machine.
Struck(states) ==
  [t \in Tasks |-> IF t \in {TaskOf[q] : q \in Granted}
                   THEN Sniper2Send(Sniper2Send(states[t], "strike"), "acquire")
                   ELSE states[t]]

After(t, event) == [machine EXCEPT ![t] = Sniper2Send(@, event)]

\* #emitTerminal: the full pipeline ends by emitting the task's outcome.
Emit(r) == terminals' = [terminals EXCEPT ![r] = IF kind[r] = "run" THEN @ + 1 ELSE @]

Return(r) == MoveTo(r, "done") /\ Emit(r)

\* The run's promise rejects.  A request answers with the error; the
\* scheduler's catch calls onMiss, which emits the outcome network_outage.
Throw(r) ==
  /\ MoveTo(r, "threw")
  /\ IF r \in AutoDriven THEN Emit(r) ELSE UNCHANGED terminals

-----------------------------------------------------------------------------
(* The acquire phase *)

StartRun(r, k) ==
  /\ pc[r] = "idle"
  /\ k \in Kinds
  /\ r \in AutoDriven => k = "run"
  /\ kind' = [kind EXCEPT ![r] = k]
  /\ pc' = [pc EXCEPT ![r] = "fetching"]
  /\ UNCHANGED <<poolVars, channelVars, terminals, taskVars>>

FetchThrows(r) ==
  /\ pc[r] = "fetching"
  /\ UNCHANGED poolVars
  /\ Throw(r)
  /\ UNCHANGED <<channelVars, kind, taskVars>>

\* The price guard or the variant guard fails: the machine stays put.
GuardRejects(r) ==
  /\ pc[r] = "fetching"
  /\ UNCHANGED poolVars
  /\ Return(r)
  /\ UNCHANGED <<channelVars, kind, taskVars>>

GuardsPass(r) ==
  /\ pc[r] = "fetching"
  /\ Acquire(r)
  /\ MoveTo(r, IF r \in Granted THEN "acquiring" ELSE "waiting")
  /\ machine' = Struck(machine)
  /\ UNCHANGED <<channelVars, kind, terminals, reserved, charged>>

\* The pool's timer rejects with no_acquire_slot.
SlotTimesOut(r) ==
  /\ pc[r] = "waiting"
  /\ TimeOut(r)
  /\ Throw(r)
  /\ UNCHANGED <<channelVars, kind, taskVars>>

\* Mutant of AcquireThrows: the slot is released on the normal path only.
AcquireThrowsKeepsSlot(r) ==
  /\ pc[r] = "acquiring"
  /\ UNCHANGED <<poolVars, machine>>
  /\ Throw(r)
  /\ UNCHANGED <<channelVars, kind, reserved, charged>>

\* Mutant of AcquireThrows: the slot is taken out of the map with no drain.
AcquireThrowsDropsSlot(r) ==
  /\ pc[r] = "acquiring"
  /\ ReleaseWithoutDrain(r)
  /\ Throw(r)
  /\ UNCHANGED <<channelVars, kind, taskVars>>

\* The flow or the engine is unknown: the finally block releases the slot.
AcquireThrows(r) ==
  /\ pc[r] = "acquiring"
  /\ Release(r)
  /\ Throw(r)
  /\ machine' = Struck(machine)
  /\ UNCHANGED <<channelVars, kind, reserved, charged>>

AcquireFails(r) ==
  LET t == TaskOf[r] IN
  /\ pc[r] = "acquiring"
  /\ Release(r)
  /\ reserved' = [reserved EXCEPT ![t] = None]
  /\ machine' = Struck(After(t, "acquireFailed"))
  /\ Return(r)
  /\ UNCHANGED <<channelVars, kind, charged>>

\* A reservation that lives for `life`: released, the run of the full
\* pipeline goes on to enqueueForSettle with no await in between.
AcquireSucceeds(r, life) ==
  LET t == TaskOf[r]
      acquired == Struck(After(t, "acquired"))
      queued == [acquired EXCEPT ![t] = Sniper2Send(@, "queued")]
  IN
  /\ pc[r] = "acquiring"
  /\ Release(r)
  /\ reserved' = [reserved EXCEPT ![t] = now + life]
  /\ \/ \* runAcquirePhase alone, or enqueueForSettle throws: the channel is
        \* frozen or full, or the flow is not registered
        /\ machine' = acquired
        /\ Return(r)
        /\ UNCHANGED channelVars
     \/ /\ kind[r] = "run"
        /\ \E est \in Estimates : Enqueue(t, now + life, est)
        /\ machine' = queued
        /\ IF RiskOf(EntryOf(t))' = "will_miss"
           THEN Return(r)
           ELSE MoveTo(r, "rechecking") /\ UNCHANGED terminals
  /\ UNCHANGED <<kind, charged>>

-----------------------------------------------------------------------------
(* The settle phase *)

\* POST /enqueue: with no reservation, or where enqueue() throws, nothing.
EnqueueRequest(t) ==
  /\ "settle" \in Kinds /\ reserved[t] # None
  /\ \E est \in Estimates : Enqueue(t, reserved[t], est)
  /\ machine' = After(t, "queued")
  /\ UNCHANGED <<poolVars, runVars, reserved, charged>>

IsCurrent(t) == current # None /\ current.task = t

\* Mutant of Settle: whatever startNext() returns is paid for.
SettleUnchecked(r, k) ==
  LET Pay == MoveTo(r, "paying") /\ machine' = After(TaskOf[r], "paymentStart")
                                /\ UNCHANGED terminals
  IN \/ IsCurrent(TaskOf[r]) /\ UNCHANGED channelVars /\ Pay
     \/ ~IsCurrent(TaskOf[r]) /\ StartNext(r \in Forced) /\ Pay

\* runSettlePhase up to its await.  The task must be the one in process, or
\* the one startNext() takes; when it is not, what startNext() took stays in
\* process.  The transaction guard may throw first, and a request may name a
\* flow or an engine that is unknown, which throws last.
Settle(r, k) ==
  LET t == TaskOf[r]
      Pay == /\ machine' = After(t, "paymentStart")
             /\ \/ MoveTo(r, "paying") /\ UNCHANGED terminals
                \/ k = "settle" /\ Throw(r)
      Refuse == Throw(r) /\ UNCHANGED machine
  IN
  \/ Refuse /\ UNCHANGED channelVars
  \/ IsCurrent(t) /\ UNCHANGED channelVars /\ Pay
  \/ /\ ~IsCurrent(t)
     /\ StartNext(r \in Forced)
     /\ IF current'.task = t THEN Pay ELSE Refuse

\* prepayRecheck cannot verify the product: the entry stays in the queue.
RecheckFails(r) ==
  /\ pc[r] = "rechecking"
  /\ UNCHANGED poolVars
  /\ Return(r)
  /\ UNCHANGED <<channelVars, kind, taskVars>>

RecheckPasses(r) ==
  /\ pc[r] = "rechecking"
  /\ UNCHANGED poolVars
  /\ Settle(r, "run")
  /\ UNCHANGED <<kind, reserved, charged>>

SettleRequest(r) ==
  /\ pc[r] = "idle"
  /\ "settle" \in Kinds /\ r \notin AutoDriven
  /\ kind' = [kind EXCEPT ![r] = "settle"]
  /\ UNCHANGED poolVars
  /\ Settle(r, "settle")
  /\ UNCHANGED <<reserved, charged>>

\* Mutant of CompletePayment: whatever is in process is taken to be complete.
CompletePaymentOfAny(t, ok) ==
  IF current # None THEN Complete(current.task, ok) ELSE UNCHANGED channelVars

\* channel.complete(), which ignores a task that is not in process.
CompletePayment(t, ok) ==
  IF IsCurrent(t) THEN Complete(t, ok) ELSE UNCHANGED channelVars

SettleSucceeds(r) ==
  LET t == TaskOf[r] IN
  /\ pc[r] = "paying"
  /\ UNCHANGED poolVars
  /\ CompletePayment(t, TRUE)
  /\ machine' = After(t, "paymentSucceeded")
  /\ charged' = [charged EXCEPT ![t] = @ + 1]
  /\ Return(r)
  /\ UNCHANGED <<kind, reserved>>

SettleFails(r, reason) ==
  LET t == TaskOf[r] IN
  /\ pc[r] = "paying"
  /\ UNCHANGED poolVars
  /\ reason # "payment_3ds_required"
  /\ CompletePayment(t, FALSE)
  /\ machine' = After(t, IF reason = "payment_timeout" THEN "paymentTimeout" ELSE "paymentFailed")
  /\ Return(r)
  /\ UNCHANGED <<kind, reserved, charged>>

\* The issuer wants a challenge: the pipeline's terminal event also freezes
\* the channel, and nothing in the repository unfreezes it.
SettleChallenged(r) ==
  LET t == TaskOf[r] IN
  /\ pc[r] = "paying"
  /\ UNCHANGED poolVars
  /\ current' = IF IsCurrent(t) THEN None ELSE current
  /\ isFrozen' = (isFrozen \/ kind[r] = "run")
  /\ UNCHANGED <<now, pending, arrivals, durations, lastBegun>>
  /\ machine' = After(t, "paymentFailed")
  /\ Return(r)
  /\ UNCHANGED <<kind, reserved, charged>>

\* cancelTask: the machine only; a run that drives the task goes on.
CancelTask(t) ==
  /\ t \in Cancels
  /\ machine' = After(t, "cancel")
  /\ machine' # machine
  /\ UNCHANGED <<poolVars, channelVars, runVars, reserved, charged>>

ClockTicks == Tick /\ UNCHANGED <<poolVars, runVars, taskVars>>

RunStep(r) ==
  \/ FetchThrows(r)
  \/ GuardRejects(r)
  \/ GuardsPass(r)
  \/ AcquireThrows(r)
  \/ AcquireFails(r)
  \/ \E life \in Lifetimes : AcquireSucceeds(r, life)
  \/ RecheckFails(r)
  \/ RecheckPasses(r)
  \/ SettleSucceeds(r)
  \/ \E reason \in {"payment_timeout", "payment_failed"} : SettleFails(r, reason)
  \/ SettleChallenged(r)

PipelineNext ==
  \/ \E r \in Runs, k \in {"run", "acquire"} : StartRun(r, k)
  \/ \E r \in Runs : SettleRequest(r)
  \/ \E r \in Runs : SlotTimesOut(r)
  \/ \E r \in Runs : RunStep(r)
  \/ \E t \in Tasks : EnqueueRequest(t)
  \/ \E t \in Tasks : CancelTask(t)
  \/ ClockTicks

PipelineSpec == PipelineInit /\ [][PipelineNext]_pipelineVars

\* Every call of an adapter or an engine settles, and a run that is resumed
\* goes on.  No request, trigger or timer is assumed to come.
PipelineFairSpec == PipelineSpec /\ \A r \in Runs : WF_pipelineVars(RunStep(r))

-----------------------------------------------------------------------------
(* Properties *)

\* The slots held are those of the runs between the await of acquire() and
\* the finally block, and the queue is that of the runs in that await: no
\* way a phase can end, by result or by exception, leaks a slot.
SlotsMatchRuns ==
  /\ active = {r \in Runs : pc[r] = "acquiring"}
  /\ queue = {r \in Runs : pc[r] = "waiting"}

\* With one run per task, the run that pays drives the task the channel has
\* in process, so the card is never charged by two runs at once, although
\* startNext() may hand a run the task of another run.
OnePaymentAtATime ==
  \A r \in Runs : pc[r] = "paying" => IsCurrent(TaskOf[r])

\* With one run per task that nobody cancels, the machine the user sees says
\* where the run is, and says `succeeded` of the tasks the vendor confirmed
\* and of no other.
MachineTracksRun ==
  \A r \in Runs :
    LET state == machine[TaskOf[r]] IN
    /\ pc[r] \in {"acquiring", "paying"} => state = pc[r]
    /\ pc[r] = "rechecking" => state = "queued_for_payment"
    /\ state = "succeeded" <=> charged[TaskOf[r]] > 0

\* With one run per task, the runs, the channel and the machines agree.
RunsOwnTheirTasks == OnePaymentAtATime /\ MachineTracksRun

\* With one run per task, no payment begins on a card frozen by a challenge,
\* though a run may begin to pay for a task that startNext() took earlier.
NoPaymentStartsFrozen ==
  [][\A r \in Runs : pc[r] # "paying" /\ pc'[r] = "paying" => ~isFrozen]_pipelineVars

\* The channel has in process the task whose machine shows `paying`, so that
\* of a card's tasks the user sees one in payment at most (in the words of
\* docs/04-shared/payment-channel.md:160, one in-flight task per channel max).
OneTaskPays == \A t \in Tasks : machine[t] = "paying" => IsCurrent(t)

\* A run pays for the task in process, or for one that another request of the
\* same task has settled meanwhile.
OverlapsAreShared ==
  \A r \in Runs : pc[r] = "paying" =>
    \/ IsCurrent(TaskOf[r])
    \/ \E q \in Runs \ {r} : TaskOf[q] = TaskOf[r] /\ kind[q] # "acquire" /\ pc[q] = "done"

\* Whatever requests are mixed, two payments of a card overlap only where a
\* task was requested twice: an end that one of them reports never takes the
\* task of a third run out of process, and startNext() gives none out beside it.
CardPaysOneTask == OneTaskPays /\ OverlapsAreShared

\* Every run ends: none waits for ever for a slot or for its turn to pay.
EveryRunEnds ==
  \A r \in Runs : pc[r] \in Suspended ~> pc[r] \in Ended

\* packages/server/sniper2-service/index.js:82: the full pipeline always
\* emits a single sniper2:task:terminal event.
SingleTerminalEvent ==
  \A r \in Runs : pc[r] \in Ended /\ kind[r] = "run" => terminals[r] = 1
=============================================================================
