# Verification of the sniping and ordering server

TLA+ models of the services under `src/packages/`, checked with TLC and, for the
parts named below, proved with TLAPS.  Every definition is translated from the
code; `PROJECT.json` names, for each, the lines it stands for.

## 1. Inventory

The program is one Node.js process (`packages/server/api/server.js` wires it)
that runs three products and the services they share.  Node runs one callback at
a time: the actors are the HTTP requests, the timers and the continuations of
awaits, and they interleave at every `await`.

| Component | State | Operations | What is hard | What makes it correct |
|---|---|---|---|---|
| AcquirePool (`server/order-shared/acquire-pool`) | limits, held slots per site, queue, wait timers | acquire, release, set limits, timer | timer against grant; several grants in one drain; limits lowered | slots and promises agree, limits respected at each grant, FIFO per site, work conserving, every await ends |
| PaymentChannel (`server/order-shared/payment-channel`) | queue sorted by deadline, task in process, frozen flag, samples | enqueue, dequeue, startNext, complete, freeze | plan recomputed on every call; boundary of the median; interval | EDF order, a plan that later deadlines do not worsen, one task in process |
| State machines (`core/state-machine`) | a state per machine | send | illegal events are ignored silently | machines follow what the services do |
| Sniper2 (`server/sniper2-service`) | tasks, channels, flows, scheduled handles | create, acquire, enqueue, settle, run, cancel, order verification | several runs, one task; failure after each await; freeze on a 3DS challenge | no slot leak, one task of a card in payment, every run ends and reports once |
| Sniper3 (`server/sniper3-service`) | watches, confirmation timers, task links | signal, confirm, dismiss, result, pause, resume, cancel | a user, a timer and a slow notification race; results of earlier orders | orders within the cap, nothing ordered without the user's consent |
| Sniper1 (`server/sniper1-service`) | items, deadline timers | add, remove, arm, bid, won, paid, overdue | outcomes of bids after removal or out of order | bids and budget agree, a won item keeps its money |
| BudgetEngine (`core/budget-engine`) | append-only ledger | set total, commit, release, spend | totals are recomputed from the ledger | nothing is spent twice, available never negative |
| PrecisionScheduler (`core/scheduler`) | handles with two timers each | schedule, cancel, reschedule, warmup, trigger | cancel and reschedule during an await, two triggers of one handle, timers that cannot wait as long | each plan begins once at most and has one outcome, a cancelled handle has no timer |
| NotificationService (`core/notification-service`) | records, reminder handles, channels | notify, dismiss, cancelReminder, registerChannel | a channel fails or takes long, a user dismisses meanwhile | every channel is tried, one reminder after all took it |
| EventBus (`core/event-bus`) and the WebSocket feed (`server/api`) | numbered events, replay buffer, connections | emit, connect, subscribe, unsubscribe, close | replay against live events, handlers that emit | a client has what its subscriptions cover, in order |
| Execution engine, flow orchestration, egress (`server/order-shared`, `adapters/_base/_common`) | captures, last response, attempt, hold | run a phase with retries, validate a flow | a retry of a payment whose answer was lost, a decline, dry run | charges bounded, a refusal is final, a dry run sends nothing |
| Vault (`vault`) | pending requests, frames | request, decode | timeout while the daemon executes | counted among the requests the engine gives up on |
| JobQueue, AccountLock, RateLimiter and its helpers (`core/*`) | jobs, a lock file, tokens | - | - | the application does not use them (section 8) |
| Adapters, web UI, config, logger, persistence, credential store | - | I/O and presentation | - | - |

Components call each other directly inside one callback (Sniper3 creates a
Sniper2 task; Sniper2 uses AcquirePool and PaymentChannel) and through the event
bus, whose handlers run synchronously inside `emit` up to their first await
(`sniper2:task:terminal` from Sniper2 to Sniper3).

## 2. Plan

Modules in the order of their importance.

| Order | Module | Composes | Abstract side | Status |
|---|---|---|---|---|
| 1 | AcquirePool | - | is itself what Sniper2Pipeline is shown to use (PoolSpec) | built, proved |
| 2 | PaymentChannel | - | the plan as a function, against the loop of the code and every other order | built, proved |
| 3 | Sniper2Pipeline | AcquirePool, PaymentChannel, StateMachines | PoolSpec | built, safety proved |
| 4 | OrderRun | FlowEngine, VariantChoice, OrderVerification | VerifySpec | built, safety proved |
| 5 | Sniper3Watch | StateMachines | - | built, safety proved |
| 6 | Sniper1Item with BudgetEngine | StateMachines | - | built, safety proved |
| 7 | PrecisionScheduler | - | DeadlinePromise, through a refinement mapping | built, refinement proved |
| 8 | Notifications | PrecisionScheduler, LiveFeed | SchedulerSpec | built, safety proved |
| 9 | RestockOrder | Sniper3Watch and the terminal events of Sniper2Pipeline | every executing watch is told how its task ended | open |
| 10 | an abstract watch and an abstract budget | - | refined by Sniper3Watch and Sniper1Item | open |

Theorems worth adding: the refinements of the two open rows.

## 3. Modules and the code they stand for

Files come in threes: `X.tla` is the component with its properties, `MCX.tla` the
constants of its instances for TLC with one `.cfg` per question, `XProofs.tla`
its theorems.  A module that composes others has the theorems of its parts in
front of its own: Sniper2PipelineProofs begins with the pool, OrderRunProofs with
the verifications, NotificationsProofs with the scheduler.  PaymentChannelProofs
and LiveFeedProofs are modules that these extend, and SumTheorems has what the
proofs need of sums over finite sets.  A definition that a comment
calls a mutant is the code with one plausible bug.  No other definition refers
to it; it documents what the property it is paired with in `PROJECT.json` would
catch.

### AcquirePool

| State | Code |
|---|---|
| limits, held | `maxConcurrentPerSite`, `globalMaxConcurrent`, `active` |
| queue, as the set of queued requests with the order they came in | the array `queue` |
| what each caller's promise is | resolved, rejected or pending in `acquire()` |

`Acquire`, `TimeOut`, `Release` and the two setters are the methods, each with
the `#drain` the code ends it with.  `#drain` is one pass over the queue that grants
where both limits allow; `DrainPass` says which sets are its result, without a loop.
`DrainLoop` is the loop itself, from place to place in the queue, and
DrainIsTheLoop compares the two, for the limits in force, which the setters make
differ from site to site, and for those after any next change of one of them
(SiteMaxima).

### PaymentChannel

`enqueue`, `dequeue`, `startNext`, `complete`, `freeze` and `unfreeze` are
actions.  `rebalance()` is a pure function of the queue, the task in process and
the clock: it is modelled by what it computes (`StartOf`, a sum of the entries
`Ahead`; `FinishOf`, `RiskOf`) and compared with the loop, which goes from each entry to the
next one, in every state (PlanIsTheLoop).  The clock is an
integer that any step may advance.

### Sniper2Pipeline

One process per request that drives a task; `pc` is the await it is suspended
at.  A run is: fetch the snapshot, await a slot, acquire, give the slot back,
enqueue, recheck, settle, complete.  Each stretch between two awaits is one
action, and each await has its outcomes (answer, refusal, throw) as actions of
their own.  Every mix of `run`, `acquire`, `enqueue`, `settle` and `cancel`
requests of the API is allowed.  The module shares the pool's and the channel's variables
and uses their actions, so every change a run makes there is the component's.

### Sniper3Watch

One watch.  `fireSignal` is split at its two awaits of the notification service
(FireSignal, Notified, Asked).  `timers` are the timeouts that will fire;
`handle` is the one the map `confirmationHandles` can still cancel: they differ
when a timer is armed after its request was answered.  Creating the task is one
step: `createTask` awaits nothing, so only its own continuation follows.  The
histories `created`, `bought`, `asked` and `overtaken` serve the properties and
guard nothing, except that a result belongs to a task that was created.

### Sniper1Item and BudgetEngine

| State | Code |
|---|---|
| listed, state, budget, won | the map `items`, and of each machine its state, `budgetCents` and the price in `winOutcome` |
| book | the entries of `this.budget`, as the sums the code reads from them |
| bids | the calls of `executeBid` that await the site |
| notifying, deadlines | the calls of `markItemWon` that await the notification; `deadlineHandles` |

BudgetEngine holds the ledger's operations as functions of a book.  The code
adds up the whole ledger whenever it is asked for a sum; a book carries the sums,
and BudgetCoversItems compares the one kept for all tasks with the code's.
Operations whose guard the code throws on have it as a guard; release and spend
never reach theirs, because their callers draw at most what is committed
(ItemTypeOK would show a negative sum).

Every public method of the service is an action; the HTTP API calls five of
them and never `armItem`, so that a program driven by HTTP alone wins nothing.
An addition whose allotment is refused throws with the item already in the map;
when the allotment passes the comparison and not the commitment (a numeric string
does), the total has been raised by then.  Final prices
come from a request and are assumed to be sums of money: the code checks them
only when they are spent, after the machine has moved to `paid`.

### FlowEngine, VariantChoice, OrderVerification and OrderRun

One scheduled task in depth: Sniper2Pipeline leaves open how a phase of an order
ends, OrderRun follows it.

| State | Code |
|---|---|
| stage | where `runFullPipeline` is suspended |
| flow, phase, step, attempt, captured, response | the script and the locals of `executePhase` and `runStep`, `context.captured`, `executionState.lastResponse` |
| held | `backoffUntil` of the egress middleware |
| executed, late | what the site did: not in the code, which cannot know it |
| queue, paying, settled | the task's entries in the payment channel |
| current, attempts, unknownStreak, done, armed, polling | `task.orderVerification` and its timers |

FlowEngine is the HTTP engine with the egress below it.  A step is a record of a
script: whether it asks for a URL, with which method, how often it is retried and
what it captures.  Each way in which `#runOnce` and `#request` can end is an
action (EndPhase, UseToken, NotSent, Answered, GivenUp, ...); every one of them goes
through `StepDone` or `Throw`, which is the loop of `runStep`.  When the engine gives
up on a mutating request (a failing or aborted `fetch`, or the vault's client out
of time) the site has executed it, never will, or does so later (LateExecution):
the three cases that a retry cannot tell apart.  Each call of the engine wraps its
egress anew, so the hold after a 429 or a 5xx lasts one phase; within
it the retries never reach the site.  The middleware's own comment speaks of a hold of
30 minutes.

VariantChoice gives the two checks of a snapshot and the variant an order takes.
OrderVerification has one verification per paid order; a second paid run of the
task takes the place of the first in `task.orderVerification` while the timers of
the first one live on, and then count for the second.

`OrderRun` conjoins the parts with the run; runs of the task follow one another.
Interpolated values are assumed present, and a site's answer is one of six statuses
with or without the field that a step captures.  The channel's planner, which may
end a run (missed or busy), is one alternative of Enqueued and ChannelBusy.

### PrecisionScheduler and DeadlinePromise

`plans[h]` lists what `#plan` was called for; of each plan the module has the
stages of its two timers.  `schedule`, `reschedule` and `cancel` are actions, and so
is every stretch of the two callbacks between awaits: WarmupFires, WarmupEnds,
TriggerFires, TriggerActs, TriggerEnds.  `handle.state` is written and never read,
so it is left out.  A rescheduled handle can have two triggers under way, and the
`finally` block of the first removes the second from the map; `cancel` finds it
nevertheless, because it works on the handle.

DeadlinePromise is what a client may rely on: a plan is due, begun, and then
triggered or missed; or it was dropped before it began.  It has no clock, no timers
and no warmup.  `KeepsPromise` maps each plan to its stage (StageOf): a trigger that
awaits the server's time and one that runs `onTrigger` are both `begun`, a cleared
timer is `dropped`, a warmup is invisible.

### Notifications and LiveFeed

Notifications is `notify` with its `#dispatch`, one action per await of a channel,
over the actions of the scheduler (a reminder is a handle) and of the bus.  The
channels that have taken a notification, and those that failed, are sets of their
positions in the list.  The in-app channel emits at once.  A dismissal
emits too, each time it is asked for; the repeated ones are bounded (MaxEvents).  NotifyWithin is a service that notifies in its
handler of another event, so that clients are sent the inner event first.

LiveFeed is the bus as a WebSocket connection meets it.  An event is its number
and topic; a connection has its patterns, the `since` of its URL and the list of
what it was sent.  `Receive` is the loop over the events that are sent or
replayed, a recursive function of how many it has passed.  `topicMatches` is given as
the relation Covers.  Subscribers are
assumed not to throw.

### StateMachines

The tables and `transition()`: an event a state does not know leaves it where it
is, which is what makes an early `cancel` or a late `pause` harmless or lost.

## 4. What the runs check

| Run | Bounds | Question | Answer |
|---|---|---|---|
| pool | 4 calls, 2 sites, the limit of each site 0 to 2, global limit changed within 0 to 3 | do slots, promises, limits and order agree | yes |
| channel | 2 tasks, 3 arrivals, clock to 3 | order, plan, optimality, median | yes |
| channel_interval | 2 tasks | is the documented interval kept between starts | no, finding |
| pipeline | 3 tasks of one card, one run each, one driven by the service itself, one forced, clock to 1 | one payment at a time, machine follows the run, no start while frozen; does every run end | yes |
| pipeline_requests | 3 mixed requests, two of one task, a cancel | do slots leak, is the pool used as specified, do payments overlap only within a task | no leak, yes, yes |
| pipeline_terminal | 1 card | one terminal event per run | no, finding |
| watch | 3 signals, 2 orders, cap 0 to 2, quarantine after 2 | orders due, cap of paid orders, quarantine, timers; is every signal resolved | yes |
| items | 2 items, 2 outstanding bids, allotments 1 and 3, prices 0 and 2 | does the money follow the items and the budget cover them, is every win settled | yes |
| scheduler | 1 handle, 2 plans at 2 times, lead and warmup of 1, longest timer 2, clock to 4 | is DeadlinePromise implemented, are timers left, is a trigger early, does every plan end | yes |
| notifications | 1 notification, 2 channels, 1 client that subscribes twice, repeated dismissals up to 5 events, 3 events kept, clock to 1 | delivery, replay and its order, reminders | yes |
| order | 2 runs, 8 flow scripts, 2 variants at 2 prices, cap 1, 3 polls | charges, refusals, confirmations, verification | yes |
| order_price | as order | is what is bought within the cap | no, finding |

The properties whose name joins several claims are conjunctions of named parts:

| Property | Parts |
|---|---|
| PoolConsistent | PoolTypeOK, PromiseAccounting, QueueOrder |
| ChannelConsistent | ChannelTypeOK, QueueIsOrdered |
| PlannerIsRight | PlanIsTheLoop, PlanIsOptimal, MedianIsTheMiddle |
| RunsOwnTheirTasks | OnePaymentAtATime, MachineTracksRun |
| CardPaysOneTask | OneTaskPays, OverlapsAreShared |
| WatchConsistent | WatchTypeOK, QuarantineSticks |
| ItemsConsistent | ItemTypeOK, PendingItemsAreWatched |
| TimersConsistent | SchedulerTypeOK, OnlyLastPlanIsArmed, CancelDisarms |
| FeedConsistent | CaughtUp, OncePerSubscribe, OutOfOrderOnlyNested |
| DeliveryConsistent | NotificationTypeOK, EveryChannelIsTried, RemindersFollowDelivery |
| OrderConsistent | OrderTypeOK, CurrentIsPursued |
| RequestsBounded | ChargesBounded, DryRunSendsNothing |
| PaymentsSound | ConfirmedIsPaid, EachReservationIsPaidOnce, CheapestIsWithinCap |

Why the bounds are enough.  The pool has two limits and a queue: two sites
separate per-site from global order, and four requests fill both limits with one
waiter behind each.  In the channel an entry in process, or one with an earlier or
an equal deadline, is what a promise depends on; estimates of two lengths make
both an order of deadlines that is met and one that is not.  Three runs of a card
give one that pays, one that waits and one that can take the turn of another.  A
watch below a cap of 2 can be mid-signal with one order finished and another
reported late; three signals give a timer that is armed, one that was replaced
and a new request.  Items meet only in the budget: two of them give one that
draws while the other holds; the prices lie below, between and above the
allotments and at zero.  Two plans of a handle give a trigger under way and
its successor; the times lie before, at and beyond what a timer can wait.  Of two
channels one may be missing, fail or be slow while the other is in-app; three
events kept let the buffer overflow.  Two runs of a task
give a reservation that a later run finds, and a verification that is replaced;
the eight scripts have every action, retries of 0 and 1, a payment whose answer
carries the confirmation and one that does not, a version that is not supported and
a script that does not validate; three polls allow two unknown answers with
something between them.  Every counter is bounded by its CONSTANT, named in the
module's header; nothing else is cut, and no symmetry is used.  Deadlock is not
checked where names or requests are bounded, since the model then stops when they
are used up.

The findings are disagreements between the code and its documents.  They are
kept as runs that must fail, so that a change of the code shows.  Others that the
models show in the same way, each a few steps long, have no run of their own:

* A task that is skipped because its deadline cannot be met stays in the channel's
  queue (sniper2-service:105); docs/04-shared/payment-channel.md:109-113 has it
  leave.  A later run of the task may pay the reservation that an earlier run left
  (EachReservationIsPaidOnce says that it is paid once all the same).
* Two requests may settle one task at a time (sniper2-service:526), against
  docs/04-shared/payment-channel.md:160 and docs/04-shared/acquire-settle.md:16.
  CardPaysOneTask says that two payments of a card overlap in no other way.
* An item that is removed while its win waits for the payment gives its allotment
  back (sniper1-service:72), against docs/03-products/sniper1.md:138.
* A moment more than 2^31 - 1 ms ahead, about 24.8 days, is triggered at once
  (core/scheduler:65), against docs/02-core/scheduler.md:42, the tolerance of the fire
  time, and line 31, which waits for a far moment in rounds of 30 s.
* A task in a terminal state may be run and paid again (sniper2-service:517), against
  docs/02-core/error-codes.md:55.
* A terminal event of an earlier task of a watch is booked on the order that the
  watch executes by then (sniper3-service:256), so that one order more than the
  cap may be paid, against docs/03-products/sniper3.md:32 and the scenario of
  tests/core.test.js:685.  PaidOrdersWithinCap says that the cap holds as long as
  no such event comes.
* A warmup that fails is not tried again (core/scheduler), against
  docs/02-core/scheduler.md:73.
* The hold after a 429 or a 5xx and the spacing of requests last one
  phase, since each call wraps the egress anew, against
  adapters/_base/_common/middleware-egress.js:6-12 and the backoff policy of
  docs/04-shared/anti-detection.md:53-58.

Some properties hold under a condition that leaves out a case the code is exposed
to.  What each leaves out:

* NeverEarly: a moment further away than a timer can wait (above).
* RunsOwnTheirTasks and NoPaymentStartsFrozen: a task with two requests,
  one that is cancelled, and one that is settled by hand.  SlotsMatchRuns, PoolSpec and
  CardPaysOneTask hold of these too.
* MoneyFollowsItems: whether the allotment of a win that is removed unpaid is given
  back (above).  It says that nothing of it is lost or counted twice.
* PaidOrdersWithinCap: an event that is not of the order being executed (above).
* TimersBelongToRequests: a timer that is armed after its request was answered
  (`overtaken`).  It may later end another request; that is what the code does, and
  no document says otherwise.
* CancelledRemindersAreSilent: a cancel while `notify` is still delivering.  It finds
  no reminder, and the reminder is planned afterwards.  Of it, too, no document speaks.
* OneVerdict: a task that is paid more than once.  The fate of an order whose
  verification was replaced is not followed to its end.

What the order run shows beyond its properties: an answer without the field
that a step captures makes the engine send the request again, a payment included;
and an error without a code is retried although the phase's result then says it
is not retriable.

## 5. Fairness

* Pipeline: adapters, engines and rechecks answer or throw, and Node runs the
  continuation of a settled promise.  A run waits for a slot until another run
  gives one back or its own timer fires; the timers are not assumed to.  Nothing
  is assumed of users or of new requests.
* Watch: a notification is sent or fails, both of which the code treats alike,
  and an armed timer that is not cancelled fires.  Nothing is assumed of the
  user, of signals or of Sniper2.

* Items: the notification of a win is sent or fails, and a deadline that is not
  cancelled passes.  Nothing is assumed of the user or of the sites.

* Scheduler and notifications: time passes up to the bound, timers fire, and
  the server's time, a warmup, `onTrigger` and a channel's `deliver` settle in one
  way or the other.  Nobody is assumed to call.
* Order: the timers of a verification fire and its polls return or throw.  Nothing
  is assumed of the engine, the site or of new runs: EveryVerificationEnds
  does not need them.

All of it is weak fairness of steps that stay possible until they are taken.

## 6. What is proved

Theorems hold for every value of the constants that meets the named assumption
of the module (limits are natural numbers, sets are finite where they are counted, None is not a
name).

* Sniper2PipelineProofs, the pool: `PoolInvariant` by induction; the invariant adds
  to the checked ones the facts about finite sets of holders that make counting
  possible.  `PoolStaysConsistent` and `PoolConservesWork` read off it.  The
  central lemma is that a drain pass leaves no request that could
  be granted and grants within the limits.  `GrantsAreWithinLimits` and
  `NoCallerOvertakes` follow from it for every step.  `DrainStaysTheLoop` ties the
  pass to the code: the loop grants at each place what it finds grantable there,
  places are told apart by who is ahead, and two passes that differ would differ
  first at one request with the same grants ahead of it.  It holds of the limits in
  force, site by site, and of those that a setter may put in their place.
* PaymentChannelProofs: `QueueStaysOrdered` says that deadline and arrival order
  the queue totally; from that `TasksStartInTurn`.  `PlannerStaysRight`: the entries
  ahead of one are those ahead of its predecessor and the predecessor, so the sum is
  what the loop adds up; in any other order, whichever of the late entry and those
  ahead of it is paid last finishes no earlier than the late one does by the plan,
  and expires no later; and a median by counting is the middle of every sorted
  listing.  `PromisesSurvive` (LaterDeadlinesDoNotDelay) is what a newcomer adds to such a sum.
* Sniper2PipelineProofs, the pipeline: `UsesThePool` maps every step to a step
  of the pool or a stutter, so the pool's invariant may be used in `NoSlotLeaks`:
  a slot is held exactly by a run between its grant and its `finally`.
  `RunsArePlannedRight` is the planner's theorem in the composition.
  `OneTaskOfACardPays` needs no bound on requests per task: its invariant (TurnInv) adds
  to CardPaysOneTask which requests come to recheck and to pay.  A settle phase that begins
  has its task in process; one that ends takes out its own task or none, and is then the
  other request by which a run that still pays is excused.
  `RunsKeepTheirTasks` (OnePaymentAtATime, MachineTracksRun) and `NothingStartsFrozen`
  assume AllAlone: every task has one request that drives it and is neither cancelled
  nor settled by hand.  Without that they are false (the findings of section
  4), and the run `pipeline`, which checks them, is of that kind.  The invariant
  (LoneRunsOwn) says of each run, by where it is suspended, what its task's machine
  shows, that the entry in process is its own while it pays, and that it
  succeeds exactly when it has charged.
* Sniper3WatchProofs: `WatchInv` adds to the checked properties what a suspended
  `fireSignal` may assume: the watch it signalled is still `triggered` or was
  cancelled, and at most one call holds it (SignalsHoldTheWatch); a request about
  to be sent is the open one or was answered (RequestsAreOpen); the cap that was
  checked before the await still holds (WaitingBelowCap).  Without these none of
  the three properties is inductive: `Notified` places an order on the word of a
  check that another call made.
  `CapIsKept` carries a second invariant (CapInv): under the condition that each
  result is of the order being executed, an order that is created but not reported
  is the one that is executed, so a watch below its cap has at most one under way.
* Sniper1ItemProofs: `ItemInv` adds to ItemTypeOK and PendingItemsAreWatched where the
  code leaves an item's money (MoneyInPlace, from which MoneyFollowsItems), that an item not added yet has no allotment and that a
  win has its price, without which a payment could not be shown to spend a sum
  of money.  `MoneyIsKept` holds for any number of items and bids.  `BudgetIsKept`:
  the sum that a book carries for all tasks is the sum over its tasks, because an operation
  changes the summand of one task by what it changes the sum by.
* NotificationsProofs, the scheduler: the invariant SchedulerInv adds to TimersConsistent when
  the timer of a plan is due (FireAtIsDue).  From it `TriggersAreNeverEarly`, and the
  refinement `SchedulerKeepsPromise`: a call of `#plan` is a Promise, `cancel` is a
  Withdraw, and a callback advances one plan by one stage or is a stutter.  That only
  the last plan is armed is what makes the two sides agree: the code clears one
  plan's timers, the promise calls off all that are due.
* LiveFeedProofs: what `Receive` appends is an increasing choice of exactly the
  events that are newer and covered, found from the loop by a least
  counterexample.  FeedInv adds to FeedConsistent that the events kept are numbered
  one after another up to the last, and of each connection that the numbers it got are
  of events emitted; without the first a replay could not be shown to send no event twice.  It is
  kept by an emission of any length, by a nested one and by whatever a client does.
* NotificationsProofs, the notices: `UsesTheScheduler` maps each step to a step of
  SchedulerSpec or a stutter, and what is proved there carries over: by
  `RemindersKeepPromise` the service implements DeadlinePromise.
  `FeedStaysConsistent` carries FeedInv to every emission of the service.
  `DeliveriesStayConsistent` and `CancelledStaySilent` rest on NoticeAt, which says by the stage
  of `notify` which channels have been tried, that nothing is planned before all
  have taken the notification, that a reminder has one plan and fires only after its
  trigger has begun, and that the timers of one called off are cleared.
* OrderRunProofs, the verifications: VerifyInv relates the counters, timers and polls of the
  verifications; without the count of unknown answers and the order in which
  verifications begin neither `OneVerdictIsAnnounced` nor `AlarmNeedsTwoUnknowns` is
  inductive.
* OrderRunProofs, the order: `UsesVerification` maps each step of the order to a step of
  VerifySpec or a stutter, which carries the theorems above to the composition
  (`OrderAlarm`, `OrderVerdict`, half of `OrderStaysConsistent`).  `PaymentsStaySound`
  has three invariants: PaidSoFar (the site has executed every payment of the
  steps that the engine has left behind, by a count that grows at most by one per
  step), QueueInv (no entry of the queue was paid, and no two are of
  one run) and Affordable.  `RefusalsAreFinal` rests on the order in which `#request`
  looks at an answer and on the recovery class of the two refusals.
  `RequestsStayBounded`: the requests that a phase has cost or may still cost
  (ChargesInv) are within the allowance of the steps behind it and the attempts of
  the present one; `DryRunsSendNothing` is the other half of RequestsBounded.
* SumTheorems: a sum over a finite set is the community modules' recursion over
  its subsets, which takes out an element named by CHOOSE.  By a smallest
  counterexample the recursion has a solution, which does not depend on the order; from that how a
  sum changes with its indices and its summands.

Loops and sums are recursive functions here, and the library's induction
principles cannot be used with the installed provers.  What is proved of them is
proved by a least counterexample (a well-founded set has a minimal element), which is a
statement about sets.

## 7. Only model-checked

* Liveness: EveryRunEnds, EverySignalIsResolved, EveryWinIsSettled, EveryPlanEnds,
  EveryReminderFires, EveryVerificationEnds; the prover
  does not handle ENABLED, on which fairness rests.
* The findings: the violated properties of the three runs that must fail.
* Of tasks with several requests, which AllAlone excludes, the runs and theorems say
  SlotsMatchRuns, PoolSpec and CardPaysOneTask, and no more is claimed.

Every invariant and every action property of the passing runs is a theorem.

## 8. Not modelled

* Nothing uses them: JobQueue, AccountLock, RequestSpreader, RateLimiter,
  `allocateQuantity`, `resolveDeadlineTier` and `jitterInterval` are exported and
  tested, and no service, adapter or application calls them.
* Composition of Sniper3 with Sniper2: a watch is told of its task's end by an
  event, and Sniper3Watch lets that event come late or never.
* Site adapters: their outcomes are the nondeterministic choices of the models.
  The browser and mobile engines hand each step to an external session.
* Wire formats: WebSocket frames, the framing of the vault, the parsing of flow
  texts and of pages, interpolation.  HEAD and OPTIONS requests are treated as GET.
* An event bus subscription has an identifier made of a count and the millisecond;
  that two may collide is not modelled, connections are distinct.
* The options `prepayRecheck` and `orderVerification` of `runFullPipeline`: the HTTP
  API passes none, so verification is always on; Enqueued has the run without
  recheck as well.
* Presentation, configuration, logging, persistence as files, credential storage,
  the tenant context, the command line tools, the registry of mobile devices.
* In Sniper3 the signal sources and the translation of a watch into an order
  intent are data; the translation's failure is an outcome of PlaceOrder.
  `policy.expiresAt` is read by no code of the service, and nothing sends
  `markExpired`.
* In Sniper1 the snapshots (`refreshItemNow`, whose event `tick` no state knows) and
  the computation of bids.
