-------------------------------- MODULE OrderRun --------------------------------
(***************************************************************************)
(* One scheduled task of packages/server/sniper2-service/index.js in       *)
(* depth, through all of runFullPipeline: the checks of the snapshot, the  *)
(* acquire phase, the entry in the payment channel, the recheck before the *)
(* payment, the settle phase and the verification of the paid order.  The  *)
(* task may be run again (POST /tasks/:id/run), one run after the other;   *)
(* tasks that run side by side are the subject of Sniper2Pipeline.         *)
(***************************************************************************)
EXTENDS FlowEngine, OrderVerification, VariantChoice

VARIABLES stage,    \* where runFullPipeline is
          chosen,   \* of each reservation, as long as there is one: the price
                    \* of its resolvedVariant, and whether nothing in stock
                    \* was cheaper
          queue,    \* the task's entries in the channel, by the run that
                    \* reserved them, in the order of their deadlines
          paying,   \* the run whose reservation is being paid, or 0
          settled,  \* how often each run's reservation was handed to the
                    \* settle phase
          confirmed \* the runs that returned an orderConfirmation

\* An order is known by the run that paid it.
ASSUME OrderAssumption == Runs \subseteq Orders

runVars == <<stage, chosen, queue, paying, settled, confirmed>>
orderVars == <<engineVars, verifyVars, runVars>>

Stages == {"idle", "snapshot", "acquire", "recheck", "settle"}

OrderTypeOK ==
  /\ flow \in Flows /\ run \in 0..MaxRuns /\ liveRuns \subseteq Runs
  /\ phase \in Phases \cup {"none"} /\ attempt \in Nat /\ step \in Nat
  /\ captured \subseteq {"reservation_token", "order_confirmation"}
  /\ response \in Responses \cup {NoResponse} /\ held \in BOOLEAN
  /\ result.ok \in BOOLEAN
  /\ executed \in [Runs -> [Phases -> Nat]] /\ late \in [Runs -> [Phases -> Nat]]
  /\ stage \in Stages
  /\ chosen \in [Runs -> [price : Prices \cup {0}, cheapest : BOOLEAN]]
  /\ queue \in Seq(Runs) /\ paying \in Runs \cup {0}
  /\ settled \in [Runs -> Nat] /\ confirmed \subseteq Runs
  /\ phase # "none" => phase = stage
  /\ paying # 0 <=> stage = "settle"
  /\ VerifyTypeOK

NotChosen == [price |-> 0, cheapest |-> TRUE]

OrderInit ==
  /\ EngineInit /\ VerifyInit
  /\ stage = "idle"
  /\ chosen = [r \in Runs |-> NotChosen]
  /\ queue = <<>> /\ paying = 0
  /\ settled = [r \in Runs |-> 0] /\ confirmed = {}

\* The run is over and with it the engine and its state; what the run leaves
\* behind is in the channel's queue.
RunOver ==
  /\ stage' = "idle"
  /\ phase' = "none" /\ step' = 1 /\ attempt' = 0 /\ captured' = {}
  /\ response' = NoResponse /\ held' = FALSE /\ result' = Fail("none")

EngineIdle == UNCHANGED <<phase, step, attempt, captured, response, held, result>>

\* runFullPipeline is called, with or without the permission to execute live
\* requests, and fetches a snapshot.
StartRun(isLive) ==
  /\ stage = "idle" /\ run < MaxRuns
  /\ run' = run + 1
  /\ liveRuns' = IF isLive THEN liveRuns \cup {run + 1} ELSE liveRuns
  /\ stage' = "snapshot"
  /\ EngineIdle
  /\ UNCHANGED <<flow, siteVars, verifyVars, chosen, queue, paying, settled, confirmed>>

\* The fetch of the snapshot throws.
SnapshotThrows ==
  /\ stage = "snapshot"
  /\ RunOver
  /\ UNCHANGED <<flow, run, liveRuns, siteVars, verifyVars, chosen, queue,
                 paying, settled, confirmed>>

Choice(snap) ==
  LET cost == snap[ResolveVariant(snap)].price
  IN [price |-> cost, cheapest |-> \A v \in InStock(snap) : cost <= snap[v].price]

\* The snapshot is checked and the acquire phase begins.
SnapshotArrives(snap) ==
  /\ stage = "snapshot"
  /\ IF PriceGuardPasses(snap) /\ VariantMatches(snap)
     THEN /\ stage' = "acquire"
          /\ chosen' = [chosen EXCEPT ![run] = Choice(snap)]
          /\ StartPhase("acquire")
     ELSE RunOver /\ UNCHANGED chosen
  /\ UNCHANGED <<flow, run, liveRuns, siteVars, verifyVars, queue, paying,
                 settled, confirmed>>

\* Mutant of BeginSettle: the entry stays in the queue while it is paid.
BeginSettleKeepsEntry(entries) ==
  IF run \in liveRuns /\ entries # <<>>
  THEN /\ stage' = "settle"
       /\ paying' = Head(entries)
       /\ queue' = entries
       /\ settled' = [settled EXCEPT ![Head(entries)] = @ + 1]
       /\ StartPhase("settle")
  ELSE RunOver /\ queue' = entries /\ UNCHANGED <<paying, settled>>

\* runSettlePhase: the guard throws for a run that is not live; otherwise the
\* first of the task's entries is paid, whichever run has reserved it.
BeginSettle(entries) ==
  IF run \in liveRuns /\ entries # <<>>
  THEN /\ stage' = "settle"
       /\ paying' = Head(entries)
       /\ queue' = Tail(entries)
       /\ settled' = [settled EXCEPT ![Head(entries)] = @ + 1]
       /\ StartPhase("settle")
  ELSE RunOver /\ queue' = entries /\ UNCHANGED <<paying, settled>>

\* The acquire phase has failed, or enqueueForSettle throws.
AcquireFails ==
  /\ stage = "acquire" /\ phase = "none"
  /\ RunOver
  /\ chosen' = [chosen EXCEPT ![run] = NotChosen]
  /\ UNCHANGED <<flow, run, liveRuns, siteVars, verifyVars, queue,
                 paying, settled, confirmed>>

\* The reservation is enqueued.  The plan of the channel may miss it, which
\* ends the run; otherwise the recheck comes next, or the payment if the
\* caller does without (opts.prepayRecheck).
Enqueued ==
  /\ stage = "acquire" /\ phase = "none" /\ result.ok
  /\ \/ RunOver /\ queue' = Append(queue, run) /\ UNCHANGED <<paying, settled>>
     \/ /\ stage' = "recheck"
        /\ queue' = Append(queue, run)
        /\ EngineIdle
        /\ UNCHANGED <<paying, settled>>
     \/ BeginSettle(Append(queue, run))
  /\ UNCHANGED <<flow, run, liveRuns, siteVars, verifyVars, chosen, confirmed>>

\* The fresh snapshot cannot be had.
RecheckThrows ==
  /\ stage = "recheck"
  /\ RunOver
  /\ UNCHANGED <<flow, run, liveRuns, siteVars, verifyVars, chosen, queue,
                 paying, settled, confirmed>>

\* prepayRecheck on a fresh snapshot, and the payment begins.
Rechecked(snap) ==
  /\ stage = "recheck"
  /\ IF PriceGuardPasses(snap) /\ VariantMatches(snap)
     THEN BeginSettle(queue)
     ELSE RunOver /\ UNCHANGED <<queue, paying, settled>>
  /\ UNCHANGED <<flow, run, liveRuns, siteVars, verifyVars, chosen, confirmed>>

\* The channel has no entry to give: it is frozen, or another task is first.
ChannelBusy ==
  /\ stage \in {"acquire", "recheck"} /\ run \in liveRuns
  /\ stage = "acquire" => phase = "none" /\ result.ok
  /\ RunOver
  /\ queue' = IF stage = "acquire" THEN Append(queue, run) ELSE queue
  /\ UNCHANGED <<flow, run, liveRuns, siteVars, verifyVars, chosen, paying,
                 settled, confirmed>>

\* The settle phase has ended; the verification of a paid order begins.
SettleEnds ==
  /\ stage = "settle" /\ phase = "none"
  /\ RunOver
  /\ paying' = 0
  /\ IF result.ok
     THEN confirmed' = confirmed \cup {run} /\ ScheduleVerification(run)
     ELSE UNCHANGED <<confirmed, verifyVars>>
  /\ chosen' = [chosen EXCEPT ![paying] = NotChosen]
  /\ UNCHANGED <<flow, run, liveRuns, siteVars, queue, settled>>

RunStep ==
  \/ \E isLive \in BOOLEAN : StartRun(isLive)
  \/ SnapshotThrows \/ AcquireFails \/ Enqueued \/ RecheckThrows \/ ChannelBusy
  \/ SettleEnds
  \/ \E snap \in Snapshots : SnapshotArrives(snap) \/ Rechecked(snap)

OrderNext ==
  \/ RunStep
  \/ (EngineStep \/ HoldEnds \/ \E r \in Runs, p \in Phases : LateExecution(r, p))
       /\ UNCHANGED <<verifyVars, runVars>>
  \/ VerifyStep /\ UNCHANGED <<engineVars, runVars>>

OrderSpec == OrderInit /\ [][OrderNext]_orderVars

\* Timers fire and the polls of the vendor return.
OrderFairSpec ==
  /\ OrderSpec
  /\ \A o \in Orders : /\ WF_orderVars(TimerFires(o) /\ UNCHANGED <<engineVars, runVars>>)
                       /\ WF_orderVars(PollAnswered(o) /\ UNCHANGED <<engineVars, runVars>>)

-----------------------------------------------------------------------------
(* Properties *)

\* The mutating requests of a phase that are sent when all goes well.
Payments(p) ==
  {i \in DOMAIN flow[p] : /\ flow[p][i].when /\ flow[p][i].asks
                          /\ flow[p][i].method # "GET"}

\* What the site has executed for a run or still may.
Incurred(r, p) == executed[r][p] + late[r][p]

\* How often each step of a phase may be tried.
Allowance(p) == [i \in DOMAIN flow[p] |-> 1 + flow[p][i].retry]

\* However the site and the network behave, and counting what the vault or
\* the site executes after the engine has given up, a mutating step costs at
\* most one request more than the retries its script allows it (runStep).
ChargesBounded ==
  \A r \in Runs, p \in Phases :
    Incurred(r, p) <= SumFunctionOnSet(Allowance(p), Payments(p))

\* An order that is reported as confirmed has been paid: the site has
\* executed every mutating step of the settle phase in that very run.
ConfirmedIsPaid ==
  \A r \in confirmed : executed[r]["settle"] >= Cardinality(Payments("settle"))

\* A run that may not execute live requests changes nothing on the site,
\* whatever its flow does (isMutatingRequest, LiveTransactionGuard).
DryRunSendsNothing ==
  \A r \in Runs \ liveRuns, p \in Phases : Incurred(r, p) = 0

\* Once the bank has declined the payment or asked for a 3DS challenge, the
\* run sends no further payment.
RefusalIsFinal ==
  [][stage = "settle" /\ response.status \in {"challenge", "declined"}
       => Incurred(run, "settle")' <= Incurred(run, "settle")]_orderVars

\* What is paid is within the cap of the intent if it was the cheapest
\* variant in stock; the guard says nothing of the variant that was chosen.
CheapestIsWithinCap ==
  paying # 0 /\ chosen[paying].cheapest => chosen[paying].price <= Cap

\* What is paid is within the cap of the intent.
PaidWithinCap == paying # 0 => chosen[paying].price <= Cap

\* A reservation is handed to the settle phase at most once, though a run may
\* pay the reservation that an earlier run has left in the channel's queue.
EachReservationIsPaidOnce == \A r \in Runs : settled[r] <= 1

\* The run in order: types, its phase and its stage agree, and the order's
\* verification is under way until it is done.
OrderConsistent == OrderTypeOK /\ CurrentIsPursued

\* The requests that change something on the site: as many as the flow allows
\* a live run, and none of another.
RequestsBounded == ChargesBounded /\ DryRunSendsNothing

\* The payments: each reservation once, none reported that was not made, and
\* within the cap what was the cheapest in stock.
PaymentsSound ==
  ConfirmedIsPaid /\ EachReservationIsPaidOnce /\ CheapestIsWithinCap
=============================================================================
