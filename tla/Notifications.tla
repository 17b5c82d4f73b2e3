---------------------------- MODULE Notifications ----------------------------
(***************************************************************************)
(* packages/core/notification-service/index.js on top of the scheduler and *)
(* the event bus: a notification is stored, delivered to its channels one  *)
(* after another, announced and, when every channel took it and it asks    *)
(* for a reminder, planned with the PrecisionScheduler.  It may be read,   *)
(* dismissed and have its reminder cancelled while it is being delivered,  *)
(* and clients come and go.                                                *)
(***************************************************************************)
EXTENDS PrecisionScheduler, LiveFeed

CONSTANTS None,       \* an absent value
          Channels,   \* record.channels: the names to deliver to, in order
          Urgent,     \* the notifications of severity `urgent`
          MaxEvents   \* bound: events emitted before a notification that is
                      \* dismissed is dismissed once more

\* A handle of the scheduler is the reminder of a notification.
Notices == Handles

ASSUME NotificationAssumption ==
  /\ \A n \in Notices : LeadOf[n] = 0 /\ WarmupOf[n] = 0
  /\ Channels \in Seq(STRING) /\ Channels # <<>> /\ Urgent \subseteq Notices
  /\ MaxEvents \in Nat

VARIABLES notify,      \* the call that stores each notification: where it is
          reminderAt,  \* record.reminderAt
          at,          \* #dispatch: the index of the channel it awaits
          delivered, errors, \* the indices of the channels that took it, and
                             \* of those that did not
          unregistered,\* the names this.channels does not have
          dismissedAt, \* the notifications that are dismissed
          reminderHandles,   \* the keys of this.reminderHandles
          fired,       \* record.firedReminders, and the events of them
          calledOff    \* history: cancelReminder() came before the timer

dispatchVars == <<notify, reminderAt, at, delivered, errors>>
noticeVars == <<dispatchVars, unregistered, dismissedAt, reminderHandles, fired, calledOff>>
notificationVars == <<schedulerVars, feedVars, noticeVars>>

ChannelNames == ToSet(Channels)

NotificationTypeOK ==
  /\ SchedulerTypeOK
  /\ FeedTypeOK
  /\ notify \in [Notices -> {"idle", "dispatching", "returned", "threw"}]
  /\ reminderAt \in [Notices -> TriggerTimes \cup {None}]
  /\ at \in [Notices -> Nat]
  /\ delivered \in [Notices -> SUBSET DOMAIN Channels]
  /\ errors \in [Notices -> SUBSET DOMAIN Channels]
  /\ unregistered \subseteq ChannelNames
  /\ dismissedAt \subseteq Notices
  /\ reminderHandles \subseteq Notices
  /\ fired \in [Notices -> Nat]
  /\ calledOff \subseteq Notices

NotificationInit ==
  /\ SchedulerInit
  /\ FeedInit
  /\ notify = [n \in Notices |-> "idle"]
  /\ reminderAt = [n \in Notices |-> None]
  /\ at = [n \in Notices |-> 0]
  /\ delivered = [n \in Notices |-> {}]
  /\ errors = [n \in Notices |-> {}]
  /\ unregistered = ChannelNames \ {"in-app"}
  /\ dismissedAt = {}
  /\ reminderHandles = {}
  /\ fired = [n \in Notices |-> 0]
  /\ calledOff = {}

-----------------------------------------------------------------------------
(* notify() and #dispatch *)

\* The next channel after the i-th that is registered, or one past the last.
NextChannel(i) ==
  CHOOSE j \in (i + 1)..(Len(Channels) + 1) :
    /\ j <= Len(Channels) => Channels[j] \notin unregistered
    /\ \A k \in (i + 1)..(j - 1) : Channels[k] \in unregistered

\* Mutant of Planned: the reminder is planned whether or not all went well.
PlannedAnyway(n, failed) ==
  IF reminderAt'[n] = None
  THEN UNCHANGED <<schedulerVars, reminderHandles>>
  ELSE Schedule(n, reminderAt'[n]) /\ reminderHandles' = reminderHandles \cup {n}

\* Mutant of Planned: a moment that has passed during the dispatch is dropped.
PlannedInTime(n, failed) ==
  IF failed # {} \/ reminderAt'[n] = None \/ reminderAt'[n] = clock
  THEN UNCHANGED <<schedulerVars, reminderHandles>>
  ELSE Schedule(n, reminderAt'[n]) /\ reminderHandles' = reminderHandles \cup {n}

\* The end of notify(): it throws, or plans the reminder if there is one.
Planned(n, failed) ==
  IF failed # {} \/ reminderAt'[n] = None
  THEN UNCHANGED <<schedulerVars, reminderHandles>>
  ELSE Schedule(n, reminderAt'[n]) /\ reminderHandles' = reminderHandles \cup {n}

\* The emissions of a step of notify(), which may have been called within the
\* handler of Sniper2's terminal event.
Announce(topics, within) ==
  IF within THEN EmitNested("terminal", topics) ELSE Emit(topics)

\* #dispatch goes on after its i-th channel with the failures so far: it
\* calls the next registered one, the in-app channel emitting at once, or it
\* announces the notification and ends.
GoOn(n, i, failed, within) ==
  LET j == NextChannel(i)
      all == failed \cup ((i + 1)..(j - 1))
  IN
  /\ at' = [at EXCEPT ![n] = j]
  /\ errors' = [errors EXCEPT ![n] = all]
  /\ IF j <= Len(Channels)
     THEN /\ notify' = [notify EXCEPT ![n] = "dispatching"]
          /\ Announce(IF Channels[j] = "in-app" THEN <<"in-app">> ELSE <<>>, within)
          /\ UNCHANGED <<schedulerVars, reminderHandles>>
     ELSE /\ notify' = [notify EXCEPT ![n] = IF all = {} THEN "returned" ELSE "threw"]
          /\ Announce(IF n \in Urgent THEN <<"created", "audit">> ELSE <<"created">>, within)
          /\ Planned(n, all)

\* notify(): the record is stored before the first channel is tried.
Notify(n, time) ==
  /\ notify[n] = "idle"
  /\ reminderAt' = [reminderAt EXCEPT ![n] = time]
  /\ GoOn(n, 0, {}, FALSE)
  /\ UNCHANGED <<delivered, unregistered, dismissedAt, fired, calledOff>>

\* Sniper3 notifies of an order's result in its handler of the terminal event.
NotifyWithin(n) ==
  /\ notify[n] = "idle"
  /\ reminderAt' = [reminderAt EXCEPT ![n] = None]
  /\ GoOn(n, 0, {}, TRUE)
  /\ UNCHANGED <<delivered, unregistered, dismissedAt, fired, calledOff>>

\* deliver() settles: a channel that throws is noted, and the next is tried.
Delivered(n, ok) ==
  /\ notify[n] = "dispatching"
  /\ Channels[at[n]] = "in-app" => ok
  /\ delivered' = [delivered EXCEPT ![n] = IF ok THEN @ \cup {at[n]} ELSE @]
  /\ UNCHANGED <<reminderAt, unregistered, dismissedAt, fired, calledOff>>
  /\ GoOn(n, at[n], IF ok THEN errors[n] ELSE errors[n] \cup {at[n]}, FALSE)

RegisterChannel(c) ==
  /\ c \in unregistered
  /\ unregistered' = unregistered \ {c}
  /\ UNCHANGED <<schedulerVars, feedVars, dispatchVars, dismissedAt,
                 reminderHandles, fired, calledOff>>

-----------------------------------------------------------------------------
(* Reminders *)

\* cancelReminder() while the timer is still to fire.
CallsOff(n) == n \in reminderHandles /\ plans[n][1].trigger = "armed"

\* Mutant of CancelReminder: the handle is forgotten, its timer is not cleared.
ForgetReminder(n) ==
  /\ notify[n] # "idle"
  /\ UNCHANGED schedulerVars
  /\ reminderHandles' = reminderHandles \ {n}
  /\ calledOff' = IF CallsOff(n) THEN calledOff \cup {n} ELSE calledOff
  /\ UNCHANGED <<feedVars, dispatchVars, unregistered, dismissedAt, fired>>

\* cancelReminder() does nothing while notify() is still delivering.
CancelReminder(n) ==
  /\ notify[n] # "idle"
  /\ IF n \in reminderHandles THEN Cancel(n) ELSE UNCHANGED schedulerVars
  /\ reminderHandles' = reminderHandles \ {n}
  /\ calledOff' = IF CallsOff(n) THEN calledOff \cup {n} ELSE calledOff
  /\ UNCHANGED <<feedVars, dispatchVars, unregistered, dismissedAt, fired>>

\* dismiss() leaves the timer: the reminder looks at dismissedAt when it fires.
\* A notification may be dismissed again, and that is announced again.
Dismiss(n) ==
  /\ notify[n] # "idle"
  /\ n \in dismissedAt => nextId <= MaxEvents
  /\ dismissedAt' = dismissedAt \cup {n}
  /\ Emit(<<"dismissed">>)
  /\ UNCHANGED <<schedulerVars, dispatchVars, unregistered, reminderHandles,
                 fired, calledOff>>

\* onTrigger of a reminder: it runs to its end as soon as it is called.
Remind(n) ==
  /\ TriggerActs(n, 1)
  /\ IF n \in dismissedAt
     THEN UNCHANGED <<feedVars, fired>>
     ELSE Emit(<<"reminder">>) /\ fired' = [fired EXCEPT ![n] = @ + 1]
  /\ UNCHANGED <<dispatchVars, unregistered, dismissedAt, reminderHandles, calledOff>>

\* The other callbacks of a reminder, which asks no server for the time and
\* whose onTrigger does not throw.
ReminderCallback(n) ==
  /\ \/ WarmupFires(n, 1)
     \/ WarmupEnds(n, 1, TRUE)
     \/ TriggerFires(n, 1)
     \/ TriggerEnds(n, 1, "acting", "triggered")
  /\ UNCHANGED <<feedVars, noticeVars>>

Time == SchedulerTick /\ UNCHANGED <<feedVars, noticeVars>>

ServiceStep(n) ==
  \/ \E ok \in BOOLEAN : Delivered(n, ok)
  \/ plans[n] # <<>> /\ (Remind(n) \/ ReminderCallback(n))

NotificationNext ==
  \/ \E n \in Notices :
       \/ \E time \in TriggerTimes \cup {None} : Notify(n, time)
       \/ NotifyWithin(n)
       \/ ServiceStep(n)
       \/ CancelReminder(n)
       \/ Dismiss(n)
  \/ \E c \in ChannelNames : RegisterChannel(c)
  \/ \E c \in Clients : ClientMove(c) /\ UNCHANGED <<schedulerVars, noticeVars>>
  \/ Time

NotificationSpec == NotificationInit /\ [][NotificationNext]_notificationVars

\* Time passes, timers fire, and every await settles.
NotificationFairSpec ==
  /\ NotificationSpec
  /\ WF_notificationVars(Time)
  /\ \A n \in Notices : WF_notificationVars(ServiceStep(n))

-----------------------------------------------------------------------------
(* Properties *)

\* A notification reminds once at most, and only when every one of its
\* channels has taken it: a failed notify() never reminds.
RemindersFollowDelivery ==
  \A n \in Notices :
    /\ fired[n] <= 1
    /\ fired[n] > 0 => delivered[n] = DOMAIN Channels /\ notify[n] = "returned"

\* A reminder whose timer had not fired when it was cancelled stays silent.
CancelledRemindersAreSilent ==
  [][\A n \in Notices : fired'[n] > fired[n] => n \notin calledOff]_notificationVars

\* A channel that fails keeps no other from the notification: when notify()
\* ends each channel was tried, and it throws exactly when one failed.
EveryChannelIsTried ==
  \A n \in Notices :
    notify[n] \in {"returned", "threw"} =>
      /\ delivered[n] \cup errors[n] = DOMAIN Channels
      /\ notify[n] = "threw" <=> delivered[n] # DOMAIN Channels

\* A delivered notification that asks for a reminder reminds in the end,
\* unless it is dismissed or the reminder is cancelled.
EveryReminderFires ==
  \A n \in Notices :
    notify[n] = "returned" /\ reminderAt[n] # None
      ~> fired[n] = 1 \/ n \in dismissedAt \/ n \in called

\* What a notification does: every channel is tried, and it reminds at most
\* once, after all of them have taken it.
DeliveryConsistent ==
  NotificationTypeOK /\ EveryChannelIsTried /\ RemindersFollowDelivery
=============================================================================
