------------------------------- MODULE LiveFeed -------------------------------
(***************************************************************************)
(* packages/core/event-bus/index.js and the WebSocket end of               *)
(* packages/server/api/server.js: the events of the bus are numbered, kept *)
(* in a replay buffer and handed at once to every open connection; a       *)
(* connection receives those its subscriptions cover, and at each          *)
(* subscribe message the buffer is replayed to it.                         *)
(***************************************************************************)
EXTENDS Integers, Sequences, FiniteSets, SequencesExt

CONSTANTS Clients,
          Patterns,      \* what a client may subscribe to
          Covers,        \* topicMatches: the topics each pattern matches
          ReplayLimit,   \* InMemoryBus.replayLimit
          MaxSubscribes  \* bound: subscribe messages of one connection

ASSUME FeedAssumption ==
  /\ DOMAIN Covers = Patterns
  /\ ReplayLimit \in Nat \ {0} /\ MaxSubscribes \in Nat

VARIABLES nextId,  \* InMemoryBus.nextId
          events,  \* InMemoryBus.events: [id, topic, within], within being
                   \* the event whose handler emitted this one, or 0
          conn     \* the connection of each client

feedVars == <<nextId, events, conn>>

Closed == [open |-> FALSE, topics |-> {}, since |-> 0, got |-> <<>>, subscribes |-> 0]

FeedTypeOK ==
  /\ nextId \in Nat \ {0}
  /\ Len(events) <= ReplayLimit
  /\ \A c \in Clients :
       /\ conn[c].topics \subseteq Patterns
       /\ conn[c].since \in 0..(nextId - 1)
       /\ \A i \in DOMAIN conn[c].got : conn[c].got[i] \in 1..(nextId - 1)

FeedInit ==
  /\ nextId = 1
  /\ events = <<>>
  /\ conn = [c \in Clients |-> Closed]

-----------------------------------------------------------------------------
(* Emitting *)

MatchesAny(topics, event) == \E p \in topics : event.topic \in Covers[p]

\* What a connection has received once it was sent, one after another, the
\* events of `batch` that are newer than `since` and that it covers.
Receive(k, batch, since) ==
  LET got[i \in 0..Len(batch)] ==
        IF i = 0 THEN k.got
        ELSE IF batch[i].id > since /\ MatchesAny(k.topics, batch[i])
             THEN Append(got[i - 1], batch[i].id)
             ELSE got[i - 1]
  IN [k EXCEPT !.got = got[Len(batch)]]

\* The subscribers are called in turn within emit().
Publish(batch) ==
  conn' = [c \in Clients |-> IF conn[c].open THEN Receive(conn[c], batch, 0) ELSE conn[c]]

\* The last events, as many as the buffer holds.
Kept(s) == SubSeq(s, Len(s) - ReplayLimit + 1, Len(s))
Store(s) == events' = IF Len(s) > ReplayLimit THEN Kept(s) ELSE s

Event(id, topic, within) == [id |-> id, topic |-> topic, within |-> within]

\* emit(), once per topic.
Emit(topics) ==
  LET batch == [i \in DOMAIN topics |-> Event(nextId + i - 1, topics[i], 0)] IN
  /\ nextId' = nextId + Len(topics)
  /\ Store(events \o batch)
  /\ Publish(batch)

\* emit() of an event whose first subscriber, a service, emits others in its
\* handler: the connections are sent the inner events first.
EmitNested(outer, inner) ==
  LET first == Event(nextId, outer, 0)
      rest == [i \in DOMAIN inner |-> Event(nextId + i, inner[i], nextId)]
  IN
  /\ nextId' = nextId + 1 + Len(inner)
  /\ Store(events \o <<first>> \o rest)
  /\ Publish(rest \o <<first>>)

-----------------------------------------------------------------------------
(* The connections *)

\* handleWsUpgrade: `since` comes with the URL, and holds for every replay.
Connect(c, since) ==
  /\ ~conn[c].open
  /\ conn' = [conn EXCEPT ![c] = [Closed EXCEPT !.open = TRUE, !.since = since]]
  /\ UNCHANGED <<nextId, events>>

\* Mutant of SubscribeTo: what happened before is not replayed.
SubscribeWithoutReplay(c, p) ==
  /\ conn[c].open /\ conn[c].subscribes < MaxSubscribes
  /\ conn' = [conn EXCEPT ![c].topics = @ \cup {p}, ![c].subscribes = @ + 1]
  /\ UNCHANGED <<nextId, events>>

\* handleWsMessage: the replay covers all the topics of the connection.
SubscribeTo(c, p) ==
  LET k == [conn[c] EXCEPT !.topics = @ \cup {p}, !.subscribes = @ + 1] IN
  /\ conn[c].open /\ conn[c].subscribes < MaxSubscribes
  /\ conn' = [conn EXCEPT ![c] = Receive(k, events, k.since)]
  /\ UNCHANGED <<nextId, events>>

UnsubscribeFrom(c, p) ==
  /\ conn[c].open /\ p \in conn[c].topics
  /\ conn' = [conn EXCEPT ![c].topics = @ \ {p}]
  /\ UNCHANGED <<nextId, events>>

\* A close frame, or the socket's close or error.
Disconnect(c) ==
  /\ conn[c].open
  /\ conn' = [conn EXCEPT ![c] = Closed]
  /\ UNCHANGED <<nextId, events>>

ClientMove(c) ==
  \/ \E since \in 0..(nextId - 1) : Connect(c, since)
  \/ \E p \in Patterns : SubscribeTo(c, p) \/ UnsubscribeFrom(c, p)
  \/ Disconnect(c)

-----------------------------------------------------------------------------
(* Properties *)

Times(s, x) == Cardinality({i \in DOMAIN s : s[i] = x})

\* Whenever a client looks, it has received every event that the buffer still
\* holds, that is newer than what it asked for, and that its subscriptions
\* cover: nothing falls between a replay and the events that follow it, nor
\* between an unsubscribe and the next subscribe.
CaughtUp ==
  \A c \in Clients : \A i \in DOMAIN events :
    /\ conn[c].open
    /\ events[i].id > conn[c].since
    /\ MatchesAny(conn[c].topics, events[i])
    => events[i].id \in ToSet(conn[c].got)

\* An event reaches a connection once, and once more for each further time
\* the client subscribes.
OncePerSubscribe ==
  \A c \in Clients : \A id \in 1..(nextId - 1) :
    Times(conn[c].got, id) <= conn[c].subscribes

\* A client that subscribes once receives the events in the order of their
\* numbers, but for those a handler emitted within another event.
OutOfOrderOnlyNested ==
  \A c \in Clients : conn[c].subscribes <= 1 =>
    \A i, j \in DOMAIN conn[c].got :
      i < j /\ conn[c].got[i] > conn[c].got[j]
        => \A e \in ToSet(events) :
             e.id = conn[c].got[i] => e.within = conn[c].got[j]

\* What a client gets of the feed: all it may still expect, no more often than
\* it asked, and in order but for nested events.
FeedConsistent == CaughtUp /\ OncePerSubscribe /\ OutOfOrderOnlyNested
=============================================================================
