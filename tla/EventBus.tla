------------------------------ MODULE EventBus ------------------------------
(***************************************************************************)
(* packages/event-bus/src: EventBus with its MemoryEventDriver, its        *)
(* EventPublisher and subscribers, the ring buffer that keeps the latest   *)
(* events, and a replay that reads the buffer batch by batch while events  *)
(* go on being published.                                                  *)
(*                                                                         *)
(* An event stands for its number in the order of storage; of what it      *)
(* holds, the tenant and the sequence number within the tenant are kept.   *)
(* The continuations of concurrent calls of publish run in the order of    *)
(* the calls.  Filters other than tenant and sequence are left out.        *)
(***************************************************************************)
EXTENDS Integers, Sequences, FiniteSets

CONSTANTS
    Tenant, Subscriber,
    Everyone,          \* the filter of a subscriber that sets no tenant
    Wants,             \* the filter of each subscriber: a tenant or Everyone
    Capacity,          \* the capacity of the ring buffer
    ReplayBatch,       \* batchSize of a replay
    MaxEvents          \* bound: events published

ASSUME BusAssumption ==
    /\ Everyone \notin Tenant /\ Wants \in [Subscriber -> Tenant \cup {Everyone}]
    /\ {Capacity, ReplayBatch} \subseteq Nat \ {0} /\ MaxEvents \in Nat

VARIABLES
    started, wired,  \* the bus is started; the driver has its callback
    tenantSequences,          \* tenantSequences
    calls,             \* calls of publish that have their sequence number
    buffer, head,      \* the ring buffer, its slots numbered from 0, and the next one
    logged,            \* history: all events stored, of which the buffer holds the latest
    posted,            \* microtasks of the driver: the numbers of their events
    subscribed,        \* the subscribers of the bus
    heard,             \* history: the numbers of the events each one was given
    replay             \* the replay under way

busVars == <<started, wired, tenantSequences, calls, buffer, head, logged, posted, subscribed, heard,
             replay>>

NoEvent == [tenant |-> Everyone, sequence |-> 0]
Envelopes == [tenant : Tenant, sequence : 1..MaxEvents]
NoReplay == [step |-> "off", tenant |-> Everyone, from |-> 0, offset |-> 0, batch |-> <<>>,
             left |-> 0, given |-> <<>>, floor |-> 0, upto |-> 0]

-----------------------------------------------------------------------------
Stored == IF Len(logged) < Capacity THEN Len(logged) ELSE Capacity
OldestSlot == IF Stored < Capacity THEN 0 ELSE head

\* Faulty variant of Buffered: the slots in their own order.
SlotsInOrder == [i \in 1..Stored |-> buffer[i - 1]]

\* getAllBufferedEvents: before the buffer has filled up it starts at slot 0.
Buffered == [i \in 1..Stored |-> buffer[(OldestSlot + i - 1) % Capacity]]

\* query, with a tenant, a first sequence number, an offset and a limit: the
\* events that fit, in the order of the buffer, from the offset on.
Query(tenant, from, offset, limit) ==
    LET found == {i \in 1..Stored : Buffered[i].tenant = tenant /\ Buffered[i].sequence >= from}
        Place(i) == Cardinality({j \in found : j <= i})
        last == IF offset + limit < Cardinality(found) THEN offset + limit ELSE Cardinality(found)
    IN  [k \in 1..last - offset |-> Buffered[CHOOSE i \in found : Place(i) = offset + k]]

Matches(s, e) == Wants[s] = Everyone \/ Wants[s] = e.tenant

-----------------------------------------------------------------------------
BusInit ==
    /\ started = FALSE /\ wired = TRUE
    /\ tenantSequences = [t \in Tenant |-> 0]
    /\ calls = <<>>
    /\ buffer = [i \in 0..Capacity - 1 |-> NoEvent] /\ head = 0
    /\ logged = <<>> /\ posted = <<>>
    /\ subscribed = {}
    /\ heard = [s \in Subscriber |-> <<>>]
    /\ replay = NoReplay

\* publish up to its first await: the event has its number.
Publish(t) ==
    /\ Len(logged) + Len(calls) < MaxEvents
    /\ tenantSequences' = [tenantSequences EXCEPT ![t] = @ + 1]
    /\ calls' = Append(calls, [tenant |-> t, sequence |-> tenantSequences[t] + 1])
    /\ UNCHANGED <<started, wired, buffer, head, logged, posted, subscribed, heard, replay>>

\* publishEnvelope: the event is stored and, if the driver has its callback,
\* posted as a microtask.  Whether the bus is started does not matter.
Store ==
    /\ calls # <<>>
    /\ calls' = Tail(calls)
    /\ buffer' = [buffer EXCEPT ![head] = Head(calls)]
    /\ head' = (head + 1) % Capacity
    /\ logged' = Append(logged, Head(calls))
    /\ posted' = IF wired THEN Append(posted, Len(logged) + 1) ELSE posted
    /\ UNCHANGED <<started, wired, tenantSequences, subscribed, heard, replay>>

\* handleIncomingEvent, unless the driver has lost its callback meanwhile.
Dispatch ==
    /\ posted # <<>>
    /\ posted' = Tail(posted)
    /\ heard' = [s \in Subscriber |->
                    IF wired /\ s \in subscribed /\ Matches(s, logged[Head(posted)])
                    THEN Append(heard[s], Head(posted)) ELSE heard[s]]
    /\ UNCHANGED <<started, wired, tenantSequences, calls, buffer, head, logged, subscribed, replay>>

SubscribeTo(s) ==
    /\ s \notin subscribed
    /\ subscribed' = subscribed \cup {s}
    /\ heard' = [heard EXCEPT ![s] = <<>>]
    /\ UNCHANGED <<started, wired, tenantSequences, calls, buffer, head, logged, posted, replay>>

Unsubscribe(s) ==
    /\ s \in subscribed
    /\ subscribed' = subscribed \ {s}
    /\ UNCHANGED <<started, wired, tenantSequences, calls, buffer, head, logged, posted, heard, replay>>

\* start and stop; nothing gives the driver its callback back.
StartBus ==
    /\ ~started /\ started' = TRUE
    /\ UNCHANGED <<wired, tenantSequences, calls, buffer, head, logged, posted, subscribed, heard, replay>>

StopBus ==
    /\ started /\ started' = FALSE
    /\ wired' = FALSE
    /\ subscribed' = {}
    /\ UNCHANGED <<tenantSequences, calls, buffer, head, logged, posted, heard, replay>>

-----------------------------------------------------------------------------
\* What the buffer has lost of a tenant's events, which is a first part of them.
Evicted(t) ==
    Cardinality({i \in 1..Len(logged) - Stored : logged[i].tenant = t})
LatestSequence(t) == Cardinality({i \in DOMAIN logged : logged[i].tenant = t})

StartReplay(t, from) ==
    /\ replay.step = "off"
    /\ replay' = [NoReplay EXCEPT !.step = "query", !.tenant = t, !.from = from,
                                  !.floor = Evicted(t)]
    /\ UNCHANGED <<started, wired, tenantSequences, calls, buffer, head, logged, posted, subscribed,
                   heard>>

\* The next batch is read at an offset that counts from the oldest event still kept.
QueryBatch ==
    LET found == Query(replay.tenant, replay.from, replay.offset, ReplayBatch)
    IN  /\ replay.step = "query"
        /\ replay' = [replay EXCEPT !.step = IF found = <<>> THEN "done" ELSE "give",
                                    !.batch = found, !.left = Len(found),
                                    !.upto = LatestSequence(replay.tenant)]
        /\ UNCHANGED <<started, wired, tenantSequences, calls, buffer, head, logged, posted,
                       subscribed, heard>>

\* The handler is given one event; it, and the pace of the replay, may take a while.
GiveEvent ==
    LET size == Len(replay.batch)
        more == [replay EXCEPT !.left = @ - 1,
                               !.given = Append(@, replay.batch[size - replay.left + 1].sequence)]
    IN  /\ replay.step = "give"
        /\ replay' =
               CASE replay.left > 1    -> more
                 [] replay.left = 1 /\ size < ReplayBatch -> [more EXCEPT !.step = "done"]
                 [] OTHER -> [more EXCEPT !.step = "query", !.offset = @ + size]
        /\ UNCHANGED <<started, wired, tenantSequences, calls, buffer, head, logged, posted,
                       subscribed, heard>>

\* The handler throws: replay returns with the error.
GiveFails ==
    /\ replay.step = "give"
    /\ replay' = [replay EXCEPT !.step = "failed"]
    /\ UNCHANGED <<started, wired, tenantSequences, calls, buffer, head, logged, posted, subscribed,
                   heard>>

BusNext ==
    \/ \E t \in Tenant : Publish(t) \/ \E from \in 1..2 : StartReplay(t, from)
    \/ Store \/ Dispatch \/ StartBus \/ StopBus
    \/ \E s \in Subscriber : SubscribeTo(s) \/ Unsubscribe(s)
    \/ QueryBatch \/ GiveEvent \/ GiveFails

BusSpec == BusInit /\ [][BusNext]_busVars

-----------------------------------------------------------------------------
\* Type correctness of the bus, its buffer and the replay.
BusTypeOK ==
    /\ {started, wired} \subseteq BOOLEAN
    /\ tenantSequences \in [Tenant -> 0..MaxEvents]
    /\ buffer \in [0..Capacity - 1 -> Envelopes \cup {NoEvent}] /\ head \in 0..Capacity - 1
    /\ calls \in Seq(Envelopes) /\ logged \in Seq(Envelopes)
    /\ posted \in Seq(1..MaxEvents)
    /\ subscribed \subseteq Subscriber /\ heard \in [Subscriber -> Seq(1..MaxEvents)]
    /\ replay.step \in {"off", "query", "give", "done", "failed"}

\* Subscribers are given events in the order of storage, and between two of
\* them none that they want is left out.
HeardInOrder ==
    \A s \in Subscriber : \A i \in 1..Len(heard[s]) - 1 :
        /\ heard[s][i] < heard[s][i + 1]
        /\ \A e \in heard[s][i] + 1..heard[s][i + 1] - 1 : ~Matches(s, logged[e])

\* The sequence numbers a replay could have given up to now.
DueNumbers ==
    LET first == IF replay.from > replay.floor THEN replay.from ELSE replay.floor + 1
        last == CASE replay.step = "done" -> replay.upto
                  [] replay.step # "done" /\ replay.given = <<>> -> 0
                  [] OTHER -> replay.given[Len(replay.given)]
    IN  first..last

\* A replay gives events in their order and none twice, although its offset
\* shifts against a buffer that evicts from the front; it passes over no more
\* events than the buffer has evicted since it started.
ReplayFaithful ==
    replay.step # "off" =>
        /\ \A i \in 1..Len(replay.given) - 1 : replay.given[i] < replay.given[i + 1]
        /\ Cardinality({q \in DueNumbers : \A i \in DOMAIN replay.given : replay.given[i] # q})
               <= Cardinality({q \in DueNumbers : q <= Evicted(replay.tenant)})

\* Live and replayed, events come in the order in which they were stored.
DeliveryInOrder == HeardInOrder /\ ReplayFaithful
=============================================================================
