-------------------------------- MODULE SubHub --------------------------------
(***************************************************************************)
(* threads.SubHub (src/threads/sub.go): topics, the subscribers of each    *)
(* topic, and Publish, which offers a value to every subscriber's channel  *)
(* and never waits for one.                                                *)
(*                                                                         *)
(* A hub's mutex serialises its methods: busy says which one holds it.     *)
(* The channels are not under the mutex: receivers take values, and        *)
(* Subscriber.Unsubscribe closes a channel, between two sends of a         *)
(* Publish.  The counter internalSubscriberID belongs to the package, so   *)
(* the mutexes of two hubs do not protect it: its increment is a load and  *)
(* a store, and the id is read again afterwards.                           *)
(*                                                                         *)
(* Values are numbered in the order of the calls of PublishN; addressed,   *)
(* offered and dropped record what became of them.                         *)
(***************************************************************************)
EXTENDS Integers, Sequences, FiniteSets, SequencesExt

CONSTANTS Hubs, Topics, Subscribers,
          MaxQueue,    \* the largest maxWait passed to Subscribe
          MaxValues    \* bound: the calls of PublishN

ASSUME HubAssumption ==
  /\ IsFiniteSet(Subscribers)
  /\ MaxQueue \in Nat
  /\ MaxValues \in Nat

VARIABLES
  table,      \* table[h][t]: the subscribers in sh.subscribers[t]
  counter,    \* internalSubscriberID
  id,         \* id[s]: the subscriber's id, 0 before it has one
  busy,       \* busy[h]: what the holder of sh.access is doing, Free if nobody holds it
  home,       \* home[s]: the hub and topic that gave out s, Nowhere before
  removed,    \* the subscribers handed to Unsubscribe of their hub and topic, or cleaned
  capacity,   \* capacity[s]: cap(c), 0 for an unbuffered channel
  queue,      \* queue[s]: the values in the channel
  parked,     \* the subscribers on whose channel a receiver is blocked
  closed,     \* the subscribers whose channel is closed
  received,   \* received[s]: the values taken out of the channel
  addressed,  \* addressed[v]: the subscribers of the topic when value v was published
  budget,     \* budget[v]: the n of the call that published v
  offered,    \* offered[v]: the subscribers whose publish was called with v
  dropped,    \* dropped[v]: those whose channel had no room for v
  answers,    \* answers[v]: what the call of PublishN returned, Pending before
  misused,    \* a channel was closed twice, or while its hub still lists it
  panicked    \* "send on closed channel" or "close of closed channel"

channelVars == <<capacity, queue, parked, closed, received>>
valueVars   == <<addressed, budget, offered, dropped, answers>>
vars == <<table, counter, id, busy, home, removed, channelVars, valueVars, misused, panicked>>

Free == [op |-> "free"]
Nowhere == <<>>
Pending == -1
All == -1          \* n < 0: every subscriber

Published == DOMAIN addressed
Places == Hubs \X Topics
At(s) == table[home[s][1]][home[s][2]]
Live == {s \in Subscribers : id[s] # 0 /\ s \notin removed}

Init ==
  /\ table = [h \in Hubs |-> [t \in Topics |-> {}]]
  /\ counter = 0
  /\ id = [s \in Subscribers |-> 0]
  /\ busy = [h \in Hubs |-> Free]
  /\ home = [s \in Subscribers |-> Nowhere]
  /\ removed = {}
  /\ capacity = [s \in Subscribers |-> 0]
  /\ queue = [s \in Subscribers |-> <<>>]
  /\ parked = {}
  /\ closed = {}
  /\ received = [s \in Subscribers |-> <<>>]
  /\ addressed = <<>> /\ budget = <<>> /\ offered = <<>> /\ dropped = <<>> /\ answers = <<>>
  /\ misused = FALSE
  /\ panicked = FALSE

-----------------------------------------------------------------------------
\* Subscribe.

\* Lock, and load the counter for internalSubscriberID++.
SubscribeLoad(h, t, s, n) ==
  /\ busy[h] = Free
  /\ home[s] = Nowhere
  /\ home' = [home EXCEPT ![s] = <<h, t>>]
  /\ capacity' = [capacity EXCEPT ![s] = n]
  /\ busy' = [busy EXCEPT ![h] = [op |-> "store", sub |-> s, seen |-> counter]]
  /\ UNCHANGED <<table, counter, id, removed, queue, parked, closed, received, valueVars,
                 misused, panicked>>

SubscribeStore(h) ==
  /\ busy[h].op = "store"
  /\ counter' = busy[h].seen + 1
  /\ busy' = [busy EXCEPT ![h].op = "register"]
  /\ UNCHANGED <<table, id, home, removed, channelVars, valueVars, misused, panicked>>

\* Slip: the new subscriber gets the id of the one before it.
SubscribeRegisterSlip(h) ==
  /\ busy[h].op = "register"
  /\ LET s == busy[h].sub
         i == IF counter > 1 THEN counter - 1 ELSE counter
         t == home[s][2]
     IN  /\ id' = [id EXCEPT ![s] = i]
         /\ table' = [table EXCEPT ![h][t] = {u \in @ : id[u] # i} \cup {s}]
  /\ busy' = [busy EXCEPT ![h] = Free]
  /\ UNCHANGED <<counter, home, removed, channelVars, valueVars, misused, panicked>>

\* Read the counter again for the id, enter the subscriber under it, unlock.
SubscribeRegister(h) ==
  /\ busy[h].op = "register"
  /\ LET s == busy[h].sub
         t == home[s][2]
     IN  /\ id' = [id EXCEPT ![s] = counter]
         /\ table' = [table EXCEPT ![h][t] = {u \in @ : id[u] # counter} \cup {s}]
  /\ busy' = [busy EXCEPT ![h] = Free]
  /\ UNCHANGED <<counter, home, removed, channelVars, valueVars, misused, panicked>>

-----------------------------------------------------------------------------
\* Slip: without the mutex.
UnsubscribeSlip(h, t, subs) ==
  /\ busy[h].op \in {"free", "publish"}
  /\ \A s \in subs : id[s] # 0
  /\ LET kept == IF subs = {} THEN {}
                 ELSE {u \in table[h][t] : id[u] \notin {id[s] : s \in subs}}
     IN  /\ table' = [table EXCEPT ![h][t] = kept]
         /\ removed' = removed \cup
              (IF subs = {} THEN table[h][t] ELSE {s \in subs : home[s] = <<h, t>>})
  /\ UNCHANGED <<counter, id, busy, home, channelVars, valueVars, misused, panicked>>

\* Unsubscribe(topic, subs...): by id, whatever topic the subscribers came from; with
\* no subscriber, the whole topic.  The channels stay open.
Unsubscribe(h, t, subs) ==
  /\ busy[h] = Free
  /\ \A s \in subs : id[s] # 0
  /\ LET kept == IF subs = {} THEN {}
                 ELSE {u \in table[h][t] : id[u] \notin {id[s] : s \in subs}}
     IN  /\ table' = [table EXCEPT ![h][t] = kept]
         /\ removed' = removed \cup
              (IF subs = {} THEN table[h][t] ELSE {s \in subs : home[s] = <<h, t>>})
  /\ UNCHANGED <<counter, id, busy, home, channelVars, valueVars, misused, panicked>>

-----------------------------------------------------------------------------
\* PublishN(topic, value, n).  With n = 0 it returns at once and changes nothing.

\* Slip: the topic is ignored.
PublishStartSlip(h, t, n) ==
  /\ busy[h] = Free
  /\ Len(addressed) < MaxValues
  /\ LET subs == UNION {table[h][u] : u \in Topics}
     IN  busy' = [busy EXCEPT ![h] = [op |-> "publish", value |-> Len(addressed) + 1, left |-> subs,
                                      n |-> Cardinality(subs), nn |-> Cardinality(subs)]]
  /\ addressed' = Append(addressed, table[h][t])
  /\ budget' = Append(budget, n)
  /\ offered' = Append(offered, {})
  /\ dropped' = Append(dropped, {})
  /\ answers' = Append(answers, Pending)
  /\ UNCHANGED <<table, counter, id, home, removed, channelVars, misused, panicked>>

PublishStart(h, t, n) ==
  /\ busy[h] = Free
  /\ Len(addressed) < MaxValues
  /\ LET subs == table[h][t]
         m == IF n = All \/ n > Cardinality(subs) THEN Cardinality(subs) ELSE n
     IN  busy' = [busy EXCEPT ![h] = [op |-> "publish", value |-> Len(addressed) + 1,
                                      left |-> subs, n |-> m, nn |-> m]]
  /\ addressed' = Append(addressed, table[h][t])
  /\ budget' = Append(budget, n)
  /\ offered' = Append(offered, {})
  /\ dropped' = Append(dropped, {})
  /\ answers' = Append(answers, Pending)
  /\ UNCHANGED <<table, counter, id, home, removed, channelVars, misused, panicked>>

\* The cases of the select in publish(v): a blocked receiver gets the value, or the
\* buffer has room, or the value is discarded.
Handed(s, v) ==
  /\ s \in parked
  /\ parked' = parked \ {s}
  /\ received' = [received EXCEPT ![s] = Append(@, v)]
  /\ UNCHANGED <<queue, dropped>>

Buffered(s, v) ==
  /\ s \notin parked
  /\ Len(queue[s]) < capacity[s]
  /\ queue' = [queue EXCEPT ![s] = Append(@, v)]
  /\ UNCHANGED <<parked, received, dropped>>

\* Slip: without the default case the send waits for a receiver.
DiscardedSlip(s, v) ==
  FALSE /\ UNCHANGED <<queue, parked, received, dropped>>

Discarded(s, v) ==
  /\ s \notin parked
  /\ Len(queue[s]) >= capacity[s]
  /\ dropped' = [dropped EXCEPT ![v] = @ \cup {s}]
  /\ UNCHANGED <<queue, parked, received>>

\* Slip: a full channel ends the loop.
PublishToSlip(h, s) ==
  /\ busy[h].op = "publish"
  /\ busy[h].nn > 0
  /\ s \in busy[h].left \ closed
  /\ LET v == busy[h].value
     IN  /\ busy' = [busy EXCEPT ![h].nn = IF Len(queue[s]) < capacity[s] THEN @ - 1 ELSE 0,
                                 ![h].left = @ \ {s}]
         /\ offered' = [offered EXCEPT ![v] = @ \cup {s}]
         /\ Handed(s, v) \/ Buffered(s, v) \/ Discarded(s, v)
  /\ UNCHANGED <<table, counter, id, home, removed, capacity, closed, addressed, budget, answers,
                 misused, panicked>>

\* subscriber.publish(value) on the next subscriber of the map, in any order.
PublishTo(h, s) ==
  /\ busy[h].op = "publish"
  /\ busy[h].nn > 0
  /\ s \in busy[h].left \ closed
  /\ LET v == busy[h].value
     IN  /\ busy' = [busy EXCEPT ![h].nn = @ - 1, ![h].left = @ \ {s}]
         /\ offered' = [offered EXCEPT ![v] = @ \cup {s}]
         /\ Handed(s, v) \/ Buffered(s, v) \/ Discarded(s, v)
  /\ UNCHANGED <<table, counter, id, home, removed, capacity, closed, addressed, budget, answers,
                 misused, panicked>>

\* The next subscriber's channel is closed: the send panics.
PublishPanics(h, s) ==
  /\ busy[h].op = "publish"
  /\ busy[h].nn > 0
  /\ s \in busy[h].left \cap closed
  /\ panicked' = TRUE
  /\ UNCHANGED <<table, counter, id, busy, home, removed, channelVars, valueVars, misused>>

PublishReturns(h) ==
  /\ busy[h].op = "publish"
  /\ busy[h].nn = 0 \/ busy[h].left = {}
  /\ answers' = [answers EXCEPT ![busy[h].value] = busy[h].n - busy[h].nn]
  /\ busy' = [busy EXCEPT ![h] = Free]
  /\ UNCHANGED <<table, counter, id, home, removed, channelVars, addressed, budget, offered,
                 dropped, misused, panicked>>

-----------------------------------------------------------------------------
\* The subscriber's side, outside the mutex.

\* Subscriber.Unsubscribe closes the channel and leaves the hub alone.
CloseSubscriber(s) ==
  /\ id[s] # 0
  /\ misused' = (misused \/ s \in closed \/ s \in At(s))
  /\ IF s \in closed
       THEN panicked' = TRUE /\ UNCHANGED <<closed, parked>>
       ELSE closed' = closed \cup {s} /\ parked' = parked \ {s} /\ UNCHANGED panicked
  /\ UNCHANGED <<table, counter, id, busy, home, removed, capacity, queue, received, valueVars>>

\* A receiver takes the next value; a closed channel still hands out its buffer.
Receive(s) ==
  /\ queue[s] # <<>>
  /\ received' = [received EXCEPT ![s] = Append(@, Head(queue[s]))]
  /\ queue' = [queue EXCEPT ![s] = Tail(@)]
  /\ UNCHANGED <<table, counter, id, busy, home, removed, capacity, parked, closed, valueVars,
                 misused, panicked>>

\* A receiver blocks on an empty channel.
Park(s) ==
  /\ id[s] # 0
  /\ queue[s] = <<>>
  /\ s \notin closed \cup parked
  /\ parked' = parked \cup {s}
  /\ UNCHANGED <<table, counter, id, busy, home, removed, capacity, queue, closed, received,
                 valueVars, misused, panicked>>

-----------------------------------------------------------------------------
Hub(h) ==
  \/ \E t \in Topics, s \in Subscribers, n \in 0 .. MaxQueue : SubscribeLoad(h, t, s, n)
  \/ SubscribeStore(h)
  \/ SubscribeRegister(h)
  \/ \E t \in Topics, subs \in SUBSET Subscribers : Unsubscribe(h, t, subs)
  \/ \E t \in Topics, n \in {All} \cup 1 .. Cardinality(Subscribers) - 1 : PublishStart(h, t, n)
  \/ \E s \in Subscribers : PublishTo(h, s) \/ PublishPanics(h, s)
  \/ PublishReturns(h)

User(s) == CloseSubscriber(s) \/ Receive(s) \/ Park(s)

Next ==
  /\ ~panicked
  /\ (\E h \in Hubs : Hub(h)) \/ (\E s \in Subscribers : User(s))

Spec == Init /\ [][Next]_vars

\* The goroutine that holds the mutex goes on.  Receivers need not.
Fairness ==
  \A h \in Hubs :
    WF_vars(~panicked /\ (\/ SubscribeStore(h) \/ SubscribeRegister(h) \/ PublishReturns(h)
                          \/ \E s \in Subscribers : PublishTo(h, s) \/ PublishPanics(h, s)))

FairSpec == Spec /\ Fairness

-----------------------------------------------------------------------------
Subscribing == [op : {"store", "register"}, sub : Subscribers, seen : Nat]
Publishing  == [op : {"publish"}, value : Nat, left : SUBSET Subscribers, n : Int, nn : Int]

TypeOK ==
  /\ table \in [Hubs -> [Topics -> SUBSET Subscribers]]
  /\ counter \in Nat
  /\ id \in [Subscribers -> Nat]
  /\ busy \in [Hubs -> {Free} \cup Subscribing \cup Publishing]
  /\ home \in [Subscribers -> Places \cup {Nowhere}]
  /\ removed \in SUBSET Subscribers
  /\ capacity \in [Subscribers -> 0 .. MaxQueue]
  /\ queue \in [Subscribers -> Seq(Nat)]
  /\ parked \in SUBSET Subscribers
  /\ closed \in SUBSET Subscribers
  /\ received \in [Subscribers -> Seq(Nat)]
  /\ addressed \in Seq(SUBSET Subscribers)
  /\ misused \in BOOLEAN
  /\ panicked \in BOOLEAN

\* What reached the channel of s, in the order it arrived.
Arrived(s) == received[s] \o queue[s]

\* A subscriber gets values in the order they were published, each at most once, and
\* only values published to its topic while the hub listed it (lines 83-97).  A call of
\* PublishN that has returned offered its value to n subscribers, or to all when there
\* are fewer, and says so; and each of them got the value or had no room: a slow
\* subscriber does not cost another one its value.
OrderedDelivery ==
  /\ \A s \in Subscribers :
       /\ \A i, j \in DOMAIN Arrived(s) : i < j => Arrived(s)[i] < Arrived(s)[j]
       /\ \A v \in ToSet(Arrived(s)) : s \in addressed[v]
  /\ \A v \in Published : answers[v] # Pending =>
       /\ answers[v] = Cardinality(offered[v])
       /\ budget[v] = All \/ budget[v] >= Cardinality(addressed[v]) => offered[v] = addressed[v]
       /\ budget[v] # All => Cardinality(offered[v]) <= budget[v]
       /\ \A s \in offered[v] : s \in dropped[v] <=> v \notin ToSet(Arrived(s))

\* Nothing arrives after Unsubscribe has returned, not even from a Publish that was
\* under way: the mutex (lines 50 and 83) makes Unsubscribe wait for it.
NothingAfterUnsubscribe ==
  [][\A s \in removed : Arrived(s)' = Arrived(s)]_vars

\* A subscriber that nobody unsubscribed stays in its hub's map: no other Subscribe
\* takes its place under the same id (ThreadSafe, lines 25-27, says that concurrent
\* use is allowed).
StaysRegistered ==
  \A s \in Live : s \in At(s)

\* Publish and close panic only if the user closed a channel twice or before taking
\* the subscriber out of the hub: Unsubscribe of the hub, then of the subscriber, is
\* always safe, also against a Publish in progress.
PanicNeedsMisuse == panicked => misused

\* Publish never waits for a receiver.
PublishEnds ==
  \A h \in Hubs : busy[h].op = "publish" ~> busy[h].op # "publish" \/ panicked
===============================================================================
