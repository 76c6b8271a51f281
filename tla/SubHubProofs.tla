------------------------------ MODULE SubHubProofs ------------------------------
(***************************************************************************)
(* What the mutex of a SubHub gives its users, for every number of hubs,   *)
(* topics, subscribers and values: a subscriber that was taken out of the  *)
(* hub gets nothing more, a panic needs a misuse of its channel, and the   *)
(* values of a topic are delivered in the order of their calls.  That a    *)
(* subscriber stays in its hub's map is proved of a single hub: the        *)
(* counter of the ids is shared by all hubs and protected by none.         *)
(***************************************************************************)
EXTENDS SubHub, FiniteSetTheorems, TLAPS

\* A place is not Nowhere.
LEMMA PlacesAreSomewhere == \A p \in Places : p # Nowhere
BY DEF Places, Nowhere

\* The holder of the mutex is doing one of four things.
LEMMA BusyCases ==
  ASSUME TypeOK, NEW h \in Hubs
  PROVE  /\ busy[h] = Free \/ busy[h] \in Subscribing \/ busy[h] \in Publishing
         /\ busy[h].op \in {"store", "register"} => busy[h] \in Subscribing
         /\ busy[h].op = "publish" => busy[h] \in Publishing
BY DEF TypeOK, Free, Subscribing, Publishing

\* The step of the holder of one mutex changes what it does and no other.
LEMMA BusyMoves ==
  ASSUME TypeOK, NEW h \in Hubs, NEW b \in {Free} \cup Subscribing \cup Publishing,
         busy' = [busy EXCEPT ![h] = b]
  PROVE  /\ busy' \in [Hubs -> {Free} \cup Subscribing \cup Publishing]
         /\ busy'[h] = b
         /\ \A k \in Hubs \ {h} : busy'[k] = busy[k]
BY DEF TypeOK

\* The next send of a PublishN takes one subscriber off those before it.
LEMMA PublishMoves ==
  ASSUME TypeOK, NEW h \in Hubs, NEW s \in Subscribers, PublishTo(h, s)
  PROVE  /\ busy[h] \in Publishing
         /\ busy' \in [Hubs -> {Free} \cup Subscribing \cup Publishing]
         /\ busy'[h].op = "publish" /\ busy'[h].left \subseteq busy[h].left
         /\ \A k \in Hubs \ {h} : busy'[k] = busy[k]
<1> DEFINE a == [busy[h] EXCEPT !.nn = @ - 1]
           b == [a EXCEPT !.left = @ \ {s}]
<1>1. busy[h] \in Publishing
  BY BusyCases DEF PublishTo
<1>2. a \in Publishing /\ a.left = busy[h].left
  BY <1>1 DEF Publishing
<1>3. busy' = [busy EXCEPT ![h] = b]
  BY DEF PublishTo, TypeOK
<1> HIDE DEF a
<1>4. b \in Publishing /\ b.op = "publish" /\ b.left \subseteq busy[h].left
  BY <1>2 DEF Publishing
<1> HIDE DEF b
<1> QED
  BY <1>1, <1>3, <1>4, BusyMoves

\* Every variable of SubHub keeps its type: the map, the ids and the channels of
\* src/threads/sub.go.
THEOREM HubTypeCorrect == Spec => []TypeOK
<1>1. Init => TypeOK
  <2> SUFFICES ASSUME Init PROVE TypeOK
    OBVIOUS
  <2>1. <<>> \in Seq(Nat) /\ <<>> \in Seq(SUBSET Subscribers) /\ 0 \in 0 .. MaxQueue
    BY HubAssumption
  <2>2. /\ queue \in [Subscribers -> Seq(Nat)]
        /\ received \in [Subscribers -> Seq(Nat)]
        /\ addressed \in Seq(SUBSET Subscribers)
        /\ capacity \in [Subscribers -> 0 .. MaxQueue]
    BY <2>1 DEF Init
  <2>3. /\ table \in [Hubs -> [Topics -> SUBSET Subscribers]]
        /\ busy \in [Hubs -> {Free} \cup Subscribing \cup Publishing]
        /\ home \in [Subscribers -> Places \cup {Nowhere}]
        /\ id \in [Subscribers -> Nat]
    BY DEF Init
  <2> QED BY <2>2, <2>3 DEF Init, TypeOK
<1>2. TypeOK /\ [Next]_vars => TypeOK'
  <2> SUFFICES ASSUME TypeOK, [Next]_vars PROVE TypeOK'
    OBVIOUS
  <2> USE DEF channelVars, valueVars
  <2>1. ASSUME NEW h \in Hubs, NEW t \in Topics, NEW s \in Subscribers, NEW n \in 0 .. MaxQueue,
               SubscribeLoad(h, t, s, n)
        PROVE  TypeOK'
    <3>1. [op |-> "store", sub |-> s, seen |-> counter] \in Subscribing
      BY DEF TypeOK, Subscribing
    <3> QED BY <2>1, <3>1 DEF SubscribeLoad, TypeOK, Places
  <2>2. ASSUME NEW h \in Hubs, SubscribeStore(h) PROVE TypeOK'
    <3>1. busy[h] \in Subscribing
      BY <2>2, BusyCases DEF SubscribeStore
    <3>2. [busy[h] EXCEPT !.op = "register"] \in Subscribing /\ busy[h].seen + 1 \in Nat
      BY <3>1 DEF Subscribing
    <3>3. busy' = [busy EXCEPT ![h] = [busy[h] EXCEPT !.op = "register"]]
      BY <2>2 DEF SubscribeStore
    <3>4. busy' \in [Hubs -> {Free} \cup Subscribing \cup Publishing]
      BY <3>2, <3>3, BusyMoves
    <3> QED BY <2>2, <3>2, <3>4 DEF SubscribeStore, TypeOK
  <2>3. ASSUME NEW h \in Hubs, SubscribeRegister(h) PROVE TypeOK'
    <3>1. busy[h].sub \in Subscribers
      BY <2>3, BusyCases DEF SubscribeRegister, Subscribing
    <3>2. table' \in [Hubs -> [Topics -> SUBSET Subscribers]]
      <4> DEFINE t   == home[busy[h].sub][2]
                 new == {u \in table[h][t] : id[u] # counter} \cup {busy[h].sub}
                 row == [table[h] EXCEPT ![t] = new]
      <4>1. table' = [table EXCEPT ![h] = row]
        BY <2>3 DEF SubscribeRegister
      <4>2. t \in Topics => new \in SUBSET Subscribers
        BY <3>1 DEF TypeOK
      <4> HIDE DEF t, new
      <4>3. row \in [Topics -> SUBSET Subscribers]
        <5>1. table[h] \in [Topics -> SUBSET Subscribers]
          BY DEF TypeOK
        <5>2. row = [v \in Topics |-> IF v = t THEN new ELSE table[h][v]]
          BY <5>1
        <5> QED BY <4>2, <5>1, <5>2
      <4> HIDE DEF row
      <4> QED BY <4>1, <4>3 DEF TypeOK
    <3>3. id' \in [Subscribers -> Nat]
      BY <2>3, <3>1 DEF SubscribeRegister, TypeOK
    <3>4. busy' \in [Hubs -> {Free} \cup Subscribing \cup Publishing]
      BY <2>3, BusyMoves DEF SubscribeRegister
    <3> QED BY <2>3, <3>2, <3>3, <3>4 DEF SubscribeRegister, TypeOK
  <2>4. ASSUME NEW h \in Hubs, NEW t \in Topics, NEW subs \in SUBSET Subscribers,
               Unsubscribe(h, t, subs)
        PROVE  TypeOK'
    <3>1. table' \in [Hubs -> [Topics -> SUBSET Subscribers]]
      BY <2>4 DEF Unsubscribe, TypeOK
    <3>2. removed' \in SUBSET Subscribers
      BY <2>4 DEF Unsubscribe, TypeOK
    <3> QED BY <2>4, <3>1, <3>2 DEF Unsubscribe, TypeOK
  <2>5. ASSUME NEW h \in Hubs, NEW t \in Topics,
               NEW n \in {All} \cup 1 .. Cardinality(Subscribers) - 1, PublishStart(h, t, n)
        PROVE  TypeOK'
    <3> DEFINE m == IF n = All \/ n > Cardinality(table[h][t]) THEN Cardinality(table[h][t]) ELSE n
               b == [op |-> "publish", value |-> Len(addressed) + 1,
                     left |-> table[h][t], n |-> m, nn |-> m]
    <3>1. table[h][t] \in SUBSET Subscribers /\ Len(addressed) \in Nat
      BY DEF TypeOK
    <3>2. Cardinality(table[h][t]) \in Nat /\ Cardinality(Subscribers) \in Nat
      BY <3>1, HubAssumption, FS_Subset, FS_CardinalityType
    <3>3. m \in Int
      BY <3>2 DEF All
    <3> HIDE DEF m
    <3>4. b \in Publishing
      BY <3>1, <3>3 DEF Publishing
    <3>5. busy' = [busy EXCEPT ![h] = b]
      BY <2>5 DEF PublishStart, m
    <3> HIDE DEF b
    <3>6. busy' \in [Hubs -> {Free} \cup Subscribing \cup Publishing]
      BY <3>4, <3>5, BusyMoves
    <3>7. addressed' \in Seq(SUBSET Subscribers)
      BY <2>5, <3>1 DEF PublishStart, TypeOK
    <3> QED BY <2>5, <3>6, <3>7 DEF PublishStart, TypeOK
  <2>6. ASSUME NEW h \in Hubs, NEW s \in Subscribers, PublishTo(h, s) PROVE TypeOK'
    <3>1. busy[h].value \in Nat
      BY <2>6, PublishMoves DEF Publishing
    <3>2. busy' \in [Hubs -> {Free} \cup Subscribing \cup Publishing]
      BY <2>6, PublishMoves
    <3>3. /\ parked' \in SUBSET Subscribers
          /\ queue' \in [Subscribers -> Seq(Nat)]
          /\ received' \in [Subscribers -> Seq(Nat)]
      <4> DEFINE v == busy[h].value
      <4>1. \A q \in Seq(Nat) : Append(q, v) \in Seq(Nat)
        BY <3>1
      <4>2. Handed(s, v) \/ Buffered(s, v) \/ Discarded(s, v)
        BY <2>6 DEF PublishTo
      <4> HIDE DEF v
      <4>3. CASE Handed(s, v)
        BY <4>1, <4>3 DEF Handed, TypeOK
      <4>4. CASE Buffered(s, v)
        BY <4>1, <4>4 DEF Buffered, TypeOK
      <4>5. CASE Discarded(s, v)
        BY <4>5 DEF Discarded, TypeOK
      <4> QED BY <4>2, <4>3, <4>4, <4>5
    <3> QED BY <2>6, <3>2, <3>3 DEF PublishTo, TypeOK
  <2>7. ASSUME NEW h \in Hubs, NEW s \in Subscribers, PublishPanics(h, s) PROVE TypeOK'
    BY <2>7 DEF PublishPanics, TypeOK
  <2>8. ASSUME NEW h \in Hubs, PublishReturns(h) PROVE TypeOK'
    BY <2>8 DEF PublishReturns, TypeOK
  <2>9. ASSUME NEW s \in Subscribers, CloseSubscriber(s) PROVE TypeOK'
    <3>1. misused' \in BOOLEAN
      BY <2>9, Zenon DEF CloseSubscriber
    <3>2. closed' \in SUBSET Subscribers /\ parked' \in SUBSET Subscribers
      BY <2>9 DEF CloseSubscriber, TypeOK
    <3>3. panicked' \in BOOLEAN
      BY <2>9, Zenon DEF CloseSubscriber, TypeOK
    <3> QED BY <2>9, <3>1, <3>2, <3>3 DEF CloseSubscriber, TypeOK
  <2>10. ASSUME NEW s \in Subscribers, Receive(s) PROVE TypeOK'
    <3>1. Head(queue[s]) \in Nat /\ Tail(queue[s]) \in Seq(Nat) /\ received[s] \in Seq(Nat)
      BY <2>10 DEF Receive, TypeOK
    <3> QED BY <2>10, <3>1 DEF Receive, TypeOK
  <2>11. ASSUME NEW s \in Subscribers, Park(s) PROVE TypeOK'
    BY <2>11 DEF Park, TypeOK
  <2>12. CASE UNCHANGED vars
    BY <2>12 DEF vars, TypeOK
  <2> QED
    BY <2>1, <2>2, <2>3, <2>4, <2>5, <2>6, <2>7, <2>8, <2>9, <2>10, <2>11, <2>12
       DEF Next, Hub, User
<1> QED
  BY <1>1, <1>2, PTL DEF Spec

-----------------------------------------------------------------------------
\* A hub lists only subscribers that have an id, under the topic they were made for.
ListInv ==
  /\ \A h \in Hubs, t \in Topics : \A s \in table[h][t] : home[s] = <<h, t>> /\ id[s] # 0
  /\ \A s \in Subscribers : id[s] # 0 => home[s] \in Places

\* A Subscribe under way owns its subscriber, which has no id yet.
SubscribeInv ==
  \A h \in Hubs :
    /\ busy[h].op \in {"store", "register"} =>
         id[busy[h].sub] = 0 /\ home[busy[h].sub] \in {h} \X Topics
    /\ busy[h].op = "register" => counter > 0

\* A PublishN under way has before it only subscribers that its hub still lists.
PublishInv ==
  \A h \in Hubs : busy[h].op = "publish" =>
    \A s \in busy[h].left : \E t \in Topics : s \in table[h][t]

\* Who was taken out of a hub stays out, and a closed channel is out of its hub
\* unless its user has misused it.
RemovedInv ==
  \A s \in removed : id[s] # 0 /\ \A h \in Hubs, t \in Topics : s \notin table[h][t]

CloseInv ==
  /\ \A s \in closed : id[s] # 0 /\ (misused \/ \A h \in Hubs, t \in Topics : s \notin table[h][t])
  /\ panicked => misused

HubInv == ListInv /\ SubscribeInv /\ PublishInv /\ RemovedInv /\ CloseInv

\* A listed subscriber is listed At its home.
LEMMA ListedAtHome ==
  ASSUME ListInv, NEW h \in Hubs, NEW t \in Topics, NEW s \in table[h][t]
  PROVE  s \in At(s)
BY DEF ListInv, At

\* A step that changes only the channels' contents and the record of the values.
LEMMA HubKept ==
  ASSUME HubInv, UNCHANGED <<table, counter, id, busy, home, removed, closed, misused, panicked>>
  PROVE  HubInv'
BY DEF HubInv, ListInv, SubscribeInv, PublishInv, RemovedInv, CloseInv

\* Every step keeps the hub's map, its mutex and its closed channels in agreement.
LEMMA HubStep ==
  ASSUME TypeOK, HubInv, [Next]_vars
  PROVE  HubInv'
<1> USE DEF channelVars, valueVars
<1>1. ASSUME NEW h \in Hubs, NEW t \in Topics, NEW s \in Subscribers, NEW n \in 0 .. MaxQueue,
             SubscribeLoad(h, t, s, n)
      PROVE  HubInv'
  <2>1. /\ busy[h] = Free /\ home[s] = Nowhere
        /\ home'[s] = <<h, t>> /\ \A u \in Subscribers \ {s} : home'[u] = home[u]
        /\ UNCHANGED <<table, counter, id, removed, closed, misused, panicked>>
    BY <1>1 DEF SubscribeLoad, TypeOK
  <2>2. id[s] = 0 /\ \A k \in Hubs, v \in Topics : s \notin table[k][v]
    BY <2>1, PlacesAreSomewhere DEF HubInv, ListInv, Places
  <2>3. /\ busy'[h].op = "store" /\ busy'[h].sub = s
        /\ \A k \in Hubs \ {h} : busy'[k] = busy[k]
    BY <1>1 DEF SubscribeLoad, TypeOK
  <2>4. ListInv'
    <3>1. \A k \in Hubs, v \in Topics : table[k][v] \subseteq Subscribers \ {s}
      BY <2>2 DEF TypeOK
    <3> QED BY <2>1, <2>2, <3>1 DEF HubInv, ListInv
  <2>5. SubscribeInv'
    <3>1. ASSUME NEW k \in Hubs \ {h}, busy[k].op \in {"store", "register"}
          PROVE  busy[k].sub \in Subscribers \ {s}
      <4>1. busy[k].sub \in Subscribers
        BY <3>1, BusyCases DEF Subscribing
      <4>2. home[busy[k].sub] \in Places
        BY <3>1 DEF HubInv, SubscribeInv, Places
      <4> QED BY <2>1, <4>1, <4>2, PlacesAreSomewhere
    <3>2. <<h, t>> \in {h} \X Topics /\ "store" # "register"
      OBVIOUS
    <3> QED BY <2>1, <2>2, <2>3, <3>1, <3>2 DEF HubInv, SubscribeInv
  <2>6. PublishInv'
    BY <2>1, <2>3 DEF HubInv, PublishInv
  <2> QED BY <2>1, <2>4, <2>5, <2>6 DEF HubInv, RemovedInv, CloseInv
<1>2. ASSUME NEW h \in Hubs, SubscribeStore(h) PROVE HubInv'
  <2>1. busy[h].op = "store" /\ busy[h] \in Subscribing
    BY <1>2, BusyCases DEF SubscribeStore
  <2>2. counter' > 0
    BY <1>2, <2>1 DEF SubscribeStore, Subscribing
  <2>3. /\ busy'[h].op = "register" /\ busy'[h].sub = busy[h].sub
        /\ \A k \in Hubs \ {h} : busy'[k] = busy[k]
    <3> DEFINE b == [busy[h] EXCEPT !.op = "register"]
    <3>1. b \in Subscribing /\ b.op = "register" /\ b.sub = busy[h].sub
      BY <2>1 DEF Subscribing
    <3>2. busy' = [busy EXCEPT ![h] = b]
      BY <1>2 DEF SubscribeStore
    <3> HIDE DEF b
    <3> QED BY <3>1, <3>2, BusyMoves
  <2>4. UNCHANGED <<table, id, home, removed, closed, misused, panicked>>
    BY <1>2 DEF SubscribeStore
  <2>5. SubscribeInv'
    BY <2>1, <2>2, <2>3, <2>4 DEF HubInv, SubscribeInv
  <2>6. PublishInv'
    BY <2>3, <2>4 DEF HubInv, PublishInv
  <2> QED BY <2>4, <2>5, <2>6 DEF HubInv, ListInv, RemovedInv, CloseInv
<1>3. ASSUME NEW h \in Hubs, SubscribeRegister(h) PROVE HubInv'
  <2> DEFINE s == busy[h].sub
             t == home[s][2]
  <2>1. /\ busy[h].op = "register" /\ s \in Subscribers
        /\ id[s] = 0 /\ t \in Topics /\ home[s] = <<h, t>> /\ counter > 0
    BY <1>3, BusyCases DEF SubscribeRegister, Subscribing, HubInv, SubscribeInv
  <2>2. /\ id'[s] = counter /\ \A u \in Subscribers \ {s} : id'[u] = id[u]
        /\ UNCHANGED <<counter, home, removed, closed, misused, panicked>>
    BY <1>3, <2>1 DEF SubscribeRegister, TypeOK
  <2>3. busy'[h] = Free /\ \A k \in Hubs \ {h} : busy'[k] = busy[k]
    BY <1>3 DEF SubscribeRegister, TypeOK
  <2>4. /\ table'[h][t] \subseteq table[h][t] \cup {s}
        /\ \A k \in Hubs, v \in Topics : ~(k = h /\ v = t) => table'[k][v] = table[k][v]
    BY <1>3, <2>1 DEF SubscribeRegister, TypeOK
  <2> HIDE DEF s, t
  <2>5. \A k \in Hubs, v \in Topics : table[k][v] \subseteq Subscribers \ {s}
    BY <2>1 DEF TypeOK, HubInv, ListInv
  <2>6. ListInv'
    <3>1. ASSUME NEW k \in Hubs, NEW v \in Topics, NEW u \in table'[k][v]
          PROVE  home'[u] = <<k, v>> /\ id'[u] # 0
      <4>1. CASE u = s
        <5>1. k = h /\ v = t
          BY <2>4, <2>5, <4>1
        <5> QED BY <2>1, <2>2, <4>1, <5>1
      <4>2. CASE u # s
        <5>1. u \in table[k][v] /\ u \in Subscribers \ {s}
          BY <2>4, <2>5, <4>2
        <5> QED BY <2>2, <5>1 DEF HubInv, ListInv
      <4> QED BY <4>1, <4>2
    <3>2. \A u \in Subscribers : id'[u] # 0 => home'[u] \in Places
      BY <2>1, <2>2 DEF HubInv, ListInv, Places
    <3> QED BY <3>1, <3>2 DEF ListInv
  <2>7. SubscribeInv'
    <3>1. ASSUME NEW k \in Hubs \ {h}, busy[k].op \in {"store", "register"}
          PROVE  busy[k].sub \in Subscribers \ {s}
      <4>1. busy[k].sub \in Subscribers
        BY <3>1, BusyCases DEF Subscribing
      <4> QED BY <2>1, <3>1, <4>1 DEF HubInv, SubscribeInv
    <3>2. Free.op = "free"
      BY DEF Free
    <3> QED BY <2>2, <2>3, <3>1, <3>2 DEF HubInv, SubscribeInv
  <2>8. PublishInv'
    <3>1. Free.op = "free"
      BY DEF Free
    <3> QED BY <2>3, <2>4, <3>1 DEF HubInv, PublishInv
  <2>9. RemovedInv' /\ CloseInv'
    <3>1. removed \subseteq Subscribers \ {s} /\ closed \subseteq Subscribers \ {s}
      BY <2>1 DEF TypeOK, HubInv, RemovedInv, CloseInv
    <3> QED BY <2>2, <2>4, <3>1 DEF HubInv, RemovedInv, CloseInv
  <2> QED BY <2>6, <2>7, <2>8, <2>9 DEF HubInv
<1>4. ASSUME NEW h \in Hubs, NEW t \in Topics, NEW subs \in SUBSET Subscribers,
             Unsubscribe(h, t, subs)
      PROVE  HubInv'
  <2> DEFINE out  == IF subs = {} THEN table[h][t] ELSE {s \in subs : home[s] = <<h, t>>}
  <2>1. /\ busy[h] = Free /\ \A s \in subs : id[s] # 0
        /\ removed' = removed \cup out
        /\ UNCHANGED <<counter, id, busy, home, closed, misused, panicked>>
    BY <1>4 DEF Unsubscribe
  <2>2. /\ table'[h][t] \subseteq table[h][t]
        /\ table'[h][t] \cap out = {}
        /\ \A k \in Hubs, v \in Topics : ~(k = h /\ v = t) => table'[k][v] = table[k][v]
    <3>1. table'[h][t] = IF subs = {} THEN {}
                         ELSE {u \in table[h][t] : id[u] \notin {id[s] : s \in subs}}
      BY <1>4 DEF Unsubscribe, TypeOK
    <3>2. \A k \in Hubs, v \in Topics : ~(k = h /\ v = t) => table'[k][v] = table[k][v]
      BY <1>4 DEF Unsubscribe, TypeOK
    <3> QED BY <3>1, <3>2
  <2>3. \A s \in out : id[s] # 0 /\ home[s] = <<h, t>>
    BY <2>1 DEF HubInv, ListInv
  <2> HIDE DEF out
  <2>4. \A k \in Hubs, v \in Topics : table'[k][v] \subseteq table[k][v]
    BY <2>2
  <2>5. ListInv' /\ SubscribeInv' /\ CloseInv'
    BY <2>1, <2>4 DEF HubInv, ListInv, SubscribeInv, CloseInv
  <2>6. PublishInv'
    <3>1. Free.op = "free"
      BY DEF Free
    <3>2. \A k \in Hubs \ {h}, v \in Topics : table'[k][v] = table[k][v]
      BY <2>2
    <3> QED BY <2>1, <3>1, <3>2 DEF HubInv, PublishInv
  <2>7. RemovedInv'
    <3>1. \A s \in out, k \in Hubs, v \in Topics : s \notin table'[k][v]
      BY <2>2, <2>3 DEF HubInv, ListInv
    <3> QED BY <2>1, <2>3, <2>4, <3>1 DEF HubInv, RemovedInv
  <2> QED BY <2>5, <2>6, <2>7 DEF HubInv
<1>5. ASSUME NEW h \in Hubs, NEW t \in Topics,
             NEW n \in {All} \cup 1 .. Cardinality(Subscribers) - 1, PublishStart(h, t, n)
      PROVE  HubInv'
  <2>1. UNCHANGED <<table, counter, id, home, removed, closed, misused, panicked>>
    BY <1>5 DEF PublishStart
  <2>2. /\ busy'[h].op = "publish" /\ busy'[h].left = table[h][t]
        /\ \A k \in Hubs \ {h} : busy'[k] = busy[k]
    BY <1>5 DEF PublishStart, TypeOK
  <2>3. SubscribeInv' /\ PublishInv'
    BY <2>1, <2>2 DEF HubInv, SubscribeInv, PublishInv
  <2> QED BY <2>1, <2>3 DEF HubInv, ListInv, RemovedInv, CloseInv
<1>6. ASSUME NEW h \in Hubs, NEW s \in Subscribers, PublishTo(h, s) PROVE HubInv'
  <2>1. UNCHANGED <<table, counter, id, home, removed, closed, misused, panicked>>
    BY <1>6 DEF PublishTo
  <2>2. /\ busy'[h].op = "publish" /\ busy'[h].left \subseteq busy[h].left
        /\ \A k \in Hubs \ {h} : busy'[k] = busy[k]
    BY <1>6, PublishMoves
  <2>3. busy[h].op = "publish"
    BY <1>6 DEF PublishTo
  <2>4. SubscribeInv'
    BY <2>1, <2>2 DEF HubInv, SubscribeInv
  <2>5. PublishInv'
    BY <2>1, <2>2, <2>3 DEF HubInv, PublishInv
  <2> QED BY <2>1, <2>4, <2>5 DEF HubInv, ListInv, RemovedInv, CloseInv
<1>7. ASSUME NEW h \in Hubs, NEW s \in Subscribers, PublishPanics(h, s) PROVE HubInv'
  <2>1. PICK t \in Topics : s \in table[h][t] /\ s \in closed
    BY <1>7 DEF PublishPanics, HubInv, PublishInv
  <2>2. misused
    BY <2>1 DEF HubInv, CloseInv
  <2>3. UNCHANGED <<table, counter, id, busy, home, removed, closed, misused>>
    BY <1>7 DEF PublishPanics
  <2> QED
    BY <2>2, <2>3 DEF HubInv, ListInv, SubscribeInv, PublishInv, RemovedInv, CloseInv
<1>8. ASSUME NEW h \in Hubs, PublishReturns(h) PROVE HubInv'
  <2>1. /\ UNCHANGED <<table, counter, id, home, removed, closed, misused, panicked>>
        /\ busy'[h] = Free /\ \A k \in Hubs \ {h} : busy'[k] = busy[k]
    BY <1>8 DEF PublishReturns, TypeOK
  <2>2. Free.op = "free"
    BY DEF Free
  <2>3. SubscribeInv' /\ PublishInv'
    BY <2>1, <2>2 DEF HubInv, SubscribeInv, PublishInv
  <2> QED BY <2>1, <2>3 DEF HubInv, ListInv, RemovedInv, CloseInv
<1>9. ASSUME NEW s \in Subscribers, CloseSubscriber(s) PROVE HubInv'
  <2>1. /\ id[s] # 0
        /\ UNCHANGED <<table, counter, id, busy, home, removed>>
        /\ closed' \subseteq closed \cup {s}
        /\ misused => misused'
        /\ s \in At(s) => misused'
        /\ panicked' => panicked \/ misused'
    BY <1>9, Zenon DEF CloseSubscriber
  <2>2. misused' \/ \A h \in Hubs, t \in Topics : s \notin table[h][t]
    BY <2>1, ListedAtHome DEF HubInv
  <2>3. CloseInv'
    BY <2>1, <2>2 DEF HubInv, CloseInv
  <2> QED BY <2>1, <2>3 DEF HubInv, ListInv, SubscribeInv, PublishInv, RemovedInv
<1>10. ASSUME NEW s \in Subscribers, Receive(s) \/ Park(s) PROVE HubInv'
  BY <1>10, HubKept DEF Receive, Park
<1>11. CASE UNCHANGED vars
  BY <1>11, HubKept DEF vars
<1> QED
  BY <1>1, <1>2, <1>3, <1>4, <1>5, <1>6, <1>7, <1>8, <1>9, <1>10, <1>11 DEF Next, Hub, User

\* The hub's map, its mutex and the closed channels agree throughout.
THEOREM HubCorrect == Spec => []HubInv
<1>1. Init => HubInv
  BY DEF Init, HubInv, ListInv, SubscribeInv, PublishInv, RemovedInv, CloseInv, Free
<1>2. TypeOK /\ HubInv /\ [Next]_vars => HubInv'
  BY HubStep
<1> QED
  BY <1>1, <1>2, HubTypeCorrect, PTL DEF Spec

\* A panic of Publish or of close is its user's doing: a channel was closed twice, or
\* before its subscriber was taken out of the hub (lines 83 to 97).
THEOREM PanicsNeedMisuse == Spec => []PanicNeedsMisuse
<1>1. HubInv => PanicNeedsMisuse
  BY DEF HubInv, CloseInv, PanicNeedsMisuse
<1> QED
  BY <1>1, HubCorrect, PTL

\* A receiver takes a value that had reached the channel before.
LEMMA ReceiveKeepsArrived ==
  ASSUME TypeOK, NEW s \in Subscribers, NEW u \in Subscribers, Receive(u)
  PROVE  Arrived(s)' = Arrived(s)
<1>1. CASE u # s
  <2>1. queue'[s] = queue[s] /\ received'[s] = received[s]
    BY <1>1 DEF Receive, TypeOK
  <2> QED BY <2>1 DEF Arrived
<1>2. CASE u = s
  <2>1. /\ queue[s] \in Seq(Nat) /\ received[s] \in Seq(Nat) /\ queue[s] # <<>>
        /\ queue'[s] = Tail(queue[s]) /\ received'[s] = Append(received[s], Head(queue[s]))
    BY <1>2 DEF Receive, TypeOK
  <2>2. \A p, q \in Seq(Nat) : q # <<>> => Append(p, Head(q)) \o Tail(q) = p \o q
    OBVIOUS
  <2> QED BY <2>1, <2>2 DEF Arrived
<1> QED
  BY <1>1, <1>2

\* Nothing arrives at a subscriber after Unsubscribe has taken it out of the hub: a
\* Publish under way has only listed subscribers before it (lines 50 and 83).
THEOREM RemovedGetNothing == Spec => NothingAfterUnsubscribe
<1>1. TypeOK /\ HubInv /\ [Next]_vars => [\A s \in removed : Arrived(s)' = Arrived(s)]_vars
  <2> SUFFICES ASSUME TypeOK, HubInv, [Next]_vars, NEW s \in removed
               PROVE  Arrived(s)' = Arrived(s)
    OBVIOUS
  <2> USE DEF channelVars, valueVars
  <2>1. s \in Subscribers
    BY DEF TypeOK
  <2>2. UNCHANGED <<queue, received>> => Arrived(s)' = Arrived(s)
    BY DEF Arrived
  <2>3. ASSUME NEW h \in Hubs, NEW u \in Subscribers, PublishTo(h, u)
        PROVE  Arrived(s)' = Arrived(s)
    <3>1. u # s
      BY <2>3 DEF PublishTo, HubInv, PublishInv, RemovedInv
    <3>2. queue'[s] = queue[s] /\ received'[s] = received[s]
      BY <2>1, <2>3, <3>1 DEF PublishTo, Handed, Buffered, Discarded, TypeOK
    <3> QED BY <3>2 DEF Arrived
  <2>4. ASSUME NEW u \in Subscribers, Receive(u) PROVE Arrived(s)' = Arrived(s)
    BY <2>1, <2>4, ReceiveKeepsArrived
  <2>5. ASSUME NEW h \in Hubs, Hub(h), \A u \in Subscribers : ~PublishTo(h, u)
        PROVE  Arrived(s)' = Arrived(s)
    BY <2>2, <2>5 DEF Hub, SubscribeLoad, SubscribeStore, SubscribeRegister, Unsubscribe,
                      PublishStart, PublishPanics, PublishReturns
  <2>6. ASSUME NEW u \in Subscribers, CloseSubscriber(u) \/ Park(u)
        PROVE  Arrived(s)' = Arrived(s)
    BY <2>2, <2>6 DEF CloseSubscriber, Park
  <2>7. CASE UNCHANGED vars
    BY <2>2, <2>7 DEF vars
  <2> QED BY <2>3, <2>4, <2>5, <2>6, <2>7 DEF Next, User
<1> QED
  BY <1>1, HubTypeCorrect, HubCorrect, PTL DEF Spec, NothingAfterUnsubscribe

-----------------------------------------------------------------------------
(***************************************************************************)
(* The order of delivery.  A call of PublishN hands its value to one       *)
(* subscriber after another; what the receivers take, and the calls of     *)
(* other hubs, come between two of them.                                   *)
(***************************************************************************)

Increasing(q) == \A i, j \in DOMAIN q : i < j => q[i] < q[j]

\* The record has a line for every value.
ValuesInv ==
  /\ budget \in Seq({All} \cup Nat) /\ Len(budget) = Len(addressed)
  /\ offered \in Seq(SUBSET Subscribers) /\ Len(offered) = Len(addressed)
  /\ dropped \in Seq(SUBSET Subscribers) /\ Len(dropped) = Len(addressed)
  /\ answers \in Seq(Int) /\ Len(answers) = Len(addressed)

\* What reached a channel is in the order of the calls; and a subscriber to whom a
\* value was offered has it, unless it was discarded.
ArrivedInv ==
  /\ \A s \in parked : queue[s] = <<>>
  /\ \A s \in Subscribers :
       /\ Increasing(Arrived(s))
       /\ \A v \in ToSet(Arrived(s)) : v \in Published /\ s \in offered[v] /\ s \notin dropped[v]
  /\ \A v \in Published :
       /\ dropped[v] \subseteq offered[v] /\ offered[v] \subseteq addressed[v]
       /\ \A s \in offered[v] : s \in dropped[v] \/ v \in ToSet(Arrived(s))

Limit(v) == IF budget[v] = All \/ budget[v] > Cardinality(addressed[v])
              THEN Cardinality(addressed[v]) ELSE budget[v]

\* A call of PublishN under way has a value of its own, later than all that its next
\* subscribers have; it has counted those it has passed.
Offering(h) ==
  LET v == busy[h].value
  IN  /\ v \in Published
      /\ answers[v] = Pending
      /\ busy[h].left \subseteq addressed[v]
      /\ offered[v] = addressed[v] \ busy[h].left
      /\ busy[h].n = Limit(v)
      /\ busy[h].nn >= 0
      /\ busy[h].n - busy[h].nn = Cardinality(offered[v])
      /\ \A s \in busy[h].left : \A w \in ToSet(Arrived(s)) : w < v

OfferInv ==
  /\ \A h \in Hubs : busy[h].op = "publish" => Offering(h)
  /\ \A h, k \in Hubs : busy[h].op = "publish" /\ busy[k].op = "publish" /\ h # k
       => busy[h].value # busy[k].value

\* A call that has returned has told the number of its offers.
AnswerInv ==
  \A v \in Published : answers[v] # Pending =>
    /\ answers[v] = Cardinality(offered[v])
    /\ answers[v] = Limit(v)

DeliveryInv == ValuesInv /\ ArrivedInv /\ OfferInv /\ AnswerInv

\* Limit is the n that PublishN counts down from (lines 86 to 89).
LEMMA LimitBounds ==
  ASSUME TypeOK, ValuesInv, NEW v \in Published
  PROVE  /\ Limit(v) \in Nat /\ Limit(v) <= Cardinality(addressed[v])
         /\ budget[v] # All => Limit(v) <= budget[v]
         /\ budget[v] = All \/ budget[v] >= Cardinality(addressed[v])
              => Limit(v) = Cardinality(addressed[v])
<1>1. addressed[v] \in SUBSET Subscribers /\ budget[v] \in {All} \cup Nat
  BY DEF TypeOK, ValuesInv, Published
<1>2. Cardinality(addressed[v]) \in Nat
  BY <1>1, HubAssumption, FS_Subset, FS_CardinalityType
<1> QED
  BY <1>1, <1>2 DEF Limit, All

\* A value later than all those of an increasing sequence goes to its end.
LEMMA AppendedLast ==
  ASSUME NEW q \in Seq(Nat), NEW v \in Nat, Increasing(q), \A w \in ToSet(q) : w < v
  PROVE  Increasing(Append(q, v)) /\ ToSet(Append(q, v)) = ToSet(q) \cup {v}
<1>1. /\ DOMAIN Append(q, v) = DOMAIN q \cup {Len(q) + 1}
      /\ \A i \in DOMAIN q : Append(q, v)[i] = q[i]
      /\ Append(q, v)[Len(q) + 1] = v
      /\ DOMAIN q = 1 .. Len(q) /\ Len(q) \in Nat
  OBVIOUS
<1>2. \A i \in DOMAIN q : q[i] < v
  BY DEF ToSet
<1>3. Increasing(Append(q, v))
  BY <1>1, <1>2 DEF Increasing
<1>4. ToSet(Append(q, v)) = ToSet(q) \cup {v}
  BY <1>1 DEF ToSet
<1> QED
  BY <1>3, <1>4

\* A channel holds numbers of values.
LEMMA ArrivedType ==
  ASSUME TypeOK, NEW s \in Subscribers
  PROVE  Arrived(s) \in Seq(Nat)
BY DEF TypeOK, Arrived

\* A send reaches the end of its own subscriber's channel, or is discarded (lines 128
\* to 134).
LEMMA OfferArrives ==
  ASSUME TypeOK, ArrivedInv, NEW h \in Hubs, NEW s \in Subscribers, PublishTo(h, s)
  PROVE  LET v == busy[h].value
         IN  /\ \A u \in Subscribers \ {s} : Arrived(u)' = Arrived(u)
             /\ \A u \in parked' : queue'[u] = <<>>
             /\ \/ Arrived(s)' = Append(Arrived(s), v) /\ dropped' = dropped
                \/ Arrived(s)' = Arrived(s) /\ dropped' = [dropped EXCEPT ![v] = @ \cup {s}]
<1> DEFINE v == busy[h].value
<1>1. v \in Nat
  BY PublishMoves DEF Publishing
<1>2. Handed(s, v) \/ Buffered(s, v) \/ Discarded(s, v)
  BY DEF PublishTo
<1> HIDE DEF v
<1>3. \A p, q \in Seq(Nat) :
        p \o Append(q, v) = Append(p \o q, v) /\ Append(p, v) \o <<>> = Append(p \o <<>>, v)
  BY <1>1
<1>4. queue[s] \in Seq(Nat) /\ received[s] \in Seq(Nat)
  BY DEF TypeOK
<1>5. CASE Handed(s, v)
  <2>1. /\ queue[s] = <<>> /\ queue' = queue /\ dropped' = dropped
        /\ received'[s] = Append(received[s], v)
        /\ \A u \in Subscribers \ {s} : received'[u] = received[u]
        /\ parked' \subseteq parked
    BY <1>5 DEF Handed, TypeOK, ArrivedInv
  <2>2. \A u \in parked' : queue'[u] = <<>>
    BY <2>1 DEF ArrivedInv
  <2>3. Arrived(s)' = Append(Arrived(s), v) /\ \A u \in Subscribers \ {s} : Arrived(u)' = Arrived(u)
    BY <1>3, <1>4, <2>1 DEF Arrived
  <2> QED BY <2>1, <2>2, <2>3 DEF v
<1>6. CASE Buffered(s, v)
  <2>1. /\ s \notin parked /\ parked' = parked /\ received' = received /\ dropped' = dropped
        /\ queue'[s] = Append(queue[s], v)
        /\ \A u \in Subscribers \ {s} : queue'[u] = queue[u]
    BY <1>6 DEF Buffered, TypeOK
  <2>2. \A u \in parked' : queue'[u] = <<>>
    BY <2>1 DEF ArrivedInv, TypeOK
  <2>3. Arrived(s)' = Append(Arrived(s), v) /\ \A u \in Subscribers \ {s} : Arrived(u)' = Arrived(u)
    BY <1>3, <1>4, <2>1 DEF Arrived
  <2> QED BY <2>1, <2>2, <2>3 DEF v
<1>7. CASE Discarded(s, v)
  <2>1. /\ UNCHANGED <<queue, parked, received>>
        /\ dropped' = [dropped EXCEPT ![v] = @ \cup {s}]
    BY <1>7 DEF Discarded
  <2> QED BY <2>1 DEF Arrived, ArrivedInv, v
<1> QED
  BY <1>2, <1>5, <1>6, <1>7

\* A value is addressed and offered to subscribers.
LEMMA OfferedType ==
  ASSUME TypeOK, DeliveryInv, NEW v \in Published
  PROVE  v \in Nat /\ addressed[v] \subseteq Subscribers /\ offered[v] \subseteq Subscribers
BY DEF TypeOK, DeliveryInv, ArrivedInv, Published

\* A step that publishes nothing leaves the order of delivery alone.
LEMMA DeliveryKept ==
  ASSUME TypeOK, DeliveryInv, UNCHANGED valueVars,
         \A s \in Subscribers : Arrived(s)' = Arrived(s),
         \A s \in parked' : queue'[s] = <<>>,
         \A h \in Hubs : busy'[h] = busy[h] \/ busy'[h].op # "publish"
  PROVE  DeliveryInv'
<1> USE DEF valueVars
<1>1. ValuesInv'
  BY DEF DeliveryInv, ValuesInv
<1>2. ArrivedInv'
  BY OfferedType DEF DeliveryInv, ArrivedInv, Published
<1>3. AnswerInv'
  BY DEF DeliveryInv, AnswerInv, Limit, Published
<1>4. ASSUME NEW h \in Hubs, busy'[h].op = "publish" PROVE busy'[h] = busy[h] /\ Offering(h)'
  <2>1. busy'[h] = busy[h] /\ Offering(h)
    BY <1>4 DEF DeliveryInv, OfferInv
  <2>2. busy[h].left \subseteq Subscribers
    BY <1>4, <2>1, BusyCases DEF Publishing
  <2> QED BY <2>1, <2>2 DEF Offering, Published, Limit
<1>5. OfferInv'
  BY <1>4 DEF DeliveryInv, OfferInv
<1> QED
  BY <1>1, <1>2, <1>3, <1>5 DEF DeliveryInv

\* A new value is later than all that arrived before, and no one else's.
LEMMA DeliveryStarts ==
  ASSUME TypeOK, DeliveryInv, NEW h \in Hubs, NEW t \in Topics,
         NEW n \in {All} \cup 1 .. Cardinality(Subscribers) - 1, PublishStart(h, t, n)
  PROVE  DeliveryInv'
<1> USE DEF channelVars
<1> PICK new : new = Len(addressed) + 1
  OBVIOUS
<1>1. /\ table[h][t] \in SUBSET Subscribers /\ Len(addressed) \in Nat
      /\ Cardinality(Subscribers) \in Nat /\ n \in {All} \cup Nat
  BY HubAssumption, FS_CardinalityType DEF TypeOK
<1>2. /\ ValuesInv'
      /\ Published' = Published \cup {new} /\ new \notin Published
      /\ Published \subseteq Nat /\ \A v \in Published : v < new
  <2>1. /\ addressed \in Seq(SUBSET Subscribers) /\ addressed' = Append(addressed, table[h][t])
        /\ Published = 1 .. Len(addressed) /\ Published' = 1 .. Len(addressed')
    BY <1>1 DEF TypeOK, PublishStart, Published
  <2>2. Len(addressed') = new
    BY <1>1, <2>1
  <2>3. budget' = Append(budget, n) /\ budget' \in Seq({All} \cup Nat) /\ Len(budget') = new
    BY <1>1 DEF DeliveryInv, ValuesInv, PublishStart
  <2>4. /\ offered' \in Seq(SUBSET Subscribers) /\ Len(offered') = new
        /\ dropped' \in Seq(SUBSET Subscribers) /\ Len(dropped') = new
        /\ answers' \in Seq(Int) /\ Len(answers') = new
    <3>1. {} \in SUBSET Subscribers /\ Pending \in Int
      BY DEF Pending
    <3> QED BY <3>1 DEF DeliveryInv, ValuesInv, PublishStart
  <2> QED BY <1>1, <2>1, <2>2, <2>3, <2>4 DEF ValuesInv
<1>3. /\ \A v \in Published :
           /\ addressed'[v] = addressed[v] /\ budget'[v] = budget[v] /\ offered'[v] = offered[v]
           /\ dropped'[v] = dropped[v] /\ answers'[v] = answers[v]
      /\ addressed'[new] = table[h][t] /\ budget'[new] = n /\ offered'[new] = {}
      /\ dropped'[new] = {} /\ answers'[new] = Pending
  <2>1. /\ Published = 1 .. Len(addressed)
        /\ \A S : \A q \in Seq(S) : \A x \in S :
             Len(q) = Len(addressed) =>
               /\ \A v \in 1 .. Len(addressed) : Append(q, x)[v] = q[v]
               /\ Append(q, x)[new] = x
    BY <1>1 DEF Published, TypeOK
  <2>2. {} \in SUBSET Subscribers /\ Pending \in Int
    BY DEF Pending
  <2> QED BY <1>1, <2>1, <2>2 DEF PublishStart, DeliveryInv, ValuesInv, TypeOK
<1>4. UNCHANGED <<queue, received, parked>> /\ \A s \in Subscribers : Arrived(s)' = Arrived(s)
  BY DEF PublishStart, Arrived
<1>5. /\ busy'[h].op = "publish" /\ busy'[h].value = new /\ busy'[h].left = table[h][t]
      /\ busy'[h].n = IF n = All \/ n > Cardinality(table[h][t])
                        THEN Cardinality(table[h][t]) ELSE n
      /\ busy'[h].nn = busy'[h].n
      /\ \A k \in Hubs \ {h} : busy'[k] = busy[k]
  BY DEF PublishStart, TypeOK
<1>6. ArrivedInv'
  <2>1. ASSUME NEW s \in Subscribers
        PROVE  /\ Increasing(Arrived(s)')
               /\ \A v \in ToSet(Arrived(s)') :
                    v \in Published' /\ s \in offered'[v] /\ s \notin dropped'[v]
    BY <1>2, <1>3, <1>4 DEF DeliveryInv, ArrivedInv
  <2>2. ASSUME NEW v \in Published
        PROVE  /\ dropped'[v] \subseteq offered'[v] /\ offered'[v] \subseteq addressed'[v]
               /\ \A s \in offered'[v] : s \in dropped'[v] \/ v \in ToSet(Arrived(s)')
    BY <1>3, <1>4, OfferedType DEF DeliveryInv, ArrivedInv
  <2>3. \A s \in parked' : queue'[s] = <<>>
    BY <1>4 DEF DeliveryInv, ArrivedInv
  <2> QED BY <1>2, <1>3, <2>1, <2>2, <2>3 DEF ArrivedInv
<1>7. AnswerInv'
  BY <1>2, <1>3 DEF DeliveryInv, AnswerInv, Limit
<1>8. ASSUME NEW k \in Hubs \ {h}, busy'[k].op = "publish" PROVE Offering(k)'
  <2>1. busy'[k] = busy[k] /\ Offering(k) /\ busy[k].value \in Published
    BY <1>5, <1>8 DEF DeliveryInv, OfferInv, Offering
  <2>2. busy[k].left \subseteq Subscribers
    BY <1>8, <2>1, BusyCases DEF Publishing
  <2>3. PICK v \in Published : v = busy[k].value
    BY <2>1
  <2>4. Limit(v)' = Limit(v) /\ v \in Published'
    BY <1>2, <1>3 DEF Limit
  <2>5. \A s \in busy[k].left : \A w \in ToSet(Arrived(s)') : w < v
    BY <1>4, <2>1, <2>2, <2>3 DEF Offering
  <2> QED BY <1>3, <2>1, <2>3, <2>4, <2>5 DEF Offering
<1>9. Offering(h)'
  <2>1. Limit(new)' = busy'[h].n /\ busy'[h].n >= 0 /\ busy'[h].n \in Int
    <3>1. Cardinality(table[h][t]) \in Nat
      BY <1>1, HubAssumption, FS_Subset, FS_CardinalityType
    <3> QED BY <1>1, <1>3, <1>5, <3>1 DEF Limit, All
  <2>2. \A s \in table[h][t] : \A w \in ToSet(Arrived(s)') : w < new
    BY <1>1, <1>2, <1>4 DEF DeliveryInv, ArrivedInv
  <2>3. busy'[h].n - busy'[h].nn = Cardinality(offered'[new])
    BY <1>3, <1>5, <2>1, FS_EmptySet
  <2>4. new \in Published' /\ busy'[h].value = new
    BY <1>2, <1>5
  <2>5. offered'[new] = addressed'[new] \ busy'[h].left
    BY <1>3, <1>5
  <2> QED BY <1>3, <1>5, <2>1, <2>2, <2>3, <2>4, <2>5 DEF Offering
<1>10. OfferInv'
  <2>1. ASSUME NEW k \in Hubs \ {h}, busy'[k].op = "publish"
        PROVE  busy'[k].value # busy'[h].value
    <3>1. busy'[k] = busy[k] /\ busy[k].value \in Published
      BY <1>5, <2>1 DEF DeliveryInv, OfferInv, Offering
    <3> QED BY <1>2, <1>5, <3>1
  <2>2. ASSUME NEW j \in Hubs \ {h}, NEW k \in Hubs \ {h}, j # k,
               busy'[j].op = "publish", busy'[k].op = "publish"
        PROVE  busy'[j].value # busy'[k].value
    BY <1>5, <2>2 DEF DeliveryInv, OfferInv
  <2> QED BY <1>8, <1>9, <2>1, <2>2 DEF OfferInv
<1> QED
  BY <1>2, <1>6, <1>7, <1>10 DEF DeliveryInv

\* One send of a PublishN: the value is later than all its subscriber has, and the
\* other hubs' calls have neither this value nor this subscriber before them.
LEMMA DeliveryGoesOn ==
  ASSUME TypeOK, HubInv, DeliveryInv, NEW h \in Hubs, NEW s \in Subscribers, PublishTo(h, s)
  PROVE  DeliveryInv'
<1> PICK v : v = busy[h].value
  OBVIOUS
<1>1. /\ Offering(h) /\ busy[h] \in Publishing /\ busy[h].op = "publish"
      /\ busy[h].nn > 0 /\ s \in busy[h].left
  BY PublishMoves DEF PublishTo, DeliveryInv, OfferInv
<1>2. /\ v \in Published /\ v \in Nat /\ s \in addressed[v] /\ s \notin offered[v]
      /\ \A w \in ToSet(Arrived(s)) : w < v
  BY <1>1 DEF Offering, Publishing
<1>3. /\ busy'[h].op = "publish" /\ busy'[h].value = v
      /\ busy'[h].left = busy[h].left \ {s}
      /\ busy'[h].n = busy[h].n /\ busy'[h].nn = busy[h].nn - 1
      /\ \A k \in Hubs \ {h} : busy'[k] = busy[k]
  <2> DEFINE a == [busy[h] EXCEPT !.nn = @ - 1]
             b == [a EXCEPT !.left = @ \ {s}]
  <2>1. /\ a \in Publishing /\ a.op = busy[h].op /\ a.value = v /\ a.left = busy[h].left
        /\ a.n = busy[h].n /\ a.nn = busy[h].nn - 1
    BY <1>1 DEF Publishing
  <2>2. busy' = [busy EXCEPT ![h] = b]
    BY DEF PublishTo, TypeOK
  <2> HIDE DEF a
  <2>3. /\ b \in Publishing /\ b.op = a.op /\ b.value = a.value /\ b.left = a.left \ {s}
        /\ b.n = a.n /\ b.nn = a.nn
    BY <2>1 DEF Publishing
  <2> HIDE DEF b
  <2> QED BY <1>1, <2>1, <2>2, <2>3, BusyMoves
<1>4. UNCHANGED <<addressed, budget, answers>> /\ Published' = Published
  BY DEF PublishTo, Published
<1>5. /\ Published = DOMAIN offered /\ Published = DOMAIN dropped
      /\ offered \in Seq(SUBSET Subscribers) /\ dropped \in Seq(SUBSET Subscribers)
  BY DEF DeliveryInv, ValuesInv, Published, TypeOK
<1>6. /\ offered' = [offered EXCEPT ![v] = @ \cup {s}]
      /\ offered'[v] = offered[v] \cup {s}
      /\ \A w \in Published \ {v} : offered'[w] = offered[w]
  BY <1>2, <1>5 DEF PublishTo
<1>7. /\ \A u \in Subscribers \ {s} : Arrived(u)' = Arrived(u)
      /\ \A u \in parked' : queue'[u] = <<>>
      /\ \/ Arrived(s)' = Append(Arrived(s), v) /\ dropped' = dropped
         \/ Arrived(s)' = Arrived(s) /\ dropped' = [dropped EXCEPT ![v] = @ \cup {s}]
  BY OfferArrives DEF DeliveryInv
<1>8. ValuesInv'
  <2>1. \A q \in Seq(SUBSET Subscribers) : v \in DOMAIN q =>
          /\ [q EXCEPT ![v] = @ \cup {s}] \in Seq(SUBSET Subscribers)
          /\ Len([q EXCEPT ![v] = @ \cup {s}]) = Len(q)
    OBVIOUS
  <2>2. offered' \in Seq(SUBSET Subscribers) /\ Len(offered') = Len(offered)
    BY <1>2, <1>5, <1>6, <2>1
  <2>3. dropped' \in Seq(SUBSET Subscribers) /\ Len(dropped') = Len(dropped)
    BY <1>2, <1>5, <1>7, <2>1
  <2> QED BY <1>4, <2>2, <2>3 DEF DeliveryInv, ValuesInv
<1>9. /\ Increasing(Arrived(s)')
      /\ \A w \in ToSet(Arrived(s)') : w \in ToSet(Arrived(s)) \/ w = v
      /\ \A w \in ToSet(Arrived(s)) : w \in ToSet(Arrived(s)')
      /\ s \in dropped'[v] <=> v \notin ToSet(Arrived(s)')
      /\ \A w \in Published \ {v} : dropped'[w] = dropped[w]
      /\ \A u \in Subscribers \ {s} : u \in dropped'[v] <=> u \in dropped[v]
  <2>1. Increasing(Arrived(s)) /\ Arrived(s) \in Seq(Nat)
    BY ArrivedType DEF DeliveryInv, ArrivedInv
  <2>2. v \notin ToSet(Arrived(s)) /\ s \notin dropped[v]
    <3>1. \A w \in ToSet(Arrived(s)) : w \in Nat
      BY <2>1 DEF ToSet
    <3> QED BY <1>2, <3>1 DEF DeliveryInv, ArrivedInv
  <2>3. /\ Increasing(Append(Arrived(s), v))
        /\ ToSet(Append(Arrived(s), v)) = ToSet(Arrived(s)) \cup {v}
    BY <1>2, <2>1, AppendedLast
  <2>4. CASE Arrived(s)' = Append(Arrived(s), v) /\ dropped' = dropped
    BY <2>2, <2>3, <2>4
  <2>5. CASE Arrived(s)' = Arrived(s) /\ dropped' = [dropped EXCEPT ![v] = @ \cup {s}]
    BY <1>2, <1>5, <2>1, <2>2, <2>5
  <2> QED BY <1>7, <2>4, <2>5
<1>10. ArrivedInv'
  <2>1. ASSUME NEW u \in Subscribers, NEW w \in ToSet(Arrived(u)')
        PROVE  w \in Published /\ u \in offered'[w] /\ u \notin dropped'[w]
    <3>1. CASE u = s
      BY <1>2, <1>6, <1>9, <2>1, <3>1 DEF DeliveryInv, ArrivedInv
    <3>2. CASE u # s
      <4>1. w \in Published /\ u \in offered[w] /\ u \notin dropped[w]
        BY <1>7, <2>1, <3>2 DEF DeliveryInv, ArrivedInv
      <4> QED BY <1>6, <1>9, <3>2, <4>1
    <3> QED BY <3>1, <3>2
  <2>2. ASSUME NEW w \in Published PROVE offered'[w] \subseteq addressed[w]
    BY <1>2, <1>6 DEF DeliveryInv, ArrivedInv
  <2>5. ASSUME NEW w \in Published PROVE dropped'[w] \subseteq offered'[w]
    <3>1. dropped[w] \subseteq offered[w] /\ offered[w] \subseteq Subscribers
      BY OfferedType DEF DeliveryInv, ArrivedInv
    <3>2. CASE w # v
      BY <1>6, <1>9, <3>1, <3>2
    <3>3. CASE w = v
      BY <1>2, <1>5, <1>6, <1>7, <3>1, <3>3
    <3> QED BY <3>2, <3>3
  <2>3. ASSUME NEW w \in Published, NEW u \in offered'[w]
        PROVE  u \in dropped'[w] \/ w \in ToSet(Arrived(u)')
    <3>1. u \in Subscribers
      BY <1>4, <2>2, <2>3 DEF TypeOK, Published
    <3>2. CASE u = s /\ w = v
      BY <1>9, <3>2
    <3>3. CASE u # s \/ w # v
      <4>1. u \in offered[w]
        BY <1>6, <2>3, <3>3
      <4>2. u \in dropped[w] \/ w \in ToSet(Arrived(u))
        BY <4>1 DEF DeliveryInv, ArrivedInv
      <4> QED BY <1>7, <1>9, <3>1, <3>3, <4>2
    <3> QED BY <3>2, <3>3
  <2>4. \A u \in Subscribers : Increasing(Arrived(u)')
    BY <1>7, <1>9 DEF DeliveryInv, ArrivedInv
  <2> QED BY <1>4, <1>7, <2>1, <2>2, <2>3, <2>4, <2>5 DEF ArrivedInv
<1>11. AnswerInv'
  <2>1. answers[v] = Pending
    BY <1>1 DEF Offering
  <2> QED BY <1>4, <1>6, <2>1 DEF DeliveryInv, AnswerInv, Limit
<1>12. ASSUME NEW k \in Hubs \ {h}, busy[k].op = "publish" PROVE Offering(k)'
  <2>1. Offering(k) /\ busy'[k] = busy[k] /\ busy[k].value # v
    BY <1>1, <1>3, <1>12 DEF DeliveryInv, OfferInv
  <2>2. busy[k].left \subseteq Subscribers \ {s}
    <3>1. busy[k].left \subseteq Subscribers
      BY <1>12, BusyCases DEF Publishing
    <3>2. s \notin busy[k].left
      BY <1>1, <1>12 DEF HubInv, PublishInv, ListInv
    <3> QED BY <3>1, <3>2
  <2> QED BY <1>4, <1>6, <1>7, <2>1, <2>2 DEF Offering, Limit
<1>13. Offering(h)'
  <2>1. addressed[v] \in SUBSET Subscribers
    BY <1>2 DEF TypeOK, Published
  <2>2. busy[h].left \subseteq Subscribers /\ IsFiniteSet(offered[v])
    BY <1>1, <2>1, HubAssumption, FS_Subset DEF Offering, Publishing
  <2>3. /\ Cardinality(offered'[v]) = Cardinality(offered[v]) + 1
        /\ Cardinality(offered[v]) \in Nat
    BY <1>2, <1>6, <2>2, FS_AddElement, FS_CardinalityType
  <2>4. /\ busy[h].n \in Int /\ busy[h].nn \in Int
        /\ busy[h].n = Limit(v) /\ busy[h].n - busy[h].nn = Cardinality(offered[v])
        /\ answers[v] = Pending /\ busy[h].left \subseteq addressed[v]
        /\ offered[v] = addressed[v] \ busy[h].left
    BY <1>1 DEF Offering, Publishing
  <2>5. \A u \in busy'[h].left : \A w \in ToSet(Arrived(u)') : w < v
    <3>1. \A u \in busy[h].left : \A w \in ToSet(Arrived(u)) : w < v
      BY <1>1 DEF Offering
    <3> QED BY <1>3, <1>7, <2>2, <3>1
  <2>6. /\ busy'[h].nn >= 0 /\ busy'[h].n - busy'[h].nn = Cardinality(offered'[v])
        /\ busy'[h].n = Limit(v)'
    BY <1>1, <1>3, <1>4, <2>3, <2>4 DEF Limit
  <2>7. offered'[v] = addressed[v] \ busy'[h].left /\ busy'[h].left \subseteq addressed[v]
    BY <1>2, <1>3, <1>6, <2>4
  <2> QED BY <1>2, <1>3, <1>4, <2>4, <2>5, <2>6, <2>7 DEF Offering
<1>14. OfferInv'
  <2>1. \A k \in Hubs : busy'[k].op = busy[k].op /\ busy'[k].value = busy[k].value
    BY <1>1, <1>3
  <2> QED BY <1>12, <1>13, <2>1 DEF DeliveryInv, OfferInv
<1> QED
  BY <1>8, <1>10, <1>11, <1>14 DEF DeliveryInv

\* A call that returns has nobody before it, or has counted n down to zero.
LEMMA DeliveryEnds ==
  ASSUME TypeOK, DeliveryInv, NEW h \in Hubs, PublishReturns(h)
  PROVE  DeliveryInv'
<1> USE DEF channelVars
<1> PICK v, answer : v = busy[h].value /\ answer = busy[h].n - busy[h].nn
  OBVIOUS
<1>1. Offering(h) /\ busy[h] \in Publishing /\ (busy[h].nn = 0 \/ busy[h].left = {})
  BY BusyCases DEF PublishReturns, DeliveryInv, OfferInv
<1>2. v \in Published /\ Published = DOMAIN answers /\ answer \in Int
  BY <1>1 DEF Offering, Publishing, DeliveryInv, ValuesInv, Published, TypeOK
<1>3. /\ UNCHANGED <<addressed, budget, offered, dropped, queue, received, parked>>
      /\ Published' = Published /\ \A s \in Subscribers : Arrived(s)' = Arrived(s)
  BY DEF PublishReturns, Arrived, Published
<1>4. /\ answers' = [answers EXCEPT ![v] = answer]
      /\ answers'[v] = answer /\ \A w \in Published \ {v} : answers'[w] = answers[w]
  BY <1>2 DEF PublishReturns, DeliveryInv, ValuesInv
<1>5. /\ busy'[h].op # "publish" /\ \A k \in Hubs \ {h} : busy'[k] = busy[k]
  BY DEF PublishReturns, TypeOK, Free
<1>6. ValuesInv'
  <2>1. \A q \in Seq(Int), x \in Int : v \in DOMAIN q =>
          [q EXCEPT ![v] = x] \in Seq(Int) /\ Len([q EXCEPT ![v] = x]) = Len(q)
    OBVIOUS
  <2> QED BY <1>2, <1>3, <1>4, <2>1 DEF DeliveryInv, ValuesInv
<1>7. answer = Cardinality(offered[v]) /\ answer = Limit(v)
  <2>1. Limit(v) \in Nat /\ Limit(v) <= Cardinality(addressed[v])
    BY <1>2, LimitBounds DEF DeliveryInv
  <2>2. busy[h].left = {} => Cardinality(offered[v]) = Cardinality(addressed[v])
    BY <1>1 DEF Offering
  <2>3. addressed[v] \in SUBSET Subscribers
    BY <1>2 DEF TypeOK, Published
  <2>4. Cardinality(addressed[v]) \in Nat
    BY <2>3, HubAssumption, FS_Subset, FS_CardinalityType
  <2> QED BY <1>1, <2>1, <2>2, <2>4 DEF Offering, Publishing
<1>8. AnswerInv'
  BY <1>3, <1>4, <1>7 DEF DeliveryInv, AnswerInv, Limit
<1>9. ArrivedInv'
  BY <1>3, OfferedType DEF DeliveryInv, ArrivedInv
<1>10. ASSUME NEW k \in Hubs \ {h}, busy[k].op = "publish" PROVE Offering(k)'
  <2>1. Offering(k) /\ busy'[k] = busy[k] /\ busy[k].value # v
    BY <1>5, <1>10 DEF DeliveryInv, OfferInv, PublishReturns
  <2>2. busy[k].left \subseteq Subscribers
    BY <1>10, BusyCases DEF Publishing
  <2> QED BY <1>3, <1>4, <2>1, <2>2 DEF Offering, Limit
<1>11. OfferInv'
  BY <1>5, <1>10 DEF DeliveryInv, OfferInv
<1> QED
  BY <1>6, <1>8, <1>9, <1>11 DEF DeliveryInv

\* Whatever the hubs, the receivers and the users who close a channel do in between,
\* the record of the deliveries stays true to what is in the channels.
LEMMA DeliveryStep ==
  ASSUME TypeOK, HubInv, DeliveryInv, [Next]_vars
  PROVE  DeliveryInv'
<1> USE DEF channelVars, valueVars
<1>1. ASSUME NEW h \in Hubs, NEW t \in Topics,
             NEW n \in {All} \cup 1 .. Cardinality(Subscribers) - 1, PublishStart(h, t, n)
      PROVE  DeliveryInv'
  BY <1>1, DeliveryStarts
<1>2. ASSUME NEW h \in Hubs, NEW s \in Subscribers, PublishTo(h, s) PROVE DeliveryInv'
  BY <1>2, DeliveryGoesOn
<1>3. ASSUME NEW h \in Hubs, PublishReturns(h) PROVE DeliveryInv'
  BY <1>3, DeliveryEnds
<1>4. ASSUME UNCHANGED <<valueVars, queue, received>>, \A s \in parked' : queue[s] = <<>>,
             \A h \in Hubs : busy'[h] = busy[h] \/ busy'[h].op # "publish"
      PROVE  DeliveryInv'
  <2>1. \A s \in Subscribers : Arrived(s)' = Arrived(s)
    BY <1>4 DEF Arrived
  <2> QED BY <1>4, <2>1, DeliveryKept
<1>5. parked' \subseteq parked => \A s \in parked' : queue[s] = <<>>
  BY DEF DeliveryInv, ArrivedInv
<1>6. ASSUME NEW h \in Hubs, NEW t \in Topics, NEW s \in Subscribers, NEW n \in 0 .. MaxQueue,
             SubscribeLoad(h, t, s, n)
      PROVE  DeliveryInv'
  <2>1. busy'[h].op # "publish" /\ \A k \in Hubs \ {h} : busy'[k] = busy[k]
    BY <1>6 DEF SubscribeLoad, TypeOK
  <2> QED BY <1>4, <1>5, <1>6, <2>1 DEF SubscribeLoad
<1>7. ASSUME NEW h \in Hubs, SubscribeStore(h) PROVE DeliveryInv'
  <2> DEFINE b == [busy[h] EXCEPT !.op = "register"]
  <2>1. b \in Subscribing /\ b.op = "register"
    BY <1>7, BusyCases DEF SubscribeStore, Subscribing
  <2>2. busy' = [busy EXCEPT ![h] = b]
    BY <1>7 DEF SubscribeStore
  <2> HIDE DEF b
  <2>3. busy'[h].op # "publish" /\ \A k \in Hubs \ {h} : busy'[k] = busy[k]
    BY <2>1, <2>2, BusyMoves
  <2> QED BY <1>4, <1>5, <1>7, <2>3 DEF SubscribeStore
<1>8. ASSUME NEW h \in Hubs, SubscribeRegister(h) PROVE DeliveryInv'
  <2>1. busy'[h].op # "publish" /\ \A k \in Hubs \ {h} : busy'[k] = busy[k]
    BY <1>8 DEF SubscribeRegister, TypeOK, Free
  <2> QED BY <1>4, <1>5, <1>8, <2>1 DEF SubscribeRegister
<1>9. ASSUME NEW h \in Hubs, NEW t \in Topics, NEW subs \in SUBSET Subscribers,
              Unsubscribe(h, t, subs)
       PROVE  DeliveryInv'
  BY <1>4, <1>5, <1>9 DEF Unsubscribe
<1>10. ASSUME NEW h \in Hubs, NEW s \in Subscribers, PublishPanics(h, s) PROVE DeliveryInv'
  BY <1>4, <1>5, <1>10 DEF PublishPanics
<1>11. ASSUME NEW s \in Subscribers, CloseSubscriber(s) PROVE DeliveryInv'
  <2>1. parked' \subseteq parked /\ UNCHANGED <<busy, queue, received, valueVars>>
    BY <1>11 DEF CloseSubscriber
  <2> QED BY <1>4, <1>5, <2>1
<1>12. ASSUME NEW s \in Subscribers, Receive(s) PROVE DeliveryInv'
  <2>1. \A u \in Subscribers : Arrived(u)' = Arrived(u)
    BY <1>12, ReceiveKeepsArrived
  <2>2. \A u \in parked' : queue'[u] = <<>>
    BY <1>12 DEF Receive, DeliveryInv, ArrivedInv, TypeOK
  <2> QED BY <1>12, <2>1, <2>2, DeliveryKept DEF Receive
<1>13. ASSUME NEW s \in Subscribers, Park(s) PROVE DeliveryInv'
  BY <1>4, <1>13 DEF Park, DeliveryInv, ArrivedInv
<1>14. CASE UNCHANGED vars
  BY <1>4, <1>5, <1>14 DEF vars
<1> QED
  BY <1>1, <1>2, <1>3, <1>6, <1>7, <1>8, <1>9, <1>10, <1>11, <1>12, <1>13, <1>14
     DEF Next, Hub, User

\* A subscriber gets the values published to its topic in their order and at most once;
\* a call that has returned offered its value to as many as it says, and each of them
\* got it or had no room (lines 83 to 97 and 128 to 134).
THEOREM DeliveryIsOrdered == Spec => []OrderedDelivery
<1>1. Init => DeliveryInv
  <2> SUFFICES ASSUME Init PROVE DeliveryInv
    OBVIOUS
  <2>1. /\ addressed = <<>> /\ budget = <<>> /\ offered = <<>> /\ dropped = <<>> /\ answers = <<>>
        /\ Published = {} /\ parked = {} /\ \A h \in Hubs : busy[h].op = "free"
    BY DEF Init, Published, Free
  <2>2. \A s \in Subscribers : Arrived(s) = <<>>
    BY DEF Init, Arrived
  <2>3. Increasing(<<>>) /\ ToSet(<<>>) = {}
    BY DEF Increasing, ToSet
  <2>4. ValuesInv
    BY <2>1 DEF ValuesInv
  <2> QED BY <2>1, <2>2, <2>3, <2>4 DEF DeliveryInv, ArrivedInv, OfferInv, AnswerInv
<1>2. TypeOK /\ HubInv /\ DeliveryInv /\ [Next]_vars => DeliveryInv'
  BY DeliveryStep
<1>3. TypeOK /\ DeliveryInv => OrderedDelivery
  <2> SUFFICES ASSUME TypeOK, DeliveryInv PROVE OrderedDelivery
    OBVIOUS
  <2>1. ASSUME NEW s \in Subscribers
        PROVE  /\ \A i, j \in DOMAIN Arrived(s) : i < j => Arrived(s)[i] < Arrived(s)[j]
               /\ \A v \in ToSet(Arrived(s)) : s \in addressed[v]
    BY DEF DeliveryInv, ArrivedInv, Increasing
  <2>2. ASSUME NEW v \in Published, answers[v] # Pending
        PROVE  /\ answers[v] = Cardinality(offered[v])
               /\ budget[v] = All \/ budget[v] >= Cardinality(addressed[v])
                    => offered[v] = addressed[v]
               /\ budget[v] # All => Cardinality(offered[v]) <= budget[v]
    <3>1. answers[v] = Cardinality(offered[v]) /\ answers[v] = Limit(v)
      BY <2>2 DEF DeliveryInv, AnswerInv
    <3>2. /\ addressed[v] \in SUBSET Subscribers /\ offered[v] \subseteq addressed[v]
          /\ IsFiniteSet(addressed[v])
      BY HubAssumption, FS_Subset DEF TypeOK, Published, DeliveryInv, ArrivedInv
    <3>3. Cardinality(offered[v]) = Cardinality(addressed[v]) => offered[v] = addressed[v]
      BY <3>2, FS_Subset
    <3> QED BY <3>1, <3>3, LimitBounds DEF DeliveryInv
  <2>3. ASSUME NEW v \in Published, NEW s \in offered[v]
        PROVE  s \in dropped[v] <=> v \notin ToSet(Arrived(s))
    <3>1. s \in Subscribers
      BY DEF TypeOK, Published, DeliveryInv, ArrivedInv
    <3> QED BY <3>1 DEF DeliveryInv, ArrivedInv
  <2> QED BY <2>1, <2>2, <2>3 DEF OrderedDelivery
<1> QED
  BY <1>1, <1>2, <1>3, HubTypeCorrect, HubCorrect, PTL DEF Spec

-----------------------------------------------------------------------------
(***************************************************************************)
(* One hub alone.  Its mutex then covers the counter of the ids as well,   *)
(* so that the id read back is the one just stored, and no other           *)
(* subscriber has it.                                                      *)
(***************************************************************************)

OneHub == \A h, k \in Hubs : h = k

IdInv ==
  /\ \A s \in Subscribers : id[s] <= counter
  /\ \A s, u \in Subscribers : id[s] = id[u] /\ id[s] # 0 => s = u
  /\ \A h \in Hubs :
       /\ busy[h].op = "store" => busy[h].seen = counter
       /\ busy[h].op = "register" => \A s \in Subscribers : id[s] < counter
  /\ \A s \in Live : s \in At(s)

\* Every step of the only hub keeps the ids apart and the live subscribers listed.
LEMMA IdStep ==
  ASSUME OneHub, TypeOK, HubInv, IdInv, [Next]_vars
  PROVE  IdInv'
<1> USE DEF channelVars, valueVars
<1>0. ASSUME UNCHANGED <<table, counter, id, home, removed>>,
             \A h \in Hubs : busy'[h] = busy[h] \/ busy'[h].op \in {"free", "publish"}
      PROVE  IdInv'
  BY <1>0 DEF IdInv, Live, At
<1>1. ASSUME NEW h \in Hubs, NEW t \in Topics, NEW s \in Subscribers, NEW n \in 0 .. MaxQueue,
             SubscribeLoad(h, t, s, n)
      PROVE  IdInv'
  <2>1. /\ id[s] = 0 /\ UNCHANGED <<table, counter, id, removed>>
        /\ \A u \in Subscribers \ {s} : home'[u] = home[u]
    BY <1>1, PlacesAreSomewhere DEF SubscribeLoad, HubInv, ListInv, TypeOK
  <2>2. /\ busy'[h].op = "store" /\ busy'[h].seen = counter
        /\ \A k \in Hubs \ {h} : busy'[k] = busy[k]
    BY <1>1 DEF SubscribeLoad, TypeOK
  <2>3. \A u \in Live' : u \in At(u)'
    BY <2>1 DEF IdInv, Live, At
  <2> QED BY <2>1, <2>2, <2>3 DEF IdInv, OneHub
<1>2. ASSUME NEW h \in Hubs, SubscribeStore(h) PROVE IdInv'
  <2>1. busy[h].op = "store" /\ busy[h] \in Subscribing
    BY <1>2, BusyCases DEF SubscribeStore
  <2>2. counter \in Nat /\ counter' = counter + 1
    BY <1>2, <2>1 DEF SubscribeStore, IdInv, TypeOK
  <2>3. busy'[h].op = "register" /\ \A k \in Hubs : k = h
    <3> DEFINE b == [busy[h] EXCEPT !.op = "register"]
    <3>1. b \in Subscribing /\ b.op = "register"
      BY <2>1 DEF Subscribing
    <3>2. busy' = [busy EXCEPT ![h] = b]
      BY <1>2 DEF SubscribeStore
    <3> HIDE DEF b
    <3> QED BY <3>1, <3>2, BusyMoves DEF OneHub
  <2>4. UNCHANGED <<table, id, home, removed>>
    BY <1>2 DEF SubscribeStore
  <2>5. \A s \in Subscribers : id[s] \in Nat /\ id[s] < counter + 1
    BY <2>2 DEF IdInv, TypeOK
  <2>6. \A u \in Live' : u \in At(u)'
    BY <2>4 DEF IdInv, Live, At
  <2> QED BY <2>2, <2>3, <2>4, <2>5, <2>6 DEF IdInv
<1>3. ASSUME NEW h \in Hubs, SubscribeRegister(h) PROVE IdInv'
  <2> DEFINE s == busy[h].sub
             t == home[s][2]
  <2>1. /\ busy[h].op = "register" /\ s \in Subscribers
        /\ t \in Topics /\ home[s] = <<h, t>>
    BY <1>3, BusyCases DEF SubscribeRegister, Subscribing, HubInv, SubscribeInv
  <2>2. /\ id'[s] = counter /\ \A u \in Subscribers \ {s} : id'[u] = id[u]
        /\ UNCHANGED <<counter, home, removed>>
    BY <1>3, <2>1 DEF SubscribeRegister, TypeOK
  <2>3. \A u \in Subscribers : id[u] \in Nat /\ id[u] < counter
    BY <2>1 DEF IdInv, TypeOK
  <2>4. /\ table'[h][t] = {u \in table[h][t] : id[u] # counter} \cup {s}
        /\ \A k \in Hubs, v \in Topics : ~(k = h /\ v = t) => table'[k][v] = table[k][v]
    BY <1>3, <2>1 DEF SubscribeRegister, TypeOK
  <2>5. Free.op = "free" /\ \A k \in Hubs : busy'[k] = Free
    BY <1>3 DEF SubscribeRegister, TypeOK, OneHub, Free
  <2>6. counter \in Nat
    BY DEF TypeOK
  <2> HIDE DEF s, t
  <2>7. \A k \in Hubs, v \in Topics : table[k][v] \subseteq table'[k][v]
    <3>1. table[h][t] \subseteq Subscribers
      BY <2>1 DEF TypeOK
    <3> QED BY <2>3, <2>4, <3>1
  <2>8. \A u \in Live' : u \in At(u)'
    <3> SUFFICES ASSUME NEW u \in Live' PROVE u \in table'[home[u][1]][home[u][2]]
      BY <2>2 DEF At
    <3>1. CASE u = s
      BY <2>1, <2>4, <3>1
    <3>2. CASE u # s
      <4>1. u \in Live /\ u \in Subscribers
        BY <2>2, <3>2 DEF Live
      <4>2. u \in table[home[u][1]][home[u][2]] /\ home[u] \in Places
        BY <4>1 DEF IdInv, At, HubInv, ListInv, Live
      <4> QED BY <2>7, <4>2 DEF Places
    <3> QED BY <3>1, <3>2
  <2>9. /\ \A u \in Subscribers : id'[u] <= counter'
        /\ \A u, v \in Subscribers : id'[u] = id'[v] /\ id'[u] # 0 => u = v
    BY <2>1, <2>2, <2>3, <2>6 DEF IdInv
  <2> QED BY <2>5, <2>8, <2>9 DEF IdInv
<1>4. ASSUME NEW h \in Hubs, NEW t \in Topics, NEW subs \in SUBSET Subscribers,
             Unsubscribe(h, t, subs)
      PROVE  IdInv'
  <2>1. /\ \A s \in subs : id[s] # 0
        /\ removed' = removed \cup
             (IF subs = {} THEN table[h][t] ELSE {s \in subs : home[s] = <<h, t>>})
        /\ UNCHANGED <<counter, id, busy, home>>
    BY <1>4 DEF Unsubscribe
  <2>2. /\ table'[h][t] = IF subs = {} THEN {}
                          ELSE {u \in table[h][t] : id[u] \notin {id[s] : s \in subs}}
        /\ \A k \in Hubs, v \in Topics : ~(k = h /\ v = t) => table'[k][v] = table[k][v]
    BY <1>4 DEF Unsubscribe, TypeOK
  <2>3. \A u \in Live' : u \in At(u)'
    <3> SUFFICES ASSUME NEW u \in Live' PROVE u \in table'[home[u][1]][home[u][2]]
      BY <2>1 DEF At
    <3>1. u \in Live /\ u \in Subscribers /\ u \notin removed'
      BY <2>1 DEF Live
    <3>2. u \in table[home[u][1]][home[u][2]] /\ home[u] \in Places
      BY <3>1 DEF IdInv, At, HubInv, ListInv, Live
    <3>3. PICK k \in Hubs, v \in Topics : home[u] = <<k, v>>
      BY <3>2 DEF Places
    <3>4. CASE ~(k = h /\ v = t)
      BY <2>2, <3>2, <3>3, <3>4
    <3>5. CASE k = h /\ v = t
      <4>1. subs # {} /\ u \notin subs /\ u \in table[h][t]
        BY <2>1, <3>1, <3>2, <3>3, <3>5
      <4>2. id[u] \notin {id[s] : s \in subs}
        BY <2>1, <3>1, <4>1 DEF IdInv
      <4> QED BY <2>2, <3>3, <3>5, <4>1, <4>2
    <3> QED BY <3>4, <3>5
  <2> QED BY <2>1, <2>3 DEF IdInv
<1>5. ASSUME NEW h \in Hubs, NEW t \in Topics,
             NEW n \in {All} \cup 1 .. Cardinality(Subscribers) - 1, PublishStart(h, t, n)
      PROVE  IdInv'
  <2>1. busy'[h].op = "publish" /\ \A k \in Hubs : k = h
    BY <1>5 DEF PublishStart, TypeOK, OneHub
  <2> QED BY <1>0, <1>5, <2>1 DEF PublishStart
<1>6. ASSUME NEW h \in Hubs, NEW s \in Subscribers, PublishTo(h, s) PROVE IdInv'
  <2>1. busy'[h].op = "publish" /\ \A k \in Hubs : k = h
    BY <1>6, PublishMoves DEF OneHub
  <2> QED BY <1>0, <1>6, <2>1 DEF PublishTo
<1>7. ASSUME NEW h \in Hubs, PublishReturns(h) PROVE IdInv'
  <2>1. busy'[h].op = "free" /\ \A k \in Hubs : k = h
    BY <1>7 DEF PublishReturns, TypeOK, OneHub, Free
  <2> QED BY <1>0, <1>7, <2>1 DEF PublishReturns
<1>8. ASSUME NEW h \in Hubs, NEW s \in Subscribers, PublishPanics(h, s) PROVE IdInv'
  BY <1>0, <1>8 DEF PublishPanics
<1>9. ASSUME NEW s \in Subscribers, User(s) PROVE IdInv'
  BY <1>0, <1>9 DEF User, CloseSubscriber, Receive, Park
<1>10. CASE UNCHANGED vars
  BY <1>0, <1>10 DEF vars
<1> QED
  BY <1>1, <1>2, <1>3, <1>4, <1>5, <1>6, <1>7, <1>8, <1>9, <1>10 DEF Next, Hub

\* In a program with one hub, a subscriber that nobody unsubscribed stays in the hub's
\* map (lines 25 to 60): only another hub can give its id away.
THEOREM OneHubKeepsSubscribers ==
  ASSUME OneHub
  PROVE  Spec => []StaysRegistered
<1>1. Init => IdInv
  BY DEF Init, IdInv, Live, Free
<1>2. TypeOK /\ HubInv /\ IdInv /\ [Next]_vars => IdInv'
  BY IdStep
<1>3. IdInv => StaysRegistered
  BY DEF IdInv, StaysRegistered
<1> QED
  BY <1>1, <1>2, <1>3, HubTypeCorrect, HubCorrect, PTL DEF Spec
===============================================================================
