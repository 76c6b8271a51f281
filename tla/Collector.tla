------------------------------ MODULE Collector ------------------------------
(***************************************************************************)
(* The metrics Collector (src/sys/sysmetrics/collect.go): Start runs one   *)
(* producer per metric in a threads.Group, the producers subscribe to a    *)
(* threads.SubHub, Collect publishes a task to them, Close ends them.      *)
(* The group and the hub are here what the collector sees of them.         *)
(***************************************************************************)
EXTENDS Integers, FiniteSets, Sequences

CONSTANTS
  Producers,   \* "net", "loadAvg" and the others that Start adds
  QueueLen     \* the capacity of a producer's channel: 16 in the code

ASSUME CollectorAssumption == Producers # {} /\ QueueLen \in Nat

VARIABLES
  started,     \* runOnce has run: the hub exists
  done,        \* c.done: "nil", "open" or "closed"
  canceled,    \* the context of Start is canceled
  stopping,    \* the context of the group's tasks is canceled
  pc,          \* pc[p]: "none", "waiting" or "left"
  queue,       \* queue[p]: how many tasks are in the channel of p
  ended,       \* group.Run has returned
  asked,       \* Collect has been called
  closing,     \* Close has been called
  crash        \* why the process died: "no" as long as it lives

vars == <<started, done, canceled, stopping, pc, queue, ended, asked, closing, crash>>

Reasons == {"no", "nil hub", "closed channel", "negative counter", "double close"}

TypeOK ==
  /\ started \in BOOLEAN
  /\ done \in {"nil", "open", "closed"}
  /\ canceled \in BOOLEAN
  /\ stopping \in BOOLEAN
  /\ pc \in [Producers -> {"none", "waiting", "left"}]
  /\ queue \in [Producers -> 0 .. QueueLen]
  /\ ended \in BOOLEAN
  /\ asked \in BOOLEAN
  /\ closing \in BOOLEAN

Init ==
  /\ started = FALSE
  /\ done = "nil"
  /\ canceled = FALSE
  /\ stopping = FALSE
  /\ pc = [p \in Producers |-> "none"]
  /\ queue = [p \in Producers |-> 0]
  /\ ended = FALSE
  /\ asked = FALSE
  /\ closing = FALSE
  /\ crash = "no"

-----------------------------------------------------------------------------
\* Start returns before the goroutine it leaves makes c.done; a second Start does nothing.
Start ==
  /\ started' = TRUE
  /\ UNCHANGED <<done, canceled, stopping, pc, queue, ended, asked, closing, crash>>

MakeDone ==
  /\ started
  /\ done = "nil"
  /\ done' = "open"
  /\ UNCHANGED <<started, canceled, stopping, pc, queue, ended, asked, closing, crash>>

Cancel ==
  /\ ~canceled
  /\ canceled' = TRUE
  /\ UNCHANGED <<started, done, stopping, pc, queue, ended, asked, closing, crash>>

Subscribe(p) ==
  /\ done # "nil"
  /\ pc[p] = "none"
  /\ pc' = [pc EXCEPT ![p] = "waiting"]
  /\ UNCHANGED <<started, done, canceled, stopping, queue, ended, asked, closing, crash>>

\* Slip: a producer watches its context only.
StopsSlip == canceled \/ stopping
Stops == done = "closed" \/ canceled \/ stopping

\* A producer leaves with an error, and FastFail cancels the others.  Unsubscribe closes
\* its channel, which stays in the hub.
\* Slip: it closes c.done for the others.
LeaveSlip(p) ==
  /\ pc[p] = "waiting"
  /\ Stops
  /\ pc' = [pc EXCEPT ![p] = "left"]
  /\ stopping' = TRUE
  /\ done' = "closed"
  /\ UNCHANGED <<started, canceled, queue, ended, asked, closing, crash>>

Leave(p) ==
  /\ pc[p] = "waiting"
  /\ Stops
  /\ pc' = [pc EXCEPT ![p] = "left"]
  /\ stopping' = TRUE
  /\ UNCHANGED <<started, done, canceled, queue, ended, asked, closing, crash>>

\* Whether the task was canceled, failed or went well, the producer ends with wg.Done,
\* and nobody has called wg.Add.
HandleTask(p) ==
  /\ pc[p] = "waiting"
  /\ queue[p] > 0
  /\ crash' = "negative counter"
  /\ UNCHANGED <<started, done, canceled, stopping, pc, queue, ended, asked, closing>>

\* close(c.done), which the end of the group and Close share.
CloseDone ==
  IF done = "closed"
  THEN crash' = "double close" /\ UNCHANGED done
  ELSE done' = "closed" /\ UNCHANGED crash

GroupEnds ==
  /\ ~ended
  /\ \A p \in Producers : pc[p] = "left"
  /\ ended' = TRUE
  /\ CloseDone
  /\ UNCHANGED <<started, canceled, stopping, pc, queue, asked, closing>>

\* channelSubscriber.publish: a task for a full channel is dropped.
Publish(k) == IF k < QueueLen THEN k + 1 ELSE k

\* Collect: the hub sends to every channel it ever registered; wg.Wait waits for
\* nothing.
Collect ==
  /\ asked' = TRUE
  /\ IF ~started THEN crash' = "nil hub" /\ UNCHANGED queue
     ELSE IF \E p \in Producers : pc[p] = "left" THEN crash' = "closed channel" /\ UNCHANGED queue
     ELSE /\ queue' = [p \in Producers |-> IF pc[p] = "waiting" THEN Publish(queue[p]) ELSE queue[p]]
          /\ UNCHANGED crash
  /\ UNCHANGED <<started, done, canceled, stopping, pc, ended, closing>>

\* Close: what it receives from a closed channel says so, and it closes it again.
Close ==
  /\ closing' = TRUE
  /\ IF done = "nil" THEN UNCHANGED <<done, crash>> ELSE CloseDone
  /\ UNCHANGED <<started, canceled, stopping, pc, queue, ended, asked>>

-----------------------------------------------------------------------------
\* What runs by itself after Start.
Background ==
  \/ MakeDone \/ GroupEnds
  \/ \E p \in Producers : Subscribe(p) \/ Leave(p) \/ HandleTask(p)
===============================================================================
