----------------------------- MODULE SingleFlight -----------------------------
(***************************************************************************)
(* singleflight.Group (src/enhancements/singleflight/singleflight.go): the *)
(* first caller of Do or DoChan for a key makes a call, later ones join it *)
(* while it is in the map, and all get its result.                         *)
(*                                                                         *)
(* A caller makes one request.  A call is named after the caller that made *)
(* it, so the records of type call are functions of Callers.  A critical   *)
(* section of g.mu is one step, but for the one that never ends: a panic   *)
(* with channels waiting keeps the mutex (stuck) until the process is gone *)
(* (crashed).  The function a call runs may return (a value or an error:   *)
(* "result"), panic, or end its goroutine with runtime.Goexit.             *)
(* An operator whose name ends in Slip is one with a plausible mistake.    *)
(***************************************************************************)
EXTENDS Integers, FiniteSets

CONSTANTS Callers, Keys

VARIABLES
  m,          \* m[k]: the call in g.m[k], NoCall if there is none
  key,        \* key[c]: the key of call c
  dups,       \* dups[c]: c.dups
  chans,      \* chans[c]: the callers whose channels are in c.chans
  outcome,    \* outcome[c]: what c.val and c.err hold, "none" before the function ends
  run,        \* run[c]: where doCall is: "none", "fn", "complete" or "done"
  done,       \* the calls whose WaitGroup is done
  pc,         \* pc[r]: where caller r is
  joined,     \* joined[r]: the call caller r got its result from, NoCall before
  shared,     \* shared[r]: the third result of Do, Result.Shared of DoChan
  forgotten,  \* the calls that were in the map when their key was forgotten
  stuck,      \* a doCall waits in select {} with the mutex locked
  crashed     \* the process has died of a panic

callVars == <<dups, chans, outcome, run, done>>
processVars == <<stuck, crashed>>
vars == <<m, key, callVars, pc, joined, shared, forgotten, processVars>>

NoCall == "no call"
NoKey == "no key"

ASSUME CallerAssumption == IsFiniteSet(Callers) /\ NoCall \notin Callers
ASSUME KeyAssumption == NoKey \notin Keys

Outcomes == {"result", "panic", "goexit"}
\* How a request can end: with a result, with the panic or with Goexit.
Ended == {"returned", "panicked", "exited"}

TypeOK ==
  /\ m \in [Keys -> Callers \cup {NoCall}]
  /\ key \in [Callers -> Keys \cup {NoKey}]
  /\ dups \in [Callers -> 0 .. Cardinality(Callers) - 1]
  /\ chans \in [Callers -> SUBSET Callers]
  /\ outcome \in [Callers -> Outcomes \cup {"none"}]
  /\ run \in [Callers -> {"none", "fn", "complete", "done"}]
  /\ done \in SUBSET Callers
  /\ pc \in [Callers -> {"idle", "owner", "waiter", "listener"} \cup Ended]
  /\ joined \in [Callers -> Callers \cup {NoCall}]
  /\ shared \in [Callers -> BOOLEAN]
  /\ forgotten \in SUBSET Callers
  /\ stuck \in BOOLEAN
  /\ crashed \in BOOLEAN

Init ==
  /\ m = [k \in Keys |-> NoCall]
  /\ key = [c \in Callers |-> NoKey]
  /\ dups = [c \in Callers |-> 0]
  /\ chans = [c \in Callers |-> {}]
  /\ outcome = [c \in Callers |-> "none"]
  /\ run = [c \in Callers |-> "none"]
  /\ done = {}
  /\ pc = [r \in Callers |-> "idle"]
  /\ joined = [r \in Callers |-> NoCall]
  /\ shared = [r \in Callers |-> FALSE]
  /\ forgotten = {}
  /\ stuck = FALSE
  /\ crashed = FALSE

-----------------------------------------------------------------------------
\* Requests.  waiting is "waiter" for Do and "listener" for DoChan.

\* Slips: a channel is not counted; a channel is not kept.
UncountedJoinSlip(r, k, waiting) ==
  /\ m[k] # NoCall
  /\ dups' = [dups EXCEPT ![m[k]] = IF waiting = "listener" THEN @ ELSE @ + 1]
  /\ chans' = [chans EXCEPT ![m[k]] = IF waiting = "listener" THEN @ \cup {r} ELSE @]
  /\ joined' = [joined EXCEPT ![r] = m[k]]
  /\ pc' = [pc EXCEPT ![r] = waiting]
  /\ UNCHANGED <<m, key, run>>

LostJoinSlip(r, k, waiting) ==
  /\ m[k] # NoCall
  /\ dups' = [dups EXCEPT ![m[k]] = @ + 1]
  /\ joined' = [joined EXCEPT ![r] = m[k]]
  /\ pc' = [pc EXCEPT ![r] = waiting]
  /\ UNCHANGED <<m, key, run, chans>>

Join(r, k, waiting) ==
  /\ m[k] # NoCall
  /\ dups' = [dups EXCEPT ![m[k]] = @ + 1]
  /\ chans' = [chans EXCEPT ![m[k]] = IF waiting = "listener" THEN @ \cup {r} ELSE @]
  /\ joined' = [joined EXCEPT ![r] = m[k]]
  /\ pc' = [pc EXCEPT ![r] = waiting]
  /\ UNCHANGED <<m, key, run>>

Create(r, k, waiting) ==
  /\ m[k] = NoCall
  /\ m' = [m EXCEPT ![k] = r]
  /\ key' = [key EXCEPT ![r] = k]
  /\ chans' = [chans EXCEPT ![r] = IF waiting = "listener" THEN {r} ELSE {}]
  /\ run' = [run EXCEPT ![r] = "fn"]
  /\ joined' = [joined EXCEPT ![r] = r]
  /\ pc' = [pc EXCEPT ![r] = IF waiting = "listener" THEN "listener" ELSE "owner"]
  /\ UNCHANGED dups

Request(r, k, waiting) ==
  /\ ~stuck
  /\ pc[r] = "idle"
  /\ Join(r, k, waiting) \/ Create(r, k, waiting)
  /\ UNCHANGED <<outcome, done, shared, forgotten, processVars>>

Do(r, k) == Request(r, k, "waiter")
DoChan(r, k) == Request(r, k, "listener")

Forget(k) ==
  /\ ~stuck
  /\ m[k] # NoCall
  /\ m' = [m EXCEPT ![k] = NoCall]
  /\ forgotten' = forgotten \cup {m[k]}
  /\ UNCHANGED <<key, callVars, pc, joined, shared, processVars>>

-----------------------------------------------------------------------------
\* doCall.

FunctionEnds(c, o) ==
  /\ run[c] = "fn"
  /\ outcome' = [outcome EXCEPT ![c] = o]
  /\ run' = [run EXCEPT ![c] = "complete"]
  /\ UNCHANGED <<m, key, dups, chans, done, pc, joined, shared, forgotten, processVars>>

\* Release(c): the map after the call is over; a newer call may have its place.
\* Slips: it is released whoever has it; it is never released.
ReleaseAnySlip(c) == [m EXCEPT ![key[c]] = NoCall]
ReleaseNoneSlip(c) == [m EXCEPT ![key[c]] = @]
Release(c) == [m EXCEPT ![key[c]] = IF @ = c THEN NoCall ELSE @]

\* What happens to the caller that runs doCall itself, and to the channels.
Outgoing(c) ==
  [r \in Callers |->
     IF r = c /\ pc[r] = "owner" /\ outcome[c] = "panic" /\ chans[c] = {} THEN "panicked"
     ELSE IF r = c /\ pc[r] = "owner" /\ outcome[c] = "goexit" THEN "exited"
     ELSE IF r \in chans[c] /\ outcome[c] = "result" THEN "returned"
     ELSE pc[r]]

\* A panic waits for the end of the process if there are channels.
KeepsLock(c) == outcome[c] = "panic" /\ chans[c] # {}

\* The deferred function: Done, delete, and the answer to the channels, whose buffer
\* of one always has room.
Complete(c) ==
  /\ ~stuck
  /\ run[c] = "complete"
  /\ run' = [run EXCEPT ![c] = "done"]
  /\ done' = done \cup {c}
  /\ m' = Release(c)
  /\ stuck' = KeepsLock(c)
  /\ pc' = Outgoing(c)
  /\ shared' = [r \in Callers |->
                  IF r \in chans[c] /\ pc'[r] = "returned" THEN dups[c] > 0 ELSE shared[r]]
  /\ UNCHANGED <<key, dups, chans, outcome, joined, forgotten, crashed>>

\* go panic(e): nothing can recover it.
Crash ==
  /\ stuck
  /\ crashed' = TRUE
  /\ UNCHANGED <<m, key, callVars, pc, joined, shared, forgotten, stuck>>

-----------------------------------------------------------------------------
\* The ends of Do.

\* return c.val, c.err, c.dups > 0: without the mutex.
OwnerReturns(r) ==
  /\ pc[r] = "owner"
  /\ r \in done
  /\ outcome[r] = "result"
  /\ pc' = [pc EXCEPT ![r] = "returned"]
  /\ shared' = [shared EXCEPT ![r] = dups[r] > 0]
  /\ UNCHANGED <<m, key, callVars, joined, forgotten, processVars>>

\* Slip: a joined caller of Do does not look for a panic.
WaiterEndsSlip(r) ==
  /\ pc[r] = "waiter"
  /\ joined[r] \in done
  /\ pc' = [pc EXCEPT ![r] = IF outcome[joined[r]] = "goexit" THEN "exited" ELSE "returned"]
  /\ shared' = [shared EXCEPT ![r] = TRUE]
  /\ UNCHANGED <<m, key, callVars, joined, forgotten, processVars>>

\* A joined caller of Do gets the result, the panic or the Goexit of the call.
WaiterEnds(r) ==
  /\ pc[r] = "waiter"
  /\ joined[r] \in done
  /\ pc' = [pc EXCEPT ![r] = CASE outcome[joined[r]] = "panic"  -> "panicked"
                               [] outcome[joined[r]] = "goexit" -> "exited"
                               [] OTHER                         -> "returned"]
  /\ shared' = [shared EXCEPT ![r] = TRUE]
  /\ UNCHANGED <<m, key, callVars, joined, forgotten, processVars>>

-----------------------------------------------------------------------------
Next ==
  /\ ~crashed
  /\ \/ \E r \in Callers, k \in Keys : Do(r, k) \/ DoChan(r, k)
     \/ \E k \in Keys : Forget(k)
     \/ \E c \in Callers, o \in Outcomes : FunctionEnds(c, o)
     \/ \E c \in Callers : Complete(c) \/ OwnerReturns(c) \/ WaiterEnds(c)
     \/ Crash

Spec == Init /\ [][Next]_vars

\* The goroutines that can proceed do.  A function may run forever, and nobody has to
\* make a request.
Fairness ==
  /\ WF_vars(~crashed /\ Crash)
  /\ \A c \in Callers :
       /\ WF_vars(~crashed /\ Complete(c))
       /\ WF_vars(~crashed /\ OwnerReturns(c))
       /\ WF_vars(~crashed /\ WaiterEnds(c))

FairSpec == Spec /\ Fairness

-----------------------------------------------------------------------------
Running(c) == run[c] \in {"fn", "complete"}
Sharers(c) == {r \in Callers : joined[r] = c}

\* At most one execution of the function is in flight for a key, unless Forget was
\* called while it ran (lines 86-88); it is the one in the map, so that the end of a
\* forgotten call does not free the key for a second one (line 159).
OneInFlight ==
  \A k \in Keys :
    LET flying == {c \in Callers : key[c] = k /\ Running(c) /\ c \notin forgotten}
    IN  flying = IF m[k] = NoCall THEN {} ELSE {m[k]}

\* Nobody gets the result of a call that was over, or forgotten, before the request
\* (the comment of Forget, lines 207-209).
NeverStale ==
  [][\A r \in Callers :
       joined'[r] # joined[r] => joined[r] = NoCall /\ joined'[r] \notin done \cup forgotten]_vars

\* Who returns, returns after the call is over and with its result, and shared says
\* whether somebody else was given it too (line 90): also to the owner, which reads
\* dups without the mutex.
SharedIsTrue ==
  \A r \in Callers : pc[r] = "returned" =>
    /\ joined[r] \in done
    /\ outcome[joined[r]] = "result"
    /\ shared[r] <=> Sharers(joined[r]) # {r}

\* How a caller of a call with that outcome ends.
Ending == [result |-> "returned", panic |-> "panicked", goexit |-> "exited"]

\* A panic or a Goexit of the function is the end of every caller of Do, whoever runs
\* the function and whoever joins it, before or after the function is over: none of
\* them ends in another way (lines 78-84 and 163-180).  Who still waits when the call is
\* over waits because the process is about to die, or listens at a channel that a Goexit
\* leaves without an answer.
FailureReachesAll ==
  \A r \in Callers :
    /\ pc[r] \in Ended => pc[r] = Ending[outcome[joined[r]]]
    /\ pc[r] \in {"owner", "listener"} /\ joined[r] \in done =>
         /\ outcome[joined[r]] = "panic" => stuck
         /\ outcome[joined[r]] = "goexit" => pc[r] = "listener"
         /\ outcome[joined[r]] = "result" => pc[r] = "owner"

\* Once the function has ended every caller gets an answer or the process dies: a
\* channel "will receive the results" (lines 117-118), except when the function ends
\* with Goexit: doCall then answers no channel (lines 172-173).
EveryCallerEnds ==
  \A r \in Callers :
    joined[r] # NoCall /\ run[joined[r]] = "complete"
      ~> pc[r] \in Ended \/ crashed \/ (pc[r] = "listener" /\ outcome[joined[r]] = "goexit")
===============================================================================
