------------------------------ MODULE ThreadGroup ------------------------------
(***************************************************************************)
(* threads.Group (src/threads/group.go): the tasks appended to a Group are *)
(* run by one goroutine each, at most n of them at a time when             *)
(* Concurrency(n) was called, and Run returns when all of them are done.   *)
(*                                                                         *)
(* The owner of the Group calls its builder methods and then Run, possibly *)
(* several times: Runs is the set of calls of Run, which may follow one    *)
(* another or overlap, and all share g.queue.  The variables are           *)
(*   - the Group's fields (tasks, limit/tokens for queue, fastFail,        *)
(*     cleanup);                                                           *)
(*   - the two contexts of a call (ctx and its child, taskCancelContext,   *)
(*     whose cause is why it was cancelled; taskContext, done when         *)
(*     finished);                                                          *)
(*   - what the goroutines of a call share under errorAccess (count, errs);*)
(*   - the control state of Run (main) and of each goroutine (pc).         *)
(* A critical section of errorAccess is one step: nobody reads count or    *)
(* errs outside it before taskContext is done.                             *)
(*                                                                         *)
(* An operator whose name ends in Slip is the definition after it with a   *)
(* plausible mistake.  No specification uses it: it is there to show that  *)
(* a property notices the mistake.                                         *)
(***************************************************************************)
EXTENDS Integers, FiniteSets

CONSTANTS Runs,      \* the calls of Run on the one Group
          Tasks,     \* the tasks the owner may append
          MaxSlots   \* the largest n the owner passes to Concurrency

ASSUME GroupAssumption ==
  /\ IsFiniteSet(Tasks)
  /\ IsFiniteSet(Runs)
  /\ MaxSlots \in Nat

VARIABLES
  tasks,      \* g.tasks
  fastFail,   \* g.fastFail
  cleanup,    \* g.cleanup # nil
  limit,      \* cap(g.queue), NoQueue while g.queue is nil
  tokens,     \* len(g.queue): the free slots
  unfilled,   \* the sends the fill loop of Concurrency has still to do
  holding,    \* the goroutines whose slot came out of the present g.queue
  foreign,    \* slots in the present g.queue that its fill loop did not put there
  ctx,        \* ctx[r]: the context passed to Run is done
  cause,      \* cause[r]: why taskCancelContext is done, "none" while it is not
  finished,   \* finished[r]: taskContext is done
  roster,     \* roster[r]: g.tasks as Run's loop ranges over it
  count,      \* count[r]: taskCount
  failed,     \* failed[r]: the tasks whose function returned an error
  errs,       \* errs[r]: the tasks whose errors are joined in returnError
  main,       \* main[r]: where Run is
  upstream,   \* upstream[r]: upstreamErr
  result,     \* result[r]: the tasks whose errors Run returned
  pc          \* pc[r][t]: where the goroutine of task t is

groupVars   == <<tasks, fastFail, cleanup>>
queueVars   == <<limit, tokens, unfilled, holding, foreign>>
contextVars == <<ctx, cause, finished>>
sharedVars  == <<roster, count, failed, errs>>
mainVars    == <<main, upstream, result>>
vars == <<groupVars, queueVars, contextVars, sharedVars, mainVars, pc>>

NoQueue == -1

\* A goroutine whose task still counts in taskCount.
Uncounted == {"new", "queued", "running", "ran"}

Causes == {"none", "upstream", "failed", "succeeded"}
RunStates == {"idle", "spawn", "select", "cleanup", "await", "returned"}
GoroutineStates == Uncounted \cup {"last", "finish", "return", "gone", "skipped"}

TypeOK ==
  /\ tasks \in SUBSET Tasks
  /\ fastFail \in BOOLEAN
  /\ cleanup \in BOOLEAN
  /\ limit \in {NoQueue} \cup 0 .. MaxSlots
  /\ tokens \in Nat
  /\ unfilled \in Nat
  /\ holding \in SUBSET (Runs \X Tasks)
  /\ foreign \in Nat
  /\ ctx \in [Runs -> BOOLEAN]
  /\ cause \in [Runs -> Causes]
  /\ finished \in [Runs -> BOOLEAN]
  /\ roster \in [Runs -> SUBSET Tasks]
  /\ count \in [Runs -> Int]
  /\ failed \in [Runs -> SUBSET Tasks]
  /\ errs \in [Runs -> SUBSET Tasks]
  /\ main \in [Runs -> RunStates]
  /\ upstream \in [Runs -> BOOLEAN]
  /\ result \in [Runs -> SUBSET Tasks]
  /\ pc \in [Runs -> [Tasks -> GoroutineStates]]

Init ==
  /\ tasks = {} /\ fastFail = FALSE /\ cleanup = FALSE
  /\ limit = NoQueue /\ tokens = 0 /\ unfilled = 0 /\ holding = {} /\ foreign = 0
  /\ ctx = [r \in Runs |-> FALSE]
  /\ cause = [r \in Runs |-> "none"]
  /\ finished = [r \in Runs |-> FALSE]
  /\ roster = [r \in Runs |-> {}]
  /\ count = [r \in Runs |-> 0]
  /\ failed = [r \in Runs |-> {}]
  /\ errs = [r \in Runs |-> {}]
  /\ main = [r \in Runs |-> "idle"]
  /\ upstream = [r \in Runs |-> FALSE]
  /\ result = [r \in Runs |-> {}]
  /\ pc = [r \in Runs |-> [t \in Tasks |-> "new"]]

-----------------------------------------------------------------------------
\* The owner builds the Group while no call of Run is in progress.  Goroutines of
\* a call that has returned may still be giving back their slots.

Quiet == unfilled = 0 /\ \A r \in Runs : main[r] \in {"idle", "returned"}

\* Append and Append0: the name only decorates the task's error.
AppendTask(t) ==
  /\ Quiet
  /\ t \notin tasks
  /\ tasks' = tasks \cup {t}
  /\ UNCHANGED <<fastFail, cleanup, queueVars, contextVars, sharedVars, mainVars, pc>>

FastFail ==
  /\ Quiet
  /\ fastFail' = TRUE
  /\ UNCHANGED <<tasks, cleanup, queueVars, contextVars, sharedVars, mainVars, pc>>

Cleanup ==
  /\ Quiet
  /\ cleanup' = TRUE
  /\ UNCHANGED <<tasks, fastFail, queueVars, contextVars, sharedVars, mainVars, pc>>

\* Concurrency(n) replaces the channel: slots taken from the old one stay out of
\* the new one.  Its loop then sends n times, and a send blocks on a full channel.
Concurrency(n) ==
  /\ Quiet
  /\ limit' = n
  /\ tokens' = 0
  /\ unfilled' = n
  /\ holding' = {}
  /\ foreign' = 0
  /\ UNCHANGED <<groupVars, contextVars, sharedVars, mainVars, pc>>

FillSlot ==
  /\ unfilled > 0
  /\ tokens < limit
  /\ tokens' = tokens + 1
  /\ unfilled' = unfilled - 1
  /\ UNCHANGED <<groupVars, limit, holding, foreign, contextVars, sharedVars, mainVars, pc>>

-----------------------------------------------------------------------------
\* The contexts.

\* Slip: the last cause wins.
CancelTasksSlip(r, why) == cause' = [cause EXCEPT ![r] = why]

\* taskCancel(why): a context keeps the first cause it was cancelled with.
CancelTasks(r, why) ==
  cause' = [cause EXCEPT ![r] = IF @ = "none" THEN why ELSE @]

\* The caller cancels the context it passes to Run, or its deadline passes.
CancelCaller(r) ==
  /\ ~ctx[r]
  /\ main[r] # "returned"
  /\ ctx' = [ctx EXCEPT ![r] = TRUE]
  /\ UNCHANGED <<groupVars, queueVars, cause, finished, sharedVars, mainVars, pc>>

\* A context closes its own channel before it cancels its children.
Propagate(r) ==
  /\ main[r] # "idle"
  /\ ctx[r]
  /\ cause[r] = "none"
  /\ CancelTasks(r, "upstream")
  /\ UNCHANGED <<groupVars, queueVars, ctx, finished, sharedVars, mainVars, pc>>

-----------------------------------------------------------------------------
\* Run's own goroutine.

StartRun(r) ==
  /\ main[r] = "idle"
  /\ unfilled = 0
  /\ main' = [main EXCEPT ![r] = "spawn"]
  /\ roster' = [roster EXCEPT ![r] = tasks]
  /\ count' = [count EXCEPT ![r] = Cardinality(tasks)]
  /\ cause' = [cause EXCEPT ![r] = IF ctx[r] THEN "upstream" ELSE "none"]
  /\ UNCHANGED <<groupVars, queueVars, ctx, finished, failed, errs,
                 upstream, result, pc>>

\* go func() {...}: a goroutine without a queue goes straight to its task.
Spawn(r, t) ==
  /\ main[r] = "spawn"
  /\ t \in roster[r]
  /\ pc[r][t] = "new"
  /\ pc' = [pc EXCEPT ![r][t] = IF limit = NoQueue THEN "running" ELSE "queued"]
  /\ UNCHANGED <<groupVars, queueVars, contextVars, sharedVars, mainVars>>

SpawnDone(r) ==
  /\ main[r] = "spawn"
  /\ \A t \in roster[r] : pc[r][t] # "new"
  /\ main' = [main EXCEPT ![r] = "select"]
  /\ UNCHANGED <<groupVars, queueVars, contextVars, sharedVars, upstream, result, pc>>

AfterSelect == IF cleanup THEN "cleanup" ELSE "await"

\* The select takes either ready case, so after the caller's cancellation Run may
\* go either way.
SelectStopped(r) ==
  /\ main[r] = "select"
  /\ cause[r] # "none"
  /\ main' = [main EXCEPT ![r] = AfterSelect]
  /\ UNCHANGED <<groupVars, queueVars, contextVars, sharedVars, upstream, result, pc>>

SelectUpstream(r) ==
  /\ main[r] = "select"
  /\ ctx[r]
  /\ upstream' = [upstream EXCEPT ![r] = TRUE]
  /\ CancelTasks(r, "upstream")
  /\ main' = [main EXCEPT ![r] = AfterSelect]
  /\ UNCHANGED <<groupVars, queueVars, ctx, finished, sharedVars, result, pc>>

CallCleanup(r) ==
  /\ main[r] = "cleanup"
  /\ main' = [main EXCEPT ![r] = "await"]
  /\ UNCHANGED <<groupVars, queueVars, contextVars, sharedVars, upstream, result, pc>>

\* Slip: Run does not wait for taskContext.
ReturnSlip(r) ==
  /\ main[r] = "await"
  /\ main' = [main EXCEPT ![r] = "returned"]
  /\ result' = [result EXCEPT ![r] = IF upstream[r] THEN {} ELSE errs[r]]
  /\ UNCHANGED <<groupVars, queueVars, contextVars, sharedVars, upstream, pc>>

\* With upstreamErr the tasks' errors are dropped for ctx.Err().
Return(r) ==
  /\ main[r] = "await"
  /\ finished[r]
  /\ main' = [main EXCEPT ![r] = "returned"]
  /\ result' = [result EXCEPT ![r] = IF upstream[r] THEN {} ELSE errs[r]]
  /\ UNCHANGED <<groupVars, queueVars, contextVars, sharedVars, upstream, pc>>

-----------------------------------------------------------------------------
\* The goroutine of task t.

\* Slip: a default case in the select, so nobody waits for a slot.
TakeSlotSlip(r, t) ==
  /\ pc[r][t] = "queued"
  /\ tokens' = IF tokens > 0 THEN tokens - 1 ELSE 0
  /\ holding' = holding \cup {<<r, t>>}
  /\ pc' = [pc EXCEPT ![r][t] = "running"]
  /\ UNCHANGED <<groupVars, limit, unfilled, foreign, contextVars, sharedVars, mainVars>>

TakeSlot(r, t) ==
  /\ pc[r][t] = "queued"
  /\ tokens > 0
  /\ tokens' = tokens - 1
  /\ holding' = holding \cup {<<r, t>>}
  /\ pc' = [pc EXCEPT ![r][t] = "running"]
  /\ UNCHANGED <<groupVars, limit, unfilled, foreign, contextVars, sharedVars, mainVars>>

\* Slip: the last goroutine to be skipped does not end the call.
SkipSlip(r, t) ==
  /\ pc[r][t] = "queued"
  /\ cause[r] # "none"
  /\ count' = [count EXCEPT ![r] = @ - 1]
  /\ pc' = [pc EXCEPT ![r][t] = "skipped"]
  /\ UNCHANGED <<groupVars, queueVars, contextVars, roster, failed, errs, mainVars>>

\* Cancelled before it got a slot: the task never runs, and counts as done.
Skip(r, t) ==
  /\ pc[r][t] = "queued"
  /\ cause[r] # "none"
  /\ count' = [count EXCEPT ![r] = @ - 1]
  /\ finished' = [finished EXCEPT ![r] = @ \/ count'[r] = 0]
  /\ pc' = [pc EXCEPT ![r][t] = "skipped"]
  /\ UNCHANGED <<groupVars, queueVars, ctx, cause, roster, failed, errs, mainVars>>

\* The task's function returns, with an error or without.
TaskReturns(r, t) ==
  /\ pc[r][t] = "running"
  /\ pc' = [pc EXCEPT ![r][t] = "ran"]
  /\ failed' \in {failed, [failed EXCEPT ![r] = @ \cup {t}]}
  /\ UNCHANGED <<groupVars, queueVars, contextVars, roster, count, errs, mainVars>>

\* Slips: the error is assigned and not joined; it only cancels the others; the
\* count is compared before it is decremented.
CountDownSlip(r, t, assigned, dropped, early) ==
  /\ pc[r][t] = "ran"
  /\ IF t \in failed[r]
       THEN /\ errs' = [errs EXCEPT ![r] = IF assigned THEN {t}
                                          ELSE IF dropped /\ fastFail THEN @ ELSE @ \cup {t}]
            /\ IF fastFail THEN CancelTasks(r, "failed") ELSE UNCHANGED cause
       ELSE UNCHANGED <<errs, cause>>
  /\ count' = [count EXCEPT ![r] = @ - 1]
  /\ pc' = [pc EXCEPT ![r][t] = IF count'[r] = (IF early THEN 1 ELSE 0) THEN "last" ELSE "return"]
  /\ UNCHANGED <<groupVars, queueVars, ctx, finished, roster, failed, mainVars>>

AssignedErrorSlip(r, t) == CountDownSlip(r, t, TRUE, FALSE, FALSE)
DroppedErrorSlip(r, t) == CountDownSlip(r, t, FALSE, TRUE, FALSE)
EarlyCountSlip(r, t) == CountDownSlip(r, t, FALSE, FALSE, TRUE)

\* errorAccess.Lock() ... Unlock(): join the error, fail fast, count down.
CountDown(r, t) ==
  /\ pc[r][t] = "ran"
  /\ IF t \in failed[r]
       THEN /\ errs' = [errs EXCEPT ![r] = @ \cup {t}]
            /\ IF fastFail THEN CancelTasks(r, "failed") ELSE UNCHANGED cause
       ELSE UNCHANGED <<errs, cause>>
  /\ count' = [count EXCEPT ![r] = @ - 1]
  /\ pc' = [pc EXCEPT ![r][t] = IF count'[r] = 0 THEN "last" ELSE "return"]
  /\ UNCHANGED <<groupVars, queueVars, ctx, finished, roster, failed, mainVars>>

\* The goroutine that counted down to zero ends both contexts.
CancelLast(r, t) ==
  /\ pc[r][t] = "last"
  /\ CancelTasks(r, "succeeded")
  /\ pc' = [pc EXCEPT ![r][t] = "finish"]
  /\ UNCHANGED <<groupVars, queueVars, ctx, finished, sharedVars, mainVars>>

Finish(r, t) ==
  /\ pc[r][t] = "finish"
  /\ finished' = [finished EXCEPT ![r] = TRUE]
  /\ pc' = [pc EXCEPT ![r][t] = "return"]
  /\ UNCHANGED <<groupVars, queueVars, ctx, cause, sharedVars, mainVars>>

\* Slip: the slot is not given back.
GiveBackSlip(r, t) ==
  /\ pc[r][t] = "return"
  /\ pc' = [pc EXCEPT ![r][t] = "gone"]
  /\ UNCHANGED <<groupVars, queueVars, contextVars, sharedVars, mainVars>>

NotForeign(g) == IF g \in holding THEN 0 ELSE 1

\* g.queue <- struct{}{}: into whatever channel g.queue is by now, whether the slot
\* came out of it or not.  A goroutine that read g.queue before Concurrency replaced
\* it gives the slot back to the old channel, and one that reads nil to none.
GiveBack(r, t) ==
  /\ pc[r][t] = "return"
  /\ \/ /\ <<r, t>> \notin holding
        /\ UNCHANGED queueVars
     \/ /\ tokens < limit
        /\ tokens' = tokens + 1
        /\ foreign' = foreign + NotForeign(<<r, t>>)
        /\ holding' = holding \ {<<r, t>>}
        /\ UNCHANGED <<limit, unfilled>>
  /\ pc' = [pc EXCEPT ![r][t] = "gone"]
  /\ UNCHANGED <<groupVars, contextVars, sharedVars, mainVars>>

\* Concurrency(0) makes an unbuffered channel: a goroutine that gives back its slot
\* can only hand it to one that waits for it.
HandOver(r, t, s, u) ==
  /\ limit = 0
  /\ pc[r][t] = "return"
  /\ pc[s][u] = "queued"
  /\ foreign' = foreign + NotForeign(<<r, t>>)
  /\ holding' = (holding \ {<<r, t>>}) \cup {<<s, u>>}
  /\ pc' = [pc EXCEPT ![r][t] = "gone", ![s][u] = "running"]
  /\ UNCHANGED <<groupVars, limit, tokens, unfilled, contextVars, sharedVars, mainVars>>

-----------------------------------------------------------------------------
Owner ==
  \/ \E t \in Tasks : AppendTask(t)
  \/ FastFail
  \/ Cleanup
  \/ \E n \in 0 .. MaxSlots : Concurrency(n)
  \/ FillSlot

Run(r) ==
  \/ StartRun(r)
  \/ SpawnDone(r)
  \/ SelectStopped(r)
  \/ SelectUpstream(r)
  \/ CallCleanup(r)
  \/ Return(r)

Goroutine(r, t) ==
  \/ Spawn(r, t)
  \/ TakeSlot(r, t)
  \/ Skip(r, t)
  \/ TaskReturns(r, t)
  \/ CountDown(r, t)
  \/ CancelLast(r, t)
  \/ Finish(r, t)
  \/ GiveBack(r, t)

Next ==
  \/ Owner
  \/ \E r \in Runs : CancelCaller(r) \/ Propagate(r) \/ Run(r)
  \/ \E r \in Runs, t \in Tasks : Goroutine(r, t)
  \/ \E r, s \in Runs, t, u \in Tasks : HandOver(r, t, s, u)

Spec == Init /\ [][Next]_vars

\* The Go scheduler runs every goroutine that can proceed, cleanup returns, and a
\* task returns once its context is cancelled.  Nothing else is fair: the owner and
\* the caller may do nothing, and a task that nobody cancels may run forever.
Fairness ==
  \A r \in Runs :
    /\ WF_vars(Propagate(r))
    /\ WF_vars(SpawnDone(r))
    /\ WF_vars(SelectStopped(r) \/ SelectUpstream(r))
    /\ WF_vars(CallCleanup(r))
    /\ WF_vars(Return(r))
    /\ \A t \in Tasks :
         /\ WF_vars(Spawn(r, t))
         /\ WF_vars(TakeSlot(r, t) \/ Skip(r, t))
         /\ WF_vars(cause[r] # "none" /\ TaskReturns(r, t))
         /\ WF_vars(CountDown(r, t))
         /\ WF_vars(CancelLast(r, t))
         /\ WF_vars(Finish(r, t))
         /\ WF_vars(GiveBack(r, t) \/ \E s \in Runs, u \in Tasks : HandOver(r, t, s, u))

FairSpec == Spec /\ Fairness

-----------------------------------------------------------------------------
Executing == {g \in Runs \X Tasks : pc[g[1]][g[2]] = "running"}
Ran(r) == {t \in roster[r] : pc[r][t] \in {"ran", "last", "finish", "return", "gone"}}

\* Run returns only when the goroutine of every task it was started with is done
\* with the task: the function has returned and has been counted, or the task was
\* skipped (line 120 waits for taskFinish, called when taskCount reaches zero).
RunWaitsForTasks ==
  \A r \in Runs : main[r] = "returned" =>
    \A t \in roster[r] : pc[r][t] \notin Uncounted

\* Unless it returns the caller's own cancellation, Run returns the errors of all
\* the tasks that failed and of no other, whatever the order in which they finish
\* and whether or not another failure cancelled them (lines 85-97 and 126).
NoErrorLost ==
  \A r \in Runs : main[r] = "returned" /\ ~upstream[r] => result[r] = failed[r]

\* A nil answer means that every task ran and succeeded, unless the caller cancelled
\* its context: a failure that makes others skip their work is never swallowed.
NilMeansAllRan ==
  \A r \in Runs : main[r] = "returned" /\ ~upstream[r] /\ ~ctx[r] /\ result[r] = {} =>
    Ran(r) = roster[r] /\ failed[r] = {}

\* No slot is lost, whatever the order in which goroutines of several calls take and
\* give back slots, are skipped or fail: each of the n of Concurrency(n) is in the
\* channel, still to be put there by the fill loop, or owed by a goroutine that has
\* yet to come to line 103.  So when all goroutines are gone and the loop is over, n
\* tasks can run again.
Owing == {g \in Runs \X Tasks : pc[g[1]][g[2]] \in {"running", "ran", "last", "finish", "return"}}

SlotsConserved ==
  limit # NoQueue => limit <= tokens + unfilled + Cardinality(Owing)

\* At most n tasks run at a time, over all overlapping calls of Run, except that a
\* slot from a replaced channel (foreign) lets one more in.
ConcurrencyBound ==
  limit # NoQueue =>
    /\ Executing \subseteq holding
    /\ Cardinality(Executing) <= limit + foreign

\* The tasks' context tells why it was cancelled, and tells the truth: "succeeded"
\* only when every task is settled, "failed" only under FastFail with a failed task.
CauseIsTrue ==
  \A r \in Runs :
    /\ cause[r] = "succeeded" => count[r] = 0 /\ Ran(r) = roster[r]
    /\ cause[r] = "failed" => fastFail /\ errs[r] # {}
    /\ cause[r] = "upstream" => ctx[r]

\* What Run promises its caller: see RunPromise.
Outcome(r, t) ==
  IF pc[r][t] \in {"new", "queued", "running"} THEN "pending"
  ELSE IF pc[r][t] = "skipped" THEN "skipped"
  ELSE IF t \in failed[r] THEN "failed" ELSE "ok"

Phase == [r \in Runs |-> CASE main[r] = "idle" -> "idle"
                            [] main[r] = "returned" -> "answered"
                            [] OTHER -> "open"]

Outcomes == [r \in Runs |-> [t \in Tasks |-> Outcome(r, t)]]

Answers == [r \in Runs |-> IF main[r] = "returned" /\ upstream[r]
                             THEN {"ctx.Err()"} ELSE result[r]]

Abstract == INSTANCE RunPromise WITH
  phase <- Phase,
  members <- roster,
  outcome <- Outcomes,
  withdrawn <- ctx,
  stop <- cause,
  answer <- Answers

\* Every behaviour of the goroutines is one that RunPromise allows: Run answers
\* once, with the truth, when every task has an outcome.
Promise == Abstract!Spec

\* Once the tasks' context is cancelled, for any reason, Run returns: no goroutine
\* waits for a slot that never comes, and none misses the end of the call.
CancelledRunReturns ==
  \A r \in Runs :
    cause[r] # "none" /\ roster[r] # {} ~> main[r] = "returned"

\* If no task runs forever, Run returns although nobody cancels anything: the slots
\* go round, and the last task to finish always ends the call (lines 95-101).  Run
\* without tasks, and with Concurrency(0), is excluded: it does wait forever.
FinishedTasksEndRun ==
  (\A g \in Runs \X Tasks : []<>(pc[g[1]][g[2]] # "running")) =>
    \A r \in Runs :
      main[r] = "spawn" /\ roster[r] # {} /\ limit # 0 ~> main[r] = "returned"
===============================================================================
