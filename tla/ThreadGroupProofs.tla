--------------------------- MODULE ThreadGroupProofs ---------------------------
(***************************************************************************)
(* What TLC checks of ThreadGroup on small instances, proved for every     *)
(* number of tasks, of calls of Run and of slots; and, at the end, that    *)
(* its goroutines implement RunPromise.  That proof maps each step to the  *)
(* step of RunPromise it is, or to none: a task settles when its function  *)
(* returns or when it is skipped, and Run answers when it returns.         *)
(***************************************************************************)
EXTENDS ThreadGroup, FiniteSetTheorems, TLAPS

\* Every variable of ThreadGroup keeps its type: the Group's fields, the contexts
\* and the goroutines of src/threads/group.go.
THEOREM TypeCorrect == Spec => []TypeOK
<1>1. Init => TypeOK
  <2> USE DEF Causes, RunStates, GoroutineStates, Uncounted
  <2> SUFFICES ASSUME Init PROVE TypeOK
    OBVIOUS
  <2>1. tasks \in SUBSET Tasks /\ holding \in SUBSET (Runs \X Tasks)
    BY DEF Init
  <2>2. limit \in {NoQueue} \cup 0 .. MaxSlots /\ tokens \in Nat /\ unfilled \in Nat /\ foreign \in Nat
    BY DEF Init
  <2>3. /\ ctx \in [Runs -> BOOLEAN]
        /\ cause \in [Runs -> Causes]
        /\ finished \in [Runs -> BOOLEAN]
        /\ upstream \in [Runs -> BOOLEAN]
        /\ main \in [Runs -> RunStates]
    BY DEF Init
  <2>4. /\ roster \in [Runs -> SUBSET Tasks]
        /\ count \in [Runs -> Int]
        /\ failed \in [Runs -> SUBSET Tasks]
        /\ errs \in [Runs -> SUBSET Tasks]
        /\ result \in [Runs -> SUBSET Tasks]
    BY DEF Init
  <2>5. pc \in [Runs -> [Tasks -> GoroutineStates]]
    BY DEF Init
  <2> QED BY <2>1, <2>2, <2>3, <2>4, <2>5 DEF TypeOK, Init
<1>2. TypeOK /\ [Next]_vars => TypeOK'
  <2> SUFFICES ASSUME TypeOK, [Next]_vars PROVE TypeOK'
    OBVIOUS
  <2> USE DEF TypeOK, Causes, RunStates, GoroutineStates, Uncounted, groupVars, queueVars, contextVars, sharedVars, mainVars
  <2>1. ASSUME NEW t \in Tasks, AppendTask(t) PROVE TypeOK'
    BY <2>1 DEF AppendTask
  <2>2. ASSUME FastFail \/ Cleanup PROVE TypeOK'
    BY <2>2 DEF FastFail, Cleanup
  <2>3. ASSUME NEW n \in 0 .. MaxSlots, Concurrency(n) PROVE TypeOK'
    BY <2>3, GroupAssumption DEF Concurrency
  <2>4. ASSUME FillSlot PROVE TypeOK'
    BY <2>4 DEF FillSlot
  <2>5. ASSUME NEW r \in Runs, CancelCaller(r) PROVE TypeOK'
    BY <2>5 DEF CancelCaller
  <2>6. ASSUME NEW r \in Runs, Propagate(r) PROVE TypeOK'
    BY <2>6 DEF Propagate, CancelTasks
  <2>7. ASSUME NEW r \in Runs, StartRun(r) PROVE TypeOK'
    <3>1. Cardinality(tasks) \in Int
      BY GroupAssumption, FS_Subset, FS_CardinalityType
    <3> QED BY <2>7, <3>1 DEF StartRun
  <2>8. ASSUME NEW r \in Runs, SpawnDone(r) PROVE TypeOK'
    BY <2>8 DEF SpawnDone
  <2>9. ASSUME NEW r \in Runs, SelectStopped(r) PROVE TypeOK'
    BY <2>9 DEF SelectStopped, AfterSelect
  <2>10. ASSUME NEW r \in Runs, SelectUpstream(r) PROVE TypeOK'
    BY <2>10 DEF SelectUpstream, AfterSelect, CancelTasks
  <2>11. ASSUME NEW r \in Runs, CallCleanup(r) PROVE TypeOK'
    BY <2>11 DEF CallCleanup
  <2>12. ASSUME NEW r \in Runs, Return(r) PROVE TypeOK'
    BY <2>12 DEF Return
  <2>13. ASSUME NEW r \in Runs, NEW t \in Tasks, Spawn(r, t) PROVE TypeOK'
    BY <2>13 DEF Spawn
  <2>14. ASSUME NEW r \in Runs, NEW t \in Tasks, TakeSlot(r, t) PROVE TypeOK'
    BY <2>14 DEF TakeSlot
  <2>15. ASSUME NEW r \in Runs, NEW t \in Tasks, Skip(r, t) PROVE TypeOK'
    BY <2>15 DEF Skip
  <2>16. ASSUME NEW r \in Runs, NEW t \in Tasks, TaskReturns(r, t) PROVE TypeOK'
    <3>1. failed' \in [Runs -> SUBSET Tasks]
      <4>1. failed \in [Runs -> SUBSET Tasks]
        OBVIOUS
      <4>2. failed' = failed \/ failed' = [failed EXCEPT ![r] = failed[r] \cup {t}]
        BY ONLY <2>16 DEF TaskReturns
      <4> QED BY ONLY <4>1, <4>2, r \in Runs, t \in Tasks
    <3> QED BY <2>16, <3>1 DEF TaskReturns
  <2>17. ASSUME NEW r \in Runs, NEW t \in Tasks, CountDown(r, t) PROVE TypeOK'
    <3>1. errs' \in [Runs -> SUBSET Tasks] /\ cause' \in [Runs -> Causes]
      <4>1. CASE t \notin failed[r]
        BY <2>17, <4>1 DEF CountDown
      <4>2. CASE t \in failed[r]
        <5>1. errs' = [errs EXCEPT ![r] = @ \cup {t}]
          BY <2>17, <4>2 DEF CountDown
        <5>2. cause' = cause \/ cause' = [cause EXCEPT ![r] = IF @ = "none" THEN "failed" ELSE @]
          BY <2>17, <4>2 DEF CountDown, CancelTasks
        <5> QED BY <5>1, <5>2
      <4> QED BY <4>1, <4>2
    <3>2. count' \in [Runs -> Int]
      BY <2>17 DEF CountDown
    <3>3. pc' \in [Runs -> [Tasks -> GoroutineStates]]
      BY <2>17 DEF CountDown
    <3> QED BY <2>17, <3>1, <3>2, <3>3 DEF CountDown
  <2>18. ASSUME NEW r \in Runs, NEW t \in Tasks, CancelLast(r, t) PROVE TypeOK'
    BY <2>18 DEF CancelLast, CancelTasks
  <2>19. ASSUME NEW r \in Runs, NEW t \in Tasks, Finish(r, t) PROVE TypeOK'
    BY <2>19 DEF Finish
  <2>20. ASSUME NEW r \in Runs, NEW t \in Tasks, GiveBack(r, t) PROVE TypeOK'
    <3>1. pc' \in [Runs -> [Tasks -> GoroutineStates]]
      BY <2>20 DEF GiveBack
    <3> QED BY <2>20, <3>1 DEF GiveBack, NotForeign
  <2>21. ASSUME NEW r \in Runs, NEW s \in Runs, NEW t \in Tasks, NEW u \in Tasks,
                HandOver(r, t, s, u)
         PROVE TypeOK'
    <3>1. pc' \in [Runs -> [Tasks -> GoroutineStates]]
      <4> DEFINE p == [pc EXCEPT ![r][t] = "gone"]
      <4>1. p \in [Runs -> [Tasks -> GoroutineStates]]
        OBVIOUS
      <4>2. pc' = [p EXCEPT ![s][u] = "running"]
        BY <2>21 DEF HandOver
      <4> QED BY <4>1, <4>2
    <3>2. holding' \in SUBSET (Runs \X Tasks) /\ foreign' \in Nat
      BY <2>21 DEF HandOver, NotForeign
    <3> QED BY <2>21, <3>1, <3>2 DEF HandOver
  <2>22. CASE UNCHANGED vars
    BY <2>22 DEF vars
  <2> QED
    BY <2>1, <2>2, <2>3, <2>4, <2>5, <2>6, <2>7, <2>8, <2>9, <2>10, <2>11, <2>12, <2>13,
       <2>14, <2>15, <2>16, <2>17, <2>18, <2>19, <2>20, <2>21, <2>22
       DEF Next, Owner, Run, Goroutine
<1> QED
  BY <1>1, <1>2, PTL DEF Spec

-----------------------------------------------------------------------------
(***************************************************************************)
(* Why Run's answer can be trusted.  NoErrorLost and its like speak of the *)
(* moment Run has returned; what leads there is that taskCount is at every *)
(* step the number of tasks not yet counted (Pending), that taskContext is *)
(* done only when there are none, and that errs runs after failed by the   *)
(* goroutines between the return of their function and the lock.           *)
(***************************************************************************)

Pending(r) == {t \in roster[r] : pc[r][t] \in Uncounted}

CountInv == \A r \in Runs : count[r] = Cardinality(Pending(r))

\* Goroutines exist only for the tasks of a started call, and all of them do once
\* Run has left its loop.
RosterInv ==
  \A r \in Runs :
    /\ main[r] = "idle" => roster[r] = {}
    /\ main[r] \notin {"idle", "spawn"} => \A t \in roster[r] : pc[r][t] # "new"
    /\ \A t \in Tasks : pc[r][t] # "new" => t \in roster[r] /\ main[r] # "idle"

\* The end of the call is announced only when nothing is pending.
EndInv ==
  \A r \in Runs :
    /\ \A t \in Tasks : pc[r][t] \in {"last", "finish"} => Pending(r) = {}
    /\ finished[r] => Pending(r) = {} /\ main[r] # "idle"
    /\ main[r] = "returned" => finished[r]

ErrorInv ==
  \A r \in Runs :
    /\ \A t \in failed[r] : pc[r][t] \in {"ran", "last", "finish", "return", "gone"}
    /\ errs[r] = {t \in failed[r] : pc[r][t] # "ran"}
    /\ main[r] = "returned" => result[r] = IF upstream[r] THEN {} ELSE errs[r]

StopInv ==
  \A r \in Runs :
    /\ cause[r] = "upstream" => ctx[r]
    /\ cause[r] = "failed" => fastFail /\ errs[r] # {}
    /\ cause[r] = "succeeded" => Pending(r) = {} /\ main[r] # "idle"
    /\ \A t \in Tasks : pc[r][t] = "skipped" => cause[r] \in {"upstream", "failed"}

SettleInv == CountInv /\ RosterInv /\ EndInv /\ ErrorInv /\ StopInv

\* The goroutines that still count in taskCount are finitely many.
LEMMA PendingFinite ==
  ASSUME TypeOK, NEW r \in Runs
  PROVE  /\ IsFiniteSet(Pending(r))
         /\ Cardinality(Pending(r)) \in Nat
         /\ Cardinality(Pending(r)) = 0 <=> Pending(r) = {}
         /\ \A t \in Pending(r), Q \in SUBSET Tasks :
              Q = Pending(r) \ {t} =>
                /\ Cardinality(Q) = Cardinality(Pending(r)) - 1
                /\ Cardinality(Q) = 0 <=> Q = {}
<1>1. Pending(r) \subseteq Tasks
  BY DEF TypeOK, Pending
<1>2. IsFiniteSet(Pending(r))
  BY <1>1, GroupAssumption, FS_Subset
<1>3. ASSUME NEW t \in Pending(r), NEW Q \in SUBSET Tasks, Q = Pending(r) \ {t}
      PROVE  /\ Cardinality(Q) = Cardinality(Pending(r)) - 1
             /\ Cardinality(Q) = 0 <=> Q = {}
  <2>1. IsFiniteSet(Q) /\ Cardinality(Q) = Cardinality(Pending(r)) - 1
    BY <1>2, <1>3, FS_RemoveElement
  <2> QED BY <2>1, FS_EmptySet
<1> QED
  BY <1>2, <1>3, FS_CardinalityType, FS_EmptySet

\* A step that leaves the goroutines and the counter alone keeps CountInv.
LEMMA CountKept ==
  ASSUME CountInv, UNCHANGED <<roster, count, pc>>
  PROVE  CountInv'
BY DEF CountInv, Pending

\* A goroutine that moves without being counted changes nothing in Pending.
LEMMA PendingKept ==
  ASSUME TypeOK, NEW r \in Runs, NEW t \in Tasks, NEW c \in GoroutineStates,
         pc' = [pc EXCEPT ![r][t] = c], UNCHANGED roster,
         pc[r][t] \in Uncounted <=> c \in Uncounted
  PROVE  \A s \in Runs : Pending(s)' = Pending(s)
BY DEF TypeOK, Pending

\* A goroutine that is counted leaves Pending.
LEMMA PendingLess ==
  ASSUME TypeOK, RosterInv, NEW r \in Runs, NEW t \in Tasks, NEW c \in GoroutineStates \ Uncounted,
         pc' = [pc EXCEPT ![r][t] = c], UNCHANGED roster,
         pc[r][t] \in Uncounted \ {"new"}
  PROVE  /\ t \in Pending(r)
         /\ Pending(r)' = Pending(r) \ {t}
         /\ Pending(r)' \subseteq Tasks
         /\ \A s \in Runs \ {r} : Pending(s)' = Pending(s)
<1>1. t \in roster[r]
  BY DEF RosterInv
<1> QED
  BY <1>1 DEF TypeOK, Pending

\* The invariant behind Run's answer is kept by every step.
LEMMA SettleStep ==
  ASSUME TypeOK, TypeOK', SettleInv, [Next]_vars
  PROVE  SettleInv'
<1> USE DEF TypeOK, SettleInv, groupVars, queueVars, contextVars, sharedVars, mainVars
<1>1. ASSUME NEW t \in Tasks, AppendTask(t) PROVE SettleInv'
  <2>1. CountInv'
    BY <1>1, CountKept DEF AppendTask
  <2>2. \A s \in Runs : Pending(s)' = Pending(s)
    BY <1>1 DEF AppendTask, Pending
  <2> QED BY <1>1, <2>1, <2>2 DEF AppendTask, RosterInv, EndInv, ErrorInv, StopInv
<1>2. ASSUME FastFail \/ Cleanup PROVE SettleInv'
  <2>1. CountInv'
    BY <1>2, CountKept DEF FastFail, Cleanup
  <2>2. \A s \in Runs : Pending(s)' = Pending(s)
    BY <1>2 DEF FastFail, Cleanup, Pending
  <2> QED BY <1>2, <2>1, <2>2 DEF FastFail, Cleanup, RosterInv, EndInv, ErrorInv, StopInv
<1>3. ASSUME NEW n \in 0 .. MaxSlots, Concurrency(n) PROVE SettleInv'
  <2>1. CountInv'
    BY <1>3, CountKept DEF Concurrency
  <2>2. \A s \in Runs : Pending(s)' = Pending(s)
    BY <1>3 DEF Concurrency, Pending
  <2> QED BY <1>3, <2>1, <2>2 DEF Concurrency, RosterInv, EndInv, ErrorInv, StopInv
<1>4. ASSUME FillSlot PROVE SettleInv'
  <2>1. CountInv'
    BY <1>4, CountKept DEF FillSlot
  <2>2. \A s \in Runs : Pending(s)' = Pending(s)
    BY <1>4 DEF FillSlot, Pending
  <2> QED BY <1>4, <2>1, <2>2 DEF FillSlot, RosterInv, EndInv, ErrorInv, StopInv
<1>5. ASSUME NEW r \in Runs, CancelCaller(r) PROVE SettleInv'
  <2>1. CountInv'
    BY <1>5, CountKept DEF CancelCaller
  <2>2. \A s \in Runs : Pending(s)' = Pending(s)
    BY <1>5 DEF CancelCaller, Pending
  <2> QED BY <1>5, <2>1, <2>2 DEF CancelCaller, RosterInv, EndInv, ErrorInv, StopInv
<1>6. ASSUME NEW r \in Runs, Propagate(r) PROVE SettleInv'
  <2>1. CountInv'
    BY <1>6, CountKept DEF Propagate, CancelTasks
  <2>2. \A s \in Runs : Pending(s)' = Pending(s)
    BY <1>6 DEF Propagate, CancelTasks, Pending
  <2> QED BY <1>6, <2>1, <2>2 DEF Propagate, CancelTasks, RosterInv, EndInv, ErrorInv, StopInv
<1>7. ASSUME NEW r \in Runs, StartRun(r) PROVE SettleInv'
  <2>1. pc[r] = [t \in Tasks |-> "new"]
    BY <1>7 DEF StartRun, RosterInv
  <2>2. Pending(r)' = tasks
    BY <1>7, <2>1 DEF StartRun, Pending, Uncounted
  <2>3. \A s \in Runs \ {r} : Pending(s)' = Pending(s)
    BY <1>7 DEF StartRun, Pending
  <2>4. CountInv'
    BY <1>7, <2>2, <2>3 DEF StartRun, CountInv
  <2>5. RosterInv'
    BY <1>7, <2>1 DEF StartRun, RosterInv
  <2>6. EndInv'
    BY <1>7, <2>1, <2>3 DEF StartRun, EndInv
  <2>7. ErrorInv'
    BY <1>7 DEF StartRun, ErrorInv
  <2>8. StopInv'
    BY <1>7, <2>1, <2>3 DEF StartRun, StopInv
  <2> QED BY <2>4, <2>5, <2>6, <2>7, <2>8
<1>8. ASSUME NEW r \in Runs, SpawnDone(r) PROVE SettleInv'
  <2>1. CountInv'
    BY <1>8, CountKept DEF SpawnDone
  <2>2. \A s \in Runs : Pending(s)' = Pending(s)
    BY <1>8 DEF SpawnDone, Pending
  <2> QED BY <1>8, <2>1, <2>2 DEF SpawnDone, RosterInv, EndInv, ErrorInv, StopInv
<1>9. ASSUME NEW r \in Runs, SelectStopped(r) PROVE SettleInv'
  <2>1. CountInv'
    BY <1>9, CountKept DEF SelectStopped, AfterSelect
  <2>2. \A s \in Runs : Pending(s)' = Pending(s)
    BY <1>9 DEF SelectStopped, AfterSelect, Pending
  <2> QED BY <1>9, <2>1, <2>2 DEF SelectStopped, AfterSelect, RosterInv, EndInv, ErrorInv, StopInv
<1>10. ASSUME NEW r \in Runs, SelectUpstream(r) PROVE SettleInv'
  <2>1. CountInv'
    BY <1>10, CountKept DEF SelectUpstream, AfterSelect, CancelTasks
  <2>2. \A s \in Runs : Pending(s)' = Pending(s)
    BY <1>10 DEF SelectUpstream, AfterSelect, CancelTasks, Pending
  <2> QED BY <1>10, <2>1, <2>2 DEF SelectUpstream, AfterSelect, CancelTasks, RosterInv, EndInv, ErrorInv, StopInv
<1>11. ASSUME NEW r \in Runs, CallCleanup(r) PROVE SettleInv'
  <2>1. CountInv'
    BY <1>11, CountKept DEF CallCleanup
  <2>2. \A s \in Runs : Pending(s)' = Pending(s)
    BY <1>11 DEF CallCleanup, Pending
  <2> QED BY <1>11, <2>1, <2>2 DEF CallCleanup, RosterInv, EndInv, ErrorInv, StopInv
<1>12. ASSUME NEW r \in Runs, Return(r) PROVE SettleInv'
  <2>1. CountInv'
    BY <1>12, CountKept DEF Return
  <2>2. \A s \in Runs : Pending(s)' = Pending(s)
    BY <1>12 DEF Return, Pending
  <2> QED BY <1>12, <2>1, <2>2 DEF Return, RosterInv, EndInv, ErrorInv, StopInv
<1>13. ASSUME NEW r \in Runs, NEW t \in Tasks, Spawn(r, t) PROVE SettleInv'
  <2>1. \A s \in Runs : Pending(s)' = Pending(s)
    BY <1>13, PendingKept DEF Spawn, GoroutineStates, Uncounted
  <2>2. CountInv'
    BY <1>13, <2>1 DEF Spawn, CountInv
  <2>3. RosterInv'
    BY <1>13 DEF Spawn, RosterInv
  <2>4. EndInv'
    BY <1>13, <2>1 DEF Spawn, EndInv
  <2>5. ErrorInv'
    BY <1>13 DEF Spawn, ErrorInv
  <2>6. StopInv'
    BY <1>13, <2>1 DEF Spawn, StopInv
  <2> QED BY <2>2, <2>3, <2>4, <2>5, <2>6
<1>14. ASSUME NEW r \in Runs, NEW t \in Tasks, TakeSlot(r, t) PROVE SettleInv'
  <2>1. \A s \in Runs : Pending(s)' = Pending(s)
    BY <1>14, PendingKept DEF TakeSlot, GoroutineStates, Uncounted
  <2>2. CountInv'
    BY <1>14, <2>1 DEF TakeSlot, CountInv
  <2>3. RosterInv'
    BY <1>14 DEF TakeSlot, RosterInv
  <2>4. EndInv'
    BY <1>14, <2>1 DEF TakeSlot, EndInv
  <2>5. ErrorInv'
    BY <1>14 DEF TakeSlot, ErrorInv
  <2>6. StopInv'
    BY <1>14, <2>1 DEF TakeSlot, StopInv
  <2> QED BY <2>2, <2>3, <2>4, <2>5, <2>6
<1>15. ASSUME NEW r \in Runs, NEW t \in Tasks, Skip(r, t) PROVE SettleInv'
  <2>1. /\ t \in Pending(r)
        /\ Pending(r)' = Pending(r) \ {t}
        /\ Pending(r)' \subseteq Tasks
        /\ \A s \in Runs \ {r} : Pending(s)' = Pending(s)
    BY <1>15, PendingLess DEF Skip, GoroutineStates, Uncounted
  <2>2. count'[r] = Cardinality(Pending(r)') /\ (count'[r] = 0 <=> Pending(r)' = {})
    <3>1. count'[r] = count[r] - 1
      BY <1>15 DEF Skip
    <3>2. count[r] = Cardinality(Pending(r))
      BY DEF CountInv
    <3>3. /\ Cardinality(Pending(r)') = Cardinality(Pending(r)) - 1
          /\ Cardinality(Pending(r)') = 0 <=> Pending(r)' = {}
      BY <2>1, PendingFinite
    <3>4. count'[r] = Cardinality(Pending(r)')
      BY <3>1, <3>2, <3>3
    <3> QED BY <3>3, <3>4
  <2>3. CountInv'
    BY <1>15, <2>1, <2>2 DEF Skip, CountInv
  <2>4. RosterInv'
    BY <1>15 DEF Skip, RosterInv
  <2>5. EndInv'
    BY <1>15, <2>1, <2>2, <2>4 DEF Skip, EndInv, RosterInv
  <2>6. ErrorInv'
    BY <1>15 DEF Skip, ErrorInv
  <2>7. StopInv'
    BY <1>15, <2>1 DEF Skip, StopInv, Causes
  <2> QED BY <2>3, <2>4, <2>5, <2>6, <2>7
<1>16. ASSUME NEW r \in Runs, NEW t \in Tasks, TaskReturns(r, t) PROVE SettleInv'
  <2>1. \A s \in Runs : Pending(s)' = Pending(s)
    BY <1>16, PendingKept DEF TaskReturns, GoroutineStates, Uncounted
  <2>2. CountInv'
    BY <1>16, <2>1 DEF TaskReturns, CountInv
  <2>3. RosterInv'
    BY <1>16 DEF TaskReturns, RosterInv
  <2>4. EndInv'
    BY <1>16, <2>1 DEF TaskReturns, EndInv
  <2>5. ErrorInv'
    <3>1. t \notin failed[r] /\ main' = main /\ errs' = errs
      BY <1>16 DEF TaskReturns, ErrorInv
    <3>2. \A s \in Runs : failed'[s] = failed[s] \/ (s = r /\ failed'[s] = failed[s] \cup {t})
      BY <1>16 DEF TaskReturns
    <3> QED BY <1>16, <3>1, <3>2 DEF TaskReturns, ErrorInv
  <2>6. StopInv'
    BY <1>16, <2>1 DEF TaskReturns, StopInv
  <2> QED BY <2>2, <2>3, <2>4, <2>5, <2>6
<1>17. ASSUME NEW r \in Runs, NEW t \in Tasks, CountDown(r, t) PROVE SettleInv'
  <2>1. /\ t \in Pending(r)
        /\ Pending(r)' = Pending(r) \ {t}
        /\ Pending(r)' \subseteq Tasks
        /\ \A s \in Runs \ {r} : Pending(s)' = Pending(s)
    BY <1>17, PendingLess DEF CountDown, GoroutineStates, Uncounted
  <2>2. count'[r] = Cardinality(Pending(r)') /\ (count'[r] = 0 <=> Pending(r)' = {})
    <3>1. count'[r] = count[r] - 1
      BY <1>17 DEF CountDown
    <3>2. count[r] = Cardinality(Pending(r))
      BY DEF CountInv
    <3>3. /\ Cardinality(Pending(r)') = Cardinality(Pending(r)) - 1
          /\ Cardinality(Pending(r)') = 0 <=> Pending(r)' = {}
      BY <2>1, PendingFinite
    <3>4. count'[r] = Cardinality(Pending(r)')
      BY <3>1, <3>2, <3>3
    <3> QED BY <3>3, <3>4
  <2>3. CountInv'
    BY <1>17, <2>1, <2>2 DEF CountDown, CountInv
  <2>4. RosterInv'
    BY <1>17 DEF CountDown, RosterInv
  <2>5. EndInv'
    BY <1>17, <2>1, <2>2, <2>4 DEF CountDown, EndInv, RosterInv
  <2>6. ErrorInv'
    <3>1. errs'[r] = {u \in failed[r] : pc'[r][u] # "ran"}
      BY <1>17 DEF CountDown, ErrorInv
    <3>2. \A s \in Runs \ {r} : errs'[s] = errs[s] /\ pc'[s] = pc[s]
      BY <1>17 DEF CountDown
    <3>3. main[r] # "returned"
      BY <2>1 DEF EndInv
    <3> QED BY <1>17, <3>1, <3>2, <3>3 DEF CountDown, ErrorInv
  <2>7. StopInv'
    <3>1. cause' = cause \/ cause' = [cause EXCEPT ![r] = IF @ = "none" THEN "failed" ELSE @]
      BY <1>17 DEF CountDown, CancelTasks
    <3>2. cause' # cause => fastFail /\ errs'[r] # {}
      BY <1>17 DEF CountDown
    <3>3. \A s \in Runs : errs[s] \subseteq errs'[s]
      <4>1. errs' = errs \/ errs' = [errs EXCEPT ![r] = @ \cup {t}]
        BY <1>17 DEF CountDown
      <4>2. errs'[r] = errs[r] \/ errs'[r] = errs[r] \cup {t}
        BY <4>1
      <4>3. \A s \in Runs \ {r} : errs'[s] = errs[s]
        BY <4>1
      <4> QED BY <4>2, <4>3
    <3> QED BY <1>17, <2>1, <3>1, <3>2, <3>3 DEF CountDown, StopInv
  <2> QED BY <2>3, <2>4, <2>5, <2>6, <2>7
<1>18. ASSUME NEW r \in Runs, NEW t \in Tasks, CancelLast(r, t) PROVE SettleInv'
  <2>1. \A s \in Runs : Pending(s)' = Pending(s)
    BY <1>18, PendingKept DEF CancelLast, CancelTasks, GoroutineStates, Uncounted
  <2>2. CountInv'
    BY <1>18, <2>1 DEF CancelLast, CancelTasks, CountInv
  <2>3. RosterInv'
    BY <1>18 DEF CancelLast, CancelTasks, RosterInv
  <2>4. EndInv'
    BY <1>18, <2>1 DEF CancelLast, CancelTasks, EndInv
  <2>5. ErrorInv'
    BY <1>18 DEF CancelLast, CancelTasks, ErrorInv
  <2>6. StopInv'
    BY <1>18, <2>1 DEF CancelLast, CancelTasks, StopInv, EndInv, RosterInv
  <2> QED BY <2>2, <2>3, <2>4, <2>5, <2>6
<1>19. ASSUME NEW r \in Runs, NEW t \in Tasks, Finish(r, t) PROVE SettleInv'
  <2>1. \A s \in Runs : Pending(s)' = Pending(s)
    BY <1>19, PendingKept DEF Finish, GoroutineStates, Uncounted
  <2>2. CountInv'
    BY <1>19, <2>1 DEF Finish, CountInv
  <2>3. RosterInv'
    BY <1>19 DEF Finish, RosterInv
  <2>4. EndInv'
    BY <1>19, <2>1 DEF Finish, EndInv, RosterInv
  <2>5. ErrorInv'
    BY <1>19 DEF Finish, ErrorInv
  <2>6. StopInv'
    BY <1>19, <2>1 DEF Finish, StopInv
  <2> QED BY <2>2, <2>3, <2>4, <2>5, <2>6
<1>20. ASSUME NEW r \in Runs, NEW t \in Tasks, GiveBack(r, t) PROVE SettleInv'
  <2>1. \A s \in Runs : Pending(s)' = Pending(s)
    BY <1>20, PendingKept DEF GiveBack, GoroutineStates, Uncounted
  <2>2. CountInv'
    BY <1>20, <2>1 DEF GiveBack, CountInv
  <2>3. RosterInv'
    BY <1>20 DEF GiveBack, RosterInv
  <2>4. EndInv'
    BY <1>20, <2>1 DEF GiveBack, EndInv
  <2>5. ErrorInv'
    BY <1>20 DEF GiveBack, ErrorInv
  <2>6. StopInv'
    BY <1>20, <2>1 DEF GiveBack, StopInv
  <2> QED BY <2>2, <2>3, <2>4, <2>5, <2>6
<1>21. ASSUME NEW r \in Runs, NEW s \in Runs, NEW t \in Tasks, NEW u \in Tasks,
              HandOver(r, t, s, u)
       PROVE SettleInv'
  <2>0. \A q \in Runs, v \in Tasks :
          \/ pc'[q][v] = pc[q][v]
          \/ pc[q][v] = "return" /\ pc'[q][v] = "gone"
          \/ pc[q][v] = "queued" /\ pc'[q][v] = "running"
    <3> DEFINE p == [pc EXCEPT ![r][t] = "gone"]
    <3>1. pc[r][t] = "return" /\ pc[s][u] = "queued" /\ pc' = [p EXCEPT ![s][u] = "running"]
      BY <1>21 DEF HandOver
    <3>2. p \in [Runs -> [Tasks -> GoroutineStates]]
      BY DEF GoroutineStates
    <3>3. p[r][t] = "gone" /\ \A q \in Runs, v \in Tasks : p[q][v] = pc[q][v] \/ (q = r /\ v = t)
      OBVIOUS
    <3> HIDE DEF p
    <3> QED BY <3>1, <3>2, <3>3
  <2>a. /\ fastFail' = fastFail /\ ctx' = ctx /\ cause' = cause /\ finished' = finished
        /\ roster' = roster /\ count' = count /\ failed' = failed /\ errs' = errs
        /\ main' = main /\ upstream' = upstream /\ result' = result
    BY <1>21 DEF HandOver
  <2>b. \A q \in Runs, v \in Tasks :
          /\ pc'[q][v] = "new" <=> pc[q][v] = "new"
          /\ pc'[q][v] \in {"last", "finish"} <=> pc[q][v] \in {"last", "finish"}
          /\ pc'[q][v] = "skipped" <=> pc[q][v] = "skipped"
          /\ pc'[q][v] = "ran" <=> pc[q][v] = "ran"
          /\ pc[q][v] \in {"ran", "last", "finish", "return", "gone"} =>
               pc'[q][v] \in {"ran", "last", "finish", "return", "gone"}
    BY <2>0
  <2>c. \A q \in Runs : roster[q] \subseteq Tasks /\ failed[q] \subseteq Tasks
    OBVIOUS
  <2>1. \A q \in Runs : Pending(q)' = Pending(q)
    <3>1. \A q \in Runs, v \in Tasks : pc'[q][v] \in Uncounted <=> pc[q][v] \in Uncounted
      BY <2>0 DEF Uncounted
    <3>2. \A q \in Runs : roster[q] \subseteq Tasks
      OBVIOUS
    <3>3. roster' = roster
      BY <2>a
    <3> QED BY <3>1, <3>2, <3>3 DEF Pending
  <2>2. CountInv'
    BY <2>1, <2>a DEF CountInv
  <2>3. RosterInv'
    BY <2>a, <2>b, <2>c DEF RosterInv
  <2>4. EndInv'
    BY <2>1, <2>a, <2>b, <2>c DEF EndInv
  <2>5. ErrorInv'
    BY <2>a, <2>b, <2>c DEF ErrorInv
  <2>6. StopInv'
    BY <2>1, <2>a, <2>b, <2>c DEF StopInv
  <2> QED BY <2>2, <2>3, <2>4, <2>5, <2>6
<1>22. CASE UNCHANGED vars
  <2>1. CountInv'
    BY <1>22, CountKept DEF vars
  <2>2. \A s \in Runs : Pending(s)' = Pending(s)
    BY <1>22 DEF vars, Pending
  <2> QED BY <1>22, <2>1, <2>2 DEF vars, RosterInv, EndInv, ErrorInv, StopInv
<1> QED
  BY <1>1, <1>2, <1>3, <1>4, <1>5, <1>6, <1>7, <1>8, <1>9, <1>10, <1>11, <1>12, <1>13, <1>14, <1>15, <1>16, <1>17, <1>18, <1>19, <1>20, <1>21, <1>22
   DEF Next, Owner, Run, Goroutine

\* The inductive invariant behind Run's answer holds throughout.
THEOREM SettleCorrect == Spec => []SettleInv
<1>1. Init => SettleInv
  <2> SUFFICES ASSUME Init PROVE SettleInv
    OBVIOUS
  <2>1. \A r \in Runs : Pending(r) = {}
    BY DEF Init, Pending
  <2>2. CountInv
    BY <2>1, FS_EmptySet DEF Init, CountInv
  <2> QED BY <2>1, <2>2 DEF Init, SettleInv, RosterInv, EndInv, ErrorInv, StopInv
<1>2. TypeOK /\ TypeOK' /\ SettleInv /\ [Next]_vars => SettleInv'
  BY SettleStep
<1> QED
  BY <1>1, <1>2, TypeCorrect, PTL DEF Spec

\* Run returns only when nothing is left running (the wait of line 120).
THEOREM RunWaits == Spec => []RunWaitsForTasks
<1>1. TypeOK /\ SettleInv => RunWaitsForTasks
  BY DEF TypeOK, SettleInv, EndInv, Pending, RunWaitsForTasks
<1> QED
  BY <1>1, TypeCorrect, SettleCorrect, PTL

\* Run's answer holds the errors of exactly the failed tasks (lines 85-97, 126).
THEOREM ErrorsComplete == Spec => []NoErrorLost
<1>1. TypeOK /\ SettleInv => NoErrorLost
  <2> SUFFICES ASSUME TypeOK, SettleInv, NEW r \in Runs, main[r] = "returned", ~upstream[r]
               PROVE  result[r] = failed[r]
    BY DEF NoErrorLost
  <2>1. result[r] = {t \in failed[r] : pc[r][t] # "ran"}
    BY DEF SettleInv, ErrorInv
  <2>2. \A t \in failed[r] : t \in Tasks /\ t \in roster[r]
    BY DEF TypeOK, SettleInv, ErrorInv, RosterInv
  <2>3. \A t \in failed[r] : pc[r][t] # "ran"
    BY <2>2 DEF SettleInv, EndInv, Pending, Uncounted
  <2> QED BY <2>1, <2>3
<1> QED
  BY <1>1, TypeCorrect, SettleCorrect, PTL

\* A nil answer means success of every task, or the caller's own cancellation.
THEOREM NilIsSuccess == Spec => []NilMeansAllRan
<1>1. TypeOK /\ SettleInv /\ NoErrorLost => NilMeansAllRan
  <2> SUFFICES ASSUME TypeOK, SettleInv, NoErrorLost, NEW r \in Runs,
                      main[r] = "returned", ~upstream[r], ~ctx[r], result[r] = {}
               PROVE  Ran(r) = roster[r] /\ failed[r] = {}
    BY DEF NilMeansAllRan
  <2>1. failed[r] = {}
    BY DEF NoErrorLost
  <2>2. errs[r] = {}
    BY <2>1 DEF SettleInv, ErrorInv
  <2>3. cause[r] \notin {"upstream", "failed"}
    BY <2>2 DEF SettleInv, StopInv
  <2>4. \A t \in roster[r] : t \in Tasks /\ pc[r][t] \in GoroutineStates
    BY DEF TypeOK
  <2>5. \A t \in roster[r] : pc[r][t] # "skipped"
    BY <2>3, <2>4 DEF SettleInv, StopInv
  <2>6. \A t \in roster[r] : pc[r][t] \notin Uncounted
    BY DEF SettleInv, EndInv, Pending
  <2> QED BY <2>1, <2>4, <2>5, <2>6 DEF Ran, GoroutineStates
<1> QED
  BY <1>1, TypeCorrect, SettleCorrect, ErrorsComplete, PTL

\* The cause of the tasks' context tells the truth about the call.
THEOREM CauseTrue == Spec => []CauseIsTrue
<1>1. TypeOK /\ SettleInv => CauseIsTrue
  <2> SUFFICES ASSUME TypeOK, SettleInv, NEW r \in Runs
               PROVE  /\ cause[r] = "succeeded" => count[r] = 0 /\ Ran(r) = roster[r]
                      /\ cause[r] = "failed" => fastFail /\ errs[r] # {}
                      /\ cause[r] = "upstream" => ctx[r]
    BY DEF CauseIsTrue
  <2>1. ASSUME cause[r] = "succeeded" PROVE count[r] = 0 /\ Ran(r) = roster[r]
    <3>1. Pending(r) = {}
      BY <2>1 DEF SettleInv, StopInv
    <3>2. count[r] = 0
      BY <3>1, FS_EmptySet DEF SettleInv, CountInv
    <3>3. \A t \in roster[r] : t \in Tasks /\ pc[r][t] \in GoroutineStates
      BY DEF TypeOK
    <3>4. \A t \in roster[r] : pc[r][t] # "skipped"
      BY <2>1, <3>3 DEF SettleInv, StopInv
    <3> QED BY <3>1, <3>2, <3>3, <3>4 DEF Ran, Pending, GoroutineStates
  <2> QED BY <2>1 DEF SettleInv, StopInv
<1> QED
  BY <1>1, TypeCorrect, SettleCorrect, PTL

-----------------------------------------------------------------------------
(***************************************************************************)
(* The slots of Concurrency.  A goroutine in holding has taken its slot    *)
(* out of the present channel and not given it back; one that runs under a *)
(* limit always is in holding, because Concurrency is called between calls *)
(* of Run and no task runs then.                                           *)
(***************************************************************************)

\* The slots in the channel, those taken from it and those its fill loop still owes are
\* the n of Concurrency(n), plus the slots that goroutines of an earlier call gave back
\* to a channel they did not take them from.
Balance ==
  limit # NoQueue =>
    tokens + Cardinality(holding) + unfilled = limit + foreign

HolderInv ==
  /\ limit = NoQueue => holding = {} /\ tokens = 0
  /\ \A r \in Runs, t \in Tasks :
       <<r, t>> \in holding => pc[r][t] \in {"running", "ran", "last", "finish", "return"}
  /\ limit # NoQueue =>
       \A r \in Runs, t \in Tasks : pc[r][t] = "running" => <<r, t>> \in holding

SlotInv == Balance /\ HolderInv

\* The goroutines that hold a slot of g.queue are finitely many.
LEMMA HoldingFinite ==
  ASSUME TypeOK
  PROVE  /\ IsFiniteSet(holding) /\ Cardinality(holding) \in Nat /\ limit \in Int
         /\ tokens \in Nat /\ unfilled \in Nat /\ foreign \in Nat
<1>1. IsFiniteSet(Runs \X Tasks)
  BY GroupAssumption, FS_Product
<1>2. holding \subseteq Runs \X Tasks
  BY DEF TypeOK
<1>3. IsFiniteSet(holding)
  BY <1>1, <1>2, FS_Subset
<1>4. limit \in Int /\ tokens \in Nat /\ unfilled \in Nat /\ foreign \in Nat
  BY GroupAssumption DEF TypeOK, NoQueue
<1> QED
  BY <1>3, <1>4, FS_CardinalityType

\* While the owner builds the Group no task runs.
LEMMA QuietMeansIdle ==
  ASSUME TypeOK, SettleInv, Quiet
  PROVE  \A r \in Runs, t \in Tasks : pc[r][t] # "running"
<1> SUFFICES ASSUME NEW r \in Runs, NEW t \in Tasks, pc[r][t] = "running" PROVE FALSE
  OBVIOUS
<1>1. t \in roster[r] /\ main[r] # "idle"
  BY DEF SettleInv, RosterInv
<1>2. main[r] = "returned"
  BY <1>1 DEF Quiet
<1>3. Pending(r) = {}
  BY <1>2 DEF SettleInv, EndInv
<1> QED BY <1>1, <1>3 DEF Pending, Uncounted

\* Every step keeps the balance of the slots of g.queue (lines 49-54, 81 and 102-104).
LEMMA SlotStep ==
  ASSUME TypeOK, SettleInv, SlotInv, [Next]_vars
  PROVE  SlotInv'
<1> USE DEF TypeOK, groupVars, queueVars, contextVars, sharedVars, mainVars
<1> DEFINE SlotsKept == UNCHANGED <<limit, tokens, unfilled, holding, foreign>>
<1> DEFINE StatesKept ==
      \A q \in Runs, v \in Tasks :
        /\ pc[q][v] \in {"running", "ran", "last", "finish", "return"} /\ <<q, v>> \in holding =>
             pc'[q][v] \in {"running", "ran", "last", "finish", "return"}
        /\ limit # NoQueue /\ pc'[q][v] = "running" => pc[q][v] = "running"
<1>0. SlotsKept /\ StatesKept => SlotInv'
  BY DEF SlotInv, Balance, HolderInv
<1> HIDE DEF StatesKept
<1>1. ASSUME NEW t \in Tasks, AppendTask(t) PROVE SlotInv'
  BY <1>0, <1>1 DEF AppendTask, StatesKept
<1>2. ASSUME FastFail \/ Cleanup PROVE SlotInv'
  BY <1>0, <1>2 DEF FastFail, Cleanup, StatesKept
<1>3. ASSUME NEW n \in 0 .. MaxSlots, Concurrency(n) PROVE SlotInv'
  <2>1. limit' = n /\ tokens' = 0 /\ unfilled' = n /\ holding' = {} /\ foreign' = 0 /\ pc' = pc
    BY <1>3 DEF Concurrency
  <2>2. n \in Nat /\ Cardinality({}) = 0
    BY FS_EmptySet, GroupAssumption
  <2>3. \A r \in Runs, t \in Tasks : pc'[r][t] # "running"
    BY <1>3, <2>1, QuietMeansIdle DEF Concurrency
  <2>4. Balance'
    BY <2>1, <2>2 DEF Balance
  <2>5. HolderInv'
    BY <2>1, <2>2, <2>3 DEF HolderInv, NoQueue
  <2> QED BY <2>4, <2>5 DEF SlotInv
<1>4. ASSUME FillSlot PROVE SlotInv'
  <2>1. /\ limit' = limit /\ tokens' = tokens + 1 /\ unfilled' = unfilled - 1
        /\ holding' = holding /\ foreign' = foreign /\ pc' = pc
    BY <1>4 DEF FillSlot
  <2>2. limit # NoQueue
    BY <1>4, HoldingFinite DEF FillSlot, NoQueue
  <2>3. Balance'
    <3> HIDE DEF TypeOK
    <3>1. tokens + Cardinality(holding) + unfilled = limit + foreign
      BY <2>2 DEF SlotInv, Balance
    <3>2. tokens' + Cardinality(holding') + unfilled' = limit' + foreign'
      BY <2>1, <3>1, HoldingFinite
    <3> QED BY <3>2 DEF Balance
  <2>4. HolderInv'
    BY <2>1, <2>2 DEF SlotInv, HolderInv
  <2> QED BY <2>3, <2>4 DEF SlotInv
<1>5. ASSUME NEW r \in Runs, CancelCaller(r) \/ Propagate(r) PROVE SlotInv'
  BY <1>0, <1>5 DEF CancelCaller, Propagate, StatesKept
<1>6. ASSUME NEW r \in Runs, Run(r) PROVE SlotInv'
  <2>1. SlotsKept /\ pc' = pc
    BY <1>6 DEF Run, StartRun, SpawnDone, SelectStopped, SelectUpstream, CallCleanup, Return
  <2> QED BY <1>0, <2>1 DEF StatesKept
<1>7. ASSUME NEW r \in Runs, NEW t \in Tasks, Spawn(r, t) PROVE SlotInv'
  <2>1. StatesKept
    BY <1>7 DEF Spawn, StatesKept
  <2> QED BY <1>0, <1>7, <2>1 DEF Spawn
<1>8. ASSUME NEW r \in Runs, NEW t \in Tasks, TakeSlot(r, t) PROVE SlotInv'
  <2>1. /\ limit # NoQueue /\ <<r, t>> \notin holding
        /\ limit' = limit /\ tokens' = tokens - 1 /\ unfilled' = unfilled /\ foreign' = foreign
        /\ holding' = holding \cup {<<r, t>>} /\ tokens > 0
        /\ pc' = [pc EXCEPT ![r][t] = "running"]
    <3>1. limit # NoQueue
      BY <1>8 DEF TakeSlot, SlotInv, HolderInv
    <3>2. <<r, t>> \notin holding
      BY <1>8 DEF TakeSlot, SlotInv, HolderInv
    <3> QED BY <1>8, <3>1, <3>2 DEF TakeSlot
  <2>2. Cardinality(holding') = Cardinality(holding) + 1
    BY <2>1, HoldingFinite, FS_AddElement
  <2>3. Balance'
    BY <2>1, <2>2, HoldingFinite DEF SlotInv, Balance
  <2>4. HolderInv'
    BY <2>1 DEF SlotInv, HolderInv
  <2> QED BY <2>3, <2>4 DEF SlotInv
<1>9. ASSUME NEW r \in Runs, NEW t \in Tasks, Skip(r, t) PROVE SlotInv'
  <2>1. StatesKept
    BY <1>9 DEF Skip, StatesKept
  <2> QED BY <1>0, <1>9, <2>1 DEF Skip
<1>10. ASSUME NEW r \in Runs, NEW t \in Tasks,
              TaskReturns(r, t) \/ CountDown(r, t) \/ CancelLast(r, t) \/ Finish(r, t)
       PROVE SlotInv'
  <2>1. /\ pc[r][t] \in {"running", "ran", "last", "finish"}
        /\ pc' \in {[pc EXCEPT ![r][t] = c] : c \in {"ran", "last", "finish", "return"}}
        /\ SlotsKept
    BY <1>10 DEF TaskReturns, CountDown, CancelLast, Finish
  <2>2. StatesKept
    <3>1. PICK c \in {"ran", "last", "finish", "return"} : pc' = [pc EXCEPT ![r][t] = c]
      BY <2>1
    <3>2. c # "running" /\ c \in {"running", "ran", "last", "finish", "return"}
      OBVIOUS
    <3>3. \A q \in Runs, v \in Tasks : pc'[q][v] = c \/ pc'[q][v] = pc[q][v]
      BY <3>1
    <3> QED BY <3>2, <3>3 DEF StatesKept
  <2> QED BY <1>0, <2>1, <2>2
<1>11. ASSUME NEW r \in Runs, NEW t \in Tasks, GiveBack(r, t) PROVE SlotInv'
  <2>1. CASE <<r, t>> \notin holding /\ SlotsKept
    <3>1. StatesKept
      BY <1>11, <2>1 DEF GiveBack, StatesKept
    <3> QED BY <1>0, <2>1, <3>1
  <2>2. CASE tokens < limit /\ ~(<<r, t>> \notin holding /\ SlotsKept)
    <3>1. /\ limit' = limit /\ tokens' = tokens + 1 /\ unfilled' = unfilled
          /\ foreign' = foreign + NotForeign(<<r, t>>)
          /\ holding' = holding \ {<<r, t>>}
          /\ pc[r][t] = "return" /\ pc' = [pc EXCEPT ![r][t] = "gone"]
      BY <1>11, <2>2 DEF GiveBack
    <3>2. Cardinality(holding') = IF <<r, t>> \in holding THEN Cardinality(holding) - 1
                                                          ELSE Cardinality(holding)
      BY <3>1, HoldingFinite, FS_RemoveElement
    <3>3. Balance'
      <4> HIDE DEF TypeOK
      <4>1. CASE <<r, t>> \in holding
        BY <3>1, <3>2, <4>1, HoldingFinite DEF SlotInv, Balance, NotForeign
      <4>2. CASE <<r, t>> \notin holding
        <5>1. Cardinality(holding') = Cardinality(holding) /\ foreign' = foreign + 1
          BY <3>1, <3>2, <4>2 DEF NotForeign
        <5> QED BY <3>1, <5>1, HoldingFinite DEF SlotInv, Balance
      <4> QED BY <4>1, <4>2
    <3>4. HolderInv'
      BY <2>2, <3>1 DEF SlotInv, HolderInv, NoQueue
    <3> QED BY <3>3, <3>4 DEF SlotInv
  <2> QED BY <1>11, <2>1, <2>2 DEF GiveBack
<1>12. ASSUME NEW r \in Runs, NEW s \in Runs, NEW t \in Tasks, NEW u \in Tasks,
              HandOver(r, t, s, u)
       PROVE SlotInv'
  <2>1. /\ limit = 0 /\ limit' = limit /\ tokens' = tokens /\ unfilled' = unfilled
        /\ foreign' = foreign + NotForeign(<<r, t>>)
        /\ holding' = (holding \ {<<r, t>>}) \cup {<<s, u>>}
        /\ pc[r][t] = "return" /\ pc[s][u] = "queued"
        /\ pc' = [pc EXCEPT ![r][t] = "gone", ![s][u] = "running"]
    BY <1>12 DEF HandOver
  <2>2. <<s, u>> \notin holding
    BY <2>1 DEF SlotInv, HolderInv
  <2>3. /\ IsFiniteSet(holding \ {<<r, t>>})
        /\ Cardinality(holding \ {<<r, t>>}) =
             IF <<r, t>> \in holding THEN Cardinality(holding) - 1 ELSE Cardinality(holding)
    BY HoldingFinite, FS_RemoveElement
  <2>4. Cardinality(holding') =
          (IF <<r, t>> \in holding THEN Cardinality(holding) - 1 ELSE Cardinality(holding)) + 1
    BY <2>1, <2>2, <2>3, FS_AddElement
  <2>5. Balance'
    BY <2>1, <2>4, HoldingFinite DEF SlotInv, Balance, NotForeign
  <2>6. /\ pc'[r][t] = "gone" /\ pc'[s][u] = "running"
        /\ \A q \in Runs, v \in Tasks :
             ~(q = r /\ v = t) /\ ~(q = s /\ v = u) => pc'[q][v] = pc[q][v]
    <3> DEFINE p == [pc EXCEPT ![r][t] = "gone"]
    <3>1. pc' = [p EXCEPT ![s][u] = "running"]
      BY <2>1
    <3>2. p \in [Runs -> [Tasks -> GoroutineStates]]
      BY DEF GoroutineStates
    <3>3. \A q \in Runs, v \in Tasks :
            p[q][v] = IF q = r /\ v = t THEN "gone" ELSE pc[q][v]
      OBVIOUS
    <3>4. ~(r = s /\ t = u)
      BY <2>1
    <3> HIDE DEF p
    <3> QED BY <3>1, <3>2, <3>3, <3>4
  <2>7. HolderInv'
    <3>1. \A q \in Runs, v \in Tasks :
            <<q, v>> \in holding' => pc'[q][v] \in {"running", "ran", "last", "finish", "return"}
      <4> SUFFICES ASSUME NEW q \in Runs, NEW v \in Tasks, <<q, v>> \in holding'
                   PROVE  pc'[q][v] \in {"running", "ran", "last", "finish", "return"}
        OBVIOUS
      <4>1. CASE q = s /\ v = u
        BY <2>6, <4>1
      <4>2. CASE ~(q = s /\ v = u)
        <5>1. <<q, v>> \in holding /\ ~(q = r /\ v = t)
          BY <2>1, <4>2
        <5>2. pc'[q][v] = pc[q][v]
          BY <2>6, <4>2, <5>1
        <5> QED BY <5>1, <5>2 DEF SlotInv, HolderInv
      <4> QED BY <4>1, <4>2
    <3>2. \A q \in Runs, v \in Tasks : pc'[q][v] = "running" => <<q, v>> \in holding'
      BY <2>1, <2>6 DEF SlotInv, HolderInv, NoQueue
    <3>4. limit' # NoQueue
      BY <2>1 DEF NoQueue
    <3> HIDE DEF TypeOK
    <3> QED BY <3>1, <3>2, <3>4 DEF HolderInv
  <2> QED BY <2>5, <2>7 DEF SlotInv
<1>13. CASE UNCHANGED vars
  BY <1>0, <1>13 DEF vars, StatesKept
<1> QED
  BY <1>1, <1>2, <1>3, <1>4, <1>5, <1>6, <1>7, <1>8, <1>9, <1>10, <1>11, <1>12, <1>13
     DEF Next, Owner, Goroutine

\* The balance of the slots of g.queue, and who holds them, are invariant.
THEOREM SlotsCorrect == Spec => []SlotInv
<1>1. Init => SlotInv
  BY DEF Init, SlotInv, Balance, HolderInv
<1>2. TypeOK /\ SettleInv /\ SlotInv /\ [Next]_vars => SlotInv'
  BY SlotStep
<1> QED
  BY <1>1, <1>2, TypeCorrect, SettleCorrect, PTL DEF Spec

\* No slot is lost by the goroutines (lines 49-54, 81, 102-104): who took one is still
\* to give one back.
THEOREM SlotsAreConserved == Spec => []SlotsConserved
<1>1. TypeOK /\ SlotInv => SlotsConserved
  <2> SUFFICES ASSUME TypeOK, SlotInv, limit # NoQueue
               PROVE  limit <= tokens + unfilled + Cardinality(Owing)
    BY DEF SlotsConserved
  <2>1. holding \subseteq Owing
    BY DEF SlotInv, HolderInv, Owing, TypeOK
  <2>2. IsFiniteSet(Owing)
    <3>1. IsFiniteSet(Runs \X Tasks) /\ Owing \subseteq Runs \X Tasks
      BY GroupAssumption, FS_Product DEF Owing
    <3> QED BY <3>1, FS_Subset
  <2>3. Cardinality(Owing) \in Nat /\ Cardinality(holding) <= Cardinality(Owing)
    BY <2>1, <2>2, FS_Subset, FS_CardinalityType
  <2>4. tokens + Cardinality(holding) + unfilled = limit + foreign
    BY DEF SlotInv, Balance
  <2> QED BY <2>3, <2>4, HoldingFinite
<1> QED
  BY <1>1, TypeCorrect, SlotsCorrect, PTL

\* At most n tasks run at a time, but for the slots of a replaced channel.
THEOREM BoundedConcurrency == Spec => []ConcurrencyBound
<1>1. TypeOK /\ SlotInv => ConcurrencyBound
  <2> SUFFICES ASSUME TypeOK, SlotInv, limit # NoQueue
               PROVE  Executing \subseteq holding /\ Cardinality(Executing) <= limit + foreign
    BY DEF ConcurrencyBound
  <2>1. Executing \subseteq holding
    BY DEF SlotInv, HolderInv, Executing
  <2>2. /\ Cardinality(Executing) \in Nat
        /\ Cardinality(Executing) <= Cardinality(holding)
    BY <2>1, HoldingFinite, FS_Subset, FS_CardinalityType
  <2>3. tokens + Cardinality(holding) + unfilled = limit + foreign
    BY DEF SlotInv, Balance
  <2>4. limit \in Int /\ tokens \in Nat /\ unfilled \in Nat /\ foreign \in Nat
    BY GroupAssumption DEF TypeOK, NoQueue
  <2> QED BY <2>1, <2>2, <2>3, <2>4, HoldingFinite
<1> QED
  BY <1>1, TypeCorrect, SlotsCorrect, PTL

-----------------------------------------------------------------------------
\* ThreadGroup implements RunPromise.

\* What Run relies on when it returns, beside SettleInv: whoever ends taskContext has
\* cancelled the tasks' context before, and was the goroutine of a task.
CallInv ==
  \A r \in Runs :
    /\ finished[r] => cause[r] # "none" /\ roster[r] # {}
    /\ \A t \in Tasks : pc[r][t] = "finish" => cause[r] # "none"
    /\ upstream[r] => ctx[r]

\* Every step keeps CallInv: the cancellation of line 97 precedes taskFinish.
LEMMA CallStep ==
  ASSUME TypeOK, SettleInv, CallInv, [Next]_vars
  PROVE  CallInv'
<1> USE DEF TypeOK, CallInv, groupVars, queueVars, contextVars, sharedVars, mainVars
<1>1. ASSUME Owner PROVE CallInv'
  BY <1>1 DEF Owner, AppendTask, FastFail, Cleanup, Concurrency, FillSlot
<1>2. ASSUME NEW r \in Runs, CancelCaller(r) \/ Propagate(r) PROVE CallInv'
  BY <1>2 DEF CancelCaller, Propagate, CancelTasks
<1>3. ASSUME NEW r \in Runs, Run(r) PROVE CallInv'
  <2>1. CASE StartRun(r)
    <3>1. ~finished[r] /\ \A t \in Tasks : pc[r][t] = "new"
      BY <2>1 DEF StartRun, SettleInv, EndInv, RosterInv
    <3> QED BY <2>1, <3>1 DEF StartRun
  <2>2. CASE SelectUpstream(r)
    BY <2>2 DEF SelectUpstream, CancelTasks
  <2>3. CASE SpawnDone(r) \/ SelectStopped(r) \/ CallCleanup(r) \/ Return(r)
    BY <2>3 DEF SpawnDone, SelectStopped, CallCleanup, Return
  <2> QED BY <1>3, <2>1, <2>2, <2>3 DEF Run
<1>4. ASSUME NEW r \in Runs, NEW t \in Tasks, Goroutine(r, t) PROVE CallInv'
  <2>1. CASE Spawn(r, t) \/ TakeSlot(r, t) \/ TaskReturns(r, t) \/ GiveBack(r, t)
    <3>1. PICK c \in {"running", "queued", "ran", "gone"} : pc' = [pc EXCEPT ![r][t] = c]
      BY <2>1 DEF Spawn, TakeSlot, TaskReturns, GiveBack
    <3>2. \A q \in Runs, v \in Tasks : pc'[q][v] = "finish" => pc[q][v] = "finish"
      BY <3>1
    <3> QED BY <2>1, <3>2 DEF Spawn, TakeSlot, TaskReturns, GiveBack
  <2>2. CASE Skip(r, t)
    <3>1. t \in roster[r] /\ cause[r] # "none"
      BY <2>2 DEF Skip, SettleInv, RosterInv
    <3> QED BY <2>2, <3>1 DEF Skip
  <2>3. CASE CountDown(r, t)
    <3>1. \A q \in Runs : cause[q] # "none" => cause'[q] # "none"
      BY <2>3 DEF CountDown, CancelTasks
    <3>2. \A q \in Runs, v \in Tasks : pc'[q][v] = "finish" => pc[q][v] = "finish"
      BY <2>3 DEF CountDown
    <3> QED BY <2>3, <3>1, <3>2 DEF CountDown
  <2>4. CASE CancelLast(r, t)
    <3>1. cause'[r] # "none" /\ \A q \in Runs : cause[q] # "none" => cause'[q] # "none"
      BY <2>4 DEF CancelLast, CancelTasks
    <3>2. \A q \in Runs, v \in Tasks : pc'[q][v] = "finish" => q = r \/ pc[q][v] = "finish"
      BY <2>4 DEF CancelLast
    <3> QED BY <2>4, <3>1, <3>2 DEF CancelLast
  <2>5. CASE Finish(r, t)
    <3>1. t \in roster[r]
      BY <2>5 DEF Finish, SettleInv, RosterInv
    <3>2. \A q \in Runs, v \in Tasks : pc'[q][v] = "finish" => pc[q][v] = "finish"
      BY <2>5 DEF Finish
    <3> QED BY <2>5, <3>1, <3>2 DEF Finish
  <2> QED BY <1>4, <2>1, <2>2, <2>3, <2>4, <2>5 DEF Goroutine
<1>5. ASSUME NEW r \in Runs, NEW s \in Runs, NEW t \in Tasks, NEW u \in Tasks,
             HandOver(r, t, s, u)
      PROVE  CallInv'
  <2>1. \A q \in Runs, v \in Tasks : pc'[q][v] = "finish" => pc[q][v] = "finish"
    BY <1>5 DEF HandOver, GoroutineStates, Uncounted
  <2> QED BY <1>5, <2>1 DEF HandOver
<1>6. CASE UNCHANGED vars
  BY <1>6 DEF vars
<1> QED
  BY <1>1, <1>2, <1>3, <1>4, <1>5, <1>6 DEF Next

\* What Run relies on when it returns holds throughout.
THEOREM CallCorrect == Spec => []CallInv
<1>1. Init => CallInv
  BY DEF Init, CallInv
<1>2. TypeOK /\ SettleInv /\ CallInv /\ [Next]_vars => CallInv'
  BY CallStep
<1> QED
  BY <1>1, <1>2, TypeCorrect, SettleCorrect, PTL DEF Spec

-----------------------------------------------------------------------------
\* How far a goroutine has come, as far as the caller of Run can tell.
Stage(p) ==
  CASE p \in {"new", "queued", "running"} -> "pending"
    [] p = "skipped" -> "skipped"
    [] OTHER -> "settled"

\* A step that changes neither failed nor the stage of a goroutine changes no outcome.
LEMMA OutcomesKept ==
  ASSUME UNCHANGED failed, \A r \in Runs, t \in Tasks : Stage(pc[r][t])' = Stage(pc[r][t])
  PROVE  UNCHANGED Outcomes
<1>1. \A r \in Runs, t \in Tasks : Outcome(r, t)' = Outcome(r, t)
  BY DEF Outcome, Stage
<1> QED
  BY <1>1 DEF Outcomes

\* Neither does the step of one goroutine within its stage.
LEMMA MoveKeepsOutcomes ==
  ASSUME TypeOK, NEW r \in Runs, NEW t \in Tasks, NEW c,
         pc' = [pc EXCEPT ![r][t] = c], Stage(c) = Stage(pc[r][t]), UNCHANGED failed
  PROVE  UNCHANGED Outcomes
<1>1. \A q \in Runs, v \in Tasks : Stage(pc[q][v])' = Stage(pc[q][v])
  BY DEF TypeOK
<1> QED
  BY <1>1, OutcomesKept

\* A goroutine that settles its task settles no other.
LEMMA MoveSettles ==
  ASSUME TypeOK, NEW r \in Runs, NEW t \in Tasks, NEW c,
         pc' = [pc EXCEPT ![r][t] = c],
         failed' \in {failed, [failed EXCEPT ![r] = @ \cup {t}]}
  PROVE  Outcomes' = [Outcomes EXCEPT ![r][t] = Outcome(r, t)']
<1> DEFINE after == [Outcomes EXCEPT ![r][t] = Outcome(r, t)']
<1>1. after = [q \in Runs |-> [v \in Tasks |->
                  IF q = r /\ v = t THEN Outcome(r, t)' ELSE Outcome(q, v)]]
  BY DEF Outcomes
<1>2. ASSUME NEW q \in Runs, NEW v \in Tasks, ~(q = r /\ v = t)
      PROVE  Outcome(q, v)' = Outcome(q, v)
  <2>1. pc'[q][v] = pc[q][v]
    BY <1>2 DEF TypeOK
  <2>2. v \in failed'[q] <=> v \in failed[q]
    BY <1>2 DEF TypeOK
  <2> QED BY <2>1, <2>2 DEF Outcome
<1> HIDE DEF after
<1> QED
  BY <1>1, <1>2 DEF Outcomes

\* What the caller sees of a call changes only when Run starts and when it returns.
LEMMA CallKept ==
  ASSUME UNCHANGED <<main, upstream, result>>
  PROVE  UNCHANGED <<Phase, Answers>>
BY DEF Phase, Answers

LEMMA MainMovesInside ==
  ASSUME NEW r \in Runs, NEW m, NEW b, TypeOK,
         main' = [main EXCEPT ![r] = m], main[r] \notin {"idle", "returned"},
         m \notin {"idle", "returned"},
         upstream' = [upstream EXCEPT ![r] = b], UNCHANGED result
  PROVE  UNCHANGED <<Phase, Answers>>
BY DEF TypeOK, Phase, Answers

\* A task of a call has an outcome if its goroutine is past its function or skipped.
LEMMA SettledMeans ==
  ASSUME TypeOK, SettleInv, NEW r \in Runs, Pending(r) = {}
  PROVE  /\ Abstract!Settled(r)
         /\ errs[r] = Abstract!Failures(r)
<1>1. \A t \in roster[r] : pc[r][t] \notin Uncounted /\ t \in Tasks /\ pc[r][t] \in GoroutineStates
  BY DEF Pending, TypeOK
<1>2. \A t \in roster[r] : Outcomes[r][t] = Outcome(r, t) /\ Outcome(r, t) # "pending"
  BY <1>1 DEF Outcomes, Outcome, Uncounted
<1>3. \A t \in failed[r] : t \in roster[r] /\ pc[r][t] \notin {"new", "queued", "running", "skipped", "ran"}
  <2> SUFFICES ASSUME NEW t \in failed[r]
               PROVE  t \in roster[r] /\ pc[r][t] \notin {"new", "queued", "running", "skipped", "ran"}
    OBVIOUS
  <2>1. t \in Tasks /\ pc[r][t] \in {"ran", "last", "finish", "return", "gone"}
    BY DEF TypeOK, SettleInv, ErrorInv
  <2>2. t \in roster[r]
    BY <2>1 DEF SettleInv, RosterInv
  <2> QED BY <1>1, <2>1, <2>2 DEF Uncounted
<1>4. errs[r] = failed[r]
  BY <1>3 DEF SettleInv, ErrorInv
<1>5. \A t \in roster[r] : Outcome(r, t) = "failed" <=> t \in failed[r]
  BY <1>1, <1>3 DEF Outcome
<1>6. Abstract!Settled(r)
  BY <1>2 DEF Abstract!Settled
<1>7. failed[r] = Abstract!Failures(r)
  BY <1>2, <1>3, <1>5 DEF Abstract!Failures
<1> QED
  BY <1>4, <1>6, <1>7

-----------------------------------------------------------------------------
\* Every step of the Group is a step of RunPromise or changes nothing its caller can see.
LEMMA PromiseStep ==
  ASSUME TypeOK, SettleInv, CallInv, [Next]_vars
  PROVE  [Abstract!Next]_(Abstract!promiseVars)
<1> DEFINE Goal == [Abstract!Next]_(Abstract!promiseVars)
<1> USE DEF groupVars, queueVars, contextVars, sharedVars, mainVars
<1>0. UNCHANGED <<Phase, Outcomes, Answers, roster, ctx, cause>> => Goal
  BY DEF Abstract!promiseVars
<1>a. ASSUME NEW r \in Runs, NEW why \in {"upstream", "failed", "succeeded"},
             Abstract!Stop(r, why)
      PROVE  Goal
  BY <1>a DEF Abstract!Next
<1>b. ASSUME NEW r \in Runs, NEW t \in Tasks, NEW o \in {"ok", "failed", "skipped"},
             Abstract!Settle(r, t, o)
      PROVE  Goal
  BY <1>b DEF Abstract!Next
<1>c. \A r \in Runs : /\ main[r] \notin {"idle", "returned"} => Phase[r] = "open"
                      /\ main[r] = "idle" => Phase[r] = "idle"
  BY DEF Phase
<1>d. \A r \in Runs : main[r] = "returned" => Pending(r) = {} /\ cause[r] # "none"
  BY DEF SettleInv, EndInv, CallInv
<1> HIDE DEF Goal
<1>1. ASSUME Owner PROVE Goal
  <2>1. UNCHANGED <<main, upstream, result, pc, failed, roster, ctx, cause>>
    BY <1>1 DEF Owner, AppendTask, FastFail, Cleanup, Concurrency, FillSlot
  <2> QED BY <1>0, <2>1, CallKept, OutcomesKept
<1>2. ASSUME NEW r \in Runs, CancelCaller(r) PROVE Goal
  <2>1. UNCHANGED <<Phase, Outcomes, Answers>>
    BY <1>2, CallKept, OutcomesKept DEF CancelCaller
  <2>2. Abstract!Withdraw(r)
    BY <1>2, <2>1 DEF CancelCaller, Abstract!Withdraw
  <2> QED BY <2>2 DEF Abstract!Next, Goal
<1>3. ASSUME NEW r \in Runs, Propagate(r) PROVE Goal
  <2>1. UNCHANGED <<Phase, Outcomes, Answers>>
    BY <1>3, CallKept, OutcomesKept DEF Propagate
  <2>2. Phase[r] = "open"
    BY <1>3, <1>c, <1>d DEF Propagate
  <2>3. Abstract!Stop(r, "upstream")
    BY <1>3, <2>1, <2>2 DEF Propagate, CancelTasks, Abstract!Stop
  <2> QED BY <1>a, <2>3
<1>4. ASSUME NEW r \in Runs, StartRun(r) PROVE Goal
  <2>1. UNCHANGED Outcomes
    BY <1>4, OutcomesKept DEF StartRun
  <2>2. UNCHANGED Answers
    BY <1>4 DEF StartRun, Answers, TypeOK
  <2>3. Phase' = [Phase EXCEPT ![r] = "open"]
    BY <1>4 DEF StartRun, Phase, TypeOK
  <2>4. Abstract!Call(r, tasks) /\ tasks \in SUBSET Tasks
    BY <1>4, <1>c, <2>1, <2>2, <2>3 DEF StartRun, Abstract!Call, TypeOK
  <2> QED BY <2>4 DEF Abstract!Next, Goal
<1>5. ASSUME NEW r \in Runs, SpawnDone(r) \/ SelectStopped(r) \/ CallCleanup(r) PROVE Goal
  <2>1. PICK m \in {"select", "cleanup", "await"} : main' = [main EXCEPT ![r] = m]
    BY <1>5 DEF SpawnDone, SelectStopped, CallCleanup, AfterSelect
  <2>2. /\ main[r] \notin {"idle", "returned"}
        /\ UNCHANGED <<upstream, result, pc, failed, roster, ctx, cause>>
    BY <1>5 DEF SpawnDone, SelectStopped, CallCleanup
  <2>3. upstream' = [upstream EXCEPT ![r] = upstream[r]]
    BY <2>2 DEF TypeOK
  <2>4. UNCHANGED <<Phase, Answers>>
    BY <2>1, <2>2, <2>3, MainMovesInside
  <2> QED BY <1>0, <2>2, <2>4, OutcomesKept
<1>6. ASSUME NEW r \in Runs, SelectUpstream(r) PROVE Goal
  <2>1. PICK m \in {"cleanup", "await"} : main' = [main EXCEPT ![r] = m]
    BY <1>6 DEF SelectUpstream, AfterSelect
  <2>2. /\ main[r] \notin {"idle", "returned"} /\ ctx[r]
        /\ upstream' = [upstream EXCEPT ![r] = TRUE]
        /\ UNCHANGED <<result, pc, failed, roster, ctx>>
        /\ cause' = [cause EXCEPT ![r] = IF @ = "none" THEN "upstream" ELSE @]
    BY <1>6 DEF SelectUpstream, CancelTasks
  <2>3. UNCHANGED <<Phase, Answers, Outcomes>>
    BY <2>1, <2>2, MainMovesInside, OutcomesKept
  <2>4. CASE cause[r] = "none"
    <3>1. Abstract!Stop(r, "upstream")
      BY <1>c, <2>2, <2>3, <2>4 DEF Abstract!Stop
    <3> QED BY <1>a, <3>1
  <2>5. CASE cause[r] # "none"
    <3>1. UNCHANGED cause
      BY <2>2, <2>5 DEF TypeOK
    <3> QED BY <1>0, <2>2, <2>3, <3>1
  <2> QED BY <2>4, <2>5
<1>7. ASSUME NEW r \in Runs, Return(r) PROVE Goal
  <2> DEFINE a == IF upstream[r] THEN {"ctx.Err()"} ELSE errs[r]
  <2>1. UNCHANGED Outcomes
    BY <1>7, OutcomesKept DEF Return
  <2>2. Phase' = [Phase EXCEPT ![r] = "answered"]
    BY <1>7 DEF Return, Phase, TypeOK
  <2>3. Answers' = [Answers EXCEPT ![r] = a]
    BY <1>7 DEF Return, Answers, TypeOK
  <2>4. Pending(r) = {} /\ roster[r] # {} /\ cause[r] # "none" /\ (upstream[r] => ctx[r])
    BY <1>7 DEF Return, SettleInv, EndInv, CallInv
  <2>5. Abstract!Settled(r) /\ errs[r] = Abstract!Failures(r)
    BY <2>4, SettledMeans
  <2>6. a = Abstract!Failures(r) \/ (a = {Abstract!Withdrawn} /\ ctx[r])
    BY <2>4, <2>5 DEF Abstract!Withdrawn
  <2>7. a \in (SUBSET Tasks) \cup {{Abstract!Withdrawn}}
    <3>1. errs[r] \in SUBSET Tasks
      BY DEF TypeOK
    <3> QED BY <3>1 DEF Abstract!Withdrawn
  <2>8. Phase[r] = "open" /\ UNCHANGED <<roster, ctx, cause>>
    BY <1>7, <1>c DEF Return
  <2> HIDE DEF a
  <2>9. Abstract!Answer(r, a)
    BY <2>1, <2>2, <2>3, <2>4, <2>5, <2>6, <2>8 DEF Abstract!Answer
  <2> QED BY <2>7, <2>9 DEF Abstract!Next, Goal
<1>8. ASSUME NEW r \in Runs, NEW t \in Tasks,
             Spawn(r, t) \/ TakeSlot(r, t) \/ Finish(r, t) \/ GiveBack(r, t)
      PROVE  Goal
  <2>1. PICK c \in {"queued", "running", "return", "gone"} :
          pc' = [pc EXCEPT ![r][t] = c] /\ Stage(c) = Stage(pc[r][t])
    BY <1>8 DEF Spawn, TakeSlot, Finish, GiveBack, Stage
  <2>2. UNCHANGED <<main, upstream, result, failed, roster, ctx, cause>>
    BY <1>8 DEF Spawn, TakeSlot, Finish, GiveBack
  <2>3. UNCHANGED Outcomes
    BY <2>1, <2>2, MoveKeepsOutcomes
  <2> QED BY <1>0, <2>2, <2>3, CallKept
<1>9. ASSUME NEW r \in Runs, NEW t \in Tasks, Skip(r, t) PROVE Goal
  <2>1. /\ pc[r][t] = "queued" /\ cause[r] # "none" /\ pc' = [pc EXCEPT ![r][t] = "skipped"]
        /\ UNCHANGED <<main, upstream, result, failed, roster, ctx, cause>>
    BY <1>9 DEF Skip
  <2>2. UNCHANGED <<Phase, Answers>>
    BY <2>1, CallKept
  <2>3. Outcome(r, t) = "pending" /\ Outcome(r, t)' = "skipped"
    <3>1. pc'[r][t] = "skipped"
      BY <2>1 DEF TypeOK
    <3> QED BY <2>1, <3>1 DEF Outcome
  <2>4. Outcomes' = [Outcomes EXCEPT ![r][t] = "skipped"] /\ Outcomes[r][t] = "pending"
    BY <2>1, <2>3, MoveSettles DEF Outcomes
  <2>5. t \in roster[r] /\ Phase[r] = "open"
    BY <1>c, <1>d, <2>1 DEF SettleInv, RosterInv, Pending, Uncounted
  <2>6. Abstract!Settle(r, t, "skipped")
    BY <2>1, <2>2, <2>4, <2>5 DEF Abstract!Settle
  <2> QED BY <1>b, <2>6
<1>10. ASSUME NEW r \in Runs, NEW t \in Tasks, TaskReturns(r, t) PROVE Goal
  <2>1. /\ pc[r][t] = "running" /\ pc' = [pc EXCEPT ![r][t] = "ran"]
        /\ failed' \in {failed, [failed EXCEPT ![r] = @ \cup {t}]}
        /\ UNCHANGED <<main, upstream, result, roster, ctx, cause>>
    BY <1>10 DEF TaskReturns
  <2>2. UNCHANGED <<Phase, Answers>>
    BY <2>1, CallKept
  <2>3. Outcome(r, t) = "pending" /\ Outcome(r, t)' \in {"ok", "failed"}
    <3>1. pc'[r][t] = "ran"
      BY <2>1 DEF TypeOK
    <3> QED BY <2>1, <3>1 DEF Outcome
  <2>4. Outcomes' = [Outcomes EXCEPT ![r][t] = Outcome(r, t)'] /\ Outcomes[r][t] = "pending"
    BY <2>1, <2>3, MoveSettles DEF Outcomes
  <2>5. t \in roster[r] /\ Phase[r] = "open"
    BY <1>c, <1>d, <2>1 DEF SettleInv, RosterInv, Pending, Uncounted
  <2>6. PICK o \in {"ok", "failed"} : Outcomes' = [Outcomes EXCEPT ![r][t] = o]
    BY <2>3, <2>4
  <2>7. Abstract!Settle(r, t, o)
    BY <2>1, <2>2, <2>4, <2>5, <2>6 DEF Abstract!Settle
  <2> QED BY <1>b, <2>7
<1>11. ASSUME NEW r \in Runs, NEW t \in Tasks, CountDown(r, t) PROVE Goal
  <2>1. /\ pc[r][t] = "ran"
        /\ UNCHANGED <<main, upstream, result, failed, roster, ctx>>
    BY <1>11 DEF CountDown
  <2>2. PICK c \in {"last", "return"} : pc' = [pc EXCEPT ![r][t] = c]
    BY <1>11 DEF CountDown
  <2>3. UNCHANGED <<Phase, Answers, Outcomes>>
    BY <2>1, <2>2, CallKept, MoveKeepsOutcomes DEF Stage
  <2>4. CASE UNCHANGED cause
    BY <1>0, <2>1, <2>3, <2>4
  <2>5. CASE ~UNCHANGED cause
    <3>1. t \in failed[r] /\ cause' = [cause EXCEPT ![r] = IF @ = "none" THEN "failed" ELSE @]
      BY <1>11, <2>5 DEF CountDown, CancelTasks
    <3>2. cause[r] = "none" /\ cause' = [cause EXCEPT ![r] = "failed"]
      BY <2>5, <3>1 DEF TypeOK
    <3>3. t \in roster[r] /\ Phase[r] = "open"
      BY <1>c, <1>d, <2>1 DEF SettleInv, RosterInv, Pending, Uncounted
    <3>4. t \in Abstract!Failures(r)
      BY <2>1, <3>1, <3>3 DEF Abstract!Failures, Outcomes, Outcome
    <3>5. Abstract!Stop(r, "failed")
      BY <2>1, <2>3, <3>2, <3>3, <3>4 DEF Abstract!Stop
    <3> QED BY <1>a, <3>5
  <2> QED BY <2>4, <2>5
<1>12. ASSUME NEW r \in Runs, NEW t \in Tasks, CancelLast(r, t) PROVE Goal
  <2>1. /\ pc[r][t] = "last" /\ pc' = [pc EXCEPT ![r][t] = "finish"]
        /\ UNCHANGED <<main, upstream, result, failed, roster, ctx>>
        /\ cause' = [cause EXCEPT ![r] = IF @ = "none" THEN "succeeded" ELSE @]
    BY <1>12 DEF CancelLast, CancelTasks
  <2>2. UNCHANGED <<Phase, Answers, Outcomes>>
    BY <2>1, CallKept, MoveKeepsOutcomes DEF Stage
  <2>3. CASE cause[r] # "none"
    <3>1. UNCHANGED cause
      BY <2>1, <2>3 DEF TypeOK
    <3> QED BY <1>0, <2>1, <2>2, <3>1
  <2>4. CASE cause[r] = "none"
    <3>1. Phase[r] = "open" /\ Pending(r) = {}
      BY <1>c, <1>d, <2>1, <2>4 DEF SettleInv, RosterInv, EndInv
    <3>2. Abstract!Settled(r)
      BY <3>1, SettledMeans
    <3>3. Abstract!Stop(r, "succeeded")
      BY <2>1, <2>2, <2>4, <3>1, <3>2 DEF Abstract!Stop
    <3> QED BY <1>a, <3>3
  <2> QED BY <2>3, <2>4
<1>13. ASSUME NEW r \in Runs, NEW s \in Runs, NEW t \in Tasks, NEW u \in Tasks,
              HandOver(r, t, s, u)
       PROVE  Goal
  <2>1. \A q \in Runs, v \in Tasks : Stage(pc[q][v])' = Stage(pc[q][v])
    BY <1>13 DEF HandOver, Stage, TypeOK, GoroutineStates, Uncounted
  <2>2. UNCHANGED <<main, upstream, result, failed, roster, ctx, cause>>
    BY <1>13 DEF HandOver
  <2>3. UNCHANGED Outcomes
    BY ONLY <2>1, <2>2, OutcomesKept
  <2> QED BY <1>0, <2>2, <2>3, CallKept
<1>14. ASSUME UNCHANGED vars PROVE Goal
  <2>1. UNCHANGED <<main, upstream, result, pc, failed, roster, ctx, cause>>
    BY <1>14 DEF vars
  <2>2. \A q \in Runs, v \in Tasks : Stage(pc[q][v])' = Stage(pc[q][v])
    BY <2>1
  <2>3. UNCHANGED Outcomes
    BY ONLY <2>1, <2>2, OutcomesKept
  <2> QED BY <1>0, <2>1, <2>3, CallKept
<1> QED
  BY <1>1, <1>2, <1>3, <1>4, <1>5, <1>6, <1>7, <1>8, <1>9, <1>10, <1>11, <1>12, <1>13, <1>14
     DEF Next, Run, Goroutine, Goal

\* A Group that is not running keeps the promise.
LEMMA PromiseInit ==
  ASSUME Init PROVE Abstract!Init
<1>1. \A r \in Runs, t \in Tasks : Outcome(r, t) = "pending"
  BY DEF Init, Outcome
<1> QED
  BY <1>1 DEF Init, Abstract!Init, Phase, Outcomes, Answers

\* Group.Run keeps its promise: it answers once, with the truth about its tasks or
\* with its caller's cancellation, when every task has an outcome; a task is skipped
\* and the tasks' context is cancelled only for a reason (lines 60 to 127).
THEOREM PromiseKept == Spec => Promise
<1>1. Init => Abstract!Init
  BY PromiseInit
<1>2. TypeOK /\ SettleInv /\ CallInv /\ [Next]_vars => [Abstract!Next]_(Abstract!promiseVars)
  BY PromiseStep
<1> QED
  BY <1>1, <1>2, TypeCorrect, SettleCorrect, CallCorrect, PTL
     DEF Spec, Promise, Abstract!Spec
===============================================================================
