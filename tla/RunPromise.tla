------------------------------ MODULE RunPromise ------------------------------
(***************************************************************************)
(* What a caller of threads.Group.Run may rely on, stated without the      *)
(* goroutines, the channel of slots and the counter that implement it:     *)
(* Run answers once, only when every task of the call has an outcome; a    *)
(* task is skipped only after its context was cancelled; the context is    *)
(* cancelled only for a reason; and the answer is either the caller's own  *)
(* cancellation or exactly the errors of the tasks that failed.            *)
(* ThreadGroup implements this specification (its property Promise).       *)
(***************************************************************************)
EXTENDS FiniteSets

CONSTANTS Runs,   \* the calls of Run
          Tasks   \* the tasks that can be appended to the Group

VARIABLES phase,      \* phase[r]: "idle", "open" or "answered"
          members,    \* members[r]: the tasks call r has to settle
          outcome,    \* outcome[r][t]: "pending", "ok", "failed" or "skipped"
          withdrawn,  \* withdrawn[r]: the caller's context is cancelled
          stop,       \* stop[r]: why the tasks' context is cancelled, "none" if it is not
          answer      \* answer[r]: the tasks whose errors Run returned, or {Withdrawn}

promiseVars == <<phase, members, outcome, withdrawn, stop, answer>>

Withdrawn == "ctx.Err()"

Settled(r) == \A t \in members[r] : outcome[r][t] # "pending"
Failures(r) == {t \in members[r] : outcome[r][t] = "failed"}

Init ==
  /\ phase = [r \in Runs |-> "idle"]
  /\ members = [r \in Runs |-> {}]
  /\ outcome = [r \in Runs |-> [t \in Tasks |-> "pending"]]
  /\ withdrawn = [r \in Runs |-> FALSE]
  /\ stop = [r \in Runs |-> "none"]
  /\ answer = [r \in Runs |-> {}]

\* Run is called; a context that is already cancelled stops the tasks at once.
Call(r, S) ==
  /\ phase[r] = "idle"
  /\ phase' = [phase EXCEPT ![r] = "open"]
  /\ members' = [members EXCEPT ![r] = S]
  /\ stop' = [stop EXCEPT ![r] = IF withdrawn[r] THEN "upstream" ELSE "none"]
  /\ UNCHANGED <<outcome, withdrawn, answer>>

\* The caller cancels the context it passed, or its deadline passes.
Withdraw(r) ==
  /\ ~withdrawn[r]
  /\ withdrawn' = [withdrawn EXCEPT ![r] = TRUE]
  /\ UNCHANGED <<phase, members, outcome, stop, answer>>

\* Only the first reason counts, and each reason must be true when it is given.
Stop(r, why) ==
  /\ phase[r] = "open"
  /\ stop[r] = "none"
  /\ \/ why = "upstream"  /\ withdrawn[r]
     \/ why = "failed"    /\ Failures(r) # {}
     \/ why = "succeeded" /\ Settled(r)
  /\ stop' = [stop EXCEPT ![r] = why]
  /\ UNCHANGED <<phase, members, outcome, withdrawn, answer>>

Settle(r, t, o) ==
  /\ phase[r] = "open"
  /\ t \in members[r]
  /\ outcome[r][t] = "pending"
  /\ o = "skipped" => stop[r] # "none"
  /\ outcome' = [outcome EXCEPT ![r][t] = o]
  /\ UNCHANGED <<phase, members, withdrawn, stop, answer>>

\* Run returns: nothing is pending, and an answer is the truth about the tasks
\* or about the caller's context.
Answer(r, a) ==
  /\ phase[r] = "open"
  /\ members[r] # {}
  /\ Settled(r)
  /\ stop[r] # "none"
  /\ \/ a = Failures(r)
     \/ a = {Withdrawn} /\ withdrawn[r]
  /\ phase' = [phase EXCEPT ![r] = "answered"]
  /\ answer' = [answer EXCEPT ![r] = a]
  /\ UNCHANGED <<members, outcome, withdrawn, stop>>

Next ==
  \E r \in Runs :
    \/ \E S \in SUBSET Tasks : Call(r, S)
    \/ Withdraw(r)
    \/ \E why \in {"upstream", "failed", "succeeded"} : Stop(r, why)
    \/ \E t \in Tasks, o \in {"ok", "failed", "skipped"} : Settle(r, t, o)
    \/ \E a \in (SUBSET Tasks) \cup {{Withdrawn}} : Answer(r, a)

Spec == Init /\ [][Next]_promiseVars
===============================================================================
