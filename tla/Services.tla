-------------------------------- MODULE Services --------------------------------
(***************************************************************************)
(* Services in a context (src/registry/context.go), their life cycle       *)
(* (src/services/inf.go) and one of them in full: the metrics Collector,   *)
(* which several goroutines find in the registry and start, ask and close. *)
(*                                                                         *)
(* A goroutine goes on with the context that its last call returned.  The  *)
(* services other than the collector, and all the hooks, just succeed or   *)
(* fail; a hook that a service lacks is one that succeeds.  A panic ends   *)
(* the process.  What is registered under *T is a T, a *T or neither: no   *)
(* value is both (it could, if T is the type any).                         *)
(***************************************************************************)
EXTENDS Collector

CONSTANTS
  Goroutines,
  maker,       \* the goroutine that has made the services
  Services,
  metrics,     \* the service that is the Collector
  Types,       \* the types services are registered under
  None,
  MaxOps       \* bound: the calls that all goroutines make

\* A call of services.Start or Close: of service s, at its at-th step.
Calls == [fn : {"Start", "Close"}, s : Services, at : 1 .. 3, before : BOOLEAN]

ASSUME ServicesAssumption ==
  /\ metrics \in Services
  /\ None \notin Services \cup Goroutines \cup Calls
  /\ IsFiniteSet(Goroutines) /\ IsFiniteSet(Types)

VARIABLES
  context,     \* context[g]: the registry in the context of g, or None
  store,       \* store[r][t]: the service of type t in registry r; g makes registry g
  form,        \* form[r][t]: whether it is there as a T or as a *T, t being *T
  holds,       \* holds[g]: the services g has a pointer to
  placed,      \* placed[s]: how often s has been registered
  handed,      \* handed[s]: how often Register has answered s, as the old service
  dropped,     \* dropped[s]: how often a ContextWith replaced s and dropped that answer
  call,        \* call[g]: the services.Start or Close in progress, or None
  up,          \* up[s]: s, not the collector, runs: its own Start has succeeded, no Close since
  last,        \* last[s]: the last call that ended: its fn and err, and if s ran at its begin
  overlapped,  \* the services that two calls were made of at a time
  deaf,        \* the last Close of the collector found c.done nil
  ops

regVars == <<context, store, form, holds, placed, handed, dropped>>
lifeVars == <<call, up, last, overlapped, deaf>>
allVars == <<vars, regVars, lifeVars, ops>>

Panics == Reasons \cup {"missing registry", "not a value", "not a pointer"}

Forms == {"value", "pointer", "other"}

CallSteps == {"PreStart", "Start", "PostStart", "PreClose", "Close", "PostClose"}
Answers == [fn : {"none", "Start", "Close"}, err : CallSteps \cup {"nil"}, before : BOOLEAN]

ServicesTypeOK ==
  /\ TypeOK
  /\ crash \in Panics
  /\ context \in [Goroutines -> Goroutines \cup {None}]
  /\ store \in [Goroutines -> [Types -> Services \cup {None}]]
  /\ form \in [Goroutines -> [Types -> Forms]]
  /\ holds \in [Goroutines -> SUBSET Services]
  /\ placed \in [Services -> Nat]
  /\ handed \in [Services -> Nat]
  /\ dropped \in [Services -> Nat]
  /\ call \in [Goroutines -> {None} \cup Calls]
  /\ up \in [Services -> BOOLEAN]
  /\ last \in [Services -> Answers]
  /\ overlapped \in SUBSET Services
  /\ deaf \in BOOLEAN

ServicesInit ==
  /\ Init
  /\ context = [g \in Goroutines |-> None]
  /\ store = [r \in Goroutines |-> [t \in Types |-> None]]
  /\ form = [r \in Goroutines |-> [t \in Types |-> "value"]]
  /\ holds = [g \in Goroutines |-> IF g = maker THEN Services ELSE {}]
  /\ placed = [s \in Services |-> 0]
  /\ handed = [s \in Services |-> 0]
  /\ dropped = [s \in Services |-> 0]
  /\ call = [g \in Goroutines |-> None]
  /\ up = [s \in Services |-> FALSE]
  /\ last = [s \in Services |-> [fn |-> "none", err |-> "nil", before |-> FALSE]]
  /\ overlapped = {}
  /\ deaf = FALSE
  /\ ops = 0

Begin(g) ==
  /\ call[g] = None
  /\ ops < MaxOps
  /\ ops' = ops + 1

Panic(why) ==
  /\ crash' = why
  /\ UNCHANGED <<started, done, canceled, stopping, pc, queue, ended, asked, closing>>

-----------------------------------------------------------------------------
\* The registry.

Count(f, s, yes) == IF yes /\ s # None THEN [f EXCEPT ![s] = @ + 1] ELSE f

\* Register, under the lock of registry r; a nil leaves the type without a service, and
\* keep says whether the answer is kept.
\* Slip: what the registry has got stays there.
PutSlip(r, t, s) ==
  IF store[r][t] # None THEN store ELSE [store EXCEPT ![r][t] = s]
Put(r, t, s) == [store EXCEPT ![r][t] = s]

Replace(g, r, t, s, f, keep) ==
  LET old == store[r][t]
  IN  /\ store' = Put(r, t, s)
      /\ form' = [form EXCEPT ![r][t] = f]
      /\ placed' = Count(placed, s, TRUE)
      /\ handed' = Count(handed, old, keep)
      /\ dropped' = Count(dropped, old, ~keep)
      /\ holds' = [holds EXCEPT ![g] = IF keep /\ old # None THEN @ \cup {old} ELSE @]

\* What g can register: a service it has, or nil (an interface that holds none).
Has(g, s) == s \in holds[g] \cup {None}

\* Any value under any key.
Register(g, t, s, f) ==
  /\ Begin(g)
  /\ Has(g, s)
  /\ s = None => f = "value"
  /\ context[g] # None
  /\ Replace(g, context[g], t, s, f, TRUE)
  /\ UNCHANGED <<vars, context, lifeVars>>

\* A T under *T.  Without a registry in the context, one is made and put into the context
\* returned.
ContextWith(g, t, s) ==
  /\ Begin(g)
  /\ Has(g, s)
  /\ LET r == IF context[g] = None THEN g ELSE context[g]
     IN  context' = [context EXCEPT ![g] = r] /\ Replace(g, r, t, s, "value", FALSE)
  /\ UNCHANGED <<vars, lifeVars>>

MustContextWith(g, t, s) ==
  /\ Begin(g)
  /\ Has(g, s)
  /\ IF context[g] = None
     THEN Panic("missing registry") /\ UNCHANGED regVars
     ELSE Replace(g, context[g], t, s, "value", FALSE) /\ UNCHANGED <<vars, context>>
  /\ UNCHANGED lifeVars

NewServiceContext(g) ==
  /\ Begin(g)
  /\ context' = [context EXCEPT ![g] = IF @ = None THEN g ELSE @]
  /\ UNCHANGED <<vars, store, form, holds, placed, handed, dropped, lifeVars>>

\* g looks t up and takes what it finds for a T or for a *T: the assertion panics when
\* it is not.
Look(g, t, f, why) ==
  LET r == context[g]
      found == IF r = None THEN None ELSE store[r][t]
  IN  /\ Begin(g)
      /\ IF found # None /\ form[r][t] # f
         THEN Panic(why) /\ UNCHANGED holds
         ELSE /\ holds' = [holds EXCEPT ![g] = @ \cup ({found} \ {None})]
              /\ UNCHANGED vars
      /\ UNCHANGED <<context, store, form, placed, handed, dropped, lifeVars>>

ContextFrom(g, t) == Look(g, t, "value", "not a value")
ContextFromPtr(g, t) == Look(g, t, "pointer", "not a pointer")

\* g gives h its context.
Inherit(g, h) ==
  /\ Begin(h)
  /\ context[g] # None
  /\ context' = [context EXCEPT ![h] = context[g]]
  /\ UNCHANGED <<vars, store, form, holds, placed, handed, dropped, lifeVars>>

-----------------------------------------------------------------------------
\* services.Start and services.Close: a hook, the method, a hook.

StartCalls == <<"PreStart", "Start", "PostStart">>
CloseCalls == <<"PreClose", "Close", "PostClose">>
\* Slip: PostStart comes before Start.
SequenceSlip(fn) == IF fn = "Start" THEN <<"PreStart", "PostStart", "Start">> ELSE CloseCalls
Sequence(fn) == IF fn = "Start" THEN StartCalls ELSE CloseCalls

\* Whether s runs.  Of the collector that is not for a Start or a Close to say, but for
\* runOnce and c.done.
Runs(s) == IF s = metrics THEN started /\ done # "closed" ELSE up[s]

Enter(g, fn, s) ==
  /\ Begin(g)
  /\ s \in holds[g]
  /\ call' = [call EXCEPT ![g] = [fn |-> fn, s |-> s, at |-> 1, before |-> Runs(s)]]
  /\ overlapped' = IF \E h \in Goroutines : call[h] # None /\ call[h].s = s
                   THEN overlapped \cup {s} ELSE overlapped
  /\ UNCHANGED <<vars, regVars, up, last, deaf>>

\* The call of g goes on after a step that answered err.
GoOn(g, c, err) ==
  IF err = "nil" /\ c.at < 3
  THEN call' = [call EXCEPT ![g].at = @ + 1] /\ UNCHANGED last
  ELSE /\ call' = [call EXCEPT ![g] = None]
       /\ last' = [last EXCEPT ![c.s] = [fn |-> c.fn, err |-> err, before |-> c.before]]

\* The method itself; the Collector's are those of its module and do not fail: a second
\* Start does nothing, and a Close that finds c.done nil stops nothing.
Method(c, fails) ==
  IF c.s # metrics
  THEN /\ up' = [up EXCEPT ![c.s] = IF fails THEN @ ELSE c.fn = "Start"]
       /\ UNCHANGED <<vars, deaf>>
  ELSE /\ ~fails
       /\ IF c.fn = "Start" THEN Start /\ UNCHANGED deaf ELSE Close /\ deaf' = (done = "nil")
       /\ UNCHANGED up

Step(g, fails) ==
  /\ call[g] # None
  /\ LET c == call[g]
         name == Sequence(c.fn)[c.at]
     IN  /\ IF name = c.fn THEN Method(c, fails)
            ELSE UNCHANGED <<vars, up, deaf>>
         /\ GoOn(g, c, IF fails THEN name ELSE "nil")
  /\ UNCHANGED <<regVars, overlapped, ops>>

-----------------------------------------------------------------------------
\* Collect, by whoever has the collector.
Ask(g) ==
  /\ Begin(g)
  /\ metrics \in holds[g]
  /\ Collect
  /\ UNCHANGED <<regVars, lifeVars>>

Others == UNCHANGED <<regVars, lifeVars, ops>>

ServicesNext ==
  /\ crash = "no"
  /\ \/ \E g \in Goroutines, t \in Types, s \in Services \cup {None} :
          \/ \E f \in Forms : Register(g, t, s, f)
          \/ ContextWith(g, t, s) \/ MustContextWith(g, t, s)
     \/ \E g \in Goroutines, t \in Types : ContextFrom(g, t) \/ ContextFromPtr(g, t)
     \/ \E g, h \in Goroutines : Inherit(g, h)
     \/ \E g \in Goroutines : NewServiceContext(g) \/ Ask(g)
     \/ \E g \in Goroutines, fn \in {"Start", "Close"}, s \in Services : Enter(g, fn, s)
     \/ \E g \in Goroutines, fails \in BOOLEAN : Step(g, fails)
     \/ Cancel /\ Others
     \/ Background /\ Others

ServicesSpec == ServicesInit /\ [][ServicesNext]_allVars

\* The Go scheduler runs what Start left behind.
FairServices ==
  /\ ServicesSpec
  /\ WF_allVars(crash = "no" /\ MakeDone /\ Others)
  /\ WF_allVars(crash = "no" /\ GroupEnds /\ Others)
  /\ \A p \in Producers :
       /\ WF_allVars(crash = "no" /\ Subscribe(p) /\ Others)
       /\ WF_allVars(crash = "no" /\ Leave(p) /\ Others)

-----------------------------------------------------------------------------
Places(s) == {x \in Goroutines \X Types : store[x[1]][x[2]] = s}

\* A registered service is in a registry until Register answers it, once, to the caller
\* that replaces it, or a ContextWith replaces it, which drops the answer (context.go:63
\* and :72): then nobody is told that it should be closed.
ServicesAccounted ==
  \A s \in Services : placed[s] = Cardinality(Places(s)) + handed[s] + dropped[s]

\* The collector was closed, and by a Close that could tell it.
Heard == closing /\ ~deaf

\* Unless calls overlap, the answer of services.Start and Close tells whether the service
\* runs: an error of PostStart (inf.go:72) leaves it running, one of PreStart as it was,
\* one of PreClose does not close it, and after one of PostClose it is closed.
AnswerTells(s) ==
  /\ last[s].fn = "Start" => (up[s] <=> last[s].before \/ last[s].err \in {"nil", "PostStart"})
  /\ last[s].fn = "Close" => (up[s] <=> last[s].before /\ last[s].err \in {"PreClose", "Close"})

\* Of the collector the answer tells as much, but for three cases: its context may end
\* it at any time; a Start after a Close that was heard says nil and starts nothing
\* (collect.go:110); a Close that finds c.done nil says nil and stops nothing (line 214).
CollectorTells ==
  LET l == last[metrics]
  IN  /\ l.err \in {"PreStart", "PreClose"} =>
           /\ Runs(metrics) => l.before
           /\ l.before => Runs(metrics) \/ canceled
      /\ l.fn = "Start" /\ l.err \in {"nil", "PostStart"} => Runs(metrics) \/ canceled \/ Heard
      /\ l.fn = "Close" /\ l.err \in {"nil", "PostClose"} => ~Runs(metrics) \/ deaf

AnswerTellsState ==
  \A s \in Services \ overlapped :
    (\A g \in Goroutines : call[g] # None => call[g].s # s) =>
      IF s = metrics THEN CollectorTells ELSE AnswerTells(s)

\* Each panic has a caller to blame, or a fault of the code: c.done is closed twice only
\* by a second Close or by the end of the group after a Close (collect.go:199 and :220);
\* the first task that a producer takes ends the process (line 103), and so does one
\* sent after a producer has left; a context alone never does.  Only what Register has
\* put under *T is not a T (context.go:43 and :91).
PanicNeedsCause ==
  /\ crash = "double close" => closing
  /\ crash = "negative counter" => asked /\ started
  /\ crash = "closed channel" => asked /\ (canceled \/ closing)
  /\ crash = "nil hub" => ~started
  /\ crash = "missing registry" => \E g \in Goroutines : context[g] = None
  /\ crash = "not a value" => \E r \in Goroutines, t \in Types : form[r][t] # "value"
  /\ crash = "not a pointer" => \E s \in Services : placed[s] > 0

\* A collector that was started and closed ends, or dies, unless the Close came before
\* the goroutine that Start leaves behind made c.done (line 193): then Close says nil
\* and the collector runs on.
CloseIsHeard == started /\ Heard ~> ended \/ crash # "no"
===============================================================================
