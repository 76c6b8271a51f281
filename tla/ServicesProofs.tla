----------------------------- MODULE ServicesProofs -----------------------------
(***************************************************************************)
(* What TLC checks of Services on small instances, proved for any services *)
(* and types, and any number of goroutines, producers and calls.           *)
(***************************************************************************)
EXTENDS Services, FiniteSetTheorems, TLAPS

\* The collector's part of a step.
CollectorStep ==
  \/ Start \/ Cancel \/ Collect \/ Close \/ Background
  \/ \E why \in {"missing registry", "not a value", "not a pointer"} : Panic(why)
  \/ UNCHANGED vars

\* The calls that put s under *T, be it nil.
Registers(g, t, s) ==
  (\E f \in Forms : Register(g, t, s, f)) \/ ContextWith(g, t, s) \/ MustContextWith(g, t, s)

\* Every step of the services is some step of the collector, and happens while the
\* process lives.
LEMMA StepOfCollector ==
  ASSUME [ServicesNext]_allVars
  PROVE  UNCHANGED vars \/ (crash = "no" /\ CollectorStep)
<1> USE DEF CollectorStep
<1>1. ASSUME NEW g \in Goroutines, NEW t \in Types, NEW s \in Services \cup {None}, crash = "no",
             Registers(g, t, s)
      PROVE  CollectorStep
  BY <1>1 DEF Registers, Register, ContextWith, MustContextWith
<1>2. ASSUME NEW g \in Goroutines, NEW t \in Types, crash = "no",
             ContextFrom(g, t) \/ ContextFromPtr(g, t)
      PROVE  CollectorStep
  BY <1>2 DEF ContextFrom, ContextFromPtr, Look
<1>3. ASSUME NEW g \in Goroutines, NEW h \in Goroutines, Inherit(g, h) PROVE CollectorStep
  BY <1>3 DEF Inherit
<1>4. ASSUME NEW g \in Goroutines, NewServiceContext(g) \/ Ask(g) PROVE CollectorStep
  BY <1>4 DEF NewServiceContext, Ask
<1>5. ASSUME NEW g \in Goroutines, NEW fn, NEW s \in Services, Enter(g, fn, s)
      PROVE  CollectorStep
  BY <1>5 DEF Enter
<1>6. ASSUME NEW g \in Goroutines, NEW fails \in BOOLEAN, Step(g, fails) PROVE CollectorStep
  BY <1>6 DEF Step, Method
<1> QED
  BY <1>1, <1>2, <1>3, <1>4, <1>5, <1>6 DEF ServicesNext, allVars, Registers

\* A publish does not overfill a channel.
LEMMA PublishFits == \A k \in 0 .. QueueLen : Publish(k) \in 0 .. QueueLen
BY CollectorAssumption DEF Publish

\* Every variable of the Collector of src/sys/sysmetrics/collect.go keeps its type.
THEOREM CollectorTypeCorrect == ServicesSpec => [](TypeOK /\ crash \in Panics)
<1>1. ServicesInit => TypeOK /\ crash \in Panics
  <2>1. 0 \in 0 .. QueueLen
    BY CollectorAssumption
  <2>2. ServicesInit => pc \in [Producers -> {"none", "waiting", "left"}]
                        /\ queue \in [Producers -> 0 .. QueueLen]
    BY <2>1 DEF ServicesInit, Init
  <2> QED BY <2>2 DEF ServicesInit, Init, TypeOK, Panics, Reasons
<1>2. TypeOK /\ crash \in Panics /\ [ServicesNext]_allVars => (TypeOK /\ crash \in Panics)'
  <2> SUFFICES ASSUME TypeOK, crash \in Panics, CollectorStep
               PROVE  (TypeOK /\ crash \in Panics)'
    BY StepOfCollector DEF CollectorStep
  <2> USE DEF TypeOK, Panics, Reasons
  <2>1. CASE Start \/ Cancel
    BY <2>1 DEF Start, Cancel
  <2>2. CASE Collect
    <3>1. queue' \in [Producers -> 0 .. QueueLen]
      <4>1. \A k \in 0 .. QueueLen : Publish(k) \in 0 .. QueueLen
        BY PublishFits
      <4>2. \/ queue' = queue
            \/ queue' = [p \in Producers |-> IF pc[p] = "waiting" THEN Publish(queue[p])
                                                                   ELSE queue[p]]
        BY <2>2 DEF Collect
      <4> QED BY <4>1, <4>2
    <3>2. crash' \in Panics
      BY <2>2 DEF Collect
    <3> QED BY <2>2, <3>1, <3>2 DEF Collect
  <2>3. CASE Close
    BY <2>3 DEF Close, CloseDone
  <2>4. CASE MakeDone \/ GroupEnds
    BY <2>4 DEF MakeDone, GroupEnds, CloseDone
  <2>5. ASSUME NEW p \in Producers, Subscribe(p) \/ Leave(p) \/ HandleTask(p)
        PROVE  (TypeOK /\ crash \in Panics)'
    BY <2>5 DEF Subscribe, Leave, HandleTask
  <2>6. ASSUME NEW why \in {"missing registry", "not a value", "not a pointer"}, Panic(why)
        PROVE  (TypeOK /\ crash \in Panics)'
    BY <2>6 DEF Panic
  <2>7. CASE UNCHANGED vars
    BY <2>7 DEF vars
  <2> QED BY <2>1, <2>2, <2>3, <2>4, <2>5, <2>6, <2>7 DEF CollectorStep, Background
<1> QED
  BY <1>1, <1>2, PTL DEF ServicesSpec

\* Register, or the part of ContextWith that is one, keeps the types of the registries.
LEMMA ReplaceTypes ==
  ASSUME ServicesTypeOK, NEW g \in Goroutines, NEW r \in Goroutines, NEW t \in Types,
         NEW s \in Services \cup {None}, NEW f \in Forms, NEW keep \in BOOLEAN,
         Replace(g, r, t, s, f, keep)
  PROVE  /\ form' \in [Goroutines -> [Types -> Forms]]
         /\ store' \in [Goroutines -> [Types -> Services \cup {None}]]
         /\ holds' \in [Goroutines -> SUBSET Services]
         /\ placed' \in [Services -> Nat]
         /\ handed' \in [Services -> Nat]
         /\ dropped' \in [Services -> Nat]
<1>1. store[r][t] \in Services \cup {None}
  BY DEF ServicesTypeOK
<1>2. ASSUME NEW n \in [Services -> Nat], NEW o \in Services \cup {None}, NEW yes \in BOOLEAN
      PROVE  Count(n, o, yes) \in [Services -> Nat]
  BY DEF Count
<1>3. store' \in [Goroutines -> [Types -> Services \cup {None}]]
  BY DEF Replace, Put, ServicesTypeOK
<1>4. holds' \in [Goroutines -> SUBSET Services]
  BY <1>1 DEF Replace, ServicesTypeOK
<1>5. placed' \in [Services -> Nat] /\ form' \in [Goroutines -> [Types -> Forms]]
  <2>1. placed' = Count(placed, s, TRUE) /\ placed \in [Services -> Nat]
    BY DEF Replace, ServicesTypeOK
  <2>2. form' \in [Goroutines -> [Types -> Forms]]
    BY DEF Replace, ServicesTypeOK
  <2> QED BY <1>2, <2>1, <2>2
<1>6. handed' \in [Services -> Nat] /\ dropped' \in [Services -> Nat]
  <2>1. /\ handed' = Count(handed, store[r][t], keep)
        /\ dropped' = Count(dropped, store[r][t], ~keep)
    BY DEF Replace
  <2>2. handed \in [Services -> Nat] /\ dropped \in [Services -> Nat] /\ (~keep) \in BOOLEAN
    BY DEF ServicesTypeOK
  <2> QED BY <1>1, <1>2, <2>1, <2>2
<1> QED
  BY <1>3, <1>4, <1>5, <1>6

LEMMA RunsIsBoolean ==
  ASSUME ServicesTypeOK, NEW s \in Services
  PROVE  Runs(s) \in BOOLEAN
BY DEF ServicesTypeOK, TypeOK, Runs

\* A step of services.Start or services.Close, in detail: either it goes on, or it ends.
LEMMA StepOfCall ==
  ASSUME ServicesTypeOK, NEW g \in Goroutines, NEW fails \in BOOLEAN, Step(g, fails)
  PROVE  /\ call[g] \in Calls
         /\ Sequence(call[g].fn)[call[g].at] \in CallSteps
         /\ \A s \in Services \ {call[g].s} : up'[s] = up[s] /\ last'[s] = last[s]
         /\ up' \in [Services -> BOOLEAN]
         /\ call[g].at # 2 => up' = up
         /\ call[g].at = 2 /\ call[g].s # metrics =>
              up'[call[g].s] = IF fails THEN up[call[g].s] ELSE call[g].fn = "Start"
         /\ \/ /\ ~fails /\ call[g].at < 3 /\ UNCHANGED last
               /\ call' = [call EXCEPT ![g] = [call[g] EXCEPT !.at = @ + 1]]
            \/ /\ fails \/ call[g].at = 3
               /\ call' = [call EXCEPT ![g] = None]
               /\ last' = [last EXCEPT ![call[g].s] =
                    [fn |-> call[g].fn, before |-> call[g].before,
                     err |-> IF fails THEN Sequence(call[g].fn)[call[g].at] ELSE "nil"]]
<1> DEFINE c == call[g]
<1>1. c \in Calls
  BY DEF Step, ServicesTypeOK
<1>2. /\ c.at \in 1 .. 3 /\ c.fn \in {"Start", "Close"} /\ c.s \in Services
      /\ c.at = 1 => Sequence(c.fn)[c.at] \in {"PreStart", "PreClose"}
      /\ c.at = 2 => Sequence(c.fn)[c.at] = c.fn
      /\ c.at = 3 => Sequence(c.fn)[c.at] \in {"PostStart", "PostClose"}
  BY <1>1 DEF Calls, Sequence, StartCalls, CloseCalls
<1>3. Sequence(c.fn)[c.at] = c.fn <=> c.at = 2
  BY <1>2
<1>4. /\ c.at = 2 /\ c.s # metrics => up' = [up EXCEPT ![c.s] = IF fails THEN @ ELSE c.fn = "Start"]
      /\ c.at # 2 \/ c.s = metrics => up' = up
  BY <1>3 DEF Step, Method
<1>5. up \in [Services -> BOOLEAN] /\ last \in [Services -> Answers]
  BY DEF ServicesTypeOK
<1>6. GoOn(g, c, IF fails THEN Sequence(c.fn)[c.at] ELSE "nil")
  BY DEF Step
<1>7. Sequence(c.fn)[c.at] # "nil"
  BY <1>2
<1>8. \/ /\ ~fails /\ c.at < 3 /\ UNCHANGED last
         /\ call' = [call EXCEPT ![g] = [c EXCEPT !.at = @ + 1]]
      \/ /\ fails \/ c.at = 3
         /\ call' = [call EXCEPT ![g] = None]
         /\ last' = [last EXCEPT ![c.s] =
              [fn |-> c.fn, before |-> c.before,
               err |-> IF fails THEN Sequence(c.fn)[c.at] ELSE "nil"]]
  BY <1>2, <1>6, <1>7 DEF GoOn
<1>9. up' \in [Services -> BOOLEAN]
  BY <1>2, <1>4, <1>5
<1>10. c.at = 2 /\ c.s # metrics => up'[c.s] = IF fails THEN up[c.s] ELSE c.fn = "Start"
  BY <1>2, <1>4, <1>5
<1>11. \A s \in Services \ {c.s} : up'[s] = up[s] /\ last'[s] = last[s]
  BY <1>2, <1>4, <1>5, <1>8
<1>12. Sequence(c.fn)[c.at] \in CallSteps
  BY <1>2 DEF CallSteps
<1> QED
  BY <1>12, <1>1, <1>4, <1>8, <1>9, <1>10, <1>11

\* Every variable of Services keeps its type: the registries of src/registry/context.go
\* and the calls of src/services/inf.go.
THEOREM ServicesTypeCorrect == ServicesSpec => []ServicesTypeOK
<1>1. ServicesInit /\ TypeOK /\ crash \in Panics => ServicesTypeOK
  <2> SUFFICES ASSUME ServicesInit, TypeOK, crash \in Panics PROVE ServicesTypeOK
    OBVIOUS
  <2>1. [fn |-> "none", err |-> "nil", before |-> FALSE] \in Answers
    BY DEF Answers
  <2>2. last \in [Services -> Answers] /\ up \in [Services -> BOOLEAN]
    BY <2>1 DEF ServicesInit
  <2>3. /\ context \in [Goroutines -> Goroutines \cup {None}]
        /\ store \in [Goroutines -> [Types -> Services \cup {None}]]
        /\ form \in [Goroutines -> [Types -> Forms]]
        /\ deaf \in BOOLEAN
        /\ holds \in [Goroutines -> SUBSET Services]
        /\ call \in [Goroutines -> {None} \cup Calls]
        /\ overlapped \in SUBSET Services
    BY DEF ServicesInit, Forms
  <2>4. /\ placed \in [Services -> Nat]
        /\ handed \in [Services -> Nat]
        /\ dropped \in [Services -> Nat]
    BY DEF ServicesInit
  <2> QED BY <2>2, <2>3, <2>4 DEF ServicesTypeOK
<1>2. ServicesTypeOK /\ (TypeOK /\ crash \in Panics)' /\ [ServicesNext]_allVars => ServicesTypeOK'
  <2> SUFFICES ASSUME ServicesTypeOK, (TypeOK /\ crash \in Panics)', [ServicesNext]_allVars
               PROVE  ServicesTypeOK'
    OBVIOUS
  <2> USE DEF regVars, lifeVars
  <2>1. ASSUME NEW g \in Goroutines, NEW t \in Types, NEW s \in Services \cup {None},
               Registers(g, t, s)
        PROVE  ServicesTypeOK'
    <3>1. context' \in [Goroutines -> Goroutines \cup {None}] /\ UNCHANGED lifeVars
      BY <2>1 DEF Registers, Register, ContextWith, MustContextWith, ServicesTypeOK
    <3>2. CASE UNCHANGED <<store, form, holds, placed, handed, dropped>>
      BY <3>1, <3>2 DEF ServicesTypeOK
    <3>3. ASSUME NEW r \in Goroutines, NEW f \in Forms, NEW keep \in BOOLEAN,
                 Replace(g, r, t, s, f, keep)
          PROVE  ServicesTypeOK'
      <4>1. /\ form' \in [Goroutines -> [Types -> Forms]]
            /\ store' \in [Goroutines -> [Types -> Services \cup {None}]]
            /\ holds' \in [Goroutines -> SUBSET Services]
            /\ placed' \in [Services -> Nat]
            /\ handed' \in [Services -> Nat]
            /\ dropped' \in [Services -> Nat]
        BY <3>3, ReplaceTypes
      <4> QED BY <3>1, <4>1 DEF ServicesTypeOK
    <3>4. \/ UNCHANGED <<store, form, holds, placed, handed, dropped>>
          \/ \E r \in Goroutines, f \in Forms, keep \in BOOLEAN : Replace(g, r, t, s, f, keep)
      <4>1. context[g] \in Goroutines \cup {None}
        BY DEF ServicesTypeOK
      <4> QED BY <2>1, <4>1 DEF Registers, Forms, Register, ContextWith, MustContextWith
    <3> QED BY <3>2, <3>3, <3>4
  <2>2. ASSUME NEW g \in Goroutines, NEW t \in Types, ContextFrom(g, t) \/ ContextFromPtr(g, t)
        PROVE  ServicesTypeOK'
    <3> DEFINE found == IF context[g] = None THEN None ELSE store[context[g]][t]
    <3>1. found \in Services \cup {None}
      BY DEF ServicesTypeOK
    <3>2. holds' \in {holds, [holds EXCEPT ![g] = @ \cup ({found} \ {None})]}
      BY <2>2 DEF ContextFrom, ContextFromPtr, Look
    <3>3. UNCHANGED <<context, store, form, placed, handed, dropped, lifeVars>>
      BY <2>2 DEF ContextFrom, ContextFromPtr, Look
    <3> HIDE DEF found
    <3>4. holds' \in [Goroutines -> SUBSET Services]
      BY <3>1, <3>2 DEF ServicesTypeOK
    <3> QED BY <3>3, <3>4 DEF ServicesTypeOK
  <2>3. ASSUME NEW g \in Goroutines, NEW h \in Goroutines, Inherit(g, h) PROVE ServicesTypeOK'
    BY <2>3 DEF Inherit, ServicesTypeOK
  <2>4. ASSUME NEW g \in Goroutines, NewServiceContext(g) \/ Ask(g) PROVE ServicesTypeOK'
    BY <2>4 DEF NewServiceContext, Ask, ServicesTypeOK
  <2>5. ASSUME NEW g \in Goroutines, NEW fn \in {"Start", "Close"}, NEW s \in Services,
               Enter(g, fn, s)
        PROVE  ServicesTypeOK'
    <3>1. [fn |-> fn, s |-> s, at |-> 1, before |-> Runs(s)] \in Calls
      BY RunsIsBoolean DEF Calls
    <3>2. call' \in [Goroutines -> {None} \cup Calls]
      BY <2>5, <3>1 DEF Enter, ServicesTypeOK
    <3>3. overlapped' \in SUBSET Services
      BY <2>5 DEF Enter, ServicesTypeOK
    <3> QED BY <2>5, <3>2, <3>3 DEF Enter, ServicesTypeOK
  <2>6. ASSUME NEW g \in Goroutines, NEW fails \in BOOLEAN, Step(g, fails) PROVE ServicesTypeOK'
    <3>1. call[g] \in Calls /\ up' \in [Services -> BOOLEAN]
      BY <2>6, StepOfCall
    <3>2. call' \in [Goroutines -> {None} \cup Calls]
      <4>1. call[g].at < 3 => [call[g] EXCEPT !.at = @ + 1] \in Calls
        BY <3>1 DEF Calls
      <4>2. \/ call[g].at < 3 /\ call' = [call EXCEPT ![g] = [call[g] EXCEPT !.at = @ + 1]]
            \/ call' = [call EXCEPT ![g] = None]
        BY <2>6, StepOfCall
      <4> QED BY <4>1, <4>2 DEF ServicesTypeOK
    <3>3. last' \in [Services -> Answers]
      <4> DEFINE e == IF fails THEN Sequence(call[g].fn)[call[g].at] ELSE "nil"
                 a == [fn |-> call[g].fn, before |-> call[g].before, err |-> e]
      <4>1. e \in CallSteps \cup {"nil"}
        BY <2>6, StepOfCall
      <4>2. last' \in {last, [last EXCEPT ![call[g].s] = a]}
        BY <2>6, StepOfCall
      <4> HIDE DEF e
      <4>3. a \in Answers
        BY <3>1, <4>1 DEF Calls, Answers
      <4> HIDE DEF a
      <4> QED BY <4>2, <4>3 DEF ServicesTypeOK
    <3>4. deaf' \in BOOLEAN
      BY <2>6 DEF Step, Method, ServicesTypeOK
    <3> QED BY <2>6, <3>1, <3>2, <3>3, <3>4 DEF Step, ServicesTypeOK
  <2>7. CASE (Cancel \/ Background) /\ Others
    BY <2>7 DEF Others, ServicesTypeOK
  <2>8. CASE UNCHANGED allVars
    BY <2>8 DEF allVars, ServicesTypeOK
  <2> QED
    BY <2>1, <2>2, <2>3, <2>4, <2>5, <2>6, <2>7, <2>8 DEF ServicesNext, Registers
<1> QED
  BY <1>1, <1>2, CollectorTypeCorrect, PTL DEF ServicesSpec

-----------------------------------------------------------------------------
(***************************************************************************)
(* No service is forgotten.  A Register moves one place from the old       *)
(* service to the new one.                                                 *)
(***************************************************************************)

\* The places of a service are finitely many, and a Register changes them by one.
LEMMA PlacesFinite ==
  ASSUME NEW s
  PROVE  IsFiniteSet(Places(s)) /\ Cardinality(Places(s)) \in Nat
<1>1. IsFiniteSet(Goroutines \X Types)
  BY ServicesAssumption, FS_Product
<1>2. Places(s) \subseteq Goroutines \X Types
  BY DEF Places
<1> QED
  BY <1>1, <1>2, FS_Subset, FS_CardinalityType

\* Register and its like keep the account of every service.
LEMMA ReplaceAccounts ==
  ASSUME ServicesTypeOK, ServicesAccounted, NEW g \in Goroutines, NEW r \in Goroutines,
         NEW t \in Types, NEW s \in Services \cup {None}, NEW f \in Forms,
         NEW keep \in BOOLEAN, Replace(g, r, t, s, f, keep)
  PROVE  ServicesAccounted'
<1> DEFINE old == store[r][t]
           x == <<r, t>>
<1>1. old \in Services \cup {None} /\ x \in Goroutines \X Types
  BY DEF ServicesTypeOK
<1>2. \A y \in Goroutines \X Types : store'[y[1]][y[2]] = IF y = x THEN s ELSE store[y[1]][y[2]]
  BY DEF Replace, Put, ServicesTypeOK
<1>3. \A v \in Services :
        Places(v)' = IF v = s THEN Places(v) \cup {x} ELSE Places(v) \ {x}
  BY <1>1, <1>2 DEF Places
<1>4. \A v \in Services : x \in Places(v) <=> v = old
  BY <1>1 DEF Places
<1>5. \A v \in Services : /\ placed[v] \in Nat /\ handed[v] \in Nat /\ dropped[v] \in Nat
  BY DEF ServicesTypeOK
<1>6. \A v \in Services :
        /\ placed'[v] = placed[v] + (IF v = s THEN 1 ELSE 0)
        /\ handed'[v] = handed[v] + (IF keep /\ v = old THEN 1 ELSE 0)
        /\ dropped'[v] = dropped[v] + (IF ~keep /\ v = old THEN 1 ELSE 0)
  BY <1>1, <1>5, ServicesAssumption DEF Replace, Count, ServicesTypeOK
<1> HIDE DEF old, x
<1>7. SUFFICES ASSUME NEW v \in Services
               PROVE  placed'[v] = Cardinality(Places(v)') + handed'[v] + dropped'[v]
  BY DEF ServicesAccounted
<1>8. Cardinality(Places(v)') = Cardinality(Places(v)) + (IF v = s THEN 1 ELSE 0)
                                                       - (IF v = old THEN 1 ELSE 0)
  <2>1. /\ Cardinality(Places(v) \cup {x}) =
             IF x \in Places(v) THEN Cardinality(Places(v)) ELSE Cardinality(Places(v)) + 1
        /\ Cardinality(Places(v) \ {x}) =
             IF x \in Places(v) THEN Cardinality(Places(v)) - 1 ELSE Cardinality(Places(v))
    BY PlacesFinite, FS_AddElement, FS_RemoveElement
  <2>2. CASE v = s
    <3>1. Places(v)' = Places(v) \cup {x}
      BY <1>3, <2>2
    <3>2. Cardinality(Places(v)) \in Nat
      BY PlacesFinite
    <3> QED BY <1>4, <2>1, <2>2, <3>1, <3>2
  <2>3. CASE v # s
    BY <1>3, <1>4, <2>1, <2>3, PlacesFinite
  <2> QED BY <2>2, <2>3
<1>9. placed[v] = Cardinality(Places(v)) + handed[v] + dropped[v]
  BY DEF ServicesAccounted
<1> QED
  BY <1>5, <1>6, <1>8, <1>9, PlacesFinite

\* Every service that was ever registered is in a registry, or was handed to who
\* replaced it, or was dropped by a ContextWith (context.go:58 to 89).
THEOREM ServicesAreAccounted == ServicesSpec => []ServicesAccounted
<1>1. ServicesInit => ServicesAccounted
  <2> SUFFICES ASSUME ServicesInit, NEW s \in Services
               PROVE  placed[s] = Cardinality(Places(s)) + handed[s] + dropped[s]
    BY DEF ServicesAccounted
  <2>1. Places(s) = {}
    BY ServicesAssumption DEF ServicesInit, Places
  <2> QED BY <2>1, FS_EmptySet DEF ServicesInit
<1>2. ServicesTypeOK /\ ServicesAccounted /\ [ServicesNext]_allVars => ServicesAccounted'
  <2> SUFFICES ASSUME ServicesTypeOK, ServicesAccounted, [ServicesNext]_allVars
               PROVE  ServicesAccounted'
    OBVIOUS
  <2> USE DEF regVars, lifeVars
  <2>1. UNCHANGED <<store, placed, handed, dropped>> => ServicesAccounted'
    BY DEF ServicesAccounted, Places
  <2>2. ASSUME NEW g \in Goroutines, NEW t \in Types, NEW s \in Services \cup {None},
               Registers(g, t, s)
        PROVE  ServicesAccounted'
    <3>1. \/ UNCHANGED <<store, placed, handed, dropped>>
          \/ \E r \in Goroutines, f \in Forms, keep \in BOOLEAN : Replace(g, r, t, s, f, keep)
      <4>1. context[g] \in Goroutines \cup {None}
        BY DEF ServicesTypeOK
      <4> QED BY <2>2, <4>1 DEF Registers, Forms, Register, ContextWith, MustContextWith
    <3> QED BY <2>1, <3>1, ReplaceAccounts
  <2>3. ASSUME NEW g \in Goroutines, NEW t \in Types, ContextFrom(g, t) \/ ContextFromPtr(g, t)
        PROVE  ServicesAccounted'
    BY <2>1, <2>3 DEF ContextFrom, ContextFromPtr, Look
  <2>4. ASSUME NEW g \in Goroutines, NEW h \in Goroutines, Inherit(g, h) PROVE ServicesAccounted'
    BY <2>1, <2>4 DEF Inherit
  <2>5. ASSUME NEW g \in Goroutines, NewServiceContext(g) \/ Ask(g) PROVE ServicesAccounted'
    BY <2>1, <2>5 DEF NewServiceContext, Ask
  <2>6. ASSUME NEW g \in Goroutines, NEW fn, NEW s \in Services, Enter(g, fn, s)
        PROVE  ServicesAccounted'
    BY <2>1, <2>6 DEF Enter
  <2>7. ASSUME NEW g \in Goroutines, NEW fails \in BOOLEAN, Step(g, fails)
        PROVE  ServicesAccounted'
    BY <2>1, <2>7 DEF Step
  <2>8. CASE Others \/ UNCHANGED allVars
    BY <2>1, <2>8 DEF Others, allVars
  <2> QED
    BY <2>2, <2>3, <2>4, <2>5, <2>6, <2>7, <2>8 DEF ServicesNext, Registers
<1> QED
  BY <1>1, <1>2, ServicesTypeCorrect, PTL DEF ServicesSpec

-----------------------------------------------------------------------------
(***************************************************************************)
(* What the answer of services.Start and Close means.  While one call is   *)
(* made of a service other than the collector, up is what it was at the    *)
(* begin until the method has run, and what the method made of it after.   *)
(***************************************************************************)

InCall(g, s) == call[g] # None /\ call[g].s = s
Idle(s) == \A g \in Goroutines : ~InCall(g, s)

CallIsTrue(g, s) ==
  InCall(g, s) =>
    /\ \A h \in Goroutines : InCall(h, s) => h = g
    /\ up[s] <=> IF call[g].at < 3 THEN call[g].before ELSE call[g].fn = "Start"

CallInv ==
  \A s \in Services \ (overlapped \cup {metrics}) :
    /\ \A g \in Goroutines : CallIsTrue(g, s)
    /\ Idle(s) => AnswerTells(s)

\* A new call keeps CallInv.
LEMMA EnterStep ==
  ASSUME ServicesTypeOK, CallInv, NEW g \in Goroutines, NEW fn \in {"Start", "Close"},
         NEW s \in Services, Enter(g, fn, s)
  PROVE  CallInv'
<1> DEFINE c == [fn |-> fn, s |-> s, at |-> 1, before |-> Runs(s)]
<1>1. /\ call[g] = None
      /\ call' = [call EXCEPT ![g] = c]
      /\ UNCHANGED <<up, last>>
      /\ ~Idle(s) => overlapped' = overlapped \cup {s}
      /\ overlapped \subseteq overlapped'
  BY DEF Enter, Begin, InCall, Idle
<1>2. c.s = s /\ c.at = 1 /\ (s # metrics => c.before = up[s]) /\ c \in Calls
  BY RunsIsBoolean DEF Calls, Runs
<1> HIDE DEF c
<1>3. call'[g] = c /\ \A h \in Goroutines \ {g} : call'[h] = call[h]
  BY <1>1 DEF ServicesTypeOK
<1>4. SUFFICES ASSUME NEW v \in Services \ {metrics}, v \notin overlapped'
               PROVE  /\ \A h \in Goroutines : CallIsTrue(h, v)'
                      /\ Idle(v)' => AnswerTells(v)'
  BY DEF CallInv
<1>5. /\ \A h \in Goroutines : CallIsTrue(h, v)
      /\ Idle(v) => AnswerTells(v)
  BY <1>1, <1>4 DEF CallInv
<1>6. CASE v = s
  <2>1. Idle(s) /\ v \notin overlapped
    BY <1>1, <1>4, <1>6
  <2>2. \A h \in Goroutines : InCall(h, v)' => h = g
    BY <1>3, <1>6, <2>1 DEF InCall, Idle
  <2>3. c # None => InCall(g, v)'
    BY <1>2, <1>3, <1>6 DEF InCall
  <2>4. \A h \in Goroutines : CallIsTrue(h, v)'
    BY <1>1, <1>2, <1>3, <1>6, <2>2 DEF CallIsTrue
  <2>5. AnswerTells(v)'
    BY <1>1, <1>5, <1>6, <2>1 DEF AnswerTells
  <2> QED BY <2>4, <2>5
<1>7. CASE v # s
  <2>1. \A h \in Goroutines : InCall(h, v)' <=> InCall(h, v)
    BY <1>1, <1>2, <1>3, <1>7 DEF InCall
  <2>2. \A h \in Goroutines : InCall(h, v) => h # g /\ call'[h] = call[h]
    BY <1>1, <1>3 DEF InCall
  <2> QED BY <1>1, <1>5, <2>1, <2>2 DEF CallIsTrue, AnswerTells, Idle
<1> QED
  BY <1>6, <1>7

\* A hook, or the method, keeps CallInv.
LEMMA HookStep ==
  ASSUME ServicesTypeOK, CallInv, NEW g \in Goroutines, NEW fails \in BOOLEAN, Step(g, fails)
  PROVE  CallInv'
<1> DEFINE c == call[g]
           name == Sequence(c.fn)[c.at]
<1>1. /\ c \in Calls /\ c # None
      /\ \A v \in Services \ {c.s} : up'[v] = up[v] /\ last'[v] = last[v]
      /\ c.at # 2 => up' = up
      /\ c.at = 2 /\ c.s # metrics => up'[c.s] = IF fails THEN up[c.s] ELSE c.fn = "Start"
      /\ UNCHANGED overlapped
  BY StepOfCall DEF Step
<1>2. \/ /\ ~fails /\ c.at < 3 /\ UNCHANGED last
         /\ call' = [call EXCEPT ![g] = [c EXCEPT !.at = @ + 1]]
      \/ /\ fails \/ c.at = 3
         /\ call' = [call EXCEPT ![g] = None]
         /\ last' = [last EXCEPT ![c.s] =
              [fn |-> c.fn, before |-> c.before, err |-> IF fails THEN name ELSE "nil"]]
  BY StepOfCall
<1>3. /\ c.at \in 1 .. 3 /\ c.fn \in {"Start", "Close"} /\ c.s \in Services
      /\ c.at = 1 => name = IF c.fn = "Start" THEN "PreStart" ELSE "PreClose"
      /\ c.at = 2 => name = c.fn
      /\ c.at = 3 => name = IF c.fn = "Start" THEN "PostStart" ELSE "PostClose"
  BY <1>1 DEF Calls, Sequence, StartCalls, CloseCalls
<1>4. \A h \in Goroutines \ {g} : call'[h] = call[h]
  BY <1>2 DEF ServicesTypeOK
<1>5. SUFFICES ASSUME NEW v \in Services \ {metrics}, v \notin overlapped
               PROVE  /\ \A h \in Goroutines : CallIsTrue(h, v)'
                      /\ Idle(v)' => AnswerTells(v)'
  BY <1>1 DEF CallInv
<1>6. /\ \A h \in Goroutines : CallIsTrue(h, v)
      /\ Idle(v) => AnswerTells(v)
  BY <1>5 DEF CallInv
<1> HIDE DEF name
<1>7. CASE v # c.s
  <2>1. call'[g] = None \/ call'[g].s = c.s
    BY <1>1, <1>2 DEF ServicesTypeOK, Calls
  <2>2. \A h \in Goroutines : /\ InCall(h, v)' <=> InCall(h, v)
                              /\ InCall(h, v) => h # g
    BY <1>4, <1>7, <2>1 DEF InCall
  <2> QED BY <1>1, <1>4, <1>6, <1>7, <2>2 DEF CallIsTrue, AnswerTells, Idle
<1>8. CASE v = c.s
  <2>1. /\ \A h \in Goroutines : InCall(h, v) => h = g
        /\ up[v] <=> IF c.at < 3 THEN c.before ELSE c.fn = "Start"
    BY <1>1, <1>6, <1>8 DEF CallIsTrue, InCall
  <2>2. \A h \in Goroutines : InCall(h, v)' => h = g
    BY <1>4, <2>1 DEF InCall
  <2>3. CASE /\ ~fails /\ c.at < 3
             /\ call' = [call EXCEPT ![g] = [c EXCEPT !.at = @ + 1]]
    <3> DEFINE d == [c EXCEPT !.at = @ + 1]
    <3>1. d.at = c.at + 1 /\ d.fn = c.fn /\ d.s = c.s /\ d.before = c.before /\ d # None
      <4>1. d \in Calls
        BY <1>1, <2>3 DEF Calls
      <4> QED BY <1>1, <4>1, ServicesAssumption DEF Calls
    <3>2. call'[g] = d
      BY <2>3 DEF ServicesTypeOK
    <3> HIDE DEF d
    <3>3. up'[v] <=> IF d.at < 3 THEN d.before ELSE d.fn = "Start"
      <4>1. CASE c.at = 1
        <5>1. up' = up
          BY <1>1, <4>1
        <5> QED BY <1>8, <2>1, <3>1, <4>1, <5>1
      <4>2. CASE c.at = 2
        <5>1. up'[v] <=> c.fn = "Start"
          BY <1>1, <1>8, <2>3, <4>2
        <5> QED BY <3>1, <4>2, <5>1
      <4> QED BY <1>3, <2>3, <4>1, <4>2
    <3> QED BY <1>8, <2>2, <3>1, <3>2, <3>3 DEF CallIsTrue, InCall, Idle
  <2>4. CASE /\ fails \/ c.at = 3
             /\ call' = [call EXCEPT ![g] = None]
             /\ last' = [last EXCEPT ![c.s] =
                  [fn |-> c.fn, before |-> c.before, err |-> IF fails THEN name ELSE "nil"]]
    <3>1. call'[g] = None
      BY <2>4 DEF ServicesTypeOK
    <3>2. \A h \in Goroutines : CallIsTrue(h, v)'
      BY <2>2, <3>1 DEF CallIsTrue, InCall
    <3>3. /\ last'[v].fn = c.fn /\ last'[v].before = c.before
          /\ last'[v].err = IF fails THEN name ELSE "nil"
      BY <1>8, <2>4 DEF ServicesTypeOK
    <3>4. AnswerTells(v)'
      BY <1>1, <1>3, <1>8, <2>1, <2>4, <3>3 DEF AnswerTells
    <3> QED BY <3>2, <3>4
  <2> QED BY <1>2, <2>3, <2>4
<1> QED
  BY <1>7, <1>8

(***************************************************************************)
(* The same of the collector, which runs and ends by itself: what may end  *)
(* it is its context, or a Close that found c.done.                        *)
(***************************************************************************)

\* What the group and c.done are left with.
EndInv ==
  /\ done = "nil" => ~stopping /\ \A p \in Producers : pc[p] = "none"
  /\ Heard => done = "closed"
  /\ done = "closed" \/ stopping \/ (\E p \in Producers : pc[p] = "left") => canceled \/ Heard

\* What happens to the collector but for Start and Close.
Drift ==
  \/ Cancel \/ Collect \/ Background
  \/ \E why \in {"missing registry", "not a value", "not a pointer"} : Panic(why)
  \/ UNCHANGED vars

\* A step of the services is a Start, a Close or a drift of the collector, and only a
\* Close says whether it was heard.
LEMMA StepHears ==
  ASSUME [ServicesNext]_allVars
  PROVE  \/ Close /\ deaf' = (done = "nil")
         \/ (Start \/ Drift) /\ UNCHANGED deaf
<1> USE DEF Drift, lifeVars
<1>1. ASSUME NEW g \in Goroutines, NEW t \in Types, NEW s \in Services \cup {None},
             Registers(g, t, s)
      PROVE  Drift /\ UNCHANGED deaf
  BY <1>1 DEF Registers, Register, ContextWith, MustContextWith
<1>2. ASSUME NEW g \in Goroutines, NEW t \in Types, ContextFrom(g, t) \/ ContextFromPtr(g, t)
      PROVE  Drift /\ UNCHANGED deaf
  BY <1>2 DEF ContextFrom, ContextFromPtr, Look
<1>3. ASSUME NEW g \in Goroutines, NEW h \in Goroutines,
             Inherit(g, h) \/ NewServiceContext(g) \/ Ask(g)
      PROVE  Drift /\ UNCHANGED deaf
  BY <1>3 DEF Inherit, NewServiceContext, Ask
<1>4. ASSUME NEW g \in Goroutines, NEW fn, NEW s \in Services, Enter(g, fn, s)
      PROVE  Drift /\ UNCHANGED deaf
  BY <1>4 DEF Enter
<1>5. ASSUME NEW g \in Goroutines, NEW fails \in BOOLEAN, Step(g, fails)
      PROVE  \/ Close /\ deaf' = (done = "nil")
             \/ (Start \/ Drift) /\ UNCHANGED deaf
  BY <1>5 DEF Step, Method
<1>6. ASSUME (Cancel \/ Background) /\ Others PROVE Drift /\ UNCHANGED deaf
  BY <1>6 DEF Others
<1>7. UNCHANGED allVars => Drift /\ UNCHANGED deaf
  BY DEF allVars
<1> QED
  BY <1>1, <1>2, <1>3, <1>4, <1>5, <1>6, <1>7 DEF ServicesNext, Registers

\* A drift ends a collector that runs only after its context is canceled, and never
\* makes one run.
LEMMA DriftEnds ==
  ASSUME TypeOK, EndInv, Drift, UNCHANGED deaf
  PROVE  /\ UNCHANGED <<started, closing>>
         /\ canceled => canceled'
         /\ Runs(metrics)' => Runs(metrics)
         /\ Runs(metrics) => Runs(metrics)' \/ canceled'
         /\ EndInv'
<1> USE DEF EndInv, Heard, Runs
<1>1. CASE Cancel \/ Collect \/ UNCHANGED vars
  <2>1. CASE Cancel
    BY <2>1 DEF Cancel
  <2>2. CASE Collect
    <3>1. UNCHANGED <<started, done, closing, stopping, pc, canceled>>
      BY <2>2 DEF Collect
    <3> QED BY <3>1
  <2>3. CASE UNCHANGED vars
    BY <2>3 DEF vars
  <2> QED BY <1>1, <2>1, <2>2, <2>3
<1>2. CASE MakeDone
  BY <1>2 DEF MakeDone
<1>3. CASE GroupEnds
  <2>1. /\ UNCHANGED <<started, closing, canceled, stopping, pc>>
        /\ done' = "closed"
        /\ \E p \in Producers : pc[p] = "left"
    BY <1>3, CollectorAssumption DEF GroupEnds, CloseDone
  <2> QED BY <2>1
<1>4. ASSUME NEW p \in Producers, Subscribe(p) \/ HandleTask(p)
      PROVE  /\ UNCHANGED <<started, done, closing, stopping, canceled>>
             /\ EndInv'
  <2>1. \A q \in Producers : pc'[q] = "left" => pc[q] = "left"
    BY <1>4 DEF Subscribe, HandleTask, TypeOK
  <2>2. UNCHANGED <<started, done, closing, stopping, canceled>>
    BY <1>4 DEF Subscribe, HandleTask
  <2>3. done # "nil"
    BY <1>4 DEF Subscribe, HandleTask
  <2> QED BY <2>1, <2>2, <2>3
<1>5. ASSUME NEW p \in Producers, Leave(p)
      PROVE  /\ UNCHANGED <<started, done, closing, canceled>>
             /\ EndInv'
  <2>1. UNCHANGED <<started, done, closing, canceled>> /\ pc[p] = "waiting"
    BY <1>5 DEF Leave
  <2>2. done = "closed" \/ canceled \/ stopping
    BY <1>5 DEF Leave, Stops
  <2> QED BY <2>1, <2>2
<1>6. CASE \E why \in {"missing registry", "not a value", "not a pointer"} : Panic(why)
  <2>1. UNCHANGED <<started, done, closing, stopping, canceled, pc>>
    BY <1>6 DEF Panic
  <2> QED BY <2>1
<1>7. CASE Background
  BY <1>2, <1>3, <1>4, <1>5, <1>7 DEF Background
<1> QED
  BY <1>1, <1>6, <1>7 DEF Drift

\* What is true of the collector while c is being made of it.
CollectorState(c) ==
  IF c.at < 3
  THEN /\ Runs(metrics) => c.before
       /\ c.before => Runs(metrics) \/ canceled
  ELSE IF c.fn = "Start" THEN Runs(metrics) \/ canceled \/ Heard
                         ELSE ~Runs(metrics) \/ deaf

CollectorCallInv ==
  metrics \notin overlapped =>
    /\ \A g \in Goroutines :
         InCall(g, metrics) => /\ \A h \in Goroutines : InCall(h, metrics) => h = g
                               /\ CollectorState(call[g])
    /\ Idle(metrics) => CollectorTells

\* A step that makes no call of the collector go on keeps CollectorCallInv.
LEMMA DriftStep ==
  ASSUME TypeOK, EndInv, CollectorCallInv, Drift, UNCHANGED deaf,
         \A g \in Goroutines : InCall(g, metrics)' <=> InCall(g, metrics),
         \A g \in Goroutines : InCall(g, metrics) => call'[g] = call[g],
         last'[metrics] = last[metrics], overlapped \subseteq overlapped'
  PROVE  CollectorCallInv'
<1>1. /\ UNCHANGED <<started, closing>>
      /\ canceled => canceled'
      /\ Runs(metrics)' => Runs(metrics)
      /\ Runs(metrics) => Runs(metrics)' \/ canceled'
  BY DriftEnds
<1>2. Heard' <=> Heard
  BY <1>1 DEF Heard
<1>3. CollectorTells => CollectorTells'
  BY <1>1, <1>2 DEF CollectorTells
<1>4. \A g \in Goroutines : InCall(g, metrics) /\ CollectorState(call[g]) => CollectorState(call[g])'
  BY <1>1, <1>2 DEF CollectorState
<1> QED
  BY <1>3, <1>4 DEF CollectorCallInv, Idle

\* A new call keeps it.
LEMMA CollectorEnterStep ==
  ASSUME ServicesTypeOK, EndInv, CollectorCallInv, NEW g \in Goroutines,
         NEW fn \in {"Start", "Close"}, NEW s \in Services, Enter(g, fn, s)
  PROVE  CollectorCallInv'
<1> DEFINE c == [fn |-> fn, s |-> s, at |-> 1, before |-> Runs(s)]
<1>1. /\ call[g] = None
      /\ call' = [call EXCEPT ![g] = c]
      /\ UNCHANGED <<vars, deaf, last>>
      /\ ~Idle(s) => overlapped' = overlapped \cup {s}
      /\ overlapped \subseteq overlapped'
  BY DEF Enter, Begin, InCall, Idle
<1>2. c.s = s /\ c.at = 1 /\ c.before = Runs(s) /\ c \in Calls
  BY RunsIsBoolean DEF Calls
<1> HIDE DEF c
<1>3. call'[g] = c /\ \A h \in Goroutines \ {g} : call'[h] = call[h]
  BY <1>1 DEF ServicesTypeOK
<1>4. CASE s # metrics
  <2>1. \A h \in Goroutines : /\ InCall(h, metrics)' <=> InCall(h, metrics)
                              /\ InCall(h, metrics) => call'[h] = call[h]
    BY <1>1, <1>2, <1>3, <1>4 DEF InCall
  <2> QED BY <1>1, <2>1, DriftStep DEF Drift, ServicesTypeOK
<1>5. CASE s = metrics
  <2>1. SUFFICES ASSUME metrics \notin overlapped'
                 PROVE  CollectorCallInv'
    BY DEF CollectorCallInv
  <2>2. Idle(metrics)
    BY <1>1, <1>5, <2>1
  <2>3. \A h \in Goroutines : InCall(h, metrics)' <=> h = g
    <3>1. c # None
      BY <1>2, ServicesAssumption
    <3> QED BY <1>2, <1>3, <1>5, <2>2, <3>1 DEF InCall, Idle
  <2>4. CollectorState(call[g])'
    <3>1. Runs(metrics)' <=> Runs(metrics)
      BY <1>1 DEF Runs, vars
    <3>2. call'[g].before = Runs(metrics) /\ call'[g].at < 3
      BY <1>2, <1>3, <1>5
    <3> QED BY <3>1, <3>2 DEF CollectorState
  <2> QED BY <2>3, <2>4 DEF CollectorCallInv, Idle
<1> QED
  BY <1>4, <1>5

\* A hook, or the method, keeps it.
LEMMA CollectorHookStep ==
  ASSUME ServicesTypeOK, EndInv, EndInv', CollectorCallInv, NEW g \in Goroutines,
         NEW fails \in BOOLEAN, Step(g, fails)
  PROVE  CollectorCallInv'
<1> DEFINE c == call[g]
           name == Sequence(c.fn)[c.at]
           d == [c EXCEPT !.at = @ + 1]
<1>1. /\ c \in Calls /\ c # None
      /\ \A v \in Services \ {c.s} : last'[v] = last[v]
      /\ UNCHANGED overlapped
  BY StepOfCall, ServicesAssumption DEF Step
<1>2. \/ /\ ~fails /\ c.at < 3 /\ UNCHANGED last
         /\ call' = [call EXCEPT ![g] = d]
      \/ /\ fails \/ c.at = 3
         /\ call' = [call EXCEPT ![g] = None]
         /\ last' = [last EXCEPT ![c.s] =
              [fn |-> c.fn, before |-> c.before, err |-> IF fails THEN name ELSE "nil"]]
  BY StepOfCall
<1>3. /\ c.at \in 1 .. 3 /\ c.fn \in {"Start", "Close"} /\ c.s \in Services
      /\ c.at = 1 => name = IF c.fn = "Start" THEN "PreStart" ELSE "PreClose"
      /\ c.at = 2 => name = c.fn
      /\ c.at = 3 => name = IF c.fn = "Start" THEN "PostStart" ELSE "PostClose"
  BY <1>1 DEF Calls, Sequence, StartCalls, CloseCalls
<1>4. /\ \A h \in Goroutines \ {g} : call'[h] = call[h]
      /\ call'[g] \in {d, None}
  BY <1>2 DEF ServicesTypeOK
<1>5. /\ d.at = c.at + 1 /\ d.fn = c.fn /\ d.s = c.s /\ d.before = c.before
      /\ c.at < 3 => d # None
  <2>1. c.at < 3 => d \in Calls
    BY <1>1 DEF Calls
  <2> QED BY <1>1, <2>1, ServicesAssumption DEF Calls
<1>6. CASE c.s # metrics
  <2>1. UNCHANGED <<vars, deaf>>
    BY <1>6 DEF Step, Method
  <2>2. \A h \in Goroutines : /\ InCall(h, metrics)' <=> InCall(h, metrics)
                              /\ InCall(h, metrics) => call'[h] = call[h]
    BY <1>4, <1>5, <1>6 DEF InCall
  <2> QED BY <1>1, <1>6, <2>1, <2>2, DriftStep, ServicesAssumption DEF Drift, ServicesTypeOK
<1>7. CASE c.s = metrics
  <2>1. SUFFICES ASSUME metrics \notin overlapped
                 PROVE  CollectorCallInv'
    BY <1>1 DEF CollectorCallInv
  <2>2. /\ InCall(g, metrics) /\ CollectorState(c)
        /\ \A h \in Goroutines : InCall(h, metrics) => h = g
    BY <1>1, <1>7, <2>1 DEF CollectorCallInv, InCall
  <2>3. \A h \in Goroutines : InCall(h, metrics)' => h = g
    BY <1>4, <2>2 DEF InCall
  <2>4. c.at # 2 => UNCHANGED <<started, done, canceled, closing, deaf>>
    BY <1>3 DEF Step, Method, vars
  <2>5. c.at # 2 => /\ Runs(metrics)' <=> Runs(metrics)
                    /\ Heard' <=> Heard
    BY <2>4 DEF Runs, Heard
  <2>6. c.at = 2 => /\ ~fails
                    /\ c.fn = "Start" => Runs(metrics)' \/ canceled' \/ Heard'
                    /\ c.fn = "Close" => ~Runs(metrics)' \/ deaf'
    <3>1. ASSUME c.at = 2
          PROVE  /\ ~fails
                 /\ c.fn = "Start" => started'
                 /\ c.fn = "Close" => done' = "closed" \/ deaf'
      BY <1>3, <1>7, <3>1 DEF Step, Method, Start, Close, CloseDone
    <3> QED BY <3>1 DEF Runs, EndInv
  <2> HIDE DEF name
  <2>7. CASE ~fails /\ c.at < 3 /\ call' = [call EXCEPT ![g] = d]
    <3>1. call'[g] = d /\ d # None
      BY <1>5, <2>7 DEF ServicesTypeOK
    <3> HIDE DEF d
    <3>2. CASE c.at = 1
      <4>1. d.at = 2 /\ d.before = c.before
        BY <1>5, <3>2
      <4>2. /\ Runs(metrics)' => d.before
            /\ d.before => Runs(metrics)' \/ canceled'
        BY <2>2, <2>4, <2>5, <3>2, <4>1 DEF CollectorState
      <4>3. CollectorState(call[g])'
        BY <3>1, <4>1, <4>2 DEF CollectorState
      <4> QED BY <1>5, <1>7, <2>3, <3>1, <4>3 DEF CollectorCallInv, InCall, Idle
    <3>3. CASE c.at = 2
      <4>1. CollectorState(call[g])'
        BY <1>3, <1>5, <2>6, <3>1, <3>3 DEF CollectorState
      <4> QED BY <1>5, <1>7, <2>3, <3>1, <4>1 DEF CollectorCallInv, InCall, Idle
    <3> QED BY <1>3, <2>7, <3>2, <3>3
  <2>8. CASE /\ fails \/ c.at = 3
             /\ call' = [call EXCEPT ![g] = None]
             /\ last' = [last EXCEPT ![c.s] =
                  [fn |-> c.fn, before |-> c.before, err |-> IF fails THEN name ELSE "nil"]]
    <3>1. ~InCall(g, metrics)'
      BY <2>8 DEF InCall, ServicesTypeOK
    <3>2. /\ last'[metrics].fn = c.fn /\ last'[metrics].before = c.before
          /\ last'[metrics].err = IF fails THEN name ELSE "nil"
      BY <1>3, <1>7, <2>8 DEF ServicesTypeOK
    <3>3. CASE c.at = 1
      <4>1. fails /\ name \in {"PreStart", "PreClose"}
        BY <1>3, <2>8, <3>3
      <4>2. /\ Runs(metrics)' => c.before
            /\ c.before => Runs(metrics)' \/ canceled'
        BY <2>2, <2>4, <2>5, <3>3 DEF CollectorState
      <4>3. CollectorTells'
        BY <3>2, <4>1, <4>2 DEF CollectorTells
      <4> QED BY <2>3, <3>1, <4>3 DEF CollectorCallInv
    <3>4. CASE c.at = 3
      <4>1. /\ c.fn = "Start" => Runs(metrics)' \/ canceled' \/ Heard'
            /\ c.fn = "Close" => ~Runs(metrics)' \/ deaf'
        BY <1>3, <2>2, <2>4, <2>5, <3>4 DEF CollectorState
      <4>2. last'[metrics].err \in {"nil", "PostStart", "PostClose"}
        BY <1>3, <3>2, <3>4
      <4>3. CollectorTells'
        BY <3>2, <4>1, <4>2 DEF CollectorTells
      <4> QED BY <2>3, <3>1, <4>3 DEF CollectorCallInv
    <3> QED BY <1>3, <2>6, <2>8, <3>3, <3>4
  <2> QED BY <1>2, <2>7, <2>8
<1> QED
  BY <1>6, <1>7

\* While a service is called by one goroutine at a time, the answer of services.Start
\* and Close tells whether it runs (inf.go:59 to 120), the collector's but for its
\* context, a Start after a Close and a Close that found c.done nil (collect.go:110, :214).
THEOREM AnswersTellState == ServicesSpec => []AnswerTellsState
<1> DEFINE Inv == CallInv /\ EndInv /\ CollectorCallInv
<1>1. ServicesInit => Inv
  <2> SUFFICES ASSUME ServicesInit PROVE Inv
    OBVIOUS
  <2>1. CallInv
    BY DEF ServicesInit, CallInv, CallIsTrue, AnswerTells, InCall
  <2>2. EndInv
    BY DEF ServicesInit, Init, EndInv, Heard
  <2>3. CollectorCallInv
    BY ServicesAssumption DEF ServicesInit, CollectorCallInv, CollectorTells, InCall
  <2> QED BY <2>1, <2>2, <2>3
<1>2. ServicesTypeOK /\ Inv /\ [ServicesNext]_allVars => Inv'
  <2> SUFFICES ASSUME ServicesTypeOK, Inv, [ServicesNext]_allVars PROVE Inv'
    OBVIOUS
  <2> USE DEF regVars, lifeVars
  <2>1. EndInv'
    <3>1. CASE Close /\ deaf' = (done = "nil")
      BY <3>1 DEF Close, CloseDone, EndInv, Heard, ServicesTypeOK, TypeOK
    <3>2. CASE Start /\ UNCHANGED deaf
      BY <3>2 DEF Start, EndInv, Heard
    <3>3. CASE Drift /\ UNCHANGED deaf
      BY <3>3, DriftEnds DEF ServicesTypeOK
    <3> QED BY <3>1, <3>2, <3>3, StepHears
  <2>2. ASSUME UNCHANGED <<call, up, last, overlapped, deaf>>, Drift PROVE Inv'
    <3>1. CallInv'
      BY <2>2 DEF CallInv, CallIsTrue, AnswerTells, InCall, Idle
    <3>2. CollectorCallInv'
      BY <2>2, DriftStep, ServicesAssumption DEF InCall, ServicesTypeOK
    <3> QED BY <2>1, <3>1, <3>2
  <2>3. ASSUME NEW g \in Goroutines, NEW t \in Types, NEW s \in Services \cup {None},
               Registers(g, t, s)
        PROVE  Inv'
    BY <2>2, <2>3 DEF Drift, Registers, Register, ContextWith, MustContextWith
  <2>4. ASSUME NEW g \in Goroutines, NEW t \in Types, ContextFrom(g, t) \/ ContextFromPtr(g, t)
        PROVE  Inv'
    BY <2>2, <2>4 DEF Drift, ContextFrom, ContextFromPtr, Look
  <2>5. ASSUME NEW g \in Goroutines, NEW h \in Goroutines,
               Inherit(g, h) \/ NewServiceContext(g) \/ Ask(g)
        PROVE  Inv'
    BY <2>2, <2>5 DEF Drift, Inherit, NewServiceContext, Ask
  <2>6. CASE (Cancel \/ Background) /\ Others
    BY <2>2, <2>6 DEF Drift, Others
  <2>7. CASE UNCHANGED allVars
    BY <2>2, <2>7 DEF Drift, allVars
  <2>8. ASSUME NEW g \in Goroutines, NEW fn \in {"Start", "Close"}, NEW s \in Services,
               Enter(g, fn, s)
        PROVE  Inv'
    BY <2>1, <2>8, EnterStep, CollectorEnterStep
  <2>9. ASSUME NEW g \in Goroutines, NEW fails \in BOOLEAN, Step(g, fails)
        PROVE  Inv'
    BY <2>1, <2>9, HookStep, CollectorHookStep
  <2> HIDE DEF Inv
  <2> QED
    BY <2>3, <2>4, <2>5, <2>6, <2>7, <2>8, <2>9 DEF ServicesNext, Registers
<1>3. Inv => AnswerTellsState
  BY DEF CallInv, CollectorCallInv, Idle, InCall, AnswerTellsState
<1> QED
  BY <1>1, <1>2, <1>3, ServicesTypeCorrect, PTL DEF ServicesSpec

-----------------------------------------------------------------------------
(***************************************************************************)
(* Who is to blame for a panic.  It is the step that dies which has to     *)
(* answer: nothing happens after it.                                       *)
(***************************************************************************)

\* What the collector has seen happen, from what it is left with.
Traces ==
  /\ done = "closed" => closing \/ ended
  /\ ended => \A p \in Producers : pc[p] = "left"
  /\ stopping => canceled \/ closing
  /\ \A p \in Producers : /\ pc[p] = "left" => canceled \/ closing
                          /\ queue[p] > 0 => asked /\ started

\* No step of the collector covers its traces.
LEMMA TracesStay ==
  ASSUME TypeOK, Traces, CollectorStep
  PROVE  Traces'
<1> USE DEF Traces
<1>1. CASE Start \/ Cancel
  BY <1>1 DEF Start, Cancel
<1>2. CASE Collect
  <2>1. \A p \in Producers : queue'[p] > 0 => started /\ asked'
    BY <1>2 DEF Collect
  <2> QED BY <1>2, <2>1 DEF Collect
<1>3. CASE Close
  BY <1>3 DEF Close, CloseDone
<1>4. CASE GroupEnds
  <2>1. ended' /\ \A p \in Producers : pc[p] = "left"
    BY <1>4 DEF GroupEnds
  <2>2. UNCHANGED <<stopping, canceled, closing, pc, queue, asked, started>>
    BY <1>4 DEF GroupEnds
  <2> QED BY <2>1, <2>2
<1>5. ASSUME NEW p \in Producers, Subscribe(p) PROVE Traces'
  <2>1. pc[p] = "none" /\ pc' = [pc EXCEPT ![p] = "waiting"]
    BY <1>5 DEF Subscribe
  <2>2. \A q \in Producers : pc'[q] = "left" <=> pc[q] = "left"
    BY <2>1 DEF TypeOK
  <2>3. ~ended
    BY <2>1
  <2> QED BY <1>5, <2>2, <2>3 DEF Subscribe
<1>6. ASSUME NEW p \in Producers, Leave(p) PROVE Traces'
  <2>1. ~ended /\ (canceled \/ closing)
    BY <1>6 DEF Leave, Stops
  <2> QED BY <1>6, <2>1 DEF Leave
<1>7. ASSUME NEW p \in Producers, HandleTask(p) PROVE Traces'
  BY <1>7 DEF HandleTask
<1>8. ASSUME NEW why, Panic(why) PROVE Traces'
  BY <1>8 DEF Panic
<1>9. CASE UNCHANGED vars
  BY <1>9 DEF vars
<1>10. CASE MakeDone
  BY <1>10 DEF MakeDone
<1> QED
  BY <1>1, <1>2, <1>3, <1>4, <1>5, <1>6, <1>7, <1>8, <1>9, <1>10
  DEF CollectorStep, Background

\* The parts of PanicNeedsCause that the collector answers for.
CollectorCause ==
  /\ crash = "double close" => closing
  /\ crash = "negative counter" => asked /\ started
  /\ crash = "closed channel" => asked /\ (canceled \/ closing)
  /\ crash = "nil hub" => ~started

\* The step of the collector in which the process dies has its cause.
LEMMA DeathHasCause ==
  ASSUME TypeOK, Traces, crash = "no", CollectorStep
  PROVE  CollectorCause'
<1> USE DEF CollectorCause
<1>1. CASE UNCHANGED crash
  BY <1>1
<1>2. CASE Collect
  BY <1>2 DEF Collect, Traces
<1>3. CASE Close
  BY <1>3 DEF Close, CloseDone
<1>4. CASE GroupEnds
  BY <1>4 DEF GroupEnds, CloseDone, Traces
<1>5. ASSUME NEW p \in Producers, HandleTask(p) PROVE CollectorCause'
  BY <1>5 DEF HandleTask, Traces
<1>6. ASSUME NEW why \in {"missing registry", "not a value", "not a pointer"}, Panic(why)
      PROVE  CollectorCause'
  BY <1>6 DEF Panic
<1>7. ASSUME NEW p \in Producers, Subscribe(p) \/ Leave(p) PROVE UNCHANGED crash
  BY <1>7 DEF Subscribe, Leave
<1>8. Start \/ Cancel \/ MakeDone \/ UNCHANGED vars => UNCHANGED crash
  BY DEF Start, Cancel, MakeDone, vars
<1> QED
  BY <1>1, <1>2, <1>3, <1>4, <1>5, <1>6, <1>7, <1>8 DEF CollectorStep, Background

RegistryCause ==
  /\ crash = "missing registry" => \E g \in Goroutines : context[g] = None
  /\ crash = "not a value" => \E r \in Goroutines, t \in Types : form[r][t] # "value"
  /\ crash = "not a pointer" => \E s \in Services : placed[s] > 0

\* The registries panic only for a context without one, and for what is registered.
LEMMA RegistryPanics ==
  ASSUME ServicesTypeOK, ServicesAccounted, ServicesNext
  PROVE  RegistryCause'
<1> USE DEF RegistryCause
<1>1. CASE crash' \notin {"missing registry", "not a value", "not a pointer"}
  BY <1>1
<1>2. crash = "no"
  BY DEF ServicesNext
<1>3. ASSUME NEW g \in Goroutines, NEW t \in Types, NEW s \in Services \cup {None},
             Registers(g, t, s)
      PROVE  RegistryCause'
  <2>1. UNCHANGED crash \/ (crash' = "missing registry" /\ context[g] = None /\ UNCHANGED context)
    BY <1>3 DEF Registers, Register, ContextWith, MustContextWith, Panic, vars, regVars
  <2> QED BY <1>2, <2>1
<1>4. ASSUME NEW g \in Goroutines, NEW t \in Types, ContextFrom(g, t) \/ ContextFromPtr(g, t)
      PROVE  RegistryCause'
  <2> DEFINE found == IF context[g] = None THEN None ELSE store[context[g]][t]
  <2>1. \/ UNCHANGED crash
        \/ crash' = "not a pointer" /\ found # None /\ UNCHANGED placed
        \/ crash' = "not a value" /\ found # None /\ form[context[g]][t] # "value" /\ UNCHANGED form
    BY <1>4 DEF ContextFrom, ContextFromPtr, Look, Panic, vars, regVars
  <2>2. ASSUME found # None PROVE \E s \in Services : placed[s] > 0
    <3> DEFINE r == context[g]
               s == store[r][t]
    <3>1. r \in Goroutines /\ s \in Services
      BY <2>2 DEF ServicesTypeOK
    <3>2. <<r, t>> \in Places(s)
      BY <3>1 DEF Places
    <3>3. Cardinality(Places(s)) \in Nat /\ Cardinality(Places(s)) # 0
      BY <3>2, PlacesFinite, FS_EmptySet
    <3>4. handed[s] \in Nat /\ dropped[s] \in Nat
      BY <3>1 DEF ServicesTypeOK
    <3>5. placed[s] = Cardinality(Places(s)) + handed[s] + dropped[s]
      BY <3>1 DEF ServicesAccounted
    <3>6. placed[s] > 0
      BY <3>3, <3>4, <3>5
    <3> QED BY <3>1, <3>6
  <2>3. found # None => context[g] \in Goroutines
    BY DEF ServicesTypeOK
  <2> HIDE DEF found
  <2> QED BY <1>2, <2>1, <2>2, <2>3
<1>5. ASSUME NEW g \in Goroutines, NEW h \in Goroutines,
             Inherit(g, h) \/ NewServiceContext(g) \/ Ask(g)
      PROVE  RegistryCause'
  BY <1>1, <1>2, <1>5 DEF Inherit, NewServiceContext, Ask, Collect, vars
<1>6. ASSUME NEW g \in Goroutines, NEW fn, NEW s \in Services, Enter(g, fn, s)
      PROVE  RegistryCause'
  BY <1>1, <1>2, <1>6 DEF Enter, vars
<1>7. ASSUME NEW g \in Goroutines, NEW fails \in BOOLEAN, Step(g, fails)
      PROVE  RegistryCause'
  <2>1. crash' \in {crash, "double close"}
    BY <1>7 DEF Step, Method, Start, Close, CloseDone, vars
  <2> QED BY <1>1, <1>2, <2>1
<1>8. CASE Cancel \/ Background
  <2>1. crash' \in {crash, "double close", "negative counter"}
    BY <1>8 DEF Cancel, Background, MakeDone, GroupEnds, CloseDone, Subscribe, Leave, HandleTask
  <2> QED BY <1>1, <1>2, <2>1
<1> QED
  BY <1>3, <1>4, <1>5, <1>6, <1>7, <1>8 DEF ServicesNext, Registers

\* No panic of the collector or of the registries comes out of nothing (collect.go:103,
\* :199 and :220, context.go:55 and :70): it takes a call, a cancel or a context that says why.
THEOREM PanicsHaveCause == ServicesSpec => []PanicNeedsCause
<1> DEFINE Inv == Traces /\ PanicNeedsCause
<1>1. ServicesInit => Inv
  BY DEF ServicesInit, Init, Traces, PanicNeedsCause
<1>2. ServicesTypeOK /\ ServicesAccounted /\ Inv /\ [ServicesNext]_allVars => Inv'
  <2> SUFFICES ASSUME ServicesTypeOK, ServicesAccounted, Inv, [ServicesNext]_allVars PROVE Inv'
    OBVIOUS
  <2>1. CASE ServicesNext
    <3>1. crash = "no" /\ CollectorStep
      BY <2>1, StepOfCollector DEF ServicesNext, CollectorStep
    <3>2. TypeOK
      BY DEF ServicesTypeOK
    <3>3. Traces' /\ CollectorCause' /\ RegistryCause'
      BY <2>1, <3>1, <3>2, TracesStay, DeathHasCause, RegistryPanics
    <3> QED BY <3>3 DEF CollectorCause, RegistryCause, PanicNeedsCause
  <2>2. CASE UNCHANGED allVars
    BY <2>2 DEF allVars, vars, regVars, Traces, PanicNeedsCause
  <2> QED BY <2>1, <2>2
<1> QED
  BY <1>1, <1>2, ServicesTypeCorrect, ServicesAreAccounted, PTL DEF ServicesSpec
===============================================================================
