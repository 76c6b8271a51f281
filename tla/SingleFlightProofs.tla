-------------------------- MODULE SingleFlightProofs --------------------------
(***************************************************************************)
(* The safety properties of SingleFlight for every number of callers and   *)
(* keys.                                                                   *)
(*                                                                         *)
(* Who shares a result depends on who joined which call, on which calls    *)
(* are in the map, and on the channels that wait for a call.  The          *)
(* invariant says how these agree while requests, Forget and the ends of   *)
(* calls interleave: Linked, Mapped, Over, Listening and Counted.          *)
(***************************************************************************)
EXTENDS SingleFlight, FiniteSetTheorems, TLAPS

\* A caller that has asked has joined a call, whose maker has joined it too.
Linked ==
  /\ \A r \in Callers : joined[r] = NoCall <=> pc[r] = "idle"
  /\ \A r \in Callers : joined[r] # NoCall => joined[joined[r]] = joined[r]
  /\ \A c \in Callers : joined[c] = c <=> run[c] # "none"
  /\ \A r \in Callers : pc[r] = "owner" => joined[r] = r
  /\ \A r \in Callers : pc[r] = "waiter" => joined[r] # r

\* The map has exactly the calls that run and have not been forgotten.
Mapped ==
  /\ \A c \in Callers : run[c] # "none" => key[c] \in Keys
  /\ \A k \in Keys : m[k] # NoCall => Running(m[k]) /\ key[m[k]] = k /\ m[k] \notin forgotten
  /\ \A c \in Callers : Running(c) /\ c \notin forgotten => m[key[c]] = c
  /\ \A c \in forgotten : run[c] # "none"

\* A call is done when its doCall is, has its outcome when its function has ended, and
\* nobody gets an answer before it is done.
Over ==
  /\ \A c \in Callers : c \in done <=> run[c] = "done"
  /\ \A c \in Callers : outcome[c] = "none" <=> run[c] \in {"none", "fn"}
  /\ \A r \in Callers : pc[r] \in Ended => joined[r] \in done

\* The channels of a call belong to those who wait for it on one.
Listening ==
  /\ \A c, r \in Callers : r \in chans[c] => joined[r] = c /\ pc[r] \in {"listener", "returned"}
  /\ \A r \in Callers : pc[r] = "listener" => r \in chans[joined[r]]

Joiners(j, c) == {r \in Callers \ {c} : j[r] = c}

\* dups counts the callers that joined a call after its maker.
Counted == \A c \in Callers : dups[c] = Cardinality(Joiners(joined, c))

\* Who panics or exits does it because the function did; who runs the function or
\* listens, and is left waiting when the call is done, has a reason.
Told ==
  \A r \in Callers : /\ pc[r] = "panicked" => outcome[joined[r]] = "panic"
                     /\ pc[r] = "exited" => outcome[joined[r]] = "goexit"

Waits ==
  \A r \in Callers : pc[r] \in {"owner", "listener"} /\ joined[r] \in done =>
    /\ outcome[joined[r]] = "panic" => stuck
    /\ outcome[joined[r]] = "goexit" => pc[r] = "listener"
    /\ outcome[joined[r]] = "result" => pc[r] = "owner"

Failing == Told /\ Waits

Shape == Linked /\ Mapped /\ Over /\ Listening
Inv == TypeOK /\ Shape /\ Counted /\ SharedIsTrue /\ Failing

USE DEF Outcomes, Ended

-----------------------------------------------------------------------------
\* The number of joiners is a number below that of callers, and positive exactly when
\* there is a joiner (c.dups > 0, line 114).
LEMMA JoinersCount ==
  ASSUME NEW j, NEW c \in Callers
  PROVE  /\ IsFiniteSet(Joiners(j, c))
         /\ Cardinality(Joiners(j, c)) \in 0 .. Cardinality(Callers) - 1
         /\ Cardinality(Joiners(j, c)) > 0 <=> Joiners(j, c) # {}
<1>1. IsFiniteSet(Callers \ {c}) /\ Cardinality(Callers \ {c}) = Cardinality(Callers) - 1
  BY FS_RemoveElement, CallerAssumption
<1>2. Joiners(j, c) \subseteq Callers \ {c}
  BY DEF Joiners
<1>3. IsFiniteSet(Joiners(j, c)) /\ Cardinality(Joiners(j, c)) <= Cardinality(Callers \ {c})
  BY <1>1, <1>2, FS_Subset
<1>4. Cardinality(Joiners(j, c)) \in Nat /\ Cardinality(Callers) \in Nat
  BY <1>3, FS_CardinalityType, CallerAssumption
<1>5. Cardinality(Joiners(j, c)) = 0 <=> Joiners(j, c) = {}
  BY <1>3, FS_EmptySet
<1> QED BY <1>1, <1>3, <1>4, <1>5

LEMMA InitInv == Init => Inv
<1> SUFFICES ASSUME Init PROVE Inv
  OBVIOUS
<1>1. Cardinality(Callers) \in Nat
  BY CallerAssumption, FS_CardinalityType
<1>2. \A c \in Callers : Joiners(joined, c) = {}
  BY CallerAssumption DEF Init, Joiners
<1>3. Counted
  BY <1>2, FS_EmptySet DEF Counted, Init
<1>4. \A c \in Callers : dups[c] \in 0 .. Cardinality(Callers) - 1
  BY <1>2, <1>3, JoinersCount DEF Counted
<1>5. dups \in [Callers -> 0 .. Cardinality(Callers) - 1]
  BY <1>4 DEF Init
<1>6. TypeOK
  BY <1>5 DEF TypeOK, Init
<1>7. Shape
  BY CallerAssumption, KeyAssumption DEF Shape, Linked, Mapped, Over, Listening, Running, Init
<1>8. SharedIsTrue /\ Failing
  BY DEF SharedIsTrue, Failing, Told, Waits, Init
<1> QED BY <1>3, <1>6, <1>7, <1>8 DEF Inv

-----------------------------------------------------------------------------
\* The steps that neither make nor join a call keep the count.
LEMMA SameJoined ==
  ASSUME Inv, joined' = joined, dups' = dups
  PROVE  Counted'
BY DEF Counted, Inv

\* What the invariant says of the answer of one caller.
LEMMA AnswerNow ==
  ASSUME Inv, NEW q \in Callers
  PROVE  /\ pc[q] = "returned" => /\ joined[q] \in done
                                  /\ outcome[joined[q]] = "result"
                                  /\ shared[q] <=> Sharers(joined[q]) # {q}
         /\ pc[q] = "panicked" => outcome[joined[q]] = "panic"
         /\ pc[q] = "exited" => outcome[joined[q]] = "goexit"
BY DEF Inv, SharedIsTrue, Failing, Told, Waits

\* A call that is in the map is joined by a caller that has not asked before.
LEMMA JoinStep ==
  ASSUME Inv, NEW r \in Callers, NEW k \in Keys, NEW w \in {"waiter", "listener"},
         pc[r] = "idle", Join(r, k, w),
         UNCHANGED <<outcome, done, shared, forgotten, processVars>>
  PROVE  Inv'
<1> DEFINE c == m[k]
<1>1. c \in Callers /\ Running(c) /\ key[c] = k /\ c \notin forgotten
  BY DEF Inv, Shape, TypeOK, Mapped, Join
<1>2. joined[r] = NoCall /\ pc[r] = "idle"
  BY DEF Inv, Shape, Linked
<1>3. /\ joined' = [joined EXCEPT ![r] = c]
      /\ pc' = [pc EXCEPT ![r] = w]
      /\ dups' = [dups EXCEPT ![c] = @ + 1]
      /\ chans' = [chans EXCEPT ![c] = IF w = "listener" THEN @ \cup {r} ELSE @]
      /\ UNCHANGED <<m, key, run, outcome, done, shared, forgotten, stuck, crashed>>
  BY DEF Join, processVars
<1> HIDE DEF c
<1>4. run[c] # "none" /\ run[c] # "done" /\ c \notin done /\ joined[c] = c
  BY <1>1 DEF Inv, Shape, Over, Linked, Running
<1>5. c # r /\ r # NoCall
  BY <1>1, <1>2, <1>4, CallerAssumption
<1>6. run[r] = "none" /\ \A d \in Callers : joined[d] # r
  BY <1>2, <1>5 DEF Inv, Shape, Linked
<1>7. \A d \in Callers : r \notin chans[d]
  BY <1>2, CallerAssumption DEF Inv, Shape, Listening
<1>8. /\ joined'[r] = c /\ pc'[r] = w
      /\ \A q \in Callers \ {r} : joined'[q] = joined[q] /\ pc'[q] = pc[q]
      /\ dups'[c] = dups[c] + 1
      /\ \A d \in Callers \ {c} : dups'[d] = dups[d] /\ chans'[d] = chans[d]
      /\ chans'[c] = IF w = "listener" THEN chans[c] \cup {r} ELSE chans[c]
  BY <1>1, <1>3 DEF Inv, TypeOK
<1>9. Counted'
  <2>1. Joiners(joined', c) = Joiners(joined, c) \cup {r} /\ r \notin Joiners(joined, c)
    BY <1>1, <1>2, <1>5, <1>8, CallerAssumption DEF Joiners
  <2>2. \A d \in Callers \ {c} : Joiners(joined', d) = Joiners(joined, d)
    BY <1>2, <1>8, CallerAssumption DEF Joiners
  <2>3. Cardinality(Joiners(joined, c) \cup {r}) = Cardinality(Joiners(joined, c)) + 1
    BY <1>1, <2>1, JoinersCount, FS_AddElement
  <2>4. \A d \in Callers : dups[d] = Cardinality(Joiners(joined, d))
    BY DEF Inv, Counted
  <2>5. dups'[c] = Cardinality(Joiners(joined', c))
    BY <2>1, <2>3, <2>4, <1>1, <1>8
  <2>6. \A d \in Callers \ {c} : dups'[d] = Cardinality(Joiners(joined', d))
    BY <2>2, <2>4, <1>8
  <2> QED BY <2>5, <2>6 DEF Counted
<1>10. TypeOK'
  <2>1. \A d \in Callers : dups'[d] \in 0 .. Cardinality(Callers) - 1
    BY <1>9, JoinersCount DEF Counted
  <2>2. dups' = [d \in Callers |-> dups'[d]]
    BY <1>3 DEF Inv, TypeOK
  <2>3. dups' \in [Callers -> 0 .. Cardinality(Callers) - 1]
    BY <2>1, <2>2
  <2> QED BY <2>3, <1>1, <1>3 DEF Inv, TypeOK
<1>11. Linked'
  <2>1. Linked
    BY DEF Inv, Shape
  <2>2. /\ \A q \in Callers : joined'[q] = NoCall <=> pc'[q] = "idle"
        /\ \A q \in Callers : pc'[q] = "owner" => joined'[q] = q
        /\ \A q \in Callers : pc'[q] = "waiter" => joined'[q] # q
    BY <2>1, <1>1, <1>5, <1>8, CallerAssumption DEF Linked
  <2>3. ASSUME NEW q \in Callers, joined'[q] # NoCall PROVE joined'[joined'[q]] = joined'[q]
    <3>1. joined[q] \in Callers \cup {NoCall}
      BY DEF Inv, TypeOK
    <3>2. CASE q = r
      BY <3>2, <1>1, <1>4, <1>5, <1>8
    <3>3. CASE q # r
      BY <2>1, <2>3, <3>1, <3>3, <1>6, <1>8 DEF Linked
    <3> QED BY <3>2, <3>3
  <2>4. \A d \in Callers : joined'[d] = d <=> run'[d] # "none"
    BY <2>1, <1>3, <1>5, <1>6, <1>8 DEF Linked
  <2> QED BY <2>2, <2>3, <2>4 DEF Linked
<1>12. Mapped' /\ Over'
  <2>1. Mapped'
    BY <1>3 DEF Inv, Shape, Mapped, Running
  <2>2. Over'
    BY <1>3, <1>8 DEF Inv, Shape, Over
  <2> QED BY <2>1, <2>2
<1>13. Listening'
  <2>1. Listening
    BY DEF Inv, Shape
  <2>2. ASSUME NEW d \in Callers, NEW q \in Callers, q \in chans'[d]
        PROVE  joined'[q] = d /\ pc'[q] \in {"listener", "returned"}
    BY <2>1, <2>2, <1>7, <1>8 DEF Listening
  <2>3. ASSUME NEW q \in Callers, pc'[q] = "listener" PROVE q \in chans'[joined'[q]]
    <3>1. CASE q = r
      BY <2>3, <3>1, <1>8
    <3>2. CASE q # r
      <4>1. q \in chans[joined[q]] /\ joined'[q] = joined[q]
        BY <2>1, <2>3, <3>2, <1>8 DEF Listening
      <4>2. joined[q] \in Callers
        BY <2>3, <3>2, <1>8, <1>11 DEF Inv, Shape, Linked, TypeOK
      <4> QED BY <4>1, <4>2, <1>8
    <3> QED BY <3>1, <3>2
  <2> QED BY <2>2, <2>3 DEF Listening
<1>14. SharedIsTrue' /\ Failing'
  <2>1. ASSUME NEW q \in Callers, q # r
        PROVE  /\ pc'[q] = "returned" => /\ joined'[q] \in done'
                                         /\ outcome'[joined'[q]] = "result"
                                         /\ shared'[q] <=> Sharers(joined[q])' # {q}
               /\ pc'[q] = "panicked" => outcome'[joined'[q]] = "panic"
               /\ pc'[q] = "exited" => outcome'[joined'[q]] = "goexit"
    <3>1. pc[q] = "returned" => joined[q] # c
      BY <1>4 DEF Inv, SharedIsTrue
    <3>2. pc[q] = "returned" => Sharers(joined[q])' = Sharers(joined[q])
      BY <3>1, <1>2, <1>5, <1>6, <1>8, <2>1 DEF Sharers, Inv, SharedIsTrue, Shape, Linked
    <3>3. /\ pc'[q] = pc[q] /\ joined'[q] = joined[q] /\ shared'[q] = shared[q]
          /\ outcome' = outcome /\ done' = done /\ stuck' = stuck
      BY <2>1, <1>3, <1>8
    <3> QED BY <3>2, <3>3, AnswerNow
  <2>2. ASSUME NEW q \in Callers, pc'[q] \in {"owner", "listener"}, joined'[q] \in done'
        PROVE  /\ outcome'[joined'[q]] = "panic" => stuck'
               /\ outcome'[joined'[q]] = "goexit" => pc'[q] = "listener"
               /\ outcome'[joined'[q]] = "result" => pc'[q] = "owner"
    <3>1. q # r
      BY <2>2, <1>3, <1>4, <1>8
    <3> QED BY <2>2, <3>1, <1>3, <1>8 DEF Inv, Failing, Told, Waits
  <2>3. SharedIsTrue'
    BY <2>1, <1>8 DEF SharedIsTrue
  <2> QED BY <2>1, <2>2, <2>3, <1>8 DEF Failing, Told, Waits
<1> QED BY <1>9, <1>10, <1>11, <1>12, <1>13, <1>14 DEF Inv, Shape

\* A key without a call in the map gets a new call from a caller that has not asked.
LEMMA CreateStep ==
  ASSUME Inv, NEW r \in Callers, NEW k \in Keys, NEW w \in {"waiter", "listener"},
         pc[r] = "idle", Create(r, k, w),
         UNCHANGED <<outcome, done, shared, forgotten, processVars>>
  PROVE  Inv'
<1>1. joined[r] = NoCall /\ r # NoCall
  BY CallerAssumption DEF Inv, Shape, Linked
<1>2. /\ run[r] = "none" /\ r \notin done /\ outcome[r] = "none" /\ r \notin forgotten
      /\ \A q \in Callers : joined[q] # r /\ r \notin chans[q]
      /\ \A j \in Keys : m[j] # r
  <2>1. run[r] = "none"
    BY <1>1 DEF Inv, Shape, Linked
  <2>2. r \notin done /\ outcome[r] = "none" /\ r \notin forgotten /\ \A j \in Keys : m[j] # r
    BY <1>1, <2>1 DEF Inv, Shape, Over, Mapped, Running
  <2>3. \A q \in Callers : joined[q] # r
    BY <1>1 DEF Inv, Shape, Linked
  <2>4. \A q \in Callers : r \notin chans[q]
    BY <1>1, CallerAssumption DEF Inv, Shape, Listening
  <2> QED BY <2>1, <2>2, <2>3, <2>4
<1>3. /\ m' = [m EXCEPT ![k] = r]
      /\ key' = [key EXCEPT ![r] = k]
      /\ chans' = [chans EXCEPT ![r] = IF w = "listener" THEN {r} ELSE {}]
      /\ run' = [run EXCEPT ![r] = "fn"]
      /\ joined' = [joined EXCEPT ![r] = r]
      /\ pc' = [pc EXCEPT ![r] = IF w = "listener" THEN "listener" ELSE "owner"]
      /\ m[k] = NoCall
      /\ UNCHANGED <<dups, outcome, done, shared, forgotten, stuck, crashed>>
  BY DEF Create, processVars
<1>4. /\ joined'[r] = r /\ run'[r] = "fn" /\ key'[r] = k /\ m'[k] = r
      /\ pc'[r] = IF w = "listener" THEN "listener" ELSE "owner"
      /\ chans'[r] = IF w = "listener" THEN {r} ELSE {}
      /\ \A q \in Callers \ {r} : /\ joined'[q] = joined[q] /\ pc'[q] = pc[q] /\ run'[q] = run[q]
                                  /\ key'[q] = key[q] /\ chans'[q] = chans[q]
      /\ \A j \in Keys \ {k} : m'[j] = m[j]
  BY <1>3 DEF Inv, TypeOK
<1>5. TypeOK'
  BY <1>3 DEF Inv, TypeOK
<1>6. Counted'
  <2>1. \A c \in Callers : Joiners(joined', c) = Joiners(joined, c)
    BY <1>1, <1>2, <1>4, CallerAssumption DEF Joiners
  <2> QED BY <2>1, <1>3 DEF Inv, Counted
<1>7. Linked'
  <2>1. Linked
    BY DEF Inv, Shape
  <2>2. /\ \A q \in Callers : joined'[q] = NoCall <=> pc'[q] = "idle"
        /\ \A q \in Callers : pc'[q] = "owner" => joined'[q] = q
        /\ \A q \in Callers : pc'[q] = "waiter" => joined'[q] # q
        /\ \A q \in Callers : joined'[q] = q <=> run'[q] # "none"
    BY <2>1, <1>1, <1>4 DEF Linked
  <2>3. ASSUME NEW q \in Callers, joined'[q] # NoCall PROVE joined'[joined'[q]] = joined'[q]
    <3>1. joined[q] \in Callers \cup {NoCall}
      BY DEF Inv, TypeOK
    <3> QED BY <2>1, <2>3, <3>1, <1>2, <1>4 DEF Linked
  <2> QED BY <2>2, <2>3 DEF Linked
<1>8. Mapped' /\ Over'
  <2>1. Mapped /\ Over
    BY DEF Inv, Shape
  <2>2. \A j \in Keys : m[j] # NoCall => m[j] \in Callers
    BY DEF Inv, TypeOK
  <2>3. Over'
    BY <2>1, <1>2, <1>3, <1>4 DEF Over
  <2>4. \A c \in Callers : run'[c] # "none" => key'[c] \in Keys
    BY <2>1, <1>4 DEF Mapped
  <2>5. ASSUME NEW j \in Keys, m'[j] # NoCall
        PROVE  Running(m[j])' /\ key'[m'[j]] = j /\ m'[j] \notin forgotten'
    BY <2>1, <2>2, <2>5, <1>2, <1>3, <1>4 DEF Mapped, Running
  <2>6. ASSUME NEW c \in Callers, Running(c)', c \notin forgotten' PROVE m'[key'[c]] = c
    <3>1. CASE c = r
      BY <3>1, <1>4
    <3>2. CASE c # r
      BY <2>1, <2>6, <3>2, <1>1, <1>3, <1>4, CallerAssumption DEF Mapped, Running
    <3> QED BY <3>1, <3>2
  <2>7. \A c \in forgotten' : run'[c] # "none"
    BY <2>1, <1>3, <1>4 DEF Mapped, Inv, TypeOK
  <2> QED BY <2>3, <2>4, <2>5, <2>6, <2>7 DEF Mapped
<1>9. Listening'
  <2>1. Listening /\ \A q \in Callers : joined[q] \in Callers \cup {NoCall}
    BY DEF Inv, Shape, TypeOK
  <2>2. \A q \in Callers : joined[q] = NoCall <=> pc[q] = "idle"
    BY DEF Inv, Shape, Linked
  <2> QED BY <2>1, <2>2, <1>2, <1>4 DEF Listening
<1>10. SharedIsTrue' /\ Failing'
  <2>1. ASSUME NEW q \in Callers, q # r
        PROVE  /\ pc'[q] = "returned" => /\ joined'[q] \in done'
                                         /\ outcome'[joined'[q]] = "result"
                                         /\ shared'[q] <=> Sharers(joined[q])' # {q}
               /\ pc'[q] = "panicked" => outcome'[joined'[q]] = "panic"
               /\ pc'[q] = "exited" => outcome'[joined'[q]] = "goexit"
    <3>1. pc[q] = "returned" => Sharers(joined[q])' = Sharers(joined[q])
      BY <1>1, <1>2, <1>4, <2>1 DEF Sharers, Inv, Shape, Linked
    <3>2. /\ pc'[q] = pc[q] /\ joined'[q] = joined[q] /\ shared'[q] = shared[q]
          /\ outcome' = outcome /\ done' = done
      BY <2>1, <1>3, <1>4
    <3> QED BY <3>1, <3>2, AnswerNow
  <2>2. ASSUME NEW q \in Callers, pc'[q] \in {"owner", "listener"}, joined'[q] \in done'
        PROVE  /\ outcome'[joined'[q]] = "panic" => stuck'
               /\ outcome'[joined'[q]] = "goexit" => pc'[q] = "listener"
               /\ outcome'[joined'[q]] = "result" => pc'[q] = "owner"
    BY <2>2, <1>2, <1>3, <1>4 DEF Inv, Failing, Told, Waits
  <2>3. SharedIsTrue'
    BY <2>1, <1>4 DEF SharedIsTrue
  <2> QED BY <2>1, <2>2, <2>3, <1>4 DEF Failing, Told, Waits
<1> QED BY <1>5, <1>6, <1>7, <1>8, <1>9, <1>10 DEF Inv, Shape

LEMMA ForgetStep ==
  ASSUME Inv, NEW k \in Keys, Forget(k)
  PROVE  Inv'
<1> USE DEF Forget, callVars, processVars
<1>1. TypeOK'
  BY DEF Inv, TypeOK
<1>2. Counted'
  BY SameJoined
<1>3. Linked' /\ Over' /\ Listening'
  BY DEF Inv, Shape, Linked, Over, Listening
<1>4. Mapped'
  <2>1. Mapped /\ m \in [Keys -> Callers \cup {NoCall}]
    BY DEF Inv, Shape, TypeOK
  <2>2. m'[k] = NoCall /\ \A j \in Keys \ {k} : m'[j] = m[j]
    BY <2>1
  <2>3. \A j \in Keys \ {k} : m[j] # NoCall => m[j] # m[k]
    BY <2>1 DEF Mapped
  <2> QED BY <2>1, <2>2, <2>3 DEF Mapped, Running
<1>5. SharedIsTrue' /\ Failing'
  BY DEF Inv, SharedIsTrue, Failing, Told, Waits, Sharers
<1> QED BY <1>1, <1>2, <1>3, <1>4, <1>5 DEF Inv, Shape

LEMMA FunctionStep ==
  ASSUME Inv, NEW c \in Callers, NEW o \in Outcomes, FunctionEnds(c, o)
  PROVE  Inv'
<1>1. /\ run[c] = "fn"
      /\ outcome' = [outcome EXCEPT ![c] = o]
      /\ run' = [run EXCEPT ![c] = "complete"]
      /\ UNCHANGED <<m, key, dups, chans, done, pc, joined, shared, forgotten, stuck, crashed>>
  BY DEF FunctionEnds, processVars
<1>2. outcome[c] = "none" /\ c \notin done
  BY <1>1 DEF Inv, Shape, Over
<1>3. /\ outcome'[c] = o /\ run'[c] = "complete"
      /\ \A d \in Callers \ {c} : outcome'[d] = outcome[d] /\ run'[d] = run[d]
  BY <1>1 DEF Inv, TypeOK
<1>4. TypeOK'
  BY <1>1 DEF Inv, TypeOK
<1>5. Counted'
  BY <1>1, SameJoined
<1>6. Linked' /\ Over' /\ Listening'
  BY <1>1, <1>3 DEF Inv, Shape, Linked, Over, Listening
<1>7. Mapped'
  <2>1. \A d : d \in Callers => (Running(d)' <=> Running(d))
    BY <1>1, <1>3 DEF Running
  <2>2. forgotten \subseteq Callers /\ m \in [Keys -> Callers \cup {NoCall}]
    BY DEF Inv, TypeOK
  <2> QED BY <2>1, <2>2, <1>1, <1>3 DEF Inv, Shape, Mapped
<1>8. SharedIsTrue' /\ Failing'
  <2>1. \A q \in Callers : joined[q] = c => pc[q] \notin Ended
    BY <1>2 DEF Inv, Shape, Over
  <2>2. \A q \in Callers : joined[q] \in Callers \cup {NoCall}
    BY DEF Inv, TypeOK
  <2>3. \A q \in Callers : pc[q] \in Ended => joined[q] # NoCall
    BY DEF Inv, Shape, Linked
  <2>4. SharedIsTrue'
    BY <2>1, <2>2, <2>3, <1>1, <1>3 DEF Inv, SharedIsTrue, Sharers
  <2>5. Failing'
    BY <2>1, <2>2, <2>3, <1>1, <1>2, <1>3 DEF Inv, Failing, Told, Waits, TypeOK
  <2> QED BY <2>4, <2>5
<1> QED BY <1>4, <1>5, <1>6, <1>7, <1>8 DEF Inv, Shape

\* The end of doCall: nobody joins the call any more, so the number of its sharers is
\* final when the answers are given.
LEMMA CompleteStep ==
  ASSUME Inv, NEW c \in Callers, Complete(c)
  PROVE  Inv'
<1>1. /\ run[c] = "complete"
      /\ run' = [run EXCEPT ![c] = "done"]
      /\ done' = done \cup {c}
      /\ m' = [m EXCEPT ![key[c]] = IF @ = c THEN NoCall ELSE @]
      /\ stuck' = (outcome[c] = "panic" /\ chans[c] # {})
      /\ UNCHANGED <<key, dups, chans, outcome, joined, forgotten, crashed>>
      /\ ~stuck
  BY DEF Complete, Release, KeepsLock
<1>2. /\ run'[c] = "done" /\ \A d \in Callers \ {c} : run'[d] = run[d]
      /\ joined[c] = c /\ c \notin done /\ outcome[c] # "none" /\ key[c] \in Keys
  BY <1>1 DEF Inv, Shape, TypeOK, Linked, Over, Mapped
<1>3. ASSUME NEW q \in Callers
      PROVE  pc'[q] = IF q = c /\ pc[q] = "owner" /\ outcome[c] = "panic" /\ chans[c] = {} THEN "panicked"
                      ELSE IF q = c /\ pc[q] = "owner" /\ outcome[c] = "goexit" THEN "exited"
                      ELSE IF q \in chans[c] /\ outcome[c] = "result" THEN "returned"
                      ELSE pc[q]
  BY DEF Complete, Outgoing
<1>4. ASSUME NEW q \in Callers
      PROVE  shared'[q] = IF q \in chans[c] /\ pc'[q] = "returned" THEN dups[c] > 0 ELSE shared[q]
  BY DEF Complete
<1>5. ASSUME NEW q \in Callers, q \in chans[c] PROVE joined[q] = c /\ pc[q] \in {"listener", "returned"}
  BY <1>5 DEF Inv, Shape, Listening
<1>6. ASSUME NEW q \in Callers, joined[q] = c PROVE pc[q] \notin Ended
  BY <1>2, <1>6 DEF Inv, Shape, Over
<1>7. ASSUME NEW q \in Callers, pc'[q] # pc[q]
      PROVE  /\ joined[q] = c /\ pc[q] \in {"owner", "listener"}
             /\ \/ pc'[q] = "panicked" /\ outcome[c] = "panic"
                \/ pc'[q] = "exited" /\ outcome[c] = "goexit"
                \/ pc'[q] = "returned" /\ outcome[c] = "result" /\ q \in chans[c]
  BY <1>2, <1>3, <1>5, <1>7
<1>8. TypeOK'
  <2>1. pc' \in [Callers -> {"idle", "owner", "waiter", "listener"} \cup Ended]
    BY <1>3 DEF Complete, Outgoing, Inv, TypeOK
  <2>2. shared' \in [Callers -> BOOLEAN]
    <3>1. \A q \in Callers : shared[q] \in BOOLEAN /\ (dups[c] > 0) \in BOOLEAN
      BY DEF Inv, TypeOK
    <3>2. \A q \in Callers : shared'[q] \in BOOLEAN
      BY <3>1, <1>4
    <3>3. shared' = [q \in Callers |-> shared'[q]]
      BY DEF Complete
    <3> QED BY <3>2, <3>3
  <2> QED BY <2>1, <2>2, <1>1, <1>2 DEF Inv, TypeOK
<1>9. Counted'
  BY <1>1, SameJoined
<1>10. Linked'
  <2>1. Linked
    BY DEF Inv, Shape
  <2>2. \A d \in Callers : joined'[d] = d <=> run'[d] # "none"
    BY <2>1, <1>1, <1>2 DEF Linked
  <2>3. ASSUME NEW q \in Callers
        PROVE  /\ joined'[q] = NoCall <=> pc'[q] = "idle"
               /\ joined'[q] # NoCall => joined'[joined'[q]] = joined'[q]
               /\ pc'[q] = "owner" => joined'[q] = q
               /\ pc'[q] = "waiter" => joined'[q] # q
    BY <2>1, <1>1, <1>7, CallerAssumption DEF Linked
  <2> QED BY <2>2, <2>3 DEF Linked
<1>11. Mapped'
  <2>1. Mapped /\ m \in [Keys -> Callers \cup {NoCall}] /\ forgotten \subseteq Callers
    BY DEF Inv, Shape, TypeOK
  <2>2. \A d \in Callers : Running(d)' <=> Running(d) /\ d # c
    BY <1>1, <1>2 DEF Running
  <2>3. \A j \in Keys : m'[j] = IF m[j] = c THEN NoCall ELSE m[j]
    BY <2>1, <1>1, <1>2 DEF Mapped
  <2> QED BY <2>1, <2>2, <2>3, <1>1, <1>2 DEF Mapped
<1>12. Over'
  <2>1. \A d \in Callers : d \in done' <=> run'[d] = "done"
    BY <1>1, <1>2 DEF Inv, Shape, Over
  <2>2. \A d \in Callers : outcome'[d] = "none" <=> run'[d] \in {"none", "fn"}
    BY <1>1, <1>2 DEF Inv, Shape, Over
  <2>3. \A q \in Callers : pc'[q] \in Ended => joined'[q] \in done'
    BY <1>1, <1>7 DEF Inv, Shape, Over
  <2> QED BY <2>1, <2>2, <2>3 DEF Over
<1>13. Listening'
  <2>1. ASSUME NEW d \in Callers, NEW q \in Callers, q \in chans'[d]
        PROVE  joined'[q] = d /\ pc'[q] \in {"listener", "returned"}
    <3>1. joined[q] = d /\ pc[q] \in {"listener", "returned"}
      BY <2>1, <1>1 DEF Inv, Shape, Listening
    <3> QED BY <3>1, <1>1, <1>3
  <2>2. ASSUME NEW q \in Callers, pc'[q] = "listener" PROVE q \in chans'[joined'[q]]
    BY <2>2, <1>1, <1>7 DEF Inv, Shape, Listening
  <2> QED BY <2>1, <2>2 DEF Listening
<1>14. SharedIsTrue'
  <2> SUFFICES ASSUME NEW q \in Callers, pc'[q] = "returned"
               PROVE  /\ joined[q] \in done'
                      /\ outcome[joined[q]] = "result"
                      /\ shared'[q] <=> Sharers(joined[q]) # {q}
    BY <1>1 DEF SharedIsTrue, Sharers
  <2>1. CASE pc[q] = "returned"
    <3>1. q \notin chans[c]
      BY <2>1, <1>5, <1>6
    <3> QED BY <2>1, <3>1, <1>1, <1>4, AnswerNow
  <2>2. CASE pc[q] # "returned"
    <3>1. joined[q] = c /\ outcome[c] = "result" /\ q \in chans[c] /\ shared'[q] = (dups[c] > 0)
      BY <2>2, <1>4, <1>7
    <3>2. dups[c] > 0 <=> Joiners(joined, c) # {}
      BY JoinersCount DEF Inv, Counted
    <3>3. Sharers(c) = Joiners(joined, c) \cup {c} /\ c \notin Joiners(joined, c)
      BY <1>2 DEF Sharers, Joiners
    <3>4. q # c => q \in Joiners(joined, c)
      BY <3>1 DEF Joiners
    <3> QED BY <3>1, <3>2, <3>3, <3>4, <1>1
  <2> QED BY <2>1, <2>2
<1>15. Failing'
  <2>1. ASSUME NEW q \in Callers, pc'[q] \in {"owner", "listener"}, joined'[q] \in done'
        PROVE  /\ outcome'[joined'[q]] = "panic" => stuck'
               /\ outcome'[joined'[q]] = "goexit" => pc'[q] = "listener"
               /\ outcome'[joined'[q]] = "result" => pc'[q] = "owner"
    <3>1. /\ pc[q] \in {"owner", "listener"} /\ pc'[q] = pc[q]
          /\ pc[q] = "owner" => joined[q] = q
          /\ pc[q] = "listener" => q \in chans[joined[q]]
      BY <2>1, <1>7 DEF Inv, Shape, Linked, Listening
    <3>2. CASE joined[q] = c
      BY <2>1, <3>1, <3>2, <1>1, <1>3
    <3>3. CASE joined[q] # c
      BY <2>1, <3>1, <3>3, <1>1 DEF Inv, Failing, Told, Waits
    <3> QED BY <3>2, <3>3
  <2>2. \A q \in Callers : /\ pc'[q] = "panicked" => outcome'[joined'[q]] = "panic"
                           /\ pc'[q] = "exited" => outcome'[joined'[q]] = "goexit"
    BY <1>1, <1>7, AnswerNow
  <2> QED BY <2>1, <2>2 DEF Failing, Told, Waits
<1> QED BY <1>8, <1>9, <1>10, <1>11, <1>12, <1>13, <1>14, <1>15 DEF Inv, Shape

\* A caller of Do leaves with the result, the panic or the Goexit of its call.
LEMMA LeaveStep ==
  ASSUME Inv, NEW r \in Callers, OwnerReturns(r) \/ WaiterEnds(r)
  PROVE  Inv'
<1>1. /\ pc[r] \in {"owner", "waiter"}
      /\ joined[r] \in done
      /\ pc' = [pc EXCEPT ![r] = CASE outcome[joined[r]] = "panic"  -> "panicked"
                                   [] outcome[joined[r]] = "goexit" -> "exited"
                                   [] OTHER                         -> "returned"]
      /\ shared' = [shared EXCEPT ![r] = Sharers(joined[r]) # {r}]
      /\ UNCHANGED <<m, key, dups, chans, outcome, run, done, joined, forgotten, stuck, crashed>>
  <2>1. CASE OwnerReturns(r)
    <3>1. joined[r] = r
      BY <2>1 DEF OwnerReturns, Inv, Shape, Linked
    <3>2. dups[r] > 0 <=> Joiners(joined, r) # {}
      BY JoinersCount DEF Inv, Counted
    <3>3. (dups[r] > 0) = (Sharers(r) # {r})
      BY <3>1, <3>2 DEF Sharers, Joiners
    <3> QED BY <2>1, <3>1, <3>3 DEF OwnerReturns, callVars, processVars
  <2>2. CASE WaiterEnds(r)
    <3>1. joined[r] # r /\ joined[joined[r]] = joined[r] /\ joined[r] \in Callers
      BY <2>2 DEF WaiterEnds, Inv, Shape, Linked, TypeOK
    <3>2. (Sharers(joined[r]) # {r}) = TRUE
      BY <3>1 DEF Sharers
    <3> QED BY <2>2, <3>2 DEF WaiterEnds, callVars, processVars
  <2> QED BY <2>1, <2>2
<1>2. /\ pc'[r] \in Ended /\ (shared'[r] <=> Sharers(joined[r]) # {r})
      /\ \A q \in Callers \ {r} : pc'[q] = pc[q] /\ shared'[q] = shared[q]
  BY <1>1 DEF Inv, TypeOK
<1>3. TypeOK'
  BY <1>1 DEF Inv, TypeOK
<1>4. Counted'
  BY <1>1, SameJoined
<1>5. Linked' /\ Mapped' /\ Over'
  BY <1>1, <1>2 DEF Inv, Shape, Linked, Mapped, Over, Running
<1>6. Listening'
  BY <1>1, <1>2 DEF Inv, Shape, Listening
<1>7. outcome[joined[r]] \in {"result", "panic", "goexit"}
  BY <1>1 DEF Inv, Shape, Over, TypeOK
<1>8. ASSUME NEW q \in Callers
      PROVE  /\ pc'[q] = "returned" => /\ joined[q] \in done
                                       /\ outcome[joined[q]] = "result"
                                       /\ shared'[q] <=> Sharers(joined[q]) # {q}
             /\ pc'[q] = "panicked" => outcome[joined[q]] = "panic"
             /\ pc'[q] = "exited" => outcome[joined[q]] = "goexit"
  <2>1. CASE q = r
    BY <2>1, <1>1, <1>2, <1>7 DEF Inv, TypeOK
  <2>2. CASE q # r
    BY <2>2, <1>2, AnswerNow
  <2> QED BY <2>1, <2>2
<1>9. SharedIsTrue'
  BY <1>1, <1>8 DEF SharedIsTrue, Sharers
<1>10. Failing'
  BY <1>1, <1>2, <1>8 DEF Inv, Failing, Told, Waits
<1> QED BY <1>3, <1>4, <1>5, <1>6, <1>9, <1>10 DEF Inv, Shape

-----------------------------------------------------------------------------
LEMMA NextInv == Inv /\ [Next]_vars => Inv'
<1> SUFFICES ASSUME Inv, [Next]_vars PROVE Inv'
  OBVIOUS
<1>1. ASSUME NEW r \in Callers, NEW k \in Keys, NEW w \in {"waiter", "listener"}, Request(r, k, w)
      PROVE  Inv'
  BY <1>1, JoinStep, CreateStep DEF Request
<1>2. ASSUME Crash \/ UNCHANGED vars PROVE Inv'
  <2>1. UNCHANGED <<m, key, dups, chans, outcome, run, done, pc, joined, shared, forgotten, stuck>> /\ crashed' \in BOOLEAN
    BY <1>2 DEF Crash, vars, callVars, processVars, Inv, TypeOK
  <2>2. TypeOK' /\ Counted'
    BY <2>1, SameJoined DEF Inv, TypeOK
  <2>3. Linked' /\ Mapped' /\ Over' /\ Listening'
    BY <2>1 DEF Inv, Shape, Linked, Mapped, Over, Listening, Running
  <2>4. SharedIsTrue' /\ Failing'
    BY <2>1 DEF Inv, SharedIsTrue, Failing, Told, Waits, Sharers
  <2> QED BY <2>2, <2>3, <2>4 DEF Inv, Shape
<1> QED
  BY <1>1, <1>2, ForgetStep, FunctionStep, CompleteStep, LeaveStep DEF Next, Do, DoChan

\* The inductive invariant: who joined which call, and what the map, the channels and
\* dups say about it.
THEOREM FlightCorrect == Spec => []Inv
BY InitInv, NextInv, PTL DEF Spec

\* Every variable of SingleFlight keeps its type; dups stays below the number of
\* callers.
THEOREM TypeCorrect == Spec => []TypeOK
<1>1. Inv => TypeOK
  BY DEF Inv
<1> QED BY <1>1, FlightCorrect, PTL

\* One function in flight for each key, but for forgotten calls (lines 86-88, 159).
THEOREM OneIsInFlight == Spec => []OneInFlight
<1>1. Inv => OneInFlight
  <2> SUFFICES ASSUME Inv, NEW k \in Keys
               PROVE  {c \in Callers : key[c] = k /\ Running(c) /\ c \notin forgotten}
                        = IF m[k] = NoCall THEN {} ELSE {m[k]}
    BY DEF OneInFlight
  <2>1. m[k] \in Callers \cup {NoCall} /\ Mapped
    BY DEF Inv, Shape, TypeOK
  <2> QED BY <2>1, CallerAssumption DEF Mapped
<1> QED BY <1>1, FlightCorrect, PTL

\* What a caller is told about sharing is true (lines 90, 114).
THEOREM SharingIsTrue == Spec => []SharedIsTrue
<1>1. Inv => SharedIsTrue
  BY DEF Inv
<1> QED BY <1>1, FlightCorrect, PTL

\* Every caller of Do ends the way the function did; who still waits for a call that is
\* over has the dying process or an unanswered Goexit for a reason (lines 78-84, 163-180).
THEOREM FailureIsTold == Spec => []FailureReachesAll
<1>1. Inv => FailureReachesAll
  BY DEF Inv, SharedIsTrue, Failing, Told, Waits, FailureReachesAll, Ending
<1> QED BY <1>1, FlightCorrect, PTL

\* Nobody joins a call that is over or was forgotten (lines 92-99, 207-214).
THEOREM NothingStale == Spec => NeverStale
<1>1. ASSUME Inv, [Next]_vars
      PROVE  \A r \in Callers :
               joined'[r] # joined[r] => joined[r] = NoCall /\ joined'[r] \notin done \cup forgotten
  <2> SUFFICES ASSUME NEW r \in Callers, joined'[r] # joined[r]
               PROVE  joined[r] = NoCall /\ joined'[r] \notin done \cup forgotten
    OBVIOUS
  <2>1. PICK q \in Callers, k \in Keys, w \in {"waiter", "listener"} : Request(q, k, w)
    BY <1>1 DEF Next, Do, DoChan, Forget, FunctionEnds, Complete, Crash, OwnerReturns, WaiterEnds, vars
  <2>2. CASE Join(q, k, w)
    <3>1. q = r /\ joined'[r] = m[k]
      BY <2>2, <1>1 DEF Join, Inv, TypeOK
    <3>2. m[k] \in Callers /\ Running(m[k]) /\ m[k] \notin forgotten
      BY <2>2, <1>1 DEF Join, Inv, TypeOK, Shape, Mapped
    <3>3. m[k] \notin done
      BY <3>2, <1>1 DEF Inv, Shape, Over, Running
    <3> QED BY <2>1, <3>1, <3>2, <3>3, <1>1 DEF Request, Inv, Shape, Linked
  <2>3. CASE Create(q, k, w)
    <3>1. q = r /\ joined'[r] = r /\ joined[r] = NoCall
      BY <2>1, <2>3, <1>1 DEF Create, Request, Inv, TypeOK, Shape, Linked
    <3>2. run[r] = "none"
      BY <3>1, <1>1, CallerAssumption DEF Inv, Shape, Linked
    <3> QED BY <3>1, <3>2, <1>1 DEF Inv, Shape, Over, Mapped
  <2> QED BY <2>1, <2>2, <2>3 DEF Request
<1> QED BY <1>1, FlightCorrect, PTL DEF Spec, NeverStale
===============================================================================
