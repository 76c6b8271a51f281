---------------------------- MODULE SpliceCopyProofs ----------------------------
(***************************************************************************)
(* The copies of SpliceCopy, proved for every number of copies, of pipes   *)
(* and of chunks: pipes are not shared, what is counted is what arrived,   *)
(* and while no write has failed every copy is exact.                      *)
(***************************************************************************)
EXTENDS SpliceCopy, SequenceTheorems, TLAPS

Chunk == Copies \X (1 .. Length)

\* What the counts are made of: the part of TypeOK that every step keeps by itself.
BaseType ==
  /\ pc \in [Copies -> {"idle", "read", "write", "generic", "done"}]
  /\ taken \in [Copies -> Nat]
  /\ out \in [Copies -> Seq(Chunk)]
  /\ holds \in [Copies -> Pipes \cup {NoPipe}]
  /\ content \in [Pipes -> Seq(Chunk)]
  /\ pooled \in SUBSET Pipes
  /\ readN \in [Copies -> Nat]
  /\ left \in [Copies -> Nat]
  /\ n \in [Copies -> Nat]
  /\ spliced \in [Copies -> Nat]
  /\ counted \in [Copies -> [read : Nat, write : Nat]]
  /\ result \in [Copies -> Results]

\* Where the chunks that left the source of s are, in each state of its copy.
Flow(s) ==
  /\ taken[s] <= Length
  /\ counted[s].write = n[s] + spliced[s]
  /\ counted[s].write <= Len(out[s]) /\ Len(out[s]) <= taken[s] /\ counted[s].read <= taken[s]
  /\ left[s] <= readN[s] /\ readN[s] <= taken[s]
  /\ result[s] = "nil" => Len(out[s]) = Length
  /\ pc[s] # "done" => result[s] = "running"
  /\ pc[s] \in {"idle", "read", "write"} => spliced[s] = 0
  /\ pc[s] \in {"idle", "read", "generic"} =>
       /\ taken[s] = Len(out[s]) /\ counted[s].write = Len(out[s]) /\ counted[s].read = Len(out[s])
       /\ left[s] = 0
  /\ pc[s] = "idle" => taken[s] = 0
  /\ pc[s] = "write" =>
       /\ n[s] + readN[s] = taken[s] /\ Len(out[s]) + left[s] = taken[s]
       /\ counted[s].read = n[s]
       /\ left[s] <= Len(content[holds[s]])
  /\ pc[s] = "done" /\ result[s] # "write error" =>
       counted[s].write = Len(out[s]) /\ counted[s].read = Len(out[s])

FlowInv == \A s \in Copies : Flow(s)

\* What splice moves is a sequence of as many chunks as it says.
LEMMA NextChunks ==
  ASSUME NEW s \in Copies, taken[s] \in Nat, NEW k \in Nat, taken[s] + k <= Length
  PROVE  Next1To(s, k) \in Seq(Chunk) /\ Len(Next1To(s, k)) = k
<1> DEFINE a == taken[s] + 1
           b == taken[s] + k
<1>1. a \in Int /\ b \in Int
  OBVIOUS
<1>2. \A i \in a .. b : Source(s)[i] \in Chunk
  BY LengthAssumption DEF Source, Chunk
<1>3. SubSeq(Source(s), a, b) \in Seq(Chunk) /\ Len(SubSeq(Source(s), a, b)) = IF a <= b THEN b - a + 1 ELSE 0
  <2> HIDE DEF a, b
  <2> QED BY <1>1, <1>2, SubSeqProperties
<1> QED BY <1>3 DEF Next1To

\* The front of a sequence and what follows it.
LEMMA FrontAndRest ==
  ASSUME NEW S, NEW q \in Seq(S), NEW k \in 0 .. Len(q)
  PROVE  /\ SubSeq(q, 1, k) \in Seq(S) /\ Len(SubSeq(q, 1, k)) = k
         /\ SubSeq(q, k + 1, Len(q)) \in Seq(S) /\ Len(SubSeq(q, k + 1, Len(q))) = Len(q) - k
<1>1. Len(q) \in Nat /\ k \in Int /\ k + 1 \in Int /\ \A i \in 1 .. Len(q) : q[i] \in S
  BY LenProperties, ElementOfSeq
<1>2. SubSeq(q, 1, k) \in Seq(S) /\ Len(SubSeq(q, 1, k)) = IF 1 <= k THEN k - 1 + 1 ELSE 0
  BY <1>1, SubSeqProperties
<1>3. /\ SubSeq(q, k + 1, Len(q)) \in Seq(S)
      /\ Len(SubSeq(q, k + 1, Len(q))) = IF k + 1 <= Len(q) THEN Len(q) - (k + 1) + 1 ELSE 0
  BY <1>1, SubSeqProperties
<1> QED BY <1>1, <1>2, <1>3

\* The counters only add up.
LEMMA CountersAdd ==
  ASSUME NEW f \in [Copies -> [read : Nat, write : Nat]], NEW s \in Copies, NEW a \in Nat, NEW b \in Nat
  PROVE  [f EXCEPT ![s] = [read |-> @.read + a, write |-> @.write + b]] \in [Copies -> [read : Nat, write : Nat]]
<1>1. f[s].read \in Nat /\ f[s].write \in Nat
  OBVIOUS
<1>2. f[s].read + a \in Nat /\ f[s].write + b \in Nat
  BY <1>1
<1> QED BY <1>2

\* A sum of chunks that is kept per copy.
LEMMA CopiesAdd ==
  ASSUME NEW f \in [Copies -> Nat], NEW s \in Copies, NEW a \in Nat
  PROVE  [f EXCEPT ![s] = @ + a] \in [Copies -> Nat]
OBVIOUS

-----------------------------------------------------------------------------
\* Every step keeps the types of what is counted.
LEMMA TypeStep ==
  ASSUME BaseType, PipeExclusive, FlowInv, [Next]_vars
  PROVE  BaseType'
<1>1. ASSUME NEW s \in Copies, StartGeneric(s) PROVE BaseType'
  BY <1>1 DEF StartGeneric, BaseType, Results
<1>2. ASSUME NEW s \in Copies, StartWithoutPipe(s) PROVE BaseType'
  BY <1>2 DEF StartWithoutPipe, End, BaseType, Results
<1>3. ASSUME NEW s \in Copies, NEW p \in Pipes, StartSplice(s, p) PROVE BaseType'
  <2>1. <<>> \in Seq(Chunk)
    BY EmptySeq
  <2>2. content' \in [Pipes -> Seq(Chunk)] /\ holds' \in [Copies -> Pipes \cup {NoPipe}] /\ pooled' \in SUBSET Pipes
    BY <1>3, <2>1 DEF StartSplice, Acquire, PoolWithout, BaseType, Results
  <2> QED BY <1>3, <2>2 DEF StartSplice, BaseType, Results
<1>4. ASSUME NEW s \in Copies, pc[s] \in {"read", "write"}, PutPipe(s)
      PROVE  holds' \in [Copies -> Pipes \cup {NoPipe}] /\ content' \in [Pipes -> Seq(Chunk)] /\ pooled' \in SUBSET Pipes
  BY <1>4 DEF PutPipe, PipeExclusive, BaseType, Results
<1>5. ASSUME NEW s \in Copies, ReadEnd(s) \/ ReadFails(s) \/ ReadUnsupported(s) \/ WriteFails(s) PROVE BaseType'
  <2>1. holds' \in [Copies -> Pipes \cup {NoPipe}] /\ content' \in [Pipes -> Seq(Chunk)] /\ pooled' \in SUBSET Pipes
    BY <1>4, <1>5 DEF ReadEnd, ReadFails, ReadUnsupported, WriteFails, BaseType, Results
  <2>2. /\ pc' \in [Copies -> {"idle", "read", "write", "generic", "done"}]
        /\ result' \in [Copies -> Results]
    BY <1>5 DEF ReadEnd, ReadFails, ReadUnsupported, WriteFails, End, BaseType, Results
  <2>3. /\ readN' \in [Copies -> Nat] /\ n' \in [Copies -> Nat] /\ spliced' \in [Copies -> Nat]
        /\ UNCHANGED <<taken, out, left, counted>>
    <3>1. CASE ReadEnd(s)
      BY <3>1 DEF ReadEnd, BaseType
    <3>2. CASE ReadFails(s) \/ WriteFails(s)
      BY <3>2 DEF ReadFails, WriteFails, BaseType
    <3>3. CASE ReadUnsupported(s)
      <4>1. n[s] \in Nat /\ n' = [n EXCEPT ![s] = 0] /\ spliced' = [spliced EXCEPT ![s] = n[s]]
        BY <3>3 DEF ReadUnsupported, BaseType
      <4>2. n' \in [Copies -> Nat] /\ spliced' \in [Copies -> Nat]
        BY <4>1 DEF BaseType
      <4> QED BY <3>3, <4>2 DEF ReadUnsupported, BaseType
    <3> QED BY <1>5, <3>1, <3>2, <3>3
  <2> QED BY <2>1, <2>2, <2>3 DEF BaseType
<1>6. ASSUME NEW s \in Copies, NEW k \in 1 .. Length, ReadChunks(s, k) PROVE BaseType'
  <2>0. k \in Nat
    BY <1>6, LengthAssumption
  <2>1. k \in Nat /\ holds[s] \in Pipes
    BY <1>6, <2>0 DEF ReadChunks, PipeExclusive, BaseType
  <2>2. content[holds[s]] \o Next1To(s, k) \in Seq(Chunk)
    <3>1. Next1To(s, k) \in Seq(Chunk)
      BY <1>6, <2>1, NextChunks DEF ReadChunks, BaseType
    <3>2. content[holds[s]] \in Seq(Chunk)
      BY <2>1 DEF BaseType
    <3> QED BY <3>1, <3>2, ConcatProperties
  <2>3. content' \in [Pipes -> Seq(Chunk)]
    BY <1>6, <2>2 DEF ReadChunks, BaseType, Results
  <2>4. taken' \in [Copies -> Nat] /\ readN' \in [Copies -> Nat] /\ left' \in [Copies -> Nat]
    BY <1>6, <2>1 DEF ReadChunks, BaseType
  <2> QED BY <1>6, <2>3, <2>4 DEF ReadChunks, BaseType
<1>7. ASSUME NEW s \in Copies, NEW k \in 1 .. Length, WriteChunks(s, k) PROVE BaseType'
  <2> DEFINE q == content[holds[s]]
  <2>0. k \in Nat
    BY <1>7, LengthAssumption
  <2>1. k \in Nat /\ holds[s] \in Pipes /\ q \in Seq(Chunk)
    BY <1>7, <2>0 DEF WriteChunks, PipeExclusive, BaseType
  <2>2. k \in 0 .. Len(q)
    <3>1. k <= left[s] /\ left[s] <= Len(q) /\ left[s] \in Nat
      BY <1>7 DEF WriteChunks, FlowInv, Flow, BaseType
    <3>2. Len(q) \in Nat
      BY <2>1, LenProperties
    <3> HIDE DEF q
    <3> QED BY <2>0, <3>1, <3>2
  <2>3. SubSeq(q, 1, k) \in Seq(Chunk) /\ SubSeq(q, k + 1, Len(q)) \in Seq(Chunk)
    <3> HIDE DEF q
    <3> QED BY <2>1, <2>2, FrontAndRest
  <2>4. out[s] \o SubSeq(q, 1, k) \in Seq(Chunk)
    <3>1. out[s] \in Seq(Chunk)
      BY <1>7 DEF BaseType
    <3> QED BY <2>3, <3>1, ConcatProperties
  <2>5. content' \in [Pipes -> Seq(Chunk)] /\ out' \in [Copies -> Seq(Chunk)]
    BY <1>7, <2>3, <2>4 DEF WriteChunks, BaseType, Results
  <2>6. left' \in [Copies -> Nat]
    <3>1. left[s] - k \in Nat
      BY <1>7, <2>0 DEF WriteChunks, BaseType
    <3> QED BY <1>7, <3>1 DEF WriteChunks, BaseType
  <2> QED BY <1>7, <2>5, <2>6 DEF WriteChunks, BaseType, Results
<1>8. ASSUME NEW s \in Copies, Account(s) PROVE BaseType'
  <2>1. counted' \in [Copies -> [read : Nat, write : Nat]]
    BY <1>8, CountersAdd DEF Account, BaseType
  <2>2. n' \in [Copies -> Nat]
    BY <1>8, CopiesAdd DEF Account, BaseType
  <2>3. pc' \in [Copies -> {"idle", "read", "write", "generic", "done"}]
    BY <1>8 DEF Account, RoundAgain, BaseType
  <2> QED BY <1>8, <2>1, <2>2, <2>3 DEF Account, BaseType
<1>9. ASSUME NEW s \in Copies, NEW k \in 1 .. Length, NEW j \in 0 .. k, GenericMove(s, k, j) PROVE BaseType'
  <2>1. k \in Nat /\ j \in Nat /\ j \in 0 .. k
    BY <1>9, LengthAssumption
  <2>2. Next1To(s, k) \in Seq(Chunk) /\ Len(Next1To(s, k)) = k
    BY <1>9, <2>1, NextChunks DEF GenericMove, BaseType, Results
  <2>3. SubSeq(Next1To(s, k), 1, j) \in Seq(Chunk)
    BY <2>1, <2>2, FrontAndRest
  <2>4. out[s] \o SubSeq(Next1To(s, k), 1, j) \in Seq(Chunk)
    <3>1. out[s] \in Seq(Chunk)
      BY <1>9 DEF BaseType
    <3> QED BY <2>3, <3>1, ConcatProperties
  <2>5. out' \in [Copies -> Seq(Chunk)]
    BY <1>9, <2>4 DEF GenericMove, BaseType, Results
  <2>6. counted' \in [Copies -> [read : Nat, write : Nat]] /\ n' \in [Copies -> Nat] /\ taken' \in [Copies -> Nat]
    <3>1. counted' \in [Copies -> [read : Nat, write : Nat]]
      BY <1>9, <2>1, CountersAdd DEF GenericMove, BaseType
    <3>2. n' \in [Copies -> Nat] /\ taken' \in [Copies -> Nat]
      BY <1>9, <2>1, CopiesAdd DEF GenericMove, BaseType
    <3> QED BY <3>1, <3>2
  <2>7. /\ pc' \in [Copies -> {"idle", "read", "write", "generic", "done"}]
        /\ result' \in [Copies -> Results]
    BY <1>9 DEF GenericMove, End, BaseType, Results
  <2> QED BY <1>9, <2>5, <2>6, <2>7 DEF GenericMove, BaseType, Results
<1>10. ASSUME NEW s \in Copies, GenericEnd(s) PROVE BaseType'
  BY <1>10 DEF GenericEnd, End, BaseType, Results
<1>11. ASSUME NEW p \in Pipes, Finalize(p) PROVE BaseType'
  <2>1. <<>> \in Seq(Chunk)
    BY EmptySeq
  <2> QED BY <1>11, <2>1 DEF Finalize, sessionVars, BaseType, Results
<1>12. CASE UNCHANGED vars
  BY <1>12 DEF vars, sessionVars, BaseType, Results
<1> QED
  BY <1>1, <1>2, <1>3, <1>5, <1>6, <1>7, <1>8, <1>9, <1>10, <1>11, <1>12 DEF Next, Step

\* A pipe goes from the pool to one copy and back, or is closed.
LEMMA ExclusiveStep ==
  ASSUME BaseType, PipeExclusive, [Next]_vars
  PROVE  PipeExclusive'
<1> USE DEF PipeExclusive, Held
<1>1. ASSUME NEW s \in Copies, StartGeneric(s) PROVE PipeExclusive'
  BY <1>1 DEF StartGeneric, BaseType
<1>2. ASSUME NEW s \in Copies, StartWithoutPipe(s) PROVE PipeExclusive'
  BY <1>2 DEF StartWithoutPipe, End, BaseType
<1>3. ASSUME NEW s \in Copies, NEW p \in Pipes, StartSplice(s, p) PROVE PipeExclusive'
  <2>1. p # NoPipe /\ \A q \in Copies : holds[q] # p
    BY <1>3, NoPipeAssumption DEF StartSplice, Acquire, Fresh
  <2>2. /\ holds'[s] = p /\ pc'[s] = "read"
        /\ \A q \in Copies : q # s => holds'[q] = holds[q] /\ pc'[q] = pc[q]
    BY <1>3 DEF StartSplice, Acquire, BaseType
  <2>3. pooled' = pooled \ {p}
    BY <1>3 DEF StartSplice, Acquire, PoolWithout
  <2> QED BY <2>1, <2>2, <2>3
<1>4. ASSUME NEW s \in Copies, pc[s] \in {"read", "write"}, pc'[s] \in {"generic", "done"},
             \A q \in Copies : q # s => pc'[q] = pc[q],
             PutPipe(s)
      PROVE  PipeExclusive'
  <2>1. /\ holds'[s] = NoPipe
        /\ \A q \in Copies : q # s => holds'[q] = holds[q]
    BY <1>4 DEF PutPipe, BaseType
  <2>2. pooled' = pooled \cup {holds[s]} /\ holds[s] \in Pipes
    BY <1>4 DEF PutPipe, Data, BaseType
  <2>3. NoPipe \notin pooled'
    BY <2>2, NoPipeAssumption DEF BaseType
  <2> QED BY <1>4, <2>1, <2>2, <2>3
<1>5. ASSUME NEW s \in Copies, ReadEnd(s) \/ ReadFails(s) \/ ReadUnsupported(s) \/ WriteFails(s)
      PROVE  PipeExclusive'
  <2>1. /\ pc[s] \in {"read", "write"} /\ pc'[s] \in {"generic", "done"}
        /\ \A q \in Copies : q # s => pc'[q] = pc[q]
        /\ PutPipe(s)
    BY <1>5 DEF ReadEnd, ReadFails, ReadUnsupported, WriteFails, End, BaseType
  <2> QED BY <1>4, <2>1
<1>6. ASSUME NEW s \in Copies, NEW k \in 1 .. Length, ReadChunks(s, k) PROVE PipeExclusive'
  BY <1>6 DEF ReadChunks, BaseType
<1>7. ASSUME NEW s \in Copies, NEW k \in 1 .. Length, WriteChunks(s, k) PROVE PipeExclusive'
  BY <1>7 DEF WriteChunks, BaseType
<1>8. ASSUME NEW s \in Copies, Account(s) PROVE PipeExclusive'
  BY <1>8 DEF Account, RoundAgain, BaseType
<1>9. ASSUME NEW s \in Copies, NEW k \in 1 .. Length, NEW j \in 0 .. k, GenericMove(s, k, j)
      PROVE  PipeExclusive'
  <2>1. /\ UNCHANGED <<holds, pooled>>
        /\ pc[s] = "generic" /\ pc'[s] \in {"generic", "done"}
        /\ \A q \in Copies : q # s => pc'[q] = pc[q]
    <3>1. pc' = pc \/ pc' = [pc EXCEPT ![s] = "done"]
      BY <1>9 DEF GenericMove, End
    <3> QED BY <1>9, <3>1 DEF GenericMove, BaseType
  <2> QED BY <2>1
<1>10. ASSUME NEW s \in Copies, GenericEnd(s) PROVE PipeExclusive'
  <2>1. /\ UNCHANGED <<holds, pooled>>
        /\ pc[s] = "generic" /\ pc' = [pc EXCEPT ![s] = "done"]
    BY <1>10 DEF GenericEnd, End
  <2>2. pc'[s] = "done" /\ \A q \in Copies : q # s => pc'[q] = pc[q]
    BY <2>1 DEF BaseType
  <2> QED BY <2>1, <2>2
<1>11. ASSUME NEW p \in Pipes, Finalize(p) PROVE PipeExclusive'
  BY <1>11 DEF Finalize, sessionVars
<1>12. CASE UNCHANGED vars
  BY <1>12 DEF vars, sessionVars
<1> QED
  BY <1>1, <1>2, <1>3, <1>5, <1>6, <1>7, <1>8, <1>9, <1>10, <1>11, <1>12 DEF Next, Step

\* What a step of another copy, or of the garbage collector, leaves alone of copy q.
Untouched(q) ==
  /\ pc'[q] = pc[q] /\ taken'[q] = taken[q] /\ out'[q] = out[q] /\ holds'[q] = holds[q]
  /\ readN'[q] = readN[q] /\ left'[q] = left[q] /\ n'[q] = n[q] /\ spliced'[q] = spliced[q] /\ counted'[q] = counted[q]
  /\ result'[q] = result[q]
  /\ pc[q] \in {"read", "write"} => content'[holds[q]] = content[holds[q]]

\* The copies work with pipes of their own, so a step of one leaves the others alone.
LEMMA OthersUntouched ==
  ASSUME BaseType, PipeExclusive, NEW s \in Copies, Step(s), NEW q \in Copies, q # s
  PROVE  Untouched(q)
<1>1. pc[q] \in {"read", "write"} => holds[q] \in Pipes
  BY DEF PipeExclusive, BaseType
<1>2. pc[q] \in {"read", "write"} => holds[q] # holds[s]
  BY DEF PipeExclusive
<1>3. CASE StartGeneric(s) \/ StartWithoutPipe(s)
  BY <1>3 DEF StartGeneric, StartWithoutPipe, End, BaseType, Untouched
<1>4. ASSUME NEW p \in Pipes, StartSplice(s, p) PROVE Untouched(q)
  <2>1. holds[q] # p
    BY <1>4 DEF StartSplice, Acquire, Fresh, PipeExclusive, Held
  <2>2. pc[q] \in {"read", "write"} => content'[holds[q]] = content[holds[q]]
    BY <1>1, <1>4, <2>1 DEF StartSplice, Acquire, BaseType
  <2> QED BY <1>4, <2>2 DEF StartSplice, Acquire, BaseType, Untouched
<1>5. ASSUME PutPipe(s) PROVE content' = content /\ holds'[q] = holds[q]
  BY <1>5 DEF PutPipe, BaseType
<1>6. CASE ReadEnd(s)
  BY <1>5, <1>6 DEF ReadEnd, End, BaseType, Untouched
<1>7. CASE ReadFails(s) \/ WriteFails(s)
  BY <1>5, <1>7 DEF ReadFails, WriteFails, End, BaseType, Untouched
<1>8. CASE ReadUnsupported(s)
  BY <1>5, <1>8 DEF ReadUnsupported, BaseType, Untouched
<1>9. ASSUME NEW k \in 1 .. Length, ReadChunks(s, k) PROVE Untouched(q)
  BY <1>1, <1>2, <1>9 DEF ReadChunks, BaseType, Untouched
<1>10. ASSUME NEW k \in 1 .. Length, WriteChunks(s, k) PROVE Untouched(q)
  BY <1>1, <1>2, <1>10 DEF WriteChunks, BaseType, Untouched
<1>11. CASE Account(s)
  BY <1>11 DEF Account, BaseType, Untouched
<1>12. ASSUME NEW k \in 1 .. Length, NEW j \in 0 .. k, GenericMove(s, k, j) PROVE Untouched(q)
  <2>1. pc'[q] = pc[q] /\ result'[q] = result[q]
    <3>1. /\ pc' = pc \/ pc' = [pc EXCEPT ![s] = "done"]
          /\ result' = result \/ result' = [result EXCEPT ![s] = "write error"]
      BY <1>12 DEF GenericMove, End
    <3> QED BY <3>1 DEF BaseType
  <2> QED BY <1>12, <2>1 DEF GenericMove, BaseType, Untouched
<1>13. CASE GenericEnd(s)
  BY <1>13 DEF GenericEnd, End, BaseType, Untouched
<1> QED
  BY <1>3, <1>4, <1>6, <1>7, <1>8, <1>9, <1>10, <1>11, <1>12, <1>13 DEF Step

\* The garbage collector takes pipes of the pool, which no copy uses.
LEMMA NoneUntouched ==
  ASSUME BaseType, PipeExclusive, NEW p \in Pipes, Finalize(p), NEW q \in Copies
  PROVE  Untouched(q)
<1>1. pc[q] \in {"read", "write"} => holds[q] \in Pipes
  BY DEF PipeExclusive, BaseType
<1>2. holds[q] # p
  BY DEF Finalize, PipeExclusive, Held
<1>3. pc[q] \in {"read", "write"} => content'[holds[q]] = content[holds[q]]
  BY <1>1, <1>2 DEF Finalize, BaseType
<1> QED BY <1>3 DEF Finalize, sessionVars, Untouched

\* The chunks of a copy are accounted for in each of its states; the steps of the
\* others leave them alone.
LEMMA FlowStep ==
  ASSUME BaseType, BaseType', PipeExclusive, FlowInv, [Next]_vars
  PROVE  FlowInv'
<1>t. ASSUME NEW s \in Copies
      PROVE  /\ taken[s] \in Nat /\ readN[s] \in Nat /\ left[s] \in Nat /\ n[s] \in Nat /\ spliced[s] \in Nat
             /\ counted[s].read \in Nat /\ counted[s].write \in Nat
             /\ Len(out[s]) \in Nat
             /\ pc[s] \in {"read", "write"} => holds[s] \in Pipes /\ Len(content[holds[s]]) \in Nat
  <2>1. out[s] \in Seq(Chunk) /\ counted[s] \in [read : Nat, write : Nat]
    BY <1>t DEF BaseType
  <2>2. Len(out[s]) \in Nat /\ counted[s].read \in Nat /\ counted[s].write \in Nat
    BY <2>1, LenProperties
  <2>3. taken[s] \in Nat /\ readN[s] \in Nat /\ left[s] \in Nat /\ n[s] \in Nat /\ spliced[s] \in Nat
    BY <1>t DEF BaseType
  <2>4. ASSUME pc[s] \in {"read", "write"} PROVE holds[s] \in Pipes /\ Len(content[holds[s]]) \in Nat
    <3>1. holds[s] \in Pipes
      BY <1>t, <2>4 DEF PipeExclusive, BaseType
    <3>2. content[holds[s]] \in Seq(Chunk)
      BY <3>1 DEF BaseType
    <3> QED BY <3>1, <3>2, LenProperties
  <2> QED BY <2>2, <2>3, <2>4
<1>1. ASSUME NEW s \in Copies, StartGeneric(s) PROVE Flow(s)'
  BY <1>1 DEF StartGeneric, BaseType, FlowInv, Flow
<1>2. ASSUME NEW s \in Copies, StartWithoutPipe(s) PROVE Flow(s)'
  <2> QED
    <3>1. /\ pc[s] = "idle" /\ pc'[s] = "done" /\ result'[s] = "EINVAL"
          /\ UNCHANGED <<taken, out, holds, readN, left, n, spliced, counted, content>>
      BY <1>2 DEF StartWithoutPipe, End, BaseType
    <3>2. Flow(s)
      BY <1>2 DEF FlowInv
    <3> QED BY <3>1, <3>2 DEF Flow
<1>3. ASSUME NEW s \in Copies, NEW p \in Pipes, StartSplice(s, p) PROVE Flow(s)'
  BY <1>3 DEF StartSplice, BaseType, FlowInv, Flow
<1>4. ASSUME NEW s \in Copies, ReadEnd(s) PROVE Flow(s)'
  <2>1. /\ pc[s] = "read" /\ taken[s] = Length /\ readN'[s] = 0
        /\ pc'[s] = "done" /\ result'[s] = "nil"
        /\ UNCHANGED <<taken, out, left, n, spliced, counted>>
    BY <1>4 DEF ReadEnd, End, BaseType
  <2> QED
    <3>1. Flow(s)
      BY <1>4 DEF FlowInv
    <3>2. /\ taken[s] \in Nat /\ readN[s] \in Nat /\ left[s] \in Nat /\ n[s] \in Nat /\ spliced[s] \in Nat
          /\ counted[s].read \in Nat /\ counted[s].write \in Nat /\ Len(out[s]) \in Nat
      BY <1>4, <1>t
    <3> QED BY <3>1, <3>2, <2>1 DEF Flow
<1>5. ASSUME NEW s \in Copies, ReadFails(s) PROVE Flow(s)'
  <2>1. /\ pc[s] = "read" /\ pc'[s] = "done" /\ result'[s] = "read error"
        /\ UNCHANGED <<taken, out, readN, left, n, spliced, counted>>
    BY <1>5 DEF ReadFails, End, BaseType
  <2> QED
    <3>1. Flow(s)
      BY <1>5 DEF FlowInv
    <3>2. /\ taken[s] \in Nat /\ readN[s] \in Nat /\ left[s] \in Nat /\ n[s] \in Nat /\ spliced[s] \in Nat
          /\ counted[s].read \in Nat /\ counted[s].write \in Nat /\ Len(out[s]) \in Nat
      BY <1>5, <1>t
    <3> QED BY <3>1, <3>2, <2>1 DEF Flow
<1>6. ASSUME NEW s \in Copies, ReadUnsupported(s) PROVE Flow(s)'
  <2>1. /\ pc[s] = "read" /\ pc'[s] = "generic"
        /\ spliced'[s] = n[s] /\ n'[s] = 0
        /\ UNCHANGED <<taken, out, readN, left, counted, result>>
    BY <1>6 DEF ReadUnsupported, BaseType
  <2> QED
    <3>1. Flow(s)
      BY <1>6 DEF FlowInv
    <3>2. /\ taken[s] \in Nat /\ readN[s] \in Nat /\ left[s] \in Nat /\ n[s] \in Nat /\ spliced[s] \in Nat
          /\ counted[s].read \in Nat /\ counted[s].write \in Nat /\ Len(out[s]) \in Nat
      BY <1>6, <1>t
    <3> QED BY <3>1, <3>2, <2>1 DEF Flow
<1>7. ASSUME NEW s \in Copies, WriteFails(s) PROVE Flow(s)'
  <2>1. /\ pc[s] = "write" /\ pc'[s] = "done" /\ result'[s] = "write error"
        /\ UNCHANGED <<taken, out, readN, left, n, spliced, counted>>
    BY <1>7 DEF WriteFails, End, BaseType
  <2> QED
    <3>1. Flow(s)
      BY <1>7 DEF FlowInv
    <3>2. /\ taken[s] \in Nat /\ readN[s] \in Nat /\ left[s] \in Nat /\ n[s] \in Nat /\ spliced[s] \in Nat
          /\ counted[s].read \in Nat /\ counted[s].write \in Nat /\ Len(out[s]) \in Nat
      BY <1>7, <1>t
    <3> QED BY <3>1, <3>2, <2>1 DEF Flow
<1>8. ASSUME NEW s \in Copies, NEW k \in 1 .. Length, ReadChunks(s, k) PROVE Flow(s)'
  <2>0. k \in Nat /\ holds[s] \in Pipes
    BY <1>8, <1>t, LengthAssumption DEF ReadChunks
  <2>1. /\ pc[s] = "read" /\ pc'[s] = "write"
        /\ taken[s] + k <= Length /\ taken'[s] = taken[s] + k
        /\ readN'[s] = k /\ left'[s] = k
        /\ UNCHANGED <<out, holds, n, spliced, counted, result>>
    BY <1>8 DEF ReadChunks, BaseType
  <2>2. /\ content'[holds[s]] = content[holds[s]] \o Next1To(s, k)
        /\ \A p \in Pipes : p # holds[s] => content'[p] = content[p]
    BY <1>8, <2>0 DEF ReadChunks, BaseType
  <2>3. k <= Len(content'[holds[s]])
    <3>1. Next1To(s, k) \in Seq(Chunk) /\ Len(Next1To(s, k)) = k
      BY <1>t, <2>0, <2>1, NextChunks
    <3>2. content[holds[s]] \in Seq(Chunk)
      BY <2>0 DEF BaseType
    <3>3. \A a, b \in Seq(Chunk) : Len(a \o b) = Len(a) + Len(b) /\ Len(a) \in Nat
      BY ConcatProperties, LenProperties
    <3>4. Len(content[holds[s]] \o Next1To(s, k)) = Len(content[holds[s]]) + k /\ Len(content[holds[s]]) \in Nat
      BY <3>1, <3>2, <3>3, ZenonT(30)
    <3> QED BY <2>0, <2>2, <3>4
  <2> QED
    <3>1. Flow(s)
      BY <1>8 DEF FlowInv
    <3>2. /\ taken[s] \in Nat /\ readN[s] \in Nat /\ left[s] \in Nat /\ n[s] \in Nat /\ spliced[s] \in Nat
          /\ counted[s].read \in Nat /\ counted[s].write \in Nat /\ Len(out[s]) \in Nat
      BY <1>8, <1>t
    <3> QED BY <3>1, <3>2, <2>0, <2>1, <2>3, LengthAssumption DEF Flow
<1>9. ASSUME NEW s \in Copies, NEW k \in 1 .. Length, WriteChunks(s, k) PROVE Flow(s)'
  <2> DEFINE c == content[holds[s]]
  <2>0. k \in Nat /\ k >= 1 /\ holds[s] \in Pipes /\ c \in Seq(Chunk) /\ out[s] \in Seq(Chunk)
    <3>1. k \in Nat /\ k >= 1
      BY <1>9, LengthAssumption
    <3>2. holds[s] \in Pipes
      BY <1>9, <1>t DEF WriteChunks
    <3> QED BY <1>9, <3>1, <3>2 DEF BaseType
  <2>1. /\ pc[s] = "write" /\ k <= left[s] /\ left'[s] = left[s] - k
        /\ UNCHANGED <<pc, taken, holds, readN, n, spliced, counted, result>>
    BY <1>9 DEF WriteChunks, BaseType
  <2>2. /\ out'[s] = out[s] \o SubSeq(c, 1, k)
        /\ content'[holds[s]] = SubSeq(c, k + 1, Len(c))
        /\ \A p \in Pipes : p # holds[s] => content'[p] = content[p]
    BY <1>9, <2>0 DEF WriteChunks, BaseType
  <2>3. left[s] <= Len(c) /\ Len(c) \in Nat /\ left[s] \in Nat /\ k \in 0 .. Len(c)
    <3>1. left[s] <= Len(c)
      BY <1>9, <2>1 DEF FlowInv, Flow
    <3>2. Len(c) \in Nat /\ left[s] \in Nat
      BY <1>9, <1>t, <2>1
    <3> HIDE DEF c
    <3> QED BY <2>0, <2>1, <3>1, <3>2
  <2>4. Len(out'[s]) = Len(out[s]) + k /\ Len(content'[holds[s]]) = Len(c) - k
    <3> HIDE DEF c
    <3>1. SubSeq(c, 1, k) \in Seq(Chunk) /\ Len(SubSeq(c, 1, k)) = k /\ Len(SubSeq(c, k + 1, Len(c))) = Len(c) - k
      BY <2>0, <2>3, FrontAndRest
    <3>2. Len(out[s] \o SubSeq(c, 1, k)) = Len(out[s]) + Len(SubSeq(c, 1, k))
      BY <2>0, <3>1, ConcatProperties
    <3> QED BY <2>2, <3>1, <3>2
  <2> QED
    <3>1. Flow(s)
      BY <1>9 DEF FlowInv
    <3>2. /\ taken[s] \in Nat /\ readN[s] \in Nat /\ left[s] \in Nat /\ n[s] \in Nat /\ spliced[s] \in Nat
          /\ counted[s].read \in Nat /\ counted[s].write \in Nat /\ Len(out[s]) \in Nat
      BY <1>9, <1>t
    <3>3. left'[s] <= Len(content'[holds'[s]])
      <4> HIDE DEF c
      <4> QED BY <2>0, <2>1, <2>3, <2>4
    <3>4. /\ taken[s] <= Length /\ n[s] = counted[s].write /\ spliced[s] = 0 /\ readN[s] <= taken[s]
          /\ left[s] <= readN[s] /\ n[s] + readN[s] = taken[s] /\ Len(out[s]) + left[s] = taken[s]
          /\ counted[s].read = n[s] /\ result[s] = "running"
      BY <2>1, <3>1, <3>2 DEF Flow
    <3>5. /\ pc'[s] = "write" /\ result'[s] = "running" /\ readN'[s] = readN[s]
          /\ taken'[s] = taken[s] /\ n'[s] = n[s] /\ spliced'[s] = spliced[s] /\ counted'[s] = counted[s]
      BY <2>1, <3>4
    <3>6. /\ n[s] <= Len(out'[s]) /\ Len(out'[s]) <= taken[s] /\ counted[s].read <= taken[s]
          /\ left'[s] <= readN[s] /\ Len(out'[s]) + left'[s] = taken[s]
      <4>1. /\ k \in Nat /\ k <= left[s] /\ left'[s] = left[s] - k
            /\ Len(out'[s]) = Len(out[s]) + k
        BY <2>0, <2>1, <2>4
      <4>2. /\ n[s] <= Len(out[s]) + k /\ Len(out[s]) + k <= taken[s]
            /\ left[s] - k <= readN[s] /\ (Len(out[s]) + k) + (left[s] - k) = taken[s]
        <5> DEFINE o == Len(out[s])
                   l == left[s]
                   r == readN[s]
                   t == taken[s]
                   m == n[s]
        <5>1. /\ o \in Nat /\ l \in Nat /\ r \in Nat /\ t \in Nat /\ m \in Nat
          BY <3>2
        <5>2. /\ l <= r /\ m + r = t /\ o + l = t /\ k <= l /\ k \in Nat
          BY <3>4, <4>1
        <5> HIDE DEF o, l, r, t, m
        <5>3. o + k <= t /\ l - k <= r /\ (o + k) + (l - k) = t
          BY <5>1, <5>2
        <5>4. m <= o + k
          BY <5>1, <5>2
        <5> QED BY <5>3, <5>4 DEF o, l, r, t, m
      <4>3. counted[s].read <= taken[s]
        BY <3>2, <3>4
      <4>4. Len(out'[s]) = Len(out[s]) + k /\ left'[s] = left[s] - k
        BY <4>1
      <4> QED BY <4>2, <4>3, <4>4
    <3>7. counted[s].write = n[s] + spliced[s]
      BY <3>1 DEF Flow
    <3>8. counted'[s].write <= Len(out'[s]) /\ counted'[s].write = n'[s] + spliced'[s]
      BY <3>4, <3>5, <3>6, <3>7
    <3> QED BY <3>3, <3>4, <3>5, <3>6, <3>8 DEF Flow
<1>10. ASSUME NEW s \in Copies, Account(s) PROVE Flow(s)'
  <2>1. /\ pc[s] = "write" /\ left[s] = 0 /\ pc'[s] = "read"
        /\ counted'[s] = [read |-> counted[s].read + readN[s], write |-> counted[s].write + readN[s]]
        /\ n'[s] = n[s] + readN[s]
        /\ UNCHANGED <<taken, out, holds, readN, left, spliced, result>>
    BY <1>10 DEF Account, Written, RoundAgain, BaseType
  <2>2. /\ counted'[s].read = counted[s].read + readN[s]
        /\ counted'[s].write = counted[s].write + readN[s]
    BY <2>1
  <2> QED
    <3>1. Flow(s)
      BY <1>10 DEF FlowInv
    <3>2. /\ taken[s] \in Nat /\ readN[s] \in Nat /\ left[s] \in Nat /\ n[s] \in Nat /\ spliced[s] \in Nat
          /\ counted[s].read \in Nat /\ counted[s].write \in Nat /\ Len(out[s]) \in Nat
      BY <1>10, <1>t
    <3> QED BY <3>1, <3>2, <2>1, <2>2 DEF Flow
<1>11. ASSUME NEW s \in Copies, NEW k \in 1 .. Length, NEW j \in 0 .. k, GenericMove(s, k, j)
       PROVE  Flow(s)'
  <2>0. k \in Nat /\ j \in Nat /\ j <= k /\ j \in 0 .. k /\ out[s] \in Seq(Chunk)
    BY <1>11, LengthAssumption DEF BaseType
  <2>1. /\ pc[s] = "generic" /\ taken[s] + k <= Length /\ taken'[s] = taken[s] + k
        /\ n'[s] = n[s] + j
        /\ UNCHANGED <<holds, readN, left, spliced, content>>
    BY <1>11 DEF GenericMove, BaseType
  <2>2. counted'[s].read = counted[s].read + k /\ counted'[s].write = counted[s].write + j
    <3>1. counted'[s] = [read |-> counted[s].read + k, write |-> counted[s].write + j]
      BY <1>11 DEF GenericMove, BaseType
    <3> QED BY <3>1
  <2>3. \/ pc'[s] = "done" /\ result'[s] = "write error"
        \/ j = k /\ pc'[s] = pc[s] /\ result'[s] = result[s]
    <3>1. CASE End(s, "write error")
      BY <1>11, <3>1 DEF End, BaseType
    <3>2. CASE ~(j < k) /\ UNCHANGED <<pc, result>>
      <4>1. j = k
        BY <2>0, <3>2
      <4> QED BY <3>2, <4>1
    <3> QED BY <1>11, <3>1, <3>2 DEF GenericMove, ShortWrite
  <2>4. Len(out'[s]) = Len(out[s]) + j
    <3>1. Next1To(s, k) \in Seq(Chunk) /\ Len(Next1To(s, k)) = k
      BY <1>t, <2>0, <2>1, NextChunks
    <3>2. SubSeq(Next1To(s, k), 1, j) \in Seq(Chunk) /\ Len(SubSeq(Next1To(s, k), 1, j)) = j
      BY <2>0, <3>1, FrontAndRest
    <3>3. out'[s] = out[s] \o SubSeq(Next1To(s, k), 1, j)
      BY <1>11 DEF GenericMove, BaseType
    <3>4. Len(out[s] \o SubSeq(Next1To(s, k), 1, j)) = Len(out[s]) + Len(SubSeq(Next1To(s, k), 1, j))
      BY <2>0, <3>2, ConcatProperties
    <3> QED BY <3>2, <3>3, <3>4
  <2> QED
    <3>1. Flow(s)
      BY <1>11 DEF FlowInv
    <3>2. /\ taken[s] \in Nat /\ readN[s] \in Nat /\ left[s] \in Nat /\ n[s] \in Nat /\ spliced[s] \in Nat
          /\ counted[s].read \in Nat /\ counted[s].write \in Nat /\ Len(out[s]) \in Nat
      BY <1>11, <1>t
    <3>3. /\ taken[s] = Len(out[s]) /\ counted[s].write = Len(out[s]) /\ counted[s].read = Len(out[s])
          /\ counted[s].write = n[s] + spliced[s] /\ left[s] = 0 /\ readN[s] <= taken[s]
          /\ result[s] = "running"
      BY <2>1, <3>1 DEF Flow
    <3>4. /\ taken'[s] <= Length /\ counted'[s].write = n'[s] + spliced'[s]
          /\ counted'[s].write <= Len(out'[s]) /\ Len(out'[s]) <= taken'[s] /\ counted'[s].read <= taken'[s]
          /\ left'[s] <= readN'[s] /\ readN'[s] <= taken'[s]
      BY <2>0, <2>1, <2>2, <2>4, <3>2, <3>3
    <3>5. CASE pc'[s] = "done" /\ result'[s] = "write error"
      BY <3>4, <3>5 DEF Flow
    <3>6. CASE j = k /\ pc'[s] = pc[s] /\ result'[s] = result[s]
      <4>1. /\ taken'[s] = Len(out'[s]) /\ counted'[s].write = Len(out'[s])
            /\ counted'[s].read = Len(out'[s]) /\ left'[s] = 0
        BY <2>0, <2>1, <2>2, <2>4, <3>2, <3>3, <3>6
      <4>2. pc'[s] = "generic" /\ result'[s] = "running"
        BY <2>1, <3>3, <3>6
      <4> QED BY <3>4, <4>1, <4>2 DEF Flow
    <3> QED BY <2>3, <3>5, <3>6
<1>12. ASSUME NEW s \in Copies, GenericEnd(s) PROVE Flow(s)'
  <2>1. /\ pc[s] = "generic" /\ pc'[s] = "done"
        /\ (result'[s] = "nil" /\ taken[s] = Length) \/ result'[s] = "read error"
        /\ UNCHANGED <<taken, out, holds, readN, left, n, spliced, counted, content>>
    BY <1>12 DEF GenericEnd, End, BaseType
  <2> QED
    <3>1. Flow(s)
      BY <1>12 DEF FlowInv
    <3>2. /\ taken[s] \in Nat /\ readN[s] \in Nat /\ left[s] \in Nat /\ n[s] \in Nat /\ spliced[s] \in Nat
          /\ counted[s].read \in Nat /\ counted[s].write \in Nat /\ Len(out[s]) \in Nat
      BY <1>12, <1>t
    <3> QED BY <3>1, <3>2, <2>1 DEF Flow
<1>13. ASSUME NEW q \in Copies, Untouched(q) PROVE Flow(q)'
  BY <1>13 DEF FlowInv, Flow, Untouched
<1>14. ASSUME NEW s \in Copies, Step(s) PROVE FlowInv'
  <2>1. Flow(s)'
    BY <1>1, <1>2, <1>3, <1>4, <1>5, <1>6, <1>7, <1>8, <1>9, <1>10, <1>11, <1>12, <1>14 DEF Step
  <2>2. \A q \in Copies : q # s => Flow(q)'
    BY <1>13, <1>14, OthersUntouched
  <2> QED BY <2>1, <2>2 DEF FlowInv
<1>15. ASSUME NEW p \in Pipes, Finalize(p) PROVE FlowInv'
  BY <1>13, <1>15, NoneUntouched DEF FlowInv
<1>16. CASE UNCHANGED vars
  BY <1>16 DEF vars, sessionVars, FlowInv, Flow
<1> QED
  BY <1>14, <1>15, <1>16 DEF Next

-----------------------------------------------------------------------------
FlowAndPipes == BaseType /\ PipeExclusive /\ FlowInv

\* The pipes and the counts of copyPure are an inductive invariant: with the pipe of
\* another copy in hand, no count would say what the destination gets.
THEOREM FlowCorrect == Spec => []FlowAndPipes
<1>1. Init => FlowAndPipes
  <2> SUFFICES ASSUME Init PROVE FlowAndPipes
    OBVIOUS
  <2>1. <<>> \in Seq(Chunk) /\ Len(<<>>) = 0
    BY EmptySeq
  <2>2. BaseType
    <3>1. out \in [Copies -> Seq(Chunk)] /\ content \in [Pipes -> Seq(Chunk)]
      BY <2>1 DEF Init
    <3>2. /\ taken \in [Copies -> Nat] /\ readN \in [Copies -> Nat] /\ left \in [Copies -> Nat]
          /\ n \in [Copies -> Nat] /\ spliced \in [Copies -> Nat] /\ counted \in [Copies -> [read : Nat, write : Nat]]
      BY DEF Init
    <3> QED BY <3>1, <3>2 DEF Init, BaseType, Results
  <2>3. PipeExclusive
    BY DEF Init, PipeExclusive, Held
  <2>4. FlowInv
    <3> SUFFICES ASSUME NEW s \in Copies PROVE Flow(s)
      BY DEF FlowInv
    <3>1. /\ taken[s] = 0 /\ n[s] = 0 /\ spliced[s] = 0 /\ left[s] = 0 /\ readN[s] = 0 /\ out[s] = <<>>
          /\ counted[s].read = 0 /\ counted[s].write = 0
          /\ pc[s] = "idle" /\ result[s] = "running"
      BY DEF Init
    <3> QED BY <2>1, <3>1, LengthAssumption DEF Flow
  <2> QED BY <2>2, <2>3, <2>4 DEF FlowAndPipes
<1>2. FlowAndPipes /\ [Next]_vars => FlowAndPipes'
  BY TypeStep, ExclusiveStep, FlowStep DEF FlowAndPipes
<1> QED BY <1>1, <1>2, PTL DEF Spec

\* No pipe is in the pool while a copy uses it, nor used by two copies, and every
\* return of splice has given its pipe back (splice_linux.go, lines 66-81).
THEOREM PipesAreExclusive == Spec => []PipeExclusive
  BY FlowCorrect, PTL DEF FlowAndPipes

\* The counters tell what the destination got, exactly so when no write failed, and n is
\* that but for the chunks of a splice that gave up (splice_linux.go, lines 143-169).
THEOREM CountsAreTrue == Spec => []CountsTrue
<1>1. FlowAndPipes => CountsTrue
  <2> SUFFICES ASSUME BaseType, FlowInv, NEW s \in Copies
               PROVE  /\ counted[s].write = n[s] + spliced[s] /\ counted[s].write <= Len(out[s])
                      /\ result[s] # "write error" /\ pc[s] # "write" =>
                           counted[s].write = Len(out[s]) /\ counted[s].read = Len(out[s])
    BY DEF FlowAndPipes, CountsTrue, Delivered
  <2>1. pc[s] \in {"idle", "read", "write", "generic", "done"}
    BY DEF BaseType
  <2> QED BY <2>1 DEF FlowInv, Flow
<1> QED BY <1>1, FlowCorrect, PTL

\* The types, and the bounds of every count: no copy takes, counts or leaves more than
\* its source has.
THEOREM TypeCorrect == Spec => []TypeOK
<1>1. FlowAndPipes => TypeOK
  <2> SUFFICES ASSUME BaseType, FlowInv PROVE TypeOK
    BY DEF FlowAndPipes
  <2>1. ASSUME NEW s \in Copies
        PROVE  /\ taken[s] \in 0 .. Length /\ readN[s] \in 0 .. Length /\ left[s] \in 0 .. readN[s]
               /\ n[s] \in 0 .. Length /\ spliced[s] \in 0 .. Length
               /\ counted[s] \in [read : 0 .. Length, write : 0 .. Length]
    <3>1. /\ taken[s] \in Nat /\ readN[s] \in Nat /\ left[s] \in Nat /\ n[s] \in Nat /\ spliced[s] \in Nat
          /\ counted[s] \in [read : Nat, write : Nat] /\ out[s] \in Seq(Chunk)
      BY <2>1 DEF BaseType
    <3>2. Len(out[s]) \in Nat
      BY <3>1, LenProperties
    <3>3. /\ taken[s] <= Length /\ counted[s].write = n[s] + spliced[s]
          /\ counted[s].write <= Len(out[s]) /\ Len(out[s]) <= taken[s] /\ counted[s].read <= taken[s]
          /\ left[s] <= readN[s] /\ readN[s] <= taken[s]
      BY <2>1 DEF FlowInv, Flow
    <3>4. /\ taken[s] \in 0 .. Length /\ readN[s] \in 0 .. Length /\ left[s] \in 0 .. readN[s]
          /\ n[s] \in 0 .. Length /\ spliced[s] \in 0 .. Length
      BY <3>1, <3>2, <3>3, LengthAssumption
    <3>5. counted[s].read \in 0 .. Length /\ counted[s].write \in 0 .. Length
      BY <3>1, <3>3, <3>4, LengthAssumption
    <3> QED BY <3>1, <3>4, <3>5
  <2>2. /\ taken \in [Copies -> 0 .. Length] /\ readN \in [Copies -> 0 .. Length]
        /\ n \in [Copies -> 0 .. Length] /\ spliced \in [Copies -> 0 .. Length]
        /\ counted \in [Copies -> [read : 0 .. Length, write : 0 .. Length]]
    <3>1. /\ taken \in [Copies -> Nat] /\ readN \in [Copies -> Nat] /\ n \in [Copies -> Nat]
          /\ spliced \in [Copies -> Nat] /\ counted \in [Copies -> [read : Nat, write : Nat]]
      BY DEF BaseType
    <3> QED BY <2>1, <3>1
  <2> QED BY <2>1, <2>2 DEF BaseType, TypeOK, Chunk
<1> QED BY <1>1, FlowCorrect, PTL
-----------------------------------------------------------------------------
NoWriteFailed == \A s \in Copies : result[s] # "write error"

\* What a copy has of its own source, in each of its states.
Exact(s) ==
  /\ out[s] = SubSeq(Source(s), 1, Len(out[s]))
  /\ pc[s] = "read" => content[holds[s]] = <<>>
  /\ pc[s] = "write" => content[holds[s]] = SubSeq(Source(s), Len(out[s]) + 1, taken[s])

ExactInv == NoWriteFailed => (\A s \in Copies : Exact(s)) /\ PooledPipesEmpty

\* Parts of a source that follow one another.
LEMMA Adjacent ==
  ASSUME NEW s \in Copies, NEW i \in Nat, NEW j \in Nat, NEW k \in Nat, 1 <= i, i <= j + 1, j <= k, k <= Length
  PROVE  SubSeq(Source(s), i, j) \o SubSeq(Source(s), j + 1, k) = SubSeq(Source(s), i, k)
<1>1. Source(s) \in Seq(Chunk) /\ Len(Source(s)) = Length
  BY LengthAssumption, IsASeq DEF Source, Chunk
<1>2. i \in 1 .. Len(Source(s)) + 1 /\ j \in i - 1 .. Len(Source(s)) /\ k \in j .. Len(Source(s))
  BY <1>1, LengthAssumption
<1> QED BY <1>1, <1>2, ConcatAdjacentSubSeq
\* A part of a source, split after its first k chunks.
LEMMA SplitPart ==
  ASSUME NEW s \in Copies, NEW i \in Nat, NEW j \in Nat, NEW k \in Nat, 1 <= k, i + k <= j, j <= Length,
         NEW q, q = SubSeq(Source(s), i + 1, j)
  PROVE  /\ SubSeq(q, 1, k) = SubSeq(Source(s), i + 1, i + k)
         /\ SubSeq(q, k + 1, Len(q)) = SubSeq(Source(s), i + k + 1, j)
<1>1. Source(s) \in Seq(Chunk) /\ Len(Source(s)) = Length /\ \A x \in 1 .. Length : Source(s)[x] \in Chunk
  BY LengthAssumption, IsASeq DEF Source, Chunk
<1> DEFINE S == Source(s)
<1> HIDE DEF S
<1>2. /\ i + 1 \in 1 .. Len(S) /\ j \in 1 .. Len(S) /\ i + 1 \in Int /\ j \in Int
      /\ 1 \in 1 .. j - (i + 1) + 1 /\ k \in 1 .. j - (i + 1) + 1
  BY <1>1, LengthAssumption DEF S
<1>3. Len(q) = j - i
  <2>1. \A x \in i + 1 .. j : S[x] \in Chunk
    BY <1>1, <1>2 DEF S
  <2>2. Len(SubSeq(S, i + 1, j)) = IF i + 1 <= j THEN j - (i + 1) + 1 ELSE 0
    BY <1>2, <2>1, SubSeqProperties
  <2> QED BY <1>2, <2>2 DEF S
<1>4. SubSeq(q, 1, k) = SubSeq(S, (i + 1) + 1 - 1, (i + 1) + k - 1)
  BY <1>1, <1>2, SubSeqOfSubSeq DEF S
<1>5. (i + 1) + 1 - 1 = i + 1 /\ (i + 1) + k - 1 = i + k
  OBVIOUS
<1>6. SubSeq(q, k + 1, Len(q)) = SubSeq(S, i + k + 1, j)
  <2>1. CASE i + k = j
    <3>1. k + 1 \in Int /\ Len(q) \in Int /\ Len(q) < k + 1 /\ i + k + 1 \in Int /\ j \in Int /\ j < i + k + 1
      BY <1>3, <2>1
    <3> QED BY <3>1, SubSeqEmpty
  <2>2. CASE i + k < j
    <3>1. k + 1 \in 1 .. j - (i + 1) + 1 /\ j - i \in 1 .. j - (i + 1) + 1
      BY <2>2
    <3>2. SubSeq(q, k + 1, j - i) = SubSeq(S, (i + 1) + (k + 1) - 1, (i + 1) + (j - i) - 1)
      BY <1>1, <1>2, <3>1, SubSeqOfSubSeq DEF S
    <3>3. (i + 1) + (k + 1) - 1 = i + k + 1 /\ (i + 1) + (j - i) - 1 = j
      OBVIOUS
    <3> QED BY <1>3, <3>2, <3>3
  <2> QED BY <2>1, <2>2
<1> QED BY <1>4, <1>5, <1>6 DEF S
\* A failed write is for ever: the copy it ended takes no other step.
LEMMA FailuresStay ==
  ASSUME BaseType, PipeExclusive, FlowInv, [Next]_vars, NoWriteFailed'
  PROVE  NoWriteFailed
<1>1. ASSUME NEW s \in Copies, Step(s) PROVE pc[s] # "done"
  BY <1>1 DEF Step, StartGeneric, StartWithoutPipe, StartSplice, ReadEnd, ReadFails, ReadUnsupported,
              ReadChunks, WriteChunks, WriteFails, Account, GenericMove, GenericEnd
<1>2. ASSUME NEW s \in Copies, Step(s) PROVE NoWriteFailed
  <2>1. result[s] = "running"
    BY <1>1, <1>2 DEF FlowInv, Flow
  <2>2. \A q \in Copies : q # s => result'[q] = result[q]
    BY <1>2, OthersUntouched DEF Untouched
  <2> QED BY <2>1, <2>2 DEF NoWriteFailed
<1>3. CASE (\E p \in Pipes : Finalize(p)) \/ UNCHANGED vars
  BY <1>3 DEF Finalize, vars, sessionVars, NoWriteFailed
<1> QED BY <1>2, <1>3 DEF Next

\* Splice fills a pipe that is empty and empties it again, so that what a copy finds in a
\* pipe is its own; the generic copy needs no pipe.
LEMMA ExactStep ==
  ASSUME BaseType, PipeExclusive, FlowInv, ExactInv, [Next]_vars
  PROVE  ExactInv'
<1> SUFFICES ASSUME NoWriteFailed'
             PROVE  (\A s \in Copies : Exact(s)') /\ PooledPipesEmpty'
  BY DEF ExactInv
<1>1. NoWriteFailed /\ (\A s \in Copies : Exact(s)) /\ PooledPipesEmpty
  BY FailuresStay DEF ExactInv
<1>2. ASSUME NEW q \in Copies, Untouched(q) PROVE Exact(q)'
  BY <1>1, <1>2 DEF Exact, Untouched, Source
<1>3. ASSUME NEW s \in Copies, Step(s), Exact(s)' PROVE \A q \in Copies : Exact(q)'
  BY <1>2, <1>3, OthersUntouched
<1>4. ASSUME NEW s \in Copies, StartGeneric(s) \/ StartWithoutPipe(s) \/ GenericEnd(s)
      PROVE  Exact(s)' /\ PooledPipesEmpty'
  <2>1. UNCHANGED <<taken, out, content, pooled>> /\ pc'[s] \in {"generic", "done"}
    BY <1>4 DEF StartGeneric, StartWithoutPipe, GenericEnd, End, BaseType
  <2> QED BY <1>1, <2>1 DEF Exact, Source, PooledPipesEmpty
<1>5. ASSUME NEW s \in Copies, NEW p \in Pipes, StartSplice(s, p) PROVE Exact(s)' /\ PooledPipesEmpty'
  <2>1. content' = [content EXCEPT ![p] = <<>>]
    BY <1>1, <1>5 DEF StartSplice, Acquire, PooledPipesEmpty, BaseType
  <2>2. /\ UNCHANGED <<taken, out>> /\ pc'[s] = "read" /\ holds'[s] = p /\ pooled' \subseteq pooled
    BY <1>5 DEF StartSplice, Acquire, PoolWithout, BaseType
  <2>3. content'[p] = <<>> /\ \A q \in pooled : content'[q] = <<>>
    BY <1>1, <2>1 DEF PooledPipesEmpty, BaseType
  <2> QED BY <1>1, <2>2, <2>3 DEF Exact, Source, PooledPipesEmpty
<1>6. ASSUME NEW s \in Copies, ReadEnd(s) \/ ReadFails(s) \/ ReadUnsupported(s)
      PROVE  Exact(s)' /\ PooledPipesEmpty'
  <2>1. pc[s] = "read" /\ pc'[s] \in {"generic", "done"} /\ UNCHANGED <<taken, out>> /\ PutPipe(s)
    BY <1>6 DEF ReadEnd, ReadFails, ReadUnsupported, End, BaseType
  <2>2. content' = content /\ pooled' \subseteq pooled \cup {holds[s]} /\ content[holds[s]] = <<>>
    BY <1>1, <2>1 DEF PutPipe, Exact
  <2> QED BY <1>1, <2>1, <2>2 DEF Exact, Source, PooledPipesEmpty
<1>7. ASSUME NEW s \in Copies, WriteFails(s) PROVE FALSE
  BY <1>7 DEF WriteFails, End, BaseType, NoWriteFailed
<1>8. ASSUME NEW s \in Copies, NEW k \in 1 .. Length, ReadChunks(s, k) PROVE Exact(s)' /\ PooledPipesEmpty'
  <2>1. /\ pc[s] = "read" /\ pc'[s] = "write" /\ taken'[s] = taken[s] + k
        /\ UNCHANGED <<out, holds, pooled>> /\ taken[s] = Len(out[s]) /\ holds[s] \in Pipes
    <3>1. pc[s] = "read"
      BY <1>8 DEF ReadChunks
    <3>2. taken[s] = Len(out[s])
      BY <3>1 DEF FlowInv, Flow
    <3>3. holds[s] \in Pipes
      BY <3>1 DEF PipeExclusive, BaseType
    <3> QED BY <1>8, <3>1, <3>2, <3>3 DEF ReadChunks, BaseType
  <2>2. content'[holds[s]] = Next1To(s, k)
    <3>1. content'[holds[s]] = <<>> \o Next1To(s, k)
      BY <1>1, <1>8, <2>1 DEF ReadChunks, Exact, BaseType
    <3>2. Next1To(s, k) \in Seq(Chunk)
      BY <1>8, LengthAssumption, NextChunks DEF ReadChunks, BaseType
    <3> QED BY <3>1, <3>2, ConcatEmptySeq
  <2>3. PooledPipesEmpty'
    <3>1. \A p \in pooled : p \in Pipes /\ p # holds[s]
      BY DEF PipeExclusive, Held, BaseType
    <3> QED BY <1>1, <1>8, <2>1, <3>1 DEF ReadChunks, PooledPipesEmpty, BaseType
  <2> QED BY <1>1, <2>1, <2>2, <2>3 DEF Exact, Next1To, Source
<1>9. ASSUME NEW s \in Copies, NEW k \in 1 .. Length, WriteChunks(s, k) PROVE Exact(s)' /\ PooledPipesEmpty'
  <2> DEFINE o == Len(out[s])
             c == content[holds[s]]
             j == taken[s]
  <2>1. /\ pc[s] = "write" /\ pc'[s] = "write" /\ UNCHANGED <<taken, holds, pooled>> /\ holds[s] \in Pipes
        /\ k <= left[s] /\ o + left[s] = j /\ j <= Length
    <3>1. pc[s] = "write"
      BY <1>9 DEF WriteChunks
    <3>2. o + left[s] = j /\ j <= Length
      BY <3>1 DEF FlowInv, Flow
    <3>3. holds[s] \in Pipes
      BY <3>1 DEF PipeExclusive, BaseType
    <3> QED BY <1>9, <3>1, <3>2, <3>3 DEF WriteChunks
  <2>2. out'[s] = out[s] \o SubSeq(c, 1, k) /\ content'[holds[s]] = SubSeq(c, k + 1, Len(c))
    BY <1>9, <2>1 DEF WriteChunks, BaseType
  <2>3. out[s] = SubSeq(Source(s), 1, o) /\ c = SubSeq(Source(s), o + 1, j)
    BY <1>1, <2>1 DEF Exact
  <2>4. o \in Nat /\ j \in Nat /\ k \in Nat /\ 1 <= k /\ left[s] \in Nat /\ out[s] \in Seq(Chunk)
    <3>1. out[s] \in Seq(Chunk) /\ taken[s] \in Nat /\ left[s] \in Nat
      BY DEF BaseType
    <3>2. k \in Nat /\ 1 <= k
      BY <1>9, LengthAssumption
    <3> QED BY <3>1, <3>2, LenProperties
  <2>5. /\ SubSeq(c, 1, k) = SubSeq(Source(s), o + 1, o + k)
        /\ SubSeq(c, k + 1, Len(c)) = SubSeq(Source(s), o + k + 1, j)
    <3>1. o + k <= j
      <4> HIDE DEF o, j
      <4> QED BY <2>1, <2>4
    <3>2. c = SubSeq(Source(s), o + 1, j) /\ 1 <= k /\ j <= Length /\ o \in Nat /\ j \in Nat /\ k \in Nat
      BY <2>1, <2>3, <2>4
    <3> HIDE DEF o, j, c
    <3> QED BY <3>1, <3>2, SplitPart
  <2>6. out'[s] = SubSeq(Source(s), 1, o + k)
    <3>1. 1 \in Nat /\ 1 <= 1 /\ o + k \in Nat /\ 1 <= o + 1 /\ o <= o + k /\ o + k <= Length
      <4> HIDE DEF o, j
      <4> QED BY <2>1, <2>4, LengthAssumption
    <3> HIDE DEF o, j, c
    <3>2. SubSeq(Source(s), 1, o) \o SubSeq(Source(s), o + 1, o + k) = SubSeq(Source(s), 1, o + k)
      BY <2>4, <3>1, Adjacent
    <3> QED BY <2>2, <2>3, <2>5, <3>2
  <2>7. Len(out'[s]) = o + k
    <3> HIDE DEF c
    <3>1. k \in 0 .. Len(c) /\ c \in Seq(Chunk)
      <4>1. left[s] <= Len(c) /\ c \in Seq(Chunk)
        BY <2>1 DEF FlowInv, Flow, BaseType, c
      <4>2. Len(c) \in Nat
        BY <4>1, LenProperties
      <4> QED BY <2>1, <2>4, <4>1, <4>2
    <3>2. SubSeq(c, 1, k) \in Seq(Chunk) /\ Len(SubSeq(c, 1, k)) = k
      BY <3>1, FrontAndRest
    <3> QED BY <2>2, <2>4, <3>2, ConcatProperties
  <2>8. PooledPipesEmpty'
    <3>1. \A p \in pooled : p \in Pipes /\ p # holds[s]
      BY DEF PipeExclusive, Held, BaseType
    <3> QED BY <1>1, <1>9, <2>1, <3>1 DEF WriteChunks, PooledPipesEmpty, BaseType
  <2>9. Exact(s)'
    <3>1. Source(s)' = Source(s) /\ taken'[s] = j
      BY <2>1 DEF Source
    <3> HIDE DEF o, j, c
    <3> QED BY <2>1, <2>2, <2>5, <2>6, <2>7, <3>1 DEF Exact
  <2> QED BY <2>8, <2>9
<1>10. ASSUME NEW s \in Copies, Account(s) PROVE Exact(s)' /\ PooledPipesEmpty'
  <2>1. /\ pc[s] = "write" /\ left[s] = 0 /\ pc'[s] = "read"
        /\ UNCHANGED <<taken, out, holds, content, pooled>>
    BY <1>10 DEF Account, Written, RoundAgain, BaseType
  <2>2. content[holds[s]] = SubSeq(Source(s), Len(out[s]) + 1, taken[s])
    BY <1>1, <2>1 DEF Exact
  <2>3. Len(out[s]) = taken[s] /\ taken[s] \in Int
    <3>1. Len(out[s]) + left[s] = taken[s]
      BY <2>1 DEF FlowInv, Flow
    <3>2. out[s] \in Seq(Chunk) /\ taken[s] \in Nat
      BY DEF BaseType
    <3>3. Len(out[s]) \in Nat
      BY <3>2, LenProperties
    <3> QED BY <2>1, <3>1, <3>2, <3>3
  <2>4. content[holds[s]] = <<>>
    <3>1. Len(out[s]) + 1 \in Int /\ taken[s] < Len(out[s]) + 1
      BY <2>3
    <3> QED BY <2>2, <2>3, <3>1, SubSeqEmpty
  <2> QED BY <1>1, <2>1, <2>4 DEF Exact, Source, PooledPipesEmpty
<1>11. ASSUME NEW s \in Copies, NEW k \in 1 .. Length, NEW j \in 0 .. k, GenericMove(s, k, j)
       PROVE  Exact(s)' /\ PooledPipesEmpty'
  <2> DEFINE o == Len(out[s])
  <2>1. /\ pc[s] = "generic" /\ taken[s] = o /\ o + k <= Length
        /\ out'[s] = out[s] \o SubSeq(Next1To(s, k), 1, j)
        /\ UNCHANGED <<content, pooled>>
    BY <1>11 DEF GenericMove, FlowInv, Flow, BaseType
  <2>2. j = k /\ pc'[s] = "generic" /\ k \in Nat
    <3>1. k \in Nat /\ j \in Nat /\ j <= k
      BY <1>11, LengthAssumption
    <3>2. ~End(s, "write error")
      BY <1>11 DEF End, NoWriteFailed, BaseType
    <3>3. ~(j < k) /\ pc' = pc
      BY <1>11, <3>2 DEF GenericMove, ShortWrite
    <3>4. j = k
      BY <3>1, <3>3
    <3> QED BY <2>1, <3>1, <3>3, <3>4
  <2>3. o \in Nat /\ out[s] \in Seq(Chunk)
    BY LenProperties DEF BaseType
  <2>4. Next1To(s, k) \in Seq(Chunk) /\ Len(Next1To(s, k)) = k
    BY <2>1, <2>2, <2>3, NextChunks
  <2>5. SubSeq(Next1To(s, k), 1, j) = Next1To(s, k)
    BY <2>2, <2>4, SubSeqFull
  <2>6. out'[s] = SubSeq(Source(s), 1, o + k)
    <3>1. 1 \in Nat /\ 1 <= 1 /\ o + k \in Nat /\ 1 <= o + 1 /\ o <= o + k /\ o + k <= Length
      <4> HIDE DEF o
      <4> QED BY <2>1, <2>2, <2>3
    <3>2. out[s] = SubSeq(Source(s), 1, o) /\ Next1To(s, k) = SubSeq(Source(s), o + 1, o + k)
      BY <1>1, <2>1 DEF Exact, Next1To
    <3> HIDE DEF o
    <3>3. SubSeq(Source(s), 1, o) \o SubSeq(Source(s), o + 1, o + k) = SubSeq(Source(s), 1, o + k)
      BY <2>3, <3>1, Adjacent
    <3> QED BY <2>1, <2>5, <3>2, <3>3
  <2>7. Len(out'[s]) = o + k
    <3>1. Len(out[s] \o Next1To(s, k)) = Len(out[s]) + Len(Next1To(s, k))
      BY <2>3, <2>4, ConcatProperties
    <3> QED BY <2>1, <2>4, <2>5, <3>1
  <2> QED BY <1>1, <2>1, <2>2, <2>6, <2>7 DEF Exact, Source, PooledPipesEmpty
<1>12. ASSUME NEW p \in Pipes, Finalize(p) PROVE (\A q \in Copies : Exact(q)') /\ PooledPipesEmpty'
  <2>1. \A q \in Copies : Exact(q)'
    BY <1>2, <1>12, NoneUntouched
  <2>2. pooled' = pooled \ {p} /\ content' = [content EXCEPT ![p] = <<>>]
    BY <1>12 DEF Finalize
  <2> QED BY <1>1, <2>1, <2>2 DEF PooledPipesEmpty, BaseType
<1>13. CASE UNCHANGED vars
  BY <1>1, <1>13 DEF vars, sessionVars, Exact, Source, PooledPipesEmpty
<1>14. ASSUME NEW s \in Copies, Step(s) PROVE Exact(s)' /\ PooledPipesEmpty'
  BY <1>4, <1>5, <1>6, <1>7, <1>8, <1>9, <1>10, <1>11, <1>14 DEF Step
<1> QED
  BY <1>3, <1>12, <1>13, <1>14 DEF Next
\* Every copy is exact and every pooled pipe is empty for as long as no write has failed
\* (splice_linux.go, lines 66-81 and 138-170).
THEOREM ExactCorrect == Spec => []ExactInv
<1>1. Init => ExactInv
  <2> SUFFICES ASSUME Init, NEW s \in Copies PROVE Exact(s)
    BY DEF Init, ExactInv, PooledPipesEmpty
  <2>1. out[s] = <<>> /\ Len(out[s]) = 0 /\ pc[s] = "idle"
    BY DEF Init
  <2>2. 1 \in Int /\ 0 \in Int /\ 0 < 1
    OBVIOUS
  <2>3. SubSeq(Source(s), 1, 0) = <<>>
    BY <2>2, SubSeqEmpty
  <2> QED BY <2>1, <2>3 DEF Exact
<1>2. FlowAndPipes /\ ExactInv /\ [Next]_vars => ExactInv'
  BY ExactStep DEF FlowAndPipes
<1> QED BY <1>1, <1>2, FlowCorrect, PTL DEF Spec

\* A copy delivers its own chunks in order, and returns nil with all of them delivered,
\* whichever copies used the pipes before, while no write has failed.
THEOREM CopiesAreExact == Spec => []CleanCopyExact
<1>1. FlowAndPipes /\ ExactInv => CleanCopyExact
  <2> SUFFICES ASSUME BaseType, FlowInv, ExactInv, NoWriteFailed, NEW s \in Copies
               PROVE  IsPrefix(out[s], Source(s)) /\ (result[s] = "nil" => out[s] = Source(s))
    BY DEF FlowAndPipes, CleanCopyExact, NoWriteFailed
  <2>1. out[s] = SubSeq(Source(s), 1, Len(out[s]))
    BY DEF ExactInv, Exact
  <2>2. out[s] \in Seq(Chunk) /\ Len(out[s]) \in Nat
    BY LenProperties DEF BaseType
  <2>3. Source(s) \in Seq(Chunk) /\ Len(Source(s)) = Length
    BY LengthAssumption, IsASeq DEF Source, Chunk
  <2>4. Len(out[s]) <= Length
    <3>1. Len(out[s]) <= taken[s] /\ taken[s] <= Length /\ taken[s] \in Nat
      BY DEF FlowInv, Flow, BaseType
    <3> QED BY <2>2, <3>1, LengthAssumption
  <2>5. SubSeq(out[s], 1, Len(out[s])) = out[s]
    BY <2>2, SubSeqFull
  <2>6. IsPrefix(out[s], Source(s))
    BY <2>1, <2>3, <2>4, <2>5 DEF IsPrefix
  <2>7. ASSUME result[s] = "nil" PROVE out[s] = Source(s)
    <3>1. Len(out[s]) = Len(Source(s))
      BY <2>3, <2>7 DEF FlowInv, Flow
    <3>2. SubSeq(Source(s), 1, Len(Source(s))) = Source(s)
      BY <2>3, SubSeqFull
    <3> QED BY <2>1, <3>1, <3>2
  <2> QED BY <2>6, <2>7
<1> QED BY <1>1, FlowCorrect, ExactCorrect, PTL
================================================================================
