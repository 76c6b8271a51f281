--------------------------- MODULE ConsoleLogProofs ---------------------------
(***************************************************************************)
(* The safety properties of BufWriter, for every number of writers, every  *)
(* capacity and every stream, and those of ConsoleLog, which writes its    *)
(* records through BufWriters, for every number of goroutines, of          *)
(* metadata, of records and their pieces.                                  *)
(*                                                                         *)
(* First the writers.  StreamKept and AnswerIsTrue hold because of what    *)
(* Control says: when the buffer is empty behind its read cursor in the    *)
(* middle of a call, which calls count in n, and when ErrShortBuffer can   *)
(* appear.  The lemmas are about one call of a writer, so that they serve  *)
(* for the calls that a handler makes too.                                 *)
(*                                                                         *)
(* Then the log.  The operators of ConsoleLog are folds over sequences: a  *)
(* section shows that the recursive functions these are made of exist and  *)
(* what one of their steps does; what a fold answers follows by a least    *)
(* element.  LogInv has four parts: the writers (Inv), what a handler      *)
(* shows of the metadata it was given (MetaInv), the numbers of anonymous  *)
(* keys (KeyInv) and how much of a record has been said and where it is    *)
(* (RecordInv).                                                            *)
(***************************************************************************)
EXTENDS ConsoleLog, SequenceTheorems, FiniteSetTheorems, TLAPS

-----------------------------------------------------------------------------
\* A writer.

\* What the place of a call says about its writer.
Control(w) ==
  /\ pc[w] = "idle" => n[w] = 0
  /\ n[w] # 0 => op[w].name = "ReadFrom" /\ ~sink.readsFrom
  /\ pc[w] # "idle" => ~freed[w]
  /\ freed[w] => data[w] = <<>>
  /\ ~freed[w] => lost[w] = <<>>
  /\ pc[w] \in {"flushed", "read"} => r[w] = Len(data[w])
  /\ pc[w] = "direct" => op[w].name \notin {"Flush", "ReadFrom"}
  /\ pc[w] = "direct" => op[w].name = "UnderlayWriter" \/ r[w] = Len(data[w])
  /\ pc[w] = "read" => op[w].name = "ReadFrom"
  /\ op[w].name = "WriteByte" => op[w].len = 1
  /\ op[w].readErr = "short" => op[w].name = "ReadFrom"
  /\ pc[w] # "idle" /\ op[w].readErr = "short" => pc[w] = "flushed" /\ jammed[w]

\* StreamKept and AnswerIsTrue for one writer.
Stream(w) == ~passed[w] => out[w] \o Pending(w) \o lost[w] = Units(1, Offered(w))
Answer(w) ==
  /\ pc[w] = "idle" /\ answer[w] = "nil" /\ op[w].name \in {"Flush", "ReadFrom"}
       => Pending(w) = <<>>
  /\ pc[w] = "idle" /\ answer[w] = "short" => jammed[w]
  /\ r[w] = Len(data[w]) /\ r[w] > 0 => jammed[w]

Kept(w) == Control(w) /\ Stream(w) /\ Answer(w)

Inv == TypeOK /\ \A w \in Writers : Kept(w)

\* What a step of one writer leaves to the others.
Same(q) ==
  /\ data'[q] = data[q] /\ r'[q] = r[q] /\ jammed'[q] = jammed[q]
  /\ pc'[q] = pc[q] /\ op'[q] = op[q] /\ n'[q] = n[q] /\ said'[q] = said[q] /\ answer'[q] = answer[q]
  /\ out'[q] = out[q] /\ lost'[q] = lost[q] /\ freed'[q] = freed[q] /\ passed'[q] = passed[q]
  /\ sink' = sink

-----------------------------------------------------------------------------

\* A stretch of the stream is a sequence of its length.
LEMMA UnitsType ==
  ASSUME NEW f \in Nat, NEW c \in Nat
  PROVE  /\ Units(f, c) \in Seq(Nat)
         /\ Len(Units(f, c)) = c
         /\ \A j \in 1 .. c : Units(f, c)[j] = f + j - 1
<1>1. Units(f, c) \in [1 .. c -> Nat]
  BY DEF Units
<1>2. Units(f, c) \in Seq(Nat) /\ Len(Units(f, c)) = c
  BY <1>1, SeqDef
<1> QED BY <1>2 DEF Units

\* Two stretches that follow each other are one.
LEMMA UnitsConcat ==
  ASSUME NEW f \in Nat, NEW c \in Nat, NEW d \in Nat
  PROVE  Units(f, c) \o Units(f + c, d) = Units(f, c + d)
<1> DEFINE s == Units(f, c)
           t == Units(f + c, d)
           u == Units(f, c + d)
<1>1. /\ s \in Seq(Nat) /\ Len(s) = c /\ \A j \in 1 .. c : s[j] = f + j - 1
      /\ t \in Seq(Nat) /\ Len(t) = d /\ \A j \in 1 .. d : t[j] = f + c + j - 1
      /\ u \in Seq(Nat) /\ Len(u) = c + d /\ \A j \in 1 .. c + d : u[j] = f + j - 1
  BY UnitsType
<1> HIDE DEF s, t, u
<1>2. /\ s \o t \in Seq(Nat) /\ Len(s \o t) = c + d
      /\ \A i \in 1 .. c + d : (s \o t)[i] = IF i <= c THEN s[i] ELSE t[i - c]
  BY <1>1, ConcatProperties
<1>3. \A i \in 1 .. c + d : (s \o t)[i] = u[i]
  <2> SUFFICES ASSUME NEW i \in 1 .. c + d PROVE (s \o t)[i] = u[i]
    OBVIOUS
  <2>1. CASE i <= c
    BY <2>1, <1>1, <1>2
  <2>2. CASE ~(i <= c)
    <3>1. i - c \in 1 .. d
      BY <2>2
    <3>2. t[i - c] = f + i - 1
      BY <3>1, <1>1
    <3> QED BY <3>2, <2>2, <1>1, <1>2
  <2> QED BY <2>1, <2>2
<1>4. s \o t = u
  BY <1>1, <1>2, <1>3, SeqEqual
<1> QED BY <1>4 DEF s, t, u

\* What is between the cursors, and what a write of a part of it or a store leaves.
LEMMA PendingType ==
  ASSUME NEW d \in Seq(Nat), NEW i \in 0 .. Len(d)
  PROVE  /\ SubSeq(d, i + 1, Len(d)) \in Seq(Nat)
         /\ Len(SubSeq(d, i + 1, Len(d))) = Len(d) - i
         /\ SubSeq(d, i + 1, Len(d)) = <<>> <=> i = Len(d)
<1> DEFINE L == Len(d)
<1>1. L \in Nat /\ \A j \in i + 1 .. L : d[j] \in Nat
  BY ElementOfSeq, LenProperties
<1>2. /\ SubSeq(d, i + 1, L) \in Seq(Nat)
      /\ Len(SubSeq(d, i + 1, L)) = IF i + 1 <= L THEN L - (i + 1) + 1 ELSE 0
  <2> HIDE DEF L
  <2> QED BY <1>1, SubSeqProperties DEF L
<1>3. Len(SubSeq(d, i + 1, L)) = L - i
  BY <1>1, <1>2
<1> DEFINE p == SubSeq(d, i + 1, L)
<1>4. p = <<>> <=> Len(p) = 0
  <2>1. p \in Seq(Nat)
    BY <1>2
  <2> HIDE DEF p
  <2> QED BY <2>1, EmptySeq
<1> QED BY <1>1, <1>2, <1>3, <1>4

LEMMA PendingStore ==
  ASSUME NEW d \in Seq(Nat), NEW u \in Seq(Nat), NEW i \in 0 .. Len(d)
  PROVE  /\ d \o u \in Seq(Nat)
         /\ Len(d \o u) = Len(d) + Len(u)
         /\ SubSeq(d \o u, i + 1, Len(d \o u)) = SubSeq(d, i + 1, Len(d)) \o u
<1> DEFINE e == d \o u
           L == Len(d)
           M == Len(u)
           p == SubSeq(d, i + 1, L)
           q == SubSeq(e, i + 1, L + M)
<1>1. L \in Nat /\ M \in Nat /\ i \in 0 .. L
  BY LenProperties
<1>2. e \in Seq(Nat) /\ Len(e) = L + M /\ \A j \in 1 .. L + M : e[j] = IF j <= L THEN d[j] ELSE u[j - L]
  BY ConcatProperties
<1>3. /\ p \in Seq(Nat) /\ Len(p) = L - i
      /\ \A j \in 1 .. L - i : p[j] = d[i + j]
  <2>1. p \in Seq(Nat) /\ Len(p) = L - i
    BY PendingType
  <2>2. \A j \in i + 1 .. L : d[j] \in Nat
    BY ElementOfSeq
  <2>3. \A j \in 1 .. L - (i + 1) + 1 : p[j] = d[i + 1 + j - 1]
    <3> HIDE DEF L
    <3> QED BY <1>1, <2>2, SubSeqProperties
  <2>4. ASSUME NEW j \in 1 .. L - i PROVE p[j] = d[i + j]
    <3> HIDE DEF p, L
    <3>1. j \in 1 .. L - (i + 1) + 1 /\ i + 1 + j - 1 = i + j
      BY <1>1
    <3> QED BY <3>1, <2>3
  <2> QED BY <2>1, <2>4
<1>4. /\ q \in Seq(Nat) /\ Len(q) = L + M - i
      /\ \A j \in 1 .. L + M - i : q[j] = e[i + j]
  <2>1. \A j \in i + 1 .. L + M : e[j] \in Nat
    BY <1>1, <1>2, ElementOfSeq
  <2> HIDE DEF L, M, e
  <2>2. /\ q \in Seq(Nat)
        /\ Len(q) = IF i + 1 <= L + M THEN L + M - (i + 1) + 1 ELSE 0
        /\ \A j \in 1 .. L + M - (i + 1) + 1 : q[j] = e[i + 1 + j - 1]
    BY <1>1, <2>1, SubSeqProperties
  <2> HIDE DEF q
  <2>3. ASSUME NEW j \in 1 .. L + M - i PROVE q[j] = e[i + j]
    <3>1. j \in 1 .. L + M - (i + 1) + 1 /\ i + 1 + j - 1 = i + j
      BY <1>1
    <3> QED BY <3>1, <2>2
  <2> QED BY <2>2, <2>3, <1>1
<1>5. /\ p \o u \in Seq(Nat) /\ Len(p \o u) = L - i + M
      /\ \A j \in 1 .. L - i + M : (p \o u)[j] = IF j <= L - i THEN p[j] ELSE u[j - (L - i)]
  <2>1. p \in Seq(Nat) /\ Len(p) = L - i /\ Len(u) = M
    BY <1>3
  <2> HIDE DEF p, L, M
  <2>2. /\ p \o u \in Seq(Nat) /\ Len(p \o u) = Len(p) + Len(u)
        /\ \A j \in 1 .. Len(p) + Len(u) : (p \o u)[j] = IF j <= Len(p) THEN p[j] ELSE u[j - Len(p)]
    BY <2>1, ConcatProperties
  <2> QED BY <2>1, <2>2
<1>6. q = p \o u
  <2> HIDE DEF p, q, e, L, M
  <2>1. ASSUME NEW j \in 1 .. L + M - i PROVE q[j] = (p \o u)[j]
    <3>1. q[j] = e[i + j] /\ i + j \in 1 .. L + M /\ j \in 1 .. L - i + M
      BY <1>1, <1>4
    <3>2. CASE j <= L - i
      <4>1. (p \o u)[j] = p[j] /\ p[j] = d[i + j] /\ i + j <= L
        BY <3>1, <3>2, <1>1, <1>3, <1>5
      <4> QED BY <3>1, <4>1, <1>2
    <3>3. CASE ~(j <= L - i)
      <4>1. (p \o u)[j] = u[j - (L - i)] /\ ~(i + j <= L) /\ i + j - L = j - (L - i)
        BY <3>1, <3>3, <1>1, <1>5
      <4>2. e[i + j] = u[(i + j) - L]
        BY <3>1, <4>1, <1>2
      <4>3. (i + j) - L = j - (L - i)
        BY <1>1
      <4> QED BY <3>1, <4>1, <4>2, <4>3
    <3> QED BY <3>2, <3>3
  <2>2. Len(q) = Len(p \o u) /\ L + M - i = L - i + M
    BY <1>1, <1>4, <1>5
  <2> QED BY <2>1, <2>2, <1>4, <1>5, SeqEqual
<1> QED BY <1>2, <1>6

-----------------------------------------------------------------------------
USE SizeAssumption, BoundsAssumption DEF Errors, Ops

\* The types of the state of one writer.
LEMMA TypeNow ==
  ASSUME TypeOK, NEW w \in Writers
  PROVE  /\ data[w] \in Seq(Nat) /\ Len(data[w]) \in 0 .. Size /\ r[w] \in 0 .. Len(data[w])
         /\ n[w] \in Nat /\ said[w] \in Nat /\ Offered(w) \in Nat
         /\ out[w] \in Seq(Nat) /\ lost[w] \in Seq(Nat) /\ Size \in Nat
         /\ Pending(w) \in Seq(Nat) /\ Len(Pending(w)) = Len(data[w]) - r[w]
         /\ Pending(w) = <<>> <=> r[w] = Len(data[w])
<1>1. data[w] \in Seq(Nat) /\ r[w] \in 0 .. Size /\ Len(data[w]) <= Size /\ r[w] <= Len(data[w])
  BY DEF TypeOK
<1>2. Len(data[w]) \in 0 .. Size /\ r[w] \in 0 .. Len(data[w])
  BY <1>1, LenProperties
<1>3. /\ Pending(w) \in Seq(Nat) /\ Len(Pending(w)) = Len(data[w]) - r[w]
      /\ Pending(w) = <<>> <=> r[w] = Len(data[w])
  BY <1>1, <1>2, PendingType DEF Pending
<1>4. n[w] \in Nat /\ said[w] \in Nat /\ out[w] \in Seq(Nat) /\ lost[w] \in Seq(Nat)
  BY DEF TypeOK
<1>5. Offered(w) \in Nat
  BY <1>4 DEF Offered
<1> QED BY <1>1, <1>2, <1>3, <1>4, <1>5

LEMMA OthersKeep ==
  ASSUME NEW q \in Writers, Kept(q), Same(q)
  PROVE  Kept(q)'
BY DEF Kept, Same, Control, Stream, Answer, Pending, Offered

\* Units that are stored behind the others extend the stream.
LEMMA StoreKeeps ==
  ASSUME TypeOK, NEW w \in Writers, NEW k \in Nat, Stream(w), lost[w] = <<>>,
         data'[w] = data[w] \o Units(Offered(w) + 1, k),
         r'[w] = r[w], out'[w] = out[w], lost'[w] = lost[w], passed'[w] = passed[w],
         said'[w] + n'[w] = Offered(w) + k
  PROVE  /\ data'[w] \in Seq(Nat) /\ Len(data'[w]) = Len(data[w]) + k
         /\ Stream(w)'
<1> DEFINE f == Offered(w)
           u == Units(f + 1, k)
           d == data[w]
           o == out[w]
           p == Pending(w)
<1>1. /\ d \in Seq(Nat) /\ r[w] \in 0 .. Len(d) /\ o \in Seq(Nat) /\ f \in Nat /\ p \in Seq(Nat)
      /\ p = SubSeq(d, r[w] + 1, Len(d))
  BY TypeNow DEF Pending
<1>2. u \in Seq(Nat) /\ Len(u) = k
  <2>1. f + 1 \in Nat
    BY <1>1
  <2> HIDE DEF f
  <2> QED BY <2>1, UnitsType
<1>3. Offered(w)' = f + k
  BY DEF Offered
<1> HIDE DEF u, d, f, o, p
<1>4. d \o u \in Seq(Nat) /\ Len(d \o u) = Len(d) + k /\ SubSeq(d \o u, r[w] + 1, Len(d \o u)) = p \o u
  <2>1. d \in Seq(Nat) /\ u \in Seq(Nat) /\ r[w] \in 0 .. Len(d)
    BY <1>1, <1>2
  <2>2. /\ d \o u \in Seq(Nat) /\ Len(d \o u) = Len(d) + Len(u)
        /\ SubSeq(d \o u, r[w] + 1, Len(d \o u)) = SubSeq(d, r[w] + 1, Len(d)) \o u
    BY ONLY <2>1, PendingStore
  <2> QED BY ONLY <2>2, <1>1, <1>2
<1>5. data'[w] = d \o u /\ Pending(w)' = p \o u
  BY <1>4 DEF Pending, d, u, f
<1>6. ASSUME ~passed[w] PROVE out'[w] \o Pending(w)' \o lost'[w] = Units(1, f + k)
  <2>1. o \o p = Units(1, f)
    <3>1. o \o p \o <<>> = Units(1, f)
      BY <1>6 DEF Stream, o, p, f
    <3>2. o \o p \in Seq(Nat)
      BY <1>1, ConcatProperties
    <3> QED BY <3>1, <3>2, ConcatEmptySeq
  <2>2. o \o (p \o u) = Units(1, f + k)
    <3>1. (o \o p) \o u = o \o (p \o u)
      <4>1. o \in Seq(Nat) /\ p \in Seq(Nat) /\ u \in Seq(Nat)
        BY <1>1, <1>2
      <4> QED BY ONLY <4>1, ConcatAssociative, SMTT(60)
    <3>2. Units(1, f) \o u = Units(1, f + k)
      <4>1. 1 \in Nat /\ f \in Nat /\ f + 1 = 1 + f
        BY <1>1
      <4>2. Units(1, f) \o Units(1 + f, k) = Units(1, f + k)
        BY <4>1, UnitsConcat
      <4> QED BY <4>1, <4>2 DEF u
    <3> QED BY <3>1, <3>2, <2>1
  <2>3. o \o (p \o u) \in Seq(Nat)
    BY <1>1, <1>2, ConcatProperties
  <2>4. (o \o (p \o u)) \o <<>> = o \o (p \o u)
    BY <2>3, ConcatEmptySeq
  <2> QED BY <2>2, <2>4, <1>5 DEF o
<1> QED BY <1>3, <1>4, <1>5, <1>6 DEF Stream, d

\* Units that go straight to the sink extend the stream when nothing waits before them.
LEMMA PassKeeps ==
  ASSUME TypeOK, NEW w \in Writers, NEW k \in Nat, Stream(w), lost[w] = <<>>,
         out'[w] = out[w] \o Units(Offered(w) + 1, k),
         data'[w] = data[w], r'[w] = r[w], lost'[w] = lost[w],
         ~passed'[w] => ~passed[w] /\ (k = 0 \/ Pending(w) = <<>>),
         said'[w] + n'[w] = Offered(w) + k
  PROVE  out'[w] \in Seq(Nat) /\ Stream(w)'
<1> DEFINE f == Offered(w)
           u == Units(f + 1, k)
           o == out[w]
           p == Pending(w)
<1>1. o \in Seq(Nat) /\ f \in Nat /\ p \in Seq(Nat)
  BY TypeNow
<1>2. u \in Seq(Nat) /\ Len(u) = k
  <2>1. f + 1 \in Nat
    BY <1>1
  <2> HIDE DEF f
  <2> QED BY <2>1, UnitsType
<1>3. Offered(w)' = f + k /\ Pending(w)' = p /\ out'[w] = o \o u
  BY DEF Offered, Pending
<1>4. out'[w] \in Seq(Nat)
  BY <1>1, <1>2, <1>3, ConcatProperties
<1>5. ASSUME ~passed'[w] PROVE out'[w] \o Pending(w)' \o lost'[w] = Units(1, f + k)
  <2>1. ~passed[w] /\ (k = 0 \/ p = <<>>)
    BY <1>5
  <2>2. o \o p \o <<>> = Units(1, f)
    BY <2>1 DEF Stream
  <2> HIDE DEF u, f, o, p
  <2>3. o \o p = Units(1, f)
    <3>1. o \o p \in Seq(Nat)
      BY <1>1, ConcatProperties
    <3> QED BY <2>2, <3>1, ConcatEmptySeq
  <2>4. (o \o u) \o p = Units(1, f + k)
    <3>1. CASE k = 0
      <4>1. u = <<>>
        BY <3>1, <1>2, EmptySeq
      <4> QED BY <3>1, <4>1, <2>3, <1>1, ConcatEmptySeq
    <3>2. CASE p = <<>>
      <4>1. o = Units(1, f)
        BY <3>2, <2>3, <1>1, ConcatEmptySeq
      <4>2. 1 \in Nat /\ f \in Nat /\ k \in Nat /\ f + 1 = 1 + f
        BY <1>1
      <4>3. Units(1, f) \o Units(1 + f, k) = Units(1, f + k)
        BY ONLY <4>2, UnitsConcat
      <4>4. o \o u = Units(1, f + k)
        BY <4>1, <4>2, <4>3 DEF u
      <4>5. o \o u \in Seq(Nat)
        BY <1>1, <1>2, ConcatProperties
      <4> QED BY <3>2, <4>4, <4>5, ConcatEmptySeq
    <3> QED BY <2>1, <3>1, <3>2
  <2>5. (o \o u) \o p \in Seq(Nat)
    BY <1>1, <1>2, ConcatProperties
  <2> QED BY <2>4, <2>5, <1>3, ConcatEmptySeq
<1> QED BY <1>3, <1>4, <1>5 DEF Stream

-----------------------------------------------------------------------------
\* The three ways to go on: store and return, return, or go to another place.

OpType == [name : Ops, len : Nat, readErr : {"nil", "EOF", "read", "short"}]

\* The call in progress, after a step of its writer.
NextOp(w) ==
  /\ op' \in [Writers -> OpType]
  /\ \A q \in Writers \ {w} : op'[q] = op[q]
  /\ op'[w].name = "WriteByte" => op'[w].len = 1
  /\ op'[w].readErr = "short" => op'[w].name = "ReadFrom"

LEMMA AcceptStep ==
  ASSUME Inv, NEW w \in Writers, NEW k \in Nat, NextOp(w), k <= Free(w), ~freed[w], n[w] = 0,
         op'[w].name \notin {"Flush", "ReadFrom"}, Accept(w, k)
  PROVE  TypeOK' /\ Kept(w)' /\ \A q \in Writers \ {w} : Same(q)
<1>1. /\ data' = [data EXCEPT ![w] = @ \o Units(Offered(w) + 1, k)]
      /\ pc' = [pc EXCEPT ![w] = "idle"]
      /\ said' = [said EXCEPT ![w] = @ + k]
      /\ n' = [n EXCEPT ![w] = 0]
      /\ answer' = [answer EXCEPT ![w] = "nil"]
      /\ UNCHANGED <<r, jammed, out, lost, freed, passed, sink, closed>>
  BY DEF Accept, Store, Return, sinkVars
<1>2. /\ data'[w] = data[w] \o Units(Offered(w) + 1, k)
      /\ pc'[w] = "idle" /\ said'[w] = said[w] + k /\ n'[w] = 0 /\ answer'[w] = "nil"
      /\ \A q \in Writers \ {w} : /\ data'[q] = data[q] /\ pc'[q] = pc[q] /\ said'[q] = said[q]
                                  /\ n'[q] = n[q] /\ answer'[q] = answer[q]
  BY <1>1 DEF Inv, TypeOK
<1>3. lost[w] = <<>> /\ Stream(w)
  BY DEF Inv, Kept, Control
<1>4. /\ Len(data[w]) \in 0 .. Size /\ r[w] \in 0 .. Len(data[w]) /\ n[w] \in Nat /\ said[w] \in Nat
      /\ Offered(w) = said[w] + n[w] /\ Size \in Nat
  BY TypeNow DEF Inv, Offered
<1>5. data'[w] \in Seq(Nat) /\ Len(data'[w]) = Len(data[w]) + k /\ Stream(w)'
  <2>1. said'[w] + n'[w] = Offered(w) + k
    BY <1>2, <1>4
  <2> QED BY <2>1, <1>1, <1>2, <1>3, StoreKeeps DEF Inv
<1>6. Len(data'[w]) <= Size /\ r'[w] <= Len(data'[w])
  BY <1>1, <1>4, <1>5 DEF Free
<1>7. TypeOK'
  <2>1. data' \in [Writers -> Seq(Nat)]
    BY <1>1, <1>5 DEF Inv, TypeOK
  <2>2. \A q \in Writers : Len(data'[q]) <= Size /\ r'[q] <= Len(data'[q])
    BY <1>1, <1>2, <1>6 DEF Inv, TypeOK
  <2>3. said' \in [Writers -> Nat] /\ n' \in [Writers -> Nat]
    BY <1>1 DEF Inv, TypeOK
  <2> QED BY <2>1, <2>2, <2>3, <1>1 DEF Inv, TypeOK, NextOp, OpType
<1>8. Control(w)'
  BY <1>1, <1>2 DEF Inv, Kept, Control, NextOp
<1>9. Answer(w)'
  <2>1. r'[w] = Len(data'[w]) /\ r'[w] > 0 => jammed'[w]
    BY <1>1, <1>4, <1>5 DEF Inv, Kept, Answer
  <2> QED BY <2>1, <1>2 DEF Answer
<1> QED BY <1>1, <1>2, <1>5, <1>7, <1>8, <1>9 DEF NextOp, Same, Kept

LEMMA RefuseStep ==
  ASSUME Inv, NEW w \in Writers, NEW e \in Errors, NextOp(w), Refuse(w, n[w], e),
         op'[w].name \in {"Flush", "ReadFrom"} /\ e = "nil" => Pending(w) = <<>>,
         e = "short" => jammed[w]
  PROVE  TypeOK' /\ Kept(w)' /\ \A q \in Writers \ {w} : Same(q)
<1>1. /\ pc' = [pc EXCEPT ![w] = "idle"]
      /\ said' = [said EXCEPT ![w] = @ + n[w]]
      /\ n' = [n EXCEPT ![w] = 0]
      /\ answer' = [answer EXCEPT ![w] = e]
      /\ UNCHANGED <<data, r, jammed, out, lost, freed, passed, sink, closed>>
  BY DEF Refuse, Return, sinkVars, bufferVars
<1>2. /\ pc'[w] = "idle" /\ said'[w] = said[w] + n[w] /\ n'[w] = 0 /\ answer'[w] = e
      /\ \A q \in Writers \ {w} : /\ pc'[q] = pc[q] /\ said'[q] = said[q]
                                  /\ n'[q] = n[q] /\ answer'[q] = answer[q]
  BY <1>1 DEF Inv, TypeOK
<1>3. Pending(w)' = Pending(w) /\ Offered(w)' = Offered(w)
  <2>1. said[w] + n[w] \in Nat
    BY DEF Inv, TypeOK
  <2> QED BY <2>1, <1>1, <1>2 DEF Pending, Offered
<1>4. TypeOK'
  <2>1. said' \in [Writers -> Nat] /\ n' \in [Writers -> Nat]
    BY <1>1 DEF Inv, TypeOK
  <2> QED BY <2>1, <1>1 DEF Inv, TypeOK, NextOp, OpType
<1>5. Control(w)'
  BY <1>1, <1>2 DEF Inv, Kept, Control, NextOp
<1>6. Stream(w)' /\ Answer(w)'
  BY <1>1, <1>2, <1>3 DEF Inv, Kept, Stream, Answer
<1> QED BY <1>1, <1>2, <1>4, <1>5, <1>6 DEF NextOp, Same, Kept

LEMMA GotoStep ==
  ASSUME Inv, NEW w \in Writers, NEW place \in {"flush", "flushed", "direct", "read"},
         NextOp(w), Goto(w, place), ~freed[w],
         n[w] # 0 => op'[w].name = "ReadFrom",
         place \in {"flushed", "read"} => r[w] = Len(data[w]),
         place = "direct" => /\ op'[w].name \notin {"Flush", "ReadFrom"}
                             /\ op'[w].name = "UnderlayWriter" \/ r[w] = Len(data[w]),
         place = "read" => op'[w].name = "ReadFrom",
         op'[w].readErr # "short"
  PROVE  TypeOK' /\ Kept(w)' /\ \A q \in Writers \ {w} : Same(q)
<1>1. /\ pc' = [pc EXCEPT ![w] = place]
      /\ UNCHANGED <<data, r, jammed, n, said, answer, out, lost, freed, passed, sink, closed>>
  BY DEF Goto, bufferVars, sinkVars
<1>2. pc'[w] = place /\ \A q \in Writers \ {w} : pc'[q] = pc[q]
  BY <1>1 DEF Inv, TypeOK
<1>3. TypeOK'
  BY <1>1 DEF Inv, TypeOK, NextOp, OpType
<1>4. Control(w)'
  BY <1>1, <1>2 DEF Inv, Kept, Control, NextOp
<1>5. Stream(w)' /\ Answer(w)'
  BY <1>1, <1>2 DEF Inv, Kept, Stream, Answer, Pending, Offered
<1> QED BY <1>1, <1>2, <1>3, <1>4, <1>5 DEF NextOp, Same, Kept

-----------------------------------------------------------------------------
\* The actions.

\* The start of a call, whether it can store at once or has to flush first.
LEMMA BeginStep ==
  ASSUME Inv, NEW w \in Writers, NEW name \in Ops, NEW q \in Nat, Begin(w, name, q),
         name = "WriteByte" => q = 1,
         \/ name \notin {"Flush", "ReadFrom"} /\ Fits(w, q) /\ Accept(w, q)
         \/ StartFlush(w)
  PROVE  TypeOK' /\ Kept(w)' /\ \A p \in Writers \ {w} : Same(p)
<1>1. /\ ~freed[w] /\ pc[w] = "idle" /\ op \in [Writers -> OpType]
      /\ op' = [op EXCEPT ![w] = [name |-> name, len |-> q, readErr |-> "nil"]]
  BY DEF Begin, Inv, TypeOK, OpType
<1>2. op'[w] = [name |-> name, len |-> q, readErr |-> "nil"]
  BY <1>1
<1>3. NextOp(w)
  BY <1>1, <1>2 DEF NextOp, OpType
<1>4. n[w] = 0
  BY <1>1 DEF Inv, Kept, Control
<1>5. CASE name \notin {"Flush", "ReadFrom"} /\ Fits(w, q) /\ Accept(w, q)
  BY <1>1, <1>2, <1>3, <1>4, <1>5, AcceptStep DEF Fits
<1>6. CASE StartFlush(w)
  <2>1. CASE r[w] = Len(data[w])
    BY <2>1, <1>1, <1>2, <1>3, <1>4, <1>6, GotoStep DEF StartFlush
  <2>2. CASE r[w] # Len(data[w])
    BY <2>2, <1>1, <1>2, <1>3, <1>4, <1>6, GotoStep DEF StartFlush
  <2> QED BY <2>1, <2>2
<1> QED BY <1>5, <1>6

LEMMA GiveBackStep ==
  ASSUME Inv, NEW w \in Writers, FreeBuffer(w) \/ Close(w)
  PROVE  TypeOK' /\ Kept(w)' /\ \A p \in Writers \ {w} : Same(p)
<1>1. /\ pc[w] = "idle" /\ ~freed[w]
      /\ freed' = [freed EXCEPT ![w] = TRUE]
      /\ lost' = [lost EXCEPT ![w] = Pending(w)]
      /\ data' = [data EXCEPT ![w] = <<>>]
      /\ r' = [r EXCEPT ![w] = 0]
      /\ UNCHANGED <<jammed, pc, op, n, said, answer, out, passed, sink>>
      /\ closed' \in BOOLEAN
  BY DEF FreeBuffer, Close, GiveBack, callVars, sinkVars, Inv, TypeOK
<1>2. /\ freed'[w] = TRUE /\ lost'[w] = Pending(w) /\ data'[w] = <<>> /\ r'[w] = 0
      /\ \A q \in Writers \ {w} : /\ freed'[q] = freed[q] /\ lost'[q] = lost[q]
                                  /\ data'[q] = data[q] /\ r'[q] = r[q]
  BY <1>1 DEF Inv, TypeOK
<1>3. /\ Pending(w) \in Seq(Nat) /\ out[w] \in Seq(Nat) /\ Size \in Nat
      /\ <<>> \in Seq(Nat) /\ Len(<<>>) = 0 /\ lost[w] = <<>>
  BY <1>1, TypeNow DEF Inv, Kept, Control
<1>4. Pending(w)' = <<>>
  BY <1>2, <1>3, PendingType DEF Pending
<1>5. TypeOK'
  BY <1>1, <1>2, <1>3 DEF Inv, TypeOK
<1>6. Control(w)'
  BY <1>1, <1>2 DEF Inv, Kept, Control
<1>7. Stream(w)'
  <2>1. (out[w] \o <<>>) \o Pending(w) = (out[w] \o Pending(w)) \o <<>>
    <3>1. out[w] \o Pending(w) \in Seq(Nat)
      BY <1>3, ConcatProperties
    <3> QED BY <3>1, <1>3, ConcatEmptySeq
  <2> QED BY <2>1, <1>1, <1>2, <1>3, <1>4 DEF Inv, Kept, Stream, Offered
<1>8. Answer(w)'
  BY <1>1, <1>2, <1>4 DEF Inv, Kept, Answer
<1> QED BY <1>1, <1>2, <1>5, <1>6, <1>7, <1>8 DEF Same, Kept

\* A write of the buffer takes k of what is between the cursors.
LEMMA WriteOutStep ==
  ASSUME Inv, NEW w \in Writers, NEW k \in Nat, NEW ok \in BOOLEAN, WriteOut(w, k, ok)
  PROVE  TypeOK' /\ Kept(w)' /\ \A p \in Writers \ {w} : Same(p)
<1> DEFINE d == data[w]
           i == r[w]
           L == Len(data[w])
           s == SubSeq(d, i + 1, i + k)
<1>1. /\ pc[w] = "flush" /\ k <= Len(Pending(w)) /\ (ok => k = Len(Pending(w)))
      /\ out' = [out EXCEPT ![w] = @ \o s]
      /\ data' = [data EXCEPT ![w] = IF ok THEN <<>> ELSE d]
      /\ r' = [r EXCEPT ![w] = IF ok THEN 0 ELSE i + k]
      /\ jammed' = [jammed EXCEPT ![w] = IF k = Len(Pending(w)) THEN ~ok ELSE @]
      /\ pc' = [pc EXCEPT ![w] = IF ok THEN "flushed" ELSE "failed"]
      /\ UNCHANGED <<op, n, said, answer, lost, freed, passed, sink, closed>>
  BY DEF WriteOut, Written, SinkTakes, sinkVars
<1>2. /\ d \in Seq(Nat) /\ L \in 0 .. Size /\ i \in 0 .. L /\ Size \in Nat
      /\ out[w] \in Seq(Nat) /\ Len(Pending(w)) = L - i /\ Pending(w) \in Seq(Nat)
      /\ Pending(w) = SubSeq(d, i + 1, L)
      /\ <<>> \in Seq(Nat) /\ Len(<<>>) = 0
  BY TypeNow DEF Inv, Pending
<1>3. /\ out'[w] = out[w] \o s /\ pc'[w] = IF ok THEN "flushed" ELSE "failed"
      /\ data'[w] = IF ok THEN <<>> ELSE d
      /\ r'[w] = IF ok THEN 0 ELSE i + k
      /\ jammed'[w] = IF k = Len(Pending(w)) THEN ~ok ELSE jammed[w]
      /\ \A q \in Writers \ {w} : /\ out'[q] = out[q] /\ pc'[q] = pc[q] /\ data'[q] = data[q]
                                  /\ r'[q] = r[q] /\ jammed'[q] = jammed[q]
  BY <1>1 DEF Inv, TypeOK
<1>4. i + k \in 0 .. L /\ (ok => i + k = L) /\ (k = Len(Pending(w)) <=> i + k = L)
  <2>1. k <= Len(Pending(w)) /\ (ok => k = Len(Pending(w))) /\ Len(Pending(w)) = L - i /\ i \in 0 .. L /\ L \in Nat
    BY <1>1, <1>2
  <2> HIDE DEF i, L
  <2> QED BY <2>1
<1>5. s \in Seq(Nat) /\ SubSeq(d, i + k + 1, L) \in Seq(Nat) /\ s \o SubSeq(d, i + k + 1, L) = Pending(w)
  <2>1. \A j \in i + 1 .. i + k : d[j] \in Nat
    BY <1>2, <1>4, ElementOfSeq
  <2>2. SubSeq(d, i + k + 1, L) \in Seq(Nat)
    BY <1>2, <1>4, PendingType
  <2> HIDE DEF d, i, L
  <2>3. s \in Seq(Nat)
    <3>1. i + 1 \in Int /\ i + k \in Int
      BY <1>2
    <3> QED BY <2>1, <3>1, SubSeqProperties
  <2>4. s \o SubSeq(d, i + k + 1, L) = SubSeq(d, i + 1, L)
    <3>1. i + 1 \in 1 .. L + 1 /\ i + k \in (i + 1) - 1 .. L /\ L \in i + k .. L /\ L = Len(d)
      BY <1>2, <1>4 DEF L, d
    <3>2. d \in Seq(Nat)
      BY <1>2
    <3>3. SubSeq(d, i + 1, i + k) \o SubSeq(d, (i + k) + 1, L) = SubSeq(d, i + 1, L)
      BY ONLY <3>1, <3>2, ConcatAdjacentSubSeq
    <3> QED BY <3>3
  <2> QED BY <2>2, <2>3, <2>4, <1>2
<1>6. Pending(w)' = SubSeq(d, i + k + 1, L)
  <2>1. CASE ok
    <3>1. SubSeq(d, i + k + 1, L) = <<>>
      BY <2>1, <1>2, <1>4, PendingType
    <3>2. SubSeq(<<>>, 0 + 1, Len(<<>>)) = <<>>
      BY <1>2, PendingType
    <3>3. data'[w] = <<>> /\ r'[w] = 0
      BY <2>1, <1>3
    <3> QED BY <3>1, <3>2, <3>3 DEF Pending
  <2>2. CASE ~ok
    BY <2>2, <1>3 DEF Pending
  <2> QED BY <2>1, <2>2
<1>7. TypeOK'
  <2>1. out[w] \o s \in Seq(Nat)
    BY <1>2, <1>5, ConcatProperties
  <2>2. data'[w] \in Seq(Nat) /\ Len(data'[w]) <= Size /\ r'[w] <= Len(data'[w]) /\ r'[w] \in 0 .. Size
    BY <1>2, <1>3, <1>4
  <2>3. jammed' \in [Writers -> BOOLEAN] /\ out' \in [Writers -> Seq(Nat)] /\ data' \in [Writers -> Seq(Nat)]
    BY <2>1, <2>2, <1>1, <1>3 DEF Inv, TypeOK
  <2> QED BY <2>2, <2>3, <1>1, <1>3 DEF Inv, TypeOK
<1>8. Control(w)'
  <2>1. ok => r'[w] = Len(data'[w])
    BY <1>2, <1>3
  <2> QED BY <2>1, <1>1, <1>3 DEF Inv, Kept, Control
<1>9. Stream(w)'
  <2>1. lost[w] = <<>>
    BY <1>1 DEF Inv, Kept, Control
  <2> DEFINE t == SubSeq(d, i + k + 1, L)
             o == out[w]
  <2>2. o \in Seq(Nat) /\ s \in Seq(Nat) /\ t \in Seq(Nat) /\ s \o t = Pending(w)
    BY <1>2, <1>5
  <2>3. (o \o s) \o t = o \o Pending(w)
    <3> HIDE DEF o, s, t
    <3>1. (o \o s) \o t = o \o (s \o t)
      <4>1. o \in Seq(Nat) /\ s \in Seq(Nat) /\ t \in Seq(Nat)
        BY <2>2
      <4> QED BY ONLY <4>1, ConcatAssociative, SMTT(60)
    <3> QED BY <3>1, <2>2
  <2>4. out'[w] = o \o s /\ Pending(w)' = t /\ lost'[w] = <<>> /\ Offered(w)' = Offered(w) /\ passed'[w] = passed[w]
    BY <2>1, <1>1, <1>3, <1>6 DEF Offered
  <2> HIDE DEF o, s, t
  <2>5. ~passed[w] => o \o Pending(w) \o <<>> = Units(1, Offered(w))
    BY <2>1 DEF Inv, Kept, Stream, o
  <2> QED BY <2>3, <2>4, <2>5 DEF Stream
<1>10. Answer(w)'
  <2>1. pc'[w] # "idle"
    BY <1>3
  <2>2. ASSUME r'[w] = Len(data'[w]), r'[w] > 0 PROVE jammed'[w]
    <3>1. ~ok /\ i + k = L
      BY <2>2, <1>2, <1>3
    <3> QED BY <3>1, <1>3, <1>4
  <2> QED BY <2>1, <2>2 DEF Answer
<1> QED BY <1>1, <1>3, <1>7, <1>8, <1>9, <1>10 DEF Same, Kept

\* A write past the buffer, by a call or by ReadFrom, when it may be made.
LEMMA PassStep ==
  ASSUME Inv, NEW w \in Writers, NEW k \in Nat, NEW e \in {"nil", "sink", "read"}, pc[w] # "idle",
         out' = [out EXCEPT ![w] = @ \o Units(Offered(w) + 1, k)], Return(w, k, e), n[w] = 0,
         passed' \in [Writers -> BOOLEAN], \A q \in Writers \ {w} : passed'[q] = passed[q],
         ~passed'[w] => ~passed[w] /\ (k = 0 \/ Pending(w) = <<>>),
         UNCHANGED <<data, r, jammed, op, lost, freed, sink, closed>>,
         op[w].name \in {"Flush", "ReadFrom"} => Pending(w) = <<>>
  PROVE  TypeOK' /\ Kept(w)' /\ \A q \in Writers \ {w} : Same(q)
<1>1. /\ pc' = [pc EXCEPT ![w] = "idle"]
      /\ said' = [said EXCEPT ![w] = @ + k]
      /\ n' = [n EXCEPT ![w] = 0]
      /\ answer' = [answer EXCEPT ![w] = e]
  BY DEF Return
<1>2. /\ pc'[w] = "idle" /\ said'[w] = said[w] + k /\ n'[w] = 0 /\ answer'[w] = e
      /\ out'[w] = out[w] \o Units(Offered(w) + 1, k)
      /\ \A q \in Writers \ {w} : /\ pc'[q] = pc[q] /\ said'[q] = said[q] /\ n'[q] = n[q]
                                  /\ answer'[q] = answer[q] /\ out'[q] = out[q]
  BY <1>1 DEF Inv, TypeOK
<1>3. lost[w] = <<>> /\ Stream(w) /\ ~freed[w]
  BY DEF Inv, Kept, Control
<1>4. out'[w] \in Seq(Nat) /\ Stream(w)'
  <2>1. said'[w] + n'[w] = Offered(w) + k
    <3>1. said[w] \in Nat
      BY DEF Inv, TypeOK
    <3> QED BY <3>1, <1>2 DEF Offered
  <2> QED BY <2>1, <1>2, <1>3, PassKeeps DEF Inv
<1>5. TypeOK'
  <2>1. out' \in [Writers -> Seq(Nat)]
    BY <1>4 DEF Inv, TypeOK
  <2>2. said' \in [Writers -> Nat] /\ n' \in [Writers -> Nat]
    BY <1>1 DEF Inv, TypeOK
  <2> QED BY <2>1, <2>2, <1>1 DEF Inv, TypeOK
<1>6. Control(w)'
  BY <1>2, <1>3 DEF Inv, Kept, Control
<1>7. Answer(w)'
  BY <1>2 DEF Inv, Kept, Answer, Pending
<1> QED BY <1>2, <1>4, <1>5, <1>6, <1>7 DEF Same, Kept

LEMMA DirectStep ==
  ASSUME Inv, NEW w \in Writers, NEW k \in Nat, NEW ok \in BOOLEAN, Direct(w, k, ok)
  PROVE  TypeOK' /\ Kept(w)' /\ \A q \in Writers \ {w} : Same(q)
<1>1. /\ pc[w] = "direct"
      /\ out' = [out EXCEPT ![w] = @ \o Units(Offered(w) + 1, k)]
      /\ passed' = [passed EXCEPT ![w] =
           @ \/ (op[w].name = "UnderlayWriter" /\ k > 0 /\ Pending(w) # <<>>)]
      /\ Return(w, k, IF ok THEN "nil" ELSE "sink")
      /\ UNCHANGED <<data, r, jammed, op, lost, freed, sink, closed>>
  BY DEF Direct, bufferVars, sinkVars
<1>2. n[w] = 0 /\ op[w].name \notin {"Flush", "ReadFrom"}
  BY <1>1 DEF Inv, Kept, Control
<1>3. passed' \in [Writers -> BOOLEAN] /\ \A q \in Writers \ {w} : passed'[q] = passed[q]
  BY <1>1 DEF Inv, TypeOK
<1>4. ~passed'[w] => ~passed[w] /\ (k = 0 \/ Pending(w) = <<>>)
  <2> DEFINE Passes == op[w].name = "UnderlayWriter" /\ k > 0 /\ Pending(w) # <<>>
  <2>1. passed'[w] = (passed[w] \/ Passes)
    BY <1>1, Zenon DEF Inv, TypeOK
  <2>2. ~passed'[w] => ~passed[w] /\ ~Passes
    BY <2>1, Zenon
  <2>3. op[w].name = "UnderlayWriter" \/ Pending(w) = <<>>
    <3>1. op[w].name = "UnderlayWriter" \/ r[w] = Len(data[w])
      BY <1>1 DEF Inv, Kept, Control
    <3>2. r[w] = Len(data[w]) => Pending(w) = <<>>
      BY TypeNow DEF Inv
    <3> QED BY <3>1, <3>2
  <2> QED BY <2>2, <2>3
<1> DEFINE e == IF ok THEN "nil" ELSE "sink"
<1>5. e \in {"nil", "sink", "read"} /\ Return(w, k, e)
  BY <1>1
<1> HIDE DEF e
<1> QED BY <1>1, <1>2, <1>3, <1>4, <1>5, PassStep

LEMMA ReadThroughStep ==
  ASSUME Inv, NEW w \in Writers, NEW k \in Nat, NEW e \in {"nil", "sink", "read"}, ReadThrough(w, k, e)
  PROVE  TypeOK' /\ Kept(w)' /\ \A q \in Writers \ {w} : Same(q)
<1>1. /\ pc[w] = "read" /\ sink.readsFrom
      /\ out' = [out EXCEPT ![w] = @ \o Units(Offered(w) + 1, k)]
      /\ Return(w, k, e)
      /\ UNCHANGED <<data, r, jammed, op, lost, freed, passed, sink, closed>>
  BY DEF ReadThrough, bufferVars, sinkVars
<1>2. n[w] = 0 /\ r[w] = Len(data[w])
  BY <1>1 DEF Inv, Kept, Control
<1>3. Pending(w) = <<>>
  BY <1>2, TypeNow DEF Inv
<1>4. passed' \in [Writers -> BOOLEAN] /\ passed' = passed
  BY <1>1 DEF Inv, TypeOK
<1> QED BY <1>1, <1>2, <1>3, <1>4, PassStep

\* A round of ReadFrom fills the buffer; it is short only where a write of all of it
\* failed before.
LEMMA ReadOnceStep ==
  ASSUME Inv, NEW w \in Writers, NEW k \in Nat, NEW e \in {"nil", "EOF", "read", "short"}, ReadOnce(w, k, e)
  PROVE  TypeOK' /\ Kept(w)' /\ \A q \in Writers \ {w} : Same(q)
<1>1. /\ pc[w] = "read" /\ ~sink.readsFrom /\ k <= Free(w) /\ (e = "short" <=> Free(w) = 0)
      /\ data' = [data EXCEPT ![w] = @ \o Units(Offered(w) + 1, k)]
      /\ n' = [n EXCEPT ![w] = @ + k]
      /\ op' = [op EXCEPT ![w].readErr = e]
      /\ pc' = [pc EXCEPT ![w] = IF r[w] = Len(data[w]) + k THEN "flushed" ELSE "flush"]
      /\ UNCHANGED <<r, jammed, said, answer, out, lost, freed, passed, sink, closed>>
  BY DEF ReadOnce, Store, sinkVars
<1>2. op \in [Writers -> OpType] /\ op[w] \in OpType
  BY DEF Inv, TypeOK, OpType
<1>3. /\ data'[w] = data[w] \o Units(Offered(w) + 1, k)
      /\ n'[w] = n[w] + k /\ op'[w] = [op[w] EXCEPT !.readErr = e]
      /\ pc'[w] = IF r[w] = Len(data[w]) + k THEN "flushed" ELSE "flush"
      /\ \A q \in Writers \ {w} : data'[q] = data[q] /\ n'[q] = n[q] /\ op'[q] = op[q] /\ pc'[q] = pc[q]
  BY <1>1, <1>2 DEF Inv, TypeOK
<1>4. /\ op' \in [Writers -> OpType] /\ op'[w].name = op[w].name /\ op'[w].len = op[w].len
      /\ op'[w].readErr = e
  BY <1>1, <1>2, <1>3 DEF OpType
<1>5. /\ Len(data[w]) \in 0 .. Size /\ r[w] = Len(data[w]) /\ n[w] \in Nat /\ said[w] \in Nat
      /\ Offered(w) = said[w] + n[w] /\ Size \in Nat \ {0} /\ Free(w) = Size - Len(data[w])
      /\ lost[w] = <<>> /\ op[w].name = "ReadFrom" /\ Stream(w) /\ ~freed[w]
  BY <1>1, TypeNow DEF Inv, Offered, Free, Kept, Control
<1>6. data'[w] \in Seq(Nat) /\ Len(data'[w]) = Len(data[w]) + k /\ Stream(w)'
  <2>1. said'[w] + n'[w] = Offered(w) + k
    BY <1>1, <1>3, <1>5
  <2> QED BY <2>1, <1>1, <1>3, <1>5, StoreKeeps DEF Inv
<1>7. Len(data'[w]) <= Size /\ r'[w] <= Len(data'[w])
  BY <1>1, <1>5, <1>6
<1>8. e = "short" => jammed[w] /\ k = 0
  <2>1. e = "short" => Len(data[w]) = Size /\ k = 0
    BY <1>1, <1>5
  <2> QED BY <2>1, <1>5 DEF Inv, Kept, Answer
<1>9. TypeOK'
  <2>1. data' \in [Writers -> Seq(Nat)]
    BY <1>1, <1>6 DEF Inv, TypeOK
  <2>2. \A q \in Writers : Len(data'[q]) <= Size /\ r'[q] <= Len(data'[q])
    BY <1>1, <1>3, <1>7 DEF Inv, TypeOK
  <2>3. n' \in [Writers -> Nat]
    BY <1>1 DEF Inv, TypeOK
  <2> QED BY <2>1, <2>2, <2>3, <1>1, <1>4 DEF Inv, TypeOK, OpType
<1>10. Control(w)'
  <2>1. pc'[w] = "flushed" => r'[w] = Len(data'[w])
    BY <1>1, <1>3, <1>6
  <2>2. pc'[w] \in {"flush", "flushed"} /\ (e = "short" => pc'[w] = "flushed" /\ jammed'[w])
    BY <1>1, <1>3, <1>5, <1>8
  <2> QED BY <2>1, <2>2, <1>1, <1>3, <1>4, <1>5 DEF Control
<1>11. Answer(w)'
  <2>1. pc'[w] # "idle"
    BY <1>3
  <2>2. r'[w] = Len(data'[w]) /\ r'[w] > 0 => jammed'[w]
    BY <1>1, <1>5, <1>6 DEF Inv, Kept, Answer
  <2> QED BY <2>1, <2>2 DEF Answer
<1> QED BY <1>1, <1>3, <1>6, <1>9, <1>10, <1>11 DEF Same, Kept

\* The end of a Flush that failed.
LEMMA FlushFailsStep ==
  ASSUME Inv, NEW w \in Writers, FlushFails(w)
  PROVE  TypeOK' /\ Kept(w)' /\ \A q \in Writers \ {w} : Same(q)
<1>1. pc[w] = "failed" /\ op' = op
  BY DEF FlushFails
<1>2. NextOp(w) /\ ~freed[w] /\ op[w].readErr # "short" /\ (n[w] # 0 => op[w].name = "ReadFrom")
  BY <1>1 DEF Inv, TypeOK, NextOp, OpType, Kept, Control
<1>3. CASE op[w].name = "UnderlayWriter"
  BY <1>1, <1>2, <1>3, GotoStep DEF FlushFails
<1>4. CASE op[w].name # "UnderlayWriter"
  BY <1>1, <1>2, <1>4, RefuseStep DEF FlushFails
<1> QED BY <1>3, <1>4

\* What a call does after its Flush.
LEMMA FlushedStep ==
  ASSUME Inv, NEW w \in Writers, Flushed(w)
  PROVE  TypeOK' /\ Kept(w)' /\ \A q \in Writers \ {w} : Same(q)
<1>1. pc[w] = "flushed" /\ op' = op
  BY DEF Flushed
<1>2. /\ NextOp(w) /\ ~freed[w] /\ (n[w] # 0 => op[w].name = "ReadFrom")
      /\ (op[w].readErr = "short" => jammed[w] /\ op[w].name = "ReadFrom")
      /\ r[w] = Len(data[w]) /\ n[w] \in Nat
      /\ (op[w].name = "WriteByte" => op[w].len = 1)
  BY <1>1 DEF Inv, TypeOK, NextOp, OpType, Kept, Control
<1>3. /\ Pending(w) = <<>> /\ Len(data[w]) \in 0 .. Size /\ Size \in Nat \ {0}
      /\ Free(w) = Size - Len(data[w])
      /\ op[w].name \in Ops /\ op[w].len \in Nat /\ op[w].readErr \in {"nil", "EOF", "read", "short"}
  <2>1. Pending(w) = <<>> /\ Len(data[w]) \in 0 .. Size
    BY <1>2, TypeNow DEF Inv
  <2>2. op[w].name \in Ops /\ op[w].len \in Nat /\ op[w].readErr \in {"nil", "EOF", "read", "short"}
    BY DEF Inv, TypeOK
  <2> QED BY <2>1, <2>2 DEF Free
<1>4. CASE op[w].name = "Flush"
  BY <1>1, <1>2, <1>3, <1>4, RefuseStep DEF Flushed
<1>5. CASE op[w].name = "ReadFrom"
  <2>1. RoundEnds(w)
    BY <1>5 DEF Flushed
  <2>2. CASE op[w].readErr = "nil"
    BY <2>1, <2>2, <1>1, <1>2, <1>5, GotoStep DEF RoundEnds
  <2>3. CASE op[w].readErr = "EOF"
    BY <2>1, <2>3, <1>1, <1>2, <1>3, RefuseStep DEF RoundEnds
  <2>4. CASE op[w].readErr \in {"read", "short"}
    <3>1. Refuse(w, n[w], op[w].readErr)
      BY <2>1, <2>4 DEF RoundEnds
    <3> QED BY <3>1, <2>4, <1>1, <1>2, RefuseStep
  <2> QED BY <2>2, <2>3, <2>4, <1>3
<1>6. CASE op[w].name \notin {"Flush", "ReadFrom"} /\ Goto(w, "direct")
  BY <1>1, <1>2, <1>6, GotoStep
<1>7. CASE op[w].name \in {"WriteString", "WriteByte"} /\ (op[w].name = "WriteString" => op[w].len < Size) /\ StoreAgain(w)
  <2>1. n[w] = 0
    BY <1>2, <1>7
  <2>2. CASE Fits(w, op[w].len)
    BY <2>1, <2>2, <1>1, <1>2, <1>3, <1>7, AcceptStep DEF StoreAgain, Fits
  <2>3. CASE ~Fits(w, op[w].len)
    <3>1. op[w].len <= Size
      BY <1>2, <1>3, <1>7
    <3>2. Len(data[w]) > 0
      BY <2>3, <3>1, <1>3 DEF Fits
    <3>3. jammed[w]
      BY <3>2, <1>2 DEF Inv, Kept, Answer
    <3>4. Refuse(w, n[w], "short")
      BY <2>1, <2>3, <1>7 DEF StoreAgain
    <3> QED BY <3>3, <3>4, <1>1, <1>2, RefuseStep
  <2> QED BY <2>2, <2>3
<1> QED
  <2>1. CASE op[w].name \in {"Write", "UnderlayWriter"}
    <3>1. Goto(w, "direct")
      BY <2>1 DEF Flushed
    <3> QED BY <2>1, <3>1, <1>6
  <2>2. CASE op[w].name = "WriteString" /\ op[w].len >= Size
    <3>1. Goto(w, "direct")
      BY <2>2 DEF Flushed
    <3> QED BY <2>2, <3>1, <1>6
  <2>3. CASE op[w].name \in {"WriteString", "WriteByte"} /\ ~(op[w].name = "WriteString" /\ op[w].len >= Size)
    <3>1. StoreAgain(w)
      BY <2>3 DEF Flushed
    <3>2. op[w].name = "WriteString" => op[w].len < Size
      BY <2>3, <1>3
    <3> QED BY <2>3, <3>1, <3>2, <1>7
  <2> QED BY <2>1, <2>2, <2>3, <1>3, <1>4, <1>5

-----------------------------------------------------------------------------
LEMMA InitInv == Init => Inv
<1> SUFFICES ASSUME Init PROVE Inv
  OBVIOUS
<1>1. <<>> \in Seq(Nat) /\ Len(<<>>) = 0
  BY EmptySeq
<1>2. TypeOK
  <2>1. /\ data \in [Writers -> Seq(Nat)] /\ out \in [Writers -> Seq(Nat)] /\ lost \in [Writers -> Seq(Nat)]
        /\ r \in [Writers -> 0 .. Size]
        /\ \A w \in Writers : Len(data[w]) <= Size /\ r[w] <= Len(data[w])
    BY <1>1 DEF Init
  <2>2. NoOp \in OpType
    BY DEF NoOp, OpType
  <2>3. op \in [Writers -> OpType]
    BY <2>2 DEF Init
  <2> QED BY <2>1, <2>3 DEF Init, TypeOK, OpType
<1>3. ASSUME NEW w \in Writers PROVE Kept(w)
  <2>1. Pending(w) = <<>> /\ Offered(w) = 0
    BY <1>1, PendingType DEF Init, Pending, Offered
  <2>2. <<>> \o <<>> \o <<>> = <<>> /\ Units(1, 0) = <<>>
    <3>1. Units(1, 0) \in Seq(Nat) /\ Len(Units(1, 0)) = 0
      BY UnitsType
    <3> QED BY <3>1, <1>1, EmptySeq, ConcatEmptySeq
  <2>3. Stream(w)
    BY <2>1, <2>2 DEF Init, Stream
  <2>4. Control(w) /\ Answer(w)
    BY <1>1, <2>1 DEF Init, Control, Answer, NoOp
  <2> QED BY <2>3, <2>4 DEF Kept
<1> QED BY <1>2, <1>3 DEF Inv

\* A step of one writer keeps the invariant and leaves the others alone: each call, with
\* pieces of any length,
LEMMA CallStep ==
  ASSUME Inv, NEW w \in Writers, NEW q \in Nat,
         \/ Write(w, q) \/ WriteString(w, q) \/ UnderlayWriter(w, q)
         \/ WriteByte(w) \/ Flush(w) \/ ReadFrom(w) \/ FreeBuffer(w) \/ Close(w)
  PROVE  Inv' /\ \A p \in Writers \ {w} : Same(p)
<1>1. TypeOK' /\ Kept(w)' /\ \A p \in Writers \ {w} : Same(p)
  <2>1. CASE Write(w, q)
    BY <2>1, BeginStep DEF Write
  <2>2. CASE WriteString(w, q)
    BY <2>2, BeginStep DEF WriteString
  <2>3. CASE UnderlayWriter(w, q)
    BY <2>3, BeginStep DEF UnderlayWriter
  <2>4. CASE WriteByte(w)
    BY <2>4, BeginStep DEF WriteByte
  <2>5. CASE Flush(w)
    BY <2>5, BeginStep DEF Flush
  <2>6. CASE ReadFrom(w)
    BY <2>6, BeginStep DEF ReadFrom
  <2> QED BY <2>1, <2>2, <2>3, <2>4, <2>5, <2>6, GiveBackStep
<1> QED BY <1>1, OthersKeep DEF Inv

\* and what it does by itself.
LEMMA ProceedStep ==
  ASSUME Inv, NEW w \in Writers, Proceed(w)
  PROVE  Inv' /\ \A p \in Writers \ {w} : Same(p)
<1>1. TypeOK' /\ Kept(w)' /\ \A p \in Writers \ {w} : Same(p)
  <2>1. ASSUME NEW k \in 0 .. Size, NEW ok \in BOOLEAN, WriteOut(w, k, ok)
        PROVE TypeOK' /\ Kept(w)' /\ \A p \in Writers \ {w} : Same(p)
    BY <2>1, WriteOutStep
  <2>2. ASSUME NEW k \in 0 .. MaxPiece, NEW ok \in BOOLEAN, Direct(w, k, ok)
        PROVE TypeOK' /\ Kept(w)' /\ \A p \in Writers \ {w} : Same(p)
    BY <2>2, DirectStep
  <2>3. ASSUME NEW k \in 0 .. Size, NEW e \in {"nil", "EOF", "read", "short"}, ReadOnce(w, k, e)
        PROVE TypeOK' /\ Kept(w)' /\ \A p \in Writers \ {w} : Same(p)
    BY <2>3, ReadOnceStep
  <2>4. ASSUME NEW k \in 0 .. MaxPiece, NEW e \in {"nil", "sink", "read"}, ReadThrough(w, k, e)
        PROVE TypeOK' /\ Kept(w)' /\ \A p \in Writers \ {w} : Same(p)
    BY <2>4, ReadThroughStep
  <2> QED BY <2>1, <2>2, <2>3, <2>4, FlushFailsStep, FlushedStep DEF Proceed
<1> QED BY <1>1, OthersKeep DEF Inv

LEMMA NextInv == Inv /\ [Next]_vars => Inv'
<1> SUFFICES ASSUME Inv, [Next]_vars PROVE Inv'
  OBVIOUS
<1>1. CASE UNCHANGED vars
  <2>1. TypeOK' /\ \A w \in Writers : Same(w)
    BY <1>1 DEF vars, bufferVars, callVars, sinkVars, Inv, TypeOK, Same
  <2> QED BY <2>1, OthersKeep DEF Inv
<1>2. ASSUME NEW w \in Writers, Call(w) PROVE Inv'
  <2>1. 0 .. MaxPiece \subseteq Nat /\ 0 \in Nat
    OBVIOUS
  <2> QED BY <1>2, <2>1, CallStep DEF Call
<1> QED BY <1>1, <1>2, ProceedStep DEF Next

\* The inductive invariant: where a call is, what its buffer holds, and the stream.
THEOREM WriterCorrect == Spec => []Inv
BY InitInv, NextInv, PTL DEF Spec

\* Every variable of BufWriter keeps its type; the cursors stay within the capacity.
THEOREM TypeCorrect == Spec => []TypeOK
<1>1. Inv => TypeOK
  BY DEF Inv
<1> QED BY <1>1, WriterCorrect, PTL

\* No failed or partial write and no retry repeats, skips or reorders a unit
\* (rw.go:26-124), for any number of writers on one sink.
THEOREM StreamIsKept == Spec => []StreamKept
<1>1. Inv => StreamKept
  BY DEF Inv, Kept, Stream, StreamKept
<1> QED BY <1>1, WriterCorrect, PTL

\* nil of Flush and ReadFrom means an empty buffer, and the errors that no caller can
\* cure need a write that took everything and failed (line 115).
THEOREM AnswersAreTrue == Spec => []AnswerIsTrue
<1>1. Inv => AnswerIsTrue
  BY DEF Inv, Kept, Answer, AnswerIsTrue
<1> QED BY <1>1, WriterCorrect, PTL

-----------------------------------------------------------------------------
\* Induction and folds.

\* A set of numbers that is not empty has a smallest one.
LEMMA SmallestOf ==
  ASSUME NEW S \in SUBSET Nat, S # {}
  PROVE  \E x \in S : \A y \in S : x <= y
<1>1. \A x, y \in Nat : y < x => <<y, x>> \in OpToRel(<, Nat)
  BY DEF OpToRel
<1>2. PICK x \in S : \A y \in S : <<y, x>> \notin OpToRel(<, Nat)
  BY NatLessThanWellFounded, WFMin
<1>3. \A y \in S : ~(y < x)
  BY <1>1, <1>2
<1> QED
  BY <1>3

\* What holds of 0 and of every number after one it holds of holds up to k.
LEMMA Climb ==
  ASSUME NEW k \in Nat, NEW G, 0 \in G, \A i \in 1 .. k : i - 1 \in G => i \in G
  PROVE  \A i \in 0 .. k : i \in G
<1> SUFFICES ASSUME (0 .. k) \ G # {} PROVE FALSE
  OBVIOUS
<1>1. PICK x \in (0 .. k) \ G : \A y \in (0 .. k) \ G : x <= y
  <2>1. (0 .. k) \ G \in SUBSET Nat
    OBVIOUS
  <2> QED BY <2>1, SmallestOf
<1>2. x \in 1 .. k /\ x - 1 \in 0 .. k
  BY <1>1
<1>3. x - 1 \notin (0 .. k) \ G
  BY <1>1, <1>2
<1> QED BY <1>1, <1>2, <1>3

\* The greatest number of a set that has a bound.
LEMMA MaxIsGreatest ==
  ASSUME NEW k \in Nat, NEW T \in SUBSET (1 .. k), T # {}
  PROVE  Max(T) \in T /\ \A y \in T : y <= Max(T)
<1> DEFINE S == {m \in Nat : \A y \in T : y <= m}
<1>1. k \in S
  OBVIOUS
<1>2. PICK m \in S : \A y \in S : m <= y
  <2>1. S \in SUBSET Nat /\ S # {}
    BY <1>1
  <2> HIDE DEF S
  <2> QED BY <2>1, SmallestOf
<1>3. m \in T
  <2> SUFFICES ASSUME m \notin T PROVE FALSE
    OBVIOUS
  <2>1. PICK y \in T : TRUE
    OBVIOUS
  <2>2. m - 1 \in Nat
    BY <2>1, <1>2
  <2>3. \A z \in T : z <= m - 1
    BY <1>2
  <2> QED BY <2>2, <2>3, <1>2
<1>4. \E x \in T : \A y \in T : x >= y
  BY <1>2, <1>3
<1>5. Max(T) \in T /\ \A y \in T : Max(T) >= y
  BY <1>4, Zenon DEF Max
<1> QED BY <1>5

LEMMA MaxUpTo ==
  ASSUME NEW i \in Nat \ {0}
  PROVE  Max(1 .. i) = i /\ (1 .. i) \ {i} = 1 .. (i - 1) /\ 1 .. i # {}
<1>1. i \in 1 .. i /\ 1 .. i \in SUBSET (1 .. i)
  OBVIOUS
<1>2. Max(1 .. i) \in 1 .. i /\ i <= Max(1 .. i)
  BY <1>1, MaxIsGreatest
<1> QED BY <1>2

\* The recursive function that a fold over 1 .. k is made of exists.
HasFold(k, V, b, F) ==
  \E g \in [SUBSET (1 .. k) -> V] :
    g = [T \in SUBSET (1 .. k) |-> IF T = {} THEN b ELSE F[Max(T)][g[T \ {Max(T)}]]]

LEMMA FoldExists ==
  ASSUME NEW k \in Nat, NEW V, NEW b \in V, NEW F \in [1 .. k -> [V -> V]]
  PROVE  HasFold(k, V, b, F)
<1> DEFINE D == SUBSET (1 .. k)
           Value(g, T) == IF T = {} THEN b ELSE F[Max(T)][g[T \ {Max(T)}]]
           Good(g, i) == \A T \in D : T \subseteq 1 .. i => g[T] = Value(g, T)
           G == {i \in Nat : \E g \in [D -> V] : Good(g, i)}
<1>1. ASSUME NEW T \in D, T # {}
      PROVE  /\ Max(T) \in 1 .. k /\ T \ {Max(T)} \in D
             /\ \A i \in 1 .. k : T \subseteq 1 .. i => T \ {Max(T)} \subseteq 1 .. i - 1
  <2>1. PICK m \in T : m = Max(T) /\ \A y \in T : y <= m
    BY <1>1, MaxIsGreatest
  <2>2. m \in 1 .. k /\ T \ {m} \in D
    OBVIOUS
  <2>3. ASSUME NEW i \in 1 .. k, T \subseteq 1 .. i, NEW y \in T \ {m} PROVE y \in 1 .. i - 1
    <3>1. m \in 1 .. i /\ y \in 1 .. i /\ y <= m
      BY <2>1, <2>3
    <3> QED BY <3>1
  <2> QED BY <2>1, <2>2, <2>3
<1>2. ASSUME NEW g \in [D -> V], NEW T \in D PROVE Value(g, T) \in V
  <2>1. CASE T # {}
    <3>1. g[T \ {Max(T)}] \in V /\ Max(T) \in 1 .. k
      BY <1>1, <2>1
    <3> HIDE DEF D
    <3> QED BY <3>1, <2>1
  <2>2. CASE T = {}
    BY <2>2
  <2> QED BY <2>1, <2>2
<1>3. 0 \in G
  <2> DEFINE g == [T \in D |-> b]
  <2>1. \A T \in D : T \subseteq 1 .. 0 => T = {}
    OBVIOUS
  <2>2. g \in [D -> V] /\ \A T \in D : g[T] = b
    OBVIOUS
  <2>3. Good(g, 0)
    <3> HIDE DEF D, g
    <3> QED BY <2>1, <2>2
  <2> HIDE DEF Good, g
  <2> QED BY <2>2, <2>3
<1>4. ASSUME NEW i \in 1 .. k, i - 1 \in G PROVE i \in G
  <2>1. PICK g \in [D -> V] : Good(g, i - 1)
    BY <1>4
  <2> HIDE DEF Value
  <2>2. PICK h \in [D -> V] : \A T \in D : h[T] = Value(g, T)
    <3>1. [T \in D |-> Value(g, T)] \in [D -> V]
      BY <1>2
    <3> QED BY <3>1
  <2>3. ASSUME NEW T \in D, T \subseteq 1 .. i PROVE h[T] = Value(h, T)
    <3>1. CASE T = {}
      BY <2>2, <3>1 DEF Value
    <3>2. CASE T # {}
      <4>1. T \ {Max(T)} \in D /\ T \ {Max(T)} \subseteq 1 .. i - 1
        BY <1>1, <2>3, <3>2
      <4>2. g[T \ {Max(T)}] = h[T \ {Max(T)}]
        BY <4>1, <2>1, <2>2
      <4>3. Value(g, T) = Value(h, T)
        BY <4>2, <3>2 DEF Value
      <4> QED BY <4>3, <2>2
    <3> QED BY <3>1, <3>2
  <2>4. Good(h, i)
    BY <2>3
  <2> HIDE DEF Good
  <2> QED BY <2>4
<1>5. k \in G
  <2> HIDE DEF G
  <2>1. \A j \in 0 .. k : j \in G
    BY <1>3, <1>4, Climb
  <2> QED BY <2>1
<1>6. PICK g \in [D -> V] : Good(g, k)
  BY <1>5
<1>7. \A T \in D : g[T] = Value(g, T)
  BY <1>6
<1>8. g = [T \in D |-> Value(g, T)]
  <2> HIDE DEF D, Value
  <2> QED BY <1>7
<1> QED BY <1>8 DEF HasFold

-----------------------------------------------------------------------------
\* The pieces of a record.

\* A call of Handle on its BufWriter.
Piece == {c \in {"WriteByte", "WriteString"} \X Nat : c[1] = "WriteByte" => c[2] = 1}

\* SumLen adds the pieces one after the other.
LEMMA SumSteps ==
  ASSUME NEW s \in Seq(Piece)
  PROVE  \E f \in [0 .. Len(s) -> Nat] :
           /\ f[0] = 0 /\ f[Len(s)] = SumLen(s)
           /\ \A i \in 1 .. Len(s) : f[i] = f[i - 1] + s[i][2]
<1> DEFINE N == Len(s)
           Sum(g, T) == g[T \ {Max(T)}] + s[Max(T)][2]
           IsSum(g) == g = [T \in SUBSET (1 .. N) |-> IF T = {} THEN 0 ELSE Sum(g, T)]
<1>1. N \in Nat /\ DOMAIN s = 1 .. N /\ \A i \in 1 .. N : s[i][2] \in Nat
  <2>1. \A i \in 1 .. N : s[i] \in Piece
    BY ElementOfSeq
  <2>2. \A c \in Piece : c[2] \in Nat
    BY DEF Piece
  <2> QED BY <2>1, <2>2, LenProperties
<1>2. \E g : IsSum(g)
  <2> DEFINE F == [i \in 1 .. N |-> [x \in Nat |-> x + s[i][2]]]
  <2> HIDE DEF N
  <2>1. F \in [1 .. N -> [Nat -> Nat]] /\ 0 \in Nat
    BY <1>1
  <2>2. \A i \in 1 .. N, x \in Nat : F[i][x] = x + s[i][2]
    OBVIOUS
  <2> HIDE DEF F
  <2>3. PICK g \in [SUBSET (1 .. N) -> Nat] :
          g = [T \in SUBSET (1 .. N) |-> IF T = {} THEN 0 ELSE F[Max(T)][g[T \ {Max(T)}]]]
    <3>1. HasFold(N, Nat, 0, F)
      BY <1>1, <2>1, FoldExists
    <3> QED BY <3>1 DEF HasFold
  <2>4. ASSUME NEW T \in SUBSET (1 .. N), T # {} PROVE F[Max(T)][g[T \ {Max(T)}]] = Sum(g, T)
    <3>1. Max(T) \in 1 .. N /\ g[T \ {Max(T)}] \in Nat
      BY <1>1, <2>4, MaxIsGreatest
    <3> QED BY <3>1, <2>2
  <2> HIDE DEF Sum
  <2>5. [T \in SUBSET (1 .. N) |-> IF T = {} THEN 0 ELSE F[Max(T)][g[T \ {Max(T)}]]]
          = [T \in SUBSET (1 .. N) |-> IF T = {} THEN 0 ELSE Sum(g, T)]
    BY <2>4
  <2> QED BY <2>3, <2>5
<1> DEFINE G == CHOOSE g : IsSum(g)
<1>3. IsSum(G)
  <2> HIDE DEF IsSum
  <2> QED BY <1>2
<1>4. SumLen(s) = G[1 .. N]
  <2>1. SumLen(s) = (CHOOSE g : g = [T \in SUBSET DOMAIN s |-> IF T = {} THEN 0 ELSE g[T \ {Max(T)}] + s[Max(T)][2]])[DOMAIN s]
    BY DEF SumLen, FoldLeft, MapThenFoldSet
  <2> QED BY <2>1, <1>1
<1> HIDE DEF G
<1>5. G[{}] = 0 /\ \A i \in 1 .. N : G[1 .. i] = G[1 .. i - 1] + s[i][2]
  <2>1. G[{}] = 0
    BY <1>3
  <2>2. ASSUME NEW i \in 1 .. N PROVE G[1 .. i] = G[1 .. i - 1] + s[i][2]
    <3>1. Max(1 .. i) = i /\ (1 .. i) \ {i} = 1 .. (i - 1) /\ 1 .. i # {}
      BY MaxUpTo
    <3>2. 1 .. i \in SUBSET (1 .. N)
      BY <1>1
    <3>3. G[1 .. i] = Sum(G, 1 .. i)
      <4> HIDE DEF Sum
      <4> QED BY <1>3, <3>1, <3>2
    <3> QED BY <3>1, <3>3
  <2> QED BY <2>1, <2>2
<1> DEFINE f == [i \in 0 .. N |-> G[1 .. i]]
<1>6. f[0] = 0 /\ f[N] = SumLen(s) /\ \A i \in 1 .. N : f[i] = f[i - 1] + s[i][2]
  <2>1. 1 .. 0 = {}
    OBVIOUS
  <2> HIDE DEF N
  <2>2. 0 \in 0 .. N /\ N \in 0 .. N /\ \A i \in 1 .. N : i \in 0 .. N /\ i - 1 \in 0 .. N
    BY <1>1
  <2> QED BY <1>4, <1>5, <2>1, <2>2
<1>7. f \in [0 .. N -> Nat]
  <2> DEFINE Numbers == {i \in 0 .. N : f[i] \in Nat}
  <2>1. 0 \in Numbers
    BY <1>1, <1>6
  <2>2. ASSUME NEW i \in 1 .. N, i - 1 \in Numbers PROVE i \in Numbers
    <3>1. f[i - 1] \in Nat /\ s[i][2] \in Nat /\ f[i] = f[i - 1] + s[i][2]
      BY <1>1, <1>6, <2>2
    <3> HIDE DEF f
    <3> QED BY <3>1, <1>1
  <2> HIDE DEF Numbers
  <2>3. \A i \in 0 .. N : i \in Numbers
    <3> HIDE DEF N
    <3> QED BY <1>1, <2>1, <2>2, Climb
  <2>4. \A i \in 0 .. N : f[i] \in Nat
    <3> HIDE DEF f
    <3> QED BY <2>3 DEF Numbers
  <2> HIDE DEF N
  <2> QED BY <2>4
<1> HIDE DEF f
<1> QED BY <1>6, <1>7

\* What is left of a record after its first piece.
LEMMA SumOfTail ==
  ASSUME NEW s \in Seq(Piece)
  PROVE  /\ SumLen(s) \in Nat
         /\ s = <<>> => SumLen(s) = 0
         /\ s # <<>> => SumLen(s) = Head(s)[2] + SumLen(Tail(s)) /\ Head(s) \in Piece /\ Tail(s) \in Seq(Piece)
<1>1. PICK f \in [0 .. Len(s) -> Nat] :
        /\ f[0] = 0 /\ f[Len(s)] = SumLen(s)
        /\ \A i \in 1 .. Len(s) : f[i] = f[i - 1] + s[i][2]
  BY SumSteps
<1>2. Len(s) \in Nat /\ SumLen(s) \in Nat
  BY <1>1, LenProperties
<1>3. CASE s = <<>>
  BY <1>1, <1>2, <1>3
<1>4. CASE s # <<>>
  <2> DEFINE t == Tail(s)
  <2>1. /\ Head(s) \in Piece /\ t \in Seq(Piece) /\ Len(t) = Len(s) - 1 /\ Len(t) \in Nat
        /\ \A i \in 1 .. Len(t) : t[i] = s[i + 1]
    BY <1>4, HeadTailProperties, LenProperties
  <2>2. Head(s) = s[1]
    BY <1>4
  <2> HIDE DEF t
  <2>3. PICK h \in [0 .. Len(t) -> Nat] :
          /\ h[0] = 0 /\ h[Len(t)] = SumLen(t)
          /\ \A i \in 1 .. Len(t) : h[i] = h[i - 1] + t[i][2]
    BY <2>1, SumSteps
  <2> DEFINE Fit == {i \in 0 .. Len(t) : f[i + 1] = s[1][2] + h[i]}
  <2>4. s[1][2] \in Nat
    BY <2>1, <2>2 DEF Piece
  <2>5. 0 \in Fit
    BY <1>1, <1>2, <2>1, <2>3, <2>4
  <2>6. ASSUME NEW i \in 1 .. Len(t), i - 1 \in Fit PROVE i \in Fit
    <3>1. f[(i - 1) + 1] = s[1][2] + h[i - 1] /\ (i - 1) + 1 = i
      BY <2>6, <2>1
    <3>2. i + 1 \in 1 .. Len(s) /\ (i + 1) - 1 = i
      BY <1>2, <2>1
    <3>3. f[i + 1] = f[i] + s[i + 1][2]
      BY <1>1, <3>2
    <3>4. h[i] = h[i - 1] + s[i + 1][2]
      BY <2>1, <2>3
    <3>5. h[i - 1] \in Nat /\ s[i + 1][2] \in Nat
      <4>1. s[i + 1] \in Piece
        BY <3>2, ElementOfSeq
      <4>2. i - 1 \in 0 .. Len(t)
        BY <2>1
      <4> QED BY <4>1, <4>2 DEF Piece
    <3> QED BY <3>1, <3>3, <3>4, <3>5, <2>1, <2>4
  <2> HIDE DEF Fit
  <2>7. Len(t) \in Fit
    <3>1. \A i \in 0 .. Len(t) : i \in Fit
      BY <2>1, <2>5, <2>6, Climb
    <3> QED BY <3>1, <2>1
  <2>8. f[Len(t) + 1] = s[1][2] + h[Len(t)] /\ Len(t) + 1 = Len(s)
    BY <2>7, <2>1, <1>2 DEF Fit
  <2> QED BY <2>8, <2>3, <2>1, <2>2, <1>1, <1>2, <1>4 DEF t
<1> QED BY <1>2, <1>3, <1>4

\* A repeated sequence is one of the same elements.
LEMMA RepeatType ==
  ASSUME NEW T, NEW s \in Seq(T), NEW k \in Nat
  PROVE  Repeat(k, s) \in Seq(T)
<1> DEFINE Value(g, i) == IF i = 1 THEN s ELSE g[i - 1] \o s
           IsFlat(g) == g = [i \in 1 .. k |-> Value(g, i)]
           Good(g, j) == \A i \in 1 .. k : i <= j => g[i] = Value(g, i)
           Reached == {j \in Nat : \E g \in [1 .. k -> Seq(T)] : Good(g, j)}
<1>1. \A g \in [1 .. k -> Seq(T)] : [i \in 1 .. k |-> Value(g, i)] \in [1 .. k -> Seq(T)]
  <2> SUFFICES ASSUME NEW g \in [1 .. k -> Seq(T)], NEW i \in 1 .. k PROVE Value(g, i) \in Seq(T)
    OBVIOUS
  <2>1. CASE i = 1
    BY <2>1
  <2>2. CASE i # 1
    <3>1. i - 1 \in 1 .. k
      BY <2>2
    <3>2. g[i - 1] \in Seq(T)
      BY <3>1
    <3> QED BY <3>2, <2>2, ConcatProperties
  <2> QED BY <2>1, <2>2
<1>2. 0 \in Reached
  <2> DEFINE g == [i \in 1 .. k |-> s]
  <2>1. g \in [1 .. k -> Seq(T)] /\ \A i \in 1 .. k : ~(i <= 0)
    OBVIOUS
  <2> HIDE DEF g, Value
  <2>2. Good(g, 0)
    BY <2>1
  <2> HIDE DEF Good
  <2> QED BY <2>1, <2>2
<1>3. ASSUME NEW j \in 1 .. k, j - 1 \in Reached PROVE j \in Reached
  <2>1. PICK g \in [1 .. k -> Seq(T)] : Good(g, j - 1)
    BY <1>3
  <2>2. PICK h \in [1 .. k -> Seq(T)] : \A i \in 1 .. k : h[i] = Value(g, i)
    <3> HIDE DEF Value
    <3> QED BY <1>1
  <2>3. ASSUME NEW i \in 1 .. k, i <= j PROVE h[i] = Value(h, i)
    <3>1. CASE i = 1
      BY <2>2, <3>1
    <3>2. CASE i # 1
      <4>1. i - 1 \in 1 .. k /\ i - 1 <= j - 1
        BY <2>3, <3>2
      <4>2. g[i - 1] = h[i - 1]
        <5> HIDE DEF Value
        <5> QED BY <4>1, <2>1, <2>2
      <4> QED BY <4>2, <2>2, <3>2
    <3> QED BY <3>1, <3>2
  <2>4. Good(h, j)
    BY <2>3
  <2> HIDE DEF Good
  <2> QED BY <2>4
<1>4. \E g \in [1 .. k -> Seq(T)] : IsFlat(g)
  <2>1. k \in Reached
    <3> HIDE DEF Reached
    <3>1. \A j \in 0 .. k : j \in Reached
      BY <1>2, <1>3, Climb
    <3> QED BY <3>1
  <2>2. PICK g \in [1 .. k -> Seq(T)] : Good(g, k)
    BY <2>1
  <2>3. \A i \in 1 .. k : g[i] = Value(g, i)
    <3> HIDE DEF Value
    <3> QED BY <2>2
  <2> HIDE DEF Value
  <2> QED BY <2>3
<1> DEFINE G == CHOOSE g : IsFlat(g)
<1>5. IsFlat(G)
  <2> HIDE DEF IsFlat
  <2> QED BY <1>4
<1>6. Repeat(k, s) = IF k = 0 THEN <<>> ELSE G[k]
  <2>1. Repeat(k, s) = IF k = 0 THEN <<>>
          ELSE (CHOOSE g : g = [i \in 1 .. k |-> IF i = 1 THEN s ELSE g[i - 1] \o s])[k]
    BY DEF Repeat, FlattenSeq
  <2> QED BY <2>1
<1> HIDE DEF G
<1>7. CASE k # 0
  <2> DEFINE Typed == {j \in Nat : j = 0 \/ G[j] \in Seq(T)}
  <2>1. ASSUME NEW j \in 1 .. k, j - 1 \in Typed PROVE j \in Typed
    <3>1. G[j] = Value(G, j)
      <4> HIDE DEF Value
      <4> QED BY <1>5
    <3>2. CASE j = 1
      BY <3>1, <3>2
    <3>3. CASE j # 1
      <4>1. G[j - 1] \in Seq(T)
        BY <2>1, <3>3
      <4>2. G[j - 1] \o s \in Seq(T)
        BY <4>1, ConcatProperties
      <4>3. G[j] = G[j - 1] \o s
        BY <3>1, <3>3
      <4>4. G[j] \in Seq(T)
        BY <4>2, <4>3, Zenon
      <4> QED BY <4>4
    <3> QED BY <3>2, <3>3
  <2>2. 0 \in Typed
    OBVIOUS
  <2> HIDE DEF Typed
  <2>3. \A j \in 0 .. k : j \in Typed
    BY <2>1, <2>2, Climb
  <2>4. k \in Typed
    BY <2>3
  <2> QED BY <2>4, <1>6, <1>7 DEF Typed
<1>8. CASE k = 0
  BY <1>6, <1>8, EmptySeq
<1> QED BY <1>7, <1>8

\* The calls that Handle makes are such pieces.
LEMMA CallsType ==
  ASSUME NEW h \in Writers, Len(metadata[h]) \in Nat, NEW rec \in Records
  PROVE  Calls(h, rec) \in Seq(Piece)
<1>1. /\ rec.level \in Nat /\ rec.msg \in Nat /\ rec.attrs \in Nat /\ rec.source \in BOOLEAN
  BY RecordsAssumption
<1>2. Byte \in Piece /\ \A k \in Nat : Text(k) \in Piece
  BY DEF Byte, Text, Piece
<1>3. /\ <<Text(rec.level)>> \in Seq(Piece)
      /\ <<Byte, Text(1)>> \in Seq(Piece)
      /\ <<Byte, Text(rec.msg)>> \in Seq(Piece)
      /\ <<Byte, Text(1), Byte>> \in Seq(Piece)
      /\ <<Byte>> \in Seq(Piece)
      /\ (IF rec.source THEN <<Text(1)>> ELSE <<>>) \in Seq(Piece)
  <2>1. Byte \in Piece /\ Text(1) \in Piece /\ Text(rec.level) \in Piece /\ Text(rec.msg) \in Piece
    BY <1>1, <1>2
  <2> QED BY <2>1
<1>4. /\ Repeat(Len(metadata[h]), <<Byte, Text(1)>>) \in Seq(Piece)
      /\ Repeat(rec.attrs, <<Byte, Text(1), Byte>>) \in Seq(Piece)
  BY <1>1, <1>3, RepeatType
<1> DEFINE a == <<Text(rec.level)>>
           b == Repeat(Len(metadata[h]), <<Byte, Text(1)>>)
           c == <<Byte, Text(rec.msg)>>
           d == Repeat(rec.attrs, <<Byte, Text(1), Byte>>)
           e == <<Byte>>
           f == IF rec.source THEN <<Text(1)>> ELSE <<>>
<1>5. a \in Seq(Piece) /\ b \in Seq(Piece) /\ c \in Seq(Piece) /\ d \in Seq(Piece) /\ e \in Seq(Piece) /\ f \in Seq(Piece)
  BY <1>3, <1>4
<1>6. Calls(h, rec) = a \o b \o c \o d \o e \o f
  BY DEF Calls
<1> HIDE DEF a, b, c, d, e, f
<1>7. a \o b \in Seq(Piece)
  BY <1>5, ConcatProperties
<1>8. (a \o b) \o c \in Seq(Piece)
  BY <1>5, <1>7, ConcatProperties
<1>9. ((a \o b) \o c) \o d \in Seq(Piece)
  BY <1>5, <1>8, ConcatProperties
<1>10. (((a \o b) \o c) \o d) \o e \in Seq(Piece)
  BY <1>5, <1>9, ConcatProperties
<1>11. ((((a \o b) \o c) \o d) \o e) \o f \in Seq(Piece)
  BY <1>5, <1>10, ConcatProperties
<1> QED BY <1>6, <1>11

-----------------------------------------------------------------------------
\* The metadata of a handler.

KeysOf(s) == {s[i].key : i \in 1 .. Len(s)}
KeysDiffer(s) == \A i, j \in 1 .. Len(s) : s[i].key = s[j].key => i = j
LastsOf(s) == {i \in 1 .. Len(s) : \A j \in i + 1 .. Len(s) : s[j].key # s[i].key}
LatestOf(s) == {s[i] : i \in LastsOf(s)}

\* Every key has a last attribute,
LEMMA LastOfKey ==
  ASSUME NEW A, NEW s \in Seq(A), NEW i \in 1 .. Len(s)
  PROVE  \E j \in LastsOf(s) : s[j].key = s[i].key
<1> DEFINE T == {j \in 1 .. Len(s) : s[j].key = s[i].key}
<1>1. Len(s) \in Nat /\ T \in SUBSET (1 .. Len(s)) /\ T # {}
  BY LenProperties
<1>2. PICK m \in T : \A y \in T : y <= m
  <2> HIDE DEF T
  <2> QED BY <1>1, MaxIsGreatest
<1>3. ASSUME NEW j \in m + 1 .. Len(s) PROVE s[j].key # s[m].key
  <2>1. j \notin T /\ j \in 1 .. Len(s)
    BY <1>1, <1>2
  <2> QED BY <2>1, <1>2
<1> QED BY <1>2, <1>3 DEF LastsOf

\* and only one.
LEMMA OneLast ==
  ASSUME NEW A, NEW s \in Seq(A), NEW i \in LastsOf(s), NEW j \in LastsOf(s), s[i].key = s[j].key
  PROVE  i = j
<1>1. i \in 1 .. Len(s) /\ j \in 1 .. Len(s) /\ Len(s) \in Nat
  BY LenProperties DEF LastsOf
<1>2. ~(i < j)
  <2> SUFFICES ASSUME i < j PROVE FALSE
    OBVIOUS
  <2>1. j \in i + 1 .. Len(s)
    BY <1>1
  <2> QED BY <2>1 DEF LastsOf
<1>3. ~(j < i)
  <2> SUFFICES ASSUME j < i PROVE FALSE
    OBVIOUS
  <2>1. i \in j + 1 .. Len(s)
    BY <1>1
  <2> QED BY <2>1 DEF LastsOf
<1> QED BY <1>1, <1>2, <1>3

\* The members of a set of numbers are counted off by how many do not exceed them.
LEMMA Ranks ==
  ASSUME NEW k \in Nat, NEW L \in SUBSET (1 .. k)
  PROVE  /\ Cardinality(L) \in Nat
         /\ \A i \in L : Cardinality({j \in L : j <= i}) \in 1 .. Cardinality(L)
         /\ \A i, h \in L : Cardinality({j \in L : j <= i}) = Cardinality({j \in L : j <= h}) => i = h
         /\ \A c \in 1 .. Cardinality(L) : \E i \in L : Cardinality({j \in L : j <= i}) = c
<1> DEFINE UpTo(i) == {j \in L : j <= i}
           rank == [i \in L |-> Cardinality(UpTo(i))]
           C == Cardinality(L)
<1>1. IsFiniteSet(1 .. k)
  BY FS_Interval
<1>2. IsFiniteSet(L) /\ C \in Nat
  BY <1>1, FS_Subset, FS_CardinalityType
<1>3. ASSUME NEW i \in L PROVE IsFiniteSet(UpTo(i)) /\ Cardinality(UpTo(i)) \in 1 .. C
  <2>1. UpTo(i) \in SUBSET L /\ i \in UpTo(i)
    OBVIOUS
  <2> HIDE DEF UpTo
  <2>2. IsFiniteSet(UpTo(i)) /\ Cardinality(UpTo(i)) <= C
    BY <2>1, <1>2, FS_Subset
  <2>3. Cardinality(UpTo(i)) \in Nat
    BY <2>2, FS_CardinalityType
  <2>4. Cardinality(UpTo(i)) # 0
    BY <2>1, <2>2, FS_EmptySet
  <2> HIDE DEF C
  <2> QED BY <2>2, <2>3, <2>4, <1>2
<1>4. ASSUME NEW i \in L, NEW h \in L, i < h PROVE Cardinality(UpTo(i)) # Cardinality(UpTo(h))
  <2>1. UpTo(i) \in SUBSET UpTo(h) /\ h \in UpTo(h) /\ h \notin UpTo(i)
    <3>1. i \in Nat /\ h \in Nat /\ \A j \in L : j \in Nat
      OBVIOUS
    <3>2. \A j \in L : j <= i => j <= h
      BY <3>1, <1>4
    <3>3. h <= h /\ ~(h <= i)
      BY <3>1, <1>4
    <3> QED BY <3>2, <3>3
  <2> HIDE DEF UpTo
  <2> QED BY <2>1, <1>3, FS_Subset
<1>5. ASSUME NEW i \in L, NEW h \in L, Cardinality(UpTo(i)) = Cardinality(UpTo(h)) PROVE i = h
  <2>1. i \in Nat /\ h \in Nat
    OBVIOUS
  <2>2. ~(i < h) /\ ~(h < i)
    BY <1>4, <1>5
  <2> QED BY <2>1, <2>2
<1>6. rank \in Injection(L, 1 .. C)
  <2> HIDE DEF UpTo
  <2>1. rank \in [L -> 1 .. C] /\ \A i \in L : rank[i] = Cardinality(UpTo(i))
    BY <1>3
  <2> HIDE DEF rank, C
  <2> QED BY <2>1, <1>5 DEF Injection, IsInjective
<1>7. IsFiniteSet(1 .. C) /\ Cardinality(1 .. C) = C
  <2> HIDE DEF C
  <2>1. Cardinality(1 .. C) = IF 1 > C THEN 0 ELSE C - 1 + 1
    BY <1>2, FS_Interval
  <2> QED BY <2>1, <1>2, FS_Interval
<1>8. \A c \in 1 .. C : \E i \in L : rank[i] = c
  <2> HIDE DEF rank, C, UpTo
  <2>1. rank \in Surjection(L, 1 .. C)
    BY <1>6, <1>7, FS_Injection DEF C
  <2> QED BY <2>1 DEF Surjection
<1>9. \A i \in L : rank[i] = Cardinality(UpTo(i))
  OBVIOUS
<1> QED BY <1>2, <1>3, <1>5, <1>8, <1>9

\* UniqByLast keeps the last attribute of each key, and nothing else.
LEMMA UniqKeepsLast ==
  ASSUME NEW A, NEW s \in Seq(A)
  PROVE  /\ UniqByLast(s) \in Seq(A)
         /\ KeysDiffer(UniqByLast(s))
         /\ Range(UniqByLast(s)) = LatestOf(s)
         /\ KeysOf(UniqByLast(s)) = KeysOf(s)
<1> DEFINE L == LastsOf(s)
           C == Cardinality(L)
           Rank(i) == Cardinality({j \in L : j <= i})
           at == [c \in 1 .. C |-> CHOOSE i \in L : Rank(i) = c]
           u == UniqByLast(s)
<1>1. Len(s) \in Nat /\ L \in SUBSET (1 .. Len(s)) /\ \A i \in 1 .. Len(s) : s[i] \in A
  BY LenProperties, ElementOfSeq DEF LastsOf
<1>2. /\ C \in Nat
      /\ \A i \in L : Rank(i) \in 1 .. C
      /\ \A i, h \in L : Rank(i) = Rank(h) => i = h
      /\ \A c \in 1 .. C : \E i \in L : Rank(i) = c
  <2> HIDE DEF L
  <2> QED BY <1>1, Ranks
<1>3. u = [c \in 1 .. C |-> s[at[c]]]
  BY DEF UniqByLast, LastsOf
<1> HIDE DEF Rank, L, u
<1>4. \A c \in 1 .. C : at[c] \in L /\ Rank(at[c]) = c
  BY <1>2
<1> HIDE DEF C, at
<1>5. u \in Seq(A) /\ Len(u) = C
  <2>1. u \in [1 .. C -> A]
    BY <1>1, <1>3, <1>4
  <2> QED BY <2>1, <1>2, SeqDef
<1>6. \A c \in 1 .. C : u[c] = s[at[c]]
  BY <1>3
<1>7. \A i \in L : \E c \in 1 .. C : at[c] = i
  BY <1>2, <1>4
<1>8. KeysDiffer(u)
  <2> SUFFICES ASSUME NEW c \in 1 .. C, NEW d \in 1 .. C, u[c].key = u[d].key PROVE c = d
    BY <1>5 DEF KeysDiffer
  <2>1. at[c] = at[d]
    BY <1>4, <1>6, OneLast DEF L
  <2> QED BY <2>1, <1>4
<1>9. Range(u) = LatestOf(s)
  <2>1. DOMAIN u = 1 .. C
    BY <1>3
  <2> QED BY <2>1, <1>4, <1>6, <1>7 DEF Range, LatestOf, L
<1>10. KeysOf(u) = KeysOf(s)
  <2>1. ASSUME NEW c \in 1 .. C PROVE u[c].key \in KeysOf(s)
    BY <1>1, <1>4, <1>6 DEF KeysOf
  <2>2. ASSUME NEW i \in 1 .. Len(s) PROVE s[i].key \in KeysOf(u)
    <3>1. PICK j \in L : s[j].key = s[i].key
      BY LastOfKey DEF L
    <3>2. PICK c \in 1 .. C : at[c] = j
      BY <1>7
    <3>3. u[c].key = s[i].key
      BY <3>1, <3>2, <1>6
    <3> QED BY <3>3, <1>5 DEF KeysOf
  <2> QED BY <2>1, <2>2, <1>5 DEF KeysOf
<1> QED BY <1>5, <1>8, <1>9, <1>10 DEF u

\* Put leaves one attribute of each key.
LEMMA PutReplaces ==
  ASSUME NEW A, NEW old \in Seq(A), NEW a \in A
  PROVE  /\ Put(old, a) \in Seq(A)
         /\ KeysDiffer(old) => /\ KeysDiffer(Put(old, a))
                               /\ Range(Put(old, a)) = {x \in Range(old) : x.key # a.key} \cup {a}
<1> DEFINE N == Len(old)
           p == Put(old, a)
           Replaced == [i \in 1 .. N |-> IF old[i].key = a.key THEN a ELSE old[i]]
<1>1. N \in Nat /\ DOMAIN old = 1 .. N /\ \A i \in 1 .. N : old[i] \in A
  BY LenProperties, ElementOfSeq
<1>2. CASE \E i \in 1 .. N : old[i].key = a.key
  <2>1. p = Replaced
    BY <1>2 DEF Put
  <2> HIDE DEF N, p
  <2>2. p \in Seq(A) /\ Len(p) = N /\ DOMAIN p = 1 .. N
    <3>1. Replaced \in [1 .. N -> A]
      BY <1>1
    <3> HIDE DEF Replaced
    <3> QED BY <3>1, <2>1, <1>1, SeqDef
  <2>3. \A i \in 1 .. N : p[i] = IF old[i].key = a.key THEN a ELSE old[i]
    BY <2>1
  <2> HIDE DEF Replaced
  <2>4. ASSUME KeysDiffer(old) PROVE KeysDiffer(p)
    BY <2>2, <2>3, <2>4 DEF KeysDiffer, N
  <2>5. Range(p) = {x \in Range(old) : x.key # a.key} \cup {a}
    BY <2>2, <2>3, <1>1, <1>2 DEF Range
  <2> QED BY <2>2, <2>4, <2>5 DEF p
<1>3. CASE ~\E i \in 1 .. N : old[i].key = a.key
  <2>1. p = Append(old, a)
    BY <1>3 DEF Put
  <2>2. /\ p \in Seq(A) /\ Len(p) = N + 1 /\ DOMAIN p = 1 .. N + 1
        /\ \A i \in 1 .. N : p[i] = old[i]
        /\ p[N + 1] = a
    <3>1. p \in Seq(A) /\ Len(p) = N + 1 /\ (\A i \in 1 .. N : p[i] = old[i]) /\ p[N + 1] = a
      BY <2>1, AppendProperties
    <3> QED BY <3>1, LenProperties
  <2> HIDE DEF N, p
  <2>3. ASSUME KeysDiffer(old) PROVE KeysDiffer(p)
    <3>1. \A i \in 1 .. N + 1 : i \in 1 .. N \/ i = N + 1
      BY <1>1
    <3> QED BY <3>1, <2>2, <2>3, <1>3 DEF KeysDiffer, N
  <2>4. Range(p) = {x \in Range(old) : x.key # a.key} \cup {a}
    <3>1. \A i \in 1 .. N + 1 : i \in 1 .. N \/ i = N + 1
      BY <1>1
    <3>2. N + 1 \in 1 .. N + 1 /\ \A i \in 1 .. N : i \in 1 .. N + 1
      BY <1>1
    <3> QED BY <3>1, <3>2, <2>2, <1>1, <1>3 DEF Range
  <2> QED BY <2>2, <2>3, <2>4 DEF p
<1> QED BY <1>2, <1>3

\* WithMetadata puts the attributes one after the other.
PutAll(old, u) == FoldLeft(Put, old, u)

LEMMA PutSteps ==
  ASSUME NEW A, NEW old \in Seq(A), NEW u \in Seq(A)
  PROVE  \E f \in [0 .. Len(u) -> Seq(A)] :
           /\ f[0] = old /\ f[Len(u)] = PutAll(old, u)
           /\ \A i \in 1 .. Len(u) : f[i] = Put(f[i - 1], u[i])
<1> DEFINE N == Len(u)
           V == Seq(A)
           Next1Put(g, T) == Put(g[T \ {Max(T)}], u[Max(T)])
           IsPut(g) == g = [T \in SUBSET (1 .. N) |-> IF T = {} THEN old ELSE Next1Put(g, T)]
<1>1. N \in Nat /\ DOMAIN u = 1 .. N /\ \A i \in 1 .. N : u[i] \in A
  BY LenProperties, ElementOfSeq
<1>2. \A x \in V, i \in 1 .. N : Put(x, u[i]) \in V
  BY <1>1, PutReplaces
<1>3. \E g : IsPut(g)
  <2> DEFINE F == [i \in 1 .. N |-> [x \in V |-> Put(x, u[i])]]
  <2>1. old \in V
    OBVIOUS
  <2> HIDE DEF N, V
  <2>2. F \in [1 .. N -> [V -> V]] /\ \A i \in 1 .. N, x \in V : F[i][x] = Put(x, u[i])
    BY <1>2
  <2> HIDE DEF F
  <2>3. HasFold(N, V, old, F)
    BY <1>1, <2>1, <2>2, FoldExists
  <2>4. PICK g \in [SUBSET (1 .. N) -> V] :
          g = [T \in SUBSET (1 .. N) |-> IF T = {} THEN old ELSE F[Max(T)][g[T \ {Max(T)}]]]
    BY <2>3 DEF HasFold
  <2>5. ASSUME NEW T \in SUBSET (1 .. N), T # {} PROVE F[Max(T)][g[T \ {Max(T)}]] = Next1Put(g, T)
    <3>1. Max(T) \in 1 .. N /\ g[T \ {Max(T)}] \in V
      BY <1>1, <2>5, MaxIsGreatest
    <3> QED BY <3>1, <2>2
  <2> HIDE DEF Next1Put
  <2>6. [T \in SUBSET (1 .. N) |-> IF T = {} THEN old ELSE F[Max(T)][g[T \ {Max(T)}]]]
          = [T \in SUBSET (1 .. N) |-> IF T = {} THEN old ELSE Next1Put(g, T)]
    BY <2>5
  <2> QED BY <2>4, <2>6
<1> DEFINE G == CHOOSE g : IsPut(g)
<1>4. IsPut(G)
  <2> HIDE DEF IsPut
  <2> QED BY <1>3
<1>5. PutAll(old, u) = G[1 .. N]
  <2>1. PutAll(old, u) =
          (CHOOSE g : g = [T \in SUBSET DOMAIN u |-> IF T = {} THEN old ELSE Put(g[T \ {Max(T)}], u[Max(T)])])[DOMAIN u]
    BY DEF PutAll, FoldLeft, MapThenFoldSet
  <2> QED BY <2>1, <1>1
<1> HIDE DEF G
<1>6. G[{}] = old /\ \A i \in 1 .. N : G[1 .. i] = Put(G[1 .. i - 1], u[i])
  <2>1. G[{}] = old
    BY <1>4
  <2>2. ASSUME NEW i \in 1 .. N PROVE G[1 .. i] = Put(G[1 .. i - 1], u[i])
    <3>1. Max(1 .. i) = i /\ (1 .. i) \ {i} = 1 .. (i - 1) /\ 1 .. i # {}
      BY MaxUpTo
    <3>2. 1 .. i \in SUBSET (1 .. N)
      BY <1>1
    <3>3. G[1 .. i] = Next1Put(G, 1 .. i)
      <4> HIDE DEF Next1Put
      <4> QED BY <1>4, <3>1, <3>2
    <3> QED BY <3>1, <3>3
  <2> QED BY <2>1, <2>2
<1> DEFINE f == [i \in 0 .. N |-> G[1 .. i]]
<1>7. f[0] = old /\ f[N] = PutAll(old, u) /\ \A i \in 1 .. N : f[i] = Put(f[i - 1], u[i])
  <2>1. 1 .. 0 = {}
    OBVIOUS
  <2> HIDE DEF N
  <2>2. 0 \in 0 .. N /\ N \in 0 .. N /\ \A i \in 1 .. N : i \in 0 .. N /\ i - 1 \in 0 .. N
    BY <1>1
  <2> QED BY <1>5, <1>6, <2>1, <2>2
<1>8. f \in [0 .. N -> V]
  <2> DEFINE Typed == {i \in 0 .. N : f[i] \in V}
  <2>1. 0 \in Typed
    BY <1>1, <1>7
  <2>2. ASSUME NEW i \in 1 .. N, i - 1 \in Typed PROVE i \in Typed
    <3> HIDE DEF f, V, N
    <3>1. f[i - 1] \in V /\ f[i] = Put(f[i - 1], u[i])
      BY <1>7, <2>2
    <3>2. f[i] \in V
      BY <3>1, <1>2
    <3> QED BY <3>2, <1>1
  <2> HIDE DEF Typed
  <2>3. \A i \in 0 .. N : i \in Typed
    <3> HIDE DEF N
    <3> QED BY <1>1, <2>1, <2>2, Climb
  <2>4. \A i \in 0 .. N : f[i] \in V
    <3> HIDE DEF f, V
    <3> QED BY <2>3 DEF Typed
  <2> HIDE DEF N, V
  <2> QED BY <2>4
<1> HIDE DEF f
<1> QED BY <1>7, <1>8

\* A handler's metadata after WithAttrs: what has no newer attribute of its key stays, and
\* the latest of the new ones come to it.
LEMMA WithMetadataKeeps ==
  ASSUME NEW A, NEW old \in Seq(A), NEW new \in Seq(A)
  PROVE  /\ WithMetadata(old, new) \in Seq(A)
         /\ KeysDiffer(old) =>
              /\ KeysDiffer(WithMetadata(old, new))
              /\ Range(WithMetadata(old, new)) = {x \in Range(old) : x.key \notin KeysOf(new)} \cup LatestOf(new)
<1> DEFINE u == UniqByLast(new)
           N == Len(u)
<1>1. u \in Seq(A) /\ KeysDiffer(u) /\ Range(u) = LatestOf(new) /\ KeysOf(u) = KeysOf(new)
  BY UniqKeepsLast
<1> HIDE DEF u
<1>2. N \in Nat /\ DOMAIN u = 1 .. N /\ \A i \in 1 .. N : u[i] \in A
  BY <1>1, LenProperties, ElementOfSeq
<1>3. PICK f \in [0 .. N -> Seq(A)] :
        /\ f[0] = old /\ f[N] = PutAll(old, u)
        /\ \A i \in 1 .. N : f[i] = Put(f[i - 1], u[i])
  <2>1. \A v \in Seq(A) :
          \E f \in [0 .. Len(v) -> Seq(A)] :
            /\ f[0] = old /\ f[Len(v)] = PutAll(old, v)
            /\ \A i \in 1 .. Len(v) : f[i] = Put(f[i - 1], v[i])
    BY PutSteps
  <2> QED BY <2>1, <1>1
<1>4. WithMetadata(old, new) = f[N]
  BY <1>3 DEF WithMetadata, PutAll, u
<1>5. f[N] \in Seq(A)
  <2> HIDE DEF N
  <2> QED BY <1>2, <1>3
<1>6. ASSUME KeysDiffer(old)
      PROVE  KeysDiffer(f[N]) /\ Range(f[N]) = {x \in Range(old) : x.key \notin KeysOf(new)} \cup LatestOf(new)
  <2> HIDE DEF N
  <2> DEFINE Left(i) == {x \in Range(old) : \A j \in 1 .. i : u[j].key # x.key}
             Added(i) == {u[j] : j \in 1 .. i}
             Put1(i) == KeysDiffer(f[i]) /\ Range(f[i]) = Left(i) \cup Added(i)
             Reached == {i \in 0 .. N : Put1(i)}
  <2>1. 0 \in Reached
    BY <1>2, <1>3, <1>6
  <2>2. ASSUME NEW i \in 1 .. N, i - 1 \in Reached PROVE i \in Reached
    <3>1. /\ f[i - 1] \in Seq(A) /\ u[i] \in A /\ f[i] = Put(f[i - 1], u[i])
          /\ KeysDiffer(f[i - 1]) /\ Range(f[i - 1]) = Left(i - 1) \cup Added(i - 1)
      BY <1>2, <1>3, <2>2
    <3>2. KeysDiffer(f[i]) /\ Range(f[i]) = {x \in Range(f[i - 1]) : x.key # u[i].key} \cup {u[i]}
      <4>1. \A o \in Seq(A), a \in A : KeysDiffer(o) =>
              /\ KeysDiffer(Put(o, a))
              /\ Range(Put(o, a)) = {x \in Range(o) : x.key # a.key} \cup {a}
        BY PutReplaces
      <4> HIDE DEF Left, Added
      <4> QED BY <3>1, <4>1
    <3>3. \A j \in Int : j \in 1 .. i <=> j \in 1 .. i - 1 \/ j = i
      BY <1>2
    <3>4. Left(i) = {x \in Left(i - 1) : x.key # u[i].key}
      BY <3>3
    <3>5. Added(i) = Added(i - 1) \cup {u[i]}
      BY <3>3
    <3>6. \A x \in Added(i - 1) : x.key # u[i].key
      <4> SUFFICES ASSUME NEW j \in 1 .. i - 1 PROVE u[j].key # u[i].key
        OBVIOUS
      <4>1. j \in 1 .. N /\ j # i
        BY <1>2
      <4> QED BY <4>1, <1>1 DEF KeysDiffer, N
    <3> HIDE DEF Left, Added
    <3>7. Range(f[i]) = Left(i) \cup Added(i)
      BY <3>1, <3>2, <3>4, <3>5, <3>6
    <3> QED BY <3>2, <3>7
  <2> HIDE DEF Reached
  <2>3. N \in Reached
    <3>1. \A i \in 0 .. N : i \in Reached
      BY <1>2, <2>1, <2>2, Climb
    <3> QED BY <3>1, <1>2
  <2>4. KeysDiffer(f[N]) /\ Range(f[N]) = Left(N) \cup Added(N)
    BY <2>3 DEF Reached
  <2>5. Added(N) = LatestOf(new)
    BY <1>1, <1>2 DEF Range
  <2>6. Left(N) = {x \in Range(old) : x.key \notin KeysOf(new)}
    <3>1. KeysOf(new) = {u[j].key : j \in 1 .. N}
      BY <1>1 DEF KeysOf, N
    <3> QED BY <3>1
  <2> HIDE DEF Left, Added
  <2> QED BY <2>4, <2>5, <2>6
<1> QED BY <1>4, <1>5, <1>6

\* The latest attributes of two sequences, one after the other.
LEMMA LatestOfBoth ==
  ASSUME NEW A, NEW all \in Seq(A), NEW new \in Seq(A)
  PROVE  LatestOf(all \o new) = {x \in LatestOf(all) : x.key \notin KeysOf(new)} \cup LatestOf(new)
<1> DEFINE L == Len(all)
           M == Len(new)
           s == all \o new
<1>1. L \in Nat /\ M \in Nat
  BY LenProperties
<1>2. /\ s \in Seq(A) /\ Len(s) = L + M
      /\ \A i \in 1 .. L : s[i] = all[i]
      /\ \A i \in 1 .. M : s[L + i] = new[i]
  <2>1. s \in Seq(A) /\ Len(s) = L + M /\ \A i \in 1 .. L + M : s[i] = IF i <= L THEN all[i] ELSE new[i - L]
    BY ConcatProperties
  <2> HIDE DEF L, M, s
  <2>2. \A i \in 1 .. L : i \in 1 .. L + M /\ i <= L
    BY <1>1
  <2>3. \A i \in 1 .. M : L + i \in 1 .. L + M /\ ~(L + i <= L) /\ (L + i) - L = i
    BY <1>1
  <2> QED BY <2>1, <2>2, <2>3
<1> HIDE DEF s
<1>3. ASSUME NEW i \in 1 .. M PROVE L + i \in LastsOf(s) <=> i \in LastsOf(new)
  <2> HIDE DEF L, M
  <2>1. L + i \in 1 .. L + M
    BY <1>1
  <2>2. ASSUME L + i \in LastsOf(s) PROVE i \in LastsOf(new)
    <3>1. ASSUME NEW j \in i + 1 .. M PROVE new[j].key # new[i].key
      <4>1. L + j \in (L + i) + 1 .. L + M /\ j \in 1 .. M
        BY <1>1
      <4>2. s[L + j].key # s[L + i].key
        BY <4>1, <2>2, <1>2 DEF LastsOf
      <4> QED BY <4>1, <4>2, <1>2
    <3> QED BY <3>1 DEF LastsOf, M
  <2>3. ASSUME i \in LastsOf(new) PROVE L + i \in LastsOf(s)
    <3>1. ASSUME NEW j \in (L + i) + 1 .. L + M PROVE s[j].key # s[L + i].key
      <4>1. j - L \in i + 1 .. M /\ j - L \in 1 .. M /\ L + (j - L) = j
        BY <1>1
      <4>2. new[j - L].key # new[i].key
        BY <4>1, <2>3 DEF LastsOf, M
      <4>3. s[L + (j - L)] = new[j - L] /\ s[L + i] = new[i]
        BY <4>1, <1>2
      <4> QED BY <4>1, <4>2, <4>3
    <3> QED BY <3>1, <2>1, <1>2 DEF LastsOf
  <2> QED BY <2>2, <2>3
<1>4. ASSUME NEW i \in 1 .. L PROVE i \in LastsOf(s) <=> i \in LastsOf(all) /\ all[i].key \notin KeysOf(new)
  <2> HIDE DEF L, M
  <2>1. i \in 1 .. L + M /\ s[i] = all[i]
    BY <1>1, <1>2
  <2>2. ASSUME i \in LastsOf(s) PROVE i \in LastsOf(all) /\ all[i].key \notin KeysOf(new)
    <3>1. \A j \in i + 1 .. L + M : s[j].key # all[i].key
      BY <2>1, <2>2, <1>2 DEF LastsOf
    <3>2. ASSUME NEW j \in i + 1 .. L PROVE all[j].key # all[i].key
      <4>1. j \in i + 1 .. L + M /\ j \in 1 .. L
        BY <1>1
      <4> QED BY <4>1, <3>1, <1>2
    <3>3. ASSUME NEW j \in 1 .. M PROVE new[j].key # all[i].key
      <4>1. L + j \in i + 1 .. L + M
        BY <1>1
      <4> QED BY <4>1, <3>1, <1>2
    <3> QED BY <3>2, <3>3 DEF LastsOf, KeysOf, L, M
  <2>3. ASSUME i \in LastsOf(all), all[i].key \notin KeysOf(new) PROVE i \in LastsOf(s)
    <3>1. ASSUME NEW j \in i + 1 .. L + M PROVE s[j].key # all[i].key
      <4>1. CASE j <= L
        <5>1. j \in i + 1 .. L /\ j \in 1 .. L
          BY <4>1, <1>1
        <5>2. all[j].key # all[i].key
          BY <5>1, <2>3 DEF LastsOf, L
        <5> QED BY <5>1, <5>2, <1>2
      <4>2. CASE ~(j <= L)
        <5>1. j - L \in 1 .. M /\ L + (j - L) = j
          BY <4>2, <1>1
        <5>2. new[j - L].key # all[i].key
          BY <5>1, <2>3 DEF KeysOf, M
        <5>3. s[L + (j - L)] = new[j - L]
          BY <5>1, <1>2
        <5> QED BY <5>1, <5>2, <5>3
      <4> QED BY <4>1, <4>2
    <3> QED BY <3>1, <2>1, <1>2 DEF LastsOf
  <2> QED BY <2>2, <2>3
<1>5. ASSUME NEW x \in LatestOf(s)
      PROVE  x \in {y \in LatestOf(all) : y.key \notin KeysOf(new)} \cup LatestOf(new)
  <2>1. PICK i \in LastsOf(s) : x = s[i]
    BY <1>5 DEF LatestOf
  <2>2. i \in 1 .. L + M
    BY <2>1, <1>2 DEF LastsOf
  <2>3. CASE i <= L
    <3>1. i \in 1 .. L
      BY <2>2, <2>3, <1>1
    <3> QED BY <3>1, <2>1, <1>2, <1>4 DEF LatestOf
  <2>4. CASE ~(i <= L)
    <3>1. i - L \in 1 .. M /\ L + (i - L) = i
      BY <2>2, <2>4, <1>1
    <3>2. i - L \in LastsOf(new)
      BY <3>1, <1>3, <2>1
    <3>3. s[L + (i - L)] = new[i - L]
      BY <3>1, <1>2
    <3> QED BY <2>1, <3>1, <3>2, <3>3 DEF LatestOf
  <2> QED BY <2>3, <2>4
<1>6. ASSUME NEW x \in LatestOf(all), x.key \notin KeysOf(new) PROVE x \in LatestOf(s)
  <2>1. PICK i \in LastsOf(all) : x = all[i]
    BY DEF LatestOf
  <2>2. i \in 1 .. L
    BY DEF LastsOf
  <2> QED BY <2>1, <2>2, <1>2, <1>4, <1>6 DEF LatestOf
<1>7. ASSUME NEW x \in LatestOf(new) PROVE x \in LatestOf(s)
  <2>1. PICK i \in LastsOf(new) : x = new[i]
    BY DEF LatestOf
  <2>2. i \in 1 .. M
    BY DEF LastsOf
  <2>3. L + i \in LastsOf(s) /\ s[L + i] = x
    BY <2>1, <2>2, <1>2, <1>3
  <2> QED BY <2>3 DEF LatestOf
<1> QED BY <1>5, <1>6, <1>7 DEF s

\* A sequence whose keys differ is as long as it has elements.
LEMMA KeysDifferLen ==
  ASSUME NEW A, NEW s \in Seq(A), KeysDiffer(s)
  PROVE  Len(s) = Cardinality(Range(s))
<1> DEFINE N == Len(s)
<1>1. N \in Nat /\ DOMAIN s = 1 .. N /\ s \in [1 .. N -> A]
  BY LenProperties, SeqDef
<1> HIDE DEF N
<1>2. IsFiniteSet(1 .. N) /\ Cardinality(1 .. N) = N
  <2>1. Cardinality(1 .. N) = IF 1 > N THEN 0 ELSE N - 1 + 1
    BY <1>1, FS_Interval
  <2> QED BY <2>1, <1>1, FS_Interval
<1>3. s \in [1 .. N -> Range(s)] /\ (\A y \in Range(s) : \E i \in 1 .. N : s[i] = y)
  BY <1>1 DEF Range
<1>4. \A i, j \in 1 .. N : s[i] = s[j] => i = j
  BY DEF KeysDiffer, N
<1>5. s \in Bijection(1 .. N, Range(s))
  BY <1>1, <1>3, <1>4 DEF Bijection, Injection, Surjection, IsInjective
<1>6. ExistsBijection(1 .. N, Range(s))
  BY <1>5 DEF ExistsBijection
<1> QED BY <1>2, <1>6, FS_Bijection DEF N

-----------------------------------------------------------------------------
\* What holds all along.

\* Metadata: a handler shows the latest of what it was given.
KeyType == ({"anonymous"} \X Nat) \cup ({"name"} \X Names)
AttrType == [key : KeyType, value : Writers \X Nat]

MetaInv ==
  /\ stage \in [Writers -> {"ready", "key", "stored", "handle", "done"}]
  /\ anonymousKey \in Nat
  /\ loaded \in [Writers -> Nat]
  /\ attrs \in [Writers -> Seq(AttrType)]
  /\ given \in [Writers -> Seq(AttrType)]
  /\ metadata \in [Writers -> Seq(AttrType)]
  /\ \A g \in Writers : KeysDiffer(metadata[g]) /\ Range(metadata[g]) = LatestOf(given[g])

\* Anonymous keys.  Of two goroutines that make one at a time both are in raced; what is
\* not in raced has a number that nobody will make again: not the one who has read the
\* counter, who adds one, nor the one who has written it alone.
All(g) == given[g] \o attrs[g]
Fresh(g, i) == <<g, i>> \notin raced /\ All(g)[i].key[1] = "anonymous"
Number(g, i) == All(g)[i].key[2]

KeyInv ==
  /\ \A g, h \in MakingKey : g # h => Next1(g) \in raced
  /\ \A g \in Writers : \A i \in 1 .. Made(g) : Fresh(g, i) =>
       /\ Number(g, i) <= anonymousKey
       /\ \A h \in Writers :
            /\ stage[h] = "key" => Number(g, i) <= loaded[h]
            /\ stage[h] = "stored" /\ Next1(h) \notin raced => Number(g, i) < anonymousKey
            /\ \A j \in 1 .. Made(h) : Fresh(h, j) /\ Number(g, i) = Number(h, j) => <<g, i>> = <<h, j>>

\* Records.  What is said, what the call in progress offers and what is still to do are the
\* whole record, as long as no call has failed; and a record that fits the buffer does not
\* leave it before the last Flush.
Short(g) == record[g] <= Size /\ ~torn[g]
InCall(g) == IF pc[g] = "idle" THEN 0 ELSE op[g].len
Blank(g) ==
  /\ pc[g] = "idle" /\ data[g] = <<>> /\ r[g] = 0 /\ said[g] = 0 /\ answer[g] = "nil"
  /\ out[g] = <<>> /\ record[g] = 0 /\ ~freed[g] /\ ~torn[g] /\ ~broken[g]

Recorded(g) ==
  /\ ~passed[g]
  /\ op[g].name \in {"WriteByte", "WriteString", "Flush"} /\ (op[g].name = "Flush" => op[g].len = 0)
  /\ answer[g] # "read"
  /\ told[g] # "nil" => torn[g]
  /\ broken[g] => ~Short(g)
  /\ stage[g] \in {"ready", "handle", "done"}
  /\ stage[g] = "ready" => Blank(g)
  /\ stage[g] = "handle" =>
       /\ ~freed[g]
       /\ pc[g] # "idle" => answer[g] = "nil"
       /\ answer[g] = "nil" => said[g] + InCall(g) + SumLen(todo[g]) = record[g]
       /\ Short(g) => pc[g] = "idle" /\ out[g] = <<>> /\ r[g] = 0
  /\ stage[g] = "done" =>
       /\ op[g].name = "Flush"
       /\ told[g] = "nil" => said[g] = record[g]
       /\ Short(g) /\ pc[g] = "flush" => out[g] = <<>>
       /\ lost[g] # <<>> => torn[g]

Noted(g) ==
  /\ jammed[g] \/ answer[g] \in {"sink", "short"} \/ pc[g] = "failed" => torn[g]
  /\ stage[g] \in {"handle", "done"} => role[g] = "log"
  /\ role[g] = "log" => Recorded(g)

RecordInv ==
  /\ todo \in [Writers -> Seq(Piece)]
  /\ record \in [Writers -> Nat]
  /\ told \in [Writers -> Errors]
  /\ torn \in [Writers -> BOOLEAN]
  /\ broken \in [Writers -> BOOLEAN]
  /\ \A g \in Writers : Noted(g)

LogInv == Inv /\ MetaInv /\ KeyInv /\ RecordInv

-----------------------------------------------------------------------------
\* Metadata.

\* What a goroutine has made, of its types.
LEMMA MadeType ==
  ASSUME MetaInv, NEW g \in Writers
  PROVE  /\ attrs[g] \in Seq(AttrType) /\ given[g] \in Seq(AttrType) /\ metadata[g] \in Seq(AttrType)
         /\ Len(attrs[g]) \in Nat /\ Len(given[g]) \in Nat /\ Len(metadata[g]) \in Nat
         /\ All(g) \in Seq(AttrType) /\ Made(g) \in Nat /\ Len(All(g)) = Made(g)
         /\ Next1(g) = <<g, Made(g) + 1>> /\ Next1(g) \in Writers \X Nat
         /\ \A i \in 1 .. Len(given[g]) : i \in 1 .. Made(g) /\ All(g)[i] = given[g][i]
         /\ \A i \in 1 .. Made(g) : /\ All(g)[i] \in AttrType
                                    /\ All(g)[i].key[1] = "anonymous" => All(g)[i].key[2] \in Nat
<1>1. /\ attrs[g] \in Seq(AttrType) /\ given[g] \in Seq(AttrType) /\ metadata[g] \in Seq(AttrType)
      /\ Len(attrs[g]) \in Nat /\ Len(given[g]) \in Nat /\ Len(metadata[g]) \in Nat
  <2>1. attrs[g] \in Seq(AttrType) /\ given[g] \in Seq(AttrType) /\ metadata[g] \in Seq(AttrType)
    BY DEF MetaInv
  <2> QED BY <2>1, LenProperties
<1>2. /\ All(g) \in Seq(AttrType) /\ Len(All(g)) = Made(g) /\ Made(g) = Len(given[g]) + Len(attrs[g])
      /\ \A i \in 1 .. Len(given[g]) + Len(attrs[g]) : i <= Len(given[g]) => All(g)[i] = given[g][i]
  <2>1. \A x, y \in Seq(AttrType) :
          /\ x \o y \in Seq(AttrType) /\ Len(x \o y) = Len(x) + Len(y)
          /\ \A i \in 1 .. Len(x) + Len(y) : (x \o y)[i] = IF i <= Len(x) THEN x[i] ELSE y[i - Len(x)]
    BY ConcatProperties
  <2>2. All(g) = given[g] \o attrs[g] /\ Made(g) = Len(given[g]) + Len(attrs[g])
    BY DEF All, Made
  <2> QED BY <2>1, <2>2, <1>1, Zenon
<1>3. Made(g) \in Nat /\ \A i \in 1 .. Len(given[g]) : i \in 1 .. Made(g) /\ i <= Len(given[g])
  <2> DEFINE N == Len(given[g])
             M == Len(attrs[g])
  <2>1. N \in Nat /\ M \in Nat /\ Made(g) = N + M
    BY <1>1, <1>2
  <2> HIDE DEF N, M
  <2>2. Made(g) \in Nat /\ \A i \in 1 .. N : i \in 1 .. Made(g) /\ i <= N
    BY <2>1
  <2> QED BY <2>2 DEF N
<1>4. \A i \in 1 .. Made(g) : All(g)[i] \in AttrType
  BY <1>2, ElementOfSeq
<1>5. \A a \in AttrType : a.key[1] = "anonymous" => a.key[2] \in Nat
  <2>1. \A k \in KeyType : k[1] = "anonymous" => k[2] \in Nat
    BY DEF KeyType
  <2> QED BY <2>1 DEF AttrType
<1>6. Next1(g) = <<g, Made(g) + 1>> /\ Next1(g) \in Writers \X Nat
  BY <1>3 DEF Next1
<1>7. \A i \in 1 .. Len(given[g]) : i \in 1 .. Made(g) /\ All(g)[i] = given[g][i]
  BY <1>2, <1>3
<1> QED BY <1>1, <1>2, <1>3, <1>4, <1>5, <1>6, <1>7

\* One more attribute.
LEMMA MakeAppends ==
  ASSUME MetaInv, NEW g \in Writers, NEW key \in KeyType, Make(g, key)
  PROVE  /\ attrs' \in [Writers -> Seq(AttrType)]
         /\ Made(g)' = Made(g) + 1
         /\ \A i \in 1 .. Made(g) : All(g)'[i] = All(g)[i]
         /\ All(g)'[Made(g) + 1].key = key
         /\ \A h \in Writers \ {g} : Made(h)' = Made(h) /\ All(h)' = All(h)
<1> DEFINE a == Attr(key, Next1(g))
           s == given[g]
           t == attrs[g]
<1>1. a \in AttrType /\ a.key = key
  <2>1. Next1(g) \in Writers \X Nat
    BY MadeType
  <2> QED BY <2>1 DEF Attr, AttrType
<1>2. attrs' = [attrs EXCEPT ![g] = Append(@, a)] /\ given' = given
  BY DEF Make, metaVars
<1> HIDE DEF a
<1>3. s \in Seq(AttrType) /\ t \in Seq(AttrType) /\ Len(s) \in Nat /\ Len(t) \in Nat
  BY MadeType
<1>4. /\ Append(t, a) \in Seq(AttrType) /\ Len(Append(t, a)) = Len(t) + 1
      /\ \A i \in 1 .. Len(t) : Append(t, a)[i] = t[i]
      /\ Append(t, a)[Len(t) + 1] = a
  BY <1>1, <1>3, AppendProperties
<1>5. /\ attrs'[g] = Append(t, a)
      /\ \A h \in Writers \ {g} : attrs'[h] = attrs[h]
      /\ attrs' \in [Writers -> Seq(AttrType)]
  BY <1>2, <1>4 DEF MetaInv
<1>6. /\ \A i \in 1 .. Len(s) + Len(t) :
           (s \o t)[i] = IF i <= Len(s) THEN s[i] ELSE t[i - Len(s)]
      /\ \A i \in 1 .. Len(s) + (Len(t) + 1) :
           (s \o Append(t, a))[i] = IF i <= Len(s) THEN s[i] ELSE Append(t, a)[i - Len(s)]
  <2>1. \A x, y \in Seq(AttrType) : \A i \in 1 .. Len(x) + Len(y) :
          (x \o y)[i] = IF i <= Len(x) THEN x[i] ELSE y[i - Len(x)]
    BY ConcatProperties
  <2> QED BY <2>1, <1>3, <1>4
<1>7. Made(g) = Len(s) + Len(t) /\ All(g) = s \o t /\ Made(g)' = Len(s) + (Len(t) + 1) /\ All(g)' = s \o Append(t, a)
  BY <1>2, <1>4, <1>5 DEF Made, All
<1>8. \A h \in Writers \ {g} : Made(h)' = Made(h) /\ All(h)' = All(h)
  BY <1>2, <1>5 DEF Made, All
<1> HIDE DEF s, t
<1>9. ASSUME NEW i \in 1 .. Len(s) + Len(t) PROVE (s \o Append(t, a))[i] = (s \o t)[i]
  <2>1. i \in 1 .. Len(s) + (Len(t) + 1)
    BY <1>3
  <2>2. CASE i <= Len(s)
    BY <2>1, <2>2, <1>6
  <2>3. CASE ~(i <= Len(s))
    <3>1. i - Len(s) \in 1 .. Len(t)
      BY <2>3, <1>3
    <3> QED BY <2>1, <2>3, <3>1, <1>4, <1>6
  <2> QED BY <2>2, <2>3
<1>10. (s \o Append(t, a))[Len(s) + Len(t) + 1] = a
  <2>1. /\ Len(s) + Len(t) + 1 \in 1 .. Len(s) + (Len(t) + 1)
        /\ ~(Len(s) + Len(t) + 1 <= Len(s)) /\ (Len(s) + Len(t) + 1) - Len(s) = Len(t) + 1
    BY <1>3
  <2> QED BY <2>1, <1>4, <1>6
<1>11. Made(g)' = Made(g) + 1
  BY <1>3, <1>7
<1> QED BY <1>1, <1>5, <1>7, <1>8, <1>9, <1>10, <1>11

\* WithAttrs keeps what was made.
LEMMA WithAttrsKeeps ==
  ASSUME MetaInv, NEW g \in Writers, WithAttrs(g)
  PROVE  /\ attrs' \in [Writers -> Seq(AttrType)] /\ given' \in [Writers -> Seq(AttrType)]
         /\ metadata' = [metadata EXCEPT ![g] = WithMetadata(@, attrs[g])]
         /\ given'[g] = given[g] \o attrs[g]
         /\ \A h \in Writers \ {g} : given'[h] = given[h]
         /\ \A h \in Writers : Made(h)' = Made(h) /\ All(h)' = All(h)
<1>1. /\ metadata' = [metadata EXCEPT ![g] = WithMetadata(@, attrs[g])]
      /\ given' = [given EXCEPT ![g] = @ \o attrs[g]]
      /\ attrs' = [attrs EXCEPT ![g] = <<>>]
  BY DEF WithAttrs
<1>2. /\ attrs[g] \in Seq(AttrType) /\ given[g] \in Seq(AttrType) /\ All(g) \in Seq(AttrType)
      /\ Len(All(g)) = Made(g) /\ All(g) = given[g] \o attrs[g]
  BY MadeType DEF All
<1>3. /\ attrs' \in [Writers -> Seq(AttrType)] /\ given' \in [Writers -> Seq(AttrType)]
      /\ given'[g] = All(g) /\ attrs'[g] = <<>>
      /\ \A h \in Writers \ {g} : given'[h] = given[h] /\ attrs'[h] = attrs[h]
  <2>1. <<>> \in Seq(AttrType)
    BY EmptySeq
  <2> HIDE DEF All
  <2> QED BY <1>1, <1>2, <2>1 DEF MetaInv
<1>4. All(g) \o <<>> = All(g) /\ Len(All(g)) + Len(<<>>) = Made(g)
  <2>1. Made(g) \in Nat
    BY MadeType
  <2> QED BY <1>2, <2>1, ConcatEmptySeq, EmptySeq
<1>5. Made(g)' = Made(g) /\ All(g)' = All(g)
  <2>1. All(g)' = given'[g] \o attrs'[g] /\ Made(g)' = Len(given'[g]) + Len(attrs'[g])
    BY DEF All, Made
  <2> QED BY <2>1, <1>3, <1>4
<1>6. \A h \in Writers \ {g} : Made(h)' = Made(h) /\ All(h)' = All(h)
  BY <1>3 DEF All, Made
<1> QED BY <1>1, <1>2, <1>3, <1>5, <1>6

\* The steps that make no metadata.
RecordStep(g) ==
  \/ \E h \in Writers, rec \in Records : StartHandle(g, h, rec)
  \/ Format(g) \/ FreeState(g) \/ ReleaseState(g) \/ Proceeds(g) \/ Uses(g)

LEMMA RecordFrame ==
  ASSUME MetaInv, NEW g \in Writers, RecordStep(g)
  PROVE  /\ UNCHANGED metaVars /\ UNCHANGED role
         /\ stage' \in [Writers -> {"ready", "key", "stored", "handle", "done"}]
         /\ \A h \in Writers : stage'[h] \in {"key", "stored"} \/ stage[h] \in {"key", "stored"}
                                  => stage'[h] = stage[h]
         /\ \A h \in Writers \ {g} : stage'[h] = stage[h]
<1>1. UNCHANGED metaVars /\ UNCHANGED role
  BY DEF RecordStep, StartHandle, Format, FreeState, ReleaseState, Proceeds, Uses, logVars
<1>2. \/ stage' = stage
      \/ stage[g] = "ready" /\ stage' = [stage EXCEPT ![g] = "handle"]
      \/ stage[g] = "handle" /\ stage' = [stage EXCEPT ![g] = "done"]
  BY DEF RecordStep, StartHandle, Format, FreeState, ReleaseState, Proceeds, Uses, logVars
<1> QED BY <1>1, <1>2 DEF MetaInv

LEMMA MetaStep ==
  ASSUME MetaInv, NEW g \in Writers,
         \/ LoadKey(g) \/ StoreKey(g) \/ NewFixedMetadata(g) \/ WithAttrs(g)
         \/ \E name \in Names : NewMetadata(g, name)
         \/ RecordStep(g)
  PROVE  MetaInv'
<1>1. CASE LoadKey(g)
  BY <1>1 DEF LoadKey, MetaInv
<1>2. CASE StoreKey(g)
  <2>1. loaded[g] + 1 \in Nat
    BY DEF MetaInv
  <2> QED BY <1>2, <2>1 DEF StoreKey, MetaInv
<1>3. ASSUME NEW key \in KeyType, Make(g, key) PROVE MetaInv'
  BY <1>3, MakeAppends DEF Make, MetaInv
<1>4. CASE NewFixedMetadata(g)
  <2>1. Anonymous(anonymousKey) \in KeyType
    BY DEF MetaInv, KeyType, Anonymous
  <2> QED BY <1>3, <1>4, <2>1 DEF NewFixedMetadata
<1>5. ASSUME NEW name \in Names, NewMetadata(g, name) PROVE MetaInv'
  <2>1. <<"name", name>> \in KeyType
    BY DEF KeyType
  <2> QED BY <1>3, <1>5, <2>1 DEF NewMetadata
<1>6. CASE WithAttrs(g)
  <2>1. /\ attrs' \in [Writers -> Seq(AttrType)] /\ given' \in [Writers -> Seq(AttrType)]
        /\ metadata' = [metadata EXCEPT ![g] = WithMetadata(@, attrs[g])]
        /\ given'[g] = given[g] \o attrs[g]
        /\ \A h \in Writers \ {g} : given'[h] = given[h]
    BY <1>6, WithAttrsKeeps
  <2>2. attrs[g] \in Seq(AttrType) /\ given[g] \in Seq(AttrType) /\ metadata[g] \in Seq(AttrType)
    BY MadeType
  <2> DEFINE m == WithMetadata(metadata[g], attrs[g])
  <2>3. m \in Seq(AttrType) /\ KeysDiffer(m) /\ Range(m) = LatestOf(given[g] \o attrs[g])
    <3>1. KeysDiffer(metadata[g]) /\ Range(metadata[g]) = LatestOf(given[g])
      BY DEF MetaInv
    <3>2. /\ m \in Seq(AttrType) /\ KeysDiffer(m)
          /\ Range(m) = {x \in Range(metadata[g]) : x.key \notin KeysOf(attrs[g])} \cup LatestOf(attrs[g])
      BY <2>2, <3>1, WithMetadataKeeps
    <3>3. LatestOf(given[g] \o attrs[g]) = {x \in LatestOf(given[g]) : x.key \notin KeysOf(attrs[g])} \cup LatestOf(attrs[g])
      BY <2>2, LatestOfBoth
    <3> HIDE DEF m
    <3> QED BY <3>1, <3>2, <3>3
  <2> HIDE DEF m
  <2>4. /\ metadata' \in [Writers -> Seq(AttrType)] /\ metadata'[g] = m
        /\ \A h \in Writers \ {g} : metadata'[h] = metadata[h]
    BY <2>1, <2>3 DEF MetaInv, m
  <2>5. ASSUME NEW h \in Writers PROVE KeysDiffer(metadata'[h]) /\ Range(metadata'[h]) = LatestOf(given'[h])
    BY <2>1, <2>3, <2>4 DEF MetaInv
  <2>6. stage' = stage /\ anonymousKey' = anonymousKey /\ loaded' = loaded
    BY <1>6 DEF WithAttrs
  <2> QED BY <2>1, <2>4, <2>5, <2>6 DEF MetaInv
<1>7. CASE RecordStep(g)
  BY <1>7, RecordFrame DEF MetaInv, metaVars
<1> QED BY <1>1, <1>2, <1>4, <1>5, <1>6, <1>7

-----------------------------------------------------------------------------
\* Anonymous keys.

\* A step that makes nothing and lets nobody read or write the counter keeps KeyInv.
LEMMA KeyKept ==
  ASSUME KeyInv, anonymousKey' = anonymousKey, loaded' = loaded, raced' = raced,
         \A h \in Writers : Made(h)' = Made(h) /\ All(h)' = All(h),
         \A h \in Writers : stage'[h] \in {"key", "stored"} \/ stage[h] \in {"key", "stored"}
                               => stage'[h] = stage[h]
  PROVE  KeyInv'
<1>1. MakingKey' = MakingKey /\ \A h \in Writers : Next1(h)' = Next1(h)
  BY DEF MakingKey, Next1
<1>2. \A h \in Writers : \A i \in 1 .. Made(h) : (Fresh(h, i)' <=> Fresh(h, i)) /\ Number(h, i)' = Number(h, i)
  BY DEF Fresh, Number
<1>3. \A h \in Writers : (stage'[h] = "key" => stage[h] = "key") /\ (stage'[h] = "stored" => stage[h] = "stored")
  OBVIOUS
<1>4. \A h \in Writers : Made(h)' = Made(h)
  OBVIOUS
<1>5. \A h, j \in MakingKey' : h # j => Next1(h)' \in raced'
  BY <1>1 DEF KeyInv, MakingKey
<1> HIDE DEF Fresh, Number, Made, Next1
<1>6. ASSUME NEW g \in Writers, NEW i \in 1 .. Made(g)', Fresh(g, i)'
      PROVE  /\ Number(g, i)' <= anonymousKey'
             /\ \A h \in Writers :
                  /\ stage'[h] = "key" => Number(g, i)' <= loaded'[h]
                  /\ stage'[h] = "stored" /\ Next1(h)' \notin raced' => Number(g, i)' < anonymousKey'
                  /\ \A j \in 1 .. Made(h)' : Fresh(h, j)' /\ Number(g, i)' = Number(h, j)' => <<g, i>> = <<h, j>>
  <2>1. i \in 1 .. Made(g) /\ Fresh(g, i)
    BY <1>2, <1>4, <1>6
  <2> QED BY <2>1, <1>1, <1>2, <1>3, <1>4 DEF KeyInv
<1> QED BY <1>5, <1>6 DEF KeyInv

\* A fresh number is one that the counter has passed.
LEMMA FreshNumber ==
  ASSUME MetaInv, NEW g \in Writers, NEW i \in 1 .. Made(g), Fresh(g, i)
  PROVE  Number(g, i) \in Nat
BY MadeType DEF Fresh, Number

LEMMA LoadKeyStep ==
  ASSUME MetaInv, KeyInv, NEW g \in Writers, LoadKey(g)
  PROVE  KeyInv'
<1>1. /\ stage[g] = "ready" /\ stage' = [stage EXCEPT ![g] = "key"]
      /\ loaded' = [loaded EXCEPT ![g] = anonymousKey]
      /\ raced' = IF MakingKey = {} THEN raced ELSE raced \cup {Next1(h) : h \in MakingKey \cup {g}}
      /\ UNCHANGED <<anonymousKey, attrs, given>>
  BY DEF LoadKey, MayMake
<1>2. /\ stage'[g] = "key" /\ \A h \in Writers \ {g} : stage'[h] = stage[h]
      /\ loaded'[g] = anonymousKey /\ \A h \in Writers \ {g} : loaded'[h] = loaded[h]
  BY <1>1 DEF MetaInv
<1>3. MakingKey' = MakingKey \cup {g} /\ g \notin MakingKey /\ raced \subseteq raced'
  BY <1>1, <1>2 DEF MakingKey
<1>4. /\ \A h \in Writers : Made(h)' = Made(h) /\ Next1(h)' = Next1(h) /\ All(h)' = All(h)
  BY <1>1 DEF Made, Next1, All
<1>5. ASSUME NEW h \in Writers, NEW i \in 1 .. Made(h)
      PROVE  (Fresh(h, i)' => Fresh(h, i)) /\ Number(h, i)' = Number(h, i)
  BY <1>3, <1>4 DEF Fresh, Number
<1>6. ASSUME NEW h \in MakingKey', NEW k \in MakingKey', h # k PROVE Next1(h)' \in raced'
  <2>1. h \in Writers /\ k \in Writers
    BY DEF MakingKey
  <2>2. CASE h = g \/ k = g
    <3>1. MakingKey # {} /\ h \in MakingKey \cup {g}
      BY <1>3, <1>6, <2>2
    <3>2. Next1(h) \in raced'
      BY <3>1, <1>1
    <3> QED BY <2>1, <3>2, <1>4
  <2>3. CASE h # g /\ k # g
    <3>1. Next1(h) \in raced
      BY <1>3, <1>6, <2>3 DEF KeyInv
    <3> QED BY <2>1, <3>1, <1>3, <1>4
  <2> QED BY <2>2, <2>3
<1> HIDE DEF Fresh, Number, Made, Next1, MakingKey
<1>7. ASSUME NEW q \in Writers, NEW i \in 1 .. Made(q)', Fresh(q, i)'
      PROVE  /\ Number(q, i)' <= anonymousKey'
             /\ \A h \in Writers :
                  /\ stage'[h] = "key" => Number(q, i)' <= loaded'[h]
                  /\ stage'[h] = "stored" /\ Next1(h)' \notin raced' => Number(q, i)' < anonymousKey'
                  /\ \A j \in 1 .. Made(h)' : Fresh(h, j)' /\ Number(q, i)' = Number(h, j)' => <<q, i>> = <<h, j>>
  <2>1. i \in 1 .. Made(q) /\ Fresh(q, i) /\ Number(q, i)' = Number(q, i)
    BY <1>4, <1>5, <1>7
  <2>2. /\ Number(q, i) <= anonymousKey
        /\ \A h \in Writers :
             /\ stage[h] = "key" => Number(q, i) <= loaded[h]
             /\ stage[h] = "stored" /\ Next1(h) \notin raced => Number(q, i) < anonymousKey
             /\ \A j \in 1 .. Made(h) : Fresh(h, j) /\ Number(q, i) = Number(h, j) => <<q, i>> = <<h, j>>
    BY <2>1 DEF KeyInv
  <2>3. ASSUME NEW h \in Writers
        PROVE  /\ stage'[h] = "key" => Number(q, i)' <= loaded'[h]
               /\ stage'[h] = "stored" /\ Next1(h)' \notin raced' => Number(q, i)' < anonymousKey'
    <3>1. CASE h = g
      BY <3>1, <2>1, <2>2, <1>2
    <3>2. CASE h # g
      BY <3>2, <2>1, <2>2, <1>1, <1>2, <1>3, <1>4
    <3> QED BY <3>1, <3>2
  <2>4. ASSUME NEW h \in Writers, NEW j \in 1 .. Made(h)', Fresh(h, j)', Number(q, i)' = Number(h, j)'
        PROVE <<q, i>> = <<h, j>>
    <3>1. j \in 1 .. Made(h)
      BY <1>4
    <3> QED BY <3>1, <2>1, <2>2, <2>4, <1>5
  <2> QED BY <2>1, <2>2, <2>3, <2>4, <1>1
<1> QED BY <1>6, <1>7 DEF KeyInv

LEMMA StoreKeyStep ==
  ASSUME MetaInv, KeyInv, NEW g \in Writers, StoreKey(g)
  PROVE  KeyInv'
<1>1. /\ stage[g] = "key" /\ stage' = [stage EXCEPT ![g] = "stored"]
      /\ anonymousKey' = loaded[g] + 1
      /\ UNCHANGED <<loaded, raced, attrs, given>>
  BY DEF StoreKey
<1>2. stage'[g] = "stored" /\ \A h \in Writers \ {g} : stage'[h] = stage[h]
  BY <1>1 DEF MetaInv
<1>3. MakingKey' = MakingKey
  BY <1>1, <1>2 DEF MakingKey
<1>4. /\ \A h \in Writers : Made(h)' = Made(h) /\ Next1(h)' = Next1(h) /\ All(h)' = All(h)
  BY <1>1 DEF Made, Next1, All
<1>5. ASSUME NEW h \in Writers, NEW i \in 1 .. Made(h)
      PROVE  (Fresh(h, i)' <=> Fresh(h, i)) /\ Number(h, i)' = Number(h, i)
  BY <1>1, <1>4 DEF Fresh, Number
<1>6. \A h, k \in MakingKey' : h # k => Next1(h)' \in raced'
  BY <1>1, <1>3, <1>4 DEF KeyInv, MakingKey
<1> HIDE DEF Fresh, Number, Made, Next1, MakingKey
<1>7. ASSUME NEW q \in Writers, NEW i \in 1 .. Made(q)', Fresh(q, i)'
      PROVE  /\ Number(q, i)' <= anonymousKey'
             /\ \A h \in Writers :
                  /\ stage'[h] = "key" => Number(q, i)' <= loaded'[h]
                  /\ stage'[h] = "stored" /\ Next1(h)' \notin raced' => Number(q, i)' < anonymousKey'
                  /\ \A j \in 1 .. Made(h)' : Fresh(h, j)' /\ Number(q, i)' = Number(h, j)' => <<q, i>> = <<h, j>>
  <2>1. i \in 1 .. Made(q) /\ Fresh(q, i) /\ Number(q, i)' = Number(q, i)
    BY <1>4, <1>5, <1>7
  <2>2. Number(q, i) \in Nat /\ loaded[g] \in Nat
    BY <2>1, FreshNumber DEF MetaInv
  <2>3. \A h \in Writers :
          /\ stage[h] = "key" => Number(q, i) <= loaded[h]
          /\ \A j \in 1 .. Made(h) : Fresh(h, j) /\ Number(q, i) = Number(h, j) => <<q, i>> = <<h, j>>
    BY <2>1 DEF KeyInv
  <2>4. Number(q, i)' <= anonymousKey' /\ Number(q, i)' < anonymousKey'
    BY <2>1, <2>2, <2>3, <1>1
  <2>5. \A h \in Writers : stage'[h] = "key" => Number(q, i)' <= loaded'[h]
    BY <2>1, <2>3, <1>1, <1>2
  <2>6. ASSUME NEW h \in Writers, NEW j \in 1 .. Made(h)', Fresh(h, j)', Number(q, i)' = Number(h, j)'
        PROVE <<q, i>> = <<h, j>>
    <3>1. j \in 1 .. Made(h)
      BY <1>4
    <3> QED BY <3>1, <2>1, <2>3, <2>6, <1>5
  <2> QED BY <2>4, <2>5, <2>6
<1> QED BY <1>6, <1>7 DEF KeyInv

\* What is made is the next of its goroutine; when it is anonymous and not in raced, its
\* number is above all others.
LEMMA MakeStep ==
  ASSUME MetaInv, KeyInv, NEW g \in Writers, NEW key \in KeyType, Make(g, key),
         \/ stage[g] = "stored" /\ key = Anonymous(anonymousKey)
         \/ stage[g] = "ready" /\ key[1] # "anonymous"
  PROVE  KeyInv'
<1> PICK c : c = Made(g) + 1
  OBVIOUS
<1>1. /\ stage' = [stage EXCEPT ![g] = "ready"]
      /\ UNCHANGED <<anonymousKey, loaded, raced, given>>
  BY DEF Make, metaVars
<1>2. stage'[g] = "ready" /\ \A h \in Writers \ {g} : stage'[h] = stage[h]
  BY <1>1 DEF MetaInv
<1>3. MakingKey' = MakingKey \ {g}
  BY <1>1, <1>2 DEF MakingKey
<1>4. /\ Made(g)' = c /\ c = Made(g) + 1 /\ Made(g) \in Nat /\ Next1(g) = <<g, c>>
      /\ \A i \in 1 .. Made(g) : All(g)'[i] = All(g)[i]
      /\ All(g)'[c].key = key
      /\ \A h \in Writers \ {g} : Made(h)' = Made(h) /\ Next1(h)' = Next1(h) /\ All(h)' = All(h)
  BY MakeAppends, MadeType DEF Next1
<1>5. ASSUME NEW h \in Writers, NEW i \in 1 .. Made(h)
      PROVE  (Fresh(h, i)' <=> Fresh(h, i)) /\ Number(h, i)' = Number(h, i)
  <2>1. All(h)'[i] = All(h)[i]
    BY <1>4
  <2> QED BY <2>1, <1>1 DEF Fresh, Number
<1>6. \A h, k \in MakingKey' : h # k => Next1(h)' \in raced'
  BY <1>1, <1>3, <1>4 DEF KeyInv, MakingKey
<1>7. Fresh(g, c)' =>
        /\ stage[g] = "stored" /\ Next1(g) \notin raced
        /\ Number(g, c)' = anonymousKey
  BY <1>1, <1>4 DEF Fresh, Number, Anonymous
<1>8. Fresh(g, c)' => MakingKey = {g}
  <2> SUFFICES ASSUME Fresh(g, c)', NEW h \in MakingKey, h # g PROVE FALSE
    BY <1>7 DEF MakingKey
  <2>1. g \in MakingKey
    BY <1>7 DEF MakingKey
  <2>2. Next1(g) \in raced
    BY <2>1 DEF KeyInv
  <2> QED BY <2>2, <1>7
<1>9. \A h \in Writers : \A j \in 1 .. Made(h)' : j \in 1 .. Made(h) \/ (h = g /\ j = c)
  BY <1>4
<1>10. \A h \in Writers : stage'[h] \in {"key", "stored"} => h # g /\ h \in MakingKey /\ stage[h] = stage'[h]
  BY <1>2 DEF MakingKey
<1> HIDE DEF Fresh, Number, Made, Next1, MakingKey
<1>11. ASSUME NEW q \in Writers, NEW i \in 1 .. Made(q), Fresh(q, i)
       PROVE  /\ Number(q, i) <= anonymousKey
              /\ \A h \in Writers :
                   /\ stage[h] = "key" => Number(q, i) <= loaded[h]
                   /\ stage[h] = "stored" /\ Next1(h) \notin raced => Number(q, i) < anonymousKey
                   /\ \A j \in 1 .. Made(h) : Fresh(h, j) /\ Number(q, i) = Number(h, j) => <<q, i>> = <<h, j>>
  BY <1>11 DEF KeyInv
<1>12. ASSUME NEW q \in Writers, NEW i \in 1 .. Made(q), Fresh(q, i), Fresh(g, c)'
       PROVE  Number(q, i)' # Number(g, c)'
  <2>1. Number(q, i) < anonymousKey /\ Number(q, i)' = Number(q, i) /\ Number(q, i) \in Nat /\ anonymousKey \in Nat
    BY <1>5, <1>7, <1>11, <1>12, FreshNumber DEF MetaInv
  <2> QED BY <2>1, <1>7, <1>12
<1>13. ASSUME NEW q \in Writers, NEW i \in 1 .. Made(q)', Fresh(q, i)'
       PROVE  /\ Number(q, i)' <= anonymousKey'
              /\ \A h \in Writers :
                   /\ stage'[h] = "key" => Number(q, i)' <= loaded'[h]
                   /\ stage'[h] = "stored" /\ Next1(h)' \notin raced' => Number(q, i)' < anonymousKey'
                   /\ \A j \in 1 .. Made(h)' : Fresh(h, j)' /\ Number(q, i)' = Number(h, j)' => <<q, i>> = <<h, j>>
  <2>1. CASE i \in 1 .. Made(q)
    <3>1. Fresh(q, i) /\ Number(q, i)' = Number(q, i)
      BY <2>1, <1>5, <1>13
    <3>2. Number(q, i)' <= anonymousKey'
      BY <3>1, <2>1, <1>1, <1>11
    <3>3. ASSUME NEW h \in Writers
          PROVE  /\ stage'[h] = "key" => Number(q, i)' <= loaded'[h]
                 /\ stage'[h] = "stored" /\ Next1(h)' \notin raced' => Number(q, i)' < anonymousKey'
      BY <3>1, <2>1, <1>1, <1>4, <1>10, <1>11
    <3>4. ASSUME NEW h \in Writers, NEW j \in 1 .. Made(h)', Fresh(h, j)', Number(q, i)' = Number(h, j)'
          PROVE <<q, i>> = <<h, j>>
      <4>1. j \in 1 .. Made(h)
        BY <3>1, <3>4, <2>1, <1>9, <1>12
      <4> QED BY <4>1, <3>1, <3>4, <2>1, <1>5, <1>11
    <3> QED BY <3>2, <3>3, <3>4
  <2>2. CASE q = g /\ i = c
    <3>1. Number(q, i)' = anonymousKey /\ MakingKey = {g} /\ anonymousKey \in Nat
      BY <2>2, <1>7, <1>8, <1>13 DEF MetaInv
    <3>2. \A h \in Writers : stage'[h] \notin {"key", "stored"}
      BY <3>1, <1>10
    <3>3. ASSUME NEW h \in Writers, NEW j \in 1 .. Made(h)', Fresh(h, j)', Number(q, i)' = Number(h, j)'
          PROVE <<q, i>> = <<h, j>>
      <4>1. CASE j \in 1 .. Made(h)
        BY <4>1, <3>3, <2>2, <1>5, <1>12, <1>13
      <4>2. CASE h = g /\ j = c
        BY <4>2, <2>2
      <4> QED BY <4>1, <4>2, <1>9
    <3> QED BY <3>1, <3>2, <3>3, <1>1
  <2> QED BY <2>1, <2>2, <1>9
<1> QED BY <1>6, <1>13 DEF KeyInv

LEMMA KeyStep ==
  ASSUME MetaInv, KeyInv, NEW g \in Writers,
         \/ LoadKey(g) \/ StoreKey(g) \/ NewFixedMetadata(g) \/ WithAttrs(g)
         \/ \E name \in Names : NewMetadata(g, name)
         \/ RecordStep(g)
  PROVE  KeyInv'
<1>1. CASE NewFixedMetadata(g)
  <2>1. Anonymous(anonymousKey) \in KeyType
    BY DEF MetaInv, KeyType, Anonymous
  <2> QED BY <1>1, <2>1, MakeStep DEF NewFixedMetadata
<1>2. ASSUME NEW name \in Names, NewMetadata(g, name) PROVE KeyInv'
  <2>1. <<"name", name>> \in KeyType /\ <<"name", name>>[1] # "anonymous"
    BY DEF KeyType
  <2> QED BY <1>2, <2>1, MakeStep DEF NewMetadata, MayMake
<1>3. CASE WithAttrs(g)
  BY <1>3, WithAttrsKeeps, KeyKept DEF WithAttrs
<1>4. CASE RecordStep(g)
  <2>1. \A h \in Writers : Made(h)' = Made(h) /\ All(h)' = All(h)
    BY <1>4, RecordFrame DEF metaVars, Made, All
  <2> QED BY <1>4, <2>1, RecordFrame, KeyKept DEF metaVars
<1> QED BY <1>1, <1>2, <1>3, <1>4, LoadKeyStep, StoreKeyStep

-----------------------------------------------------------------------------
\* Records.

AnyCall(w, q) ==
  \/ Write(w, q) \/ WriteString(w, q) \/ UnderlayWriter(w, q)
  \/ WriteByte(w) \/ Flush(w) \/ ReadFrom(w) \/ FreeBuffer(w) \/ Close(w)

\* The steps of LogNext, of one goroutine.
LogStep(g) ==
  \/ LoadKey(g) \/ StoreKey(g) \/ NewFixedMetadata(g) \/ WithAttrs(g)
  \/ \E name \in Names : NewMetadata(g, name)
  \/ RecordStep(g)

\* What goes through a BufWriter is what the first part is about.
LEMMA FormatCalls ==
  ASSUME RecordInv, NEW g \in Writers, Format(g)
  PROVE  /\ Head(todo[g]) \in Piece /\ Tail(todo[g]) \in Seq(Piece)
         /\ SumLen(todo[g]) = Head(todo[g])[2] + SumLen(Tail(todo[g]))
         /\ SumLen(todo[g]) \in Nat /\ SumLen(Tail(todo[g])) \in Nat
         /\ Head(todo[g])[2] \in Nat
         /\ \/ Head(todo[g])[2] = 1 /\ WriteByte(g)
            \/ WriteString(g, Head(todo[g])[2])
<1>1. todo[g] \in Seq(Piece) /\ todo[g] # <<>>
  BY DEF RecordInv, Format
<1>2. /\ Head(todo[g]) \in Piece /\ Tail(todo[g]) \in Seq(Piece)
      /\ SumLen(todo[g]) = Head(todo[g])[2] + SumLen(Tail(todo[g]))
      /\ SumLen(todo[g]) \in Nat /\ SumLen(Tail(todo[g])) \in Nat
  BY <1>1, SumOfTail
<1> DEFINE c == Head(todo[g])
<1>3. c[2] \in Nat /\ (c[1] = "WriteByte" => c[2] = 1)
  <2> HIDE DEF c
  <2> QED BY <1>2 DEF Piece, c
<1>4. IF c[1] = "WriteByte" THEN WriteByte(g) ELSE WriteString(g, c[2])
  BY DEF Format
<1> HIDE DEF c
<1> QED BY <1>2, <1>3, <1>4 DEF c

LEMMA WriterSteps ==
  ASSUME RecordInv, NEW g \in Writers, LogStep(g)
  PROVE  \/ UNCHANGED vars
         \/ \E q \in Nat : AnyCall(g, q)
         \/ Proceed(g)
<1>1. CASE Format(g)
  BY <1>1, FormatCalls DEF AnyCall
<1>2. CASE FreeState(g) \/ ReleaseState(g)
  <2>1. 0 \in Nat
    OBVIOUS
  <2> QED BY <1>2, <2>1 DEF FreeState, ReleaseState, AnyCall
<1>3. CASE Uses(g)
  <2>1. 0 .. MaxPiece \subseteq Nat /\ 0 \in Nat
    OBVIOUS
  <2> QED BY <1>3, <2>1 DEF Uses, Call, AnyCall
<1>4. CASE Proceeds(g)
  BY <1>4 DEF Proceeds
<1> QED BY <1>1, <1>2, <1>3, <1>4
        DEF LogStep, RecordStep, LoadKey, StoreKey, NewFixedMetadata, WithAttrs, NewMetadata, Make, StartHandle

LEMMA WriterStep ==
  ASSUME Inv, RecordInv, NEW g \in Writers, LogStep(g)
  PROVE  Inv' /\ \A q \in Writers \ {g} : Same(q)
<1>1. CASE UNCHANGED vars
  <2>1. [Next]_vars
    BY <1>1
  <2>2. \A q \in Writers : Same(q)
    BY <1>1 DEF vars, bufferVars, callVars, sinkVars, Same
  <2> QED BY <2>1, <2>2, NextInv
<1>2. ASSUME NEW q \in Nat, AnyCall(g, q) PROVE Inv' /\ \A p \in Writers \ {g} : Same(p)
  BY <1>2, CallStep DEF AnyCall
<1> QED BY <1>1, <1>2, WriterSteps, ProceedStep

LEMMA OthersNoted ==
  ASSUME NEW q \in Writers, Noted(q), Same(q), role' = role, stage'[q] = stage[q],
         todo'[q] = todo[q], record'[q] = record[q], told'[q] = told[q], torn'[q] = torn[q],
         broken'[q] = broken[q]
  PROVE  Noted(q)'
BY DEF Noted, Recorded, Short, Blank, InCall, Same

\* A call does not fail before it has proceeded.
LEMMA CallBegins ==
  ASSUME Inv, NEW w \in Writers, NEW q \in Nat, AnyCall(w, q)
  PROVE  /\ jammed' = jammed /\ answer'[w] \in {answer[w], "nil"} /\ passed' = passed
         /\ pc[w] = "idle" /\ pc'[w] # "failed" /\ ~freed[w]
<1>1. CASE FreeBuffer(w) \/ Close(w)
  BY <1>1 DEF FreeBuffer, Close, GiveBack, callVars
<1>2. ASSUME NEW name, NEW k, Begin(w, name, k), Accept(w, k) \/ StartFlush(w)
      PROVE  /\ jammed' = jammed /\ answer'[w] \in {answer[w], "nil"} /\ passed' = passed
             /\ pc[w] = "idle" /\ pc'[w] # "failed" /\ ~freed[w]
  <2>1. pc[w] = "idle" /\ ~freed[w]
    BY <1>2 DEF Begin
  <2> QED BY <1>2, <2>1 DEF Accept, Return, StartFlush, Goto, bufferVars, Inv, TypeOK
<1>3. CASE Write(w, q) \/ WriteString(w, q) \/ UnderlayWriter(w, q)
  BY <1>2, <1>3 DEF Write, WriteString, UnderlayWriter
<1>4. CASE WriteByte(w) \/ Flush(w) \/ ReadFrom(w)
  BY <1>2, <1>4 DEF WriteByte, Flush, ReadFrom
<1> QED BY <1>1, <1>3, <1>4 DEF AnyCall

\* What a writer that records go through has said is in the sink, in its buffer or lost.
LEMMA SaidIsThere ==
  ASSUME Inv, NEW w \in Writers, ~passed[w], pc[w] = "idle"
  PROVE  /\ Len(out[w]) + (Len(data[w]) - r[w]) + Len(lost[w]) = said[w]
         /\ freed[w] => Len(data[w]) - r[w] = 0
         /\ ~freed[w] => Len(lost[w]) = 0
<1> DEFINE o == out[w]
           p == Pending(w)
           l == lost[w]
<1>1. /\ o \in Seq(Nat) /\ p \in Seq(Nat) /\ l \in Seq(Nat) /\ Len(p) = Len(data[w]) - r[w]
      /\ said[w] \in Nat /\ r[w] \in 0 .. Len(data[w])
  BY TypeNow DEF Inv
<1>2. Offered(w) = said[w]
  <2>1. n[w] = 0
    BY DEF Inv, Kept, Control
  <2> QED BY <2>1, <1>1 DEF Offered
<1>3. (o \o p) \o l = Units(1, said[w])
  BY <1>2 DEF Inv, Kept, Stream
<1>4. /\ freed[w] => data[w] = <<>>
      /\ ~freed[w] => lost[w] = <<>>
  BY DEF Inv, Kept, Control
<1>5. Len(<<>>) = 0
  OBVIOUS
<1> HIDE DEF o, p, l
<1>6. Len(Units(1, said[w])) = said[w]
  BY <1>1, UnitsType
<1>7. o \o p \in Seq(Nat) /\ Len(o \o p) = Len(o) + Len(p)
  BY <1>1, ConcatProperties
<1>8. Len((o \o p) \o l) = Len(o \o p) + Len(l)
  BY <1>1, <1>7, ConcatProperties
<1>9. Len(o) + (Len(data[w]) - r[w]) + Len(l) = said[w]
  BY <1>1, <1>3, <1>6, <1>7, <1>8
<1>10. freed[w] => Len(data[w]) - r[w] = 0
  <2> SUFFICES ASSUME freed[w] PROVE Len(data[w]) - r[w] = 0
    OBVIOUS
  <2>1. Len(data[w]) = 0
    BY <1>4, <1>5
  <2> QED BY <2>1, <1>1
<1> QED BY <1>4, <1>5, <1>9, <1>10 DEF o, l

\* What a call of a writer that records go through does by itself.
LEMMA RecordProceeds ==
  ASSUME Inv, NEW w \in Writers, Proceed(w),
         op[w].name \in {"WriteByte", "WriteString", "Flush"}, answer[w] # "read"
  PROVE  /\ pc[w] # "idle"
         /\ op' = op /\ freed' = freed /\ lost' = lost /\ passed' = passed
         /\ answer'[w] # "read"
         /\ \/ pc'[w] # "idle" /\ said'[w] = said[w] /\ answer'[w] = answer[w]
            \/ pc'[w] = "idle" /\ answer'[w] = "nil" /\ said'[w] = said[w] + op[w].len /\ op[w].name # "Flush"
            \/ pc'[w] = "idle" /\ answer'[w] = "nil" /\ said'[w] = said[w] /\ op[w].name = "Flush"
            \/ pc'[w] = "idle" /\ answer'[w] # "nil" /\ (op[w].name = "Flush" => said'[w] = said[w])
         /\ pc'[w] # "flush"
         /\ out'[w] # out[w] /\ op[w].name = "Flush" => pc[w] = "flush"
<1>1. /\ n[w] = 0 /\ pc[w] # "read" /\ (pc[w] = "direct" => op[w].name # "Flush")
      /\ said[w] \in Nat /\ op[w].len \in Nat
  BY DEF Inv, TypeOK, Kept, Control
<1>2. ASSUME NEW k \in Nat, NEW ok \in BOOLEAN, WriteOut(w, k, ok)
      PROVE  /\ pc[w] = "flush" /\ pc'[w] \in {"flushed", "failed"}
             /\ op' = op /\ freed' = freed /\ lost' = lost /\ passed' = passed
             /\ said' = said /\ answer' = answer
  BY <1>2 DEF WriteOut, Inv, TypeOK
<1>3. ASSUME NEW k \in Nat, NEW ok \in BOOLEAN, Direct(w, k, ok)
      PROVE  /\ pc[w] = "direct" /\ pc'[w] = "idle" /\ op[w].name # "Flush"
             /\ op' = op /\ freed' = freed /\ lost' = lost
             /\ answer'[w] \in {"nil", "sink"}
             /\ answer'[w] = "nil" => said'[w] = said[w] + op[w].len
    <2>1. /\ pc[w] = "direct" /\ (ok => k = op[w].len)
          /\ pc'[w] = "idle" /\ said'[w] = said[w] + k /\ answer'[w] = IF ok THEN "nil" ELSE "sink"
          /\ op' = op /\ freed' = freed /\ lost' = lost
      BY <1>3 DEF Direct, SinkTakes, Return, Inv, TypeOK
    <2> QED BY <2>1, <1>1
<1>4. ASSUME NEW k \in Nat, NEW ok \in BOOLEAN, Direct(w, k, ok) PROVE passed' = passed
  <2>1. passed' = [passed EXCEPT ![w] = @ \/ (op[w].name = "UnderlayWriter" /\ k > 0 /\ Pending(w) # <<>>)]
    BY <1>4 DEF Direct
  <2>2. (op[w].name = "UnderlayWriter" /\ k > 0 /\ Pending(w) # <<>>) = FALSE
    OBVIOUS
  <2>3. passed \in [Writers -> BOOLEAN]
    BY DEF Inv, TypeOK
  <2>4. (passed[w] \/ FALSE) = passed[w]
    BY <2>3
  <2>5. [passed EXCEPT ![w] = @ \/ (op[w].name = "UnderlayWriter" /\ k > 0 /\ Pending(w) # <<>>)] = passed
    BY <2>2, <2>3, <2>4
  <2> QED BY <2>1, <2>5
<1>5. CASE FlushFails(w)
  BY <1>1, <1>5 DEF FlushFails, Refuse, Return, sinkVars, bufferVars, Inv, TypeOK
<1>6. CASE Flushed(w)
  <2>1. pc[w] = "flushed" /\ op' = op
    BY <1>6 DEF Flushed
  <2>2. \/ op[w].name = "Flush" /\ Refuse(w, 0, "nil")
        \/ op[w].name # "Flush" /\ Goto(w, "direct")
        \/ op[w].name # "Flush" /\ StoreAgain(w)
    BY <1>6 DEF Flushed
  <2>3. CASE op[w].name = "Flush" /\ Refuse(w, 0, "nil")
    BY <2>1, <2>3, <1>1 DEF Refuse, Return, sinkVars, bufferVars, Inv, TypeOK
  <2>4. CASE op[w].name # "Flush" /\ Goto(w, "direct")
    BY <2>1, <2>4, <1>1 DEF Goto, sinkVars, bufferVars, Inv, TypeOK
  <2>5. CASE op[w].name # "Flush" /\ StoreAgain(w)
    <3>1. Accept(w, op[w].len) \/ Refuse(w, 0, "short")
      BY <2>5 DEF StoreAgain
    <3> QED BY <2>1, <2>5, <3>1, <1>1 DEF Accept, Refuse, Return, sinkVars, bufferVars, Inv, TypeOK
  <2> QED BY <2>2, <2>3, <2>4, <2>5
<1>7. ASSUME NEW k, NEW e, ReadOnce(w, k, e) \/ ReadThrough(w, k, e) PROVE FALSE
  BY <1>1, <1>7 DEF ReadOnce, ReadThrough
<1>8. 0 .. Size \subseteq Nat /\ 0 .. MaxPiece \subseteq Nat
  OBVIOUS
<1>9. CASE \E k \in 0 .. Size, ok \in BOOLEAN : WriteOut(w, k, ok)
  BY <1>2, <1>8, <1>9
<1>10. CASE \E k \in 0 .. MaxPiece, ok \in BOOLEAN : Direct(w, k, ok)
  <2>1. PICK k \in Nat, ok \in BOOLEAN : Direct(w, k, ok)
    BY <1>8, <1>10
  <2> QED BY <2>1, <1>3, <1>4
<1> QED BY <1>5, <1>6, <1>7, <1>9, <1>10 DEF Proceed

\* A failure leaves its trace in torn.
LEMMA ProceedTears ==
  ASSUME Inv, RecordInv, NEW g \in Writers, Proceeds(g)
  PROVE  /\ torn' \in [Writers -> BOOLEAN] /\ broken' \in [Writers -> BOOLEAN]
         /\ torn[g] => torn'[g]
         /\ broken'[g] => broken[g] \/ (out'[g] # out[g] /\ out[g] # <<>>)
         /\ \A q \in Writers \ {g} : torn'[q] = torn[q] /\ broken'[q] = broken[q]
         /\ jammed'[g] \/ answer'[g] \in {"sink", "short"} \/ pc'[g] = "failed" => torn'[g]
<1> DEFINE Fails == pc'[g] = "failed" \/ answer'[g] = "sink"
           Breaks == out'[g] # out[g] /\ out[g] # <<>> /\ last # g
<1>1. torn' = [torn EXCEPT ![g] = @ \/ pc'[g] = "failed" \/ answer'[g] = "sink"]
  BY DEF Proceeds
<1>2. torn \in [Writers -> BOOLEAN] /\ broken \in [Writers -> BOOLEAN]
  BY DEF RecordInv
<1>3. /\ torn' \in [Writers -> BOOLEAN]
      /\ torn'[g] = (torn[g] \/ pc'[g] = "failed" \/ answer'[g] = "sink")
      /\ \A q \in Writers \ {g} : torn'[q] = torn[q]
  BY <1>1, <1>2, Zenon
<1>4. broken' = [broken EXCEPT ![g] = @ \/ Breaks]
  BY DEF Proceeds
<1> HIDE DEF Breaks
<1>5. /\ broken' \in [Writers -> BOOLEAN]
      /\ broken'[g] = (broken[g] \/ Breaks)
      /\ \A q \in Writers \ {g} : broken'[q] = broken[q]
  BY <1>2, <1>4, Zenon
<1>6. broken'[g] => broken[g] \/ (out'[g] # out[g] /\ out[g] # <<>>)
  BY <1>5, Zenon DEF Breaks
<1>7. (torn[g] => torn'[g]) /\ (pc'[g] = "failed" \/ answer'[g] = "sink" => torn'[g])
  BY <1>3, Zenon
<1>8. Proceed(g) /\ Inv'
  BY ProceedStep DEF Proceeds
<1>9. jammed[g] \/ answer[g] \in {"sink", "short"} => torn[g]
  BY DEF RecordInv, Noted
<1>10. jammed'[g] => jammed[g] \/ pc'[g] = "failed"
  <2>1. CASE \E k \in 0 .. Size, ok \in BOOLEAN : WriteOut(g, k, ok)
    <3>1. PICK k \in 0 .. Size, ok \in BOOLEAN : WriteOut(g, k, ok)
      BY <2>1
    <3>2. /\ jammed' = [jammed EXCEPT ![g] = IF k = Len(Pending(g)) THEN ~ok ELSE @]
          /\ pc' = [pc EXCEPT ![g] = IF ok THEN "flushed" ELSE "failed"]
          /\ ok => k = Len(Pending(g))
      BY <3>1 DEF WriteOut, SinkTakes
    <3>3. jammed \in [Writers -> BOOLEAN] /\ pc'[g] = IF ok THEN "flushed" ELSE "failed"
      BY <3>2 DEF Inv, TypeOK
    <3>4. CASE ok
      <4>1. jammed' = [jammed EXCEPT ![g] = FALSE]
        BY <3>2, <3>4
      <4> QED BY <4>1, <3>3
    <3>5. CASE ~ok
      BY <3>3, <3>5
    <3> QED BY <3>4, <3>5
  <2>2. ASSUME ~\E k \in 0 .. Size, ok \in BOOLEAN : WriteOut(g, k, ok) PROVE jammed' = jammed
    BY <1>8, <2>2 DEF Proceed, Direct, FlushFails, Flushed, ReadOnce, ReadThrough, Goto, Refuse,
       RoundEnds, StoreAgain, Accept, bufferVars
  <2> QED BY <2>1, <2>2
<1>11. answer'[g] = "short" => answer[g] = "short" \/ jammed'[g]
  <2>1. CASE pc'[g] = "idle"
    BY <2>1, <1>8 DEF Inv, Kept, Answer
  <2>2. CASE pc'[g] # "idle"
    <3>1. answer' = answer \/ pc' = [pc EXCEPT ![g] = "idle"]
      BY <1>8 DEF Proceed, WriteOut, Direct, FlushFails, Flushed, ReadOnce, ReadThrough, Goto, Refuse,
         RoundEnds, StoreAgain, Accept, Return
    <3> QED BY <3>1, <2>2 DEF Inv, TypeOK
  <2> QED BY <2>1, <2>2
<1> QED BY <1>3, <1>5, <1>6, <1>7, <1>9, <1>10, <1>11

\* The steps of the metadata leave the records alone.
LEMMA MetadataNoted ==
  ASSUME MetaInv, RecordInv, NEW g \in Writers,
         \/ LoadKey(g) \/ StoreKey(g) \/ NewFixedMetadata(g) \/ WithAttrs(g)
         \/ \E name \in Names : NewMetadata(g, name)
  PROVE  RecordInv'
<1>1. UNCHANGED <<vars, role, recordVars>>
  BY DEF LoadKey, StoreKey, NewFixedMetadata, WithAttrs, NewMetadata, Make
<1>2. /\ \A q \in Writers \ {g} : stage'[q] = stage[q]
      /\ stage'[g] = stage[g] \/ (role[g] # "log" /\ stage'[g] \in {"key", "stored", "ready"})
  <2>1. role[g] = "log" => stage[g] \in {"ready", "handle", "done"}
    BY DEF RecordInv, Noted, Recorded
  <2> QED BY <2>1 DEF LoadKey, MayMake, StoreKey, NewFixedMetadata, WithAttrs, NewMetadata, Make, MetaInv
<1>3. \A q \in Writers : Same(q)
  BY <1>1 DEF vars, bufferVars, callVars, sinkVars, Same
<1>4. ASSUME NEW q \in Writers, stage'[q] = stage[q] PROVE Noted(q)'
  <2>1. Noted(q)
    BY DEF RecordInv
  <2> QED BY <2>1, <1>1, <1>3, <1>4, OthersNoted DEF recordVars
<1>5. ASSUME role[g] # "log", stage'[g] \in {"key", "stored", "ready"} PROVE Noted(g)'
  BY <1>1, <1>3, <1>5 DEF RecordInv, Noted, Same, recordVars
<1> QED BY <1>1, <1>2, <1>4, <1>5 DEF RecordInv, recordVars

LEMMA StartHandleNoted ==
  ASSUME Inv, MetaInv, RecordInv, NEW g \in Writers, NEW h \in Writers, NEW rec \in Records, StartHandle(g, h, rec)
  PROVE  RecordInv'
<1>1. /\ role[g] = "log" /\ stage[g] = "ready"
      /\ stage' = [stage EXCEPT ![g] = "handle"]
      /\ todo' = [todo EXCEPT ![g] = Calls(h, rec)]
      /\ record' = [record EXCEPT ![g] = SumLen(Calls(h, rec))]
      /\ UNCHANGED <<vars, role, told, torn, broken>>
  BY DEF StartHandle
<1> DEFINE calls == Calls(h, rec)
<1>2. calls \in Seq(Piece) /\ SumLen(calls) \in Nat
  <2>1. Len(metadata[h]) \in Nat
    BY MadeType
  <2>2. calls \in Seq(Piece)
    BY <2>1, CallsType
  <2> HIDE DEF calls
  <2> QED BY <2>2, SumOfTail
<1> HIDE DEF calls
<1>3. /\ todo' \in [Writers -> Seq(Piece)] /\ record' \in [Writers -> Nat]
      /\ stage'[g] = "handle" /\ todo'[g] = calls /\ record'[g] = SumLen(calls)
      /\ \A q \in Writers \ {g} : todo'[q] = todo[q] /\ record'[q] = record[q] /\ stage'[q] = stage[q]
  BY <1>1, <1>2 DEF RecordInv, MetaInv, calls
<1>4. \A q \in Writers : Same(q)
  BY <1>1 DEF vars, bufferVars, callVars, sinkVars, Same
<1>5. Noted(g) /\ Recorded(g) /\ Blank(g)
  BY <1>1 DEF RecordInv, Noted, Recorded
<1>6. Noted(g)'
  <2>1. /\ pc'[g] = "idle" /\ said'[g] = 0 /\ out'[g] = <<>> /\ r'[g] = 0 /\ ~freed'[g] /\ ~torn'[g] /\ ~broken'[g]
    BY <1>1, <1>4, <1>5 DEF Blank, Same
  <2>2. said'[g] + InCall(g)' + SumLen(todo'[g]) = record'[g]
    BY <2>1, <1>2, <1>3 DEF InCall
  <2> QED BY <2>1, <2>2, <1>1, <1>3, <1>4, <1>5 DEF Noted, Recorded, Same, Short
<1>7. ASSUME NEW q \in Writers \ {g} PROVE Noted(q)'
  <2>1. Noted(q)
    BY DEF RecordInv
  <2> QED BY <2>1, <1>1, <1>3, <1>4, OthersNoted
<1> QED BY <1>1, <1>3, <1>6, <1>7 DEF RecordInv

LEMMA FormatNoted ==
  ASSUME Inv, MetaInv, RecordInv, NEW g \in Writers, Format(g)
  PROVE  RecordInv'
<1> DEFINE c == Head(todo[g])
           k == c[2]
<1>1. /\ stage[g] = "handle" /\ answer[g] = "nil"
      /\ todo' = [todo EXCEPT ![g] = Tail(@)]
      /\ UNCHANGED <<role, stage, record, told, torn, broken>>
  BY DEF Format
<1>2. /\ Tail(todo[g]) \in Seq(Piece) /\ SumLen(todo[g]) = k + SumLen(Tail(todo[g]))
      /\ SumLen(todo[g]) \in Nat /\ SumLen(Tail(todo[g])) \in Nat /\ k \in Nat
      /\ (k = 1 /\ WriteByte(g)) \/ WriteString(g, k)
  BY FormatCalls
<1> HIDE DEF c, k
<1>3. /\ todo' \in [Writers -> Seq(Piece)] /\ todo'[g] = Tail(todo[g])
      /\ \A q \in Writers \ {g} : todo'[q] = todo[q]
  BY <1>1, <1>2 DEF RecordInv
<1>4. PICK name \in {"WriteByte", "WriteString"} :
        Begin(g, name, k) /\ IF Fits(g, k) THEN Accept(g, k) ELSE StartFlush(g)
  BY <1>2 DEF WriteByte, WriteString
<1>5. AnyCall(g, k)
  BY <1>2 DEF AnyCall
<1>6. /\ jammed' = jammed /\ answer'[g] \in {answer[g], "nil"} /\ passed' = passed
      /\ pc[g] = "idle" /\ pc'[g] # "failed" /\ ~freed[g]
  BY <1>2, <1>5, CallBegins
<1>7. Inv' /\ \A q \in Writers \ {g} : Same(q)
  BY WriterStep DEF LogStep, RecordStep
<1>8. role[g] = "log" /\ Recorded(g) /\ Noted(g) /\ record[g] \in Nat
  BY <1>1 DEF RecordInv, Noted
<1>9. op'[g].name = name /\ op'[g].len = k /\ freed' = freed /\ said[g] \in Nat
  <2>1. op' = [op EXCEPT ![g] = [name |-> name, len |-> k, readErr |-> "nil"]]
    BY <1>4 DEF Begin
  <2>2. freed' = freed
    BY <1>4 DEF Accept, StartFlush, Goto
  <2> QED BY <2>1, <2>2 DEF Inv, TypeOK
<1>10. said'[g] + InCall(g)' + SumLen(todo'[g]) = record[g]
  <2>1. said[g] + SumLen(todo[g]) = record[g]
    BY <1>1, <1>2, <1>6, <1>8, <1>9 DEF Recorded, InCall
  <2>2. said'[g] + InCall(g)' = said[g] + k
    <3>1. CASE Fits(g, k)
      BY <3>1, <1>2, <1>4, <1>9 DEF Accept, Return, InCall, Inv, TypeOK
    <3>2. CASE ~Fits(g, k)
      <4>1. said' = said /\ pc' = [pc EXCEPT ![g] = IF r[g] = Len(data[g]) THEN "flushed" ELSE "flush"]
        BY <3>2, <1>4 DEF StartFlush, Goto
      <4>2. pc'[g] # "idle"
        BY <4>1 DEF Inv, TypeOK
      <4> QED BY <4>1, <4>2, <1>9 DEF InCall
    <3> QED BY <3>1, <3>2
  <2> QED BY <2>1, <2>2, <1>2, <1>3, <1>9
<1>11. ASSUME Short(g) PROVE pc'[g] = "idle" /\ out'[g] = <<>> /\ r'[g] = 0
  <2>1. out[g] = <<>> /\ r[g] = 0
    BY <1>1, <1>8, <1>11 DEF Recorded
  <2>2. Len(out[g]) + (Len(data[g]) - r[g]) + Len(lost[g]) = said[g] /\ Len(lost[g]) = 0
    BY <1>6, <1>8, SaidIsThere DEF Recorded
  <2>3. Len(data[g]) \in Nat /\ Size \in Nat /\ Len(out[g]) = 0
    BY <2>1, TypeNow DEF Inv
  <2>4. Len(data[g]) = said[g]
    BY <2>1, <2>2, <2>3, <1>9
  <2>5. said[g] + k <= Size
    <3>1. said[g] + SumLen(todo[g]) = record[g]
      BY <1>1, <1>2, <1>6, <1>8, <1>9 DEF Recorded, InCall
    <3>2. record[g] <= Size
      BY <1>11 DEF Short
    <3> QED BY <3>1, <3>2, <2>3, <1>2, <1>8, <1>9
  <2>6. Fits(g, k)
    BY <2>3, <2>4, <2>5, <1>2, <1>9 DEF Fits, Free
  <2>7. pc' = [pc EXCEPT ![g] = "idle"] /\ UNCHANGED <<out, r>>
    BY <2>6, <1>4 DEF Accept, Return
  <2> QED BY <2>1, <2>7 DEF Inv, TypeOK
<1>12. Noted(g)'
  <2>1. Short(g)' <=> Short(g)
    BY <1>1 DEF Short
  <2>2. jammed'[g] \/ answer'[g] \in {"sink", "short"} \/ pc'[g] = "failed" => torn'[g]
    BY <1>1, <1>6, <1>8 DEF Noted
  <2>3. /\ ~passed'[g] /\ answer'[g] # "read" /\ (told'[g] # "nil" => torn'[g])
        /\ op'[g].name \in {"WriteByte", "WriteString", "Flush"} /\ (op'[g].name = "Flush" => op'[g].len = 0)
        /\ (broken'[g] => ~Short(g)')
    BY <2>1, <1>1, <1>4, <1>6, <1>8, <1>9 DEF Recorded
  <2>4. stage'[g] = "handle" /\ answer'[g] = "nil" /\ role'[g] = "log" /\ record'[g] = record[g] /\ ~freed'[g]
    BY <1>1, <1>6, <1>8, <1>9
  <2> HIDE DEF Short, InCall
  <2> QED BY <2>1, <2>2, <2>3, <2>4, <1>10, <1>11 DEF Noted, Recorded
<1>13. ASSUME NEW q \in Writers \ {g} PROVE Noted(q)'
  <2>1. Noted(q)
    BY DEF RecordInv
  <2> QED BY <2>1, <1>1, <1>3, <1>7, OthersNoted
<1> QED BY <1>1, <1>3, <1>12, <1>13 DEF RecordInv

\* What a Flush that begins leaves alone.
LEMMA FlushBegins ==
  ASSUME Inv, NEW w \in Writers, Flush(w)
  PROVE  /\ pc[w] = "idle" /\ ~freed[w] /\ ~freed'[w]
         /\ pc'[w] \in {"flush", "flushed"}
         /\ op'[w].name = "Flush" /\ op'[w].len = 0
         /\ UNCHANGED <<data, r, jammed, said, answer, out, lost, passed>>
<1>1. /\ pc[w] = "idle" /\ ~freed[w] /\ freed' = freed
      /\ op' = [op EXCEPT ![w] = [name |-> "Flush", len |-> 0, readErr |-> "nil"]]
      /\ pc' = [pc EXCEPT ![w] = IF r[w] = Len(data[w]) THEN "flushed" ELSE "flush"]
      /\ UNCHANGED <<data, r, jammed, said, answer, out, lost, passed>>
  BY DEF Flush, Begin, StartFlush, Goto, bufferVars
<1> QED BY <1>1 DEF Inv, TypeOK

LEMMA FreeStateNoted ==
  ASSUME Inv, MetaInv, RecordInv, NEW g \in Writers, FreeState(g)
  PROVE  RecordInv'
<1>1. /\ stage[g] = "handle" /\ (todo[g] = <<>> \/ answer[g] # "nil") /\ Flush(g)
      /\ told' = [told EXCEPT ![g] = answer[g]]
      /\ stage' = [stage EXCEPT ![g] = "done"]
      /\ UNCHANGED <<role, todo, record, torn, broken>>
  BY DEF FreeState
<1>2. /\ pc[g] = "idle" /\ ~freed[g] /\ ~freed'[g]
      /\ pc'[g] \in {"flush", "flushed"}
      /\ op'[g].name = "Flush" /\ op'[g].len = 0
      /\ UNCHANGED <<data, r, jammed, said, answer, out, lost, passed>>
  BY <1>1, FlushBegins
<1>3. Inv' /\ \A q \in Writers \ {g} : Same(q)
  BY WriterStep DEF LogStep, RecordStep
<1>4. /\ told' \in [Writers -> Errors] /\ told'[g] = answer[g] /\ stage'[g] = "done"
      /\ \A q \in Writers \ {g} : told'[q] = told[q] /\ stage'[q] = stage[q]
  BY <1>1 DEF RecordInv, MetaInv, Inv, TypeOK
<1>5. role[g] = "log" /\ Recorded(g) /\ Noted(g)
  BY <1>1 DEF RecordInv, Noted
<1>6. told'[g] # "nil" => torn[g]
  <2>1. answer[g] \in {"nil", "sink", "short"}
    BY <1>5 DEF Recorded, Inv, TypeOK, Errors
  <2> QED BY <2>1, <1>4, <1>5 DEF Noted
<1>7. told'[g] = "nil" => said'[g] = record'[g]
  <2> SUFFICES ASSUME answer[g] = "nil" PROVE said[g] = record[g]
    BY <1>1, <1>2, <1>4
  <2>1. said[g] + InCall(g) + SumLen(todo[g]) = record[g]
    BY <1>1, <1>5 DEF Recorded
  <2>2. InCall(g) = 0
    BY <1>2 DEF InCall
  <2>3. SumLen(todo[g]) = 0
    BY <1>1, SumOfTail DEF RecordInv
  <2>4. said[g] \in Nat
    BY DEF Inv, TypeOK
  <2> QED BY <2>1, <2>2, <2>3, <2>4
<1>8. lost'[g] = <<>>
  BY <1>2 DEF Inv, Kept, Control
<1>9. Short(g)' <=> Short(g)
  BY <1>1 DEF Short
<1>10. Short(g) => out'[g] = <<>>
  BY <1>1, <1>2, <1>5 DEF Recorded
<1>11. Noted(g)'
  <2>1. jammed'[g] \/ answer'[g] \in {"sink", "short"} \/ pc'[g] = "failed" => torn'[g]
    BY <1>1, <1>2, <1>5 DEF Noted
  <2>2. /\ ~passed'[g] /\ answer'[g] # "read" /\ (broken'[g] => ~Short(g)') /\ torn'[g] = torn[g] /\ role'[g] = "log"
    BY <1>1, <1>2, <1>5, <1>9 DEF Recorded
  <2> HIDE DEF Short, InCall
  <2> QED BY <2>1, <2>2, <1>2, <1>4, <1>6, <1>7, <1>8, <1>9, <1>10 DEF Noted, Recorded
<1>12. ASSUME NEW q \in Writers \ {g} PROVE Noted(q)'
  <2>1. Noted(q)
    BY DEF RecordInv
  <2> QED BY <2>1, <1>1, <1>3, <1>4, <1>12, OthersNoted
<1> QED BY <1>1, <1>4, <1>11, <1>12 DEF RecordInv

LEMMA ReleaseStateNoted ==
  ASSUME Inv, MetaInv, RecordInv, NEW g \in Writers, ReleaseState(g)
  PROVE  RecordInv'
<1>1. /\ stage[g] = "done" /\ GiveBack(g)
      /\ UNCHANGED <<role, stage, todo, record, told, torn, broken>>
  BY DEF ReleaseState, FreeBuffer, logVars, recordVars
<1>2. /\ pc[g] = "idle" /\ ~freed[g]
      /\ lost' = [lost EXCEPT ![g] = Pending(g)]
      /\ UNCHANGED <<jammed, pc, op, said, answer, out, passed>>
  BY <1>1 DEF GiveBack, callVars
<1>3. Inv' /\ \A q \in Writers \ {g} : Same(q)
  BY WriterStep DEF LogStep, RecordStep
<1>4. role[g] = "log" /\ Recorded(g) /\ Noted(g)
  BY <1>1 DEF RecordInv, Noted
<1>5. lost'[g] # <<>> => torn[g]
  <2> SUFFICES ASSUME Pending(g) # <<>> PROVE torn[g]
    BY <1>2 DEF Inv, TypeOK
  <2>1. op[g].name = "Flush"
    BY <1>1, <1>4 DEF Recorded
  <2>2. answer[g] # "nil"
    BY <2>1, <1>2 DEF Inv, Kept, Answer
  <2>3. answer[g] \in {"nil", "sink", "short"}
    BY <1>4 DEF Recorded, Inv, TypeOK, Errors
  <2> QED BY <2>2, <2>3, <1>4 DEF Noted
<1>6. Short(g)' <=> Short(g)
  BY <1>1 DEF Short
<1>7. Noted(g)'
  <2>1. jammed'[g] \/ answer'[g] \in {"sink", "short"} \/ pc'[g] = "failed" => torn'[g]
    BY <1>1, <1>2, <1>4 DEF Noted
  <2> HIDE DEF Short, InCall
  <2> QED BY <2>1, <1>1, <1>2, <1>4, <1>5, <1>6 DEF Noted, Recorded
<1>8. ASSUME NEW q \in Writers \ {g} PROVE Noted(q)'
  <2>1. Noted(q)
    BY DEF RecordInv
  <2> QED BY <2>1, <1>1, <1>3, <1>8, OthersNoted
<1> QED BY <1>1, <1>7, <1>8 DEF RecordInv

LEMMA ProceedsNoted ==
  ASSUME Inv, MetaInv, RecordInv, NEW g \in Writers, Proceeds(g)
  PROVE  RecordInv'
<1>1. Proceed(g) /\ UNCHANGED <<role, stage, todo, record, told>>
  BY DEF Proceeds
<1>2. /\ torn' \in [Writers -> BOOLEAN] /\ broken' \in [Writers -> BOOLEAN]
      /\ torn[g] => torn'[g]
      /\ broken'[g] => broken[g] \/ (out'[g] # out[g] /\ out[g] # <<>>)
      /\ \A q \in Writers \ {g} : torn'[q] = torn[q] /\ broken'[q] = broken[q]
      /\ jammed'[g] \/ answer'[g] \in {"sink", "short"} \/ pc'[g] = "failed" => torn'[g]
  BY ProceedTears
<1>3. Inv' /\ \A q \in Writers \ {g} : Same(q)
  BY WriterStep DEF LogStep, RecordStep
<1>4. ASSUME role[g] = "log" PROVE Recorded(g)'
  <2>1. Recorded(g)
    BY <1>4 DEF RecordInv, Noted
  <2>2. op[g].name \in {"WriteByte", "WriteString", "Flush"} /\ answer[g] # "read"
    BY <2>1 DEF Recorded
  <2>3. /\ pc[g] # "idle"
        /\ op' = op /\ freed' = freed /\ lost' = lost /\ passed' = passed
        /\ answer'[g] # "read"
        /\ \/ pc'[g] # "idle" /\ said'[g] = said[g] /\ answer'[g] = answer[g]
           \/ pc'[g] = "idle" /\ answer'[g] = "nil" /\ said'[g] = said[g] + op[g].len /\ op[g].name # "Flush"
           \/ pc'[g] = "idle" /\ answer'[g] = "nil" /\ said'[g] = said[g] /\ op[g].name = "Flush"
           \/ pc'[g] = "idle" /\ answer'[g] # "nil" /\ (op[g].name = "Flush" => said'[g] = said[g])
        /\ pc'[g] # "flush"
        /\ out'[g] # out[g] /\ op[g].name = "Flush" => pc[g] = "flush"
    BY <2>2, <1>1, RecordProceeds
  <2>4. Short(g)' => Short(g)
    BY <1>1, <1>2 DEF Short
  <2>5. stage[g] \in {"handle", "done"}
    BY <2>1, <2>3 DEF Recorded, Blank
  <2>6. broken'[g] => ~Short(g)'
    <3> SUFFICES ASSUME Short(g), broken'[g] PROVE FALSE
      BY <2>4
    <3>1. out'[g] # out[g] /\ out[g] # <<>>
      BY <1>2, <2>1 DEF Recorded
    <3> QED BY <3>1, <2>1, <2>3, <2>5 DEF Recorded
  <2>7. CASE stage[g] = "handle"
    <3>1. ~freed[g] /\ (answer[g] = "nil" => said[g] + InCall(g) + SumLen(todo[g]) = record[g])
      BY <2>1, <2>7 DEF Recorded
    <3>2. ~Short(g)
      BY <2>1, <2>3, <2>7 DEF Recorded
    <3>3. op[g].len \in Nat /\ said[g] \in Nat /\ SumLen(todo[g]) \in Nat
      BY SumOfTail DEF Inv, TypeOK, RecordInv
    <3>4. answer'[g] = "nil" => said'[g] + InCall(g)' + SumLen(todo[g]) = record[g]
      <4> SUFFICES ASSUME answer'[g] = "nil" PROVE said'[g] + InCall(g)' + SumLen(todo[g]) = record[g]
        OBVIOUS
      <4>1. answer[g] = "nil" /\ InCall(g) = op[g].len /\ (op[g].name = "Flush" => op[g].len = 0)
        BY <2>1, <2>3, <2>7 DEF InCall, Recorded
      <4> QED BY <4>1, <2>3, <3>1, <3>3 DEF InCall
    <3>5. pc'[g] # "idle" => answer'[g] = "nil"
      BY <2>1, <2>3, <2>7 DEF Recorded
    <3> HIDE DEF InCall
    <3> QED BY <1>1, <1>2, <2>1, <2>2, <2>3, <2>4, <2>6, <2>7, <3>1, <3>2, <3>4, <3>5 DEF Recorded
  <2>8. CASE stage[g] = "done"
    <3>1. op[g].name = "Flush" /\ op[g].len = 0 /\ (told[g] = "nil" => said[g] = record[g]) /\ (lost[g] # <<>> => torn[g])
      BY <2>1, <2>8 DEF Recorded
    <3>2. said'[g] = said[g]
      BY <2>3, <3>1
    <3> QED BY <1>1, <1>2, <2>1, <2>2, <2>3, <2>4, <2>6, <2>8, <3>1, <3>2 DEF Recorded
  <2> QED BY <2>5, <2>7, <2>8
<1>5. Noted(g)'
  <2>1. stage[g] \in {"handle", "done"} => role[g] = "log"
    BY DEF RecordInv, Noted
  <2> QED BY <2>1, <1>1, <1>2, <1>4 DEF Noted
<1>6. ASSUME NEW q \in Writers \ {g} PROVE Noted(q)'
  <2>1. Noted(q)
    BY DEF RecordInv
  <2> QED BY <2>1, <1>1, <1>2, <1>3, <1>6, OthersNoted
<1> QED BY <1>1, <1>2, <1>5, <1>6 DEF RecordInv

LEMMA UsesNoted ==
  ASSUME Inv, RecordInv, NEW g \in Writers, Uses(g)
  PROVE  RecordInv'
<1>1. /\ role[g] = "user" /\ Call(g)
      /\ UNCHANGED <<role, stage, todo, record, told, torn, broken>>
  BY DEF Uses, logVars, recordVars
<1>2. PICK k \in Nat : AnyCall(g, k)
  <2>1. 0 .. MaxPiece \subseteq Nat /\ 0 \in Nat
    OBVIOUS
  <2> QED BY <1>1, <2>1 DEF Call, AnyCall
<1>3. Inv' /\ \A q \in Writers \ {g} : Same(q)
  BY WriterStep DEF LogStep, RecordStep
<1>4. jammed' = jammed /\ answer'[g] \in {answer[g], "nil"} /\ pc'[g] # "failed"
  BY <1>2, CallBegins
<1>5. Noted(g)'
  BY <1>1, <1>4 DEF RecordInv, Noted
<1>6. ASSUME NEW q \in Writers \ {g} PROVE Noted(q)'
  <2>1. Noted(q)
    BY DEF RecordInv
  <2> QED BY <2>1, <1>1, <1>3, <1>6, OthersNoted
<1> QED BY <1>1, <1>5, <1>6 DEF RecordInv

LEMMA RecordStepNoted ==
  ASSUME Inv, MetaInv, RecordInv, NEW g \in Writers, LogStep(g)
  PROVE  RecordInv'
BY MetadataNoted, StartHandleNoted, FormatNoted, FreeStateNoted, ReleaseStateNoted, ProceedsNoted, UsesNoted
   DEF LogStep, RecordStep

-----------------------------------------------------------------------------
\* The invariant.

LEMMA LogInitInv == LogInit => LogInv
<1> SUFFICES ASSUME LogInit PROVE LogInv
  OBVIOUS
<1>1. Inv
  BY InitInv DEF LogInit
<1>2. MetaInv
  <2>1. /\ stage = [g \in Writers |-> "ready"] /\ anonymousKey = 1 /\ loaded = [g \in Writers |-> 0]
        /\ attrs = [g \in Writers |-> <<>>] /\ given = [g \in Writers |-> <<>>]
        /\ metadata = [g \in Writers |-> <<>>]
    BY DEF LogInit
  <2>2. <<>> \in Seq(AttrType) /\ Len(<<>>) = 0
    BY EmptySeq
  <2>3. KeysDiffer(<<>>) /\ Range(<<>>) = {} /\ LatestOf(<<>>) = {}
    <3>1. LastsOf(<<>>) = {}
      BY <2>2 DEF LastsOf
    <3>2. DOMAIN <<>> = {}
      BY <2>2
    <3> QED BY <2>2, <3>1, <3>2 DEF KeysDiffer, Range, LatestOf
  <2> QED BY <2>1, <2>2, <2>3 DEF MetaInv
<1>3. KeyInv
  <2>1. \A g \in Writers : stage[g] = "ready" /\ given[g] = <<>> /\ attrs[g] = <<>>
    BY DEF LogInit
  <2>2. MakingKey = {}
    BY <2>1 DEF MakingKey
  <2>3. \A g \in Writers : 1 .. Made(g) = {}
    <3>1. Len(<<>>) = 0
      BY EmptySeq
    <3>2. \A g \in Writers : Made(g) = 0 + 0
      BY <2>1, <3>1 DEF Made
    <3>3. 0 + 0 = 0 /\ 1 .. 0 = {}
      OBVIOUS
    <3>4. \A g \in Writers : Made(g) = 0
      BY <3>2, <3>3, Zenon
    <3> QED BY <3>3, <3>4, Zenon
  <2> QED BY <2>2, <2>3 DEF KeyInv
<1>4. RecordInv
  <2>1. /\ stage = [g \in Writers |-> "ready"] /\ todo = [g \in Writers |-> <<>>]
        /\ record = [g \in Writers |-> 0] /\ told = [g \in Writers |-> "nil"]
        /\ torn = [g \in Writers |-> FALSE] /\ broken = [g \in Writers |-> FALSE]
    BY DEF LogInit
  <2>2. \A g \in Writers : /\ data[g] = <<>> /\ r[g] = 0 /\ pc[g] = "idle" /\ op[g] = NoOp /\ said[g] = 0
                           /\ answer[g] = "nil" /\ out[g] = <<>> /\ lost[g] = <<>> /\ ~freed[g] /\ ~jammed[g]
                           /\ ~passed[g]
    BY DEF LogInit, Init
  <2>3. <<>> \in Seq(Piece)
    BY EmptySeq
  <2>4. ASSUME NEW g \in Writers PROVE Noted(g)
    <3>1. /\ stage[g] = "ready" /\ record[g] = 0 /\ told[g] = "nil" /\ ~torn[g] /\ ~broken[g]
          /\ op[g].name = "Flush" /\ op[g].len = 0
      BY <2>1, <2>2 DEF NoOp
    <3>2. Blank(g)
      BY <3>1, <2>2 DEF Blank
    <3> QED BY <3>1, <3>2, <2>2 DEF Noted, Recorded
  <2> QED BY <2>1, <2>3, <2>4 DEF RecordInv, Errors
<1> QED BY <1>1, <1>2, <1>3, <1>4 DEF LogInv

LEMMA LogNextInv == LogInv /\ [LogNext]_allVars => LogInv'
<1> SUFFICES ASSUME LogInv, [LogNext]_allVars PROVE LogInv'
  OBVIOUS
<1>1. Inv /\ MetaInv /\ KeyInv /\ RecordInv
  BY DEF LogInv
<1>2. CASE UNCHANGED allVars
  <2>1. UNCHANGED <<vars, role, stage, metaVars, recordVars, last>>
    BY <1>2 DEF allVars, logVars
  <2>2. [Next]_vars
    BY <2>1
  <2>3. Inv'
    BY <1>1, <2>2, NextInv
  <2>4. MetaInv' /\ KeyInv'
    <3>1. UNCHANGED <<stage, anonymousKey, loaded, attrs, given, metadata, raced>>
      BY <2>1 DEF metaVars
    <3>2. \A h \in Writers : Made(h)' = Made(h) /\ All(h)' = All(h)
      BY <3>1 DEF Made, All
    <3>3. MetaInv'
      BY <1>1, <3>1 DEF MetaInv
    <3> QED BY <1>1, <3>1, <3>2, <3>3, KeyKept
  <2>5. \A q \in Writers : Same(q)
    BY <2>1 DEF vars, bufferVars, callVars, sinkVars, Same
  <2>6. RecordInv'
    <3>1. \A q \in Writers : Noted(q)'
      <4> SUFFICES ASSUME NEW q \in Writers PROVE Noted(q)'
        OBVIOUS
      <4>1. Noted(q)
        BY <1>1 DEF RecordInv
      <4> QED BY <4>1, <2>1, <2>5, OthersNoted DEF recordVars
    <3> QED BY <1>1, <2>1, <3>1 DEF RecordInv, recordVars
  <2> QED BY <2>3, <2>4, <2>6 DEF LogInv
<1>3. ASSUME NEW g \in Writers, LogStep(g) PROVE LogInv'
  <2>1. Inv' /\ RecordInv'
    BY <1>1, <1>3, WriterStep, RecordStepNoted
  <2>2. MetaInv' /\ KeyInv'
    BY <1>1, <1>3, MetaStep, KeyStep DEF LogStep
  <2> QED BY <2>1, <2>2 DEF LogInv
<1>4. CASE LogNext
  BY <1>3, <1>4 DEF LogNext, LogStep, RecordStep
<1> QED BY <1>2, <1>4

\* The invariant of the handlers, of the counter of keys, of the records and of the
\* writers they go through (log/loghandler, log/metadata.go, iolib/rw.go).
THEOREM LogCorrect == LogSpec => []LogInv
BY LogInitInv, LogNextInv, PTL DEF LogSpec

\* The writers that records go through keep the streams of their callers, whatever the
\* handlers do with them, and so do those of the other users of the SafeWriter
\* (console_handler.go, consle_state.go:16-58, rw.go:26-124).
THEOREM LogKeepsStreams == LogSpec => []StreamKept
<1>1. LogInv => StreamKept
  BY DEF LogInv, Inv, Kept, Stream, StreamKept
<1> QED BY <1>1, LogCorrect, PTL

\* So do the answers of these writers (rw.go:115).
THEOREM LogAnswersAreTrue == LogSpec => []AnswerIsTrue
<1>1. LogInv => AnswerIsTrue
  BY DEF LogInv, Inv, Kept, Answer, AnswerIsTrue
<1> QED BY <1>1, LogCorrect, PTL

\* A record that fits the buffer is one Write of the SafeWriter, however many goroutines
\* log and write at the same time, unless a Write fails (console_handler.go, rw.go:126-147).
THEOREM RecordsStayWhole == LogSpec => []RecordsUnbroken
<1>1. LogInv => RecordsUnbroken
  <2> SUFFICES ASSUME LogInv, NEW g \in Writers, role[g] = "log", broken[g]
               PROVE  record[g] > Size \/ torn[g]
    BY DEF RecordsUnbroken
  <2>1. ~Short(g) /\ record[g] \in Nat
    BY DEF LogInv, RecordInv, Noted, Recorded
  <2> QED BY <2>1, SizeAssumption DEF Short
<1> QED BY <1>1, LogCorrect, PTL

\* nil of Handle means that the whole record is in the sink, or that the Flush of Free,
\* whose error nobody returns, failed (consle_state.go:33).
THEOREM HandleTellsTrue == LogSpec => []HandleTold
<1>1. LogInv => HandleTold
  <2> SUFFICES ASSUME LogInv, NEW g \in Writers, stage[g] = "done", freed[g]
               PROVE  /\ told[g] = "nil" => Len(out[g]) + Len(lost[g]) = record[g]
                      /\ told[g] # "nil" \/ lost[g] # <<>> => torn[g]
    BY DEF HandleTold
  <2>1. Inv /\ Recorded(g)
    BY DEF LogInv, RecordInv, Noted
  <2>2. ~passed[g] /\ (told[g] = "nil" => said[g] = record[g]) /\ (told[g] # "nil" \/ lost[g] # <<>> => torn[g])
    BY <2>1 DEF Recorded
  <2>3. pc[g] = "idle"
    BY <2>1 DEF Inv, Kept, Control
  <2>4. Len(out[g]) + (Len(data[g]) - r[g]) + Len(lost[g]) = said[g] /\ Len(data[g]) - r[g] = 0
    BY <2>1, <2>2, <2>3, SaidIsThere
  <2>5. Len(out[g]) \in Nat /\ Len(lost[g]) \in Nat
    <3>1. out[g] \in Seq(Nat) /\ lost[g] \in Seq(Nat)
      BY <2>1, TypeNow DEF Inv
    <3> QED BY <3>1, LenProperties
  <2>6. Len(out[g]) + Len(lost[g]) = said[g]
    <3> DEFINE a == Len(out[g])
               b == Len(lost[g])
               c == Len(data[g]) - r[g]
    <3>1. a + c + b = said[g] /\ c = 0 /\ a \in Nat /\ b \in Nat
      BY <2>4, <2>5
    <3> HIDE DEF a, b, c
    <3>2. a + b = said[g]
      BY <3>1
    <3> QED BY <3>2 DEF a, b
  <2> QED BY <2>2, <2>6
<1> QED BY <1>1, LogCorrect, PTL

\* A handler shows every key once, with the value given last, however many attributes
\* come in however many WithAttrs (console_handler.go:193-215, slicelib.UniqByLast).
THEOREM MetadataIsLatest == LogSpec => []MetadataLatest
<1>1. LogInv => MetadataLatest
  <2> SUFFICES ASSUME LogInv, NEW g \in Writers
               PROVE  /\ Range(metadata[g]) = LatestOf(given[g])
                      /\ Len(metadata[g]) = Cardinality(LatestOf(given[g]))
    BY DEF MetadataLatest, LatestOf, LastsOf
  <2>1. MetaInv
    BY DEF LogInv
  <2>2. KeysDiffer(metadata[g]) /\ Range(metadata[g]) = LatestOf(given[g]) /\ metadata[g] \in Seq(AttrType)
    BY <2>1 DEF MetaInv
  <2> QED BY <2>2, KeysDifferLen
<1> QED BY <1>1, LogCorrect, PTL

\* Two anonymous metadata have one key only if two goroutines were making one at the same
\* time (metadata.go:60), for any number of goroutines and of metadata.
THEOREM AnonymousKeysKept == LogSpec => []AnonymousKept
<1>1. LogInv => AnonymousKept
  <2> SUFFICES ASSUME LogInv, NEW g \in Writers, NEW h \in Writers,
                      NEW i \in 1 .. Len(given[g]), NEW j \in 1 .. Len(given[h]),
                      <<g, i>> # <<h, j>>, given[g][i].key = given[h][j].key,
                      given[g][i].key[1] = "anonymous", <<g, i>> \notin raced, <<h, j>> \notin raced
               PROVE  FALSE
    BY DEF AnonymousKept
  <2>1. MetaInv /\ KeyInv
    BY DEF LogInv
  <2>2. i \in 1 .. Made(g) /\ All(g)[i] = given[g][i] /\ j \in 1 .. Made(h) /\ All(h)[j] = given[h][j]
    BY <2>1, MadeType
  <2>3. Fresh(g, i) /\ Fresh(h, j) /\ Number(g, i) = Number(h, j)
    BY <2>2 DEF Fresh, Number
  <2> QED BY <2>1, <2>2, <2>3 DEF KeyInv
<1> QED BY <1>1, LogCorrect, PTL
===============================================================================
