--------------------------- MODULE CachedCopyProofs ---------------------------
(***************************************************************************)
(* The safety properties of CachedCopy for every length of the chain,      *)
(* every size of its buffers and of the stream behind it, and every number *)
(* of copies.                                                              *)
(*                                                                         *)
(* One number says where the readers are: c, the units that have left      *)
(* them. It says what each buffer still has (AtUnit) and what the base     *)
(* reader has (Base), and got and lost have those c units between them     *)
(* (Stream).  A Read, a picked buffer and copyPure take the next units     *)
(* from wherever they are: the first part shows what a Read takes out of   *)
(* the chain, whose recursive functions Left and Cached are shown to exist *)
(* and to answer by position.  The other parts of Inv are about each       *)
(* buffer by itself (BufferInv: who still needs it), the course of Copy    *)
(* (ControlInv) and its counters (CountInv, Tally).                        *)
(***************************************************************************)
EXTENDS CachedCopy, SequenceTheorems, FiniteSetTheorems, TLAPS

\* A set of numbers that is not empty has a smallest one.
LEMMA SmallestOf ==
  ASSUME NEW S \in SUBSET Nat, S # {}
  PROVE  \E x \in S : \A y \in S : x <= y
<1>1. \A x, y \in Nat : y < x => <<y, x>> \in OpToRel(<, Nat)
  BY DEF OpToRel
<1>2. PICK x \in S : \A y \in S : <<y, x>> \notin OpToRel(<, Nat)
  BY NatLessThanWellFounded, WFMin
<1>3. \A y \in S : ~(y < x)
  BY <1>1, <1>2
<1> QED
  BY <1>3

\* What holds of 0 and of every number after one it holds of holds up to k.
LEMMA Climb ==
  ASSUME NEW k \in Nat, NEW G, 0 \in G, \A i \in 1 .. k : i - 1 \in G => i \in G
  PROVE  \A i \in 0 .. k : i \in G
<1> SUFFICES ASSUME (0 .. k) \ G # {} PROVE FALSE
  OBVIOUS
<1>1. PICK x \in (0 .. k) \ G : \A y \in (0 .. k) \ G : x <= y
  <2>1. (0 .. k) \ G \in SUBSET Nat
    OBVIOUS
  <2> QED BY <2>1, SmallestOf
<1>2. x \in 1 .. k /\ x - 1 \in 0 .. k
  BY <1>1
<1>3. x - 1 \notin (0 .. k) \ G
  BY <1>1, <1>2
<1> QED BY <1>1, <1>2, <1>3

-----------------------------------------------------------------------------
\* The stream in front of the readers.  When its first c units are gone, buffer i has
\* what Ahead(i, c) has more than Ahead(i - 1, c).

End(i) == i * PerBuffer    \* the last unit of buffer i
Ahead(i, c) == IF c < End(i) THEN End(i) - c ELSE 0
Grab(q, i, c) == Smaller(q, Ahead(i, c))
AtUnit(c) == \A i \in Chain : unread[i] = Ahead(i, c) - Ahead(i - 1, c)

LEMMA EndSteps ==
  /\ End(0) = 0
  /\ \A i \in Nat : End(i) \in Nat /\ End(i + 1) = End(i) + PerBuffer
  /\ \A i, j \in Nat : i < j => End(i) + PerBuffer <= End(j)
<1>1. PerBuffer \in Nat /\ PerBuffer > 0
  BY BoundsAssumption
<1>2. End(0) = 0
  BY <1>1 DEF End
<1>3. \A i \in Nat : End(i) \in Nat /\ End(i + 1) = End(i) + PerBuffer
  <2> SUFFICES ASSUME NEW i \in Nat PROVE End(i) \in Nat /\ End(i + 1) = End(i) + PerBuffer
    OBVIOUS
  <2>1. i * PerBuffer \in Nat
    BY <1>1
  <2>2. (i + 1) * PerBuffer = i * PerBuffer + PerBuffer
    BY <1>1
  <2> QED BY <2>1, <2>2 DEF End
<1>4. ASSUME NEW i \in Nat, NEW j \in Nat, i < j PROVE End(i) + PerBuffer <= End(j)
  <2> DEFINE G == {m \in Nat : End(i) + PerBuffer <= End(i + 1 + m)}
  <2> HIDE DEF End
  <2>1. 0 \in G
    <3>1. End(i + 1 + 0) = End(i) + PerBuffer /\ End(i) \in Nat
      BY <1>3
    <3> QED BY <3>1, <1>1
  <2>2. j - i - 1 \in Nat /\ i + 1 + (j - i - 1) = j
    BY <1>4
  <2>3. ASSUME NEW m \in 1 .. j - i - 1, m - 1 \in G PROVE m \in G
    <3>1. i + 1 + (m - 1) \in Nat /\ (i + 1 + (m - 1)) + 1 = i + 1 + m
      BY <2>2
    <3>2. End(i + 1 + m) = End(i + 1 + (m - 1)) + PerBuffer /\ End(i + 1 + (m - 1)) \in Nat /\ End(i) \in Nat
      BY <3>1, <1>3
    <3>3. End(i) + PerBuffer <= End(i + 1 + (m - 1))
      BY <2>3
    <3> QED BY <3>2, <3>3, <1>1, <2>2
  <2>4. j - i - 1 \in G
    <3> HIDE DEF G
    <3>1. \A m \in 0 .. j - i - 1 : m \in G
      BY <2>1, <2>2, <2>3, Climb
    <3> QED BY <3>1, <2>2
  <2> QED BY <2>2, <2>4
<1> QED BY <1>2, <1>3, <1>4

\* One buffer more.
LEMMA AheadSteps ==
  ASSUME NEW c \in Nat, NEW i \in Nat \ {0}
  PROVE  /\ Ahead(i, c) \in Nat /\ Ahead(i - 1, c) \in Nat
         /\ Ahead(i - 1, c) <= Ahead(i, c) /\ Ahead(i, c) - Ahead(i - 1, c) \in 0 .. PerBuffer
         /\ Ahead(0, c) = 0
         /\ Ahead(i, c) > 0 => Ahead(i, c) > Ahead(i - 1, c) /\ c + Ahead(i, c) = End(i)
         /\ Ahead(i - 1, c) > 0 => c + Ahead(i - 1, c) = End(i - 1) /\ Ahead(i, c) - Ahead(i - 1, c) = PerBuffer
<1>1. /\ End(0) = 0 /\ End(i - 1) \in Nat /\ End(i) = End(i - 1) + PerBuffer /\ PerBuffer \in Nat
      /\ PerBuffer > 0
  <2>1. i - 1 \in Nat /\ (i - 1) + 1 = i
    OBVIOUS
  <2>2. End(i - 1) \in Nat /\ End((i - 1) + 1) = End(i - 1) + PerBuffer
    BY <2>1, EndSteps
  <2> QED BY <2>1, <2>2, EndSteps, BoundsAssumption
<1> HIDE DEF End
<1> QED BY <1>1 DEF Ahead

\* Left is what the buffers do not give.
LEMMA LeftIs ==
  ASSUME depth \in Nat, NEW q \in Nat, NEW c \in Nat, AtUnit(c)
  PROVE  \A i \in 0 .. depth : Left(q)[i] = q - Grab(q, i, c)
<1> DEFINE From(g, i) == IF i = 0 THEN q ELSE g[i - 1] - Smaller(unread[i], g[i - 1])
           IsLeft(g) == g = [i \in 0 .. depth |-> From(g, i)]
           h == [i \in 0 .. depth |-> q - Grab(q, i, c)]
<1>1. ASSUME NEW i \in 0 .. depth PROVE q - Grab(q, i, c) = From(h, i)
  <2>1. CASE i = 0
    <3>1. Ahead(0, c) = 0
      BY AheadSteps
    <3> QED BY <2>1, <3>1 DEF Grab, Smaller
  <2>2. CASE i # 0
    <3>1. i \in Nat \ {0} /\ i \in Chain /\ i - 1 \in 0 .. depth
      BY <2>2 DEF Chain
    <3>2. unread[i] = Ahead(i, c) - Ahead(i - 1, c)
      BY <3>1 DEF AtUnit
    <3>3. h[i - 1] = q - Grab(q, i - 1, c)
      BY <3>1
    <3> HIDE DEF h
    <3>4. Ahead(i, c) \in Nat /\ Ahead(i - 1, c) \in Nat /\ Ahead(i - 1, c) <= Ahead(i, c)
      BY <3>1, AheadSteps
    <3> QED BY <2>2, <3>2, <3>3, <3>4 DEF Grab, Smaller
  <2> QED BY <2>1, <2>2
<1>2. IsLeft(h)
  <2> HIDE DEF From
  <2> QED BY <1>1
<1> DEFINE left == CHOOSE g : IsLeft(g)
<1>3. IsLeft(left)
  <2> HIDE DEF IsLeft, h
  <2> QED BY <1>2
<1>4. Left(q) = left
  BY DEF Left
<1>5. \A i \in 0 .. depth : left[i] = From(left, i)
  <2> HIDE DEF left, From
  <2> QED BY <1>3
<1> HIDE DEF left, h
<1> DEFINE G == {i \in 0 .. depth : left[i] = q - Grab(q, i, c)}
<1>6. 0 \in G
  <2>1. Ahead(0, c) = 0
    BY AheadSteps
  <2> QED BY <2>1, <1>5 DEF Grab, Smaller
<1>7. ASSUME NEW i \in 1 .. depth, i - 1 \in G PROVE i \in G
  <2>1. i \in 0 .. depth /\ i - 1 \in 0 .. depth /\ i \in Chain /\ i # 0
    BY DEF Chain
  <2>2. left[i] = left[i - 1] - Smaller(unread[i], left[i - 1])
    BY <2>1, <1>5
  <2>3. left[i - 1] = q - Grab(q, i - 1, c)
    BY <1>7
  <2>4. q - Grab(q, i, c) = (q - Grab(q, i - 1, c)) - Smaller(unread[i], q - Grab(q, i - 1, c))
    <3>1. unread[i] = Ahead(i, c) - Ahead(i - 1, c)
      BY <2>1 DEF AtUnit
    <3>2. Ahead(i, c) \in Nat /\ Ahead(i - 1, c) \in Nat /\ Ahead(i - 1, c) <= Ahead(i, c)
      BY <2>1, AheadSteps
    <3> QED BY <3>1, <3>2 DEF Grab, Smaller
  <2> QED BY <2>1, <2>2, <2>3, <2>4
<1>8. \A i \in 0 .. depth : i \in G
  <2> HIDE DEF G
  <2> QED BY <1>6, <1>7, Climb
<1> QED BY <1>4, <1>8

\* A stretch of the stream.
LEMMA UnitsType ==
  ASSUME NEW f \in Nat, NEW k \in Nat
  PROVE  /\ Units(f, k) \in Seq(Nat) /\ Len(Units(f, k)) = k
         /\ \A j \in 1 .. k : Units(f, k)[j] = f + j - 1
         /\ Range(Units(f, k)) = f .. f + k - 1
<1>1. Units(f, k) \in [1 .. k -> Nat]
  BY DEF Units
<1>2. Units(f, k) \in Seq(Nat) /\ Len(Units(f, k)) = k
  BY <1>1, SeqDef
<1>3. \A j \in 1 .. k : Units(f, k)[j] = f + j - 1
  BY DEF Units
<1>4. Range(Units(f, k)) = {f + j - 1 : j \in 1 .. k}
  BY DEF Units, Range
<1>5. \A x \in f .. f + k - 1 : x - f + 1 \in 1 .. k /\ x = f + (x - f + 1) - 1
  OBVIOUS
<1>6. \A j \in 1 .. k : f + j - 1 \in f .. f + k - 1
  OBVIOUS
<1>7. {f + j - 1 : j \in 1 .. k} = f .. f + k - 1
  BY <1>5, <1>6
<1> QED BY <1>2, <1>3, <1>4, <1>7

LEMMA UnitsConcat ==
  ASSUME NEW f \in Nat, NEW k \in Nat, NEW m \in Nat
  PROVE  Units(f, k) \o Units(f + k, m) = Units(f, k + m)
<1> DEFINE s == Units(f, k)
           t == Units(f + k, m)
           u == Units(f, k + m)
<1>1. /\ s \in Seq(Nat) /\ Len(s) = k /\ \A j \in 1 .. k : s[j] = f + j - 1
      /\ t \in Seq(Nat) /\ Len(t) = m /\ \A j \in 1 .. m : t[j] = f + k + j - 1
      /\ u \in Seq(Nat) /\ Len(u) = k + m /\ \A j \in 1 .. k + m : u[j] = f + j - 1
  <2>1. f + k \in Nat /\ k + m \in Nat
    OBVIOUS
  <2>2. s \in Seq(Nat) /\ Len(s) = k /\ \A j \in 1 .. k : s[j] = f + j - 1
    BY UnitsType
  <2>3. t \in Seq(Nat) /\ Len(t) = m /\ \A j \in 1 .. m : t[j] = f + k + j - 1
    BY <2>1, UnitsType
  <2>4. u \in Seq(Nat) /\ Len(u) = k + m /\ \A j \in 1 .. k + m : u[j] = f + j - 1
    BY <2>1, UnitsType
  <2> QED BY <2>2, <2>3, <2>4
<1> HIDE DEF s, t, u
<1>2. /\ s \o t \in Seq(Nat) /\ Len(s \o t) = k + m
      /\ \A i \in 1 .. k + m : (s \o t)[i] = IF i <= k THEN s[i] ELSE t[i - k]
  BY <1>1, ConcatProperties
<1>3. ASSUME NEW i \in 1 .. k + m PROVE (s \o t)[i] = u[i]
  <2>1. CASE i <= k
    BY <2>1, <1>1, <1>2
  <2>2. CASE ~(i <= k)
    <3>1. i - k \in 1 .. m
      BY <2>2
    <3>2. t[i - k] = f + i - 1
      BY <3>1, <1>1
    <3> QED BY <3>2, <2>2, <1>1, <1>2
  <2> QED BY <2>1, <2>2
<1>4. s \o t = u
  BY <1>1, <1>2, <1>3, SeqEqual
<1> QED BY <1>4 DEF s, t, u

\* What follows some units of a stretch, and what is before.
LEMMA UnitsSplit ==
  ASSUME NEW f \in Nat, NEW k \in Nat, NEW j \in 0 .. k
  PROVE  /\ SubSeq(Units(f, k), 1, j) = Units(f, j)
         /\ SubSeq(Units(f, k), j + 1, k) = Units(f + j, k - j)
<1> DEFINE u == Units(f, k)
           s == Units(f, j)
           t == Units(f + j, k - j)
           x == SubSeq(u, 1, j)
           y == SubSeq(u, j + 1, k)
<1>1. /\ u \in Seq(Nat) /\ Len(u) = k /\ \A i \in 1 .. k : u[i] = f + i - 1
      /\ s \in Seq(Nat) /\ Len(s) = j /\ \A i \in 1 .. j : s[i] = f + i - 1
  <2>1. u \in Seq(Nat) /\ Len(u) = k /\ \A i \in 1 .. k : u[i] = f + i - 1
    BY UnitsType
  <2>2. j \in Nat
    OBVIOUS
  <2>3. s \in Seq(Nat) /\ Len(s) = j /\ \A i \in 1 .. j : s[i] = f + i - 1
    BY <2>2, UnitsType
  <2> QED BY <2>1, <2>3
<1>2. t \in Seq(Nat) /\ Len(t) = k - j /\ \A i \in 1 .. k - j : t[i] = f + j + i - 1
  <2>1. f + j \in Nat /\ k - j \in Nat
    OBVIOUS
  <2> QED BY <2>1, UnitsType
<1>3. \A i \in 1 .. k : u[i] \in Nat
  BY <1>1
<1> HIDE DEF u, s, t
<1>4. x \in Seq(Nat) /\ Len(x) = j /\ \A i \in 1 .. j : x[i] = u[i]
  <2>1. \A i \in 1 .. j : u[i] \in Nat
    BY <1>3
  <2>2. /\ x \in Seq(Nat) /\ Len(x) = IF 1 <= j THEN j - 1 + 1 ELSE 0
        /\ \A i \in 1 .. j - 1 + 1 : x[i] = u[1 + i - 1]
    BY <1>1, <2>1, SubSeqProperties
  <2> HIDE DEF x
  <2>3. Len(x) = j
    BY <2>2
  <2>4. ASSUME NEW i \in 1 .. j PROVE x[i] = u[i]
    <3>1. i \in 1 .. j - 1 + 1 /\ 1 + i - 1 = i
      OBVIOUS
    <3> QED BY <3>1, <2>2
  <2> QED BY <2>2, <2>3, <2>4
<1>5. y \in Seq(Nat) /\ Len(y) = k - j /\ \A i \in 1 .. k - j : y[i] = u[j + i]
  <2>1. \A i \in j + 1 .. k : u[i] \in Nat
    BY <1>3
  <2>2. /\ y \in Seq(Nat) /\ Len(y) = IF j + 1 <= k THEN k - (j + 1) + 1 ELSE 0
        /\ \A i \in 1 .. k - (j + 1) + 1 : y[i] = u[(j + 1) + i - 1]
    BY <1>1, <2>1, SubSeqProperties
  <2> HIDE DEF y
  <2>3. Len(y) = k - j
    BY <2>2
  <2>4. ASSUME NEW i \in 1 .. k - j PROVE y[i] = u[j + i]
    <3>1. i \in 1 .. k - (j + 1) + 1 /\ (j + 1) + i - 1 = j + i
      OBVIOUS
    <3> QED BY <3>1, <2>2
  <2> QED BY <2>2, <2>3, <2>4
<1> HIDE DEF x, y
<1>6. ASSUME NEW i \in 1 .. j PROVE x[i] = s[i]
  <2>1. i \in 1 .. k
    OBVIOUS
  <2> QED BY <2>1, <1>1, <1>4
<1>7. ASSUME NEW i \in 1 .. k - j PROVE y[i] = t[i]
  <2>1. j + i \in 1 .. k
    OBVIOUS
  <2>2. u[j + i] = f + (j + i) - 1 /\ t[i] = f + j + i - 1
    BY <2>1, <1>1, <1>2
  <2> QED BY <2>2, <1>5
<1>8. x = s
  BY <1>1, <1>4, <1>6, SeqEqual
<1>9. y = t
  BY <1>2, <1>5, <1>7, SeqEqual
<1> QED BY <1>8, <1>9 DEF x, y, s, t, u

-----------------------------------------------------------------------------
\* A Read.

\* What a Read of q units takes is what follows, as far as the buffers have it.
LEMMA TakeIs ==
  ASSUME depth \in Nat, NEW q \in Nat, NEW c \in Nat, AtUnit(c), NEW i \in Chain
  PROVE  /\ Take(q)[i] = Grab(q, i, c) - Grab(q, i - 1, c)
         /\ Take(q)[i] \in 0 .. unread[i]
         /\ unread[i] - Take(q)[i] = Ahead(i, c + Grab(q, depth, c)) - Ahead(i - 1, c + Grab(q, depth, c))
         /\ i = depth => Take(q)[i] <= Grab(q, depth, c)
<1>1. i \in 0 .. depth /\ i - 1 \in 0 .. depth /\ i \in Nat \ {0}
  BY DEF Chain
<1>2. Take(q)[i] = Left(q)[i - 1] - Left(q)[i]
  BY DEF Take
<1>3. Left(q)[i] = q - Grab(q, i, c) /\ Left(q)[i - 1] = q - Grab(q, i - 1, c)
  BY <1>1, LeftIs
<1>4. /\ Ahead(i, c) \in Nat /\ Ahead(i - 1, c) \in Nat /\ Ahead(i - 1, c) <= Ahead(i, c)
      /\ unread[i] = Ahead(i, c) - Ahead(i - 1, c)
  BY <1>1, AheadSteps DEF AtUnit
<1>5. Grab(q, i, c) \in Nat /\ Grab(q, i - 1, c) \in Nat
  BY <1>4 DEF Grab, Smaller
<1>6. Take(q)[i] = Grab(q, i, c) - Grab(q, i - 1, c)
  BY <1>2, <1>3, <1>5
<1>7. End(i) \in Nat /\ End(i - 1) \in Nat /\ End(depth) \in Nat /\ End(i - 1) <= End(i) /\ End(i) <= End(depth)
  <2>1. i - 1 \in Nat /\ i - 1 < i /\ PerBuffer \in Nat
    BY <1>1, BoundsAssumption
  <2>2. End(i - 1) + PerBuffer <= End(i) /\ End(i) \in Nat /\ End(i - 1) \in Nat /\ End(depth) \in Nat
    BY <1>1, <2>1, EndSteps
  <2>3. i = depth \/ i < depth
    BY <1>1
  <2>4. i < depth => End(i) + PerBuffer <= End(depth)
    BY <1>1, EndSteps
  <2> QED BY <2>1, <2>2, <2>3, <2>4
<1>8. /\ unread[i] - Take(q)[i] = Ahead(i, c + Grab(q, depth, c)) - Ahead(i - 1, c + Grab(q, depth, c))
      /\ Take(q)[i] \in 0 .. unread[i] 
      /\ i = depth => Take(q)[i] <= Grab(q, depth, c)
  <2> DEFINE D == Ahead(depth, c)
  <2> HIDE DEF End
  <2>1. D \in Nat /\ Ahead(i, c) <= D /\ (i = depth => Ahead(i, c) = D)
    BY <1>4, <1>7 DEF Ahead
  <2>2. CASE q <= D
    <3>1. Grab(q, depth, c) = q
      BY <2>1, <2>2 DEF Grab, Smaller
    <3>2. Ahead(i, c + q) = Ahead(i, c) - Grab(q, i, c) /\ Ahead(i - 1, c + q) = Ahead(i - 1, c) - Grab(q, i - 1, c)
      BY <1>7 DEF Ahead, Grab, Smaller
    <3>3. Grab(q, i - 1, c) <= Grab(q, i, c) /\ Grab(q, i, c) <= q
          /\ Grab(q, i, c) - Grab(q, i - 1, c) <= Ahead(i, c) - Ahead(i - 1, c)
      BY <1>4 DEF Grab, Smaller
    <3> HIDE DEF D, Ahead, Grab
    <3> QED BY <1>4, <1>5, <1>6, <3>1, <3>2, <3>3
  <2>3. CASE ~(q <= D)
    <3>1. Grab(q, depth, c) = D
      BY <2>1, <2>3 DEF Grab, Smaller
    <3>2. Ahead(i, c + D) = 0 /\ Ahead(i - 1, c + D) = 0
      BY <1>7 DEF Ahead
    <3>3. Grab(q, i, c) = Ahead(i, c) /\ Grab(q, i - 1, c) = Ahead(i - 1, c)
      BY <2>1, <2>3, <1>4 DEF Grab, Smaller
    <3> HIDE DEF D, Ahead, Grab
    <3> QED BY <1>4, <1>6, <2>1, <3>1, <3>2, <3>3
  <2> QED BY <2>2, <2>3, <2>1
<1> QED BY <1>6, <1>8

\* Cached gives the units in their order.
LEMMA CachedIs ==
  ASSUME depth \in Nat, NEW q \in Nat, NEW c \in Nat, AtUnit(c)
  PROVE  Cached(q) = Units(c + 1, Grab(q, depth, c))
<1> DEFINE From(g, i) == IF i = 0 THEN <<>> ELSE g[i - 1] \o Leading(i, Take(q)[i])
           IsCached(g) == g = [i \in 0 .. depth |-> From(g, i)]
           h == [i \in 0 .. depth |-> Units(c + 1, Grab(q, i, c))]
<1>1. Units(c + 1, Grab(q, 0, c)) = <<>>
  <2>1. Ahead(0, c) = 0
    BY AheadSteps
  <2>2. Grab(q, 0, c) = 0
    BY <2>1 DEF Grab, Smaller
  <2>3. Units(c + 1, 0) \in Seq(Nat) /\ Len(Units(c + 1, 0)) = 0
    BY UnitsType
  <2> QED BY <2>2, <2>3, EmptySeq
<1>2. ASSUME NEW i \in 1 .. depth
      PROVE  Units(c + 1, Grab(q, i, c)) = Units(c + 1, Grab(q, i - 1, c)) \o Leading(i, Take(q)[i])
  <2>1. i \in Chain /\ i \in Nat \ {0}
    BY DEF Chain
  <2>2. Take(q)[i] = Grab(q, i, c) - Grab(q, i - 1, c) /\ Take(q)[i] \in 0 .. unread[i]
    BY <2>1, TakeIs
  <2>3. /\ Ahead(i, c) \in Nat /\ Ahead(i - 1, c) \in Nat /\ Ahead(i - 1, c) <= Ahead(i, c)
        /\ unread[i] = Ahead(i, c) - Ahead(i - 1, c)
        /\ Ahead(i, c) > 0 => c + Ahead(i, c) = End(i)
    BY <2>1, AheadSteps DEF AtUnit
  <2> DEFINE a == Grab(q, i - 1, c)
             t == Take(q)[i]
  <2>4. a \in Nat /\ t \in Nat /\ Grab(q, i, c) = a + t
    BY <2>2, <2>3 DEF Grab, Smaller
  <2>5. t > 0 => End(i) - unread[i] = c + a
    BY <2>2, <2>3 DEF Grab, Smaller
  <2>6. Leading(i, t) = Units(End(i) - unread[i] + 1, t)
    BY DEF Leading, End
  <2> HIDE DEF a, t
  <2>7. CASE t > 0
    <3>1. End(i) - unread[i] + 1 = (c + 1) + a
      BY <2>5, <2>7, <2>4
    <3>2. Leading(i, t) = Units((c + 1) + a, t)
      BY <2>6, <3>1
    <3>3. Units(c + 1, a) \o Units((c + 1) + a, t) = Units(c + 1, a + t)
      <4>1. c + 1 \in Nat
        OBVIOUS
      <4> QED BY <2>4, <4>1, UnitsConcat
    <3> QED BY <2>4, <3>2, <3>3 DEF a, t
  <2>8. CASE t = 0
    <3>1. Leading(i, t) = <<>>
      BY <2>6, <2>8 DEF Units
    <3>2. Units(c + 1, a) \in Seq(Nat)
      BY <2>4, UnitsType
    <3>3. Units(c + 1, a) \o <<>> = Units(c + 1, a)
      BY <3>2, ConcatEmptySeq
    <3>4. a + t = a
      BY <2>4, <2>8
    <3> QED BY <2>4, <3>1, <3>3, <3>4 DEF a, t
  <2>9. t > 0 \/ t = 0
    BY <2>4
  <2> QED BY <2>7, <2>8, <2>9 DEF t
<1>3. ASSUME NEW i \in 0 .. depth PROVE Units(c + 1, Grab(q, i, c)) = From(h, i)
  <2>1. CASE i = 0
    BY <2>1, <1>1
  <2>2. CASE i # 0
    <3>1. i \in 1 .. depth /\ i - 1 \in 0 .. depth
      BY <2>2
    <3>2. h[i - 1] = Units(c + 1, Grab(q, i - 1, c))
      BY <3>1
    <3> HIDE DEF h
    <3> QED BY <2>2, <3>1, <3>2, <1>2
  <2> QED BY <2>1, <2>2
<1>4. IsCached(h)
  <2> HIDE DEF From
  <2> QED BY <1>3
<1> DEFINE cached == CHOOSE g : IsCached(g)
<1>5. IsCached(cached)
  <2> HIDE DEF IsCached, h
  <2> QED BY <1>4
<1>6. Cached(q) = cached[depth]
  BY DEF Cached
<1>7. \A i \in 0 .. depth : cached[i] = From(cached, i)
  <2> HIDE DEF cached, From
  <2> QED BY <1>5
<1> HIDE DEF cached, h
<1> DEFINE G == {i \in 0 .. depth : cached[i] = Units(c + 1, Grab(q, i, c))}
<1>8. 0 \in G
  BY <1>1, <1>7
<1>9. ASSUME NEW i \in 1 .. depth, i - 1 \in G PROVE i \in G
  <2>1. i \in 0 .. depth /\ i # 0
    OBVIOUS
  <2>2. cached[i] = cached[i - 1] \o Leading(i, Take(q)[i])
    BY <2>1, <1>7
  <2> QED BY <2>1, <2>2, <1>2, <1>9
<1>10. depth \in G
  <2> HIDE DEF G
  <2>1. \A i \in 0 .. depth : i \in G
    BY <1>8, <1>9, Climb
  <2> QED BY <2>1
<1> QED BY <1>6, <1>10

-----------------------------------------------------------------------------
\* Who has the first c units of the stream.

Base(c) ==
  IF hasBase THEN baseUnread = (IF c < End(depth) THEN BaseUnits ELSE Total - c)
  ELSE baseUnread = 0 /\ c <= End(depth)

Ordered(s, c) ==
  /\ s \in Seq(Nat)
  /\ \A i \in 1 .. Len(s) : s[i] \in 1 .. c
  /\ \A i, j \in 1 .. Len(s) : i < j => s[i] < s[j]

Stream(c) ==
  /\ Ordered(got, c)
  /\ lost \subseteq 1 .. c
  /\ Len(got) + Cardinality(lost) = c
  /\ lost = {} => got = Units(1, c)

\* Units in order stay in order when the next ones follow.
LEMMA InOrder ==
  ASSUME NEW s, NEW c \in Nat, NEW a \in Nat, NEW b \in Nat, Ordered(s, c)
  PROVE  /\ Ordered(s \o Units(c + 1, a), c + a + b)
         /\ Len(s) \in Nat /\ Len(s \o Units(c + 1, a)) = Len(s) + a
<1> DEFINE u == Units(c + 1, a)
           t == s \o u
<1>0. PICK L \in Nat :
        /\ s \in Seq(Nat) /\ Len(s) = L /\ \A i \in 1 .. L : s[i] \in 1 .. c
        /\ \A i, j \in 1 .. L : i < j => s[i] < s[j]
  <2>1. s \in Seq(Nat)
    BY DEF Ordered
  <2>2. Len(s) \in Nat
    BY <2>1, LenProperties
  <2> QED BY <2>1, <2>2 DEF Ordered
<1>1. u \in Seq(Nat) /\ Len(u) = a /\ \A i \in 1 .. a : u[i] = c + 1 + i - 1
  <2>1. c + 1 \in Nat
    OBVIOUS
  <2> QED BY <2>1, UnitsType
<1> HIDE DEF u
<1>2. /\ t \in Seq(Nat) /\ Len(t) = L + a
      /\ \A i \in 1 .. L + a : t[i] = IF i <= L THEN s[i] ELSE u[i - L]
  BY <1>0, <1>1, ConcatProperties
<1> HIDE DEF t
<1>3. ASSUME NEW i \in 1 .. L
      PROVE  t[i] = s[i] /\ t[i] \in 1 .. c
  <2>1. i <= L /\ i \in 1 .. L + a
    OBVIOUS
  <2> QED BY <2>1, <1>0, <1>2
<1>4. ASSUME NEW i \in L + 1 .. L + a PROVE t[i] = c + (i - L)
  <2>1. i \in 1 .. L + a /\ ~(i <= L) /\ i - L \in 1 .. a
    OBVIOUS
  <2>2. t[i] = u[i - L] /\ u[i - L] = c + 1 + (i - L) - 1
    BY <2>1, <1>1, <1>2
  <2> QED BY <2>2
<1>5. \A i \in 1 .. L + a : i \in 1 .. L \/ i \in L + 1 .. L + a
  OBVIOUS
<1>7. ASSUME NEW i \in 1 .. L + a PROVE t[i] \in 1 .. c + a + b
  <2>1. CASE i \in 1 .. L
    <3>1. t[i] \in 1 .. c
      BY <2>1, <1>3
    <3> QED BY <3>1
  <2>2. CASE i \in L + 1 .. L + a
    <3>1. t[i] = c + (i - L)
      BY <2>2, <1>4
    <3> QED BY <2>2, <3>1
  <2> QED BY <2>1, <2>2, <1>5
<1>8. ASSUME NEW i \in 1 .. L + a, NEW j \in 1 .. L + a, i < j PROVE t[i] < t[j]
  <2>1. CASE j \in 1 .. L
    <3>1. i \in 1 .. L
      BY <2>1, <1>8
    <3>2. t[i] = s[i] /\ t[j] = s[j]
      BY <2>1, <3>1, <1>3
    <3>3. s[i] < s[j]
      BY <2>1, <3>1, <1>8, <1>0
    <3> QED BY <3>2, <3>3
  <2>2. CASE i \in 1 .. L /\ j \in L + 1 .. L + a
    <3>1. t[i] \in 1 .. c /\ t[j] = c + (j - L)
      BY <2>2, <1>3, <1>4
    <3> QED BY <2>2, <3>1
  <2>3. CASE i \in L + 1 .. L + a /\ j \in L + 1 .. L + a
    <3>1. t[i] = c + (i - L) /\ t[j] = c + (j - L)
      BY <2>3, <1>4
    <3> QED BY <3>1, <1>8
  <2>4. i \in L + 1 .. L + a => j \in L + 1 .. L + a
    BY <1>8
  <2> QED BY <2>1, <2>2, <2>3, <2>4, <1>5
<1>9. Ordered(t, c + a + b)
  BY <1>2, <1>7, <1>8 DEF Ordered
<1> QED BY <1>0, <1>2, <1>9 DEF t, u

\* The next units are delivered, and some after them lost.
LEMMA StreamMoves ==
  ASSUME NEW c \in Nat, NEW a \in Nat, NEW b \in Nat, Stream(c),
         got' = got \o Units(c + 1, a),
         lost' = lost \cup (c + a + 1 .. c + a + b)
  PROVE  /\ Stream(c + a + b)'
         /\ b = 0 => lost' = lost
         /\ b > 0 => lost' # {}
<1> DEFINE x == c + a + 1 .. c + a + b
<1>1. Ordered(got, c) /\ lost \subseteq 1 .. c /\ Len(got) + Cardinality(lost) = c
      /\ (lost = {} => got = Units(1, c))
  BY DEF Stream
<1>2. Ordered(got', c + a + b) /\ Len(got) \in Nat /\ Len(got') = Len(got) + a
  <2>1. got' = got \o Units(c + 1, a)
    OBVIOUS
  <2>2. /\ Ordered(got \o Units(c + 1, a), c + a + b)
        /\ Len(got) \in Nat /\ Len(got \o Units(c + 1, a)) = Len(got) + a
    BY <1>1, InOrder
  <2> QED BY ONLY <2>1, <2>2
<1>4. lost' \subseteq 1 .. c + a + b
  <2>1. \A z \in 1 .. c : z \in 1 .. c + a + b
    OBVIOUS
  <2>2. \A z \in x : z \in 1 .. c + a + b
    OBVIOUS
  <2>3. lost' = lost \cup x
    OBVIOUS
  <2> QED BY ONLY <2>1, <2>2, <2>3, <1>1
<1>5. /\ Cardinality(lost) \in Nat
      /\ Cardinality(lost \cup x) = Cardinality(lost) + b
  <2>1. IsFiniteSet(1 .. c) /\ IsFiniteSet(x)
    BY FS_Interval
  <2>2. IsFiniteSet(lost) /\ Cardinality(lost) \in Nat
    BY <2>1, <1>1, FS_Subset, FS_CardinalityType
  <2>3. Cardinality(x) = b
    <3>1. Cardinality(x) = IF c + a + 1 > c + a + b THEN 0 ELSE (c + a + b) - (c + a + 1) + 1
      <4>1. c + a + 1 \in Int /\ c + a + b \in Int
        OBVIOUS
      <4> QED BY <4>1, FS_Interval
    <3> QED BY <3>1
  <2>4. lost \cap x = {}
    BY <1>1
  <2>5. Cardinality(lost \cap x) = 0
    BY <2>4, FS_EmptySet
  <2>6. Cardinality(lost \cup x) = Cardinality(lost) + Cardinality(x) - Cardinality(lost \cap x)
    BY <2>1, <2>2, FS_Union
  <2> HIDE DEF x
  <2> QED BY <2>2, <2>3, <2>5, <2>6
<1>6. Len(got') + Cardinality(lost') = c + a + b
  <2>1. lost' = lost \cup x
    OBVIOUS
  <2>2. Cardinality(lost') = Cardinality(lost) + b
    BY ONLY <2>1, <1>5
  <2> QED BY ONLY <2>2, <1>1, <1>2, <1>5, a \in Nat, b \in Nat
<1>7. b > 0 => lost' # {}
  <2>1. b > 0 => c + a + 1 \in x
    OBVIOUS
  <2> QED BY <2>1
<1>8. b = 0 => lost' = lost
  OBVIOUS
<1>9. lost' = {} => got' = Units(1, c + a + b)
  <2> SUFFICES ASSUME lost' = {} PROVE got' = Units(1, c + a + b)
    OBVIOUS
  <2>1. lost = {} /\ b = 0
    BY <1>7
  <2>2. got = Units(1, c)
    BY <2>1, <1>1
  <2>3. 1 + c = c + 1 /\ c + a + b = c + a
    BY <2>1
  <2>4. Units(1, c) \o Units(1 + c, a) = Units(1, c + a)
    BY UnitsConcat
  <2> QED BY <2>2, <2>3, <2>4
<1>10. Stream(c + a + b)'
  BY ONLY <1>2, <1>4, <1>6, <1>9 DEF Stream
<1> QED BY <1>7, <1>8, <1>10

LEMMA TotalIs ==
  ASSUME depth \in Nat
  PROVE  Total = End(depth) + BaseUnits /\ End(depth) \in Nat /\ Total \in Nat /\ BaseUnits \in Nat
<1>1. End(depth) \in Nat /\ BaseUnits \in Nat
  BY EndSteps, BoundsAssumption
<1>2. Total = End(depth) + BaseUnits
  BY DEF Total, End
<1> QED BY <1>1, <1>2

\* What a Read of q units answers when the base reader gives k: it takes m units from
\* the buffers and drops d of them.
Answers(q, k, c, m, d) ==
  /\ m = Grab(q, depth, c) /\ d <= m /\ m <= q
  /\ Len(Cached(q)) = m
  /\ d > 0 => ~hasBase /\ k = 0 /\ m < q
  /\ Answer(q, k) = Units(c + 1, m - d + k) /\ Len(Answer(q, k)) = m - d + k
  /\ DroppedUnits(q) = c + m - d + 1 .. c + m
  /\ k <= baseUnread /\ m + k <= q /\ c + m + k <= Total
  /\ k > 0 => c + m >= End(depth)
  /\ c + m < End(depth) => m = q
  /\ baseUnread \in Nat

LEMMA AnswerIs ==
  ASSUME depth \in Nat, depth = 0 => hasBase, NEW q \in Nat, NEW k \in Nat, NEW c \in Nat,
         AtUnit(c), Base(c), c <= Total, k = 0 \/ k <= Smaller(baseUnread, q - Len(Cached(q)))
  PROVE  \E m, d \in Nat : Answers(q, k, c, m, d)
<1> DEFINE m == Grab(q, depth, c)
           d == Dropped(q)
<1>1. Total = End(depth) + BaseUnits /\ End(depth) \in Nat /\ Total \in Nat /\ BaseUnits \in Nat
  BY TotalIs
<1>2. /\ m \in Nat /\ m <= q /\ (c + m < End(depth) => m = q)
      /\ (c < End(depth) => c + m <= End(depth)) /\ (c >= End(depth) => m = 0)
  BY <1>1 DEF Grab, Smaller, Ahead
<1>3. Cached(q) = Units(c + 1, m)
  BY CachedIs
<1>4. Units(c + 1, m) \in Seq(Nat) /\ Len(Units(c + 1, m)) = m /\ Range(Units(c + 1, m)) = c + 1 .. c + 1 + m - 1
  <2>1. c + 1 \in Nat
    OBVIOUS
  <2> HIDE DEF m
  <2> QED BY <2>1, <1>2, UnitsType
<1>5. Len(Cached(q)) = m
  BY <1>3, <1>4
<1>6. baseUnread \in Nat /\ (hasBase /\ c + m >= End(depth) => baseUnread = Total - (c + m))
  <2> HIDE DEF m
  <2>1. CASE hasBase
    BY <2>1, <1>1, <1>2 DEF Base
  <2>2. CASE ~hasBase
    BY <2>2 DEF Base
  <2> QED BY <2>1, <2>2
<1>7. d \in 0 .. m /\ (d > 0 => ~hasBase /\ m < q)
  <2>1. CASE ~hasBase /\ Len(Cached(q)) < q
    <3>1. depth \in Chain
      BY <2>1 DEF Chain
    <3>2. d = Take(q)[depth]
      BY <2>1 DEF Dropped
    <3>3. Take(q)[depth] \in 0 .. unread[depth] /\ Take(q)[depth] <= m
      BY <3>1, TakeIs
    <3>4. unread[depth] \in Nat
      <4>1. depth \in Nat \ {0} /\ unread[depth] = Ahead(depth, c) - Ahead(depth - 1, c)
        BY <3>1 DEF AtUnit, Chain
      <4> QED BY <4>1, AheadSteps
    <3>5. ASSUME NEW t \in 0 .. unread[depth], t <= m PROVE t \in 0 .. m
      BY <3>4, <3>5, <1>2
    <3> HIDE DEF d, m
    <3> QED BY <2>1, <3>2, <3>3, <3>5, <1>5
  <2>2. CASE ~(~hasBase /\ Len(Cached(q)) < q)
    <3>1. d = 0
      BY <2>2 DEF Dropped
    <3> HIDE DEF d, m
    <3> QED BY <3>1, <1>2
  <2> QED BY <2>1, <2>2
<1> HIDE DEF m, d
<1>8. /\ k <= baseUnread /\ m + k <= q /\ (d > 0 => k = 0)
      /\ k > 0 => hasBase /\ c + m >= End(depth)
  <2>1. k > 0 => k <= baseUnread /\ k <= q - m
    BY <1>2, <1>5, <1>6 DEF Smaller
  <2>2. k > 0 => hasBase
    BY <2>1, <1>6 DEF Base
  <2>3. k > 0 => c + m >= End(depth)
    BY <2>1, <1>1, <1>2
  <2> QED BY <2>1, <2>2, <2>3, <1>2, <1>6, <1>7
<1>9. c + m + k <= Total
  <2>1. CASE k > 0
    BY <2>1, <1>1, <1>2, <1>6, <1>8
  <2>2. CASE k = 0
    BY <2>2, <1>1, <1>2
  <2> QED BY <2>1, <2>2
<1>10. SubSeq(Cached(q), 1, m - d) = Units(c + 1, m - d)
  <2>1. c + 1 \in Nat /\ m - d \in 0 .. m /\ m \in Nat
    BY <1>2, <1>7
  <2>2. SubSeq(Units(c + 1, m), 1, m - d) = Units(c + 1, m - d)
    BY ONLY <2>1, UnitsSplit
  <2> QED BY <2>2, <1>3
<1>11. \A e \in Nat : e = 0 \/ (d = 0 /\ e = k) =>
         SubSeq(Cached(q), 1, m - d) \o BaseFront(e) = Units(c + 1, m - d + e)
  <2> SUFFICES ASSUME NEW e \in Nat, e = 0 \/ (d = 0 /\ e = k)
               PROVE  SubSeq(Cached(q), 1, m - d) \o BaseFront(e) = Units(c + 1, m - d + e)
    OBVIOUS
  <2>1. CASE e = 0
    <3>1. BaseFront(e) = <<>>
      BY <2>1 DEF BaseFront, Units
    <3>2. c + 1 \in Nat /\ m - d \in Nat /\ m - d + e = m - d
      BY <2>1, <1>2, <1>7
    <3>3. Units(c + 1, m - d) \in Seq(Nat)
      BY <3>2, UnitsType
    <3>4. Units(c + 1, m - d) \o <<>> = Units(c + 1, m - d)
      BY <3>3, ConcatEmptySeq
    <3> QED BY <3>1, <3>2, <3>4, <1>10
  <2>2. CASE e > 0
    <3>1. d = 0 /\ e = k /\ m - d = m /\ m - d + e = m + e
      BY <2>2, <1>2
    <3>2. Total - baseUnread + 1 = (c + 1) + m
      BY <2>2, <3>1, <1>1, <1>2, <1>6, <1>8
    <3>3. BaseFront(e) = Units((c + 1) + m, e)
      BY <3>2 DEF BaseFront
    <3>4. Units(c + 1, m) \o Units((c + 1) + m, e) = Units(c + 1, m + e)
      <4>1. c + 1 \in Nat
        OBVIOUS
      <4> QED BY <4>1, <1>2, UnitsConcat
    <3> QED BY <3>1, <3>3, <3>4, <1>10
  <2>3. e = 0 \/ e > 0
    OBVIOUS
  <2> QED BY <2>1, <2>2, <2>3
<1>12. Answer(q, k) = Units(c + 1, m - d + k) /\ Answer(q, 0) = Units(c + 1, m - d)
  <2>1. \A e : Answer(q, e) = SubSeq(Cached(q), 1, m - d) \o BaseFront(e)
    BY <1>5 DEF Answer, d
  <2>2. k = 0 \/ (d = 0 /\ k = k)
    BY <1>7, <1>8
  <2>3. m - d + 0 = m - d
    BY <1>2, <1>7
  <2> QED BY <2>1, <2>2, <2>3, <1>11
<1>13. Len(Answer(q, k)) = m - d + k /\ Range(Answer(q, 0)) = c + 1 .. c + 1 + (m - d) - 1
  <2>1. c + 1 \in Nat /\ m - d + k \in Nat /\ m - d \in Nat
    BY <1>2, <1>7
  <2>2. Len(Units(c + 1, m - d + k)) = m - d + k
    BY ONLY <2>1, UnitsType
  <2>3. Range(Units(c + 1, m - d)) = c + 1 .. c + 1 + (m - d) - 1
    BY ONLY <2>1, UnitsType
  <2> QED BY <2>2, <2>3, <1>12
<1>14. DroppedUnits(q) = c + m - d + 1 .. c + m
  <2>1. DroppedUnits(q) = (c + 1 .. c + 1 + m - 1) \ (c + 1 .. c + 1 + (m - d) - 1)
    BY <1>3, <1>4, <1>13 DEF DroppedUnits
  <2>2. (c + 1 .. c + 1 + m - 1) \ (c + 1 .. c + 1 + (m - d) - 1) = c + m - d + 1 .. c + m
    BY <1>2, <1>7
  <2> QED BY <2>1, <2>2
<1>15. d \in Nat /\ d <= m
  BY <1>2, <1>7
<1>16. Answers(q, k, c, m, d)
  BY <1>2, <1>5, <1>6, <1>7, <1>8, <1>9, <1>12, <1>13, <1>14, <1>15 DEF m, Answers
<1> QED BY <1>2, <1>15, <1>16

\* The Read leaves the rest of the stream.
LEMMA ReadLeaves ==
  ASSUME depth \in Nat, NEW q \in Nat, NEW k \in Nat, NEW c \in Nat, NEW m \in Nat, NEW d \in Nat,
         AtUnit(c), Base(c), c <= Total, Answers(q, k, c, m, d), ReadStep(q, k), UNCHANGED setUp
  PROVE  AtUnit(c + m + k)' /\ Base(c + m + k)'
<1>1. /\ m = Grab(q, depth, c) /\ m <= q
      /\ k <= baseUnread /\ c + m + k <= Total
      /\ k > 0 => c + m >= End(depth)
      /\ c + m < End(depth) => m = q
      /\ baseUnread \in Nat
  BY DEF Answers
<1>2. /\ unread' = [i \in Chain |-> unread[i] - Take(q)[i]] /\ baseUnread' = baseUnread - k
      /\ depth' = depth /\ hasBase' = hasBase /\ Chain' = Chain /\ Total' = Total
  BY DEF ReadStep, Drain, setUp, Chain, Total
<1>3. Total = End(depth) + BaseUnits /\ End(depth) \in Nat /\ Total \in Nat /\ BaseUnits \in Nat
  BY TotalIs
<1>4. ASSUME NEW i \in Chain PROVE unread'[i] = Ahead(i, c + m + k) - Ahead(i - 1, c + m + k)
  <2>1. unread'[i] = Ahead(i, c + m) - Ahead(i - 1, c + m)
    BY <1>1, <1>2, TakeIs
  <2>2. CASE k = 0
    <3>1. c + m + k = c + m
      BY <2>2
    <3> QED BY <2>1, <3>1
  <2>3. CASE k > 0
    <3>1. End(i) \in Nat /\ End(i - 1) \in Nat /\ End(i - 1) <= End(depth) /\ End(i) <= End(depth)
      <4>1. i \in Nat /\ i - 1 \in Nat /\ PerBuffer \in Nat
        BY BoundsAssumption DEF Chain
      <4>2. \A j \in Nat : j < depth => End(j) + PerBuffer <= End(depth) /\ End(j) \in Nat
        BY EndSteps
      <4>3. i - 1 < depth /\ (i < depth \/ i = depth)
        BY <4>1 DEF Chain
      <4> HIDE DEF End
      <4> QED BY <4>1, <4>2, <4>3, <1>3
    <3> HIDE DEF End
    <3> QED BY <2>1, <2>3, <3>1, <1>1, <1>3 DEF Ahead
  <2> QED BY <2>2, <2>3
<1>5. AtUnit(c + m + k)'
  <2>1. \A i \in Chain : Ahead(i, c + m + k)' = Ahead(i, c + m + k) /\ Ahead(i - 1, c + m + k)' = Ahead(i - 1, c + m + k)
    BY <1>1 DEF Ahead, End
  <2> QED BY <2>1, <1>2, <1>4 DEF AtUnit
<1>6. Base(c + m + k)'
  <2>1. m = 0 \/ c < End(depth)
    BY <1>1, <1>3 DEF Grab, Smaller, Ahead
  <2>2. c < End(depth) => c + m <= End(depth)
    BY <1>1, <1>3 DEF Grab, Smaller, Ahead
  <2> HIDE DEF End, Total
  <2>3. End(depth)' = End(depth)
    BY <1>2 DEF End
  <2>4. CASE hasBase
    BY <2>1, <2>2, <2>3, <2>4, <1>1, <1>2, <1>3 DEF Base
  <2>5. CASE ~hasBase
    <3>1. baseUnread = 0 /\ k = 0 /\ c <= End(depth)
      BY <2>5, <1>1 DEF Base
    <3> QED BY <2>1, <2>2, <2>3, <2>5, <3>1, <1>1, <1>2, <1>3 DEF Base
  <2> QED BY <2>4, <2>5
<1> QED BY <1>5, <1>6

-----------------------------------------------------------------------------
\* The invariant.

SetUpOK ==
  /\ depth \in 0 .. Depth /\ hasBase \in BOOLEAN /\ (depth = 0 => hasBase)
  /\ wrapped \in [outer : BOOLEAN, inner : BOOLEAN] /\ (wrapped.inner => hasBase)

BufferTypes ==
  /\ unread \in [Chain -> Nat] /\ ref \in [Chain -> Int]
  /\ held \in [Chain -> BOOLEAN] /\ live \in [Chain -> BOOLEAN] /\ shared \in [Chain -> BOOLEAN]
  /\ robbed \subseteq Chain /\ picked \subseteq Chain /\ snatched \subseteq Chain

\* All readers have their buffers, or none: then Copy has those with something in them.
Needed(i) == held[i] /\ unread[i] > 0
BufferOK(i) ==
  /\ held[i] => i \notin picked /\ i \notin robbed
  /\ ~held[i] => (i \in picked <=> unread[i] > 0)
  /\ i \in robbed => unread[i] = 0
  /\ ref[i] = (IF Needed(i) THEN 1 ELSE 0) + (IF shared[i] THEN 1 ELSE 0)
              - (IF i \in robbed THEN 1 ELSE 0)
  /\ Needed(i) \/ (shared[i] /\ i \notin robbed) => live[i]
  /\ i \in picked => live[i] \/ i \in snatched
  /\ live[i] => Needed(i) \/ shared[i] \/ i \in picked

BufferInv ==
  /\ \A i \in Chain : BufferOK(i)
  /\ \A i, j \in Chain : held[i] <=> held[j]
  /\ picked # {} => pc = "cache"
  /\ pc \in {"cache", "pure", "panic"} => \A i \in Chain : ~held[i]

PCs == {"reading", "unwrap", "handshake", "pick", "cache", "pure", "done", "panic"}

ControlInv ==
  /\ handshake \in Destinations /\ pc \in PCs /\ err \in Errors
  /\ direct \in BOOLEAN /\ bare \in BOOLEAN /\ again \in BOOLEAN /\ broken \in BOOLEAN
  /\ copies \in 0 .. MaxCopies /\ appended \in 0 .. copies
  /\ pc # "done" => err = "nil"
  /\ pc \in {"unwrap", "handshake", "pick", "cache"} => appended < copies
  /\ pc = "pure" => hasBase
  /\ pc = "panic" => ~hasBase \/ snatched # {}
  /\ ~again => /\ pc \in {"reading", "unwrap", "handshake", "pick", "cache"} => appended = 0
               /\ pc = "pure" => appended = IF direct THEN 1 ELSE 0

CountInv ==
  /\ n \in Nat /\ counted \in [read : Nat, write : Nat]
  /\ forgot \in Nat /\ forgot <= counted.write /\ rest \in Ends
  /\ pc # "done" => forgot = 0 /\ rest = "nil"
  /\ rest = "EOF" => err = "nil"
  /\ pc \in {"reading", "unwrap", "handshake"} => n = 0 /\ counted.read = 0 /\ counted.write = 0
  /\ err \notin {"handshake: read", "writeCache"} => n + forgot = counted.write
  /\ err = "writeCache" => n - counted.write \in 0 .. PerBuffer
  /\ err = "handshake: read" => counted.write = 0 /\ n = counted.read
  /\ err = "nil" /\ rest # "EOF" => counted.read = counted.write

\* The first c units have left the readers.
Whole == err \in {"nil", "handshake"} /\ ~broken /\ hasBase /\ pc # "panic" /\ rest # "EOF"
Complete == pc = "done" /\ err = "nil" /\ rest # "EOF"
Written == err # "writeCache" /\ ~broken
ToldOK(c) ==
  /\ told \in [outer : Nat, inner : Nat]
  /\ wrapped.outer /\ ~again => told.outer <= c /\ (lost = {} /\ Written => told.outer = c)
  /\ ~wrapped.inner => told.inner = 0
  /\ wrapped.inner => /\ told.inner <= BaseUnits - baseUnread
                      /\ lost = {} => told.inner = BaseUnits - baseUnread
Tally(c) ==
  /\ n <= c /\ counted.read <= c /\ counted.write <= c
  /\ ToldOK(c)
  /\ Complete => hasBase /\ c = Total
  /\ Whole => lost = {}
Cut(c) == AtUnit(c) /\ Base(c) /\ Stream(c) /\ Tally(c)

Inv ==
  /\ SetUpOK /\ BufferTypes /\ BufferInv /\ ControlInv /\ CountInv
  /\ \E c \in Nat : c <= Total /\ Cut(c)

\* What no action changes.
LEMMA SetUpKept ==
  ASSUME SetUpOK, UNCHANGED setUp
  PROVE  /\ SetUpOK' /\ depth \in Nat /\ Chain' = Chain /\ Total' = Total /\ depth' = depth
         /\ hasBase' = hasBase /\ wrapped' = wrapped /\ Chain \subseteq Nat \ {0} /\ Total \in Nat
<1>1. depth' = depth /\ hasBase' = hasBase /\ wrapped' = wrapped
  BY DEF setUp
<1>2. Depth \in Nat /\ depth \in Nat
  BY BoundsAssumption DEF SetUpOK
<1>3. Total \in Nat
  BY <1>2, TotalIs
<1>4. Chain' = Chain /\ Total' = Total /\ Chain \subseteq Nat \ {0}
  BY <1>1, <1>2 DEF Chain, Total
<1> QED BY <1>1, <1>2, <1>3, <1>4 DEF SetUpOK

\* The values of the buffers after a step.
LEMMA BaseRange ==
  ASSUME SetUpOK, NEW c \in Nat, c <= Total, Base(c)
  PROVE  baseUnread \in 0 .. BaseUnits
<1>1. depth \in Nat
  BY BoundsAssumption DEF SetUpOK
<1>2. Total = End(depth) + BaseUnits /\ End(depth) \in Nat /\ BaseUnits \in Nat
  BY <1>1, TotalIs
<1> HIDE DEF Total, End
<1>3. CASE hasBase
  BY <1>2, <1>3 DEF Base
<1>4. CASE ~hasBase
  BY <1>2, <1>4 DEF Base
<1> QED BY <1>3, <1>4

\* A step that leaves the stream alone.
LEMMA StreamStays ==
  ASSUME NEW c \in Nat, AtUnit(c), Base(c), Stream(c),
         UNCHANGED setUp, UNCHANGED unread, UNCHANGED baseUnread, UNCHANGED got, UNCHANGED lost
  PROVE  AtUnit(c)' /\ Base(c)' /\ Stream(c)'
<1>1. depth' = depth /\ hasBase' = hasBase /\ Chain' = Chain /\ Total' = Total
  BY DEF setUp, Chain, Total
<1>2. AtUnit(c)'
  BY <1>1 DEF AtUnit, Ahead, End
<1>3. Base(c)'
  BY <1>1 DEF Base, End
<1>4. Stream(c)'
  BY DEF Stream, Ordered, Units
<1> QED BY <1>2, <1>3, <1>4

\* A step that leaves the buffers alone.
LEMMA BuffersStay ==
  ASSUME SetUpOK, BufferTypes, BufferInv, UNCHANGED setUp, UNCHANGED bufferVars, UNCHANGED picked,
         picked # {} => pc' = "cache",
         pc' \in {"cache", "pure", "panic"} => pc \in {"cache", "pure", "panic"}
  PROVE  BufferTypes' /\ BufferInv'
<1>1. /\ Chain' = Chain /\ unread' = unread /\ held' = held /\ ref' = ref /\ live' = live
      /\ shared' = shared /\ robbed' = robbed /\ snatched' = snatched /\ picked' = picked
  BY SetUpKept DEF bufferVars
<1>2. BufferTypes'
  BY <1>1 DEF BufferTypes
<1>3. \A i \in Chain : BufferOK(i)'
  BY <1>1 DEF BufferInv, BufferOK, Needed
<1> QED BY <1>1, <1>2, <1>3 DEF BufferInv

-----------------------------------------------------------------------------
\* The buffers, action by action.

\* A Read, by the user or for a handshake.
LEMMA DrainBuffers ==
  ASSUME SetUpOK, BufferTypes, BufferInv, NEW q \in Nat, NEW k \in Nat, NEW c \in Nat, AtUnit(c),
         ReadStep(q, k), UNCHANGED setUp, UNCHANGED picked,
         pc # "cache", pc' \notin {"cache", "pure", "panic"}
  PROVE  BufferTypes' /\ BufferInv'
<1>1. /\ Chain' = Chain /\ held' = held /\ shared' = shared /\ robbed' = robbed /\ picked' = picked
      /\ snatched' = snatched /\ picked = {} /\ depth \in Nat
  BY SetUpKept DEF ReadStep, Drain, BufferInv
<1>2. ASSUME NEW i \in Chain
      PROVE  /\ unread[i] \in Nat /\ Take(q)[i] \in 0 .. unread[i] /\ unread'[i] = unread[i] - Take(q)[i]
             /\ ref'[i] = IF i \in Drained(q) THEN ref[i] - 1 ELSE ref[i]
             /\ live'[i] = IF i \in Drained(q) THEN live[i] /\ ref'[i] > 0 ELSE live[i]
             /\ i \in Drained(q) <=> Take(q)[i] > 0 /\ Take(q)[i] = unread[i]
  <2>1. unread[i] \in Nat
    BY DEF BufferTypes
  <2>2. Take(q)[i] \in 0 .. unread[i]
    BY <1>1, TakeIs
  <2>3. /\ unread' = [j \in Chain |-> unread[j] - Take(q)[j]]
        /\ ref' = [j \in Chain |-> IF j \in Drained(q) THEN DecRef(j) ELSE ref[j]]
        /\ live' = [j \in Chain |-> IF j \in Drained(q) THEN Freed(j, ref'[j]) ELSE live[j]]
    BY DEF ReadStep, Drain
  <2>4. unread'[i] = unread[i] - Take(q)[i]
    BY <2>3
  <2>5. ref'[i] = IF i \in Drained(q) THEN ref[i] - 1 ELSE ref[i]
    BY <2>3 DEF DecRef
  <2>6. live'[i] = IF i \in Drained(q) THEN live[i] /\ ref'[i] > 0 ELSE live[i]
    BY <2>3, Zenon DEF Freed
  <2>7. i \in Drained(q) <=> Take(q)[i] > 0 /\ Take(q)[i] = unread[i]
    BY DEF Drained
  <2> QED BY <2>1, <2>2, <2>4, <2>5, <2>6, <2>7
<1>3. ASSUME NEW i \in Chain PROVE BufferOK(i)'
  <2>1. /\ held[i] \in BOOLEAN /\ live[i] \in BOOLEAN /\ shared[i] \in BOOLEAN /\ ref[i] \in Int
    BY DEF BufferTypes
  <2>2. BufferOK(i)
    BY DEF BufferInv
  <2> DEFINE t == Take(q)[i]
             u == unread[i]
  <2>3. t \in Nat /\ t <= u /\ u \in Nat /\ unread'[i] = u - t
    BY <1>2
  <2> HIDE DEF t
  <2>4. CASE i \in Drained(q)
    <3>1. t > 0 /\ t = u /\ unread'[i] = 0
      BY <1>2, <2>4, <2>3 DEF t
    <3>2. held[i] /\ i \notin robbed /\ i \notin picked
      BY <3>1, <1>1, <2>2, <2>3 DEF BufferOK
    <3>3. ref[i] = 1 + (IF shared[i] THEN 1 ELSE 0) /\ live[i]
      BY <3>1, <3>2, <2>2, <2>3 DEF BufferOK, Needed
    <3>4. ref'[i] = IF shared[i] THEN 1 ELSE 0
      BY <3>3, <1>2, <2>4
    <3>5. live'[i] <=> shared[i]
      <4>1. ref'[i] > 0 <=> shared[i]
        BY <3>4, <2>1
      <4>2. live'[i] = (live[i] /\ ref'[i] > 0)
        BY <1>2, <2>4
      <4> QED BY <4>1, <4>2, <3>3, Zenon
    <3> QED BY <1>1, <3>1, <3>2, <3>4, <3>5 DEF BufferOK, Needed
  <2>5. CASE i \notin Drained(q)
    <3>1. ref'[i] = ref[i] /\ (live'[i] <=> live[i])
      BY <1>2, <2>5
    <3>2. unread'[i] > 0 <=> unread[i] > 0
      BY <1>2, <2>5, <2>3 DEF t
    <3>3. unread[i] = 0 => unread'[i] = 0
      BY <2>3
    <3> QED BY <1>1, <2>2, <3>1, <3>2, <3>3 DEF BufferOK, Needed
  <2> QED BY <2>4, <2>5
<1>4. BufferTypes'
  <2>1. unread' \in [Chain -> Nat] /\ ref' \in [Chain -> Int]
    <3>1. /\ unread' = [j \in Chain |-> unread[j] - Take(q)[j]]
          /\ ref' = [j \in Chain |-> IF j \in Drained(q) THEN DecRef(j) ELSE ref[j]]
      BY DEF ReadStep, Drain
    <3>2. \A i \in Chain : unread[i] - Take(q)[i] \in Nat
      BY <1>2
    <3>3. \A i \in Chain : ref[i] \in Int /\ DecRef(i) \in Int
      BY DEF BufferTypes, DecRef
    <3>4. unread' \in [Chain -> Nat]
      BY <3>1, <3>2
    <3>5. ref' \in [Chain -> Int]
      BY <3>1, <3>3
    <3> QED BY <3>4, <3>5
  <2>2. live' \in [Chain -> BOOLEAN]
    <3>1. live' = [j \in Chain |-> IF j \in Drained(q) THEN Freed(j, ref'[j]) ELSE live[j]]
      BY DEF ReadStep, Drain
    <3>2. \A j \in Chain : live[j] \in BOOLEAN
      BY DEF BufferTypes
    <3>3. \A j \in Chain : Freed(j, ref'[j]) \in BOOLEAN
      BY DEF Freed
    <3> QED BY <3>1, <3>2, <3>3, Zenon
  <2> QED BY <1>1, <2>1, <2>2 DEF BufferTypes
<1>5. BufferInv'
  <2>1. \A i, j \in Chain : held'[i] <=> held'[j]
    BY <1>1 DEF BufferInv
  <2> QED BY <1>1, <1>3, <2>1 DEF BufferInv
<1> QED BY <1>4, <1>5

\* A Free of somebody else.
LEMMA FreeApartIs ==
  ASSUME BufferTypes, NEW i \in Chain, NEW r \in Int, FreeApart(i, r)
  PROVE  /\ live' \in [Chain -> BOOLEAN]
         /\ \A j \in Chain : live'[j] <=> IF j = i THEN live[j] /\ r > 0 ELSE live[j]
         /\ snatched \subseteq snatched' /\ snatched' \subseteq Chain
         /\ \A j \in picked : live[j] \/ j \in snatched => live'[j] \/ j \in snatched'
<1>1. /\ live \in [Chain -> BOOLEAN] /\ picked \subseteq Chain /\ snatched \subseteq Chain
      /\ live' = [live EXCEPT ![i] = Freed(i, r)]
      /\ snatched' = IF i \in picked /\ live[i] /\ ~Freed(i, r) THEN snatched \cup {i} ELSE snatched
  BY DEF BufferTypes, FreeApart
<1>2. live' \in [Chain -> BOOLEAN]
  <2>1. Freed(i, r) \in BOOLEAN
    BY DEF Freed
  <2> QED BY <1>1, <2>1
<1>3. \A j \in Chain : live'[j] <=> IF j = i THEN live[j] /\ r > 0 ELSE live[j]
  BY <1>1, Zenon DEF Freed
<1>4. snatched \subseteq snatched' /\ snatched' \subseteq Chain
  BY <1>1
<1>5. ASSUME NEW j \in picked, live[j] \/ j \in snatched PROVE live'[j] \/ j \in snatched'
  <2>1. CASE j = i /\ live[i] /\ ~Freed(i, r)
    BY <2>1, <1>1, <1>5
  <2>2. CASE j = i /\ live[i] /\ Freed(i, r)
    <3>1. live'[i]
      BY <2>2, <1>1, Zenon
    <3> QED BY <3>1, <2>2
  <2>3. CASE ~(j = i /\ live[i])
    <3>1. j \in Chain
      BY <1>1, <1>5
    <3>2. CASE j \in snatched
      BY <3>2, <1>4
    <3>3. CASE j # i /\ live[j]
      <4>1. live'[j] <=> live[j]
        BY <3>1, <3>3, <1>3, Zenon
      <4> QED BY <4>1, <3>3
    <3> QED BY <3>2, <3>3, <2>3, <1>5
  <2> QED BY <2>1, <2>2, <2>3
<1> QED BY <1>2, <1>3, <1>4, <1>5

LEMMA OwnerFreesBuffers ==
  ASSUME SetUpOK, BufferTypes, BufferInv, NEW i \in Chain, OwnerFrees(i)
  PROVE  BufferTypes' /\ BufferInv' /\ snatched \subseteq snatched'
<1>1. /\ Chain' = Chain /\ held' = held /\ shared' = shared /\ robbed' = robbed /\ picked' = picked
      /\ unread' = unread /\ ref' = ref /\ pc' = pc
  BY SetUpKept DEF OwnerFrees, copyVars
<1>2. FreeApart(i, ref[i]) /\ ref[i] \in Int
  BY DEF OwnerFrees, BufferTypes
<1>3. /\ live' \in [Chain -> BOOLEAN]
      /\ \A j \in Chain : live'[j] <=> IF j = i THEN live[j] /\ ref[i] > 0 ELSE live[j]
      /\ snatched \subseteq snatched' /\ snatched' \subseteq Chain
      /\ \A j \in picked : live[j] \/ j \in snatched => live'[j] \/ j \in snatched'
  BY <1>2, FreeApartIs
<1>4. ASSUME NEW j \in Chain PROVE BufferOK(j)'
  <2>1. /\ held[j] \in BOOLEAN /\ live[j] \in BOOLEAN /\ shared[j] \in BOOLEAN /\ ref[j] \in Int
        /\ unread[j] \in Nat
    BY DEF BufferTypes
  <2>2. BufferOK(j)
    BY DEF BufferInv
  <2>3. live'[j] <=> IF j = i THEN live[j] /\ ref[j] > 0 ELSE live[j]
    BY <1>3
  <2>4. Needed(j) \/ (shared[j] /\ j \notin robbed) => ref[j] > 0
    BY <2>1, <2>2 DEF BufferOK, Needed
  <2>5. Needed(j)' <=> Needed(j)
    BY <1>1 DEF Needed
  <2>6. /\ Needed(j) \/ (shared[j] /\ j \notin robbed) => live'[j]
        /\ j \in picked => live'[j] \/ j \in snatched'
        /\ live'[j] => Needed(j) \/ shared[j] \/ j \in picked
    BY <2>2, <2>3, <2>4, <1>3 DEF BufferOK
  <2> QED BY <2>2, <2>5, <2>6, <1>1 DEF BufferOK
<1> QED BY <1>1, <1>3, <1>4 DEF BufferTypes, BufferInv

LEMMA HolderReleasesBuffers ==
  ASSUME SetUpOK, BufferTypes, BufferInv, NEW i \in Chain, HolderReleases(i)
  PROVE  BufferTypes' /\ BufferInv' /\ snatched \subseteq snatched'
<1>1. /\ Chain' = Chain /\ held' = held /\ robbed' = robbed /\ picked' = picked
      /\ unread' = unread /\ pc' = pc /\ shared[i]
  BY SetUpKept DEF HolderReleases, copyVars
<1>2. /\ FreeApart(i, DecRef(i)) /\ DecRef(i) \in Int /\ DecRef(i) = ref[i] - 1
      /\ shared' = [shared EXCEPT ![i] = FALSE]
      /\ ref' = [ref EXCEPT ![i] = DecRef(i)]
      /\ shared \in [Chain -> BOOLEAN] /\ ref \in [Chain -> Int]
  BY DEF HolderReleases, BufferTypes, DecRef
<1>3. shared' \in [Chain -> BOOLEAN] /\ ref' \in [Chain -> Int]
  BY <1>2
<1>4. /\ live' \in [Chain -> BOOLEAN]
      /\ \A j \in Chain : live'[j] <=> IF j = i THEN live[j] /\ DecRef(i) > 0 ELSE live[j]
      /\ snatched \subseteq snatched' /\ snatched' \subseteq Chain
      /\ \A j \in picked : live[j] \/ j \in snatched => live'[j] \/ j \in snatched'
  BY <1>2, FreeApartIs
<1>5. ASSUME NEW j \in Chain PROVE BufferOK(j)'
  <2>1. /\ held[j] \in BOOLEAN /\ live[j] \in BOOLEAN /\ shared[j] \in BOOLEAN /\ ref[j] \in Int
        /\ unread[j] \in Nat
    BY DEF BufferTypes
  <2>2. BufferOK(j)
    BY DEF BufferInv
  <2>3. Needed(j)' <=> Needed(j)
    BY <1>1 DEF Needed
  <2>4. j \in picked => live'[j] \/ j \in snatched'
    BY <2>2, <1>4 DEF BufferOK
  <2>5. CASE j = i
    <3>1. ref'[j] = ref[j] - 1 /\ (live'[j] <=> live[j] /\ ref[j] - 1 > 0)
      BY <1>2, <1>4, <2>5
    <3>2. ~shared'[j] /\ shared[j]
      BY <1>1, <1>2, <2>5, Zenon
    <3>3. CASE Needed(j)
      <4>1. j \notin robbed /\ j \notin picked
        BY <3>3, <2>2 DEF BufferOK, Needed
      <4>2. ref[j] = 2 /\ live[j]
        BY <4>1, <3>2, <3>3, <2>2 DEF BufferOK
      <4> QED BY <4>1, <4>2, <3>1, <3>2, <3>3, <2>2, <2>3, <1>1 DEF BufferOK
    <3>4. CASE ~Needed(j)
      <4>1. ref[j] = 1 - (IF j \in robbed THEN 1 ELSE 0)
        BY <3>2, <3>4, <2>2, <2>1 DEF BufferOK
      <4>2. ~live'[j] /\ ref'[j] = 0 - (IF j \in robbed THEN 1 ELSE 0)
        BY <4>1, <3>1
      <4> QED BY <4>2, <3>1, <3>2, <3>4, <2>2, <2>3, <2>4, <1>1 DEF BufferOK
    <3> QED BY <3>3, <3>4
  <2>6. CASE j # i
    <3>1. ref'[j] = ref[j] /\ (shared'[j] <=> shared[j])
      BY <1>2, <2>6
    <3>2. live'[j] <=> live[j]
      BY <1>4, <2>6
    <3> QED BY <3>1, <3>2, <2>2, <2>3, <2>4, <1>1 DEF BufferOK
  <2> QED BY <2>5, <2>6
<1> QED BY <1>1, <1>3, <1>4, <1>5 DEF BufferTypes, BufferInv

LEMMA PickBuffers ==
  ASSUME SetUpOK, BufferTypes, BufferInv, Pick
  PROVE  BufferTypes' /\ BufferInv'
<1>1. /\ Chain' = Chain /\ unread' = unread /\ live' = live /\ shared' = shared /\ pc' = "cache"
      /\ snatched' = snatched /\ picked = {} /\ depth \in Nat
  BY SetUpKept DEF Pick, BufferInv
<1>2. CASE PickedBefore
  <2>1. UNCHANGED <<picked, ref, held, robbed>>
    BY <1>2 DEF Pick
  <2>2. \A i \in Chain : ~held[i]
    <3>1. 1 \in Chain /\ ~held[1]
      BY <1>1, <1>2 DEF PickedBefore, Chain
    <3> QED BY <3>1 DEF BufferInv
  <2>3. \A i \in Chain : BufferOK(i)'
    BY <1>1, <2>1 DEF BufferInv, BufferOK, Needed
  <2> QED BY <1>1, <2>1, <2>2, <2>3 DEF BufferTypes, BufferInv
<1>3. CASE ~PickedBefore
  <2>1. /\ picked' = {i \in Chain : unread[i] > 0}
        /\ ref' = [i \in Chain |-> DecRef(i)]
        /\ held' = [i \in Chain |-> FALSE]
        /\ robbed' = Chain \ picked'
    BY <1>3 DEF Pick
  <2>2. \A i \in Chain : held[i]
    <3> SUFFICES ASSUME NEW i \in Chain PROVE held[i]
      OBVIOUS
    <3>1. depth > 0 /\ 1 \in Chain
      BY <1>1 DEF Chain
    <3>2. held[1]
      BY <1>3, <3>1 DEF PickedBefore
    <3> QED BY <3>1, <3>2 DEF BufferInv
  <2>3. ASSUME NEW i \in Chain PROVE BufferOK(i)'
    <3>1. /\ live[i] \in BOOLEAN /\ shared[i] \in BOOLEAN /\ ref[i] \in Int /\ unread[i] \in Nat
      BY DEF BufferTypes
    <3>2. BufferOK(i) /\ held[i] /\ i \notin picked /\ i \notin robbed
      BY <2>2 DEF BufferInv, BufferOK
    <3>3. ref'[i] = ref[i] - 1 /\ ~held'[i]
      BY <2>1 DEF DecRef
    <3>4. (i \in picked' <=> unread[i] > 0) /\ (i \in robbed' <=> ~(unread[i] > 0))
      BY <2>1
    <3>5. CASE unread[i] > 0
      <4>1. ref'[i] = (IF shared[i] THEN 1 ELSE 0) /\ live[i]
        BY <3>1, <3>2, <3>3, <3>5 DEF BufferOK, Needed
      <4> QED BY <4>1, <3>1, <3>3, <3>4, <3>5, <1>1 DEF BufferOK, Needed
    <3>6. CASE ~(unread[i] > 0)
      <4>1. unread[i] = 0
        BY <3>1, <3>6
      <4>2. ref'[i] = (IF shared[i] THEN 1 ELSE 0) - 1 /\ (live[i] => shared[i])
        BY <4>1, <3>1, <3>2, <3>3 DEF BufferOK, Needed
      <4> QED BY <4>1, <4>2, <3>1, <3>3, <3>4, <3>6, <1>1 DEF BufferOK, Needed
    <3> QED BY <3>5, <3>6
  <2>4. ref' \in [Chain -> Int] /\ held' \in [Chain -> BOOLEAN] /\ picked' \subseteq Chain /\ robbed' \subseteq Chain
    <3>1. \A i \in Chain : DecRef(i) \in Int
      BY DEF BufferTypes, DecRef
    <3> QED BY <2>1, <3>1
  <2>5. \A i \in Chain : ~held'[i]
    BY <2>1
  <2> QED BY <1>1, <2>3, <2>4, <2>5 DEF BufferTypes, BufferInv
<1> QED BY <1>2, <1>3

LEMMA NextPickedIs ==
  ASSUME SetUpOK, BufferTypes, picked # {}
  PROVE  NextPicked \in picked /\ NextPicked \in Chain /\ \A j \in picked : NextPicked <= j
<1>1. Chain \subseteq Nat
  BY BoundsAssumption DEF Chain, SetUpOK
<1>2. picked \in SUBSET Nat /\ picked \subseteq Chain
  BY <1>1 DEF BufferTypes
<1>3. \E i \in picked : \A j \in picked : i <= j
  BY <1>2, SmallestOf
<1> QED BY <1>2, <1>3 DEF NextPicked

LEMMA WriteCacheBuffers ==
  ASSUME SetUpOK, BufferTypes, BufferInv, WriteCache
  PROVE  BufferTypes' /\ BufferInv'
<1> DEFINE i == NextPicked
<1>1. /\ Chain' = Chain /\ held' = held /\ ref' = ref /\ shared' = shared /\ robbed' = robbed /\ pc' = pc
      /\ snatched' = snatched /\ pc = "cache" /\ picked # {} /\ live[i]
  BY SetUpKept DEF WriteCache
<1>2. i \in picked /\ i \in Chain
  BY <1>1, NextPickedIs
<1>3. /\ unread' = [unread EXCEPT ![i] = 0] /\ picked' = picked \ {i}
      /\ live' = [live EXCEPT ![i] = Freed(i, ref[i])]
  BY DEF WriteCache
<1> HIDE DEF i
<1>4. unread' \in [Chain -> Nat] /\ live' \in [Chain -> BOOLEAN] /\ picked' \subseteq Chain
  <2>1. unread \in [Chain -> Nat] /\ live \in [Chain -> BOOLEAN] /\ picked \subseteq Chain
        /\ Freed(i, ref[i]) \in BOOLEAN
    BY DEF BufferTypes, Freed
  <2> QED BY <1>3, <2>1
<1>5. ASSUME NEW j \in Chain PROVE BufferOK(j)'
  <2>1. /\ held[j] \in BOOLEAN /\ live[j] \in BOOLEAN /\ shared[j] \in BOOLEAN /\ ref[j] \in Int
        /\ unread[j] \in Nat
    BY DEF BufferTypes
  <2>2. BufferOK(j) /\ ~held[j]
    BY <1>1 DEF BufferInv
  <2>3. CASE j = i
    <3>1. unread'[j] = 0 /\ j \notin picked'
      BY <1>3, <2>3 DEF BufferTypes
    <3>2. live'[j] <=> live[j] /\ ref[j] > 0
      <4>1. live \in [Chain -> BOOLEAN]
        BY DEF BufferTypes
      <4> QED BY <4>1, <1>3, <2>3, Zenon DEF Freed
    <3>3. unread[j] > 0 /\ j \notin robbed /\ live[j]
      BY <1>1, <1>2, <2>2, <2>3 DEF BufferOK
    <3>4. ref[j] = IF shared[j] THEN 1 ELSE 0
      BY <3>3, <2>2, <2>1 DEF BufferOK, Needed
    <3>5. live'[j] <=> shared[j]
      BY <3>2, <3>3, <3>4
    <3> QED BY <1>1, <2>2, <3>1, <3>3, <3>4, <3>5 DEF BufferOK, Needed
  <2>4. CASE j # i
    <3>1. unread'[j] = unread[j] /\ (live'[j] <=> live[j]) /\ (j \in picked' <=> j \in picked)
      BY <1>3, <2>4 DEF BufferTypes
    <3> QED BY <1>1, <2>2, <3>1 DEF BufferOK, Needed
  <2> QED BY <2>3, <2>4
<1> QED BY <1>1, <1>4, <1>5 DEF BufferTypes, BufferInv

\* copyEarly ends before all are written: those left are freed.
LEMMA FreePickedBuffers ==
  ASSUME SetUpOK, BufferTypes, BufferInv, FreePicked, UNCHANGED setUp,
         UNCHANGED <<held, ref, shared, robbed, snatched>>, pc = "cache"
  PROVE  BufferTypes' /\ BufferInv'
<1>1. /\ Chain' = Chain /\ held' = held /\ ref' = ref /\ shared' = shared /\ robbed' = robbed
      /\ snatched' = snatched /\ pc = "cache" /\ picked' = {}
  BY SetUpKept DEF FreePicked
<1>2. /\ unread' = [i \in Chain |-> IF i \in picked THEN 0 ELSE unread[i]]
      /\ live' = [i \in Chain |-> IF i \in picked THEN Freed(i, ref[i]) ELSE live[i]]
  BY DEF FreePicked
<1>3. unread' \in [Chain -> Nat] /\ live' \in [Chain -> BOOLEAN]
  <2>1. \A i \in Chain : unread[i] \in Nat /\ live[i] \in BOOLEAN /\ Freed(i, ref[i]) \in BOOLEAN
    BY DEF BufferTypes, Freed
  <2>2. unread' \in [Chain -> Nat]
    BY <1>2, <2>1
  <2>3. live' \in [Chain -> BOOLEAN]
    BY <1>2, <2>1, Zenon
  <2> QED BY <2>2, <2>3
<1>4. ASSUME NEW i \in Chain PROVE BufferOK(i)'
  <2>1. /\ held[i] \in BOOLEAN /\ live[i] \in BOOLEAN /\ shared[i] \in BOOLEAN /\ ref[i] \in Int
        /\ unread[i] \in Nat
    BY DEF BufferTypes
  <2>2. BufferOK(i) /\ ~held[i]
    BY <1>1 DEF BufferInv
  <2>3. CASE i \in picked
    <3>1. unread'[i] = 0
      BY <1>2, <2>3
    <3>2. live'[i] <=> live[i] /\ ref[i] > 0
      BY <1>2, <2>3, Zenon DEF Freed
    <3>3. unread[i] > 0 /\ i \notin robbed /\ (shared[i] => live[i])
      BY <2>2, <2>3 DEF BufferOK
    <3>4. ref[i] = IF shared[i] THEN 1 ELSE 0
      BY <3>3, <2>2, <2>1 DEF BufferOK, Needed
    <3>5. live'[i] <=> shared[i]
      BY <3>2, <3>3, <3>4
    <3> QED BY <1>1, <2>2, <3>1, <3>3, <3>4, <3>5 DEF BufferOK, Needed
  <2>4. CASE i \notin picked
    <3>1. unread'[i] = unread[i]
      BY <1>2, <2>4
    <3>2. live'[i] <=> live[i]
      BY <1>2, <2>4, Zenon
    <3> QED BY <1>1, <2>2, <2>4, <3>1, <3>2 DEF BufferOK, Needed
  <2> QED BY <2>3, <2>4
<1> QED BY <1>1, <1>3, <1>4 DEF BufferTypes, BufferInv

-----------------------------------------------------------------------------
\* The stream and the counters, action by action.

LEMMA CutTypes ==
  ASSUME SetUpOK, NEW c \in Nat, c <= Total, Cut(c)
  PROVE  /\ baseUnread \in 0 .. BaseUnits /\ BaseUnits \in Nat /\ depth \in Nat
         /\ Total = End(depth) + BaseUnits /\ End(depth) \in Nat /\ Total \in Nat
         /\ AtUnit(c) /\ Base(c) /\ Stream(c) /\ Tally(c) /\ (depth = 0 => hasBase)
<1>1. depth \in Nat
  BY BoundsAssumption DEF SetUpOK
<1>2. Base(c)
  BY DEF Cut
<1>3. baseUnread \in 0 .. BaseUnits
  BY <1>2, BaseRange
<1> QED BY <1>1, <1>3, TotalIs DEF Cut, SetUpOK

\* The counters of the reader are told of what leaves it.
LEMMA ToldMoves ==
  ASSUME SetUpOK, UNCHANGED setUp, NEW c \in Nat, NEW a \in Nat, NEW b \in Nat, NEW o \in Nat, NEW k \in Nat,
         ToldOK(c), Tell(o, k), appended \in Nat, again' = again, Written' => Written,
         NEW j \in Nat, baseUnread \in 0 .. BaseUnits, j <= baseUnread, baseUnread' = baseUnread - j,
         k <= j, b = 0 => k = j,
         ~again => o + k * appended <= a + b /\ (b = 0 => o + k * appended = a),
         b = 0 => lost' = lost, b > 0 => lost' # {}
  PROVE  ToldOK(c + a + b)'
<1>1. wrapped' = wrapped /\ wrapped.outer \in BOOLEAN /\ wrapped.inner \in BOOLEAN
  BY SetUpKept DEF SetUpOK
<1> DEFINE x == k * appended
<1>2. x \in Nat
  OBVIOUS
<1>3. ~again => o + x <= a + b /\ (b = 0 => o + x = a)
  OBVIOUS
<1>4. told.outer \in Nat /\ told.inner \in Nat
  BY DEF ToldOK
<1>5. /\ told' = [outer |-> told'.outer, inner |-> told'.inner]
      /\ told'.outer = IF wrapped.outer THEN told.outer + o + x ELSE 0
      /\ told'.inner = IF wrapped.inner THEN told.inner + k ELSE 0
  BY DEF Tell
<1> HIDE DEF x
<1>6. BaseUnits \in Nat /\ baseUnread \in Nat /\ baseUnread <= BaseUnits
  BY BoundsAssumption
<1>7. ASSUME wrapped.inner
      PROVE  /\ told'.inner <= BaseUnits - baseUnread'
             /\ lost' = {} => told'.inner = BaseUnits - baseUnread'
  <2>1. /\ told'.inner = told.inner + k /\ told.inner <= BaseUnits - baseUnread
        /\ lost = {} => told.inner = BaseUnits - baseUnread
    BY <1>5, <1>7 DEF ToldOK
  <2>2. told'.inner <= BaseUnits - baseUnread'
    BY <2>1, <1>4, <1>6
  <2>3. ASSUME lost' = {} PROVE told'.inner = BaseUnits - baseUnread'
    <3>1. b = 0 /\ lost = {}
      BY <2>3
    <3> QED BY <3>1, <2>1, <1>4, <1>6
  <2> QED BY <2>2, <2>3
<1>8. told'.outer \in Nat /\ told'.inner \in Nat
  BY <1>1, <1>2, <1>4, <1>5
<1>9. ASSUME wrapped.outer, ~again
      PROVE  told'.outer <= c + a + b /\ (lost' = {} /\ Written' => told'.outer = c + a + b)
  <2>1. told'.outer = told.outer + o + x
    BY <1>5, <1>9
  <2>2. told.outer <= c /\ (lost = {} /\ Written => told.outer = c)
    BY <1>9 DEF ToldOK
  <2>3. o + x <= a + b /\ (b = 0 => o + x = a)
    BY <1>3, <1>9
  <2>4. told'.outer <= c + a + b
    BY ONLY <2>1, <2>2, <2>3, <1>2, <1>4, c \in Nat, a \in Nat, b \in Nat, o \in Nat
  <2>5. ASSUME lost' = {}, Written' PROVE told'.outer = c + a + b
    <3>1. b = 0 /\ lost = {} /\ Written
      BY <2>5
    <3>2. told.outer = c /\ o + x = a
      BY <3>1, <2>2, <2>3
    <3>3. told'.outer = c + a
      BY ONLY <3>2, <2>1, <1>2, <1>4, c \in Nat, a \in Nat, o \in Nat
    <3>4. c + a = c + a + b
      BY <3>1
    <3> QED BY <3>3, <3>4
  <2> QED BY <2>4, <2>5
<1>10. told' \in [outer : Nat, inner : Nat]
  BY <1>5, <1>8
<1>11. ~wrapped.inner => told'.inner = 0
  BY <1>5
<1> QED BY <1>1, <1>7, <1>9, <1>10, <1>11 DEF ToldOK

\* A Read: what it answers is told of, though only some of it may reach anybody.
LEMMA ReadMoves ==
  ASSUME SetUpOK, UNCHANGED setUp, NEW c \in Nat, c <= Total, Cut(c),
         NEW q \in Nat, NEW k \in Nat, NEW m \in Nat, NEW d \in Nat, NEW a \in Nat, NEW b \in Nat,
         Answers(q, k, c, m, d), ReadStep(q, k), a + b = m + k, a <= m - d + k,
         b = 0 => d = 0,
         got' = got \o Units(c + 1, a), lost' = lost \cup (c + a + 1 .. c + a + b),
         Tell(Len(Answer(q, k)), k), appended \in Nat, again' = again, ~again => appended = 0,
         Written' => Written
  PROVE  /\ c + m + k \in Nat /\ c + m + k <= Total
         /\ AtUnit(c + m + k)' /\ Base(c + m + k)' /\ Stream(c + m + k)' /\ ToldOK(c + m + k)'
<1>1. /\ depth \in Nat /\ AtUnit(c) /\ Base(c) /\ Stream(c) /\ ToldOK(c)
      /\ baseUnread \in 0 .. BaseUnits /\ BaseUnits \in Nat
  BY CutTypes DEF Tally
<1>2. /\ d <= m /\ Len(Answer(q, k)) = m - d + k /\ k <= baseUnread /\ c + m + k <= Total
  BY DEF Answers
<1>3. AtUnit(c + m + k)' /\ Base(c + m + k)'
  BY <1>1, ReadLeaves
<1>4. c + a + b = c + m + k
  OBVIOUS
<1>5. Stream(c + a + b)' /\ (b = 0 => lost' = lost) /\ (b > 0 => lost' # {})
  BY <1>1, StreamMoves
<1> DEFINE o == m - d + k
<1>6. o \in Nat /\ o <= a + b /\ (b = 0 => o = a)
  BY <1>2
<1>7. Tell(o, k)
  BY <1>2
<1> HIDE DEF o
<1>8. ~again => o + k * appended <= a + b /\ (b = 0 => o + k * appended = a)
  BY <1>6
<1>9. baseUnread' = baseUnread - k /\ k <= k /\ (b = 0 => k = k)
  BY DEF ReadStep
<1>10. ToldOK(c + a + b)'
  BY <1>1, <1>2, <1>5, <1>6, <1>7, <1>8, <1>9, ToldMoves
<1>11. Stream(c + m + k)'
  BY <1>4, <1>5 DEF Stream
<1>12. ToldOK(c + m + k)'
  BY <1>4, <1>10 DEF ToldOK
<1> QED BY <1>2, <1>3, <1>11, <1>12

\* What the three actions that read have in common.
LEMMA ReadingStep ==
  ASSUME Inv, UNCHANGED setUp, NEW q \in Nat, NEW k \in Nat, ReadStep(q, k)
  PROVE  \E c, m, d \in Nat : c <= Total /\ Cut(c) /\ Answers(q, k, c, m, d)
<1>1. PICK c \in Nat : c <= Total /\ Cut(c)
  BY DEF Inv
<1>2. SetUpOK
  BY DEF Inv
<1>3. depth \in Nat /\ (depth = 0 => hasBase) /\ AtUnit(c) /\ Base(c)
  BY <1>1, <1>2, CutTypes
<1>4. k = 0 \/ k <= Smaller(baseUnread, q - Len(Cached(q)))
  BY DEF ReadStep
<1>5. \E m, d \in Nat : Answers(q, k, c, m, d)
  BY <1>1, <1>3, <1>4, AnswerIs
<1> QED BY <1>1, <1>5

LEMMA ReadInv ==
  ASSUME Inv, NEW q \in Nat, NEW k \in Nat, Read(q, k)
  PROVE  Inv'
<1>1. /\ UNCHANGED setUp /\ UNCHANGED copyVars /\ UNCHANGED <<handshake, appended, direct, again, broken, copies, pc>>
      /\ pc = "reading" /\ ReadStep(q, k)
      /\ got' = got \o Answer(q, k) /\ Tell(Len(Answer(q, k)), k)
      /\ lost' = lost \cup DroppedUnits(q)
  BY DEF Read
<1>2. PICK c, m, d \in Nat : c <= Total /\ Cut(c) /\ Answers(q, k, c, m, d)
  BY <1>1, ReadingStep
<1>3. SetUpOK /\ BufferTypes /\ BufferInv /\ ControlInv /\ CountInv
  BY DEF Inv
<1>4. /\ picked' = picked /\ n' = n /\ counted' = counted /\ err' = err
      /\ bare' = bare /\ forgot' = forgot /\ rest' = rest
  BY <1>1 DEF copyVars
<1>5. /\ AtUnit(c) /\ Tally(c) /\ depth \in Nat
  BY <1>2, <1>3, CutTypes
<1>6. BufferTypes' /\ BufferInv'
  BY <1>1, <1>3, <1>4, <1>5, DrainBuffers
<1>7. SetUpOK' /\ hasBase' = hasBase /\ Total' = Total
  BY <1>1, <1>3, SetUpKept
<1>8. ControlInv'
  BY <1>1, <1>3, <1>4 DEF ControlInv
<1>9. CountInv'
  BY <1>1, <1>3, <1>4 DEF CountInv
<1> DEFINE a == m - d + k
<1>10. /\ d <= m /\ (d > 0 => ~hasBase /\ k = 0)
       /\ Answer(q, k) = Units(c + 1, a) /\ DroppedUnits(q) = c + m - d + 1 .. c + m
  BY <1>2 DEF Answers
<1>11. a \in Nat /\ a + d = m + k /\ a <= m - d + k
  BY <1>10
<1>12. lost' = lost \cup (c + a + 1 .. c + a + d)
  <2>1. c + m - d + 1 .. c + m = c + a + 1 .. c + a + d
    BY <1>10
  <2> HIDE DEF a
  <2> QED BY <2>1, <1>1, <1>10
<1> HIDE DEF a
<1>13. got' = got \o Units(c + 1, a)
  BY <1>1, <1>10
<1>14. appended \in Nat /\ again' = again /\ (~again => appended = 0) /\ (Written' => Written)
  BY <1>1, <1>3, <1>4 DEF ControlInv, Written
<1> DEFINE e == c + m + k
<1>15. /\ e \in Nat /\ e <= Total
       /\ AtUnit(e)' /\ Base(e)' /\ Stream(e)' /\ ToldOK(e)'
  BY <1>1, <1>2, <1>3, <1>11, <1>12, <1>13, <1>14, ReadMoves
<1>16. Whole' => lost' = {}
  <2> SUFFICES ASSUME Whole' PROVE lost' = {}
    OBVIOUS
  <2>1. Whole
    BY <1>1, <1>4, <1>7 DEF Whole
  <2>2. d = 0 /\ lost = {}
    BY <2>1, <1>5, <1>10 DEF Whole, Tally
  <2>3. c + a + 1 .. c + a + d = {}
    BY <2>2, <1>11
  <2> QED BY <2>2, <2>3, <1>12
<1>17. Tally(e)'
  <2>1. c <= e
    BY <1>2
  <2>2. n \in Nat /\ counted.read \in Nat /\ counted.write \in Nat /\ n <= c /\ counted.read <= c /\ counted.write <= c
    BY <1>3, <1>5 DEF CountInv, Tally
  <2> HIDE DEF e
  <2>3. n' <= e /\ counted'.read <= e /\ counted'.write <= e
    BY <2>1, <2>2, <1>4, <1>15
  <2> QED BY <2>3, <1>1, <1>15, <1>16 DEF Tally, Complete
<1>18. Cut(e)'
  BY <1>15, <1>17 DEF Cut
<1> HIDE DEF e
<1>19. \E x \in Nat : x <= Total' /\ Cut(x)'
  BY <1>7, <1>15, <1>18
<1> QED BY <1>6, <1>7, <1>8, <1>9, <1>19 DEF Inv

LEMMA HandshakeReadFailsInv ==
  ASSUME Inv, NEW q \in Nat, NEW k \in Nat, HandshakeReadFails(q, k)
  PROVE  Inv'
<1>1. /\ UNCHANGED setUp /\ UNCHANGED <<picked, handshake, appended, direct, again, broken, copies, got>>
      /\ bare' = bare /\ forgot' = forgot /\ rest' = rest
      /\ pc = "handshake" /\ ReadStep(q, k) /\ pc' = "done" /\ err' = "handshake: read"
      /\ n' = Len(Answer(q, k)) /\ Tell(Len(Answer(q, k)), k)
      /\ counted' = [counted EXCEPT !.read = Len(Answer(q, k))]
      /\ lost' = lost \cup DroppedUnits(q) \cup Range(Answer(q, k))
  BY DEF HandshakeReadFails, Fail, pureVars
<1>2. PICK c, m, d \in Nat : c <= Total /\ Cut(c) /\ Answers(q, k, c, m, d)
  BY <1>1, ReadingStep
<1>3. SetUpOK /\ BufferTypes /\ BufferInv /\ ControlInv /\ CountInv
  BY DEF Inv
<1>5. /\ AtUnit(c) /\ Tally(c) /\ Stream(c) /\ depth \in Nat
  BY <1>2, <1>3, CutTypes
<1>6. BufferTypes' /\ BufferInv'
  BY <1>1, <1>3, <1>5, DrainBuffers
<1>7. SetUpOK' /\ hasBase' = hasBase /\ Total' = Total
  BY <1>1, <1>3, SetUpKept
<1>8. ControlInv'
  BY <1>1, <1>3 DEF ControlInv, PCs, Errors
<1> DEFINE l == m - d + k
<1>10. /\ d <= m /\ (d > 0 => k = 0) /\ l \in Nat /\ l <= m + k
       /\ Answer(q, k) = Units(c + 1, l) /\ Len(Answer(q, k)) = l
       /\ DroppedUnits(q) = c + m - d + 1 .. c + m
  <2>1. /\ d <= m /\ (d > 0 => k = 0)
        /\ Answer(q, k) = Units(c + 1, l) /\ Len(Answer(q, k)) = l
        /\ DroppedUnits(q) = c + m - d + 1 .. c + m
    BY <1>2 DEF Answers
  <2>2. l \in Nat /\ l <= m + k
    BY <2>1
  <2> QED BY <2>1, <2>2
<1>11. n' = l /\ counted'.read = l /\ counted'.write = 0 /\ counted' \in [read : Nat, write : Nat]
  BY <1>1, <1>3, <1>10 DEF CountInv
<1>9. CountInv'
  <2>1. forgot' = 0 /\ rest' = "nil" /\ "nil" \in Ends
    BY <1>1, <1>3 DEF CountInv, Ends
  <2>2. n' \in Nat /\ n' = counted'.read /\ forgot' <= counted'.write
    BY <2>1, <1>10, <1>11
  <2> QED BY <2>1, <2>2, <1>1, <1>11 DEF CountInv
<1> DEFINE b == m + k
<1>12. lost' = lost \cup (c + 0 + 1 .. c + 0 + b)
  <2>1. Range(Answer(q, k)) = c + 1 .. c + 1 + l - 1
    <3>1. c + 1 \in Nat
      OBVIOUS
    <3> HIDE DEF l
    <3> QED BY <3>1, <1>10, UnitsType
  <2>2. (c + m - d + 1 .. c + m) \cup (c + 1 .. c + 1 + l - 1) = c + 0 + 1 .. c + 0 + b
    BY <1>10
  <2> HIDE DEF b, l
  <2> QED BY <2>1, <2>2, <1>1, <1>10
<1> HIDE DEF l
<1>13. got' = got \o Units(c + 1, 0)
  <2>1. Units(c + 1, 0) = <<>>
    BY DEF Units
  <2>2. got \in Seq(Nat)
    BY <1>5 DEF Stream, Ordered
  <2>3. got \o <<>> = got
    BY <2>2, ConcatEmptySeq
  <2> QED BY <2>1, <2>3, <1>1
<1>14. appended \in Nat /\ again' = again /\ (~again => appended = 0) /\ (Written' => Written)
  <2>1. appended \in 0 .. copies /\ copies \in 0 .. MaxCopies /\ (~again => appended = 0)
    BY <1>1, <1>3 DEF ControlInv
  <2>2. appended \in Nat
    BY ONLY <2>1
  <2>3. Written' => Written
    BY <1>1, <1>3 DEF Written, ControlInv
  <2> QED BY <2>1, <2>2, <2>3, <1>1
<1> DEFINE e == c + m + k
<1>15. /\ e \in Nat /\ e <= Total
       /\ AtUnit(e)' /\ Base(e)' /\ Stream(e)' /\ ToldOK(e)'
  <2>1. b \in Nat /\ 0 \in Nat /\ 0 + b = m + k /\ 0 <= m - d + k /\ (b = 0 => d = 0)
    BY <1>10
  <2> HIDE DEF b
  <2> QED BY <2>1, <1>1, <1>2, <1>3, <1>12, <1>13, <1>14, ReadMoves
<1>17. Tally(e)'
  <2>1. l <= e
    BY <1>10
  <2>3. n' <= e /\ counted'.read <= e /\ counted'.write <= e
    BY <2>1, <1>11
  <2> HIDE DEF e
  <2> QED BY <2>3, <1>1, <1>15 DEF Tally, Whole, Complete
<1>18. Cut(e)'
  BY <1>15, <1>17 DEF Cut
<1> HIDE DEF e
<1>19. \E x \in Nat : x <= Total' /\ Cut(x)'
  BY <1>7, <1>15, <1>18
<1> QED BY <1>6, <1>7, <1>8, <1>9, <1>19 DEF Inv

LEMMA HandshakeWriteInv ==
  ASSUME Inv, NEW q \in Nat, NEW k \in Nat, NEW j \in Nat, HandshakeWrite(q, k, j)
  PROVE  Inv'
<1>1. /\ UNCHANGED setUp /\ UNCHANGED <<picked, handshake, appended, direct, again, broken, copies>>
      /\ bare' = bare /\ forgot' = forgot /\ rest' = rest
      /\ pc = "handshake" /\ ReadStep(q, k) /\ (hasBase \/ ~MayFail(q))
      /\ j <= Len(Answer(q, k)) /\ got' = got \o SubSeq(Answer(q, k), 1, j)
      /\ n' = j /\ counted' = [read |-> Len(Answer(q, k)), write |-> j]
      /\ lost' = lost \cup Range(SubSeq(Answer(q, k), j + 1, Len(Answer(q, k))))
      /\ Tell(Len(Answer(q, k)), k)
      /\ \/ j = Len(Answer(q, k)) /\ pc' = "pick" /\ err' = err
         \/ pc' = "done" /\ err' = "handshake: write"
  BY DEF HandshakeWrite, HandshakeCount, Fail, pureVars
<1>2. PICK c, m, d \in Nat : c <= Total /\ Cut(c) /\ Answers(q, k, c, m, d)
  BY <1>1, ReadingStep
<1>3. SetUpOK /\ BufferTypes /\ BufferInv /\ ControlInv /\ CountInv
  BY DEF Inv
<1>4. err = "nil"
  BY <1>1, <1>3 DEF ControlInv
<1>5. /\ AtUnit(c) /\ Tally(c) /\ Stream(c) /\ depth \in Nat
  BY <1>2, <1>3, CutTypes
<1>6. BufferTypes' /\ BufferInv'
  BY <1>1, <1>3, <1>5, DrainBuffers
<1>7. SetUpOK' /\ hasBase' = hasBase /\ Total' = Total
  BY <1>1, <1>3, SetUpKept
<1>8. ControlInv'
  BY <1>1, <1>3 DEF ControlInv, PCs, Errors
<1>10. /\ d = 0 /\ Answer(q, k) = Units(c + 1, m + k) /\ Len(Answer(q, k)) = m + k /\ m + k \in Nat
  <2>1. /\ d > 0 => ~hasBase /\ m < q
        /\ Len(Cached(q)) = m /\ d <= m
        /\ Answer(q, k) = Units(c + 1, m - d + k) /\ Len(Answer(q, k)) = m - d + k
    BY <1>2 DEF Answers
  <2>2. d = 0
    <3>1. hasBase \/ ~(m < q)
      BY <2>1, <1>1 DEF MayFail
    <3>2. ~(d > 0)
      BY <2>1, <3>1
    <3> QED BY <3>2
  <2>3. m - d + k = m + k
    BY <2>2
  <2> QED BY <2>1, <2>2, <2>3
<1>11. /\ n' = j /\ counted'.read = m + k /\ counted'.write = j /\ counted' \in [read : Nat, write : Nat]
       /\ j \in 0 .. m + k
  <2>1. j <= m + k
    BY <1>1, <1>10
  <2>2. counted' = [read |-> m + k, write |-> j] /\ n' = j
    BY <1>1, <1>10
  <2> QED BY <2>1, <2>2, <1>10
<1>9. CountInv'
  <2>1. forgot' = 0 /\ rest' = "nil" /\ "nil" \in Ends
    BY <1>1, <1>3 DEF CountInv, Ends
  <2>2. n' \in Nat /\ n' + forgot' = counted'.write /\ forgot' <= counted'.write
    BY <2>1, <1>11
  <2>3. err' = "nil" => counted'.read = counted'.write
    BY <1>1, <1>10, <1>11
  <2>4. err' \in {"nil", "handshake: write"} /\ pc' \in {"pick", "done"}
    BY <1>1, <1>4
  <2> QED BY <2>1, <2>2, <2>3, <2>4, <1>11 DEF CountInv
<1> DEFINE b == m + k - j
<1>12. b \in Nat /\ j + b = m + k
  BY <1>11
<1>13. got' = got \o Units(c + 1, j) /\ lost' = lost \cup (c + j + 1 .. c + j + b)
  <2>1. c + 1 \in Nat /\ c + 1 + j \in Nat
    OBVIOUS
  <2>2. /\ SubSeq(Units(c + 1, m + k), 1, j) = Units(c + 1, j)
        /\ SubSeq(Units(c + 1, m + k), j + 1, m + k) = Units(c + 1 + j, b)
    <3>1. j \in 0 .. m + k /\ m + k \in Nat /\ c + 1 \in Nat
      BY <2>1, <1>10, <1>11
    <3>2. \A z \in Nat : \A i \in 0 .. z :
            /\ SubSeq(Units(c + 1, z), 1, i) = Units(c + 1, i)
            /\ SubSeq(Units(c + 1, z), i + 1, z) = Units(c + 1 + i, z - i)
      BY <2>1, UnitsSplit
    <3>3. /\ SubSeq(Units(c + 1, m + k), 1, j) = Units(c + 1, j)
          /\ SubSeq(Units(c + 1, m + k), j + 1, m + k) = Units(c + 1 + j, (m + k) - j)
      <4> DEFINE z == m + k
      <4>1. z \in Nat /\ j \in 0 .. z
        BY <3>1
      <4> HIDE DEF z
      <4>2. /\ SubSeq(Units(c + 1, z), 1, j) = Units(c + 1, j)
            /\ SubSeq(Units(c + 1, z), j + 1, z) = Units(c + 1 + j, z - j)
        BY ONLY <4>1, <3>2
      <4> QED BY ONLY <4>2 DEF z
    <3> QED BY ONLY <3>3 DEF b
  <2> HIDE DEF b
  <2>3. Range(Units(c + 1 + j, b)) = c + 1 + j .. c + 1 + j + b - 1
    BY <2>1, <1>12, UnitsType
  <2>4. c + 1 + j .. c + 1 + j + b - 1 = c + j + 1 .. c + j + b
    BY <1>12
  <2> QED BY <2>2, <2>3, <2>4, <1>1, <1>10
<1>14. appended \in Nat /\ again' = again /\ (~again => appended = 0) /\ (Written' => Written)
  <2>1. appended \in 0 .. copies /\ copies \in 0 .. MaxCopies /\ (~again => appended = 0)
    BY <1>1, <1>3 DEF ControlInv
  <2>2. appended \in Nat
    BY ONLY <2>1
  <2>3. Written' => Written
    BY <1>1, <1>3 DEF Written, ControlInv
  <2> QED BY <2>1, <2>2, <2>3, <1>1
<1> DEFINE e == c + m + k
<1>15. /\ e \in Nat /\ e <= Total
       /\ AtUnit(e)' /\ Base(e)' /\ Stream(e)' /\ ToldOK(e)'
  <2>1. b \in Nat /\ j + b = m + k /\ j <= m - d + k /\ (b = 0 => d = 0)
    BY <1>10, <1>11, <1>12
  <2> HIDE DEF b
  <2> QED BY <2>1, <1>1, <1>2, <1>3, <1>13, <1>14, ReadMoves
<1>16. Whole' => lost' = {}
  <2> SUFFICES ASSUME Whole' PROVE lost' = {}
    OBVIOUS
  <2>1. Whole /\ j = m + k
    BY <1>1, <1>4, <1>7, <1>10 DEF Whole
  <2>2. b = 0 /\ lost = {}
    BY <2>1, <1>5, <1>12 DEF Tally
  <2>3. c + j + 1 .. c + j + b = {}
    BY <2>2
  <2> QED BY <2>2, <2>3, <1>13
<1>17. Tally(e)'
  <2>1. j <= e /\ m + k <= e
    BY <1>11
  <2>3. n' <= e /\ counted'.read <= e /\ counted'.write <= e
    BY <2>1, <1>11
  <2> HIDE DEF e
  <2> QED BY <2>3, <1>1, <1>4, <1>15, <1>16 DEF Tally, Complete
<1>18. Cut(e)'
  BY <1>15, <1>17 DEF Cut
<1> HIDE DEF e
<1>19. \E x \in Nat : x <= Total' /\ Cut(x)'
  BY <1>7, <1>15, <1>18
<1> QED BY <1>6, <1>7, <1>8, <1>9, <1>19 DEF Inv

-----------------------------------------------------------------------------
\* copyEarly.

LEMMA EndMonotone ==
  ASSUME NEW i \in Nat, NEW j \in Nat, i <= j
  PROVE  End(i) \in Nat /\ End(j) \in Nat /\ End(i) <= End(j)
<1>1. End(i) \in Nat /\ End(j) \in Nat /\ PerBuffer \in Nat
  BY EndSteps, BoundsAssumption
<1>2. i < j => End(i) + PerBuffer <= End(j)
  BY EndSteps
<1>3. i = j \/ i < j
  OBVIOUS
<1> HIDE DEF End
<1> QED BY <1>1, <1>2, <1>3

\* Copy writes the buffer that the stream has reached.
LEMMA FirstPicked ==
  ASSUME SetUpOK, BufferTypes, BufferInv, pc = "cache", picked # {}, NEW c \in Nat, AtUnit(c)
  PROVE  /\ NextPicked \in Chain
         /\ unread[NextPicked] \in 1 .. PerBuffer /\ c + unread[NextPicked] = End(NextPicked)
         /\ \A x : Leading(NextPicked, x) = Units(c + 1, x)
         /\ End(NextPicked) \in Nat /\ End(NextPicked) <= End(depth)
         /\ \A j \in Chain : j < NextPicked => unread[j] = 0
<1> DEFINE i == NextPicked
<1>1. i \in picked /\ i \in Chain /\ \A j \in picked : i <= j
  BY NextPickedIs
<1> HIDE DEF i
<1>2. Chain \subseteq Nat \ {0} /\ depth \in Nat /\ i <= depth
  BY <1>1, BoundsAssumption DEF Chain, SetUpOK
<1>3. \A j \in Chain : unread[j] \in Nat /\ (j \in picked <=> unread[j] > 0)
  BY DEF BufferInv, BufferOK, BufferTypes
<1>4. \A j \in Chain : j < i => unread[j] = 0
  <2> SUFFICES ASSUME NEW j \in Chain, j < i PROVE unread[j] = 0
    OBVIOUS
  <2>1. j \notin picked
    BY <1>1, <1>2
  <2> QED BY <2>1, <1>3
<1>5. Ahead(i - 1, c) = 0
  <2> SUFFICES ASSUME Ahead(i - 1, c) # 0 PROVE FALSE
    OBVIOUS
  <2>1. i \in Nat \ {0} /\ Ahead(i - 1, c) \in Nat /\ Ahead(0, c) = 0
    BY <1>1, <1>2, AheadSteps
  <2>2. i - 1 # 0
    BY <2>1
  <2>3. i - 1 \in Nat \ {0} /\ i - 1 \in Chain /\ i - 1 < i
    BY <2>1, <2>2, <1>1, <1>2 DEF Chain
  <2>4. unread[i - 1] = Ahead(i - 1, c) - Ahead((i - 1) - 1, c)
    BY <2>3 DEF AtUnit
  <2>5. Ahead((i - 1) - 1, c) \in Nat /\ (Ahead(i - 1, c) > 0 => Ahead(i - 1, c) > Ahead((i - 1) - 1, c))
    BY <2>3, AheadSteps
  <2>6. unread[i - 1] = 0
    BY <2>3, <1>4
  <2> HIDE DEF Ahead
  <2> QED BY <2>1, <2>4, <2>5, <2>6
<1>6. unread[i] \in 1 .. PerBuffer /\ c + unread[i] = End(i)
  <2>1. i \in Nat \ {0} /\ unread[i] = Ahead(i, c) - Ahead(i - 1, c) /\ unread[i] \in Nat /\ unread[i] > 0
    BY <1>1, <1>2, <1>3 DEF AtUnit
  <2>2. Ahead(i, c) \in Nat /\ Ahead(i, c) - Ahead(i - 1, c) \in 0 .. PerBuffer
        /\ (Ahead(i, c) > 0 => c + Ahead(i, c) = End(i))
    BY <2>1, AheadSteps
  <2>3. unread[i] = Ahead(i, c)
    BY <2>1, <2>2, <1>5
  <2> HIDE DEF Ahead
  <2> QED BY <2>1, <2>2, <2>3
<1>7. \A x : Leading(i, x) = Units(c + 1, x)
  <2> SUFFICES ASSUME NEW x PROVE Leading(i, x) = Units(c + 1, x)
    OBVIOUS
  <2>1. Leading(i, x) = Units(End(i) - unread[i] + 1, x)
    BY DEF Leading, End
  <2>2. End(i) - unread[i] + 1 = c + 1
    BY <1>6
  <2> QED BY <2>1, <2>2
<1>8. End(i) \in Nat /\ End(i) <= End(depth)
  BY <1>1, <1>2, EndMonotone
<1> QED BY <1>1, <1>4, <1>6, <1>7, <1>8 DEF i

LEMMA CacheUnit ==
  ASSUME SetUpOK, UNCHANGED setUp, BufferTypes, NEW c \in Nat, AtUnit(c), NEW i \in Chain, c < End(i),
         \A j \in Chain : j < i => unread[j] = 0, unread' = [unread EXCEPT ![i] = 0]
  PROVE  AtUnit(End(i))'
<1>1. Chain' = Chain /\ Chain \subseteq Nat \ {0}
  BY SetUpKept
<1>2. ASSUME NEW j \in Chain PROVE unread'[j] = Ahead(j, End(i)) - Ahead(j - 1, End(i))
  <2>1. i \in Nat \ {0} /\ j \in Nat \ {0} /\ j - 1 \in Nat
    BY <1>1
  <2>2. End(i) \in Nat /\ End(j) \in Nat /\ End(j - 1) \in Nat /\ End(j - 1) <= End(j)
    BY <2>1, EndMonotone
  <2>3. CASE j <= i
    <3>1. unread'[j] = 0
      BY <2>1, <2>3 DEF BufferTypes
    <3>2. End(j) <= End(i)
      BY <2>1, <2>3, EndMonotone
    <3> HIDE DEF End
    <3>3. Ahead(j, End(i)) = 0 /\ Ahead(j - 1, End(i)) = 0
      BY <3>2, <2>2 DEF Ahead
    <3> QED BY <3>1, <3>3
  <2>4. CASE j > i
    <3>1. unread'[j] = Ahead(j, c) - Ahead(j - 1, c)
      BY <2>1, <2>4 DEF AtUnit, BufferTypes
    <3>2. i <= j - 1
      BY <2>1, <2>4
    <3>3. End(i) <= End(j - 1)
      BY <3>2, <2>1, EndMonotone
    <3> HIDE DEF End
    <3>4. Ahead(j, c) = End(j) - c /\ Ahead(j - 1, c) = End(j - 1) - c
      BY <3>3, <2>2 DEF Ahead
    <3>5. Ahead(j, End(i)) = End(j) - End(i) /\ Ahead(j - 1, End(i)) = End(j - 1) - End(i)
      BY <3>3, <2>2 DEF Ahead
    <3> QED BY <3>1, <3>4, <3>5, <2>2
  <2> QED BY <2>1, <2>3, <2>4
<1>3. \A j \in Chain : Ahead(j, End(i))' = Ahead(j, End(i)) /\ Ahead(j - 1, End(i))' = Ahead(j - 1, End(i))
  BY DEF Ahead, End
<1> QED BY <1>1, <1>2, <1>3 DEF AtUnit

LEMMA WriteCacheInv ==
  ASSUME Inv, WriteCache
  PROVE  Inv'
<1>0. PICK i, a : i = NextPicked /\ a = unread[i]
  OBVIOUS
<1>1. /\ UNCHANGED setUp /\ UNCHANGED <<baseUnread, handshake, appended, direct, again, broken, copies, pc, lost, err>>
      /\ bare' = bare /\ forgot' = forgot /\ rest' = rest /\ snatched' = snatched
      /\ pc = "cache" /\ picked # {}
      /\ got' = got \o Leading(i, a) /\ n' = n + a /\ Tell(a, 0)
      /\ counted' = [read |-> counted.read + a, write |-> counted.write + a]
      /\ unread' = [unread EXCEPT ![i] = 0]
  BY <1>0 DEF WriteCache, pureVars
<1>2. PICK c \in Nat : c <= Total /\ Cut(c)
  BY DEF Inv
<1>3. SetUpOK /\ BufferTypes /\ BufferInv /\ ControlInv /\ CountInv
  BY DEF Inv
<1>4. err = "nil"
  BY <1>1, <1>3 DEF ControlInv
<1>5. /\ AtUnit(c) /\ Base(c) /\ Stream(c) /\ Tally(c) /\ depth \in Nat /\ baseUnread \in 0 .. BaseUnits
      /\ Total = End(depth) + BaseUnits /\ End(depth) \in Nat /\ Total \in Nat /\ BaseUnits \in Nat
  BY <1>2, <1>3, CutTypes
<1>6. BufferTypes' /\ BufferInv'
  BY <1>3, WriteCacheBuffers
<1>7. SetUpOK' /\ hasBase' = hasBase /\ Total' = Total /\ depth' = depth
  BY <1>1, <1>3, SetUpKept
<1>8. ControlInv'
  BY <1>1, <1>3 DEF ControlInv
<1>10. /\ i \in Chain /\ a \in 1 .. PerBuffer /\ c + a = End(i) /\ End(i) \in Nat /\ End(i) <= End(depth)
       /\ Leading(i, a) = Units(c + 1, a)
       /\ \A j \in Chain : j < i => unread[j] = 0
  BY <1>0, <1>1, <1>3, <1>5, FirstPicked
<1>11. AtUnit(End(i))'
  <2>1. c < End(i)
    BY <1>10
  <2> HIDE DEF End
  <2> QED BY <2>1, <1>1, <1>3, <1>5, <1>10, CacheUnit
<1> DEFINE e == c + a
<1>12. a \in Nat /\ e \in Nat /\ e <= Total /\ c <= e /\ a <= e /\ e <= End(depth)
  <2> HIDE DEF End, Total
  <2>1. a \in Nat
    BY <1>10
  <2>2. e = End(i)
    BY <1>10
  <2> QED BY <2>1, <2>2, <1>5, <1>10
<1>13. AtUnit(e)'
  BY <1>10, <1>11 DEF AtUnit
<1>14. Base(e)'
  <2>1. Base(c) /\ c < End(depth) /\ End(depth)' = End(depth)
    <3>1. c < e
      BY <1>10
    <3> QED BY <3>1, <1>5, <1>7, <1>12 DEF End
  <2> HIDE DEF End, Total, e
  <2>2. CASE hasBase
    <3>1. baseUnread = BaseUnits
      BY <2>1, <2>2 DEF Base
    <3>2. ~(e < End(depth)) => Total - e = BaseUnits
      BY <1>5, <1>12
    <3> QED BY <2>1, <2>2, <3>1, <3>2, <1>1, <1>7 DEF Base
  <2>3. CASE ~hasBase
    <3>1. baseUnread = 0
      BY <2>1, <2>3 DEF Base
    <3> QED BY <2>1, <2>3, <3>1, <1>1, <1>7, <1>12 DEF Base
  <2> QED BY <2>2, <2>3
<1>15. Stream(c + a + 0)'
  <2>1. c + a + 1 .. c + a + 0 = {}
    BY <1>12
  <2>2. lost' = lost \cup (c + a + 1 .. c + a + 0)
    BY <2>1, <1>1
  <2>3. got' = got \o Units(c + 1, a)
    BY <1>1, <1>10
  <2> QED BY <2>2, <2>3, <1>5, <1>12, StreamMoves
<1>16. ToldOK(c + a + 0)'
  <2>1. appended \in Nat /\ again' = again
    <3>1. appended \in 0 .. copies
      BY <1>3 DEF ControlInv
    <3> QED BY <3>1, <1>1
  <2>2. ToldOK(c) /\ Tell(a, 0)
    BY <1>1, <1>5 DEF Tally
  <2>3. a + 0 * appended <= a + 0 /\ (0 = 0 => a + 0 * appended = a)
    BY <2>1, <1>12
  <2>4. /\ baseUnread' = baseUnread - 0 /\ 0 <= baseUnread /\ lost' = lost
        /\ 0 <= 0 /\ (0 = 0 => 0 = 0) /\ (Written' => Written)
    BY <1>1, <1>5 DEF Written
  <2>5. SetUpOK /\ UNCHANGED setUp /\ baseUnread \in 0 .. BaseUnits /\ a \in Nat /\ 0 \in Nat /\ c \in Nat
        /\ (0 = 0 => lost' = lost) /\ (0 > 0 => lost' # {})
        /\ (~again => a + 0 * appended <= a + 0 /\ (0 = 0 => a + 0 * appended = a))
    BY <2>3, <2>4, <1>1, <1>3, <1>5, <1>12
  <2> QED BY ONLY <2>1, <2>2, <2>4, <2>5, ToldMoves
<1>17. c + a + 0 = e
  BY <1>12
<1>18. Stream(e)' /\ ToldOK(e)'
  BY <1>15, <1>16, <1>17 DEF Stream, ToldOK
<1>19. /\ n' = n + a /\ counted'.read = counted.read + a /\ counted'.write = counted.write + a
       /\ n \in Nat /\ counted.read \in Nat /\ counted.write \in Nat /\ n = counted.write
       /\ counted.read = counted.write /\ counted' \in [read : Nat, write : Nat]
       /\ forgot = 0 /\ rest = "nil" /\ rest \in Ends
  <2>1. /\ n \in Nat /\ counted.read \in Nat /\ counted.write \in Nat /\ n + forgot = counted.write
        /\ counted.read = counted.write /\ forgot = 0 /\ rest = "nil" /\ rest \in Ends
    BY <1>1, <1>3, <1>4 DEF CountInv
  <2>2. counted.read + a \in Nat /\ counted.write + a \in Nat
    BY <2>1, <1>12
  <2> QED BY <2>1, <2>2, <1>1
<1>20. CountInv'
  BY <1>1, <1>4, <1>12, <1>19 DEF CountInv
<1>21. Tally(e)'
  <2>1. n <= c /\ counted.read <= c /\ counted.write <= c /\ (Whole => lost = {})
    BY <1>5 DEF Tally
  <2>2. n' <= e /\ counted'.read <= e /\ counted'.write <= e
    BY <2>1, <1>12, <1>19
  <2>3. Whole' => lost' = {}
    BY <2>1, <1>1, <1>7 DEF Whole
  <2> QED BY <2>2, <2>3, <1>1, <1>18 DEF Tally, Complete
<1>22. Cut(e)'
  BY <1>13, <1>14, <1>18, <1>21 DEF Cut
<1> HIDE DEF e
<1>23. \E x \in Nat : x <= Total' /\ Cut(x)'
  BY <1>7, <1>12, <1>22
<1> QED BY <1>6, <1>7, <1>8, <1>20, <1>23 DEF Inv

\* The picked buffers have the stream up to the base reader.
LEMMA PickedHave ==
  ASSUME SetUpOK, BufferTypes, BufferInv, pc = "cache", NEW c \in Nat, AtUnit(c), c < End(depth)
  PROVE  UNION {Range(Leading(i, unread[i])) : i \in picked} = c + 1 .. End(depth)
<1>1. Chain \subseteq Nat \ {0} /\ depth \in Nat /\ End(depth) \in Nat
  BY BoundsAssumption, EndSteps DEF Chain, SetUpOK
<1>2. ASSUME NEW i \in Chain
      PROVE  /\ i \in picked <=> unread[i] > 0
             /\ unread[i] \in Nat /\ unread[i] = Ahead(i, c) - Ahead(i - 1, c)
             /\ Ahead(i, c) \in Nat /\ Ahead(i - 1, c) \in Nat
             /\ End(i) \in Nat /\ End(i) <= End(depth) /\ End(i - 1) \in Nat
             /\ unread[i] > 0 => unread[i] <= End(i) - c
             /\ Range(Leading(i, unread[i])) = End(i) - unread[i] + 1 .. End(i)
  <2>1. i \in picked <=> unread[i] > 0
    BY DEF BufferInv, BufferOK
  <2>2. unread[i] \in Nat /\ unread[i] = Ahead(i, c) - Ahead(i - 1, c)
    BY DEF BufferTypes, AtUnit
  <2>3. i \in Nat \ {0} /\ i - 1 \in Nat /\ i <= depth
    BY <1>1 DEF Chain
  <2>4. /\ Ahead(i, c) \in Nat /\ Ahead(i - 1, c) \in Nat
        /\ Ahead(i, c) - Ahead(i - 1, c) \in 0 .. PerBuffer
        /\ Ahead(i, c) > 0 => c + Ahead(i, c) = End(i)
    BY <2>3, AheadSteps
  <2>5. End(i) \in Nat /\ End(i) <= End(depth) /\ End(i - 1) \in Nat /\ End(i - 1) <= End(i)
        /\ End(i) = End(i - 1) + PerBuffer
    <3>1. i - 1 <= i /\ (i - 1) + 1 = i
      BY <2>3
    <3>2. End((i - 1) + 1) = End(i - 1) + PerBuffer
      BY <2>3, EndSteps
    <3> QED BY <3>1, <3>2, <2>3, <1>1, EndMonotone
  <2>6. unread[i] > 0 => unread[i] <= End(i) - c
    <3> HIDE DEF Ahead, End
    <3> QED BY <2>2, <2>4, <2>5
  <2>7. unread[i] <= End(i)
    <3> HIDE DEF Ahead, End
    <3> QED BY <2>2, <2>4, <2>5, BoundsAssumption
  <2>8. Leading(i, unread[i]) = Units(End(i) - unread[i] + 1, unread[i])
    BY DEF Leading, End
  <2>9. Range(Leading(i, unread[i])) = End(i) - unread[i] + 1 .. End(i) - unread[i] + 1 + unread[i] - 1
    <3>1. End(i) - unread[i] + 1 \in Nat
      <4> HIDE DEF End
      <4> QED BY <2>2, <2>5, <2>7
    <3> QED BY <3>1, <2>2, <2>8, UnitsType
  <2>10. End(i) - unread[i] + 1 + unread[i] - 1 = End(i)
    <3> HIDE DEF End
    <3> QED BY <2>2, <2>5
  <2> QED BY <2>1, <2>2, <2>4, <2>5, <2>6, <2>9, <2>10
<1> HIDE DEF End
<1>3. ASSUME NEW i \in picked PROVE Range(Leading(i, unread[i])) \subseteq c + 1 .. End(depth)
  <2>1. i \in Chain
    BY DEF BufferTypes
  <2>2. unread[i] > 0 /\ unread[i] <= End(i) - c /\ End(i) \in Nat /\ End(i) <= End(depth) /\ unread[i] \in Nat
        /\ Range(Leading(i, unread[i])) = End(i) - unread[i] + 1 .. End(i)
    BY <2>1, <1>2
  <2>3. \A x \in End(i) - unread[i] + 1 .. End(i) : x \in c + 1 .. End(depth)
    BY <2>2, <1>1
  <2> QED BY <2>2, <2>3
<1>4. ASSUME NEW x \in c + 1 .. End(depth) PROVE \E i \in picked : x \in Range(Leading(i, unread[i]))
  <2> DEFINE S == {i \in Chain : x <= End(i)}
  <2>1. depth \in S
    <3>1. depth # 0
      BY <1>1, EndSteps
    <3>2. depth \in Chain
      BY <3>1, <1>1 DEF Chain
    <3> QED BY <3>2, <1>1
  <2>2. S \in SUBSET Nat
    BY <1>1
  <2>3. PICK i \in S : \A z \in S : i <= z
    <3> HIDE DEF S
    <3> QED BY <2>1, <2>2, SmallestOf
  <2>4. i \in Chain /\ x <= End(i) /\ i \in Nat \ {0}
    BY <2>3, <1>1
  <2>5. End(i - 1) < x
    <3>1. CASE i = 1
      <4>1. i - 1 = 0 /\ End(0) = 0
        BY <3>1, EndSteps
      <4> QED BY <4>1
    <3>2. CASE i # 1
      <4>1. i - 1 \in Chain /\ ~(i <= i - 1)
        BY <3>2, <2>4, <1>1 DEF Chain
      <4>2. i - 1 \notin S
        BY <4>1, <2>3
      <4>3. End(i - 1) \in Nat
        BY <2>4, <1>2
      <4> QED BY <4>1, <4>2, <4>3
    <3> QED BY <3>1, <3>2
  <2>6. unread[i] > 0 /\ End(i) - unread[i] < x
    <3>1. /\ unread[i] \in Nat /\ unread[i] = Ahead(i, c) - Ahead(i - 1, c)
          /\ End(i) \in Nat /\ End(i - 1) \in Nat
      BY <2>4, <1>2
    <3>2. Ahead(i, c) = End(i) - c
      BY <3>1, <2>4 DEF Ahead
    <3>3. CASE c < End(i - 1)
      <4>1. unread[i] = End(i) - End(i - 1)
        BY <3>1, <3>2, <3>3 DEF Ahead
      <4> QED BY <4>1, <3>1, <2>4, <2>5
    <3>4. CASE ~(c < End(i - 1))
      <4>1. unread[i] = End(i) - c
        BY <3>1, <3>2, <3>4 DEF Ahead
      <4> QED BY <4>1, <3>1, <2>4, <2>5
    <3> QED BY <3>3, <3>4
  <2>7. i \in picked /\ Range(Leading(i, unread[i])) = End(i) - unread[i] + 1 .. End(i)
        /\ unread[i] \in Nat /\ End(i) \in Nat
    BY <2>4, <2>6, <1>2
  <2>8. x \in End(i) - unread[i] + 1 .. End(i)
    BY <2>4, <2>6, <2>7
  <2> QED BY <2>7, <2>8
<1> QED BY <1>3, <1>4

\* Which of the units from the next one on are among those that came.
LEMMA CameOf ==
  ASSUME NEW s, NEW c \in Nat, NEW a \in Nat, Ordered(s, c), NEW x \in Nat, x > c
  PROVE  x \in Range(s \o Units(c + 1, a)) <=> x <= c + a
<1> DEFINE u == Units(c + 1, a)
           t == s \o u
<1>1. PICK L \in Nat : s \in Seq(Nat) /\ Len(s) = L /\ \A i \in 1 .. L : s[i] \in 1 .. c
  <2>1. s \in Seq(Nat)
    BY DEF Ordered
  <2>2. Len(s) \in Nat
    BY <2>1, LenProperties
  <2> QED BY <2>1, <2>2 DEF Ordered
<1>2. u \in Seq(Nat) /\ Len(u) = a /\ \A i \in 1 .. a : u[i] = c + 1 + i - 1
  <2>1. c + 1 \in Nat
    OBVIOUS
  <2> QED BY <2>1, UnitsType
<1> HIDE DEF u
<1>3. /\ t \in Seq(Nat) /\ Len(t) = L + a
      /\ \A i \in 1 .. L + a : t[i] = IF i <= L THEN s[i] ELSE u[i - L]
  BY <1>1, <1>2, ConcatProperties
<1> HIDE DEF t
<1>4. Range(t) = {t[i] : i \in 1 .. L + a}
  <2>1. DOMAIN t = 1 .. L + a
    BY <1>3, LenProperties
  <2> QED BY <2>1 DEF Range
<1>5. ASSUME NEW i \in 1 .. L + a, t[i] = x PROVE x <= c + a
  <2>1. CASE i <= L
    <3>1. i \in 1 .. L
      BY <2>1
    <3>2. t[i] \in 1 .. c
      BY <2>1, <3>1, <1>1, <1>3
    <3> QED BY <3>2, <1>5
  <2>2. CASE ~(i <= L)
    <3>1. i - L \in 1 .. a
      BY <2>2
    <3>2. t[i] = u[i - L] /\ u[i - L] = c + 1 + (i - L) - 1
      BY <2>2, <3>1, <1>2, <1>3
    <3> QED BY <3>1, <3>2, <1>5
  <2> QED BY <2>1, <2>2
<1>6. ASSUME x <= c + a PROVE \E i \in 1 .. L + a : t[i] = x
  <2>1. x - c \in 1 .. a /\ L + (x - c) \in 1 .. L + a /\ ~(L + (x - c) <= L) /\ (L + (x - c)) - L = x - c
    BY <1>6
  <2>2. t[L + (x - c)] = u[x - c] /\ u[x - c] = c + 1 + (x - c) - 1
    BY <2>1, <1>2, <1>3
  <2>3. t[L + (x - c)] = x
    BY <2>2
  <2> QED BY <2>1, <2>3
<1>7. x \in Range(t) <=> x <= c + a
  BY <1>4, <1>5, <1>6
<1> QED BY <1>7 DEF t, u

\* When the list of buffers is given up, the first j units of the next one have come and
\* the others are lost: only the base reader has something left.
LEMMA FreePickedMoves ==
  ASSUME SetUpOK, BufferTypes, BufferInv, UNCHANGED setUp, UNCHANGED baseUnread, pc = "cache", picked # {},
         NEW c \in Nat, c <= Total, Cut(c), NEW j \in Nat, j <= unread[NextPicked],
         got' = got \o Leading(NextPicked, j), FreePicked
  PROVE  \E e \in Nat :
           /\ e <= Total /\ c + j <= e /\ j <= PerBuffer
           /\ AtUnit(e)' /\ Base(e)' /\ Stream(e)'
           /\ lost \subseteq lost' /\ (j = 0 => lost' # {})
<1>0. PICK i, l, e, U : /\ i = NextPicked /\ l = unread[i] /\ e = End(depth)
                      /\ U = UNION {Range(Leading(z, unread[z])) : z \in picked}
  OBVIOUS
<1>1. /\ j <= l /\ got' = got \o Leading(i, j)
      /\ lost' = lost \cup (U \ Range(got'))
      /\ unread' = [z \in Chain |-> IF z \in picked THEN 0 ELSE unread[z]]
  BY <1>0 DEF FreePicked
<1>5. /\ AtUnit(c) /\ Base(c) /\ Stream(c) /\ depth \in Nat /\ baseUnread \in 0 .. BaseUnits
      /\ Total = e + BaseUnits /\ e \in Nat /\ Total \in Nat /\ BaseUnits \in Nat
  BY <1>0, CutTypes
<1>7. hasBase' = hasBase /\ Total' = Total /\ depth' = depth
  BY SetUpKept
<1>10. /\ l \in 1 .. PerBuffer /\ c + l = End(i) /\ End(i) \in Nat /\ End(i) <= e
       /\ Leading(i, j) = Units(c + 1, j)
  BY <1>0, <1>5, FirstPicked
<1>11. c + l <= e /\ l \in Nat /\ l > 0 /\ j <= PerBuffer /\ c + j <= e /\ c < e /\ PerBuffer \in Nat
  <2> HIDE DEF End
  <2> QED BY <1>1, <1>5, <1>10, BoundsAssumption
<1>12. AtUnit(e)'
  <2>1. ASSUME NEW z \in Chain PROVE unread'[z] = 0 /\ Ahead(z, e) = 0 /\ Ahead(z - 1, e) = 0
    <3>1. unread[z] \in Nat /\ (z \in picked <=> unread[z] > 0)
      BY DEF BufferTypes, BufferInv, BufferOK
    <3>2. unread'[z] = 0
      BY <1>1, <3>1
    <3>3. z \in Nat /\ z - 1 \in Nat /\ z <= depth /\ z - 1 <= depth
      BY <1>5 DEF Chain
    <3>4. End(z) <= e /\ End(z - 1) <= e /\ End(z) \in Nat /\ End(z - 1) \in Nat
      BY <1>0, <1>5, <3>3, EndMonotone
    <3> HIDE DEF End
    <3> QED BY <3>2, <3>4, <1>5 DEF Ahead
  <2>2. Chain' = Chain /\ \A z \in Chain : Ahead(z, e)' = Ahead(z, e) /\ Ahead(z - 1, e)' = Ahead(z - 1, e)
    BY SetUpKept DEF Ahead, End
  <2> QED BY <2>1, <2>2 DEF AtUnit
<1>13. Base(e)'
  <2>1. Base(c) /\ c < End(depth) /\ End(depth)' = e
    BY <1>0, <1>5, <1>7, <1>11 DEF End
  <2> HIDE DEF End, Total
  <2>2. CASE hasBase
    <3>1. baseUnread = BaseUnits
      BY <2>1, <2>2 DEF Base
    <3>2. Total - e = BaseUnits
      BY <1>5
    <3> QED BY <2>1, <2>2, <3>1, <3>2, <1>5, <1>7 DEF Base
  <2>3. CASE ~hasBase
    <3>1. baseUnread = 0
      BY <2>1, <2>3 DEF Base
    <3> QED BY <2>1, <2>3, <3>1, <1>5, <1>7 DEF Base
  <2> QED BY <2>2, <2>3
<1> DEFINE b == e - c - j
<1>14. b \in Nat /\ c + j + b = e /\ (j = 0 => b > 0)
  BY <1>5, <1>11
<1>15. got' = got \o Units(c + 1, j)
  BY <1>1, <1>10
<1>16. lost' = lost \cup (c + j + 1 .. c + j + b)
  <2>1. UNION {Range(Leading(z, unread[z])) : z \in picked} = c + 1 .. e
    BY <1>0, <1>5, <1>11, PickedHave
  <2>2. Ordered(got, c)
    BY <1>5 DEF Stream
  <2>3. ASSUME NEW x \in c + 1 .. e PROVE x \in Range(got') <=> x <= c + j
    <3>1. x \in Nat /\ x > c
      BY <1>5
    <3> QED BY <3>1, <2>2, <1>15, CameOf
  <2>4. (c + 1 .. e) \ Range(got') = c + j + 1 .. e
    <3>1. \A x : x \in (c + 1 .. e) \ Range(got') <=> x \in c + 1 .. e /\ ~(x <= c + j)
      BY <2>3
    <3>2. \A x : x \in c + 1 .. e /\ ~(x <= c + j) <=> x \in c + j + 1 .. e
      BY <1>5, <1>11
    <3> QED BY ONLY <3>1, <3>2
  <2>5. lost' = lost \cup ((c + 1 .. e) \ Range(got'))
    <3>1. lost' = lost \cup (U \ Range(got'))
      BY <1>1
    <3>2. U = c + 1 .. e
      BY <1>0, <2>1
    <3> QED BY ONLY <3>1, <3>2
  <2>6. c + j + b = e
    BY <1>14
  <2> HIDE DEF b
  <2> QED BY ONLY <2>4, <2>5, <2>6
<1> HIDE DEF b
<1>17. Stream(c + j + b)' /\ (b > 0 => lost' # {})
  BY <1>5, <1>14, <1>15, <1>16, StreamMoves
<1>18. Stream(e)'
  BY <1>14, <1>17 DEF Stream
<1>19. e <= Total
  <2> HIDE DEF Total
  <2> QED BY <1>5
<1>20. lost \subseteq lost' /\ (j = 0 => lost' # {})
  BY <1>14, <1>16, <1>17
<1> QED BY <1>5, <1>11, <1>12, <1>13, <1>18, <1>19, <1>20

LEMMA WriteCacheFailsInv ==
  ASSUME Inv, NEW j \in Nat, WriteCacheFails(j)
  PROVE  Inv'
<1>1. /\ UNCHANGED setUp /\ UNCHANGED <<held, ref, shared, robbed, snatched>>
      /\ UNCHANGED <<baseUnread, counted, handshake, appended, direct, again, broken, told, copies>>
      /\ bare' = bare /\ forgot' = forgot /\ rest' = rest
      /\ pc = "cache" /\ picked # {} /\ j <= unread[NextPicked] /\ FreePicked
      /\ got' = got \o Leading(NextPicked, j) /\ n' = n + j /\ pc' = "done" /\ err' = "writeCache"
  BY DEF WriteCacheFails, Fail, counterVars, pureVars
<1>2. PICK c \in Nat : c <= Total /\ Cut(c)
  BY DEF Inv
<1>3. SetUpOK /\ BufferTypes /\ BufferInv /\ ControlInv /\ CountInv
  BY DEF Inv
<1>4. PICK e \in Nat : /\ e <= Total /\ c + j <= e /\ j <= PerBuffer
                      /\ AtUnit(e)' /\ Base(e)' /\ Stream(e)'
                      /\ lost \subseteq lost'
  BY <1>1, <1>2, <1>3, FreePickedMoves
<1>5. Tally(c)
  BY <1>2 DEF Cut
<1>6. BufferTypes' /\ BufferInv'
  BY <1>1, <1>3, FreePickedBuffers
<1>7. SetUpOK' /\ Total' = Total /\ wrapped' = wrapped
  BY <1>1, <1>3, SetUpKept
<1>8. ControlInv'
  BY <1>1, <1>3 DEF ControlInv, PCs, Errors
<1>9. n = counted.write /\ n \in Nat /\ counted \in [read : Nat, write : Nat]
      /\ counted.read \in Nat /\ counted.write \in Nat /\ forgot = 0 /\ rest = "nil" /\ rest \in Ends
      /\ n <= c /\ counted.read <= c /\ counted.write <= c
  <2>1. err = "nil"
    BY <1>1, <1>3 DEF ControlInv
  <2>2. n + forgot = counted.write /\ forgot = 0 /\ n \in Nat
    BY <2>1, <1>1, <1>3 DEF CountInv
  <2> QED BY <2>1, <2>2, <1>1, <1>3, <1>5 DEF CountInv, Tally
<1>10. CountInv'
  <2>1. n' = n + j /\ counted' = counted
    BY <1>1
  <2>2. n' \in Nat /\ n' - counted'.write \in 0 .. PerBuffer
    BY <2>1, <1>4, <1>9, BoundsAssumption
  <2> QED BY <2>1, <2>2, <1>1, <1>9 DEF CountInv
<1>11. ToldOK(e)'
  <2>1. ToldOK(c)
    BY <1>5 DEF Tally
  <2>2. told.outer \in Nat /\ c <= e
    BY <2>1, <1>4 DEF ToldOK
  <2>3. wrapped.outer /\ ~again => told.outer <= e
    BY <2>1, <2>2, <1>4 DEF ToldOK
  <2>4. ~Written' /\ (lost' = {} => lost = {})
    BY <1>1, <1>4 DEF Written
  <2> QED BY <2>1, <2>3, <2>4, <1>1, <1>7 DEF ToldOK
<1>12. Tally(e)'
  <2>1. n' <= e /\ counted'.read <= e /\ counted'.write <= e
    BY <1>1, <1>4, <1>9
  <2> QED BY <2>1, <1>1, <1>11 DEF Tally, Whole, Complete
<1>13. Cut(e)'
  BY <1>4, <1>12 DEF Cut
<1>14. \E x \in Nat : x <= Total' /\ Cut(x)'
  BY <1>4, <1>7, <1>13
<1> QED BY <1>6, <1>7, <1>8, <1>10, <1>14 DEF Inv

LEMMA WriteCachePanicsInv ==
  ASSUME Inv, WriteCachePanics
  PROVE  Inv'
<1>1. /\ UNCHANGED setUp /\ UNCHANGED <<held, ref, shared, robbed, snatched>>
      /\ UNCHANGED <<baseUnread, n, counted, err, handshake, appended, direct, again, broken, told, copies>>
      /\ bare' = bare /\ forgot' = forgot /\ rest' = rest
      /\ pc = "cache" /\ picked # {} /\ ~live[NextPicked] /\ FreePicked
      /\ got' = got /\ pc' = "panic"
  BY DEF WriteCachePanics, counterVars, pureVars
<1>2. PICK c \in Nat : c <= Total /\ Cut(c)
  BY DEF Inv
<1>3. SetUpOK /\ BufferTypes /\ BufferInv /\ ControlInv /\ CountInv
  BY DEF Inv
<1>4. PICK e \in Nat : /\ e <= Total /\ c + 0 <= e
                      /\ AtUnit(e)' /\ Base(e)' /\ Stream(e)'
                      /\ lost \subseteq lost' /\ lost' # {}
  <2>1. NextPicked \in Chain /\ unread[NextPicked] \in Nat
    BY <1>1, <1>3, NextPickedIs DEF BufferTypes
  <2>2. got' = got \o Leading(NextPicked, 0)
    <3>1. Leading(NextPicked, 0) = <<>>
      BY DEF Leading, Units
    <3>2. got \in Seq(Nat)
      BY <1>2 DEF Cut, Stream, Ordered
    <3>3. got \o <<>> = got
      BY <3>2, ConcatEmptySeq
    <3> QED BY <3>1, <3>3, <1>1
  <2>3. 0 \in Nat /\ 0 <= unread[NextPicked]
    BY <2>1
  <2> QED BY <2>2, <2>3, <1>1, <1>2, <1>3, FreePickedMoves
<1>5. Tally(c)
  BY <1>2 DEF Cut
<1>6. BufferTypes' /\ BufferInv'
  BY <1>1, <1>3, FreePickedBuffers
<1>7. SetUpOK' /\ Total' = Total /\ wrapped' = wrapped /\ hasBase' = hasBase
  BY <1>1, <1>3, SetUpKept
<1>8. ControlInv'
  <2>1. NextPicked \in picked /\ NextPicked \in Chain
    BY <1>1, <1>3, NextPickedIs
  <2>2. NextPicked \in snatched
    BY <2>1, <1>1, <1>3 DEF BufferInv, BufferOK
  <2> QED BY <2>2, <1>1, <1>3 DEF ControlInv, PCs
<1>9. CountInv'
  BY <1>1, <1>3 DEF CountInv
<1>10. ToldOK(e)'
  <2>1. ToldOK(c)
    BY <1>5 DEF Tally
  <2>2. told.outer \in Nat /\ c <= e
    BY <2>1, <1>4 DEF ToldOK
  <2>3. wrapped.outer /\ ~again => told.outer <= e
    BY <2>1, <2>2, <1>4 DEF ToldOK
  <2> QED BY <2>1, <2>3, <1>1, <1>4, <1>7 DEF ToldOK
<1>11. Tally(e)'
  <2>1. n \in Nat /\ counted.read \in Nat /\ counted.write \in Nat
    BY <1>3 DEF CountInv
  <2>2. n' <= e /\ counted'.read <= e /\ counted'.write <= e
    BY <2>1, <1>1, <1>4, <1>5 DEF Tally
  <2> QED BY <2>2, <1>1, <1>10 DEF Tally, Whole, Complete
<1>12. Cut(e)'
  BY <1>4, <1>11 DEF Cut
<1>13. \E x \in Nat : x <= Total' /\ Cut(x)'
  BY <1>4, <1>7, <1>12
<1> QED BY <1>6, <1>7, <1>8, <1>9, <1>13 DEF Inv

\* copyPure finds the buffers empty.
LEMMA CopyPureInv ==
  ASSUME Inv, NEW j \in Nat, NEW k \in Nat, NEW r \in Nat, NEW w \in Nat, NEW m \in Nat, NEW res \in Ends,
         CopyPure(j, k, r, w, m, res), r <= j, w <= k, m <= w, j = k => r = j, res = "nil" => r = w
  PROVE  Inv'
<1>1. /\ UNCHANGED setUp /\ UNCHANGED bufferVars
      /\ UNCHANGED <<picked, handshake, appended, direct, again, broken, copies>>
      /\ pc = "pure" /\ j <= baseUnread /\ k <= j
      /\ got' = got \o SubSeq(BaseFront(j), 1, k) /\ n' = n + m /\ Tell(Around(r), r)
      /\ lost' = lost \cup Range(SubSeq(BaseFront(j), k + 1, j))
      /\ baseUnread' = baseUnread - j
      /\ counted' = [read |-> counted.read + r, write |-> counted.write + w]
      /\ bare' = bare /\ forgot' = w - m /\ rest' = res /\ pc' = "done"
      /\ err' = IF res = "other" THEN "copyPure" ELSE "nil"
      /\ res = "nil" => k = baseUnread
  BY DEF CopyPure, Reported
<1>2. PICK c \in Nat : c <= Total /\ Cut(c)
  BY DEF Inv
<1>3. SetUpOK /\ BufferTypes /\ BufferInv /\ ControlInv /\ CountInv
  BY DEF Inv
<1>4. err = "nil" /\ hasBase /\ picked = {}
  BY <1>1, <1>3 DEF ControlInv, BufferInv
<1>5. /\ AtUnit(c) /\ Base(c) /\ Stream(c) /\ Tally(c) /\ depth \in Nat /\ baseUnread \in 0 .. BaseUnits
      /\ Total = End(depth) + BaseUnits /\ End(depth) \in Nat /\ Total \in Nat /\ BaseUnits \in Nat
  BY <1>2, <1>3, CutTypes
<1>6. BufferTypes' /\ BufferInv'
  BY <1>1, <1>3, <1>4, BuffersStay
<1>7. SetUpOK' /\ hasBase' = hasBase /\ Total' = Total /\ depth' = depth /\ Chain' = Chain
  BY <1>1, <1>3, SetUpKept
<1>8. ControlInv'
  BY <1>1, <1>3 DEF ControlInv, PCs, Errors
<1>9. c >= End(depth)
  <2>1. CASE depth = 0
    BY <2>1, EndSteps
  <2>2. CASE depth # 0
    <3>1. depth \in Chain /\ depth \in Nat \ {0}
      BY <2>2, <1>5 DEF Chain
    <3>2. unread[depth] = 0
      BY <3>1, <1>1, <1>3, <1>4 DEF BufferInv, BufferOK, BufferTypes
    <3>3. unread[depth] = Ahead(depth, c) - Ahead(depth - 1, c)
      BY <3>1, <1>5 DEF AtUnit
    <3>4. /\ Ahead(depth, c) \in Nat /\ Ahead(depth - 1, c) \in Nat
          /\ (Ahead(depth, c) > 0 => Ahead(depth, c) > Ahead(depth - 1, c))
      BY <3>1, AheadSteps
    <3>5. Ahead(depth, c) = 0
      <4> HIDE DEF Ahead
      <4> QED BY <3>2, <3>3, <3>4
    <3> HIDE DEF End
    <3> QED BY <3>5, <1>5 DEF Ahead
  <2> QED BY <2>1, <2>2
<1>10. baseUnread = Total - c /\ baseUnread \in Nat /\ c + j <= Total
  <2> HIDE DEF End, Total
  <2>1. baseUnread = Total - c
    BY <1>4, <1>5, <1>9 DEF Base
  <2> QED BY <2>1, <1>1, <1>2, <1>5
<1>11. BaseFront(j) = Units(c + 1, j)
  <2>1. Total - baseUnread + 1 = c + 1
    <3> HIDE DEF Total
    <3> QED BY <1>5, <1>10
  <2> QED BY <2>1 DEF BaseFront
<1> HIDE DEF End, Total
<1> DEFINE b == j - k
<1>12. b \in Nat /\ k + b = j /\ c + k + b = c + j
  BY <1>1
<1>13. got' = got \o Units(c + 1, k) /\ lost' = lost \cup (c + k + 1 .. c + k + b)
  <2>1. c + 1 \in Nat /\ c + 1 + k \in Nat /\ k \in 0 .. j
    BY <1>1
  <2>2. /\ SubSeq(Units(c + 1, j), 1, k) = Units(c + 1, k)
        /\ SubSeq(Units(c + 1, j), k + 1, j) = Units(c + 1 + k, b)
    BY ONLY <2>1, UnitsSplit, j \in Nat
  <2> HIDE DEF b
  <2>3. Range(Units(c + 1 + k, b)) = c + 1 + k .. c + 1 + k + b - 1
    BY <2>1, <1>12, UnitsType
  <2>4. c + 1 + k .. c + 1 + k + b - 1 = c + k + 1 .. c + k + b
    BY <1>12
  <2> QED BY <2>2, <2>3, <2>4, <1>1, <1>11
<1> HIDE DEF b
<1>14. Stream(c + k + b)' /\ (b = 0 => lost' = lost) /\ (b > 0 => lost' # {})
  BY <1>5, <1>12, <1>13, StreamMoves
<1>15. AtUnit(c + j)'
  <2>1. ASSUME NEW z \in Chain PROVE unread[z] = 0 /\ Ahead(z, c + j) = 0 /\ Ahead(z - 1, c + j) = 0
    <3>1. unread[z] = 0
      BY <1>1, <1>3, <1>4 DEF BufferTypes, BufferInv, BufferOK
    <3>2. z \in Nat /\ z - 1 \in Nat /\ z <= depth /\ z - 1 <= depth
      BY <1>5 DEF Chain
    <3>3. End(z) <= End(depth) /\ End(z - 1) <= End(depth) /\ End(z) \in Nat /\ End(z - 1) \in Nat
      BY <1>5, <3>2, EndMonotone
    <3> QED BY <3>1, <3>3, <1>5, <1>9 DEF Ahead
  <2>2. \A z \in Chain : Ahead(z, c + j)' = Ahead(z, c + j) /\ Ahead(z - 1, c + j)' = Ahead(z - 1, c + j)
    BY DEF Ahead, End
  <2>3. unread' = unread
    BY <1>1 DEF bufferVars
  <2> QED BY <2>1, <2>2, <2>3, <1>7 DEF AtUnit
<1>16. Base(c + j)'
  <2>1. End(depth)' = End(depth)
    BY <1>7 DEF End
  <2>2. baseUnread' = Total - (c + j) /\ ~(c + j < End(depth))
    <3>1. baseUnread' = baseUnread - j
      BY <1>1
    <3> QED BY <3>1, <1>5, <1>9, <1>10
  <2> QED BY <2>1, <2>2, <1>4, <1>7 DEF Base
<1>17. Around(r) \in Nat /\ appended \in Nat /\ (~again => Around(r) + r * appended = r)
  <2>1. appended \in 0 .. copies /\ copies \in 0 .. MaxCopies /\ (~again => appended = IF direct THEN 1 ELSE 0)
        /\ direct \in BOOLEAN
    BY <1>1, <1>3 DEF ControlInv
  <2>2. appended \in Nat /\ Around(r) \in Nat
    BY ONLY <2>1, r \in Nat DEF Around
  <2>3. CASE direct
    BY <2>1, <2>2, <2>3 DEF Around
  <2>4. CASE ~direct
    BY <2>1, <2>2, <2>4 DEF Around
  <2> QED BY <2>2, <2>3, <2>4
<1>18. ToldOK(c + k + b)'
  <2>1. r <= j /\ (b = 0 => r = j)
    BY <1>1, <1>12
  <2>2. ~again => Around(r) + r * appended <= k + b /\ (b = 0 => Around(r) + r * appended = k)
    BY <2>1, <1>12, <1>17
  <2>3. SetUpOK /\ UNCHANGED setUp /\ baseUnread \in 0 .. BaseUnits /\ b \in Nat /\ again' = again
        /\ ToldOK(c) /\ Tell(Around(r), r) /\ j <= baseUnread /\ baseUnread' = baseUnread - j
        /\ (Written' => Written)
    BY <1>1, <1>3, <1>4, <1>5, <1>12 DEF Tally, Written
  <2> QED BY ONLY <2>1, <2>2, <2>3, <1>14, <1>17, ToldMoves, c \in Nat, k \in Nat, j \in Nat, r \in Nat
<1>19. Stream(c + j)' /\ ToldOK(c + j)'
  BY <1>12, <1>14, <1>18 DEF Stream, ToldOK
<1>20. /\ n \in Nat /\ counted.read \in Nat /\ counted.write \in Nat
       /\ n = counted.write /\ counted.read = counted.write
       /\ n <= c /\ counted.read <= c /\ counted.write <= c
  <2>1. /\ n \in Nat /\ n + forgot = counted.write /\ forgot = 0 /\ counted.read = counted.write
        /\ counted.read \in Nat /\ counted.write \in Nat
    BY <1>1, <1>3, <1>4 DEF CountInv
  <2>2. n <= c /\ counted.read <= c /\ counted.write <= c
    BY <1>5 DEF Tally
  <2> QED BY <2>1, <2>2
<1>21. /\ n' = n + m /\ counted'.read = counted.read + r /\ counted'.write = counted.write + w
       /\ counted' \in [read : Nat, write : Nat] /\ n' \in Nat
  <2>1. counted.read + r \in Nat /\ counted.write + w \in Nat /\ n + m \in Nat
    BY <1>20
  <2> QED BY <2>1, <1>1
<1>22. res = "nil" => j = k /\ c + j = Total
  <2> SUFFICES ASSUME res = "nil" PROVE j = k /\ c + j = Total
    OBVIOUS
  <2>1. k = baseUnread
    BY <1>1
  <2>2. j <= baseUnread /\ k <= j
    BY <1>1
  <2> QED BY <2>1, <2>2, <1>5, <1>10
<1>23. CountInv'
  <2>1. err' \in {"nil", "copyPure"} /\ pc' = "done" /\ rest' = res
        /\ (err' = "nil" /\ res # "EOF" => res = "nil") /\ (res = "EOF" => err' = "nil")
    BY <1>1 DEF Ends
  <2>2. forgot' \in Nat /\ n' + forgot' = counted'.write /\ forgot' <= counted'.write
    <3>1. forgot' = w - m
      BY <1>1
    <3> QED BY ONLY <3>1, <1>20, <1>21, w \in Nat, m \in Nat, m <= w
  <2>3. res = "nil" => counted'.read = counted'.write
    BY <1>20, <1>21
  <2> QED BY <2>1, <2>2, <2>3, <1>21 DEF CountInv
<1> DEFINE e == c + j
<1>24. e \in Nat /\ e <= Total
  BY <1>10
<1>25. Whole' => lost' = {}
  <2> SUFFICES ASSUME Whole' PROVE lost' = {}
    OBVIOUS
  <2>1. res = "nil" /\ Whole
    <3>1. rest = "nil"
      BY <1>1, <1>3 DEF CountInv
    <3> QED BY <3>1, <1>1, <1>4, <1>7 DEF Whole, Ends
  <2>2. b = 0 /\ lost = {}
    BY <2>1, <1>5, <1>12, <1>22 DEF Tally
  <2> QED BY <2>2, <1>14
<1>26. Tally(e)'
  <2>1. n' <= e /\ counted'.read <= e /\ counted'.write <= e
    <3>1. k <= j
      BY <1>1
    <3> QED BY ONLY <3>1, <1>20, <1>21, c \in Nat, j \in Nat, k \in Nat, r \in Nat, w \in Nat, m \in Nat,
                    r <= j, w <= k, m <= w
  <2>2. Complete' => hasBase' /\ e = Total'
    <3>1. Complete' => res = "nil"
      BY <1>1 DEF Complete, Ends
    <3> QED BY <3>1, <1>4, <1>7, <1>22
  <2> HIDE DEF e
  <2>3. ToldOK(e)'
    BY <1>19 DEF e
  <2> QED BY <2>1, <2>2, <2>3, <1>25 DEF Tally
<1>27. Cut(e)'
  BY <1>15, <1>16, <1>19, <1>26 DEF Cut
<1> HIDE DEF e
<1>28. \E x \in Nat : x <= Total' /\ Cut(x)'
  BY <1>7, <1>24, <1>27
<1> QED BY <1>6, <1>7, <1>8, <1>23, <1>28 DEF Inv

-----------------------------------------------------------------------------
\* The steps that leave the stream alone, and the invariant.

\* The counters and the stream after such a step.
LEMMA CutStays ==
  ASSUME Inv, UNCHANGED <<setUp, unread, baseUnread, got, lost, told>>, SetUpOK',
         n' \in Nat, n' <= n, counted'.read \in Nat, counted'.read <= counted.read,
         counted'.write \in Nat, counted'.write <= counted.write,
         ~again' => ~again, Complete' => Complete, Whole' => Whole, Written' => Written
  PROVE  \E c \in Nat : c <= Total' /\ Cut(c)'
<1>1. PICK c \in Nat : c <= Total /\ Cut(c)
  BY DEF Inv
<1>2. SetUpOK /\ CountInv /\ UNCHANGED setUp
  BY DEF Inv
<1>3. AtUnit(c) /\ Base(c) /\ Stream(c) /\ Tally(c) /\ Total \in Nat
  BY <1>1, <1>2, CutTypes
<1>4. Total' = Total /\ hasBase' = hasBase /\ wrapped' = wrapped
  BY <1>2, SetUpKept
<1>5. AtUnit(c)' /\ Base(c)' /\ Stream(c)'
  BY <1>2, <1>3, StreamStays
<1>6. ToldOK(c)'
  BY <1>3, <1>4 DEF Tally, ToldOK
<1>7. n' <= c /\ counted'.read <= c /\ counted'.write <= c
  <2>1. n <= c /\ counted.read <= c /\ counted.write <= c
    BY <1>3 DEF Tally
  <2>2. n \in Nat /\ counted.read \in Nat /\ counted.write \in Nat
    BY <1>2 DEF CountInv
  <2> QED BY ONLY <2>1, <2>2, c \in Nat, n' \in Nat, n' <= n, counted'.read \in Nat,
                  counted'.read <= counted.read, counted'.write \in Nat, counted'.write <= counted.write
<1>8. Tally(c)'
  BY <1>3, <1>4, <1>6, <1>7 DEF Tally
<1>9. Cut(c)'
  BY <1>5, <1>8 DEF Cut
<1> QED BY <1>1, <1>4, <1>9

LEMMA InvInit == Init => Inv
<1> SUFFICES ASSUME Init PROVE Inv
  OBVIOUS
<1>1. SetUpOK /\ depth \in Nat
  BY BoundsAssumption DEF Init, SetUpOK
<1>2. PerBuffer \in Nat \ {0} /\ BaseUnits \in Nat /\ MaxCopies \in Nat
  BY BoundsAssumption
<1>3. BufferTypes
  <2>1. /\ unread \in [Chain -> Nat] /\ ref \in [Chain -> Int]
        /\ robbed \subseteq Chain /\ picked \subseteq Chain /\ snatched \subseteq Chain
    BY <1>2 DEF Init
  <2>2. held \in [Chain -> BOOLEAN] /\ live \in [Chain -> BOOLEAN] /\ shared \in [Chain -> BOOLEAN]
    BY DEF Init
  <2> QED BY <2>1, <2>2 DEF BufferTypes
<1>4. BufferInv
  <2>1. ASSUME NEW i \in Chain PROVE BufferOK(i) /\ held[i]
    <3>1. unread[i] > 0 /\ held[i] /\ live[i] /\ ref[i] = (IF shared[i] THEN 2 ELSE 1)
      BY <1>2 DEF Init
    <3>2. shared[i] \in BOOLEAN /\ robbed = {} /\ picked = {}
      BY DEF Init
    <3> QED BY <3>1, <3>2 DEF BufferOK, Needed
  <2>2. picked = {} /\ pc = "reading"
    BY DEF Init
  <2> QED BY <2>1, <2>2 DEF BufferInv
<1>5. ControlInv
  <2>1. /\ handshake = "none" /\ pc = "reading" /\ err = "nil" /\ direct = FALSE /\ again = FALSE
        /\ bare = FALSE /\ broken = FALSE /\ copies = 0 /\ appended = 0
    BY DEF Init
  <2>2. copies \in 0 .. MaxCopies /\ appended \in 0 .. copies
    BY <2>1, <1>2
  <2> QED BY <2>1, <2>2 DEF ControlInv, Destinations, PCs, Errors
<1>6. CountInv
  BY DEF Init, CountInv, Ends
<1>7. AtUnit(0)
  <2> SUFFICES ASSUME NEW i \in Chain PROVE unread[i] = Ahead(i, 0) - Ahead(i - 1, 0)
    BY DEF AtUnit
  <2>1. i \in Nat \ {0} /\ i - 1 \in Nat
    BY <1>1 DEF Chain
  <2>2. End(i) \in Nat /\ End(i - 1) \in Nat /\ End((i - 1) + 1) = End(i - 1) + PerBuffer /\ (i - 1) + 1 = i
    BY <2>1, EndSteps
  <2>3. unread[i] = PerBuffer
    BY DEF Init
  <2> HIDE DEF End
  <2> QED BY <2>2, <2>3, <1>2 DEF Ahead
<1>8. Base(0)
  <2>1. Total = End(depth) + BaseUnits /\ End(depth) \in Nat
    BY <1>1, TotalIs
  <2>2. baseUnread = IF hasBase THEN BaseUnits ELSE 0
    BY DEF Init
  <2> HIDE DEF End, Total
  <2> QED BY <2>1, <2>2, <1>2 DEF Base
<1>9. Stream(0)
  <2>1. got = <<>> /\ lost = {}
    BY DEF Init
  <2>2. Cardinality({}) = 0
    BY FS_EmptySet
  <2>3. Units(1, 0) = <<>>
    BY DEF Units
  <2>4. Ordered(<<>>, 0) /\ Len(<<>>) = 0
    BY DEF Ordered
  <2> QED BY <2>1, <2>2, <2>3, <2>4 DEF Stream
<1>10. Tally(0)
  <2>1. ToldOK(0)
    <3>1. told = [outer |-> 0, inner |-> 0] /\ (wrapped.inner => baseUnread = BaseUnits)
      BY <1>1 DEF Init
    <3> QED BY <3>1, <1>2 DEF ToldOK
  <2> QED BY <2>1 DEF Tally, Init, Complete
<1>11. 0 <= Total /\ Cut(0)
  BY <1>1, <1>7, <1>8, <1>9, <1>10, TotalIs DEF Cut
<1> QED BY <1>1, <1>3, <1>4, <1>5, <1>6, <1>11 DEF Inv

LEMMA InvNext == Inv /\ [Next]_vars => Inv'
<1> SUFFICES ASSUME Inv, [Next]_vars PROVE Inv'
  OBVIOUS
<1>0. /\ SetUpOK /\ BufferTypes /\ BufferInv /\ ControlInv /\ CountInv
      /\ n \in Nat /\ counted.read \in Nat /\ counted.write \in Nat
  BY DEF Inv, CountInv
<1>1. ASSUME UNCHANGED <<baseUnread, told, got, lost>>, UNCHANGED setUp, UNCHANGED unread,
             BufferTypes', BufferInv', ControlInv', CountInv', n' <= n,
             counted'.read <= counted.read, counted'.write <= counted.write,
             ~again' => ~again, Complete' => Complete, Whole' => Whole, Written' => Written
      PROVE  Inv'
  <2>1. SetUpOK'
    BY <1>0, <1>1, SetUpKept
  <2>2. n' \in Nat /\ counted'.read \in Nat /\ counted'.write \in Nat
    BY <1>1 DEF CountInv
  <2>3. \E c \in Nat : c <= Total' /\ Cut(c)'
    BY <1>1, <2>1, <2>2, CutStays
  <2> QED BY <1>1, <2>1, <2>3 DEF Inv
<1>2. ASSUME NEW i \in Chain, OwnerFrees(i) PROVE Inv'
  <2>1. BufferTypes' /\ BufferInv' /\ snatched \subseteq snatched'
    BY <1>0, <1>2, OwnerFreesBuffers
  <2>2. /\ UNCHANGED <<baseUnread, told, got, lost>> /\ UNCHANGED setUp /\ UNCHANGED unread
        /\ UNCHANGED <<n, counted, err, bare, forgot, rest, handshake, appended, direct, again, broken,
                       copies, pc>>
    BY <1>2 DEF OwnerFrees, copyVars, counterVars
  <2>3. /\ ControlInv' /\ CountInv' /\ (Whole' => Whole) /\ (Complete' => Complete)
        /\ Written' => Written
    <3>1. hasBase' = hasBase
      BY <2>2 DEF setUp
    <3>2. ControlInv'
      BY <1>0, <2>1, <2>2, <3>1 DEF ControlInv
    <3>3. CountInv'
      BY <1>0, <2>1, <2>2 DEF CountInv
    <3>4. (Whole' => Whole) /\ (Complete' => Complete) /\ (Written' => Written)
      BY <1>0, <2>1, <2>2, <3>1 DEF Whole, Complete, Written
    <3> QED BY <3>2, <3>3, <3>4
  <2> QED BY <1>0, <1>1, <2>1, <2>2, <2>3
<1>3. ASSUME NEW i \in Chain, HolderReleases(i) PROVE Inv'
  <2>1. BufferTypes' /\ BufferInv' /\ snatched \subseteq snatched'
    BY <1>0, <1>3, HolderReleasesBuffers
  <2>2. /\ UNCHANGED <<baseUnread, told, got, lost>> /\ UNCHANGED setUp /\ UNCHANGED unread
        /\ UNCHANGED <<n, counted, err, bare, forgot, rest, handshake, appended, direct, again, broken,
                       copies, pc>>
    BY <1>3 DEF HolderReleases, copyVars, counterVars
  <2>3. /\ ControlInv' /\ CountInv' /\ (Whole' => Whole) /\ (Complete' => Complete)
        /\ Written' => Written
    <3>1. hasBase' = hasBase
      BY <2>2 DEF setUp
    <3>2. ControlInv'
      BY <1>0, <2>1, <2>2, <3>1 DEF ControlInv
    <3>3. CountInv'
      BY <1>0, <2>1, <2>2 DEF CountInv
    <3>4. (Whole' => Whole) /\ (Complete' => Complete) /\ (Written' => Written)
      BY <1>0, <2>1, <2>2, <3>1 DEF Whole, Complete, Written
    <3> QED BY <3>2, <3>3, <3>4
  <2> QED BY <1>0, <1>1, <2>1, <2>2, <2>3
<1>4. ASSUME NEW d \in Destinations, StartCopy(d) PROVE Inv'
  <2>1. /\ UNCHANGED <<baseUnread, told, got, lost>> /\ UNCHANGED setUp /\ UNCHANGED unread
        /\ UNCHANGED bufferVars /\ UNCHANGED picked
        /\ UNCHANGED <<n, counted, err, bare, forgot, rest, appended, direct, again, broken>>
        /\ pc = "reading" /\ copies < MaxCopies /\ copies' = copies + 1 /\ handshake' = d
        /\ pc' \in {"unwrap", "handshake", "pick"}
    BY <1>4 DEF StartCopy, bufferVars, copyVars
  <2>2. BufferTypes' /\ BufferInv'
    <3>1. picked # {} => pc' = "cache"
      BY <1>0, <2>1 DEF BufferInv
    <3> QED BY <1>0, <2>1, <3>1, BuffersStay
  <2>3. ControlInv'
    <3>1. MaxCopies \in Nat
      BY BoundsAssumption
    <3>2. copies \in Nat /\ appended \in Nat /\ appended <= copies /\ copies + 1 \in 0 .. MaxCopies
      BY <1>0, <2>1, <3>1 DEF ControlInv
    <3>3. copies' \in 0 .. MaxCopies /\ appended' \in 0 .. copies' /\ appended' < copies'
      BY <2>1, <3>2
    <3> QED BY <1>0, <2>1, <3>3 DEF ControlInv, PCs
  <2>4. CountInv' /\ (Whole' => Whole) /\ (Complete' => Complete) /\ (Written' => Written)
    BY <1>0, <2>1 DEF CountInv, Whole, Complete, Written, setUp
  <2> QED BY <1>0, <1>1, <2>1, <2>2, <2>3, <2>4
<1>5. ASSUME TryAgain PROVE Inv'
  <2>1. /\ UNCHANGED <<baseUnread, told, got, lost>> /\ UNCHANGED setUp /\ UNCHANGED unread
        /\ UNCHANGED bufferVars /\ UNCHANGED <<picked, bare, appended, direct, copies>>
        /\ pc = "done" /\ err # "nil" /\ pc' = "reading" /\ err' = "nil" /\ handshake' = "none"
        /\ forgot' = 0 /\ rest' = "nil"
        /\ n' = 0 /\ counted' = [read |-> 0, write |-> 0]
        /\ again' = (again \/ appended > 0) /\ broken' = (broken \/ err # "handshake")
    BY <1>5 DEF TryAgain, bufferVars
  <2>2. BufferTypes' /\ BufferInv'
    <3>1. picked # {} => pc' = "cache"
      BY <1>0, <2>1 DEF BufferInv
    <3> QED BY <1>0, <2>1, <3>1, BuffersStay
  <2>3. again' \in BOOLEAN /\ broken' \in BOOLEAN /\ (~again' => ~again /\ appended = 0)
        /\ (~broken' => ~broken /\ err = "handshake")
    <3>1. appended \in Nat /\ again \in BOOLEAN /\ broken \in BOOLEAN
      BY <1>0 DEF ControlInv
    <3>2. ~(appended > 0) => appended = 0
      BY <3>1
    <3> QED BY <2>1, <3>1, <3>2, Zenon
  <2>4. ControlInv'
    BY <1>0, <2>1, <2>3 DEF ControlInv, PCs, Errors, Destinations
  <2>5. CountInv' /\ counted'.read = 0 /\ counted'.write = 0
    BY <2>1 DEF CountInv, Ends
  <2>6. (Whole' => Whole) /\ (Complete' => Complete) /\ (Written' => Written)
    BY <1>0, <2>1, <2>3 DEF Whole, Complete, Written, CountInv, setUp
  <2> QED BY <1>0, <1>1, <2>1, <2>2, <2>3, <2>4, <2>5, <2>6
<1>6. ASSUME PlainHandshake PROVE Inv'
  <2>1. /\ UNCHANGED <<baseUnread, told, got, lost>> /\ UNCHANGED setUp /\ UNCHANGED unread
        /\ UNCHANGED bufferVars /\ UNCHANGED <<picked, n, counted, handshake, appended, direct, again, broken, copies>>
        /\ UNCHANGED <<bare, forgot, rest>>
        /\ pc = "handshake" /\ ((pc' = "pick" /\ err' = err) \/ (pc' = "done" /\ err' = "handshake"))
    BY <1>6 DEF PlainHandshake, Fail, bufferVars, counterVars, pureVars
  <2>2. BufferTypes' /\ BufferInv'
    <3>1. picked # {} => pc' = "cache"
      BY <1>0, <2>1 DEF BufferInv
    <3> QED BY <1>0, <2>1, <3>1, BuffersStay
  <2>3. err = "nil"
    BY <1>0, <2>1 DEF ControlInv
  <2>4. ControlInv'
    BY <1>0, <2>1, <2>3 DEF ControlInv, PCs, Errors
  <2>5. CountInv' /\ (Whole' => Whole) /\ (Complete' => Complete) /\ (Written' => Written)
    BY <1>0, <2>1, <2>3 DEF CountInv, Whole, Complete, Written, setUp
  <2> QED BY <1>0, <1>1, <2>1, <2>2, <2>3, <2>4, <2>5
<1>7. ASSUME BufferHandshake PROVE Inv'
  <2>1. PICK q \in Requests, k \in 0 .. BaseUnits : HandshakeReadFails(q, k) \/ \E j \in 0 .. q : HandshakeWrite(q, k, j)
    BY <1>7 DEF BufferHandshake
  <2>2. q \in Nat /\ k \in Nat
    BY <2>1 DEF Requests
  <2>3. CASE HandshakeReadFails(q, k)
    BY <2>2, <2>3, HandshakeReadFailsInv
  <2>4. ASSUME NEW j \in 0 .. q, HandshakeWrite(q, k, j) PROVE Inv'
    <3>1. j \in Nat
      OBVIOUS
    <3> QED BY <3>1, <2>2, <2>4, HandshakeWriteInv
  <2> QED BY <2>1, <2>3, <2>4
<1>8. ASSUME NEW q \in Requests, NEW k \in 0 .. BaseUnits, Read(q, k) PROVE Inv'
  <2>1. q \in Nat /\ k \in Nat
    BY DEF Requests
  <2> QED BY <2>1, <1>8, ReadInv
<1>9. ASSUME Pick PROVE Inv'
  <2>1. /\ UNCHANGED <<baseUnread, told, got, lost>> /\ UNCHANGED setUp /\ UNCHANGED unread
        /\ UNCHANGED <<n, counted, err, forgot, rest, handshake, appended, again, broken, copies>>
        /\ pc = "pick" /\ pc' = "cache" /\ direct' \in BOOLEAN /\ bare' \in BOOLEAN
    BY <1>9 DEF Pick
  <2>2. BufferTypes' /\ BufferInv'
    BY <1>0, <1>9, PickBuffers
  <2>3. ControlInv'
    BY <1>0, <2>1 DEF ControlInv, PCs
  <2>4. CountInv' /\ (Whole' => Whole) /\ (Complete' => Complete) /\ (Written' => Written)
    BY <1>0, <2>1 DEF CountInv, Whole, Complete, Written, setUp
  <2> QED BY <1>0, <1>1, <2>1, <2>2, <2>3, <2>4
<1>10. ASSUME WriteCaches PROVE Inv'
  <2>1. CASE WriteCache
    BY <2>1, WriteCacheInv
  <2>2. ASSUME NEW j \in 0 .. PerBuffer, WriteCacheFails(j) PROVE Inv'
    <3>1. j \in Nat
      BY BoundsAssumption
    <3> QED BY <3>1, <2>2, WriteCacheFailsInv
  <2>3. CASE WriteCachePanics
    BY <2>3, WriteCachePanicsInv
  <2> QED BY <1>10, <2>1, <2>2, <2>3 DEF WriteCaches
<1>11. ASSUME CacheWritten PROVE Inv'
  <2>1. /\ UNCHANGED <<baseUnread, told, got, lost>> /\ UNCHANGED setUp /\ UNCHANGED unread
        /\ UNCHANGED bufferVars /\ UNCHANGED <<picked, n, counted, err, handshake, direct, again, broken, copies>>
        /\ UNCHANGED <<bare, forgot, rest>>
        /\ pc = "cache" /\ picked = {} /\ pc' = (IF hasBase THEN "pure" ELSE "panic")
        /\ appended' = IF direct THEN appended + 1 ELSE appended
    BY <1>11 DEF CacheWritten, Appended, bufferVars, copyVars
  <2>2. BufferTypes' /\ BufferInv'
    <3>1. pc' \in {"pure", "panic"}
      BY <2>1
    <3> QED BY <1>0, <2>1, <3>1, BuffersStay
  <2>3. ControlInv'
    <3>1. appended \in Nat /\ appended < copies /\ copies \in 0 .. MaxCopies /\ (~again => appended = 0)
      BY <1>0, <2>1 DEF ControlInv
    <3>2. appended' \in 0 .. copies /\ (~again => appended' = IF direct THEN 1 ELSE 0)
      BY <3>1, <2>1
    <3>3. pc' \in {"pure", "panic"} /\ (pc' = "pure" => hasBase') /\ (pc' = "panic" => ~hasBase')
      BY <1>0, <2>1 DEF setUp, SetUpOK
    <3> QED BY <1>0, <2>1, <3>2, <3>3 DEF ControlInv, PCs
  <2>4. CountInv' /\ (Whole' => Whole) /\ (Complete' => Complete) /\ (Written' => Written)
    BY <1>0, <2>1 DEF CountInv, Whole, Complete, Written, setUp
  <2> QED BY <1>0, <1>1, <2>1, <2>2, <2>3, <2>4
<1>12. ASSUME CopyRest PROVE Inv'
  <2>1. PICK j \in 0 .. BaseUnits, k \in 0 .. BaseUnits, c \in 0 .. BaseUnits :
          SpliceFails(j, k, c) \/ \E res \in Ends : CopyGeneric(j, k, c, res)
    BY <1>12 DEF CopyRest
  <2>2. j \in Nat /\ k \in Nat /\ c \in Nat
    OBVIOUS
  <2>3. CASE SpliceFails(j, k, c)
    <3>1. CopyPure(j, k, c, c, c, "other") /\ c <= k /\ k < j /\ "other" \in Ends
      BY <2>3 DEF SpliceFails, Ends
    <3>2. c <= j /\ c <= c /\ j # k
      BY <3>1, <2>2
    <3> QED BY <3>1, <3>2, <2>2, CopyPureInv
  <2>4. ASSUME NEW res \in Ends, CopyGeneric(j, k, c, res) PROVE Inv'
    <3>1. CopyPure(j, k, j, k, k - c, res) /\ c <= k
      BY <2>4 DEF CopyGeneric
    <3>2. k - c \in Nat /\ k - c <= k /\ j <= j /\ k <= k
      BY <3>1, <2>2
    <3>3. res = "nil" => j = k
      <4>1. j <= baseUnread /\ k <= j /\ (res = "nil" => k = baseUnread)
        BY <3>1 DEF CopyPure
      <4> QED BY <4>1, <2>2
    <3> QED BY <3>1, <3>2, <3>3, <2>2, CopyPureInv
  <2> QED BY <2>1, <2>3, <2>4
<1>13. ASSUME UNCHANGED vars PROVE Inv'
  <2>1. /\ UNCHANGED <<baseUnread, told, got, lost>> /\ UNCHANGED setUp /\ UNCHANGED unread
        /\ UNCHANGED bufferVars /\ UNCHANGED picked
        /\ UNCHANGED <<n, counted, err, bare, forgot, rest, handshake, appended, direct, again, broken,
                       copies, pc>>
    BY <1>13 DEF vars, bufferVars, copyVars, counterVars
  <2>2. BufferTypes' /\ BufferInv'
    <3>1. picked # {} => pc' = "cache"
      BY <1>0, <2>1 DEF BufferInv
    <3> QED BY <1>0, <2>1, <3>1, BuffersStay
  <2>3. /\ ControlInv' /\ CountInv' /\ (Whole' => Whole) /\ (Complete' => Complete)
        /\ Written' => Written
    <3>1. hasBase' = hasBase /\ snatched' = snatched
      BY <2>1 DEF setUp, bufferVars
    <3>2. ControlInv'
      BY <1>0, <2>1, <3>1 DEF ControlInv
    <3>3. CountInv'
      BY <1>0, <2>1 DEF CountInv
    <3>4. (Whole' => Whole) /\ (Complete' => Complete) /\ (Written' => Written)
      BY <1>0, <2>1, <3>1 DEF Whole, Complete, Written
    <3> QED BY <3>2, <3>3, <3>4
  <2> QED BY <1>0, <1>1, <2>1, <2>2, <2>3
<1> QED BY <1>2, <1>3, <1>4, <1>5, <1>6, <1>7, <1>8, <1>9, <1>10, <1>11, <1>12, <1>13 DEF Next

-----------------------------------------------------------------------------
\* What the invariant says.

LEMMA InvAlways == FairSpec => []Inv
<1> QED BY InvInit, InvNext, PTL DEF FairSpec

LEMMA InvType == Inv => TypeOK
<1> SUFFICES ASSUME Inv PROVE TypeOK
  OBVIOUS
<1>1. SetUpOK /\ BufferTypes /\ BufferInv /\ ControlInv /\ CountInv
  BY DEF Inv
<1>2. PICK c \in Nat : c <= Total /\ Cut(c)
  BY DEF Inv
<1>3. AtUnit(c) /\ Stream(c) /\ Tally(c) /\ baseUnread \in 0 .. BaseUnits /\ BaseUnits \in Nat /\ Total \in Nat
  BY <1>1, <1>2, CutTypes
<1>4. unread \in [Chain -> 0 .. PerBuffer]
  <2>1. \A i \in Chain : unread[i] \in 0 .. PerBuffer
    <3> SUFFICES ASSUME NEW i \in Chain PROVE unread[i] \in 0 .. PerBuffer
      OBVIOUS
    <3>1. i \in Nat \ {0}
      BY BoundsAssumption, <1>1 DEF Chain, SetUpOK
    <3>2. unread[i] = Ahead(i, c) - Ahead(i - 1, c)
      BY <1>3 DEF AtUnit
    <3> QED BY <3>1, <3>2, AheadSteps
  <2>2. unread \in [Chain -> Nat]
    BY <1>1 DEF BufferTypes
  <2> QED BY <2>1, <2>2
<1>5. ref \in [Chain -> -1 .. 2]
  <2>1. \A i \in Chain : ref[i] \in -1 .. 2
    BY <1>1 DEF BufferInv, BufferOK, BufferTypes, Needed
  <2>2. ref \in [Chain -> Int]
    BY <1>1 DEF BufferTypes
  <2> QED BY <2>1, <2>2
<1>6. got \in Seq(1 .. Total)
  <2>1. got \in Seq(Nat) /\ \A i \in 1 .. Len(got) : got[i] \in 1 .. c
    BY <1>3 DEF Stream, Ordered
  <2>2. \A i \in 1 .. Len(got) : got[i] \in 1 .. Total
    <3>1. \A x \in 1 .. c : x \in 1 .. Total
      BY <1>2, <1>3
    <3> QED BY <2>1, <3>1
  <2>3. Len(got) \in Nat /\ got = [i \in 1 .. Len(got) |-> got[i]]
    BY <2>1, LenProperties
  <2>4. got \in [1 .. Len(got) -> 1 .. Total]
    BY <2>2, <2>3
  <2> QED BY <2>3, <2>4, SeqDef
<1>7. lost \in SUBSET (1 .. Total)
  <2>1. lost \subseteq 1 .. c
    BY <1>3 DEF Stream
  <2>2. \A x \in 1 .. c : x \in 1 .. Total
    BY <1>2, <1>3
  <2> QED BY <2>1, <2>2
<1>8. n \in 0 .. Total /\ counted \in [read : 0 .. Total, write : 0 .. Total] /\ forgot \in 0 .. Total
  <2>1. /\ n \in Nat /\ counted \in [read : Nat, write : Nat] /\ forgot \in Nat /\ forgot <= counted.write
        /\ n <= c /\ counted.read <= c /\ counted.write <= c
    BY <1>1, <1>3 DEF CountInv, Tally
  <2>2. n \in 0 .. Total /\ counted.read \in 0 .. Total /\ counted.write \in 0 .. Total /\ forgot \in 0 .. Total
    BY <2>1, <1>2, <1>3
  <2> QED BY <2>1, <2>2
<1>9. told \in [outer : Nat, inner : 0 .. BaseUnits]
  <2>1. told \in [outer : Nat, inner : Nat]
        /\ (told.inner = 0 \/ told.inner <= BaseUnits - baseUnread)
    BY <1>3 DEF Tally, ToldOK
  <2>2. told.inner \in 0 .. BaseUnits
    BY <2>1, <1>3
  <2> QED BY <2>1, <2>2
<1>10. /\ appended \in 0 .. copies /\ copies \in 0 .. MaxCopies /\ handshake \in Destinations
       /\ err \in Errors /\ pc \in PCs /\ bare \in BOOLEAN /\ rest \in Ends
  BY <1>1 DEF ControlInv, CountInv
<1>11. /\ depth \in 0 .. Depth /\ hasBase \in BOOLEAN /\ wrapped \in [outer : BOOLEAN, inner : BOOLEAN]
       /\ held \in [Chain -> BOOLEAN] /\ live \in [Chain -> BOOLEAN] /\ shared \in [Chain -> BOOLEAN]
       /\ robbed \in SUBSET Chain /\ picked \in SUBSET Chain /\ snatched \in SUBSET Chain
  BY <1>1 DEF SetUpOK, BufferTypes
<1> QED BY <1>3, <1>4, <1>5, <1>6, <1>7, <1>8, <1>9, <1>10, <1>11 DEF TypeOK, PCs

\* Every count and every position stays in its range, over any chain of readers.
THEOREM CacheTypeCorrect == FairSpec => []TypeOK
<1> QED BY InvAlways, InvType, PTL

\* A buffer has its data as long as its reader or the other holder needs it, one that
\* copyEarly has picked unless it was freed meanwhile, and none longer than that
\* (BufCachedReader.Read, ReadCache, copyEarly and Buffer.Free).
THEOREM BuffersLive == FairSpec => []LiveWhileNeeded
<1>1. ASSUME Inv PROVE LiveWhileNeeded
  <2>1. \A i \in Chain : BufferOK(i)
    BY <1>1 DEF Inv, BufferInv
  <2>2. pc = "panic" => ~hasBase \/ snatched # {}
    BY <1>1 DEF Inv, ControlInv
  <2> QED BY <2>1, <2>2 DEF BufferOK, Needed, LiveWhileNeeded
<1> QED BY InvAlways, <1>1, PTL

\* The user and the destinations get the stream in its order and without gaps, through
\* any number of reads, handshakes and copies, as long as none of them has failed,
\* panicked or taken an io.EOF for the end (BufCachedReader.Read and Copy).
THEOREM StreamIsKept == FairSpec => []StreamKept
<1>1. ASSUME Inv PROVE StreamKept
  <2>1. PICK c \in Nat : c <= Total /\ Cut(c)
    BY <1>1 DEF Inv
  <2>2. Stream(c) /\ Tally(c)
    BY <2>1 DEF Cut
  <2>3. \A a, b \in 1 .. Len(got) : a < b => got[a] < got[b]
    BY <2>2 DEF Stream, Ordered
  <2>4. err \in {"nil", "handshake"} /\ ~broken /\ hasBase /\ pc # "panic" /\ rest # "EOF" => lost = {}
    BY <2>2 DEF Tally, Whole
  <2>5. lost = {} => got = Units(1, Len(got)) /\ Len(got) = c
    <3> SUFFICES ASSUME lost = {} PROVE got = Units(1, Len(got)) /\ Len(got) = c
      OBVIOUS
    <3>1. got = Units(1, c)
      BY <2>2 DEF Stream
    <3>2. Len(Units(1, c)) = c
      BY UnitsType
    <3> QED BY <3>1, <3>2
  <2>6. pc = "done" /\ err = "nil" /\ ~broken /\ rest # "EOF" => Len(got) = Total
    BY <2>2, <2>4, <2>5 DEF Tally, Complete
  <2> QED BY <2>3, <2>4, <2>5, <2>6 DEF StreamKept
<1> QED BY InvAlways, <1>1, PTL

\* The n of Copy, its counters and those of the reader say what was read and written,
\* but for what CountsTrue names (Copy, copyEarly, copyPure and counter.Reader).
THEOREM CountsAreTrue == FairSpec => []CountsTrue
<1>1. ASSUME Inv PROVE CountsTrue
  <2>1. PICK c \in Nat : c <= Total /\ Cut(c)
    BY <1>1 DEF Inv
  <2>2. CountInv /\ SetUpOK
    BY <1>1 DEF Inv
  <2>3. ToldOK(c) /\ Len(got) + Cardinality(lost) = c
    BY <2>1 DEF Cut, Tally, Stream
  <2>4. wrapped.outer /\ ~again =>
          LET gone == Len(got) + Cardinality(lost)
          IN  /\ told.outer <= gone
              /\ lost = {} /\ err # "writeCache" /\ ~broken => told.outer = gone
    BY <2>3 DEF ToldOK, Written
  <2>5. wrapped.inner => /\ told.inner <= BaseUnits - baseUnread
                         /\ lost = {} => told.inner = BaseUnits - baseUnread
    BY <2>3 DEF ToldOK
  <2> QED BY <2>2, <2>4, <2>5 DEF CountInv, CountsTrue
<1> QED BY InvAlways, <1>1, PTL
===============================================================================
