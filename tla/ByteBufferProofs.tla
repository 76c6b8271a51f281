---------------------------- MODULE ByteBufferProofs ----------------------------
(***************************************************************************)
(* What the buffers and their allocator keep, for every number of buffers  *)
(* and chunks, all sizes and all classes: the cursors of a buffer stay in  *)
(* order and inside its memory, no operation panics with a buffer that was *)
(* not misused, and a chunk is in one place.                               *)
(*                                                                         *)
(* The classes are powers of two, and the provers know nothing of powers.  *)
(* Their laws are derived here: 2^n counts the subsets of 1 .. n, and a    *)
(* set of counterexamples, if not empty, would have a smallest member.     *)
(***************************************************************************)
EXTENDS ByteBuffer, FiniteSetTheorems, TLAPS

\* A set of numbers that is not empty has a smallest one.
LEMMA SmallestOf ==
  ASSUME NEW S \in SUBSET Nat, S # {}
  PROVE  \E x \in S : \A y \in S : x <= y
<1>1. \A x, y \in Nat : y < x => <<y, x>> \in OpToRel(<, Nat)
  BY DEF OpToRel
<1>2. PICK x \in S : \A y \in S : <<y, x>> \notin OpToRel(<, Nat)
  BY NatLessThanWellFounded, WFMin
<1>3. \A y \in S : ~(y < x)
  BY <1>1, <1>2
<1> QED
  BY <1>3

\* 2^n is the number of the subsets of 1 .. n.
LEMMA PowerCounts ==
  ASSUME NEW n \in Nat
  PROVE  /\ 2 ^ n \in Nat /\ IsFiniteSet(SUBSET (1 .. n))
         /\ Cardinality(SUBSET (1 .. n)) = 2 ^ n
<1>1. IsFiniteSet(1 .. n) /\ Cardinality(1 .. n) = n
  <2>1. Cardinality(1 .. n) = IF 1 > n THEN 0 ELSE n - 1 + 1
    BY FS_Interval
  <2> QED BY <2>1, FS_Interval
<1> QED
  BY <1>1, FS_SUBSET, FS_CardinalityType

\* One bit more doubles it: the subsets without the new element, and those with it.
LEMMA PowerDoubles ==
  ASSUME NEW n \in Nat
  PROVE  2 ^ (n + 1) = 2 * 2 ^ n
<1> DEFINE Small == SUBSET (1 .. n)
           Large == {T \in SUBSET (1 .. n + 1) : n + 1 \in T}
           f     == [T \in Small |-> T \cup {n + 1}]
<1>1. SUBSET (1 .. n + 1) = Small \cup Large /\ Small \cap Large = {}
  <2>1. 1 .. n + 1 = 1 .. n \cup {n + 1} /\ n + 1 \notin 1 .. n
    OBVIOUS
  <2> QED BY <2>1
<1>2. ExistsBijection(Small, Large)
  <2>1. \A T \in Small : T \cup {n + 1} \in Large
    OBVIOUS
  <2>2. \A T \in Small : n + 1 \notin T
    OBVIOUS
  <2>3. \A T \in Large : T \ {n + 1} \in Small /\ (T \ {n + 1}) \cup {n + 1} = T
    OBVIOUS
  <2> HIDE DEF Small, Large
  <2>4. f \in [Small -> Large]
    BY <2>1
  <2>5. ASSUME NEW T \in Small, NEW U \in Small, f[T] = f[U] PROVE T = U
    <3>1. T \cup {n + 1} = U \cup {n + 1} /\ n + 1 \notin T /\ n + 1 \notin U
      BY <2>2, <2>5
    <3> QED BY <3>1
  <2>6. \A U \in Large : \E T \in Small : f[T] = U
    BY <2>3
  <2> HIDE DEF f
  <2> QED BY <2>4, <2>5, <2>6 DEF ExistsBijection, Bijection, Injection, Surjection, IsInjective
<1> HIDE DEF f
<1>3. PICK p \in Nat : p = 2 ^ n /\ IsFiniteSet(Small) /\ Cardinality(Small) = p
  BY PowerCounts
<1> HIDE DEF Small, Large
<1>4. IsFiniteSet(Large) /\ Cardinality(Large) = p
  BY <1>2, <1>3, FS_Bijection
<1>5. Cardinality(Small \cup Large)
        = Cardinality(Small) + Cardinality(Large) - Cardinality(Small \cap Large)
  BY <1>3, <1>4, FS_Union
<1>6. Cardinality(Small \cap Large) = 0
  BY <1>1, FS_EmptySet
<1>7. Cardinality(Small \cup Large) = 2 * p
  BY <1>3, <1>4, <1>5, <1>6
<1>8. Cardinality(SUBSET (1 .. n + 1)) = 2 ^ (n + 1)
  BY n + 1 \in Nat, PowerCounts
<1> QED
  BY <1>1, <1>3, <1>7, <1>8

\* A larger exponent gives a larger power, at least twice as large.
LEMMA PowerGrows ==
  ASSUME NEW i \in Nat, NEW j \in Nat
  PROVE  /\ 2 ^ i \in Nat /\ 2 ^ i > 0
         /\ i <= j => 2 ^ i <= 2 ^ j
         /\ i < j => 2 * 2 ^ i <= 2 ^ j
<1>1. \A n \in Nat : 2 ^ n \in Nat /\ 2 ^ (n + 1) = 2 * 2 ^ n
  BY PowerCounts, PowerDoubles
<1>2. 2 ^ 0 = 1
  OBVIOUS
<1> DEFINE p == [n \in Nat |-> 2 ^ n]
<1>3. p \in [Nat -> Nat] /\ p[0] = 1 /\ \A n \in Nat : p[n + 1] = 2 * p[n] /\ p[n] = 2 ^ n
  BY <1>1, <1>2
<1> HIDE DEF p
<1>4. ASSUME NEW k \in Nat PROVE p[k] > 0
  <2> DEFINE Bad == {n \in Nat : ~(p[n] > 0)}
  <2> SUFFICES ASSUME Bad # {} PROVE FALSE
    OBVIOUS
  <2>1. PICK n \in Bad : \A m \in Bad : n <= m
    BY SmallestOf
  <2>2. n \in Nat /\ 0 \notin Bad
    BY <1>3
  <2> HIDE DEF Bad
  <2>3. n - 1 \in Nat /\ n - 1 \notin Bad
    BY <2>1, <2>2
  <2> USE DEF Bad
  <2>4. p[n - 1 + 1] = 2 * p[n - 1] /\ p[n - 1] > 0 /\ p[n - 1] \in Nat
    BY <1>3, <2>3
  <2> QED BY <2>1, <2>2, <2>4
<1>5. ASSUME NEW k \in Nat PROVE p[i] <= p[i + k]
  <2> DEFINE Bad == {n \in Nat : ~(p[i] <= p[i + n])}
  <2> SUFFICES ASSUME Bad # {} PROVE FALSE
    OBVIOUS
  <2>1. PICK n \in Bad : \A m \in Bad : n <= m
    BY SmallestOf
  <2>2. n \in Nat /\ 0 \notin Bad
    BY <1>3, i + 0 = i
  <2> HIDE DEF Bad
  <2>3. n - 1 \in Nat /\ n - 1 \notin Bad
    BY <2>1, <2>2
  <2> USE DEF Bad
  <2>4. /\ p[i + (n - 1) + 1] = 2 * p[i + (n - 1)] /\ i + (n - 1) + 1 = i + n
        /\ p[i] <= p[i + (n - 1)] /\ p[i] \in Nat /\ p[i + (n - 1)] \in Nat
    BY <1>3, <2>2, <2>3
  <2> QED BY <2>1, <2>4
<1>6. ASSUME i <= j PROVE p[i] <= p[j]
  BY <1>5, <1>6, j - i \in Nat, i + (j - i) = j
<1>7. ASSUME i < j PROVE 2 * p[i] <= p[j]
  <2>1. j - 1 - i \in Nat /\ i + (j - 1 - i) = j - 1 /\ j - 1 \in Nat /\ j - 1 + 1 = j
    BY <1>7
  <2>2. p[i] <= p[j - 1] /\ p[j] = 2 * p[j - 1] /\ p[j - 1] \in Nat /\ p[i] \in Nat
    BY <1>3, <1>5, <2>1
  <2> QED BY <2>2
<1> QED
  BY <1>3, <1>4, <1>6, <1>7

\* Msb finds the position of the leading bit.
LEMMA MsbCorrect ==
  ASSUME NEW x \in Nat, x > 0, x <= 2 ^ MaxBits
  PROVE  Msb(x) \in 0 .. MaxBits /\ 2 ^ Msb(x) <= x /\ x < 2 ^ (Msb(x) + 1)
<1>1. MaxBits \in Nat
  BY BitsAssumption
<1> DEFINE Above == {i \in Nat : x < 2 ^ (i + 1)}
<1>2. MaxBits \in Above
  BY <1>1, PowerGrows, PowerDoubles
<1>3. PICK i \in Above : \A j \in Above : i <= j
  BY <1>2, SmallestOf
<1>4. i \in 0 .. MaxBits /\ x < 2 ^ (i + 1)
  BY <1>1, <1>2, <1>3
<1>5. 2 ^ i <= x
  <2>1. CASE i = 0
    BY <2>1
  <2>2. CASE i # 0
    <3>1. i - 1 \in Nat /\ i - 1 \notin Above /\ i - 1 + 1 = i
      BY <1>3, <2>2
    <3> QED BY <3>1, PowerGrows
  <2> QED BY <2>1, <2>2
<1> QED
  BY <1>4, <1>5 DEF Msb

\* A power of two is in the class of its exponent: Put finds the class Get took from.
LEMMA MsbOfPower ==
  ASSUME NEW i \in Classes
  PROVE  2 ^ i > 0 /\ 2 ^ i \in Nat /\ Msb(2 ^ i) = i
<1>1. i \in Nat /\ i <= MaxBits /\ MaxBits \in Nat
  BY BitsAssumption DEF Classes
<1>2. PICK x \in Nat : x = 2 ^ i /\ x > 0 /\ x <= 2 ^ MaxBits
  BY <1>1, PowerGrows
<1>3. PICK m \in Nat : m = Msb(x) /\ 2 ^ m <= x /\ x < 2 ^ (m + 1)
  BY <1>2, MsbCorrect
<1>4. ~(i < m)
  <2>1. i < m => 2 * x <= 2 ^ m
    BY <1>1, <1>2, PowerGrows
  <2>2. 2 ^ m \in Nat
    BY PowerGrows
  <2> QED BY <1>2, <1>3, <2>1, <2>2
<1>5. ~(m < i)
  <2>1. m < i => 2 ^ (m + 1) <= x
    BY <1>1, <1>2, PowerGrows, m + 1 \in Nat
  <2>2. 2 ^ (m + 1) \in Nat
    BY PowerGrows, m + 1 \in Nat
  <2> QED BY <1>2, <1>3, <2>1, <2>2
<1> QED
  BY <1>1, <1>2, <1>3, <1>4, <1>5

\* Two classes have chunks of different lengths.
LEMMA ClassesDiffer ==
  ASSUME NEW i \in Classes, NEW j \in Classes, 2 ^ i = 2 ^ j
  PROVE  i = j
BY MsbOfPower

\* Get's class is long enough, and less than twice too long unless it is the smallest.
LEMMA GetClassFits ==
  ASSUME NEW x \in 1 .. MaxManaged
  PROVE  /\ GetClass(x) \in Classes
         /\ 2 ^ GetClass(x) \in Nat /\ x <= 2 ^ GetClass(x)
         /\ 2 ^ GetClass(x) < 2 * x \/ 2 ^ GetClass(x) = 2 ^ MinBits
<1>1. /\ MinBits \in Nat /\ MaxBits \in Nat /\ MinBits <= MaxBits
      /\ x \in Nat /\ x > 0 /\ MaxManaged \in Nat
  BY BitsAssumption, SizeAssumption
<1>2. x <= 2 ^ MaxBits /\ 2 ^ MaxBits \in Nat /\ 2 ^ MinBits \in Nat
  BY <1>1, PowerGrows, SizeAssumption
<1>3. CASE x <= 2 ^ MinBits
  BY <1>1, <1>2, <1>3 DEF GetClass, Classes
<1>4. CASE ~(x <= 2 ^ MinBits)
  <2>1. PICK m \in Nat : m = Msb(x) /\ m <= MaxBits /\ 2 ^ m <= x /\ x < 2 ^ (m + 1)
    BY <1>1, <1>2, MsbCorrect
  <2>2. /\ 2 ^ m \in Nat /\ 2 ^ (m + 1) \in Nat /\ 2 ^ (m + 1) = 2 * 2 ^ m /\ m + 1 \in Nat
        /\ m + 1 <= MinBits => 2 ^ (m + 1) <= 2 ^ MinBits
        /\ m = MaxBits => 2 ^ m = 2 ^ MaxBits
    BY <1>1, <2>1, PowerGrows, PowerDoubles, m + 1 \in Nat
  <2>3. m >= MinBits
    BY <1>1, <1>2, <1>4, <2>1, <2>2
  <2>4. CASE x = 2 ^ m
    <3>1. GetClass(x) = m
      BY <1>4, <2>1, <2>4 DEF GetClass
    <3> QED BY <1>1, <2>1, <2>2, <2>3, <2>4, <3>1 DEF Classes
  <2>5. CASE x # 2 ^ m
    <3>1. GetClass(x) = m + 1
      BY <1>4, <2>1, <2>5 DEF GetClass
    <3>2. m # MaxBits
      BY <1>2, <2>1, <2>2, <2>5
    <3>3. m + 1 \in Classes
      BY <1>1, <2>1, <2>3, <3>2 DEF Classes
    <3> QED BY <1>1, <2>1, <2>2, <2>5, <3>1, <3>3
  <2> QED BY <2>4, <2>5
<1> QED
  BY <1>3, <1>4

-----------------------------------------------------------------------------
\* A chunk has one owner and the length of its class; in a buffer it is long enough,
\* and not much too long.
MemoryInv ==
  /\ \A b1, b2 \in Buffers : data[b1] \in Chunks /\ data[b1] = data[b2] => b1 = b2
  /\ \A i \in Classes : \A c \in bin[i] : capOf[c] = 2 ^ i /\ \A b \in Buffers : data[b] # c
  /\ \A b \in Buffers : data[b] \in Chunks =>
       /\ \E i \in Classes : capOf[data[b]] = 2 ^ i
       /\ len[b] <= capOf[data[b]]
       /\ capOf[data[b]] < 2 * len[b] \/ capOf[data[b]] = 2 ^ MinBits

\* A buffer that has memory never claims more than it has, even a misused one: Reset
\* makes it sound again.  Only a misused buffer can panic.
CursorInv ==
  /\ \A b \in Buffers : data[b] # "nil" => size[b] <= len[b]
  /\ \A b \in Buffers \ spoiled : w[b] <= size[b] /\ size[b] <= len[b]
  /\ panicked \in Buffers => panicked \in spoiled

BufferInv == TypeOK /\ MemoryInv /\ CursorInv

\* The length of the memory behind a buffer is a number, and no less than len(b.data).
LEMMA LongEnough ==
  ASSUME BufferInv, NEW b \in Buffers
  PROVE  Capacity(b) \in Nat /\ len[b] \in Nat /\ size[b] \in Nat /\ len[b] <= Capacity(b)
<1>1. len[b] \in Nat /\ size[b] \in Nat
  BY SizeAssumption DEF BufferInv, TypeOK
<1>2. CASE data[b] \in Chunks
  <2>1. PICK i \in Classes : capOf[data[b]] = 2 ^ i
    BY <1>2 DEF BufferInv, MemoryInv
  <2> QED BY <1>1, <1>2, <2>1, MsbOfPower DEF BufferInv, MemoryInv, Capacity
<1>3. CASE data[b] \notin Chunks
  BY <1>1, <1>3 DEF Capacity
<1> QED
  BY <1>2, <1>3

\* A buffer whose cursors are in order can be sliced at them, and at its size.
LEMMA SoundIsSliceable ==
  ASSUME BufferInv, NEW b \in Buffers \ spoiled, panicked = "no"
  PROVE  /\ Sliceable(b, r[b], w[b]) /\ Sliceable(b, w[b], size[b])
         /\ \A k \in Nat : w[b] + k <= size[b] => Sliceable(b, w[b], w[b] + k)
         /\ w[b] # size[b] => w[b] < len[b]
         /\ r[b] # w[b] => r[b] < len[b]
<1>1. /\ r[b] \in Nat /\ w[b] \in Nat /\ r[b] <= w[b] /\ w[b] <= size[b] /\ size[b] <= len[b]
  BY DEF BufferInv, TypeOK, CursorInv
<1> QED
  BY <1>1, LongEnough DEF Sliceable

\* A chunk from the class i replaces the memory of a buffer.
LEMMA ManagedKept ==
  ASSUME BufferInv, NEW b \in Buffers, NEW c \in Chunks, NEW x \in Sizes \cap 1 .. MaxManaged,
         Get(c, x), Become(b, c, x, 0), panicked = "no"
  PROVE  BufferInv'
<1> PICK i \in Classes : i = GetClass(x)
  BY GetClassFits
<1>1. /\ 2 ^ i \in Nat /\ x <= 2 ^ i /\ (2 ^ i < 2 * x \/ 2 ^ i = 2 ^ MinBits) /\ x \in Nat /\ x > 0
      /\ "nil" \notin Chunks
  BY GetClassFits, NamesAssumption
<1>2. /\ c \in bin[i] \/ Unused(c)
      /\ bin' = [bin EXCEPT ![i] = @ \ {c}] /\ capOf' = [capOf EXCEPT ![c] = 2 ^ i]
  BY DEF Get
<1>3. /\ \A a \in Buffers : data[a] # c
      /\ \A j \in Classes : c \notin bin'[j]
  <2>1. CASE Unused(c)
    BY <1>2, <2>1 DEF Unused, BufferInv, TypeOK
  <2>2. CASE c \in bin[i]
    <3>1. \A j \in Classes : c \in bin[j] => j = i
      BY <2>2, ClassesDiffer DEF BufferInv, MemoryInv
    <3> QED BY <1>2, <2>2, <3>1 DEF BufferInv, MemoryInv, TypeOK
  <2> QED BY <1>2, <2>1, <2>2
<1>4. TypeOK'
  <2>1. 0 \in Sizes /\ 0 \in Nat /\ 0 \in 0 .. MaxRef
    BY SizeAssumption
  <2>2. /\ st' \in [Buffers -> {"none", "user", "shelf"}]
        /\ data' \in [Buffers -> Chunks \cup {"own", "nil"}]
        /\ len' \in [Buffers -> Sizes] /\ size' \in [Buffers -> Sizes]
        /\ r' \in [Buffers -> Nat] /\ w' \in [Buffers -> Nat]
        /\ ref' \in [Buffers -> 0 .. MaxRef] /\ spoiled' \in SUBSET Buffers
        /\ panicked' = panicked
    BY <2>1 DEF Become, BufferInv, TypeOK
  <2>3. \A a \in Buffers : r'[a] <= w'[a]
    BY DEF Become, BufferInv, TypeOK
  <2>4. capOf' \in [Chunks -> {0} \cup {2 ^ j : j \in Classes}] /\ bin' \in [Classes -> SUBSET Chunks]
    BY <1>2 DEF BufferInv, TypeOK
  <2> QED BY <2>2, <2>3, <2>4 DEF BufferInv, TypeOK
<1>5. /\ data'[b] = c /\ len'[b] = x /\ size'[b] = x /\ w'[b] = 0 /\ capOf'[c] = 2 ^ i
      /\ \A a \in Buffers \ {b} : /\ data'[a] = data[a] /\ len'[a] = len[a]
                                  /\ size'[a] = size[a] /\ w'[a] = w[a]
      /\ \A d \in Chunks \ {c} : capOf'[d] = capOf[d]
      /\ \A j \in Classes : bin'[j] \subseteq bin[j] \ {c}
      /\ spoiled' = spoiled \ {b} /\ panicked' = panicked
  <2>1. \A j \in Classes : bin'[j] \subseteq bin[j]
    BY <1>2 DEF BufferInv, TypeOK
  <2> QED BY <1>2, <1>3, <2>1 DEF Become, BufferInv, TypeOK
<1>6. MemoryInv'
  <2>1. \A b1, b2 \in Buffers : data'[b1] \in Chunks /\ data'[b1] = data'[b2] => b1 = b2
    BY <1>3, <1>5 DEF BufferInv, MemoryInv
  <2>2. ASSUME NEW j \in Classes, NEW d \in bin'[j]
        PROVE  capOf'[d] = 2 ^ j /\ \A a \in Buffers : data'[a] # d
    <3>1. d \in bin[j] /\ d # c /\ d \in Chunks
      BY <1>5, <2>2 DEF BufferInv, TypeOK
    <3> QED BY <1>5, <3>1 DEF BufferInv, MemoryInv
  <2>3. ASSUME NEW a \in Buffers, data'[a] \in Chunks
        PROVE  /\ \E j \in Classes : capOf'[data'[a]] = 2 ^ j
               /\ len'[a] <= capOf'[data'[a]]
               /\ capOf'[data'[a]] < 2 * len'[a] \/ capOf'[data'[a]] = 2 ^ MinBits
    <3>1. CASE a = b
      BY <1>1, <1>5, <3>1
    <3>2. CASE a # b
      <4>1. data'[a] = data[a] /\ data[a] \in Chunks \ {c} /\ len'[a] = len[a]
        BY <1>3, <1>5, <2>3, <3>2
      <4> QED BY <1>5, <4>1 DEF BufferInv, MemoryInv
    <3> QED BY <3>1, <3>2
  <2> QED BY <2>1, <2>2, <2>3 DEF MemoryInv
<1>7. CursorInv'
  <2>1. size'[b] <= len'[b] /\ w'[b] <= size'[b]
    BY <1>1, <1>5
  <2>2. panicked' \notin Buffers
    BY <1>5, NamesAssumption
  <2> QED BY <1>5, <2>1, <2>2 DEF BufferInv, CursorInv
<1> QED
  BY <1>4, <1>6, <1>7 DEF BufferInv

\* A buffer gets memory of its own, or none.
LEMMA OwnKept ==
  ASSUME BufferInv, NEW b \in Buffers, NEW d \in {"own", "nil"}, NEW x \in Sizes, NEW f \in 0 .. x,
         Become(b, d, x, f), UNCHANGED <<capOf, bin>>, panicked = "no"
  PROVE  BufferInv'
<1>1. x \in Nat /\ f \in Nat /\ 0 \in 0 .. MaxRef /\ d \notin Chunks /\ "no" \notin Buffers
  BY SizeAssumption, NamesAssumption
<1>2. /\ data'[b] = d /\ len'[b] = x /\ size'[b] = x /\ w'[b] = f /\ r'[b] = 0
      /\ \A a \in Buffers \ {b} : /\ data'[a] = data[a] /\ len'[a] = len[a]
                                  /\ size'[a] = size[a] /\ w'[a] = w[a] /\ r'[a] = r[a]
      /\ spoiled' = spoiled \ {b} /\ panicked' = "no"
  BY DEF Become, BufferInv, TypeOK
<1>3. TypeOK'
  <2>1. /\ st' \in [Buffers -> {"none", "user", "shelf"}]
        /\ data' \in [Buffers -> Chunks \cup {"own", "nil"}]
        /\ len' \in [Buffers -> Sizes] /\ size' \in [Buffers -> Sizes]
        /\ r' \in [Buffers -> Nat] /\ w' \in [Buffers -> Nat]
        /\ ref' \in [Buffers -> 0 .. MaxRef] /\ spoiled' \in SUBSET Buffers
    BY <1>1 DEF Become, BufferInv, TypeOK
  <2>2. \A a \in Buffers : r'[a] <= w'[a]
    BY <1>1, <1>2 DEF BufferInv, TypeOK
  <2> QED BY <1>2, <2>1, <2>2 DEF BufferInv, TypeOK
<1>4. MemoryInv'
  BY <1>1, <1>2 DEF BufferInv, MemoryInv, TypeOK
<1>5. CursorInv'
  BY <1>1, <1>2 DEF BufferInv, CursorInv
<1> QED
  BY <1>3, <1>4, <1>5 DEF BufferInv

\* NewSize and As: a buffer whose name is free.
LEMMA MadeKept ==
  ASSUME BufferInv, NEW b \in Buffers, NEW x \in Sizes, MakeSize(b, x) \/ As(b, x), panicked = "no"
  PROVE  BufferInv'
<1>1. x \in Nat /\ 0 \in 0 .. x /\ x \in 0 .. x
  BY SizeAssumption
<1>2. ASSUME NEW f \in {0, x}, Become(b, IF x = 0 THEN "nil" ELSE "own", x, f),
             UNCHANGED <<capOf, bin>>
      PROVE  BufferInv'
  BY <1>1, <1>2, OwnKept
<1>3. ASSUME x \in 1 .. MaxManaged, NEW c \in Chunks, Get(c, x), Become(b, c, x, 0)
      PROVE  BufferInv'
  BY <1>3, ManagedKept
<1> QED
  BY <1>2, <1>3 DEF MakeSize, As

\* Free gives a chunk to the class it came from, and its buffer has no memory any more.
LEMMA FreeKept ==
  ASSUME BufferInv, NEW b \in Buffers, Free(b), panicked = "no"
  PROVE  BufferInv'
<1>1. /\ "nil" \notin Chunks /\ "no" \notin Buffers /\ 0 \in Sizes
      /\ UNCHANGED <<st, size, r, w, ref, capOf, panicked>>
      /\ spoiled' = spoiled \cup {b}
      /\ data'[b] = "nil" /\ \A a \in Buffers \ {b} : data'[a] = data[a] /\ len'[a] = len[a]
  BY NamesAssumption, SizeAssumption
     DEF Free, DataAfterFree, cursorVars, BufferInv, TypeOK
<1>2. /\ bin' \in [Classes -> SUBSET Chunks]
      /\ \A i \in Classes : \A c \in bin'[i] :
           c \in bin[i] \/ (c = data[b] /\ c \in Chunks /\ capOf[c] = 2 ^ i)
  <2>1. CASE data[b] \in Chunks
    <3>1. PICK i \in Classes : capOf[data[b]] = 2 ^ i
      BY <2>1 DEF BufferInv, MemoryInv
    <3>2. PutClass(data[b]) = i
      BY <3>1, MsbOfPower DEF PutClass
    <3>3. bin' = [bin EXCEPT ![i] = @ \cup {data[b]}]
      BY <2>1, <3>2 DEF Free
    <3> QED BY <2>1, <3>1, <3>3 DEF BufferInv, TypeOK
  <2>2. CASE data[b] \notin Chunks
    BY <2>2 DEF Free, BufferInv, TypeOK
  <2> QED BY <2>1, <2>2
<1>3. TypeOK'
  <2>1. data' \in [Buffers -> Chunks \cup {"own", "nil"}] /\ len' \in [Buffers -> Sizes]
    BY <1>1 DEF Free, DataAfterFree, BufferInv, TypeOK
  <2> QED BY <1>1, <1>2, <2>1 DEF BufferInv, TypeOK
<1>4. MemoryInv'
  <2>1. \A b1, b2 \in Buffers : data'[b1] \in Chunks /\ data'[b1] = data'[b2] => b1 = b2
    BY <1>1 DEF BufferInv, MemoryInv
  <2>2. ASSUME NEW i \in Classes, NEW c \in bin'[i]
        PROVE  capOf'[c] = 2 ^ i /\ \A a \in Buffers : data'[a] # c
    <3>1. CASE c \in bin[i]
      <4>1. c \in Chunks /\ capOf[c] = 2 ^ i /\ \A a \in Buffers : data[a] # c
        BY <3>1 DEF BufferInv, MemoryInv, TypeOK
      <4> QED BY <1>1, <4>1
    <3>2. CASE c = data[b] /\ c \in Chunks /\ capOf[c] = 2 ^ i
      BY <1>1, <3>2 DEF BufferInv, MemoryInv
    <3> QED BY <1>2, <2>2, <3>1, <3>2
  <2>3. ASSUME NEW a \in Buffers, data'[a] \in Chunks
        PROVE  /\ \E j \in Classes : capOf'[data'[a]] = 2 ^ j
               /\ len'[a] <= capOf'[data'[a]]
               /\ capOf'[data'[a]] < 2 * len'[a] \/ capOf'[data'[a]] = 2 ^ MinBits
    <3>1. a # b /\ data'[a] = data[a] /\ len'[a] = len[a]
      BY <1>1, <2>3
    <3> QED BY <1>1, <2>3, <3>1 DEF BufferInv, MemoryInv
  <2> QED BY <2>1, <2>2, <2>3 DEF MemoryInv
<1>5. CursorInv'
  BY <1>1 DEF BufferInv, CursorInv
<1> QED
  BY <1>3, <1>4, <1>5 DEF BufferInv

\* A step that leaves the memory alone needs to keep the types and the cursors.
LEMMA MemoryKept ==
  ASSUME BufferInv, UNCHANGED memoryVars
  PROVE  /\ MemoryInv'
         /\ data' \in [Buffers -> Chunks \cup {"own", "nil"}] /\ len' \in [Buffers -> Sizes]
         /\ capOf' \in [Chunks -> {0} \cup {2 ^ i : i \in Classes}]
         /\ bin' \in [Classes -> SUBSET Chunks]
BY DEF BufferInv, MemoryInv, TypeOK, memoryVars

\* A write of k bytes that fit.
LEMMA AdvanceKept ==
  ASSUME BufferInv, NEW b \in Buffers, NEW k \in Nat, Advance(b, k), panicked = "no",
         b \in spoiled \/ w[b] + k <= size[b]
  PROVE  BufferInv'
<1>1. /\ UNCHANGED <<data, len, st, size, r, ref, spoiled, panicked>> /\ "no" \notin Buffers
      /\ w' = [w EXCEPT ![b] = @ + k] /\ UNCHANGED memoryVars
  BY NamesAssumption DEF Advance, memoryVars
<1>2. w' \in [Buffers -> Nat] /\ w'[b] = w[b] + k /\ \A a \in Buffers \ {b} : w'[a] = w[a]
  BY <1>1 DEF BufferInv, TypeOK
<1>3. \A a \in Buffers : r'[a] <= w'[a]
  BY <1>1, <1>2 DEF BufferInv, TypeOK
<1>4. TypeOK'
  BY <1>1, <1>2, <1>3, MemoryKept DEF BufferInv, TypeOK
<1>5. CursorInv'
  BY <1>1, <1>2 DEF BufferInv, CursorInv
<1> QED
  BY <1>1, <1>4, <1>5, MemoryKept DEF BufferInv

\* A read of k bytes, or of what there is.
LEMMA DiscardKept ==
  ASSUME BufferInv, NEW b \in Buffers, NEW k \in Nat, Discard(b, k), panicked = "no"
  PROVE  BufferInv'
<1>1. /\ UNCHANGED <<data, len, st, size, w, ref, spoiled, panicked>> /\ "no" \notin Buffers
      /\ r' = [r EXCEPT ![b] = @ + Discarded(b, k)] /\ UNCHANGED memoryVars
  BY NamesAssumption DEF Discard, memoryVars
<1>2. r[b] \in Nat /\ w[b] \in Nat /\ r[b] <= w[b]
  BY DEF BufferInv, TypeOK
<1>3. Discarded(b, k) \in Nat /\ r[b] + Discarded(b, k) <= w[b]
  BY <1>2 DEF Discarded, Smaller
<1>4. r' \in [Buffers -> Nat] /\ \A a \in Buffers : r'[a] <= w[a]
  BY <1>1, <1>3 DEF BufferInv, TypeOK
<1>5. TypeOK'
  BY <1>1, <1>4, MemoryKept DEF BufferInv, TypeOK
<1>6. CursorInv'
  BY <1>1 DEF BufferInv, CursorInv
<1> QED
  BY <1>1, <1>5, <1>6, MemoryKept DEF BufferInv

\* A panic with a misused buffer, or in GetSize.
LEMMA PanicKept ==
  ASSUME BufferInv, NEW b \in Buffers \cup {"GetSize"}, Panic(b), b \in Buffers => b \in spoiled
  PROVE  BufferInv'
<1>1. /\ UNCHANGED <<data, len, st, size, r, w, ref, spoiled>> /\ panicked' = b
      /\ UNCHANGED memoryVars
  BY DEF Panic, memoryVars, cursorVars
<1>2. TypeOK' /\ CursorInv'
  BY <1>1, MemoryKept DEF BufferInv, TypeOK, CursorInv
<1> QED
  BY <1>1, <1>2, MemoryKept DEF BufferInv

\* Reset, and a buffer from the shelf: empty, and sound if it has memory.
LEMMA EmptiedKept ==
  ASSUME BufferInv, NEW b \in Buffers, NEW x \in Sizes, x = size[b] \/ x <= len[b],
         st' = [st EXCEPT ![b] = "user"],
         size' = [size EXCEPT ![b] = x], r' = [r EXCEPT ![b] = 0], w' = [w EXCEPT ![b] = 0],
         spoiled' = IF data[b] = "nil" THEN spoiled ELSE spoiled \ {b},
         UNCHANGED <<ref, memoryVars, panicked>>, panicked = "no"
  PROVE  BufferInv'
<1>1. x \in Nat /\ "no" \notin Buffers /\ UNCHANGED <<data, len>>
  BY SizeAssumption, NamesAssumption DEF memoryVars
<1>2. /\ size'[b] = x /\ r'[b] = 0 /\ w'[b] = 0
      /\ \A a \in Buffers \ {b} : size'[a] = size[a] /\ r'[a] = r[a] /\ w'[a] = w[a]
      /\ spoiled' \subseteq spoiled /\ \A a \in Buffers \ {b} : a \in spoiled => a \in spoiled'
  BY DEF BufferInv, TypeOK
<1>3. TypeOK'
  <2>1. /\ st' \in [Buffers -> {"none", "user", "shelf"}] /\ size' \in [Buffers -> Sizes]
        /\ r' \in [Buffers -> Nat] /\ w' \in [Buffers -> Nat] /\ spoiled' \in SUBSET Buffers
    BY DEF BufferInv, TypeOK
  <2>2. \A a \in Buffers : r'[a] <= w'[a]
    BY <1>2 DEF BufferInv, TypeOK
  <2> QED BY <2>1, <2>2, MemoryKept DEF BufferInv, TypeOK
<1>4. CursorInv'
  <2>1. data[b] # "nil" \/ b \notin spoiled => size'[b] <= len[b]
    BY <1>2 DEF BufferInv, CursorInv
  <2>2. b \notin spoiled' => data[b] # "nil" \/ b \notin spoiled
    OBVIOUS
  <2> QED BY <1>1, <1>2, <2>1, <2>2 DEF BufferInv, CursorInv
<1> QED
  BY <1>3, <1>4, MemoryKept DEF BufferInv

\* Every call keeps the cursors in order and the chunks apart.
LEMMA BufferStep ==
  ASSUME BufferInv, [Next]_vars
  PROVE  BufferInv'
<1>1. CASE UNCHANGED vars
  <2>1. UNCHANGED memoryVars /\ UNCHANGED <<st, data, len, size, r, w, ref, spoiled, panicked>>
    BY <1>1 DEF vars, memoryVars, cursorVars
  <2> QED BY <2>1, MemoryKept DEF BufferInv, TypeOK, CursorInv
<1> SUFFICES ASSUME panicked = "no", NEW b \in Buffers, Step(b) PROVE BufferInv'
  BY <1>1 DEF Next
<1>2. /\ r[b] \in Nat /\ w[b] \in Nat /\ r[b] <= w[b] /\ size[b] \in Nat /\ len[b] \in Nat
      /\ "no" \notin Buffers /\ size[b] \in Sizes /\ PoolSize \in Sizes
  BY LongEnough, SizeAssumption, NamesAssumption DEF BufferInv, TypeOK
<1>3. CASE Free(b)
  BY <1>3, FreeKept
<1>4. ASSUME NEW change \in {1, -1}, Reference(b, change) PROVE BufferInv'
  <2>1. ref' \in [Buffers -> 0 .. MaxRef]
    BY <1>4 DEF Reference, BufferInv, TypeOK
  <2>2. UNCHANGED memoryVars /\ UNCHANGED <<st, data, len, size, r, w, spoiled, panicked>>
    BY <1>4 DEF Reference, memoryVars
  <2> QED BY <2>1, <2>2, MemoryKept DEF BufferInv, TypeOK, CursorInv
<1>5. CASE WriteByte(b)
  <2>1. CASE w[b] < len[b]
    <3>1. Advance(b, 1)
      BY <1>5, <2>1 DEF WriteByte
    <3>2. b \in spoiled \/ w[b] + 1 <= size[b]
      BY <1>2, <1>5 DEF WriteByte, BufferInv, CursorInv
    <3> QED BY <3>1, <3>2, AdvanceKept
  <2>2. CASE ~(w[b] < len[b])
    <3>1. Panic(b) /\ b \in spoiled
      BY <1>5, <2>2, SoundIsSliceable DEF WriteByte
    <3> QED BY <3>1, PanicKept
  <2> QED BY <2>1, <2>2
<1>6. ASSUME NEW k \in Nat, Discard(b, k) PROVE BufferInv'
  BY <1>6, DiscardKept
<1>7. CASE ReadByte(b)
  <2>1. CASE r[b] < len[b]
    BY <1>6, <1>7, <2>1 DEF ReadByte
  <2>2. CASE ~(r[b] < len[b])
    <3>1. Panic(b) /\ b \in spoiled
      BY <1>7, <2>2, SoundIsSliceable DEF ReadByte
    <3> QED BY <3>1, PanicKept
  <2> QED BY <2>1, <2>2
<1>8. CASE Bytes(b)
  BY <1>8, SoundIsSliceable, PanicKept DEF Bytes
<1>9. CASE Reset(b)
  <2>1. st' = [st EXCEPT ![b] = "user"] /\ size' = [size EXCEPT ![b] = size[b]]
    BY <1>9 DEF Reset, BufferInv, TypeOK
  <2> QED BY <1>2, <1>9, <2>1, EmptiedKept DEF Reset
<1>10. CASE PoolPut(b)
  <2>1. UNCHANGED memoryVars /\ UNCHANGED <<data, len, size, r, w, ref, spoiled, panicked>>
    BY <1>10 DEF PoolPut, memoryVars, cursorVars
  <2>2. st' \in [Buffers -> {"none", "user", "shelf"}]
    BY <1>10 DEF PoolPut, BufferInv, TypeOK
  <2> QED BY <2>1, <2>2, MemoryKept DEF BufferInv, TypeOK, CursorInv
<1>11. ASSUME NEW x \in Sizes, x = size[b] \/ x <= len[b], TakeFromShelf(b, x) PROVE BufferInv'
  BY <1>11, EmptiedKept DEF TakeFromShelf
<1>12. ASSUME NEW x \in Sizes, NewSize(b, x) \/ As(b, x) PROVE BufferInv'
  BY <1>12, MadeKept DEF NewSize
<1>13. CASE PoolGet(b)
  BY <1>2, <1>11, <1>12, <1>13 DEF PoolGet
<1>14. ASSUME NEW x \in Sizes, PoolGetSize(b, x) PROVE BufferInv'
  <2>1. ASSUME Panic("GetSize") PROVE BufferInv'
    BY <2>1, NamesAssumption, PanicKept
  <2> QED BY <1>11, <1>12, <1>14, <2>1 DEF PoolGetSize
<1>15. ASSUME NEW x \in Sizes, Resize(b, x) PROVE BufferInv'
  <2>1. /\ UNCHANGED memoryVars /\ UNCHANGED <<data, len, st, r, w, ref, panicked>>
        /\ x <= len[b] /\ spoiled' = IF x < w[b] THEN spoiled \cup {b} ELSE spoiled
    BY <1>15 DEF Resize, memoryVars
  <2>2. /\ size' \in [Buffers -> Sizes] /\ size'[b] = x
        /\ \A a \in Buffers \ {b} : size'[a] = size[a]
    BY <1>15 DEF Resize, BufferInv, TypeOK
  <2>3. TypeOK'
    BY <2>1, <2>2, MemoryKept DEF BufferInv, TypeOK
  <2>4. CursorInv'
    BY <1>2, <2>1, <2>2, SizeAssumption DEF BufferInv, CursorInv
  <2> QED BY <2>1, <2>3, <2>4, MemoryKept DEF BufferInv
<1>16. ASSUME NEW x \in Sizes, Truncated(b, x) PROVE BufferInv'
  <2>1. /\ UNCHANGED memoryVars /\ UNCHANGED <<data, len, st, size, r, ref, panicked>>
        /\ spoiled' = IF x > w[b] - r[b] THEN spoiled \cup {b} ELSE spoiled
        /\ x \in Nat
    BY <1>16, SizeAssumption DEF Truncated, memoryVars
  <2>2. /\ w' \in [Buffers -> Nat] /\ w'[b] = r[b] + x
        /\ \A a \in Buffers \ {b} : w'[a] = w[a]
    BY <1>2, <1>16, <2>1 DEF Truncated, BufferInv, TypeOK
  <2>3. \A a \in Buffers : r'[a] <= w'[a]
    BY <1>2, <2>1, <2>2 DEF BufferInv, TypeOK
  <2>4. TypeOK'
    BY <2>1, <2>2, <2>3, MemoryKept DEF BufferInv, TypeOK
  <2>5. b \notin spoiled' => w'[b] <= w[b] /\ b \notin spoiled
    BY <1>2, <2>1, <2>2
  <2>6. CursorInv'
    BY <1>2, <2>1, <2>2, <2>5 DEF BufferInv, CursorInv
  <2> QED BY <2>1, <2>4, <2>6, MemoryKept DEF BufferInv
<1>17. ASSUME NEW x \in Sizes, Read(b, x) PROVE BufferInv'
  <2>1. CASE Sliceable(b, r[b], w[b])
    BY <1>6, <1>17, <2>1, SizeAssumption DEF Read
  <2>2. CASE ~Sliceable(b, r[b], w[b])
    BY <1>17, <2>2, SoundIsSliceable, PanicKept DEF Read
  <2> QED BY <2>1, <2>2
<1>18. ASSUME NEW x \in Sizes, Write(b, x) PROVE BufferInv'
  <2>1. CASE Sliceable(b, w[b], size[b])
    <3>1. PICK k \in Nat : Advance(b, k) /\ w[b] + k <= size[b]
      <4>1. x \in Nat /\ Room(b) \in Nat
        BY <1>2, <2>1, SizeAssumption DEF Room, Sliceable
      <4>2. Smaller(x, Room(b)) \in Nat /\ w[b] + Smaller(x, Room(b)) <= size[b]
        BY <1>2, <4>1 DEF Smaller, Room
      <4> QED BY <1>18, <2>1, <4>2 DEF Write
    <3> QED BY <3>1, AdvanceKept
  <2>2. CASE ~Sliceable(b, w[b], size[b])
    BY <1>18, <2>2, SoundIsSliceable, PanicKept DEF Write
  <2> QED BY <2>1, <2>2
<1>19. ASSUME NEW x \in Sizes, WriteWhole(b, x) PROVE BufferInv'
  <2>1. x \in Nat /\ w[b] + x <= size[b]
    BY <1>19, SizeAssumption DEF WriteWhole
  <2>2. CASE Sliceable(b, w[b], w[b] + x)
    BY <1>19, <2>1, <2>2, AdvanceKept DEF WriteWhole
  <2>3. CASE ~Sliceable(b, w[b], w[b] + x)
    BY <1>19, <2>1, <2>3, SoundIsSliceable, PanicKept DEF WriteWhole
  <2> QED BY <2>2, <2>3
<1>20. \A x \in Sizes : x \in Nat
  BY SizeAssumption
<1> QED
  BY <1>3, <1>4, <1>5, <1>6, <1>7, <1>8, <1>9, <1>10, <1>12, <1>13, <1>14, <1>15, <1>16, <1>17,
     <1>18, <1>19, <1>20 DEF Step, IncRef, DecRef

\* The invariant of the buffers and of their allocator.
THEOREM BuffersCorrect == Spec => []BufferInv
<1>1. Init => BufferInv
  <2> SUFFICES ASSUME Init PROVE BufferInv
    OBVIOUS
  <2>1. 0 \in Sizes /\ 0 \in Nat /\ 0 \in 0 .. MaxRef /\ "nil" \notin Chunks /\ "no" \notin Buffers
    BY SizeAssumption, NamesAssumption
  <2>2. TypeOK
    BY <2>1 DEF Init, TypeOK
  <2>3. MemoryInv
    BY <2>1 DEF Init, MemoryInv
  <2>4. CursorInv
    BY <2>1 DEF Init, CursorInv
  <2> QED BY <2>2, <2>3, <2>4 DEF BufferInv
<1> QED
  BY <1>1, BufferStep, PTL DEF Spec

\* Every variable keeps its type; Free always finds a class for its chunk (lines 88 to
\* 98 of alloc.go).
THEOREM BufferTypeCorrect == Spec => []TypeOK
BY BuffersCorrect, PTL DEF BufferInv

\* The cursors of a buffer that was not freed, shrunk or grown stay in order and inside
\* its memory, and no call panics with it, whatever the calls before and also when it
\* comes out of a Pool.
THEOREM CursorsStayOrdered == Spec => []CursorsOrdered
<1>1. BufferInv => CursorsOrdered
  BY DEF BufferInv, TypeOK, CursorInv, CursorsOrdered
<1> QED
  BY <1>1, BuffersCorrect, PTL

\* A chunk is in one buffer or in the free list of its class, and as long as was asked
\* for: it never goes back twice (lines 91 to 100 of buffer.go, 45 to 98 of alloc.go).
THEOREM ChunksHaveOneOwner == Spec => []ChunkOnce
<1>1. BufferInv => ChunkOnce
  <2> SUFFICES ASSUME BufferInv PROVE ChunkOnce
    OBVIOUS
  <2>1. \A b \in Buffers : data[b] \in Chunks => Capacity(b) = capOf[data[b]]
    BY DEF Capacity
  <2> QED BY <2>1 DEF BufferInv, MemoryInv, ChunkOnce
<1> QED
  BY <1>1, BuffersCorrect, PTL
===============================================================================
