------------------------------ MODULE ByteBuffer ------------------------------
(***************************************************************************)
(* Buffer (src/buf/buffer.go), the allocator of its memory                 *)
(* (src/buf/alloc.go) and the deprecated Pool of buffers                   *)
(* (src/buf/pool.go).                                                      *)
(*                                                                         *)
(* Bytes are counted, not kept: a buffer is its cursors r and w, its size, *)
(* and the memory behind data.  Managed memory is a chunk of a class of    *)
(* the allocator, 2^MinBits to 2^MaxBits bytes; nobody else's memory       *)
(* ("own") never goes back to it.  A panic ends the program.               *)
(* An operator whose name ends in Slip is one with a plausible mistake.    *)
(***************************************************************************)
EXTENDS Integers, FiniteSets

CONSTANTS
  Buffers, Chunks,
  MinBits, MaxBits,  \* the classes of the allocator: 6 and 16 in the code
  MaxManaged,        \* sysvars.BufferMaxManagedSize
  PoolSize,          \* the size of the Pool, which is valid
  Sizes, MaxRef      \* bounds: the sizes and counts asked for, the references

ASSUME BitsAssumption == MinBits \in Nat /\ MaxBits \in Nat /\ MinBits <= MaxBits
ASSUME NamesAssumption ==
  /\ Chunks \cap {"own", "nil"} = {}
  /\ Buffers \cap {"GetSize", "no"} = {}
ASSUME SizeAssumption ==
  /\ Sizes \in SUBSET Nat /\ 0 \in Sizes /\ MaxRef \in Nat
  /\ MaxManaged \in Nat /\ MaxManaged <= 2 ^ MaxBits
  /\ PoolSize \in Sizes /\ PoolSize \in 1 .. MaxManaged

VARIABLES
  st,       \* st[b]: "none" (no such buffer yet), "user" or "shelf" (in the Pool)
  data,     \* data[b]: a chunk, "own" or "nil"
  len,      \* len[b]: len(b.data), 0 when data is nil
  size, r, w, ref,
  spoiled,  \* the buffers misused: freed, shrunk below w or grown beyond it
  capOf,    \* capOf[c]: the bytes of chunk c, 0 before it is made
  bin,      \* bin[i]: the chunks in the sync.Pool of class i
  panicked  \* the buffer, or "GetSize", that a panic happened with, "no" before

cursorVars == <<size, r, w, ref>>
memoryVars == <<data, len, capOf, bin>>
vars == <<st, cursorVars, memoryVars, spoiled, panicked>>

Classes == MinBits .. MaxBits

TypeOK ==
  /\ st \in [Buffers -> {"none", "user", "shelf"}]
  /\ data \in [Buffers -> Chunks \cup {"own", "nil"}]
  /\ len \in [Buffers -> Sizes]
  /\ size \in [Buffers -> Sizes]
  /\ r \in [Buffers -> Nat]
  /\ w \in [Buffers -> Nat]
  /\ \A b \in Buffers : r[b] <= w[b]
  /\ ref \in [Buffers -> 0 .. MaxRef]
  /\ spoiled \in SUBSET Buffers
  /\ capOf \in [Chunks -> {0} \cup {2 ^ i : i \in Classes}]
  /\ bin \in [Classes -> SUBSET Chunks]
  /\ panicked \in Buffers \cup {"GetSize", "no"}

Init ==
  /\ st = [b \in Buffers |-> "none"]
  /\ data = [b \in Buffers |-> "nil"]
  /\ len = [b \in Buffers |-> 0]
  /\ size = [b \in Buffers |-> 0]
  /\ r = [b \in Buffers |-> 0]
  /\ w = [b \in Buffers |-> 0]
  /\ ref = [b \in Buffers |-> 0]
  /\ spoiled = {}
  /\ capOf = [c \in Chunks |-> 0]
  /\ bin = [i \in Classes |-> {}]
  /\ panicked = "no"

-----------------------------------------------------------------------------
\* The allocator.

\* bits.Len32(x) - 1.
Msb(x) == CHOOSE i \in 0 .. MaxBits : 2 ^ i <= x /\ x < 2 ^ (i + 1)

\* The class Get takes a chunk from.  Slip: a size between two classes gets the smaller.
GetClassSlip(x) == IF x <= 2 ^ MinBits THEN MinBits ELSE Msb(x)
GetClass(x) ==
  IF x <= 2 ^ MinBits THEN MinBits
  ELSE IF x = 2 ^ Msb(x) THEN Msb(x) ELSE Msb(x) + 1

\* The class Put gives a chunk to.
PutClass(c) == Msb(capOf[c])

\* A chunk that nobody has and that is in no pool: it is new, or collected garbage.
Unused(c) == (\A b \in Buffers : data[b] # c) /\ \A i \in Classes : c \notin bin[i]

\* get(x) gives chunk c.  sync.Pool may make a new one although it has others.
Get(c, x) ==
  LET i == GetClass(x)
  IN  /\ c \in bin[i] \/ Unused(c)
      /\ bin' = [bin EXCEPT ![i] = @ \ {c}]
      /\ capOf' = [capOf EXCEPT ![c] = 2 ^ i]

-----------------------------------------------------------------------------
\* The life of a buffer.

\* What the capacity of b.data is.
Capacity(b) == IF data[b] \in Chunks THEN capOf[data[b]] ELSE len[b]

Become(b, d, x, filled) ==
  /\ st' = [st EXCEPT ![b] = "user"]
  /\ data' = [data EXCEPT ![b] = d]
  /\ len' = [len EXCEPT ![b] = x]
  /\ size' = [size EXCEPT ![b] = x]
  /\ r' = [r EXCEPT ![b] = 0]
  /\ w' = [w EXCEPT ![b] = filled]
  /\ ref' = [ref EXCEPT ![b] = 0]
  /\ spoiled' = spoiled \ {b}
  /\ UNCHANGED panicked

\* NewSize makes a buffer: one without data, one of its own memory, or a managed one.
MakeSize(b, x) ==
  \/ /\ x = 0 \/ x > MaxManaged
     /\ Become(b, IF x = 0 THEN "nil" ELSE "own", x, 0)
     /\ UNCHANGED <<capOf, bin>>
  \/ /\ x \in 1 .. MaxManaged
     /\ \E c \in Chunks : Get(c, x) /\ Become(b, c, x, 0)

\* The name of a buffer is used again when it is freed.
Available(b) == st[b] = "none" \/ (st[b] = "user" /\ data[b] = "nil")

NewSize(b, x) == Available(b) /\ MakeSize(b, x)

As(b, x) ==
  /\ Available(b)
  /\ Become(b, IF x = 0 THEN "nil" ELSE "own", x, x)
  /\ UNCHANGED <<capOf, bin>>

MayFree(b) == data[b] # "nil" /\ ref[b] <= 0

\* Slip: the buffer keeps its data.
DataAfterFreeSlip(b) == data[b]
DataAfterFree(b) == "nil"

\* Free, and Close, which refuses a buffer in use: size, r and w stay.
Free(b) ==
  /\ st[b] = "user"
  /\ MayFree(b)
  /\ data' = [data EXCEPT ![b] = DataAfterFree(b)]
  /\ len' = [len EXCEPT ![b] = 0]
  /\ IF data[b] \in Chunks
     THEN bin' = [bin EXCEPT ![PutClass(data[b])] = @ \cup {data[b]}]
     ELSE UNCHANGED bin
  /\ spoiled' = spoiled \cup {b}
  /\ UNCHANGED <<st, cursorVars, capOf, panicked>>

\* Nobody gives up a reference that nobody took.
Reference(b, change) ==
  /\ st[b] = "user"
  /\ ref[b] + change \in 0 .. MaxRef
  /\ ref' = [ref EXCEPT ![b] = @ + change]
  /\ UNCHANGED <<st, size, r, w, memoryVars, spoiled, panicked>>

IncRef(b) == Reference(b, 1)
DecRef(b) == Reference(b, -1)

-----------------------------------------------------------------------------
\* Cursors.

\* b.data[from:to] is a legal slice.
Sliceable(b, from, to) == from <= to /\ to <= Capacity(b)

Panic(b) ==
  /\ panicked' = b
  /\ UNCHANGED <<st, cursorVars, memoryVars, spoiled>>

Smaller(a, b) == IF a < b THEN a ELSE b

Advance(b, k) ==
  /\ w' = [w EXCEPT ![b] = @ + k]
  /\ UNCHANGED <<st, size, r, ref, memoryVars, spoiled, panicked>>

\* Write, ReadFrom and ReadFromOnce, with k bytes to be had: as much as fits.  ReadFrom
\* is the sum of its reads.
\* Slip: the limit is the memory, not the size.
RoomSlip(b) == Capacity(b) - w[b]
Room(b) == size[b] - w[b]

Write(b, k) ==
  /\ st[b] = "user"
  /\ w[b] # size[b]
  /\ IF Sliceable(b, w[b], size[b]) THEN Advance(b, Smaller(k, Room(b))) ELSE Panic(b)

\* WriteString and ReadFull: all of k bytes or nothing (a short read is a Write).
WriteWhole(b, k) ==
  /\ st[b] = "user"
  /\ w[b] + k <= size[b]
  /\ IF Sliceable(b, w[b], w[b] + k) THEN Advance(b, k) ELSE Panic(b)

WriteByte(b) ==
  /\ st[b] = "user"
  /\ w[b] # size[b]
  /\ IF w[b] < len[b] THEN Advance(b, 1) ELSE Panic(b)

\* Slip: Discard does not stop at w.
DiscardedSlip(b, k) == k
Discarded(b, k) == Smaller(k, w[b] - r[b])

\* Discard.
Discard(b, k) ==
  /\ st[b] = "user"
  /\ r[b] # w[b]
  /\ r' = [r EXCEPT ![b] = @ + Discarded(b, k)]
  /\ UNCHANGED <<st, size, w, ref, memoryVars, spoiled, panicked>>

\* Read, WriteTo and WriteToOnce, k bytes being taken.
Read(b, k) ==
  IF Sliceable(b, r[b], w[b]) THEN Discard(b, k) ELSE st[b] = "user" /\ r[b] # w[b] /\ Panic(b)

ReadByte(b) ==
  IF r[b] < len[b] THEN Discard(b, 1) ELSE st[b] = "user" /\ r[b] # w[b] /\ Panic(b)

\* Bytes, Peek and CopyBytes read what is between the cursors.
Bytes(b) ==
  /\ st[b] = "user"
  /\ ~Sliceable(b, r[b], w[b])
  /\ Panic(b)

Reset(b) ==
  /\ st[b] = "user"
  /\ r' = [r EXCEPT ![b] = 0]
  /\ w' = [w EXCEPT ![b] = 0]
  /\ spoiled' = IF data[b] = "nil" THEN spoiled ELSE spoiled \ {b}
  /\ UNCHANGED <<st, size, ref, memoryVars, panicked>>

\* Resize: nothing compares n with w.  A count n below 0 is not asked for.
Resize(b, x) ==
  /\ st[b] = "user"
  /\ x <= len[b]
  /\ size' = [size EXCEPT ![b] = x]
  /\ spoiled' = IF x < w[b] THEN spoiled \cup {b} ELSE spoiled
  /\ UNCHANGED <<st, r, w, ref, memoryVars, panicked>>

\* Truncated: nothing compares n with Len.  Sizes bound the cursor.
Truncated(b, x) ==
  /\ st[b] = "user"
  /\ \E y \in Sizes : r[b] + x <= y
  /\ w' = [w EXCEPT ![b] = r[b] + x]
  /\ spoiled' = IF x > w[b] - r[b] THEN spoiled \cup {b} ELSE spoiled
  /\ UNCHANGED <<st, size, r, ref, memoryVars, panicked>>

-----------------------------------------------------------------------------
\* Pool.

\* Put takes any buffer that is not too big and not in use.
PoolPut(b) ==
  /\ st[b] = "user"
  /\ size[b] <= PoolSize
  /\ ref[b] <= 0
  /\ st' = [st EXCEPT ![b] = "shelf"]
  /\ UNCHANGED <<cursorVars, memoryVars, spoiled, panicked>>

\* A buffer from the shelf: Get resets its cursors and nothing else.
TakeFromShelf(b, x) ==
  /\ st[b] = "shelf"
  /\ st' = [st EXCEPT ![b] = "user"]
  /\ size' = [size EXCEPT ![b] = x]
  /\ r' = [r EXCEPT ![b] = 0]
  /\ w' = [w EXCEPT ![b] = 0]
  /\ spoiled' = IF data[b] = "nil" THEN spoiled ELSE spoiled \ {b}
  /\ UNCHANGED <<ref, memoryVars, panicked>>

\* Get: an empty sync.Pool makes a buffer.
PoolGet(b) == TakeFromShelf(b, size[b]) \/ NewSize(b, PoolSize)

\* GetSize: the pool serves the sizes from PoolSize on, and ex.Must panics when the data
\* of the buffer is shorter.
PoolGetSize(b, x) ==
  \/ x < PoolSize /\ As(b, x)
  \/ x >= PoolSize /\ x <= len[b] /\ TakeFromShelf(b, x)
  \/ x = PoolSize /\ NewSize(b, x)
  \/ /\ x >= PoolSize
     /\ (st[b] = "shelf" /\ x > len[b]) \/ (Available(b) /\ x > PoolSize)
     /\ Panic("GetSize")

-----------------------------------------------------------------------------
Step(b) ==
  \/ Free(b) \/ IncRef(b) \/ DecRef(b)
  \/ WriteByte(b) \/ ReadByte(b) \/ Bytes(b) \/ Reset(b)
  \/ PoolPut(b) \/ PoolGet(b)
  \/ \E x \in Sizes :
       \/ NewSize(b, x) \/ As(b, x) \/ Resize(b, x) \/ Truncated(b, x) \/ PoolGetSize(b, x)
       \/ Discard(b, x) \/ Read(b, x) \/ Write(b, x)
       \/ x > 0 /\ WriteWhole(b, x)

Next == panicked = "no" /\ \E b \in Buffers : Step(b)

Spec == Init /\ [][Next]_vars

-----------------------------------------------------------------------------
\* The cursors of a buffer are in order and inside its memory, which is never cleared, as
\* long as it was not freed, shrunk below w (Resize, lines 70-76 of buffer.go) or grown
\* by Truncated (lines 292-297): it shows no byte of the previous owner of a chunk, and
\* no operation panics with it, after any sequence of calls, also when it comes out of a
\* Pool.
CursorsOrdered ==
  /\ \A b \in Buffers \ spoiled :
       /\ r[b] <= w[b]
       /\ w[b] <= size[b]
       /\ size[b] <= len[b]
  /\ panicked \in Buffers => panicked \in spoiled

\* A chunk is in the free list of one class, the one whose arrays have its length, or in
\* one buffer, whatever the buffers were used for: Free, repeated or with a reference
\* taken or missing, never gives it back twice (lines 91-100).  In a managed buffer it is
\* as long as was asked for and less than twice that, but for the smallest class (lines
\* 45-86 of alloc.go).
ChunkOnce ==
  \A c \in Chunks :
    /\ \A b1, b2 \in Buffers : data[b1] = c /\ data[b2] = c => b1 = b2
    /\ \A i \in Classes : c \in bin[i] => capOf[c] = 2 ^ i /\ \A b \in Buffers : data[b] # c
  /\ \A b \in Buffers : data[b] \in Chunks =>
       /\ len[b] <= Capacity(b)
       /\ Capacity(b) < 2 * len[b] \/ Capacity(b) = 2 ^ MinBits
===============================================================================
