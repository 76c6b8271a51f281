------------------------------ MODULE CachedCopy ------------------------------
(***************************************************************************)
(* BufCachedReader (src/enhancements/iolib/cache.go), the counters of      *)
(* src/enhancements/iolib/counter and Copy (src/enhancements/iolib/        *)
(* copy.go): data that was read too early waits in reference-counted       *)
(* buffers in front of a reader, and is read, or copied, before what the   *)
(* reader still has.                                                       *)
(*                                                                         *)
(* The stream is 1 .. Total: buffer i of NewCacheReaderList has PerBuffer  *)
(* units, the base reader the last BaseUnits of them.  A counter.Reader    *)
(* may be around the chain (the outer one) and another between the chain   *)
(* and the base (the inner one).  The user reads for a while, hands the    *)
(* reader to Copy, and after an error may use the reader again.  copyPure  *)
(* is the subject of SpliceCopy and one step here.                         *)
(* An operator whose name ends in Slip is one with a plausible mistake.    *)
(***************************************************************************)
EXTENDS Integers, FiniteSets, SequencesExt

CONSTANTS
  Depth,       \* bound: the readers in the chain
  PerBuffer, BaseUnits,    \* units
  MaxCopies    \* bound: the calls of Copy

\* NewCacheReader leaves empty buffers out.
ASSUME BoundsAssumption ==
  Depth \in Nat /\ PerBuffer \in Nat \ {0} /\ BaseUnits \in Nat /\ MaxCopies \in Nat

VARIABLES
  depth,      \* the readers in the chain
  hasBase,    \* the innermost BufCachedReader has a reader r (it may be nil)
  unread,     \* unread[i]: w - r of buffer i
  baseUnread, \* units the base reader still has
  held,       \* held[i]: reader i has its buffer (b.buf is not nil)
  ref,        \* ref[i]: the count of references of buffer i
  live,       \* live[i]: buffer i has its data: it has not been freed
  shared,     \* shared[i]: somebody else has a reference of buffer i
  robbed,     \* the buffers whose count two calls have lowered for one reader
  snatched,   \* the buffers that were freed while copyEarly had to write them
  picked,     \* the buffers copyEarly has to write
  handshake,  \* what the destination of Copy wants: "none", "plain" or "buffer"; it is "endless"
              \* if it is a WriteCounter, but not an underlay.Writer
  wrapped,    \* whether there is an outer and an inner counter.Reader
  appended,   \* how often the inner one has the outer's counter among its own
  direct,     \* copyGeneric was given the inner one itself
  again,      \* the reader was used again after a Copy that appended to the inner one
  broken,     \* a Copy before has failed, and not in a plain handshake
  told,       \* the totals of the outer and the inner counter
  copies,     \* the calls of Copy
  pc,         \* "reading", "unwrap", "handshake", "pick", "cache", "pure", "done" or "panic"
  got,        \* the units that the user was given or the destination received
  lost,       \* the units that left the stream and came to nobody
  n,          \* the n of Copy
  counted,    \* the totals of the read and the write counters of Copy
  err,        \* the error of Copy
  bare,       \* copyPure was given the base reader itself, and may splice
  forgot,     \* units of a splice that the n of copyPure leaves out
  rest        \* the error of copyPure: "nil", "EOF" (one that Is io.EOF) or "other"

bufferVars == <<unread, held, ref, live, shared, robbed, snatched>>
copyVars == <<picked, n, counted, err, bare, forgot, rest>>
pureVars == <<bare, forgot, rest>>
setUp == <<depth, hasBase, wrapped>>
counterVars == <<appended, direct, again, broken, told, copies>>
vars == <<setUp, baseUnread, bufferVars, copyVars, handshake, counterVars, pc, got, lost>>

Chain == 1 .. depth
Total == depth * PerBuffer + BaseUnits
Destinations == {"none", "plain", "buffer", "endless"}
Ends == {"nil", "EOF", "other"}
Errors == {"nil", "handshake", "handshake: read", "handshake: write", "writeCache", "copyPure"}

TypeOK ==
  /\ depth \in 0 .. Depth
  /\ hasBase \in BOOLEAN
  /\ unread \in [Chain -> 0 .. PerBuffer]
  /\ baseUnread \in 0 .. BaseUnits
  /\ held \in [Chain -> BOOLEAN]
  /\ ref \in [Chain -> -1 .. 2]
  /\ live \in [Chain -> BOOLEAN]
  /\ shared \in [Chain -> BOOLEAN]
  /\ robbed \in SUBSET Chain
  /\ snatched \in SUBSET Chain
  /\ picked \in SUBSET Chain
  /\ handshake \in Destinations
  /\ wrapped \in [outer : BOOLEAN, inner : BOOLEAN]
  /\ appended \in 0 .. copies
  /\ told \in [outer : Nat, inner : 0 .. BaseUnits]
  /\ copies \in 0 .. MaxCopies
  /\ pc \in {"reading", "unwrap", "handshake", "pick", "cache", "pure", "done", "panic"}
  /\ got \in Seq(1 .. Total)
  /\ lost \in SUBSET (1 .. Total)
  /\ n \in 0 .. Total
  /\ counted \in [read : 0 .. Total, write : 0 .. Total]
  /\ err \in Errors
  /\ bare \in BOOLEAN
  /\ forgot \in 0 .. Total
  /\ rest \in Ends

\* NewCacheReaderList gives every reader of the chain a reference of its buffer.
Init ==
  /\ depth \in 0 .. Depth
  /\ hasBase \in BOOLEAN
  /\ depth = 0 => hasBase
  /\ wrapped \in [outer : BOOLEAN, inner : BOOLEAN]
  /\ wrapped.inner => hasBase
  /\ unread = [i \in Chain |-> PerBuffer]
  /\ baseUnread = IF hasBase THEN BaseUnits ELSE 0
  /\ held = [i \in Chain |-> TRUE]
  /\ shared \in [Chain -> BOOLEAN]
  /\ ref = [i \in Chain |-> IF shared[i] THEN 2 ELSE 1]
  /\ live = [i \in Chain |-> TRUE]
  /\ robbed = {}
  /\ snatched = {}
  /\ picked = {}
  /\ handshake = "none"
  /\ appended = 0
  /\ direct = FALSE
  /\ again = FALSE
  /\ broken = FALSE
  /\ told = [outer |-> 0, inner |-> 0]
  /\ copies = 0
  /\ pc = "reading"
  /\ got = <<>>
  /\ lost = {}
  /\ n = 0
  /\ counted = [read |-> 0, write |-> 0]
  /\ err = "nil"
  /\ bare = FALSE
  /\ forgot = 0
  /\ rest = "nil"

-----------------------------------------------------------------------------
\* Buffers.

Smaller(a, b) == IF a < b THEN a ELSE b
Units(first, count) == [j \in 1 .. count |-> first + j - 1]

\* The next count units of buffer i, and of the base reader.
Leading(i, count) == Units(i * PerBuffer - unread[i] + 1, count)
BaseFront(count) == Units(Total - baseUnread + 1, count)

\* Free, when the counts are r: a buffer in use keeps its data.
\* Slip: it does not.
FreedSlip(i, r) == FALSE
Freed(i, r) == live[i] /\ r > 0

\* DecRef.  Slip: it is forgotten.
DecRefSlip(i) == ref[i]
DecRef(i) == ref[i] - 1

\* Somebody else than copyEarly frees buffer i, when its count is r.
FreeApart(i, r) ==
  /\ live' = [live EXCEPT ![i] = Freed(i, r)]
  /\ snatched' = IF i \in picked /\ live[i] /\ ~Freed(i, r) THEN snatched \cup {i} ELSE snatched

\* The owner of a buffer calls Free, or Close, whenever it likes: during a Copy too.
OwnerFrees(i) ==
  /\ FreeApart(i, ref[i])
  /\ UNCHANGED <<setUp, baseUnread, unread, held, ref, shared, robbed, copyVars, handshake,
                 counterVars, pc, got, lost>>

\* The other holder gives its reference up and frees, at any time.
HolderReleases(i) ==
  /\ shared[i]
  /\ shared' = [shared EXCEPT ![i] = FALSE]
  /\ ref' = [ref EXCEPT ![i] = DecRef(i)]
  /\ FreeApart(i, DecRef(i))
  /\ UNCHANGED <<setUp, baseUnread, unread, held, robbed, copyVars, handshake, counterVars, pc,
                 got, lost>>

-----------------------------------------------------------------------------
\* Counters: Copy, or the outer Reader, tells the outer counter of o units; the inner
\* reader tells all of its own of the i units that the base gives.

Tell(o, i) ==
  told' = [outer |-> IF wrapped.outer THEN told.outer + o + i * appended ELSE 0,
           inner |-> IF wrapped.inner THEN told.inner + i ELSE 0]

-----------------------------------------------------------------------------
\* Read: reader i fills what the readers before it left of p and goes on to the next.

\* What is still asked for after reader i, when q units are asked for.
Left(q) ==
  LET left[i \in 0 .. depth] ==
        IF i = 0 THEN q ELSE left[i - 1] - Smaller(unread[i], left[i - 1])
  IN  left

\* What comes out of the buffers.
Take(q) == LET left == Left(q) IN [i \in Chain |-> left[i - 1] - left[i]]
Cached(q) ==
  LET take == Take(q)
      cached[i \in 0 .. depth] == IF i = 0 THEN <<>> ELSE cached[i - 1] \o Leading(i, take[i])
  IN  cached[depth]

\* A buffer that Read empties loses the reference of its reader and is freed, but the
\* reader keeps it.  Slip: one that is empty already loses one too.
DrainedSlip(q) == {i \in Chain : Take(q)[i] = unread[i]}
Drained(q) == {i \in Chain : Take(q)[i] > 0 /\ Take(q)[i] = unread[i]}

Drain(q) ==
  /\ unread' = [i \in Chain |-> unread[i] - Take(q)[i]]
  /\ ref' = [i \in Chain |-> IF i \in Drained(q) THEN DecRef(i) ELSE ref[i]]
  /\ live' = [i \in Chain |-> IF i \in Drained(q) THEN Freed(i, ref'[i]) ELSE live[i]]
  /\ UNCHANGED <<held, shared, robbed, snatched>>

\* With nobody to ask for the rest, the innermost reader returns 0 and io.EOF for what
\* it has just taken out of its buffer.
Dropped(q) == IF ~hasBase /\ Len(Cached(q)) < q THEN Take(q)[depth] ELSE 0

\* A Read of q units, the base reader giving k of them: what it returns.
Answer(q, k) ==
  SubSeq(Cached(q), 1, Len(Cached(q)) - Dropped(q)) \o BaseFront(k)

ReadStep(q, k) ==
  /\ k = 0 \/ k <= Smaller(baseUnread, q - Len(Cached(q)))
  /\ Drain(q)
  /\ baseUnread' = baseUnread - k

DroppedUnits(q) == Range(Cached(q)) \ Range(Answer(q, 0))

\* The innermost Read can fail only when it is called.
MayFail(q) == Len(Cached(q)) < q

Read(q, k) ==
  /\ pc = "reading"
  /\ ReadStep(q, k)
  /\ LET answer == Answer(q, k)
     IN  got' = got \o answer /\ Tell(Len(answer), k)
  /\ lost' = lost \cup DroppedUnits(q)
  /\ UNCHANGED <<setUp, copyVars, handshake, appended, direct, again, broken, copies, pc>>

-----------------------------------------------------------------------------
\* Copy.  UnwrapReadCounter takes the outer counter, and that of an inner reader with
\* no chain before it.  UnwrapWriterCounter never leaves a WriteCounter without writer.
\* Slip: UnwrapReadCounter does not leave a ReadCounter either.
UnwrapsSlip(d) == d # "endless" /\ ~wrapped.outer
Unwraps(d) == d # "endless"

StartCopy(d) ==
  /\ pc = "reading"
  /\ copies < MaxCopies
  /\ copies' = copies + 1
  /\ handshake' = d
  /\ pc' = IF ~Unwraps(d) THEN "unwrap" ELSE IF d = "none" THEN "pick" ELSE "handshake"
  /\ UNCHANGED <<setUp, baseUnread, bufferVars, copyVars, appended, direct, again, broken,
                 told, got, lost>>

\* The user has another try, with the same reader and any destination.
TryAgain ==
  /\ pc = "done"
  /\ err # "nil"
  /\ copies < MaxCopies
  /\ pc' = "reading"
  /\ n' = 0
  /\ counted' = [read |-> 0, write |-> 0]
  /\ err' = "nil"
  /\ forgot' = 0
  /\ rest' = "nil"
  /\ handshake' = "none"
  /\ again' = (again \/ appended > 0)
  /\ broken' = (broken \/ err # "handshake")
  /\ UNCHANGED <<setUp, baseUnread, bufferVars, picked, bare, appended, direct, told, copies, got,
                 lost>>

Fail(e) == pc' = "done" /\ err' = e

PlainHandshake ==
  /\ pc = "handshake"
  /\ handshake = "plain"
  /\ (pc' = "pick" /\ UNCHANGED err) \/ Fail("handshake")
  /\ UNCHANGED <<setUp, baseUnread, bufferVars, picked, n, counted, pureVars, handshake,
                 counterVars, got, lost>>

\* One Read into a buffer of q units.  What it returns with an error is dropped, and
\* yet returned as n; otherwise the destination takes the first j units.
HandshakeReadFails(q, k) ==
  /\ pc = "handshake"
  /\ handshake = "buffer"
  /\ MayFail(q)
  /\ ReadStep(q, k)
  /\ LET answer == Answer(q, k)
     IN  /\ n' = Len(answer)
         /\ counted' = [counted EXCEPT !.read = Len(answer)]
         /\ lost' = lost \cup DroppedUnits(q) \cup Range(answer)
         /\ Tell(Len(answer), k)
  /\ Fail("handshake: read")
  /\ UNCHANGED <<setUp, picked, pureVars, handshake, appended, direct, again, broken, copies,
                 got>>

\* line 101: n += handshakeWriteN.  Slip: n is what was read.
HandshakeCountSlip(q, k, j) == Len(Answer(q, k))
HandshakeCount(q, k, j) == j

HandshakeWrite(q, k, j) ==
  /\ pc = "handshake"
  /\ handshake = "buffer"
  /\ hasBase \/ ~MayFail(q)
  /\ ReadStep(q, k)
  /\ LET answer == Answer(q, k)
     IN  /\ j <= Len(answer)
         /\ got' = got \o SubSeq(answer, 1, j)
         /\ n' = HandshakeCount(q, k, j)
         /\ counted' = [read |-> Len(answer), write |-> j]
         /\ lost' = lost \cup Range(SubSeq(answer, j + 1, Len(answer)))
         /\ Tell(Len(answer), k)
         /\ (j = Len(answer) /\ pc' = "pick" /\ UNCHANGED err) \/ Fail("handshake: write")
  /\ UNCHANGED <<setUp, picked, pureVars, handshake, appended, direct, again, broken, copies>>

\* PickReaderCacheList: ReadCache lowers the count of every buffer, of one that Read
\* has emptied too; those are skipped.  It stops at a reader that has been picked before,
\* whose next reader is then the source.  The source is the base reader itself at the end
\* of a chain, or of none, that has no counter.Reader left around it.
PickedBefore == depth > 0 /\ ~held[1]

Pick ==
  /\ pc = "pick"
  /\ pc' = "cache"
  /\ direct' = /\ wrapped.outer /\ wrapped.inner
                /\ IF PickedBefore THEN depth = 1 ELSE depth > 0
  /\ bare' = (hasBase /\ (depth = 0 \/ (~wrapped.inner /\ (PickedBefore => depth = 1))))
  /\ IF PickedBefore THEN UNCHANGED <<picked, ref, held, robbed>>
     ELSE /\ picked' = {i \in Chain : unread[i] > 0}
          /\ ref' = [i \in Chain |-> DecRef(i)]
          /\ held' = [i \in Chain |-> FALSE]
          /\ robbed' = Chain \ picked'
  /\ UNCHANGED <<setUp, baseUnread, unread, live, shared, snatched, n, counted, err, forgot, rest,
                 handshake, appended, again, broken, told, copies, got, lost>>

\* The first of the picked buffers, the one that goes next.
\* Slip: the list is walked from its end.
NextPickedSlip == CHOOSE i \in picked : \A j \in picked : i >= j
NextPicked == CHOOSE i \in picked : \A j \in picked : i <= j

WriteCache ==
  /\ pc = "cache"
  /\ picked # {}
  /\ live[NextPicked]
  /\ LET i == NextPicked
     IN  /\ got' = got \o Leading(i, unread[i])
         /\ n' = n + unread[i]
         /\ counted' = [read |-> counted.read + unread[i], write |-> counted.write + unread[i]]
         /\ unread' = [unread EXCEPT ![i] = 0]
         /\ picked' = picked \ {i}
         /\ live' = [live EXCEPT ![i] = Freed(i, ref[i])]
         /\ Tell(unread[i], 0)
  /\ UNCHANGED <<setUp, baseUnread, held, ref, shared, robbed, snatched, pureVars, handshake,
                 appended, direct, again, broken, copies, pc, lost, err>>

\* The deferred function frees all that is left.
FreePicked ==
  /\ unread' = [i \in Chain |-> IF i \in picked THEN 0 ELSE unread[i]]
  /\ lost' = lost \cup ((UNION {Range(Leading(i, unread[i])) : i \in picked}) \ Range(got'))
  /\ live' = [i \in Chain |-> IF i \in picked THEN Freed(i, ref[i]) ELSE live[i]]
  /\ picked' = {}

\* The write fails after j units, all of them perhaps.
WriteCacheFails(j) ==
  /\ pc = "cache"
  /\ picked # {}
  /\ live[NextPicked]
  /\ j <= unread[NextPicked]
  /\ got' = got \o Leading(NextPicked, j)
  /\ n' = n + j
  /\ FreePicked
  /\ Fail("writeCache")
  /\ UNCHANGED <<setUp, baseUnread, held, ref, shared, robbed, snatched, counted, pureVars,
                 handshake, counterVars>>

\* A buffer that was freed meanwhile has no data to slice: WriteTo panics.
WriteCachePanics ==
  /\ pc = "cache"
  /\ picked # {}
  /\ ~live[NextPicked]
  /\ got' = got
  /\ FreePicked
  /\ pc' = "panic"
  /\ UNCHANGED <<setUp, baseUnread, held, ref, shared, robbed, snatched, n, counted, err, pureVars,
                 handshake, counterVars>>

\* counter.NewReader, in copyGeneric: an inner reader that is the source itself gets the
\* counters of this Copy for good; any other source gets a Reader of its own around it.
\* Slip: so does the inner reader, after it has got them.
AroundSlip(j) == j
Around(j) == IF direct THEN 0 ELSE j
Appended == IF direct THEN appended + 1 ELSE appended

CacheWritten ==
  /\ pc = "cache"
  /\ picked = {}
  /\ pc' = IF hasBase THEN "pure" ELSE "panic"
  /\ appended' = Appended
  /\ UNCHANGED <<setUp, baseUnread, bufferVars, copyVars, handshake, direct, again, broken,
                 told, copies, got, lost>>

\* line 40: CopyCounters takes an error that Is io.EOF for the end of the stream, also
\* one of the destination's Write, or one that the source has wrapped.
Reported(e) == IF e = "other" THEN "copyPure" ELSE "nil"

\* copyPure reads j units and writes k of them, tells the read counters of r and the
\* write counters of w, and returns m and e; nil only at the end of the stream.
CopyPure(j, k, r, w, m, e) ==
  /\ pc = "pure"
  /\ j <= baseUnread
  /\ k <= j
  /\ e = "nil" => k = baseUnread
  /\ got' = got \o SubSeq(BaseFront(j), 1, k)
  /\ lost' = lost \cup Range(SubSeq(BaseFront(j), k + 1, j))
  /\ baseUnread' = baseUnread - j
  /\ n' = n + m
  /\ forgot' = w - m
  /\ counted' = [read |-> counted.read + r, write |-> counted.write + w]
  /\ Tell(Around(r), r)
  /\ rest' = e
  /\ err' = Reported(e)
  /\ pc' = "done"
  /\ UNCHANGED <<setUp, bufferVars, picked, bare, handshake, appended, direct, again, broken,
                 copies>>

\* By splice to its end, or by copyGeneric; after f units of a splice that gave up, whose n
\* line 65 had and line 75 returns no more.
CopyGeneric(j, k, f, e) ==
  /\ f <= k
  /\ f > 0 => bare
  /\ CopyPure(j, k, j, k, k - f, e)

\* A splice fails to write: its last round, of which a part may be written, is not counted.
SpliceFails(j, k, c) ==
  /\ bare
  /\ c <= k
  /\ k < j
  /\ CopyPure(j, k, c, c, c, "other")

-----------------------------------------------------------------------------
\* To ask for still more makes no difference.
Requests == 1 .. Total - Len(got) - Cardinality(lost) + 1

BufferHandshake ==
  /\ pc = "handshake"
  /\ \E q \in Requests, k \in 0 .. BaseUnits :
       HandshakeReadFails(q, k) \/ \E j \in 0 .. q : HandshakeWrite(q, k, j)
WriteCaches == WriteCache \/ WriteCachePanics \/ \E j \in 0 .. PerBuffer : WriteCacheFails(j)
CopyRest ==
  /\ pc = "pure"
  /\ \E j, k, c \in 0 .. BaseUnits :
       SpliceFails(j, k, c) \/ \E e \in Ends : CopyGeneric(j, k, c, e)

Next ==
  \/ \E i \in Chain : OwnerFrees(i) \/ HolderReleases(i)
  \/ \E q \in Requests, k \in 0 .. BaseUnits : Read(q, k)
  \/ \E d \in Destinations : StartCopy(d)
  \/ TryAgain
  \/ PlainHandshake \/ BufferHandshake \/ Pick \/ WriteCaches \/ CacheWritten \/ CopyRest

\* Copy goes on, as the calls of its reader and its destination return; but a handshake
\* may wait for its peer for ever.
FairSpec ==
  /\ Init /\ [][Next]_vars
  /\ WF_vars(Pick) /\ WF_vars(WriteCaches) /\ WF_vars(CacheWritten) /\ WF_vars(CopyRest)

-----------------------------------------------------------------------------
\* The references of a buffer are its reader's, while the reader has something of it
\* to give, and the other holder's; but a buffer that Read has emptied (line 69 of
\* cache.go) loses one again when Copy picks it (line 53).  A buffer has its data as
\* long as a reader or the other holder needs it, whenever its owner calls Free, and
\* goes back to the allocator when nobody does; the holder of a buffer that lost a
\* reference too many may find it freed.  Between ReadCache and WriteTo the buffers are
\* copyEarly's own without a reference of its own: one is there when its turn comes
\* unless its owner or its last holder has freed it meanwhile, and only that, or a chain
\* without a base reader, makes Copy panic.
LiveWhileNeeded ==
  /\ \A i \in Chain :
       LET needed == held[i] /\ unread[i] > 0
       IN  /\ ref[i] = (IF needed THEN 1 ELSE 0)
                       + (IF shared[i] THEN 1 ELSE 0)
                       - (IF i \in robbed THEN 1 ELSE 0)
           /\ needed \/ (shared[i] /\ i \notin robbed) => live[i]
           /\ i \in picked => live[i] \/ i \in snatched
           /\ live[i] => needed \/ shared[i] \/ i \in picked
  /\ pc = "panic" => ~hasBase \/ snatched # {}

\* What the user and the destinations get is the stream in its order, over all calls of
\* Copy, and nothing of it is left out before one of them has failed in a read or write
\* or has panicked (cache.go lines 59-82, copy.go lines 113-149); a copy without error
\* reaches its end, unless copyPure stopped at an io.EOF that was none of the stream's
\* (copy.go line 40).  Without a base reader, a Read loses what it takes from the last
\* buffer when it asks for more (cache.go line 77): cache_test.go asserts that it does
\* not over another reader (lines 32 and 57).
StreamKept ==
  /\ \A a, b \in 1 .. Len(got) : a < b => got[a] < got[b]
  /\ err \in {"nil", "handshake"} /\ ~broken /\ hasBase /\ pc # "panic" /\ rest # "EOF" => lost = {}
  /\ lost = {} => got = Units(1, Len(got))
  /\ pc = "done" /\ err = "nil" /\ ~broken /\ rest # "EOF" => Len(got) = Total

\* The n of Copy is what its write counters were given, or up to one broken write more,
\* or less by what a splice had moved that gave up later (line 75 of copy.go); and the
\* read counters were given as much when copyPure ends without an error, io.EOF or
\* other.  Only when the read of a handshake fails n counts what was never written
\* (line 97).
\*
\* A counter of the reader is told of every unit once, by the Read of the user or by
\* the parts of Copy; of none twice, and of all unless some were lost, or a write of a
\* buffer has failed.  That ends when the reader is used again after a Copy that has left
\* its counters in the inner counter.Reader (rw.go line 76 of the counters): they count
\* twice from then on.
CountsTrue ==
  /\ err \notin {"handshake: read", "writeCache"} => n + forgot = counted.write
  /\ err = "writeCache" => n - counted.write \in 0 .. PerBuffer
  /\ err = "handshake: read" => counted.write = 0 /\ n = counted.read
  /\ err = "nil" /\ rest # "EOF" => counted.read = counted.write
  /\ wrapped.outer /\ ~again =>
       LET gone == Len(got) + Cardinality(lost)
       IN  /\ told.outer <= gone
           /\ lost = {} /\ err # "writeCache" /\ ~broken => told.outer = gone
  /\ wrapped.inner =>
       /\ told.inner <= BaseUnits - baseUnread
       /\ lost = {} => told.inner = BaseUnits - baseUnread

\* Copy returns once the handshake is over, if its reader and its destination do: but
\* not from a WriteCounter that has no writer under it (fn.go line 43), nor over a chain
\* without a base reader, which panics in io.CopyBuffer (copy.go line 160), nor after a
\* buffer was freed that it had yet to write.
CopyReturns ==
  pc \notin {"reading", "handshake", "done"}
    ~> pc = "done" \/ handshake = "endless" \/ ~hasBase \/ snatched # {}
===============================================================================
