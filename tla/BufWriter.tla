------------------------------- MODULE BufWriter -------------------------------
(***************************************************************************)
(* iolib.BufWriter and SafeWriter (src/enhancements/iolib/rw.go): writers  *)
(* with a buffer each in front of one sink.  A Write of the sink is one    *)
(* step, because SafeWriter holds its mutex for that long; between two of  *)
(* them other writers may use the sink.                                    *)
(*                                                                         *)
(* The caller of a writer has a stream 1, 2, 3 ... and offers it piece by  *)
(* piece, each time from the unit after those that the calls before said   *)
(* they had taken.  A writer is not used after Free or Close.              *)
(* An operator whose name ends in Slip is one with a plausible mistake.    *)
(***************************************************************************)
EXTENDS Integers, Sequences

CONSTANTS
  Writers,     \* the BufWriters on the sink
  Size,        \* the capacity of a buffer
  MaxUnits,    \* bound: the units a caller offers, failed calls apart
  MaxPiece     \* bound: the units of one call

ASSUME SizeAssumption == Size \in Nat \ {0}
ASSUME BoundsAssumption == MaxUnits \in Nat /\ MaxPiece \in Nat

VARIABLES
  data,        \* data[w]: the units in the buffer up to its cursor w
  r,           \* r[w]: the read cursor: the first r units have reached the sink
  pc,          \* pc[w]: where the call in progress is, "idle" without one
  op,          \* op[w]: the call: its name, the units offered, the error of the reader
  n,           \* n[w]: the units ReadFrom has taken so far
  said,        \* said[w]: the sum of what the calls returned as n
  answer,      \* answer[w]: the error of the last call: "nil", "sink", "short" or "read"
  out,         \* out[w]: the units of w that reached the sink
  lost,        \* lost[w]: the units in the buffer when it was freed
  freed,       \* freed[w]: the buffer has been given back
  jammed,      \* jammed[w]: a write took all of the buffer and failed; none emptied it since
  passed,      \* passed[w]: a user of UnderlayWriter wrote past a full buffer
  sink,        \* whether the sink, or a writer under it, has a Close (closable), and
               \* whether it has a ReadFrom (readsFrom)
  closed       \* its Close has been called

bufferVars == <<data, r, jammed>>
callVars == <<pc, op, n, said, answer>>
sinkVars == <<sink, closed>>
vars == <<bufferVars, callVars, out, lost, freed, passed, sinkVars>>

Ops == {"Write", "WriteString", "WriteByte", "ReadFrom", "Flush", "UnderlayWriter"}
Errors == {"nil", "sink", "short", "read"}
NoOp == [name |-> "Flush", len |-> 0, readErr |-> "nil"]

Units(first, count) == [j \in 1 .. count |-> first + j - 1]
Pending(w) == SubSeq(data[w], r[w] + 1, Len(data[w]))
Free(w) == Size - Len(data[w])    \* len(b.buffer.FreeBytes())
Offered(w) == said[w] + n[w]      \* what the caller counts as taken

TypeOK ==
  /\ data \in [Writers -> Seq(Nat)]
  /\ r \in [Writers -> 0 .. Size]
  /\ \A w \in Writers : Len(data[w]) <= Size /\ r[w] <= Len(data[w])
  /\ pc \in [Writers -> {"idle", "flush", "flushed", "failed", "direct", "read"}]
  /\ op \in [Writers -> [name : Ops, len : Nat, readErr : {"nil", "EOF", "read", "short"}]]
  /\ n \in [Writers -> Nat]
  /\ said \in [Writers -> Nat]
  /\ answer \in [Writers -> Errors]
  /\ out \in [Writers -> Seq(Nat)]
  /\ lost \in [Writers -> Seq(Nat)]
  /\ freed \in [Writers -> BOOLEAN]
  /\ jammed \in [Writers -> BOOLEAN]
  /\ passed \in [Writers -> BOOLEAN]
  /\ sink \in [closable : BOOLEAN, readsFrom : BOOLEAN]
  /\ closed \in BOOLEAN

Init ==
  /\ data = [w \in Writers |-> <<>>]
  /\ r = [w \in Writers |-> 0]
  /\ pc = [w \in Writers |-> "idle"]
  /\ op = [w \in Writers |-> NoOp]
  /\ n = [w \in Writers |-> 0]
  /\ said = [w \in Writers |-> 0]
  /\ answer = [w \in Writers |-> "nil"]
  /\ out = [w \in Writers |-> <<>>]
  /\ lost = [w \in Writers |-> <<>>]
  /\ freed = [w \in Writers |-> FALSE]
  /\ jammed = [w \in Writers |-> FALSE]
  /\ passed = [w \in Writers |-> FALSE]
  /\ sink \in [closable : BOOLEAN, readsFrom : BOOLEAN]
  /\ closed = FALSE

-----------------------------------------------------------------------------
\* The ends of a call: it returns k and e.

Return(w, k, e) ==
  /\ pc' = [pc EXCEPT ![w] = "idle"]
  /\ said' = [said EXCEPT ![w] = @ + k]
  /\ n' = [n EXCEPT ![w] = 0]
  /\ answer' = [answer EXCEPT ![w] = e]

\* The next k units go into the buffer, which has room for them.
Store(w, k) == data' = [data EXCEPT ![w] = @ \o Units(Offered(w) + 1, k)]

\* The call stores its units and returns.
Accept(w, k) ==
  /\ Store(w, k)
  /\ Return(w, k, "nil")
  /\ UNCHANGED <<r, jammed, out, lost, freed, passed, sinkVars>>

Refuse(w, k, e) ==
  /\ Return(w, k, e)
  /\ UNCHANGED <<bufferVars, out, lost, freed, passed, sinkVars>>

Goto(w, place) ==
  /\ pc' = [pc EXCEPT ![w] = place]
  /\ UNCHANGED <<bufferVars, n, said, answer, out, lost, freed, passed, sinkVars>>

\* Flush does nothing, not even Reset, when there is nothing between the cursors.
StartFlush(w) == Goto(w, IF r[w] = Len(data[w]) THEN "flushed" ELSE "flush")

-----------------------------------------------------------------------------
\* The calls.

\* Slip: a piece never fills the buffer.
FitsStrictSlip(w, q) == q < Free(w)
Fits(w, q) == q <= Free(w)

Begin(w, name, q) ==
  /\ pc[w] = "idle"
  /\ ~freed[w]
  /\ op' = [op EXCEPT ![w] = [name |-> name, len |-> q, readErr |-> "nil"]]

Write(w, q) ==
  /\ Begin(w, "Write", q)
  /\ IF Fits(w, q) THEN Accept(w, q) ELSE StartFlush(w)

\* buffer.WriteString stores all of the string or nothing.
WriteString(w, q) ==
  /\ Begin(w, "WriteString", q)
  /\ IF Fits(w, q) THEN Accept(w, q) ELSE StartFlush(w)

WriteByte(w) ==
  /\ Begin(w, "WriteByte", 1)
  /\ IF Fits(w, 1) THEN Accept(w, 1) ELSE StartFlush(w)

Flush(w) == Begin(w, "Flush", 0) /\ StartFlush(w)
ReadFrom(w) == Begin(w, "ReadFrom", 0) /\ StartFlush(w)

\* The writer that UnderlayWriter answers is used for one Write of q units.
UnderlayWriter(w, q) == Begin(w, "UnderlayWriter", q) /\ StartFlush(w)

\* Free and Close give the buffer back with what is in it.
GiveBack(w) ==
  /\ pc[w] = "idle"
  /\ ~freed[w]
  /\ freed' = [freed EXCEPT ![w] = TRUE]
  /\ lost' = [lost EXCEPT ![w] = Pending(w)]
  /\ data' = [data EXCEPT ![w] = <<>>]
  /\ r' = [r EXCEPT ![w] = 0]
  /\ UNCHANGED <<jammed, callVars, out, passed>>

FreeBuffer(w) == GiveBack(w) /\ UNCHANGED sinkVars

\* SafeWriter has no Close; WriteCloser finds that of the writer under it, which all
\* the other writers use.
Close(w) ==
  /\ GiveBack(w)
  /\ closed' = sink.closable
  /\ UNCHANGED sink

-----------------------------------------------------------------------------
\* The sink takes k of the units it is given, and fails, as it must when it does not
\* take all of them; a closed one takes none.

SinkTakes(k, given, ok) ==
  /\ k \in 0 .. given
  /\ closed => k = 0 /\ ~ok
  /\ ok => k = given

\* buffer.WriteTo, and Reset unless it failed.
\* Slip: Reset in either case.
WrittenSlip(w, k, ok) == [data |-> <<>>, r |-> 0]
Written(w, k, ok) == IF ok THEN [data |-> <<>>, r |-> 0] ELSE [data |-> data[w], r |-> r[w] + k]

WriteOut(w, k, ok) ==
  /\ pc[w] = "flush"
  /\ SinkTakes(k, Len(Pending(w)), ok)
  /\ out' = [out EXCEPT ![w] = @ \o SubSeq(data[w], r[w] + 1, r[w] + k)]
  /\ data' = [data EXCEPT ![w] = Written(w, k, ok).data]
  /\ r' = [r EXCEPT ![w] = Written(w, k, ok).r]
  /\ jammed' = [jammed EXCEPT ![w] = IF k = Len(Pending(w)) THEN ~ok ELSE @]
  /\ pc' = [pc EXCEPT ![w] = IF ok THEN "flushed" ELSE "failed"]
  /\ UNCHANGED <<op, n, said, answer, lost, freed, passed, sinkVars>>

\* underlay.Write(p), or WriteString, of what the call was given.
Direct(w, k, ok) ==
  /\ pc[w] = "direct"
  /\ SinkTakes(k, op[w].len, ok)
  /\ out' = [out EXCEPT ![w] = @ \o Units(Offered(w) + 1, k)]
  /\ passed' = [passed EXCEPT ![w] =
       @ \/ (op[w].name = "UnderlayWriter" /\ k > 0 /\ Pending(w) # <<>>)]
  /\ Return(w, k, IF ok THEN "nil" ELSE "sink")
  /\ UNCHANGED <<bufferVars, op, lost, freed, sinkVars>>

-----------------------------------------------------------------------------
\* What the calls do after their Flush.

\* Slip: the error is forgotten.
FlushFailsSlip(w) == pc[w] = "failed" /\ Refuse(w, n[w], "nil") /\ UNCHANGED op

\* The error of UnderlayWriter's Flush is logged in a debug build and dropped.
FlushFails(w) ==
  /\ pc[w] = "failed"
  /\ IF op[w].name = "UnderlayWriter" THEN Goto(w, "direct") ELSE Refuse(w, n[w], "sink")
  /\ UNCHANGED op

\* buffer.WriteString and buffer.WriteByte, once more: the buffer is short when Flush
\* had nothing to write and did not reset it.
StoreAgain(w) == IF Fits(w, op[w].len) THEN Accept(w, op[w].len) ELSE Refuse(w, 0, "short")

\* After a round of ReadFrom: io.EOF is its ordinary end.
RoundEnds(w) ==
  CASE op[w].readErr = "nil" -> Goto(w, "read")
    [] op[w].readErr = "EOF" -> Refuse(w, n[w], "nil")
    [] OTHER                 -> Refuse(w, n[w], op[w].readErr)

Flushed(w) ==
  /\ pc[w] = "flushed"
  /\ CASE op[w].name = "Flush" -> Refuse(w, 0, "nil")
       [] op[w].name = "ReadFrom" -> RoundEnds(w)
       [] op[w].name \in {"Write", "UnderlayWriter"} -> Goto(w, "direct")
       [] op[w].name = "WriteString" /\ op[w].len >= Size -> Goto(w, "direct")
       [] OTHER -> StoreAgain(w)
  /\ UNCHANGED op

\* buffer.ReadFromOnce: the reader gives k units and e.
ReadOnce(w, k, e) ==
  /\ pc[w] = "read"
  /\ ~sink.readsFrom
  /\ k <= Free(w)
  /\ e = "short" <=> Free(w) = 0
  /\ Store(w, k)
  /\ n' = [n EXCEPT ![w] = @ + k]
  /\ op' = [op EXCEPT ![w].readErr = e]
  /\ pc' = [pc EXCEPT ![w] = IF r[w] = Len(data[w]) + k THEN "flushed" ELSE "flush"]
  /\ UNCHANGED <<r, jammed, said, answer, out, lost, freed, passed, sinkVars>>

\* An underlying writer with a ReadFrom of its own reads k units and writes them.
ReadThrough(w, k, e) ==
  /\ pc[w] = "read"
  /\ sink.readsFrom
  /\ closed => k = 0
  /\ out' = [out EXCEPT ![w] = @ \o Units(Offered(w) + 1, k)]
  /\ Return(w, k, e)
  /\ UNCHANGED <<bufferVars, op, lost, freed, passed, sinkVars>>

-----------------------------------------------------------------------------
Within(w, k) == Offered(w) + k <= MaxUnits    \* the bound on the stream

\* What a writer does by itself once it has been called.
Proceed(w) ==
  \/ \E k \in 0 .. Size, ok \in BOOLEAN : WriteOut(w, k, ok)
  \/ \E k \in 0 .. MaxPiece, ok \in BOOLEAN : Direct(w, k, ok)
  \/ FlushFails(w) \/ Flushed(w)
  \/ \E k \in 0 .. Size, e \in {"nil", "EOF", "read", "short"} :
       Within(w, k) /\ ReadOnce(w, k, e)
  \/ \E k \in 0 .. MaxPiece, e \in {"nil", "sink", "read"} :
       Within(w, k) /\ ReadThrough(w, k, e)

\* A caller that makes any call it likes.
Call(w) ==
  \/ \E q \in 0 .. MaxPiece :
       Within(w, q) /\ (Write(w, q) \/ WriteString(w, q) \/ UnderlayWriter(w, q))
  \/ Within(w, 1) /\ WriteByte(w)
  \/ Flush(w) \/ ReadFrom(w) \/ FreeBuffer(w) \/ Close(w)

Next == \E w \in Writers : Call(w) \/ Proceed(w)

Spec == Init /\ [][Next]_vars

-----------------------------------------------------------------------------
\* A caller that goes on where the n of its calls left off has its stream in the sink
\* once and in order, then in the buffer, and the rest in what Free and Close threw
\* away; no failed or partial write, whoever retries it, repeats or skips a unit
\* (rw.go:26-124).  What is written through UnderlayWriter after a Flush that failed
\* (line 19) goes past the buffer.
StreamKept ==
  \A w \in Writers :
    ~passed[w] => out[w] \o Pending(w) \o lost[w] = Units(1, Offered(w))

\* An answer without error of the calls that flush means an empty buffer.  ErrShortBuffer
\* and ErrShortWrite, which no caller can do anything about, need a write that took
\* everything and failed: the later Flush finds nothing to write and does not Reset
\* (line 115).
AnswerIsTrue ==
  \A w \in Writers :
    /\ pc[w] = "idle" /\ answer[w] = "nil" /\ op[w].name \in {"Flush", "ReadFrom"}
         => Pending(w) = <<>>
    /\ pc[w] = "idle" /\ answer[w] = "short" => jammed[w]
    /\ r[w] = Len(data[w]) /\ r[w] > 0 => jammed[w]
===============================================================================
