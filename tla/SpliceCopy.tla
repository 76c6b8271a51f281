------------------------------ MODULE SpliceCopy ------------------------------
(***************************************************************************)
(* copyPure (src/enhancements/iolib/copy.go) with the Linux splice         *)
(* (src/enhancements/iolib/splice_linux.go): copies that run side by side  *)
(* and share the pool of kernel pipes.                                     *)
(*                                                                         *)
(* A source is a sequence of chunks; chunk <<s, i>> is the i-th of copy s. *)
(* A splice moves one chunk or several, and a byte count is a count of     *)
(* chunks.  EAGAIN is a wait: the step is not taken.                       *)
(* An operator whose name ends in Slip is one with a plausible mistake.    *)
(***************************************************************************)
EXTENDS Integers, Sequences, FiniteSets, SequencesExt

CONSTANTS Copies, Pipes, Length    \* Length: the chunks of a source

ASSUME LengthAssumption == Length \in Nat

VARIABLES
  pc,       \* pc[s]: "idle", "read", "write", "generic" or "done"
  taken,    \* taken[s]: how many chunks have left the source
  out,      \* out[s]: what the destination has received
  holds,    \* holds[s]: the pipe splice works with, NoPipe outside of it
  content,  \* content[p]: what is in pipe p
  pooled,   \* the pipes in splicePipePool
  readN,    \* readN[s]: the result of the last splice from the source
  left,     \* left[s]: writeSize, what remains to be written of readN
  n,        \* n[s]: what copyPure returns as n
  spliced,  \* spliced[s]: the n of a splice that gave up, which copyPure forgets
  counted,  \* counted[s]: the totals the read and the write counters were given
  result    \* result[s]: the error copyPure returns, "nil" for none

sessionVars == <<pc, taken, out, holds, readN, left, n, spliced, counted, result>>
vars == <<sessionVars, content, pooled>>

NoPipe == "no pipe"
ASSUME NoPipeAssumption == NoPipe \notin Pipes
Results == {"running", "nil", "EINVAL", "read error", "write error"}

Source(s) == [i \in 1 .. Length |-> <<s, i>>]
Next1To(s, k) == SubSeq(Source(s), taken[s] + 1, taken[s] + k)

TypeOK ==
  /\ pc \in [Copies -> {"idle", "read", "write", "generic", "done"}]
  /\ taken \in [Copies -> 0 .. Length]
  /\ out \in [Copies -> Seq(Copies \X (1 .. Length))]
  /\ holds \in [Copies -> Pipes \cup {NoPipe}]
  /\ content \in [Pipes -> Seq(Copies \X (1 .. Length))]
  /\ pooled \in SUBSET Pipes
  /\ readN \in [Copies -> 0 .. Length]
  /\ \A s \in Copies : left[s] \in 0 .. readN[s]
  /\ n \in [Copies -> 0 .. Length]
  /\ spliced \in [Copies -> 0 .. Length]
  /\ counted \in [Copies -> [read : 0 .. Length, write : 0 .. Length]]
  /\ result \in [Copies -> Results]

Init ==
  /\ pc = [s \in Copies |-> "idle"]
  /\ taken = [s \in Copies |-> 0]
  /\ out = [s \in Copies |-> <<>>]
  /\ holds = [s \in Copies |-> NoPipe]
  /\ content = [p \in Pipes |-> <<>>]
  /\ pooled = {}
  /\ readN = [s \in Copies |-> 0]
  /\ left = [s \in Copies |-> 0]
  /\ n = [s \in Copies |-> 0]
  /\ spliced = [s \in Copies |-> 0]
  /\ counted = [s \in Copies |-> [read |-> 0, write |-> 0]]
  /\ result = [s \in Copies |-> "running"]

-----------------------------------------------------------------------------
\* Pipes.

Held == {holds[s] : s \in Copies}

\* newPipe: a pipe that is neither pooled nor held has been closed or never made.
Fresh(p) == p \notin pooled \cup Held

\* Get takes a pipe out of the pool.  Slip: it leaves it there.
PoolWithoutSlip(p) == pooled
PoolWithout(p) == pooled \ {p}

\* getPipe: the pool may make a new pipe while it has others.
Acquire(s, p) ==
  /\ p \in pooled \/ Fresh(p)
  /\ holds' = [holds EXCEPT ![s] = p]
  /\ pooled' = PoolWithout(p)
  /\ content' = [content EXCEPT ![p] = IF p \in pooled THEN @ ELSE <<>>]

\* The field data of a pipe: nothing ever assigns it.
Data(p) == 0

\* putPipe, which is deferred: every return of splice runs it.
PutPipe(s) ==
  /\ holds' = [holds EXCEPT ![s] = NoPipe]
  /\ pooled' = IF Data(holds[s]) # 0 THEN pooled ELSE pooled \cup {holds[s]}
  /\ UNCHANGED content

\* The garbage collector empties the pool and the finalizer closes the pipe.
Finalize(p) ==
  /\ p \in pooled
  /\ pooled' = pooled \ {p}
  /\ content' = [content EXCEPT ![p] = <<>>]
  /\ UNCHANGED sessionVars

End(s, err) ==
  /\ pc' = [pc EXCEPT ![s] = "done"]
  /\ result' = [result EXCEPT ![s] = err]

-----------------------------------------------------------------------------
\* The start of copyPure.

\* One of the two ends is no syscall.Conn, or has no raw connection.
StartGeneric(s) ==
  /\ pc[s] = "idle"
  /\ pc' = [pc EXCEPT ![s] = "generic"]
  /\ UNCHANGED <<taken, out, holds, readN, left, n, spliced, counted, result, content, pooled>>

StartSplice(s, p) ==
  /\ pc[s] = "idle"
  /\ Acquire(s, p)
  /\ pc' = [pc EXCEPT ![s] = "read"]
  /\ UNCHANGED <<taken, out, readN, left, n, spliced, counted, result>>

\* pipe2 fails: getPipe returns EINVAL, and splice returns it with handed set.
StartWithoutPipe(s) ==
  /\ pc[s] = "idle"
  /\ End(s, "EINVAL")
  /\ UNCHANGED <<taken, out, holds, readN, left, n, spliced, counted, content, pooled>>

-----------------------------------------------------------------------------
\* The loop of splice.

ReadChunks(s, k) ==
  /\ pc[s] = "read"
  /\ taken[s] + k <= Length
  /\ content' = [content EXCEPT ![holds[s]] = @ \o Next1To(s, k)]
  /\ taken' = [taken EXCEPT ![s] = @ + k]
  /\ readN' = [readN EXCEPT ![s] = k]
  /\ left' = [left EXCEPT ![s] = k]
  /\ pc' = [pc EXCEPT ![s] = "write"]
  /\ UNCHANGED <<out, holds, n, spliced, counted, result, pooled>>

ReadEnd(s) ==
  /\ pc[s] = "read"
  /\ taken[s] = Length
  /\ End(s, "nil")
  /\ PutPipe(s)
  /\ readN' = [readN EXCEPT ![s] = 0]
  /\ UNCHANGED <<taken, out, left, n, spliced, counted>>

ReadFails(s) ==
  /\ pc[s] = "read"
  /\ End(s, "read error")
  /\ PutPipe(s)
  /\ UNCHANGED <<taken, out, readN, left, n, spliced, counted>>

\* EINVAL or ENOSYS, at the first call or at a later one: the kernel cannot splice from
\* this descriptor.  copyGeneric takes over, and its n replaces that of splice, whose
\* chunks have been delivered and told to the counters (copy.go, lines 65-75).
ReadUnsupported(s) ==
  /\ pc[s] = "read"
  /\ pc' = [pc EXCEPT ![s] = "generic"]
  /\ PutPipe(s)
  /\ spliced' = [spliced EXCEPT ![s] = n[s]]
  /\ n' = [n EXCEPT ![s] = 0]
  /\ UNCHANGED <<taken, out, readN, left, counted, result>>

\* The pipe is a queue: what was left in it by another copy goes first.
WriteChunks(s, k) ==
  /\ pc[s] = "write"
  /\ k <= left[s]
  /\ out' = [out EXCEPT ![s] = @ \o SubSeq(content[holds[s]], 1, k)]
  /\ content' = [content EXCEPT ![holds[s]] = SubSeq(@, k + 1, Len(@))]
  /\ left' = [left EXCEPT ![s] = @ - k]
  /\ UNCHANGED <<pc, taken, holds, readN, n, spliced, counted, result, pooled>>

WriteFails(s) ==
  /\ pc[s] = "write"
  /\ left[s] > 0
  /\ End(s, "write error")
  /\ PutPipe(s)
  /\ UNCHANGED <<taken, out, readN, left, n, spliced, counted>>

\* Slip: the write loop ends at the first partial write.
WrittenSlip(s) == left[s] < readN[s]
Written(s) == left[s] = 0

\* The end of the loop's body.
RoundAgain == "read"

\* The counters, and round again.
Account(s) ==
  /\ pc[s] = "write"
  /\ Written(s)
  /\ counted' = [counted EXCEPT ![s] = [read |-> @.read + readN[s], write |-> @.write + readN[s]]]
  /\ n' = [n EXCEPT ![s] = @ + readN[s]]
  /\ pc' = [pc EXCEPT ![s] = RoundAgain]
  /\ UNCHANGED <<taken, out, holds, readN, left, spliced, result, content, pooled>>

-----------------------------------------------------------------------------
\* copyGeneric: io.CopyBuffer reads k chunks and writes j of them; the counting reader
\* and writer see each call.  A write may fail although it took everything.

\* Slip: a short write is no error.
ShortWriteSlip(k, j) == FALSE
ShortWrite(k, j) == j < k

GenericMove(s, k, j) ==
  /\ pc[s] = "generic"
  /\ taken[s] + k <= Length
  /\ taken' = [taken EXCEPT ![s] = @ + k]
  /\ out' = [out EXCEPT ![s] = @ \o SubSeq(Next1To(s, k), 1, j)]
  /\ counted' = [counted EXCEPT ![s] = [read |-> @.read + k, write |-> @.write + j]]
  /\ n' = [n EXCEPT ![s] = @ + j]
  /\ End(s, "write error") \/ (~ShortWrite(k, j) /\ UNCHANGED <<pc, result>>)
  /\ UNCHANGED <<holds, readN, left, spliced, content, pooled>>

GenericEnd(s) ==
  /\ pc[s] = "generic"
  /\ (taken[s] = Length /\ End(s, "nil")) \/ End(s, "read error")
  /\ UNCHANGED <<taken, out, holds, readN, left, n, spliced, counted, content, pooled>>

-----------------------------------------------------------------------------
Step(s) ==
  \/ StartGeneric(s) \/ StartWithoutPipe(s) \/ \E p \in Pipes : StartSplice(s, p)
  \/ ReadEnd(s) \/ ReadFails(s) \/ ReadUnsupported(s)
  \/ \E k \in 1 .. Length : ReadChunks(s, k) \/ WriteChunks(s, k)
  \/ WriteFails(s) \/ Account(s)
  \/ \E k \in 1 .. Length : \E j \in 0 .. k : GenericMove(s, k, j)
  \/ GenericEnd(s)

Next == (\E s \in Copies : Step(s)) \/ (\E p \in Pipes : Finalize(p))

Spec == Init /\ [][Next]_vars

-----------------------------------------------------------------------------
Delivered(s) == Len(out[s])

\* A pipe works for one copy at a time, and only while splice runs (lines 66-81 of
\* splice_linux.go): it is not in the pool then, and no return keeps it.
PipeExclusive ==
  /\ \A s, t \in Copies : holds[s] = holds[t] => s = t \/ holds[s] = NoPipe
  /\ Held \cap pooled = {}
  /\ \A s \in Copies : holds[s] # NoPipe <=> pc[s] \in {"read", "write"}

\* While no write has failed, whoever used the pipes before, a copy delivers its own
\* chunks in order, and all of them when it returns nil (lines 138-170).
CleanCopyExact ==
  (\A s \in Copies : result[s] # "write error") =>
    \A s \in Copies :
      /\ IsPrefix(out[s], Source(s))
      /\ result[s] = "nil" => out[s] = Source(s)

\* What the write counters are told is never more than what reached the destination, and
\* is exactly that when no write failed (lines 163-169); the read counters are then told
\* the same.  It is what copyPure returns as n, but for what a splice that gave up half
\* way had moved: that much is missing from n.
CountsTrue ==
  \A s \in Copies :
    /\ counted[s].write = n[s] + spliced[s]
    /\ counted[s].write <= Delivered(s)
    /\ result[s] # "write error" /\ pc[s] # "write" =>
         counted[s].write = Delivered(s) /\ counted[s].read = Delivered(s)

\* "If there is still data left in the pipe, then close and discard it instead of
\* putting it back into the pool" (splice_linux.go, lines 73-74).
PooledPipesEmpty == \A p \in pooled : content[p] = <<>>

\* The error of the creation of a pipe is discarded, "redirecting the data transmission
\* to the conventional way utilizing read() + write() as a fallback" (splice_linux.go,
\* lines 53-54): no copy fails for want of a pipe.
NoPipeFallsBack == \A s \in Copies : result[s] # "EINVAL"
===============================================================================
