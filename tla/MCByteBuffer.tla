---------------------------- MODULE MCByteBuffer ----------------------------
(* ByteBuffer for TLC: the buffers are interchangeable, and so are the chunks. *)
EXTENDS ByteBuffer, TLC

SymmetricMemory == Permutations(Buffers) \cup Permutations(Chunks)
===============================================================================
