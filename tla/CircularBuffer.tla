--------------------------- MODULE CircularBuffer ---------------------------
(***************************************************************************)
(* libnetdata/circular_buffer/circular_buffer.c: the adaptive circular     *)
(* buffer between the collector threads of a host and its streaming        *)
(* sender.  It starts small, doubles up to max_size when an addition does  *)
(* not fit, and is indexed by a read and a write position that wrap.  Its  *)
(* caller holds the sender lock, so every function is one action.          *)
(***************************************************************************)
EXTENDS Integers, Sequences

CONSTANTS
  Byte,         \* the values a byte can take
  Initial,      \* cbuffer_new(initial, ...)
  MaxSize,      \* cbuffer_new(..., max, ...)
  Chunks,       \* the byte sequences callers add
  Junk          \* what mallocz() leaves in memory that was never written

ASSUME SizeAssumption ==
  /\ Initial \in Nat \ {0}
  /\ MaxSize \in Nat /\ Initial <= MaxSize

ASSUME ByteAssumption == Junk \notin Byte /\ \A d \in Chunks : d \in Seq(Byte)

VARIABLES
  size,         \* bytes allocated
  read, write,  \* positions of the oldest byte and of the next one to store
  data,         \* the bytes, at positions 0 .. size - 1
  last          \* the last call: its name, the bytes it moved, its result

bufferVars == <<size, read, write, data, last>>

BufferTypeOK ==
  /\ size \in Initial .. MaxSize
  /\ read \in 0 .. size - 1
  /\ write \in 0 .. size - 1
  /\ data \in [0 .. size - 1 -> Byte \cup {Junk}]
  /\ last \in [op : {"new", "add", "remove", "flush"}, bytes : Seq(Byte), ret : {0, 1}]

\* cbuffer_new(): an empty buffer of the initial size.
BufferInit ==
  /\ size = Initial
  /\ read = 0
  /\ write = 0
  /\ data = [i \in 0 .. Initial - 1 |-> Junk]
  /\ last = [op |-> "new", bytes |-> << >>, ret |-> 0]

\* The number of bytes held.
Held == IF write >= read THEN write - read ELSE size - read + write

\* cbuffer_available_size_unsafe()
Available == MaxSize - Held

\* cbuffer_next_unsafe(): how many bytes can be read without wrapping.
Contiguous == IF read <= write THEN write - read ELSE size - read

\* Position p of a buffer of s bytes, p reaching at most one turn too far.
Wrap(p, s) == IF p >= s THEN p - s ELSE p

\* The bytes held, oldest first.
Contents == [i \in 1 .. Held |-> data[Wrap(read + i - 1, size)]]
-----------------------------------------------------------------------------
\* The sizes cbuffer_realloc_unsafe() goes through until it reaches MaxSize.
Doublings == {size * 2^k : k \in 0 .. MaxSize}

\* cbuffer_add_unsafe()'s loop over cbuffer_realloc_unsafe() ends with new
\* bytes allocated: the first doubling that exceeds need, or MaxSize.
GrownTo(new, need) ==
  /\ new \in Doublings \cup {MaxSize}
  /\ new # MaxSize => need < new
  /\ \A s \in Doublings : s < new => need >= s

\* Mutant: the wrapped bytes are not copied behind the top part.
RealignedTopOnly(new) ==
  [size |-> new, read |-> 0, write |-> Held,
   data |-> [i \in 0 .. new - 1 |-> IF i < Contiguous THEN data[read + i] ELSE Junk]]

\* cbuffer_realloc_unsafe(): the bytes held move to the bottom of the new memory.
Realigned(new) ==
  [size |-> new, read |-> 0, write |-> Held,
   data |-> [i \in 0 .. new - 1 |-> IF i < Held THEN data[Wrap(read + i, size)] ELSE Junk]]

\* Storing d at the write position of buffer b, wrapping at its end.
Stored(b, d) ==
  [b EXCEPT !.write = Wrap(b.write + Len(d), b.size),
            !.data = [i \in 0 .. b.size - 1 |->
                        LET k == IF i >= b.write THEN i - b.write ELSE i - b.write + b.size
                        IN  IF k < Len(d) THEN d[k + 1] ELSE b.data[i]]]

Buffer == [size |-> size, read |-> read, write |-> write, data |-> data]

Becomes(b) ==
  /\ size' = b.size
  /\ read' = b.read
  /\ write' = b.write
  /\ data' = b.data

\* cbuffer_add_unsafe(): a refused addition has already grown the buffer.
Add(d) ==
  \E new \in size .. MaxSize :
    LET b   == IF new = size THEN Buffer ELSE Realigned(new)
        ret == IF Len(d) + Held >= new THEN 1 ELSE 0
    IN  /\ GrownTo(new, Len(d) + Held)
        /\ Becomes(IF ret = 0 THEN Stored(b, d) ELSE b)
        /\ last' = [op |-> "add", bytes |-> d, ret |-> ret]

\* cbuffer_remove_unsafe() as attempt_to_send() calls it: send() took the
\* first n of the Contiguous bytes at the read position.
RemoveBytes(n) ==
  /\ n \in 1 .. Contiguous
  /\ read' = Wrap(read + n, size)
  /\ last' = [op |-> "remove", bytes |-> [i \in 1 .. n |-> data[read + i - 1]], ret |-> 0]
  /\ UNCHANGED <<size, write, data>>

\* cbuffer_flush()
Flush ==
  /\ read' = 0
  /\ write' = 0
  /\ last' = [op |-> "flush", bytes |-> << >>, ret |-> 0]
  /\ UNCHANGED <<size, data>>

BufferNext ==
  \/ \E d \in Chunks : Add(d)
  \/ \E n \in 1 .. size : RemoveBytes(n)
  \/ Flush

BufferSpec == BufferInit /\ [][BufferNext]_bufferVars
-----------------------------------------------------------------------------
(***************************************************************************)
(* cbuffer_realloc_unsafe(), cbuffer_add_unsafe(): every byte between the  *)
(* read and the write position was stored by an addition, so the sender    *)
(* never hands memory to send() that was allocated and not written.        *)
(***************************************************************************)
HeldIsWritten == \A i \in 1 .. Held : data[Wrap(read + i - 1, size)] \in Byte

(***************************************************************************)
(* cbuffer_add_unsafe(), cbuffer_remove_unsafe(), cbuffer_flush(): the     *)
(* wrapped, growing buffer is a first-in first-out queue of bytes.         *)
(***************************************************************************)
Fifo == INSTANCE ByteFifo WITH queue <- Contents, Limit <- MaxSize

FifoSpec == Fifo!Spec
=============================================================================
