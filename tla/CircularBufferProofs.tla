------------------------ MODULE CircularBufferProofs ------------------------
(***************************************************************************)
(* The circular buffer is a first-in first-out queue for every initial     *)
(* size, limit, set of bytes and chunks.                                   *)
(***************************************************************************)
EXTENDS CircularBuffer, TLAPS

\* The inductive invariant: positions inside the buffer, and written bytes
\* between them.
IInv == BufferTypeOK /\ HeldIsWritten

(***************************************************************************)
(* A table of m bytes is a sequence of length m (how Contents is defined). *)
(***************************************************************************)
LEMMA TableIsSeq ==
  ASSUME NEW S, NEW m \in Nat, NEW F, F = [i \in 1 .. m |-> F[i]],
         \A i \in 1 .. m : F[i] \in S
  PROVE  F \in Seq(S) /\ Len(F) = m
  OBVIOUS

(***************************************************************************)
(* A sequence is the concatenation of two others when it agrees with each  *)
(* (how bytes held before and after a call are compared).                  *)
(***************************************************************************)
LEMMA IsConcat ==
  ASSUME NEW S, NEW s \in Seq(S), NEW t \in Seq(S), NEW u \in Seq(S),
         Len(u) = Len(s) + Len(t),
         \A i \in 1 .. Len(s) : u[i] = s[i],
         \A i \in 1 .. Len(t) : u[Len(s) + i] = t[i]
  PROVE  u = s \o t
  <1>1. s \o t \in Seq(S) /\ Len(s \o t) = Len(u) OBVIOUS
  <1>2. ASSUME NEW i \in 1 .. Len(u) PROVE u[i] = (s \o t)[i]
    <2>1. CASE i <= Len(s) BY <2>1
    <2>2. CASE i > Len(s)
      <3>1. i - Len(s) \in 1 .. Len(t) /\ Len(s) + (i - Len(s)) = i BY <2>2
      <3>2. u[i] = t[i - Len(s)] BY <3>1
      <3> QED BY <2>2, <3>2, <1>1
    <2> QED BY <2>1, <2>2
  <1> QED BY <1>1, <1>2

(***************************************************************************)
(* cbuffer_new() establishes the invariant: nothing is held.               *)
(***************************************************************************)
LEMMA InitIInv == BufferInit => IInv
  BY SizeAssumption DEF BufferInit, IInv, BufferTypeOK, HeldIsWritten, Held, Wrap

(***************************************************************************)
(* In a well-formed buffer the number of bytes held is below its size, and *)
(* the contiguous part is a prefix of what is held.                        *)
(***************************************************************************)
LEMMA HeldBounds ==
  ASSUME BufferTypeOK
  PROVE  /\ size \in Nat \ {0} /\ read \in Nat /\ write \in Nat
         /\ Held \in 0 .. size - 1
         /\ Contiguous \in 0 .. Held
         /\ read + Contiguous <= size
  BY SizeAssumption DEF BufferTypeOK, Held, Contiguous

\* The bytes held form a sequence as long as the count of held bytes.
ContentsOK == Contents \in Seq(Byte) /\ Len(Contents) = Held

(***************************************************************************)
(* The invariant makes Contents a sequence of bytes, the refinement map of *)
(* the buffer to the queue.                                                *)
(***************************************************************************)
LEMMA ContentsSeq == IInv => ContentsOK
  <1> SUFFICES ASSUME IInv PROVE ContentsOK OBVIOUS
  <1>1. Held \in Nat BY HeldBounds DEF IInv
  <1>2. \A i \in 1 .. Held : Contents[i] \in Byte BY DEF IInv, HeldIsWritten, Contents
  <1>3. Contents = [i \in 1 .. Held |-> Contents[i]] BY DEF Contents
  <1> QED BY <1>1, <1>2, <1>3, TableIsSeq DEF ContentsOK

(***************************************************************************)
(* cbuffer_remove_unsafe() drops the n oldest bytes and nothing else.      *)
(***************************************************************************)
LEMMA RemoveStep ==
  ASSUME IInv, NEW n \in Nat, RemoveBytes(n)
  PROVE  IInv' /\ Fifo!Remove
  <1> DEFINE out == last'.bytes
  <1>1. BufferTypeOK /\ HeldIsWritten BY DEF IInv
  <1>2. n \in 1 .. Held /\ n \in 1 .. Contiguous BY <1>1, HeldBounds DEF RemoveBytes
  <1>3. /\ size' = size /\ write' = write /\ data' = data
        /\ read' = Wrap(read + n, size)
        /\ out = [i \in 1 .. n |-> data[read + i - 1]]
        /\ last' = [op |-> "remove", bytes |-> out, ret |-> 0]
    BY DEF RemoveBytes
  <1>4. Held' = Held - n
    BY <1>1, <1>2, <1>3, HeldBounds DEF Held, Wrap, Contiguous, BufferTypeOK
  <1>5. ASSUME NEW i \in 1 .. Held'
        PROVE  /\ n + i \in 1 .. Held
               /\ Wrap(read' + i - 1, size') = Wrap(read + (n + i) - 1, size)
    <2>1. /\ size \in Nat /\ read \in Nat /\ n \in Nat /\ Held \in Nat
          /\ i \in Nat /\ 1 <= i /\ i <= Held - n /\ Held < size
          /\ read + n <= size /\ 1 <= n
      BY <1>1, <1>2, <1>4, HeldBounds
    <2> QED BY <2>1, <1>3 DEF Wrap
  <1>6. ASSUME NEW i \in 1 .. n
        PROVE  i \in 1 .. Held /\ read + i - 1 = Wrap(read + i - 1, size)
    BY <1>1, <1>2, HeldBounds DEF Wrap
  <1>7. out \in Seq(Byte) /\ Len(out) = n
    <2>1. \A i \in 1 .. n : out[i] \in Byte BY <1>1, <1>3, <1>6 DEF HeldIsWritten
    <2>2. out = [i \in 1 .. n |-> out[i]] BY <1>3
    <2> HIDE DEF out
    <2> QED BY <1>2, <2>1, <2>2, TableIsSeq
  <1>8. IInv'
    <2>1. HeldIsWritten' BY <1>1, <1>3, <1>5 DEF HeldIsWritten
    <2>2. read' \in 0 .. size - 1 BY <1>1, <1>2, <1>3, HeldBounds DEF Wrap
    <2>3. last' \in [op : {"new", "add", "remove", "flush"}, bytes : Seq(Byte), ret : {0, 1}]
      <3> HIDE DEF out
      <3> QED BY <1>3, <1>7
    <2>4. BufferTypeOK' BY <1>1, <1>3, <2>2, <2>3 DEF BufferTypeOK
    <2> QED BY <2>1, <2>4 DEF IInv
  <1>9. Contents \in Seq(Byte) /\ Len(Contents) = Held BY ContentsSeq DEF ContentsOK
  <1>10. Contents' \in Seq(Byte) /\ Len(Contents') = Held'
    <2>1. ContentsOK' BY <1>8, ContentsSeq, PTL
    <2> QED BY <2>1 DEF ContentsOK
  <1>11. \A i \in 1 .. n : Contents[i] = out[i] BY <1>3, <1>6 DEF Contents
  <1>12. \A i \in 1 .. Held' : Contents[n + i] = Contents'[i] BY <1>3, <1>5 DEF Contents
  <1>13. Contents = out \o Contents'
    <2>1. Held = n + Held' BY <1>1, <1>2, <1>4, HeldBounds
    <2>2. \A i \in 1 .. Len(out) : Contents[i] = out[i] BY <1>7, <1>11
    <2>3. \A i \in 1 .. Len(Contents') : Contents[Len(out) + i] = Contents'[i]
      BY <1>7, <1>10, <1>12
    <2>4. Len(Contents) = Len(out) + Len(Contents') BY <2>1, <1>7, <1>9, <1>10
    <2> HIDE DEF out
    <2> QED BY <1>7, <1>9, <1>10, <2>2, <2>3, <2>4, IsConcat
  <1> QED BY <1>3, <1>8, <1>13 DEF Fifo!Remove

(***************************************************************************)
(* cbuffer_add_unsafe() either appends the whole of d, or leaves the bytes *)
(* held as they are (in a buffer that may have grown) because the limit    *)
(* leaves no room.                                                         *)
(***************************************************************************)
LEMMA AddStep ==
  ASSUME IInv, NEW d \in Seq(Byte), Add(d)
  PROVE  IInv' /\ Fifo!Add
  <1>1. BufferTypeOK /\ HeldIsWritten BY DEF IInv
  <1>2. PICK new \in size .. MaxSize :
           LET b   == IF new = size THEN Buffer ELSE Realigned(new)
               ret == IF Len(d) + Held >= new THEN 1 ELSE 0
           IN  /\ GrownTo(new, Len(d) + Held)
               /\ Becomes(IF ret = 0 THEN Stored(b, d) ELSE b)
               /\ last' = [op |-> "add", bytes |-> d, ret |-> ret]
    BY DEF Add
  <1> DEFINE b   == IF new = size THEN Buffer ELSE Realigned(new)
             ret == IF Len(d) + Held >= new THEN 1 ELSE 0
  <1>3. /\ new \in Nat /\ size \in Nat \ {0} /\ read \in Nat /\ write \in Nat
        /\ Held \in Nat /\ Held < size /\ size <= new /\ new <= MaxSize /\ Initial <= new
        /\ MaxSize \in Nat /\ Initial \in Nat /\ Len(d) \in Nat
        /\ read < size /\ write < size
    BY <1>1, HeldBounds, SizeAssumption DEF BufferTypeOK
  <1>4. /\ b = [size |-> b.size, read |-> b.read, write |-> b.write, data |-> b.data]
        /\ b.size = new /\ b.read \in 0 .. new - 1 /\ b.write \in 0 .. new - 1
        /\ b.write = Wrap(b.read + Held, new)
    <2>1. CASE new = size BY <2>1, <1>3 DEF Buffer, Wrap, Held
    <2>2. CASE new # size BY <2>2, <1>3 DEF Realigned, Wrap
    <2> QED BY <2>1, <2>2
  <1> DEFINE br == b.read
             bw == b.write
  <1>b. /\ br \in Nat /\ bw \in Nat /\ br < new /\ bw < new
        /\ bw = IF br + Held >= new THEN br + Held - new ELSE br + Held
    BY <1>3, <1>4 DEF Wrap
  <1>5. b.data \in [0 .. new - 1 -> Byte \cup {Junk}]
    <2>1. CASE new = size BY <2>1, <1>1 DEF Buffer, BufferTypeOK
    <2>2. CASE new # size
      <3>1. \A i \in 0 .. new - 1 : i < Held => Wrap(read + i, size) \in 0 .. size - 1
        BY <1>3 DEF Wrap
      <3>2. \A i \in 0 .. new - 1 : i < Held => data[Wrap(read + i, size)] \in Byte \cup {Junk}
        BY <3>1, <1>1 DEF BufferTypeOK
      <3> QED BY <2>2, <3>2 DEF Realigned
    <2> QED BY <2>1, <2>2
  <1>6. ASSUME NEW i \in 1 .. Held
        PROVE  b.data[Wrap(b.read + i - 1, new)] = Contents[i]
    <2>1. CASE new = size BY <2>1 DEF Buffer, Contents
    <2>2. CASE new # size
      <3>1. /\ Wrap(0 + i - 1, new) = i - 1 /\ i - 1 \in 0 .. new - 1 /\ i - 1 < Held
            /\ read + (i - 1) = read + i - 1
        BY <1>3 DEF Wrap
      <3>2. b.read = 0 /\ b.data[i - 1] = data[Wrap(read + (i - 1), size)]
        BY <2>2, <3>1 DEF Realigned
      <3> QED BY <3>1, <3>2 DEF Contents
    <2> QED BY <2>1, <2>2
  <1>7. ContentsOK BY ContentsSeq
  <1>8. CASE ret = 1
    <2>1. /\ size' = new /\ read' = b.read /\ write' = b.write /\ data' = b.data
          /\ last' = [op |-> "add", bytes |-> d, ret |-> 1]
      BY <1>2, <1>4, <1>8 DEF Becomes
    <2> HIDE DEF b
    <2>2. Held' = Held
      <3>1. Held' = IF bw >= br THEN bw - br ELSE new - br + bw BY <2>1 DEF Held
      <3> HIDE DEF br, bw
      <3> QED BY <3>1, <1>3, <1>b
    <2>3. Contents' = Contents BY <2>1, <2>2, <1>6 DEF Contents
    <2>4. HeldIsWritten'
      BY <2>1, <2>2, <1>6, <1>7 DEF HeldIsWritten, ContentsOK
    <2>5. BufferTypeOK' BY <2>1, <1>3, <1>4, <1>5 DEF BufferTypeOK
    <2>6. Len(Contents) + Len(d) >= MaxSize
      <3>1. Len(d) + Held >= new BY <1>8
      <3>2. new = MaxSize BY <1>2, <1>3, <3>1 DEF GrownTo
      <3> QED BY <3>1, <3>2, <1>3, <1>7 DEF ContentsOK
    <2> QED BY <2>1, <2>3, <2>4, <2>5, <2>6 DEF IInv, Fifo!Add
  <1>9. CASE ret = 0
    <2> DEFINE K(i) == IF i >= bw THEN i - bw ELSE i - bw + new
    <2>1. Len(d) + Held < new BY <1>9, <1>3
    <2>2. /\ size' = new /\ read' = b.read /\ write' = Wrap(b.write + Len(d), new)
          /\ data' = [i \in 0 .. new - 1 |-> IF K(i) < Len(d) THEN d[K(i) + 1] ELSE b.data[i]]
          /\ last' = [op |-> "add", bytes |-> d, ret |-> 0]
      <3>1. /\ Becomes(Stored(b, d))
            /\ last' = [op |-> "add", bytes |-> d, ret |-> 0] BY <1>2, <1>9
      <3> HIDE DEF b
      <3> QED BY <3>1, <1>4 DEF Becomes, Stored
    <2> HIDE DEF b
    <2>3. Held' = Held + Len(d)
      <3>1. write' = Wrap(bw + Len(d), new) /\ read' = br /\ size' = new BY <2>2
      <3>2. Held' = IF write' >= read' THEN write' - read' ELSE size' - read' + write'
        BY DEF Held
      <3> HIDE DEF br, bw
      <3> QED BY <3>1, <3>2, <2>1, <1>3, <1>b DEF Wrap
    <2>4. ASSUME NEW i \in 1 .. Held
          PROVE  data'[Wrap(read' + i - 1, size')] = Contents[i]
      <3> DEFINE p == Wrap(br + i - 1, new)
      <3>1. p \in 0 .. new - 1 /\ ~(K(p) < Len(d))
        <4> HIDE DEF br, bw
        <4> QED BY <2>1, <1>3, <1>b DEF Wrap
      <3>2. data'[p] = b.data[p] BY <2>2, <3>1
      <3> QED BY <2>2, <3>2, <1>6
    <2>5. ASSUME NEW i \in 1 .. Len(d)
          PROVE  data'[Wrap(read' + (Held + i) - 1, size')] = d[i]
      <3> DEFINE p == Wrap(br + (Held + i) - 1, new)
      <3>1. p \in 0 .. new - 1 /\ K(p) = i - 1
        <4> HIDE DEF br, bw
        <4> QED BY <2>1, <1>3, <1>b DEF Wrap
      <3>2. K(p) < Len(d) /\ K(p) + 1 = i BY <3>1, <1>3
      <3>3. data'[p] = d[i] BY <2>2, <3>1, <3>2
      <3> QED BY <2>2, <3>3
    <2>6. HeldIsWritten'
      <3> SUFFICES ASSUME NEW i \in 1 .. Held'
                   PROVE  data'[Wrap(read' + i - 1, size')] \in Byte
        BY DEF HeldIsWritten
      <3>1. CASE i <= Held BY <3>1, <2>4, <1>3, <1>7 DEF ContentsOK
      <3>2. CASE i > Held
        <4>1. i - Held \in 1 .. Len(d) /\ Held + (i - Held) = i BY <3>2, <2>3, <1>3
        <4>2. data'[Wrap(read' + i - 1, size')] = d[i - Held] BY <4>1, <2>5
        <4> QED BY <4>1, <4>2
      <3> QED BY <3>1, <3>2, <1>3, <2>3
    <2>7. BufferTypeOK'
      <3>1. write' \in 0 .. new - 1
        <4>1. write' = Wrap(bw + Len(d), new) BY <2>2
        <4> HIDE DEF br, bw
        <4> QED BY <4>1, <2>1, <1>3, <1>b DEF Wrap
      <3>2. data' \in [0 .. new - 1 -> Byte \cup {Junk}]
        <4>1. \A i \in 0 .. new - 1 : K(i) < Len(d) => K(i) + 1 \in 1 .. Len(d)
          <5> HIDE DEF br, bw
          <5> QED BY <1>3, <1>b
        <4>2. \A i \in 0 .. new - 1 : K(i) < Len(d) => d[K(i) + 1] \in Byte BY <4>1
        <4> HIDE DEF K
        <4> QED BY <4>2, <2>2, <1>5
      <3> QED BY <3>1, <3>2, <2>2, <1>3, <1>4 DEF BufferTypeOK
    <2>8. IInv' BY <2>6, <2>7 DEF IInv
    <2>9. ContentsOK' BY <2>8, ContentsSeq, PTL
    <2>10. Contents' = Contents \o d
      <3>1. \A i \in 1 .. Len(Contents) : Contents'[i] = Contents[i]
        BY <2>3, <2>4, <1>3, <1>7 DEF Contents, ContentsOK
      <3>2. \A i \in 1 .. Len(d) : Contents'[Len(Contents) + i] = d[i]
        BY <2>3, <2>5, <1>3, <1>7 DEF Contents, ContentsOK
      <3>3. Len(Contents') = Len(Contents) + Len(d) BY <2>3, <2>9, <1>7 DEF ContentsOK
      <3> QED BY <3>1, <3>2, <3>3, <2>9, <1>7, IsConcat DEF ContentsOK
    <2> QED BY <2>2, <2>8, <2>10 DEF Fifo!Add
  <1> QED BY <1>8, <1>9

(***************************************************************************)
(* cbuffer_flush() empties the queue.                                      *)
(***************************************************************************)
LEMMA FlushStep ==
  ASSUME IInv, Flush
  PROVE  IInv' /\ Fifo!Flush
  <1>1. BufferTypeOK' /\ Held' = 0 BY SizeAssumption DEF IInv, Flush, BufferTypeOK, Held
  <1>2. HeldIsWritten' BY <1>1 DEF HeldIsWritten
  <1>3. Contents' = << >> BY <1>1 DEF Contents
  <1> QED BY <1>1, <1>2, <1>3 DEF IInv, Flush, Fifo!Flush

(***************************************************************************)
(* Every call, and a stuttering step, preserves the invariant and is a     *)
(* step of the queue.                                                      *)
(***************************************************************************)
LEMMA NextStep ==
  ASSUME IInv, [BufferNext]_bufferVars
  PROVE  IInv' /\ [Fifo!Next]_<<Contents, last>>
  <1>1. CASE \E d \in Chunks : Add(d)
    BY <1>1, AddStep, ByteAssumption DEF Fifo!Next
  <1>2. CASE \E n \in 1 .. size : RemoveBytes(n)
    <2>1. size \in Nat BY HeldBounds DEF IInv
    <2> QED BY <1>2, <2>1, RemoveStep DEF Fifo!Next
  <1>3. CASE Flush BY <1>3, FlushStep DEF Fifo!Next
  <1>4. CASE UNCHANGED bufferVars
    BY <1>4 DEF bufferVars, IInv, BufferTypeOK, HeldIsWritten, Held, Wrap, Contents
  <1> QED BY <1>1, <1>2, <1>3, <1>4 DEF BufferNext

(***************************************************************************)
(* circular_buffer.c: the positions always lie inside the buffer, and only *)
(* bytes that were stored lie between them.                                *)
(***************************************************************************)
THEOREM Safety == BufferSpec => [](BufferTypeOK /\ HeldIsWritten)
  <1>1. IInv /\ [BufferNext]_bufferVars => IInv' BY NextStep
  <1> QED BY InitIInv, <1>1, PTL DEF BufferSpec, IInv

(***************************************************************************)
(* circular_buffer.c: the buffer implements the queue of ByteFifo: no call *)
(* loses, duplicates or reorders a byte.                                   *)
(***************************************************************************)
THEOREM Refinement == BufferSpec => FifoSpec
  <1>1. BufferInit => Fifo!Init BY SizeAssumption DEF BufferInit, Fifo!Init, Contents, Held
  <1>2. IInv /\ [BufferNext]_bufferVars => IInv' BY NextStep
  <1>3. IInv /\ [BufferNext]_bufferVars => [Fifo!Next]_<<Contents, last>> BY NextStep
  <1> QED BY InitIInv, <1>1, <1>2, <1>3, PTL DEF BufferSpec, Fifo!Spec, FifoSpec
=============================================================================
