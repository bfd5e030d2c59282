------------------------------ MODULE ByteFifo ------------------------------
(***************************************************************************)
(* What a byte buffer between one producer and one consumer promises,      *)
(* whatever its layout in memory: bytes leave in the order in which they   *)
(* entered, an addition is taken whole or refused whole, it is refused     *)
(* only when the bytes would not fit below the limit, and nothing is       *)
(* invented.  CircularBuffer implements this specification.                *)
(***************************************************************************)
EXTENDS Naturals, Sequences

CONSTANTS
  Byte,       \* the values a byte can take
  Limit       \* max_size: the buffer never holds Limit bytes or more

VARIABLES
  queue,      \* the bytes added and not yet removed, oldest first
  last        \* the last call: its name, the bytes it moved, its result

Init ==
  /\ queue = << >>
  /\ last = [op |-> "new", bytes |-> << >>, ret |-> 0]

Add ==
  /\ last'.op = "add"
  /\ \/ last'.ret = 0 /\ queue' = queue \o last'.bytes
     \/ /\ last'.ret = 1 /\ queue' = queue
        /\ Len(queue) + Len(last'.bytes) >= Limit

Remove ==
  /\ last'.op = "remove"
  /\ queue = last'.bytes \o queue'

Flush ==
  /\ last'.op = "flush"
  /\ queue' = << >>

Next == Add \/ Remove \/ Flush

Spec == Init /\ [][Next]_<<queue, last>>
=============================================================================
