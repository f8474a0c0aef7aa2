------------------------------ MODULE RingBuffer ------------------------------
(***************************************************************************)
(* ring_buffer_t (mevent/ring_buffer.c) and the readv that fills it        *)
(* (read_buffer in mevent/connection.c). The block msg has cap cells; what *)
(* the code writes beyond it is lost, what it reads beyond it is Foreign.  *)
(***************************************************************************)
EXTENDS Integers, Sequences

CONSTANTS
    Byte,           \* values of a byte of data
    Zero, Junk, Foreign, \* a cleared cell, an uninitialised one, one not of the block
    MaxPush,        \* bound: bytes handed over by one call
    MaxCap,         \* bound: size the block may grow to, and end may reach
    Disciplined     \* callers push only while nothing at the front has been
                    \* released, and readv only into an empty buffer

ASSUME RingAssumption ==
    /\ MaxPush \in Nat
    /\ MaxCap \in Nat
    /\ Disciplined \in BOOLEAN

VARIABLES
    rb,         \* the ring_buffer_t
    given       \* history: the data of the latest push or read

vars == <<rb, given>>

Cell == Byte \cup {Zero, Junk, Foreign}
Data == UNION {[1..n -> Byte] : n \in 1..MaxPush}

Init ==
    /\ rb = [start |-> 0, end |-> 0, cap |-> 0, msg |-> [k \in 0..-1 |-> Zero]]
    /\ given = <<>>

-----------------------------------------------------------------------------
(* Queries.                                                                *)

Used(r) == r.end - r.start

(* What ring_buffer_push_data takes for the room left in the block; the    *)
(* released bytes at the front count as room.                              *)
Room(r) == r.cap - Used(r)

(* ring_buffer_available_bytes: what is left of the block behind the data. *)
AvailableBytes(r) == r.cap - r.end

At(r, k) == IF k < r.cap THEN r.msg[k] ELSE Foreign

(* ring_buffer_get_msg: the readable bytes.                                *)
Content(r) == [i \in 1..Used(r) |-> At(r, r.start + i - 1)]

-----------------------------------------------------------------------------
(* Updates.                                                                *)

(* memcpy(msg + at, data, size) into a block of size cells.                *)
Written(msg, size, at, data) ==
    [k \in 0..(size - 1) |->
        IF at <= k /\ k < at + Len(data) THEN data[k - at + 1] ELSE msg[k]]

InPlace(r, data) ==
    [start |-> r.start, end |-> r.end + Len(data), cap |-> r.cap,
     msg |-> Written(r.msg, r.cap, r.end, data)]

(* memmove to the front, then memcpy behind.                               *)
Shifted(r, data) ==
    LET moved == [k \in 0..(r.cap - 1) |->
                    IF k < Used(r) THEN At(r, r.start + k) ELSE r.msg[k]]
    IN [start |-> 0, end |-> Used(r) + Len(data), cap |-> r.cap,
        msg |-> Written(moved, r.cap, Used(r), data)]

(* Mutant of Grown: the new block is twice the old one.                    *)
GrownDouble(r, data) ==
    LET copied == [k \in 0..(r.cap * 2 - 1) |->
                     IF k < Used(r) THEN At(r, r.start + k) ELSE Junk]
    IN [start |-> 0, end |-> Used(r) + Len(data), cap |-> r.cap * 2,
        msg |-> Written(copied, r.cap * 2, Used(r), data)]

(* A new block, of which the rest is whatever malloc returns.              *)
Grown(r, data) ==
    LET size == r.cap * 2 + Len(data)
        copied == [k \in 0..(size - 1) |->
                     IF k < Used(r) THEN At(r, r.start + k) ELSE Junk]
    IN [start |-> 0, end |-> Used(r) + Len(data), cap |-> size,
        msg |-> Written(copied, size, Used(r), data)]

(* ring_buffer_push_data                                                   *)
PushData(r, data) ==
    IF Room(r) >= Len(data) THEN InPlace(r, data)
    ELSE IF r.start > Len(data) THEN Shifted(r, data)
    ELSE Grown(r, data)

(* ring_buffer_release_bytes                                               *)
ReleaseBytes(r, n) ==
    LET emptied == r.start + n = r.end IN
    [start |-> IF emptied THEN 0 ELSE r.start + n,
     end |-> IF emptied THEN 0 ELSE r.end,
     cap |-> r.cap,
     msg |-> [k \in 0..(r.cap - 1) |->
                IF r.start <= k /\ k < r.start + n THEN Zero ELSE r.msg[k]]]

(* Mutant of ReadInto: all of the data is pushed after the direct part.    *)
ReadIntoTwice(r, data) ==
    LET avail == AvailableBytes(r)
        direct == [start |-> r.start, end |-> r.end + avail, cap |-> r.cap,
                   msg |-> Written(r.msg, r.cap, r.start, SubSeq(data, 1, avail))]
    IN IF Len(data) <= avail
       THEN [start |-> r.start, end |-> r.end + Len(data), cap |-> r.cap,
             msg |-> Written(r.msg, r.cap, r.start, data)]
       ELSE PushData(direct, data)

(* read_buffer: readv scatters the data over the block, from the readable  *)
(* start on, and the stack, from where the rest is pushed.                 *)
ReadInto(r, data) ==
    LET avail == AvailableBytes(r)
        direct == [start |-> r.start, end |-> r.end + avail, cap |-> r.cap,
                   msg |-> Written(r.msg, r.cap, r.start, SubSeq(data, 1, avail))]
    IN IF Len(data) <= avail
       THEN [start |-> r.start, end |-> r.end + Len(data), cap |-> r.cap,
             msg |-> Written(r.msg, r.cap, r.start, data)]
       ELSE PushData(direct, SubSeq(data, avail + 1, Len(data)))

-----------------------------------------------------------------------------

Push(data) ==
    /\ Disciplined => rb.start = 0
    /\ rb' = PushData(rb, data)
    /\ rb'.cap <= MaxCap
    /\ rb'.end <= MaxCap
    /\ given' = data

Read(data) ==
    /\ Disciplined => rb.start = rb.end
    /\ AvailableBytes(rb) >= 0
    /\ rb' = ReadInto(rb, data)
    /\ rb'.cap <= MaxCap
    /\ rb'.end <= MaxCap
    /\ given' = data

Release(n) ==
    /\ rb' = ReleaseBytes(rb, n)
    /\ given' = <<>>

Next ==
    \/ \E data \in Data : Push(data)
    \/ \E data \in Data : Read(data)
    \/ \E n \in 1..Used(rb) : Release(n)

Spec == Init /\ [][Next]_vars

-----------------------------------------------------------------------------
(* Properties                                                              *)

TypeOK ==
    /\ rb.start \in Nat /\ rb.end \in Nat /\ rb.cap \in Nat
    /\ rb.msg \in [0..(rb.cap - 1) -> Cell]
    /\ rb = [start |-> rb.start, end |-> rb.end, cap |-> rb.cap, msg |-> rb.msg]

(* The readable bytes never reach beyond the block: under the discipline   *)
(* the test `available < size` of ring_buffer.c:27, which ignores where    *)
(* the data lies in the block, is good enough.                             *)
InBounds == rb.end <= rb.cap

(* An emptied buffer starts again at the front of its block                *)
(* (ring_buffer.c:95-97): the readv at the readable start relies on it.    *)
EmptyIsReset ==
    /\ rb.start <= rb.end
    /\ rb.start = rb.end => rb.start = 0

(* Whatever the callers do, the first overrun of a block comes from data   *)
(* appended while released bytes lie at its front.                         *)
Overruns == rb.end <= rb.cap /\ rb'.end > rb'.cap

OverrunNeedsReleased == [][Overruns => rb.start > 0]_vars

(* In a block that is not overrun, a push never takes the branch that moves*)
(* the data to the front (ring_buffer.c:28-33): whenever there are bytes   *)
(* enough to reclaim there, line 27 finds the room sufficient as it is.    *)
ShiftIsDead ==
    InBounds => \A data \in Data : Room(rb) < Len(data) => rb.start <= Len(data)

(* Under the discipline the buffer is a queue of bytes.                    *)
Queue == INSTANCE ByteQueue WITH queue <- Content(rb)
IsQueue == Queue!Spec

=============================================================================
