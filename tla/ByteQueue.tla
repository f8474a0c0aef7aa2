------------------------------- MODULE ByteQueue -------------------------------
(***************************************************************************)
(* What a connection expects of its read and write buffers: the bytes it   *)
(* hands over come out in the order it put them in, none lost, none        *)
(* changed, none repeated. RingBuffer implements it as long as its callers *)
(* keep to a discipline.                                                   *)
(***************************************************************************)
EXTENDS Sequences, Naturals

CONSTANT Byte

VARIABLES
    queue,      \* the bytes held
    given       \* the bytes that the latest call handed over

Init == queue = <<>> /\ given = <<>>

Push ==
    /\ given' \in Seq(Byte)
    /\ queue' = queue \o given'

Release ==
    /\ given' = <<>>
    /\ \E n \in 0..Len(queue) : queue' = SubSeq(queue, n + 1, Len(queue))

Next == Push \/ Release

Spec == Init /\ [][Next]_<<queue, given>>

=============================================================================
