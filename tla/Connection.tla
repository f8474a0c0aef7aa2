------------------------------ MODULE Connection ------------------------------
(***************************************************************************)
(* connection_t with its event_t, its two ring buffers and its socket, all *)
(* driven by one event loop thread (mevent/connection.c, event.c, epoll.c).*)
(*                                                                         *)
(* Buffers and sockets carry units, not bytes: a unit is a piece of a      *)
(* request or of a response that the kernel may deliver on its own.        *)
(* State_Closed is written by the code into memory it has just freed, so   *)
(* it is never a value of state: the freed connection is mem = "freed".    *)
(***************************************************************************)
EXTENDS Integers, Sequences

CONSTANTS
    Conns,      \* connections, each a distinct socket
    SndBuf,     \* units the kernel holds for a socket whose peer has not read them
    Kinds       \* kinds of request a client can make

ASSUME SndBufAssumption == SndBuf \in Nat \ {0}

VARIABLES
    mem,        \* heap life of the connection_t and the request_t that goes with it
    state,      \* conn->state
    want,       \* EPOLLOUT in ev->event_flag and in the epoll interest list
    rbuf,       \* readable content of conn->ring_buffer_read
    wbuf,       \* readable content of conn->ring_buffer_write
    block,      \* its start and cap; its end is start + Len(wbuf)
    inq,        \* units received by the kernel and not yet read
    fin,        \* the peer has shut down its sending side
    reset,      \* the peer has reset the connection
    room,       \* free units in the kernel's send queue
    wire        \* everything the kernel has accepted for the peer, in order

connVars == <<mem, state, want, rbuf, wbuf, block>>
sockVars == <<inq, fin, reset, room, wire>>

Mem == {"unborn", "live", "leaked", "freed"}
InUnit == [req : Nat, kind : Kinds, part : {1, 2}]
OutUnit == [resp : Nat, part : {"head", "body", "page", "foreign"}]
Blocks == [start : Nat, cap : Nat]

ConnTypeOK ==
    /\ mem \in [Conns -> Mem]
    /\ state \in [Conns -> {"open", "closing"}]
    /\ want \in [Conns -> BOOLEAN]
    /\ rbuf \in [Conns -> Seq(InUnit)]
    /\ wbuf \in [Conns -> Seq(OutUnit)]
    /\ block \in [Conns -> Blocks]
    /\ inq \in [Conns -> Seq(InUnit)]
    /\ fin \in [Conns -> BOOLEAN]
    /\ reset \in [Conns -> BOOLEAN]
    /\ room \in [Conns -> 0..SndBuf]
    /\ wire \in [Conns -> Seq(OutUnit)]

ConnInit ==
    /\ mem = [c \in Conns |-> "unborn"]
    /\ state = [c \in Conns |-> "open"]
    /\ want = [c \in Conns |-> FALSE]
    /\ rbuf = [c \in Conns |-> <<>>]
    /\ wbuf = [c \in Conns |-> <<>>]
    /\ block = [c \in Conns |-> [start |-> 0, cap |-> 0]]
    /\ inq = [c \in Conns |-> <<>>]
    /\ fin = [c \in Conns |-> FALSE]
    /\ reset = [c \in Conns |-> FALSE]
    /\ room = [c \in Conns |-> SndBuf]
    /\ wire = [c \in Conns |-> <<>>]

-----------------------------------------------------------------------------
(* Readiness as epoll_wait reports it (level triggered).                   *)

HupReady(c) == reset[c]
InReady(c) == inq[c] # <<>> \/ fin[c]
OutReady(c) == want[c] /\ room[c] > 0

-----------------------------------------------------------------------------
(* System calls on the socket.                                             *)

(* Mutant of Accepted: the kernel's queue has no limit.                    *)
AcceptedAlways(c, len) == IF reset[c] THEN 0 ELSE len

(* send and sendfile take at most len units, as many as there is room for; *)
(* 0 stands for their -1, on a full queue (EAGAIN) or a reset peer.        *)
Accepted(c, len) ==
    IF reset[c] THEN 0 ELSE IF len <= room[c] THEN len ELSE room[c]

Transmit(c, units) ==
    /\ wire' = [wire EXCEPT ![c] = @ \o units]
    /\ room' = [room EXCEPT ![c] = @ - Len(units)]
    /\ UNCHANGED <<inq, fin, reset>>

-----------------------------------------------------------------------------
(* ring_buffer.c, as far as it concerns the write buffer (RingBuffer has   *)
(* all of it).                                                             *)

(* ring_buffer_push_data of one unit into the block b that holds used of   *)
(* them: the block then. A unit goes in front of it when bytes enough have *)
(* been released there, or into a new block; but bytes released in front   *)
(* count as room behind.                                                   *)
Placed(b, used) ==
    IF b.cap - used >= 1 THEN b
    ELSE IF b.start > 1 THEN [b EXCEPT !.start = 0]
    ELSE [start |-> 0, cap |-> b.cap * 2 + 1]

(* The unit is written behind the end of the block.                        *)
Outside(c) ==
    LET b == Placed(block[c], Len(wbuf[c])) IN b.start + Len(wbuf[c]) >= b.cap

(* What the buffer then gives back for it: behind the block, itself or     *)
(* whatever the memory there is used for.                                  *)
Pushed(c, unit) ==
    IF Outside(c) THEN {unit, [unit EXCEPT !.part = "foreign"]} ELSE {unit}

PushData(c, unit) ==
    /\ \E u \in Pushed(c, unit) : wbuf' = [wbuf EXCEPT ![c] = Append(@, u)]
    /\ block' = [block EXCEPT ![c] = Placed(@, Len(wbuf[c]))]

(* Mutant of Released: an emptied buffer stays where it is.                *)
ReleasedInPlace(b, used, n) == [b EXCEPT !.start = @ + n]

(* ring_buffer_release_bytes of n of the used units in block b.            *)
Released(b, used, n) == [b EXCEPT !.start = IF n = used THEN 0 ELSE @ + n]

-----------------------------------------------------------------------------
(* connection.c                                                            *)

(* The callback frees the request, then the event and the connection go.   *)
ConnectionFree(c) ==
    mem' = [mem EXCEPT ![c] = "freed"]

(* Mutants of Disconnect: pending output is dropped; or its sending is     *)
(* left to nobody.                                                         *)
DisconnectAtOnce(c) ==
    /\ state' = [state EXCEPT ![c] = "closing"]
    /\ ConnectionFree(c)
    /\ UNCHANGED want

DisconnectUnarmed(c) ==
    /\ state' = [state EXCEPT ![c] = "closing"]
    /\ IF wbuf[c] = <<>> THEN ConnectionFree(c) ELSE UNCHANGED mem
    /\ UNCHANGED want

(* connection_disconnect, behind connection_passive_close and              *)
(* connection_active_close: pending output postpones the close.            *)
Disconnect(c) ==
    /\ state' = [state EXCEPT ![c] = "closing"]
    /\ \/ /\ wbuf[c] # <<>>
          /\ want' = [want EXCEPT ![c] = TRUE]
          /\ UNCHANGED mem
       \/ /\ wbuf[c] = <<>>
          /\ ConnectionFree(c)
          /\ UNCHANGED want

(* readv into the read buffer. The data lands at the readable start, which *)
(* is where it belongs only while the buffer is empty, as it then is.      *)
ReadBuffer(c) ==
    /\ inq[c] # <<>>
    /\ rbuf' = [rbuf EXCEPT ![c] = @ \o inq[c]]
    /\ inq' = [inq EXCEPT ![c] = <<>>]
    /\ UNCHANGED <<mem, state, want, wbuf, block, fin, reset, room, wire>>

(* Mutant of SendAndRelease: a partial send releases everything.           *)
SendAndReleaseAll(c, n) ==
    /\ Transmit(c, SubSeq(wbuf[c], 1, n))
    /\ wbuf' = [wbuf EXCEPT ![c] = IF n = 0 THEN @ ELSE <<>>]
    /\ block' = [block EXCEPT ![c] = Released(@, n, n)]

(* send of the whole write buffer, then release of the n units that went.  *)
SendAndRelease(c, n) ==
    /\ Transmit(c, SubSeq(wbuf[c], 1, n))
    /\ wbuf' = [wbuf EXCEPT ![c] = SubSeq(@, n + 1, Len(@))]
    /\ block' = [block EXCEPT ![c] = Released(@, Len(wbuf[c]), n)]

(* Mutant of SendBuffer: a partial send arms nothing.                      *)
SendBufferUnarmed(c, result) ==
    LET n == Accepted(c, Len(wbuf[c])) IN
    /\ SendAndRelease(c, n)
    /\ result = IF n = 0 THEN -1 ELSE IF n < Len(wbuf[c]) THEN 1 ELSE 0
    /\ UNCHANGED <<mem, state, want, rbuf>>

(* connection_send_buffer; result is its return value.                     *)
SendBuffer(c, result) ==
    LET n == Accepted(c, Len(wbuf[c])) IN
    /\ SendAndRelease(c, n)
    /\ \/ /\ n = 0
          /\ result = -1
          /\ UNCHANGED want
       \/ /\ n \in 1..(Len(wbuf[c]) - 1)
          /\ result = 1
          /\ want' = [want EXCEPT ![c] = TRUE]
       \/ /\ n # 0
          /\ n = Len(wbuf[c])
          /\ result = 0
          /\ UNCHANGED want
    /\ UNCHANGED <<mem, state, rbuf>>

(* Mutant of WritableCallback: the postponed close is forgotten.           *)
WritableCallbackKeeps(c) ==
    LET n == Accepted(c, Len(wbuf[c])) IN
    /\ SendAndRelease(c, n)
    /\ want' = [want EXCEPT ![c] = n < Len(wbuf[c])]
    /\ UNCHANGED <<mem, state, rbuf>>

(* event_writable_callback. On a freed connection it runs on stale memory, *)
(* where the write buffer it finds is an empty one.                        *)
WritableCallback(c) ==
    LET n == Accepted(c, Len(wbuf[c])) IN
    \/ /\ n = 0
       /\ UNCHANGED <<connVars, sockVars>>
    \/ /\ n \in 1..(Len(wbuf[c]) - 1)
       /\ SendAndRelease(c, n)
       /\ UNCHANGED <<mem, state, want, rbuf>>
    \/ /\ n # 0
       /\ n = Len(wbuf[c])
       /\ SendAndRelease(c, n)
       /\ want' = [want EXCEPT ![c] = FALSE]
       /\ \/ state[c] = "closing" /\ ConnectionFree(c)
          \/ state[c] = "open" /\ UNCHANGED mem
       /\ UNCHANGED <<state, rbuf>>

(* event_error_handler: frees the event and closes the socket; the         *)
(* connection and the request stay allocated and nothing refers to them.   *)
ErrorHandler(c) ==
    /\ mem' = [mem EXCEPT ![c] = "leaked"]
    /\ UNCHANGED <<state, want, rbuf, wbuf, block, sockVars>>

=============================================================================
