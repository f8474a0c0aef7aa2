---------------------------- MODULE HttpConnection ----------------------------
(***************************************************************************)
(* The web server on one event loop: the reactor dispatches an event of a  *)
(* connection (event_loop.c, epoll.c, event.c), the connection reads and   *)
(* writes (Connection), and its message callback is http_request           *)
(* (web/http_server.c, web/http_request.c). One step of the thread is the  *)
(* code between two system calls on the socket, so the peer and the kernel *)
(* move between any two of them, or one push of a head into the write      *)
(* buffer. Which files the handlers open and close is in HttpRequest.      *)
(***************************************************************************)
EXTENDS Connection, FiniteSets

CONSTANTS
    HeadLen,        \* lines of a response's head, each a unit pushed on its own
    BodyLen,        \* units of the file sent after them, and of error.html
    MaxRequests,    \* bound: requests a client makes on one connection
    WholeRequests,  \* the clients' requests never arrive in two segments
    AwaitResponse   \* the clients ask again only after a complete answer

ASSUME HttpAssumption ==
    /\ HeadLen \in Nat \ {0}
    /\ BodyLen \in Nat
    /\ MaxRequests \in Nat
    /\ WholeRequests \in BOOLEAN
    /\ AwaitResponse \in BOOLEAN
    /\ Kinds = {"keep", "close", "fail"}

VARIABLES
    pc,         \* what the event loop thread does next
    cur,        \* the connection whose event it is handling
    out,        \* EPOLLOUT in the ev->active_event it is handling
    keep,       \* req->par.keep_alive
    pushed,     \* lines of the head in hand that are in the write buffer
    answers,    \* outcome of each http_request call on a connection
    asked,      \* requests the client has started on a connection
    unsent      \* rest of the client's current request

loopVars == <<pc, cur, out, keep, pushed, answers>>
clientVars == <<asked, unsent>>
vars == <<connVars, sockVars, loopVars, clientVars>>

Labels == {"wait", "error", "read", "request", "head", "sendhead", "sendfile",
           "page", "finish", "write", "down"}
Statuses == {"ok", "fail", "again", "bad"}

TypeOK ==
    /\ ConnTypeOK
    /\ pc \in Labels
    /\ cur \in Conns
    /\ out \in BOOLEAN
    /\ keep \in BOOLEAN
    /\ pushed \in 0..HeadLen
    /\ answers \in [Conns -> Seq([req : Nat, status : Statuses])]
    /\ asked \in [Conns -> Seq(Kinds)]
    /\ unsent \in [Conns -> Seq(InUnit)]

Init ==
    /\ ConnInit
    /\ pc = "wait"
    /\ cur \in Conns
    /\ out = FALSE
    /\ keep = FALSE
    /\ pushed = 0
    /\ answers = [c \in Conns |-> <<>>]
    /\ asked = [c \in Conns |-> <<>>]
    /\ unsent = [c \in Conns |-> <<>>]

-----------------------------------------------------------------------------
(* The reactor.                                                            *)

(* event_accept_callback when the main thread is the only loop.            *)
Accept(c) ==
    /\ pc = "wait"
    /\ mem[c] = "unborn"
    /\ mem' = [mem EXCEPT ![c] = "live"]
    /\ UNCHANGED <<state, want, rbuf, wbuf, block, sockVars, loopVars, clientVars>>

(* epoll_wait returns an event of c and event_handler tests its mask; the  *)
(* mask is not read again while its handlers run.                          *)
Dispatch(c) ==
    /\ pc = "wait"
    /\ mem[c] = "live"
    /\ \/ HupReady(c) /\ pc' = "error"
       \/ ~HupReady(c) /\ InReady(c) /\ pc' = "read"
       \/ ~HupReady(c) /\ ~InReady(c) /\ OutReady(c) /\ pc' = "write"
    /\ cur' = c
    /\ out' = OutReady(c)
    /\ UNCHANGED <<connVars, sockVars, keep, pushed, answers, clientVars>>

(* Return of the read handler to event_handler, which tests EPOLLOUT in    *)
(* the event: in memory just freed if the handler closed the connection,   *)
(* so that the test can then go either way.                                *)
AfterRead(c) ==
    \/ mem'[c] = "freed" /\ pc' \in {"write", "wait"}
    \/ mem'[c] # "freed" /\ out /\ pc' = "write"
    \/ mem'[c] # "freed" /\ ~out /\ pc' = "wait"

(* Mutant of HandleError: event_handler goes on to its next test.          *)
HandleErrorGoesOn ==
    /\ pc = "error"
    /\ ErrorHandler(cur)
    /\ pc' = "read"
    /\ UNCHANGED <<cur, out, keep, pushed, answers, clientVars>>

HandleError ==
    /\ pc = "error"
    /\ ErrorHandler(cur)
    /\ pc' = "wait"
    /\ UNCHANGED <<cur, out, keep, pushed, answers, clientVars>>

(* event_readable_callback with data: the message callback comes next.     *)
ReadData ==
    /\ pc = "read"
    /\ ReadBuffer(cur)
    /\ pc' = "request"
    /\ UNCHANGED <<cur, out, keep, pushed, answers, clientVars>>

(* event_readable_callback with nread <= 0: end of file or an error.       *)
ReadEnd ==
    /\ pc = "read"
    /\ inq[cur] = <<>>
    /\ Disconnect(cur)
    /\ AfterRead(cur)
    /\ UNCHANGED <<rbuf, wbuf, block, sockVars, cur, out, keep, pushed, answers,
                   clientVars>>

HandleWrite ==
    /\ pc = "write"
    /\ WritableCallback(cur)
    /\ pc' = "wait"
    /\ UNCHANGED <<cur, out, keep, pushed, answers, clientVars>>

-----------------------------------------------------------------------------
(* http_request                                                            *)

(* What the three request handlers make of the read buffer: the answer's   *)
(* status, for a request q[1].req. Only the first request is looked at.    *)
Parse(q) ==
    IF q[1].part = 2 THEN "bad"
    ELSE IF q[1].kind = "fail" THEN "fail"
    ELSE IF Len(q) = 1 THEN "again"
    ELSE "ok"

BodyOf(n, len) == [i \in 1..len |-> [resp |-> n, part |-> "body"]]
PageOf(n, len) == [i \in 1..len |-> [resp |-> n, part |-> "page"]]

(* History: the serial number of the latest answer, and its outcome.       *)
Serial(c) == Len(answers[c])
Outcome(c) == answers[c][Serial(c)].status

(* Mutant of Consumed: only the request line is consumed.                  *)
ConsumedLine(q) == 1

(* http_request releases what the buffer held when it was called.          *)
Consumed(q) == Len(q)

(* http_request_handle_reset, the request handlers and the release of the  *)
(* whole read buffer. An error answer drops keep_alive.                    *)
HandleRequest ==
    LET q == rbuf[cur]
        status == Parse(q)
    IN
    /\ pc = "request"
    /\ answers' = [answers EXCEPT
                     ![cur] = Append(@, [req |-> q[1].req, status |-> status])]
    /\ rbuf' = [rbuf EXCEPT ![cur] = SubSeq(@, Consumed(q) + 1, Len(@))]
    /\ keep' = (status = "ok" /\ q[1].kind = "keep")
    /\ pushed' = 0
    /\ pc' = "head"
    /\ UNCHANGED <<mem, state, want, wbuf, block, sockVars, cur, out, clientVars>>

(* One of the response_append_* calls. When it writes behind the block the *)
(* process may go down; what else the write may damage is left out.        *)
AppendHead ==
    /\ pc = "head"
    /\ PushData(cur, [resp |-> Serial(cur), part |-> "head"])
    /\ pushed' = pushed + 1
    /\ \/ pushed' < HeadLen /\ UNCHANGED pc
       \/ pushed' = HeadLen /\ Outcome(cur) = "ok" /\ pc' = "sendhead"
       \/ pushed' = HeadLen /\ Outcome(cur) # "ok" /\ pc' = "page"
       \/ Outside(cur) /\ pc' = "down"
    /\ UNCHANGED <<mem, state, want, rbuf, sockVars, cur, out, keep, answers,
                   clientVars>>

(* Mutant of SendHead: the file is sent after a partial head as well.      *)
SendHeadAnyway ==
    /\ pc = "sendhead"
    /\ \E result \in {-1, 0, 1} :
          /\ SendBuffer(cur, result)
          /\ pc' = IF result >= 0 THEN "sendfile" ELSE "finish"
    /\ UNCHANGED <<cur, out, keep, pushed, answers, clientVars>>

(* response_handle_send_line_and_header: the file follows only when all of *)
(* the write buffer went out at once.                                      *)
SendHead ==
    /\ pc = "sendhead"
    /\ \E result \in {-1, 0, 1} :
          /\ SendBuffer(cur, result)
          /\ pc' = IF result = 0 THEN "sendfile" ELSE "finish"
    /\ UNCHANGED <<cur, out, keep, pushed, answers, clientVars>>

(* response_handle_send_file: one sendfile, however much of it is taken.   *)
SendFile ==
    /\ pc = "sendfile"
    /\ Transmit(cur, BodyOf(Serial(cur), Accepted(cur, BodyLen)))
    /\ pc' = "finish"
    /\ UNCHANGED <<connVars, cur, out, keep, pushed, answers, clientVars>>

(* response_assemble_err_buffer after the head is in the write buffer:     *)
(* error.html goes straight to the socket.                                 *)
SendPage ==
    /\ pc = "page"
    /\ Transmit(cur, PageOf(Serial(cur), Accepted(cur, BodyLen)))
    /\ pc' = "finish"
    /\ UNCHANGED <<connVars, cur, out, keep, pushed, answers, clientVars>>

(* The end of http_request: active close of a short connection. What       *)
(* http_request_handle_unint then does with the file is in HttpRequest.    *)
Finish ==
    /\ pc = "finish"
    /\ \/ keep /\ UNCHANGED <<mem, state, want>>
       \/ ~keep /\ Disconnect(cur)
    /\ AfterRead(cur)
    /\ UNCHANGED <<rbuf, wbuf, block, sockVars, cur, out, keep, pushed, answers,
                   clientVars>>

-----------------------------------------------------------------------------
(* Clients and the network.                                                *)

Served(c, k) ==
    Cardinality({i \in DOMAIN wire[c] : wire[c][i].resp = k}) = HeadLen + BodyLen

(* A client that waits has read all of every earlier answer, and none of   *)
(* them told it that the connection closes.                                *)
MayAsk(c) ==
    /\ mem[c] = "live"
    /\ ~fin[c]
    /\ ~reset[c]
    /\ Len(asked[c]) < MaxRequests
    /\ unsent[c] = <<>>
    /\ AwaitResponse =>
          /\ room[c] = SndBuf
          /\ \A k \in DOMAIN asked[c] : asked[c][k] = "keep" /\ Served(c, k)

Unit(c, kind, part) == [req |-> Len(asked[c]) + 1, kind |-> kind, part |-> part]

(* A request arrives in one segment, or its first half does.               *)
ClientAsk(c, kind) ==
    /\ MayAsk(c)
    /\ asked' = [asked EXCEPT ![c] = Append(@, kind)]
    /\ \/ /\ inq' = [inq EXCEPT ![c] = @ \o <<Unit(c, kind, 1), Unit(c, kind, 2)>>]
          /\ UNCHANGED unsent
       \/ /\ ~WholeRequests
          /\ inq' = [inq EXCEPT ![c] = Append(@, Unit(c, kind, 1))]
          /\ unsent' = [unsent EXCEPT ![c] = <<Unit(c, kind, 2)>>]
    /\ UNCHANGED <<connVars, fin, reset, room, wire, loopVars>>

ClientRest(c) ==
    /\ mem[c] = "live"
    /\ ~fin[c]
    /\ ~reset[c]
    /\ unsent[c] # <<>>
    /\ inq' = [inq EXCEPT ![c] = @ \o unsent[c]]
    /\ unsent' = [unsent EXCEPT ![c] = <<>>]
    /\ UNCHANGED <<connVars, fin, reset, room, wire, loopVars, asked>>

ClientShutdown(c) ==
    /\ mem[c] = "live"
    /\ ~fin[c]
    /\ fin' = [fin EXCEPT ![c] = TRUE]
    /\ UNCHANGED <<connVars, inq, reset, room, wire, loopVars, clientVars>>

ClientReset(c) ==
    /\ mem[c] = "live"
    /\ ~reset[c]
    /\ reset' = [reset EXCEPT ![c] = TRUE]
    /\ UNCHANGED <<connVars, inq, fin, room, wire, loopVars, clientVars>>

(* The peer reads, which frees a unit of the kernel's send queue.          *)
Drain(c) ==
    /\ mem[c] = "live"
    /\ ~reset[c]
    /\ room[c] < SndBuf
    /\ room' = [room EXCEPT ![c] = @ + 1]
    /\ UNCHANGED <<connVars, inq, fin, reset, wire, loopVars, clientVars>>

-----------------------------------------------------------------------------

Handler ==
    \/ HandleError \/ ReadData \/ ReadEnd \/ HandleWrite
    \/ HandleRequest \/ AppendHead \/ SendHead \/ SendFile \/ SendPage \/ Finish

Environment(c) ==
    \/ \E kind \in Kinds : ClientAsk(c, kind)
    \/ ClientRest(c)
    \/ ClientShutdown(c)
    \/ ClientReset(c)
    \/ Drain(c)

Next ==
    \/ Handler
    \/ \E c \in Conns : Accept(c) \/ Dispatch(c) \/ Environment(c)

Spec == Init /\ [][Next]_vars

(* The thread never stops inside a handler; epoll_wait returns up to       *)
(* MAX_EVENTS ready descriptors and takes them in turn, so no ready one is *)
(* passed over for ever; and a peer that has not gone away reads.          *)
Fairness ==
    /\ WF_vars(Handler)
    /\ \A c \in Conns : SF_vars(Dispatch(c)) /\ WF_vars(Drain(c))

FairSpec == Spec /\ Fairness

-----------------------------------------------------------------------------
(* Properties                                                              *)

(* A connection that is to be closed and still exists waits for room in the*)
(* socket, whatever requests and events came in between (connection.c:164):*)
(* nothing else would ever bring the loop back to it.                      *)
ClosingArmed ==
    \A c \in Conns : mem[c] = "live" /\ state[c] = "closing" => want[c]

(* A connection is freed only once all its buffered output has been given  *)
(* to the socket (connection.c:163, 126-129), on the passive, the active   *)
(* and the postponed close.                                                *)
FlushedBeforeFree ==
    \A c \in Conns : mem[c] = "freed" => wbuf[c] = <<>>

(* The units sent and still to be sent for one connection.                 *)
Stream(c) == wire[c] \o wbuf[c]

(* Lines of the head of answer k that have been pushed so far.             *)
Written(c, k) ==
    IF pc \in {"head", "down"} /\ cur = c /\ k = Serial(c) THEN pushed ELSE HeadLen

Intact(c) == \A i \in DOMAIN Stream(c) : Stream(c)[i].part # "foreign"

(* The head of every answer is in the stream exactly once: partial sends,  *)
(* releases and the final flush neither lose nor repeat a part of it, as   *)
(* long as nothing of it was written behind the block of the write buffer  *)
(* and changed there.                                                      *)
HeadsConserved ==
    \A c \in Conns : Intact(c) => \A k \in DOMAIN answers[c] :
        Cardinality({i \in DOMAIN Stream(c) :
                        Stream(c)[i].resp = k /\ Stream(c)[i].part = "head"})
            = Written(c, k)

(* Heads and files follow each other in the order of the requests, a file  *)
(* never overtakes its own head or a later one: sendfile bypasses the write*)
(* buffer and may run only when the buffer is empty (http_request.c:379).  *)
StreamInOrder ==
    \A c \in Conns : \A i, j \in DOMAIN Stream(c) :
        LET a == Stream(c)[i]
            b == Stream(c)[j]
        IN i < j /\ a.part # "page" /\ b.part # "page" =>
              /\ a.resp <= b.resp
              /\ a.resp = b.resp => ~(a.part = "body" /\ b.part # "body")

(* Output that has been sent in part is pushed again when there is room: a *)
(* connection that returns to epoll_wait with a rest of it has EPOLLOUT    *)
(* enabled (connection.c:201-204), whatever requests, sends and closes     *)
(* came in between.                                                        *)
RestArmed ==
    \A c \in Conns :
        pc = "wait" /\ mem[c] = "live" /\ block[c].start > 0 => want[c]

(* Every head lies within the block of the write buffer. That the test of  *)
(* ring_buffer.c:27 counts the room in front as well does no harm to a     *)
(* client that awaits its answers: each head meets an emptied buffer, which*)
(* has returned to the front of its block (ring_buffer.c:95-97).           *)
WithinBlock ==
    \A c \in Conns : block[c].start + Len(wbuf[c]) <= block[c].cap

(* A step leaves alone what belongs to a closed connection.                *)
ClosedStays ==
    \A c \in Conns : mem[c] \in {"freed", "leaked"} =>
        mem'[c] = mem[c] /\ wire'[c] = wire[c] /\ wbuf'[c] = wbuf[c]

(* Once the descriptor of a connection is closed nothing more goes out on  *)
(* it and it is not closed again: the handlers that the reactor still runs *)
(* for the event in hand find nothing to do (event.c:20-34).               *)
NothingAfterClose == [][ClosedStays]_vars

(* With clients that await their answers, every answer is for the request  *)
(* that was asked, one answer for each (http_request.c:106-121).           *)
AnswersMatchRequests ==
    \A c \in Conns :
        /\ Len(answers[c]) <= Len(asked[c])
        /\ \A k \in DOMAIN answers[c] :
              /\ answers[c][k].req = k
              /\ answers[c][k].status = IF asked[c][k] = "fail" THEN "fail" ELSE "ok"

(* A connection that the server has decided to close is closed, or taken   *)
(* down by a reset, unless the process dies (connection.c:126-129, 163).   *)
ClosingEventuallyClosed ==
    \A c \in Conns :
        mem[c] = "live" /\ state[c] = "closing" ~> mem[c] # "live" \/ pc = "down"

(* A request asked by a client that awaits its answers is answered in full:*)
(* head and file, or head and error page.                                  *)
RequestsServed ==
    \A c \in Conns : \A k \in 1..MaxRequests :
        Len(asked[c]) >= k ~> Served(c, k) \/ reset[c]

=============================================================================
