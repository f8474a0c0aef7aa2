------------------------------- MODULE Handoff -------------------------------
(***************************************************************************)
(* An accepted connection on its way from the main thread to the loop that *)
(* serves it (mevent/listener.c, connection.c, event.c, epoll.c), with no  *)
(* lock in between. event_add_io registers the event and only then stores  *)
(* epoll_fd and is_working in it; the thread of the loop may already be    *)
(* handling the event, and reads both. malloc has left anything in them.   *)
(*                                                                         *)
(* The two stores are plain ones, here made in either order. Requests and  *)
(* answers are reduced to what they ask of the event: HttpConnection has   *)
(* the rest. A failing epoll_ctl ends the process (debug_sys).             *)
(***************************************************************************)
EXTENDS Integers, FiniteSets

CONSTANTS
    Conns,      \* the connections accepted
    Workers,    \* the loops of the worker threads
    MainLoop,   \* the loop of the main thread
    Junk        \* any descriptor that is no loop's

Loops == Workers \cup {MainLoop}

ASSUME HandoffAssumption == Junk \notin Loops /\ MainLoop \notin Workers

VARIABLES
    g_loops,    \* the loops that connections are dealt to, {} without threads
    main,       \* what the main thread does next
    cur,        \* the connection it is accepting
    stored,     \* the fields of its event that event_add_io has stored
    mem,        \* heap life of each event: "none", "live" or "freed"
    prepared,   \* what the connection of the event has been given
    loop,       \* the loop the event is registered with
    is_working, epoll_fd,   \* the fields of the event
    writing,    \* EPOLLOUT in event_flag
    interest,   \* the kernel's list: "absent", "in" or "inout"
    out,        \* the write buffer is not empty
    closing,    \* State_Closing
    task,       \* per loop: what its thread does next, with which event
    early,      \* history: a field was read while event_add_io was storing
    down,       \* the process has exited
    corrupt     \* a freed event was stored into

mainVars == <<main, cur, stored>>
fieldVars == <<is_working, epoll_fd>>
connVars == <<prepared, loop, out, closing>>
endVars == <<down, corrupt>>
vars == <<g_loops, mainVars, mem, connVars, fieldVars, writing, interest, task, early,
          endVars>>

Parts == {"handler", "callback", "buffers"}
Fields == {"epoll_fd", "is_working"}
Steps == {"wait", "modify", "ctl", "stop", "del", "close"}
Rest == [at |-> "wait", conn |-> CHOOSE c \in Conns : TRUE, on |-> FALSE, free |-> FALSE]

(* With -w 0 the main loop serves every connection itself.                 *)
Init ==
    /\ g_loops \in {{}, Workers}
    /\ main = "accept" /\ cur \in Conns /\ stored = {}
    /\ mem = [c \in Conns |-> "none"]
    /\ prepared = [c \in Conns |-> {}]
    /\ loop = [c \in Conns |-> MainLoop]
    /\ is_working = [c \in Conns |-> FALSE]
    /\ epoll_fd = [c \in Conns |-> Junk]
    /\ writing = [c \in Conns |-> FALSE]
    /\ interest = [c \in Conns |-> "absent"]
    /\ out = [c \in Conns |-> FALSE]
    /\ closing = [c \in Conns |-> FALSE]
    /\ task = [l \in Loops |-> Rest]
    /\ early = [c \in Conns |-> FALSE]
    /\ down = FALSE /\ corrupt = FALSE

-----------------------------------------------------------------------------
(* The main thread: event_accept_callback.                                 *)

(* Mutant of Dealt: loop_num = 0 is not looked at, g_loops[0] is null.     *)
DealtUntested == IF g_loops = {} THEN {Junk} ELSE g_loops

Dealt == IF g_loops = {} THEN {MainLoop} ELSE g_loops

(* connection_create, with the event_create in it.                         *)
Create(c) ==
    /\ main = "accept" /\ task[MainLoop].at = "wait"
    /\ mem[c] = "none"
    /\ main' = "establish" /\ cur' = c
    /\ mem' = [mem EXCEPT ![c] = "live"]
    /\ \E l \in Dealt : loop' = [loop EXCEPT ![c] = l]
    /\ \E b \in BOOLEAN : is_working' = [is_working EXCEPT ![c] = b]
    /\ \E e \in Loops \cup {Junk} : epoll_fd' = [epoll_fd EXCEPT ![c] = e]
    /\ UNCHANGED <<g_loops, stored, prepared, out, closing, writing, interest, task,
                   early, endVars>>

(* connection_established: onConnection makes the request and sets the     *)
(* callback that frees it.                                                 *)
Establish ==
    /\ main = "establish"
    /\ main' = "start"
    /\ prepared' = [prepared EXCEPT ![cur] = {"handler", "callback"}]
    /\ UNCHANGED <<g_loops, cur, stored, mem, loop, out, closing, fieldVars, writing,
                   interest, task, early, endVars>>

(* connection_start                                                        *)
Start ==
    /\ main = "start"
    /\ main' = "add"
    /\ prepared' = [prepared EXCEPT ![cur] = @ \cup {"buffers"}]
    /\ UNCHANGED <<g_loops, cur, stored, mem, loop, out, closing, fieldVars, writing,
                   interest, task, early, endVars>>

(* Mutant of EpollAdd: the event is registered before the buffers exist.   *)
EpollAddFirst ==
    /\ main = "start"
    /\ main' = "store"
    /\ interest' = [interest EXCEPT ![cur] = "in"]
    /\ UNCHANGED <<g_loops, cur, stored, mem, connVars, fieldVars, writing, task, early,
                   endVars>>

(* epoller_add                                                             *)
EpollAdd ==
    /\ main = "add"
    /\ main' = "store"
    /\ interest' = [interest EXCEPT ![cur] = "in"]
    /\ UNCHANGED <<g_loops, cur, stored, mem, connVars, fieldVars, writing, task, early,
                   endVars>>

(* Mutant of Stored: the event is not marked as working.                   *)
StoredIdle(f) ==
    /\ epoll_fd' = [epoll_fd EXCEPT ![cur] = IF f = "epoll_fd" THEN loop[cur] ELSE @]
    /\ UNCHANGED is_working

(* Mutant of Stored: the descriptor of the manager's loop is stored.       *)
StoredMain(f) ==
    /\ epoll_fd' = [epoll_fd EXCEPT ![cur] = IF f = "epoll_fd" THEN MainLoop ELSE @]
    /\ is_working' = [is_working EXCEPT ![cur] = IF f = "is_working" THEN TRUE ELSE @]

Stored(f) ==
    /\ epoll_fd' = [epoll_fd EXCEPT ![cur] = IF f = "epoll_fd" THEN loop[cur] ELSE @]
    /\ is_working' = [is_working EXCEPT ![cur] = IF f = "is_working" THEN TRUE ELSE @]

(* event_add_io behind the registration; the event may be gone by now.     *)
Store(f) ==
    /\ main = "store" /\ f \notin stored
    /\ IF mem[cur] = "live" THEN Stored(f) /\ UNCHANGED corrupt
       ELSE corrupt' = TRUE /\ UNCHANGED fieldVars
    /\ \/ stored = {} /\ stored' = {f} /\ UNCHANGED main
       \/ stored # {} /\ stored' = {} /\ main' = "accept"
    /\ UNCHANGED <<g_loops, cur, mem, connVars, writing, interest, task, early, down>>

-----------------------------------------------------------------------------
(* The thread of a loop: epoller_dispatch and the handlers of connection.c. *)

(* Without threads the handlers and the accepting take turns.              *)
Waits(l) == task[l].at = "wait" /\ (l = MainLoop => main = "accept")

Reports(l, c) == Waits(l) /\ loop[c] = l /\ interest[c] # "absent"

Begin(l, c, at, on, free) ==
    task' = [task EXCEPT ![l] = [at |-> at, conn |-> c, on |-> on, free |-> free]]

(* event_readable_callback: the answer may go out, stay in the buffer when *)
(* the socket takes nothing, or go out in part; or the connection closes.  *)
Read(l, c) ==
    /\ Reports(l, c)
    /\ \E b \in BOOLEAN :
          /\ out' = [out EXCEPT ![c] = b]
          /\ \/ UNCHANGED <<closing, task>>
             \/ b /\ Begin(l, c, "modify", TRUE, FALSE) /\ UNCHANGED closing
             \/ /\ closing' = [closing EXCEPT ![c] = TRUE]
                /\ IF b THEN Begin(l, c, "modify", TRUE, FALSE)
                   ELSE Begin(l, c, "stop", FALSE, TRUE)
    /\ UNCHANGED <<g_loops, mainVars, mem, prepared, loop, fieldVars, writing, interest,
                   early, endVars>>

(* event_writable_callback, when the send takes all that is left.          *)
Write(l, c) ==
    /\ Reports(l, c) /\ interest[c] = "inout"
    /\ out[c]
    /\ out' = [out EXCEPT ![c] = FALSE]
    /\ Begin(l, c, "modify", FALSE, closing[c])
    /\ UNCHANGED <<g_loops, mainVars, mem, prepared, loop, closing, fieldVars, writing,
                   interest, early, endVars>>

(* event_error_handler                                                     *)
Error(l, c) ==
    /\ Reports(l, c)
    /\ Begin(l, c, "stop", FALSE, TRUE)
    /\ UNCHANGED <<g_loops, mainVars, mem, connVars, fieldVars, writing, interest, early,
                   endVars>>

-----------------------------------------------------------------------------
(* event.c, in the thread of loop l.                                       *)

Storing(c) == main = "store" /\ cur = c

(* A field of the event is read.                                           *)
Looks(c) == early' = [early EXCEPT ![c] = @ \/ Storing(c)]

(* epoll_ctl succeeds: the descriptor is that of the loop which has it.    *)
Known(c) == epoll_fd[c] = loop[c] /\ interest[c] # "absent"

Goto(l, at) == task' = [task EXCEPT ![l].at = at]
Done(l) == Goto(l, IF task[l].free THEN "stop" ELSE "wait")

(* event_add_flag and event_modify_flag up to the test: the flag changes,  *)
(* and the kernel is told if the event seems to be working.                *)
Modify(l) ==
    LET c == task[l].conn IN
    /\ task[l].at = "modify"
    /\ writing' = [writing EXCEPT ![c] = task[l].on]
    /\ Looks(c)
    /\ IF is_working[c] THEN Goto(l, "ctl") ELSE Done(l)
    /\ UNCHANGED <<g_loops, mainVars, mem, connVars, fieldVars, interest, endVars>>

(* Mutant of Ctl: the kernel keeps what it was told first.                 *)
CtlNothing(l) ==
    LET c == task[l].conn IN
    /\ task[l].at = "ctl"
    /\ Looks(c)
    /\ Done(l)
    /\ UNCHANGED <<g_loops, mainVars, mem, connVars, fieldVars, writing, interest, endVars>>

(* epoller_modify                                                          *)
Ctl(l) ==
    LET c == task[l].conn IN
    /\ task[l].at = "ctl"
    /\ Looks(c)
    /\ IF Known(c)
       THEN /\ interest' = [interest EXCEPT ![c] = IF writing[c] THEN "inout" ELSE "in"]
            /\ Done(l)
            /\ UNCHANGED down
       ELSE down' = TRUE /\ UNCHANGED <<interest, task>>
    /\ UNCHANGED <<g_loops, mainVars, mem, connVars, fieldVars, writing, corrupt>>

(* event_stop up to the test                                               *)
Stop(l) ==
    LET c == task[l].conn IN
    /\ task[l].at = "stop"
    /\ Looks(c)
    /\ Goto(l, IF is_working[c] THEN "del" ELSE "close")
    /\ UNCHANGED <<g_loops, mainVars, mem, connVars, fieldVars, writing, interest, endVars>>

(* epoller_del and the reset of is_working                                 *)
Del(l) ==
    LET c == task[l].conn IN
    /\ task[l].at = "del"
    /\ Looks(c)
    /\ IF Known(c)
       THEN /\ interest' = [interest EXCEPT ![c] = "absent"]
            /\ is_working' = [is_working EXCEPT ![c] = FALSE]
            /\ Goto(l, "close")
            /\ UNCHANGED down
       ELSE down' = TRUE /\ UNCHANGED <<interest, is_working, task>>
    /\ UNCHANGED <<g_loops, mainVars, mem, connVars, epoll_fd, writing, corrupt>>

(* close and free in event_free: the kernel drops a closed socket from its *)
(* list, also when event_stop did not.                                     *)
Close(l) ==
    LET c == task[l].conn IN
    /\ task[l].at = "close"
    /\ interest' = [interest EXCEPT ![c] = "absent"]
    /\ mem' = [mem EXCEPT ![c] = "freed"]
    /\ Goto(l, "wait")
    /\ UNCHANGED <<g_loops, mainVars, connVars, fieldVars, writing, early, endVars>>

Accepting == Establish \/ Start \/ EpollAdd \/ \E f \in Fields : Store(f)
Handling(l) == Modify(l) \/ Ctl(l) \/ Stop(l) \/ Del(l) \/ Close(l)

Next ==
    /\ ~down
    /\ \/ \E c \in Conns : Create(c)
       \/ Accepting
       \/ \E l \in Loops : Handling(l)
       \/ \E l \in Loops, c \in Conns : Read(l, c) \/ Write(l, c) \/ Error(l, c)

Spec == Init /\ [][Next]_vars

(* A callback that has begun runs on. epoll_wait reports a socket as long  *)
(* as it is ready, and the peer goes on reading, so that again and again a *)
(* send takes all that is left.                                            *)
FairSpec ==
    /\ Spec
    /\ WF_vars(~down /\ Accepting)
    /\ \A l \in Loops : WF_vars(~down /\ Handling(l))
    /\ \A l \in Loops, c \in Conns : SF_vars(~down /\ Write(l, c))

-----------------------------------------------------------------------------
(* Properties                                                              *)

TypeOK ==
    /\ g_loops \subseteq Workers
    /\ main \in {"accept", "establish", "start", "add", "store"}
    /\ cur \in Conns
    /\ stored \subseteq Fields
    /\ mem \in [Conns -> {"none", "live", "freed"}]
    /\ prepared \in [Conns -> SUBSET Parts]
    /\ loop \in [Conns -> Loops]
    /\ is_working \in [Conns -> BOOLEAN]
    /\ epoll_fd \in [Conns -> Loops \cup {Junk}]
    /\ writing \in [Conns -> BOOLEAN]
    /\ interest \in [Conns -> {"absent", "in", "inout"}]
    /\ out \in [Conns -> BOOLEAN]
    /\ closing \in [Conns -> BOOLEAN]
    /\ task \in [Loops -> [at : Steps, conn : Conns, on : BOOLEAN, free : BOOLEAN]]
    /\ early \in [Conns -> BOOLEAN]
    /\ down \in BOOLEAN /\ corrupt \in BOOLEAN

(* An event can reach a handler only when its connection has its request,  *)
(* the callback that frees it and both buffers: onMessage runs after       *)
(* onConnection, in whatever thread (http_server.c:18).                    *)
RunsAfterConnection ==
    \A c \in Conns : interest[c] # "absent" => mem[c] = "live" /\ prepared[c] = Parts

(* Between two handlers an event knows its loop, and the kernel watches    *)
(* for what event_flag says, unless a handler came before the stores of    *)
(* event_add_io (event.c:58-89).                                           *)
Busy(c) == \E l \in Loops : task[l].at # "wait" /\ task[l].conn = c
AgreeUnlessEarly ==
    \A c \in Conns :
        interest[c] # "absent" /\ ~Busy(c) /\ ~Storing(c) /\ ~early[c] =>
            /\ is_working[c] /\ epoll_fd[c] = loop[c]
            /\ interest[c] = "inout" <=> writing[c]

(* The process is ended by a refused epoll_ctl, and freed memory is        *)
(* stored into, only when a handler came before the stores; and that takes *)
(* a second thread (epoll.c:34-58, event.c:65-69).                         *)
UnharmedUnlessEarly ==
    /\ down \/ corrupt => \E c \in Conns : early[c]
    /\ \A c \in Conns : early[c] => g_loops # {}

(* is_working tells whether the event is in the list of an epoll, so that  *)
(* it is not deleted twice (event.c:104).                                  *)
WorkingTells ==
    \A l \in Loops :
        task[l].at \in {"modify", "stop"} =>
            (is_working[task[l].conn] <=> interest[task[l].conn] # "absent")

(* Output that waits for the socket to be writable goes out in the end, or *)
(* its connection goes, unless a handler came before the stores.           *)
Flushed ==
    \A c \in Conns :
        out[c] /\ writing[c] /\ ~early[c]
            ~> ~out[c] \/ mem[c] = "freed" \/ early[c] \/ down
=============================================================================
