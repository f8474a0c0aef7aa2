----------------------------- MODULE TimerManager -----------------------------
(***************************************************************************)
(* The timers of the main thread: timer_manager (mevent/timer.c), which    *)
(* keeps pointers to timers in one of two arrays and copies them to the    *)
(* other one on every removal, and the loop of server_manager_run, which   *)
(* waits until the nearest timer and fires what is due                     *)
(* (mevent/servermanager.c). Time passes in units of 1/Milli millisecond.  *)
(***************************************************************************)
EXTENDS Integers, FiniteSets

CONSTANTS
    Block,          \* addresses malloc may return for a timer
    Null,           \* the null pointer
    InitCap,        \* MAX_TIMER_EVENT
    Delays,         \* time_out of the timers that are added, in milliseconds
    Types,          \* and their TimerOptions
    Milli,          \* units of time in a millisecond
    MaxElapsed,     \* bound: units that one round of epoll_wait may take
    AddWhileWaiting \* event handlers add timers too, not only timer callbacks

ASSUME TimerAssumption ==
    /\ Null \notin Block
    /\ InitCap \in Nat \ {0}
    /\ Delays \subseteq Nat
    /\ Types \subseteq {"none", "once", "repeat"}
    /\ Milli \in Nat \ {0}
    /\ MaxElapsed \in Nat
    /\ AddWhileWaiting \in BOOLEAN

VARIABLES
    m,              \* the timer_manager
    out, left, type, \* time_out, time_left and type of the timers in memory
    age,            \* history: units of time a timer may be charged for
    pc,             \* what the main thread does next
    ti,             \* server_manager_time_event's copy of the timer it fires
    timeout,        \* server_manager_run's timeout, -1 for none
    elapsed         \* units of time since the current round began

heapVars == <<out, left, type, age>>
loopVars == <<pc, ti, timeout, elapsed>>
vars == <<m, heapVars, loopVars>>

Labels == {"setup", "calc", "dispatch", "fire", "fired", "callback", "down"}
Copy == [out : Nat, type : {"none", "once", "repeat"}]

-----------------------------------------------------------------------------
(* timer.c. The active array is queue[index].                              *)

Active(mgr) == mgr.queue[mgr.index]
Entries(mgr) == {Active(mgr)[i] : i \in 0..(mgr.size - 1)}

Init ==
    /\ m = [queue |-> [q \in {0, 1} |-> [i \in 0..(InitCap - 1) |-> Null]],
            index |-> 0, size |-> 0, cap |-> InitCap, top |-> Null,
            top_index |-> 0]
    /\ out = [b \in Block |-> 0]
    /\ left = [b \in Block |-> 0]
    /\ type = [b \in Block |-> "none"]
    /\ age = [b \in Block |-> 0]
    /\ pc = "setup"
    /\ ti = [out |-> 0, type |-> "none"]
    /\ timeout = -1
    /\ elapsed = 0

(* Mutant of Full: the last place is used twice.                           *)
FullLate(mgr) == mgr.size > mgr.cap

Full(mgr) == mgr.size >= mgr.cap

(* Mutant of Enlarged: it is always queue0 that is copied.                 *)
EnlargedFirst(mgr) ==
    [mgr EXCEPT
        !.cap = 2 * @,
        !.queue = [q \in {0, 1} |-> [i \in 0..(2 * mgr.cap - 1) |->
                     IF q = 0 /\ i < mgr.size THEN mgr.queue[0][i] ELSE Null]]]

(* Arrays of twice the size; only the active one is copied.                *)
Enlarged(mgr) ==
    [mgr EXCEPT
        !.cap = 2 * @,
        !.queue = [q \in {0, 1} |-> [i \in 0..(2 * mgr.cap - 1) |->
                     IF q = mgr.index /\ i < mgr.size
                     THEN mgr.queue[q][i] ELSE Null]]]

(* timer_manager_push of a new timer at address b, d until it is due, into *)
(* a manager whose timers have the times l. The first timer of an empty    *)
(* manager becomes the top one without a new top_index.                    *)
Push(mgr, l, b, d) ==
    LET room == IF Full(mgr) THEN Enlarged(mgr) ELSE mgr
        nearer == room.top # Null /\ d < l[room.top]
    IN [room EXCEPT
          !.top = IF room.top = Null \/ nearer THEN b ELSE @,
          !.top_index = IF nearer THEN room.size ELSE @,
          !.queue[room.index][room.size] = b,
          !.size = @ + 1]

(* Mutant of Nearest: the first timer becomes the top one.                 *)
NearestFirst(q, l, n) == 0

(* The place of the first of the nearest among n timers of an array.       *)
Nearest(q, l, n) ==
    CHOOSE i \in 0..(n - 1) :
        /\ \A j \in 0..(n - 1) : l[q[i]] <= l[q[j]]
        /\ \A j \in 0..(i - 1) : l[q[i]] < l[q[j]]

(* timer_manager_pop: all but the top timer move up into the other array.  *)
(* What that array held at its last place stays there, beyond the size.    *)
Pop(mgr, l) ==
    LET n == mgr.size - 1
        from == Active(mgr)
        into == 1 - mgr.index
        moved == [i \in 0..(mgr.cap - 1) |->
                    IF i < n THEN from[IF i < mgr.top_index THEN i ELSE i + 1]
                    ELSE IF i < mgr.size THEN mgr.queue[into][i]
                    ELSE Null]
        rest == [i \in 0..(mgr.cap - 1) |-> IF i < mgr.size THEN from[i] ELSE Null]
    IN IF mgr.size = 1 THEN [mgr EXCEPT !.top = Null, !.size = 0]
       ELSE [mgr EXCEPT
               !.queue = [q \in {0, 1} |-> IF q = into THEN moved ELSE rest],
               !.index = into,
               !.size = n,
               !.top_index = Nearest(moved, l, n),
               !.top = moved[Nearest(moved, l, n)]]

-----------------------------------------------------------------------------
(* servermanager.c                                                         *)

(* The round in which a timer is added counts for it as a whole.           *)
Sofar == IF pc = "dispatch" THEN elapsed ELSE 0

(* Mutant of Add: time_left is not set from time_out.                      *)
AddExpired(b, d, t) ==
    /\ b \notin Entries(m)
    /\ m' = Push(m, left, b, d)
    /\ out' = [out EXCEPT ![b] = d]
    /\ type' = [type EXCEPT ![b] = t]
    /\ age' = [age EXCEPT ![b] = Sofar]
    /\ UNCHANGED left

(* server_manager_add_timer                                                *)
Add(b, d, t) ==
    /\ b \notin Entries(m)
    /\ m' = Push(m, left, b, d)
    /\ out' = [out EXCEPT ![b] = d]
    /\ left' = [left EXCEPT ![b] = d]
    /\ type' = [type EXCEPT ![b] = t]
    /\ age' = [age EXCEPT ![b] = Sofar]

(* From the program's start, from a timer's callback, or from an event     *)
(* handler that epoller_dispatch runs.                                     *)
AddTimer(b, d, t) ==
    /\ \/ pc \in {"setup", "callback"}
       \/ pc = "dispatch" /\ AddWhileWaiting
    /\ Add(b, d, t)
    /\ UNCHANGED loopVars

Start ==
    /\ pc = "setup"
    /\ pc' = "calc"
    /\ UNCHANGED <<m, heapVars, ti, timeout, elapsed>>

(* calc_timeout, and the start of the round.                               *)
Calc ==
    /\ pc = "calc"
    /\ timeout' = IF m.size > 0 THEN left[m.top] ELSE -1
    /\ elapsed' = 0
    /\ pc' = "dispatch"
    /\ UNCHANGED <<m, heapVars, ti>>

(* A timer's age is counted until its time_out has passed.                 *)
Aged(b) == age[b] >= Milli * out[b]

Tick ==
    /\ pc = "dispatch"
    /\ elapsed < MaxElapsed
    /\ elapsed' = elapsed + 1
    /\ age' = [b \in Block |->
                 IF b \in Entries(m) /\ ~Aged(b) THEN age[b] + 1 ELSE age[b]]
    /\ UNCHANGED <<m, out, left, type, pc, ti, timeout>>

(* Mutant of Passed: a part of a millisecond counts as one.                *)
PassedRoundedUp == (elapsed + Milli - 1) \div Milli

(* diff / 1000                                                             *)
Passed == elapsed \div Milli

(* Return of epoller_dispatch, for an event or on its timeout, and         *)
(* timer_manager_update: only if there was a timer to wait for.            *)
Return ==
    /\ pc = "dispatch"
    /\ \/ /\ timeout = -1
          /\ pc' = "calc"
          /\ UNCHANGED left
       \/ /\ timeout # -1
          /\ pc' = "fire"
          /\ left' = [b \in Block |->
                        IF b \in Entries(m) THEN left[b] - Passed ELSE left[b]]
    /\ UNCHANGED <<m, out, type, age, ti, timeout, elapsed>>

(* The test of server_manager_time_event's loop, which follows tm->top     *)
(* even when the last timer has gone.                                      *)
Stop ==
    /\ pc = "fire"
    /\ m.top # Null
    /\ left[m.top] > 0
    /\ pc' = "calc"
    /\ UNCHANGED <<m, heapVars, ti, timeout, elapsed>>

Crash ==
    /\ pc = "fire"
    /\ m.top = Null
    /\ pc' = "down"
    /\ UNCHANGED <<m, heapVars, ti, timeout, elapsed>>

Fire ==
    /\ pc = "fire"
    /\ m.top # Null
    /\ left[m.top] <= 0
    /\ ti' = [out |-> out[m.top], type |-> type[m.top]]
    /\ m' = Pop(m, left)
    /\ pc' = "fired"
    /\ UNCHANGED <<heapVars, timeout, elapsed>>

(* A repeated timer is added again before its callback.                    *)
Again(b) ==
    /\ pc = "fired"
    /\ ti.type = "repeat"
    /\ Add(b, ti.out, ti.type)
    /\ pc' = "callback"
    /\ UNCHANGED <<ti, timeout, elapsed>>

Once ==
    /\ pc = "fired"
    /\ ti.type # "repeat"
    /\ pc' = IF ti.type = "once" THEN "callback" ELSE "fire"
    /\ UNCHANGED <<m, heapVars, ti, timeout, elapsed>>

(* Mutant of Called: one timer is fired in a round.                        *)
CalledOnce ==
    /\ pc = "callback"
    /\ pc' = "calc"
    /\ UNCHANGED <<m, heapVars, ti, timeout, elapsed>>

Called ==
    /\ pc = "callback"
    /\ pc' = "fire"
    /\ UNCHANGED <<m, heapVars, ti, timeout, elapsed>>

-----------------------------------------------------------------------------

Loop ==
    \/ Start \/ Calc \/ Return \/ Stop \/ Crash \/ Fire \/ Once \/ Called
    \/ \E b \in Block : Again(b)

Next ==
    \/ Loop
    \/ Tick
    \/ \E b \in Block, d \in Delays, t \in Types : AddTimer(b, d, t)

Spec == Init /\ [][Next]_vars

(* The main thread runs, and the rounds of epoll_wait take time.           *)
FairSpec == Spec /\ WF_vars(Loop) /\ SF_vars(Tick)

-----------------------------------------------------------------------------
(* Properties                                                              *)

Array == [0..(m.cap - 1) -> Block \cup {Null}]

TypeOK ==
    /\ m.cap \in Nat /\ m.size \in 0..m.cap /\ m.index \in {0, 1}
    /\ m.queue \in [{0, 1} -> Array]
    /\ m.top \in Block \cup {Null} /\ m.top_index \in 0..(m.cap - 1)
    /\ out \in [Block -> Nat] /\ left \in [Block -> Int] /\ age \in [Block -> Nat]
    /\ type \in [Block -> {"none", "once", "repeat"}]
    /\ pc \in Labels
    /\ ti \in Copy
    /\ timeout \in Int /\ elapsed \in Nat

(* The top pointer is the nearest timer and top_index says where it is, for*)
(* every history of additions, removals and growth: a wrong index would    *)
(* make a pop drop another timer and keep one that is freed                *)
(* (timer.c:93-101, 146-168).                                              *)
TopIsNearest ==
    /\ m.top = Null <=> m.size = 0
    /\ m.size > 0 =>
          /\ Active(m)[m.top_index] = m.top
          /\ \A b \in Entries(m) : left[m.top] <= left[b]

(* The active array holds distinct timers, as many as the size says, no    *)
(* null pointer among them: moving to the other array and growing lose and *)
(* repeat none.                                                            *)
NoneLost ==
    /\ Null \notin Entries(m)
    /\ Cardinality(Entries(m)) = m.size

(* No timer is due before its time_out milliseconds have passed (timer.h:15) *)
(* since it was added or, if an event handler added it, since the round of *)
(* that handler began: server_manager_run charges all of it to every timer *)
(* (servermanager.c:133-137).                                              *)
NotEarly ==
    pc = "fire" => \A b \in Entries(m) : left[b] <= 0 => Aged(b)

(* No timer is overdue when the wait of the next round is computed: its    *)
(* time_left would be a negative timeout, which to epoll_wait is no timeout*)
(* at all (servermanager.c:85, 99-108).                                    *)
BoundedWait ==
    pc = "calc" /\ m.size > 0 => left[m.top] >= 0

(* The loop that fires timers ends, although it puts repeated ones back    *)
(* and callbacks add more while it runs: they are due in a later round,    *)
(* unless they are due at once (servermanager.c:85-95).                    *)
RoundEnds ==
    <>[](\A b \in Entries(m) : out[b] > 0) => (pc = "fire" ~> pc \in {"calc", "down"})

(* A timer is handled when its time is out (timer.h:8-10), unless the      *)
(* process dies.                                                           *)
EveryTimerFires ==
    \A b \in Block : b \in Entries(m) ~> b \notin Entries(m) \/ pc = "down"

=============================================================================
