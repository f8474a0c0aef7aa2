-------------------------------- MODULE Startup --------------------------------
(***************************************************************************)
(* server_manager_create with its worker threads (mevent/servermanager.c), *)
(* listener_create and the distribution of accepted connections over the   *)
(* workers' event loops (mevent/listener.c). Each step is one access to    *)
(* memory that the threads share.                                          *)
(***************************************************************************)
EXTENDS Integers, FiniteSets

CONSTANTS
    MaxLoop,    \* MAX_LOOP
    Requested,  \* values the -w option may have
    CanFail,    \* event_loop_create, pthread_create and listener_create may fail
    MaxConns    \* bound: connections accepted

ASSUME StartupAssumption ==
    /\ MaxLoop \in Nat
    /\ Requested \subseteq Int
    /\ CanFail \in BOOLEAN
    /\ MaxConns \in Nat

VARIABLES
    mpc,        \* what the main thread does next
    loop_num,   \* manager->loop_num
    spawned,    \* i of the pthread_create loop
    thread,     \* what each worker does next
    g_loops,    \* the workers' event loops
    lock,       \* life of the spin lock
    holder,     \* thread that holds it
    started,    \* started_loop
    loaded,     \* started_loop as a worker read it to increment it
    turn,       \* static i of event_accept_callback
    conns,      \* connections given to each worker's loop
    down        \* the process has died of a null pointer

mainVars == <<mpc, loop_num, spawned>>
lockVars == <<lock, holder>>
acceptVars == <<turn, conns>>
vars == <<mainVars, thread, g_loops, lockVars, started, loaded, acceptVars, down>>

Workers == 0..(MaxLoop - 1)
Main == -1
NoOne == -2

MainLabels == {"create", "spawn", "lock", "test", "destroy", "listen", "run", "deaf"}
WorkerLabels == {"none", "create", "lock", "load", "store", "unlock", "run", "looping"}

Init ==
    /\ mpc = "create"
    /\ loop_num = 0
    /\ spawned = 0
    /\ thread = [w \in Workers |-> "none"]
    /\ g_loops = [w \in Workers |-> "null"]
    /\ lock = "uninit"
    /\ holder = NoOne
    /\ started = 0
    /\ loaded = [w \in Workers |-> 0]
    /\ turn = 0
    /\ conns = [w \in Workers |-> 0]
    /\ down = FALSE

-----------------------------------------------------------------------------
(* server_manager_create                                                   *)

(* Mutant of Clamp: one worker too many.                                   *)
ClampLate(n) == IF n < 0 \/ n > MaxLoop + 1 THEN MaxLoop ELSE n

Clamp(n) == IF n < 0 \/ n > MaxLoop THEN MaxLoop ELSE n

(* The lock, the manager and its own event loop. Without that loop the     *)
(* caller gets a null manager, which listener_create follows.              *)
Create(n) ==
    /\ mpc = "create"
    /\ lock' = "ready"
    /\ \/ loop_num' = Clamp(n) /\ mpc' = "spawn" /\ UNCHANGED down
       \/ CanFail /\ down' = TRUE /\ UNCHANGED <<loop_num, mpc>>
    /\ UNCHANGED <<spawned, thread, g_loops, holder, started, loaded, acceptVars>>

(* The result of pthread_create is not looked at.                          *)
Spawn ==
    /\ mpc = "spawn"
    /\ spawned < loop_num
    /\ spawned' = spawned + 1
    /\ \/ thread' = [thread EXCEPT ![spawned] = "create"]
       \/ CanFail /\ UNCHANGED thread
    /\ UNCHANGED <<mpc, loop_num, g_loops, lockVars, started, loaded,
                   acceptVars, down>>

Spawned ==
    /\ mpc = "spawn"
    /\ spawned = loop_num
    /\ mpc' = "lock"
    /\ UNCHANGED <<loop_num, spawned, thread, g_loops, lockVars, started,
                   loaded, acceptVars, down>>

MainLock ==
    /\ mpc = "lock"
    /\ holder = NoOne
    /\ holder' = Main
    /\ mpc' = "test"
    /\ UNCHANGED <<loop_num, spawned, thread, g_loops, lock, started, loaded,
                   acceptVars, down>>

(* Mutant of MainTest: the lock is kept while workers are missing.         *)
MainTestHolds ==
    /\ mpc = "test"
    /\ started = loop_num
    /\ mpc' = "destroy"
    /\ holder' = NoOne
    /\ UNCHANGED <<loop_num, spawned, thread, g_loops, lock, started, loaded,
                   acceptVars, down>>

(* Mutant of MainTest: it does not wait for the last worker.               *)
MainTestEarly ==
    /\ mpc = "test"
    /\ mpc' = IF started + 1 >= loop_num THEN "destroy" ELSE "lock"
    /\ holder' = NoOne
    /\ UNCHANGED <<loop_num, spawned, thread, g_loops, lock, started, loaded,
                   acceptVars, down>>

MainTest ==
    /\ mpc = "test"
    /\ mpc' = IF started = loop_num THEN "destroy" ELSE "lock"
    /\ holder' = NoOne
    /\ UNCHANGED <<loop_num, spawned, thread, g_loops, lock, started, loaded,
                   acceptVars, down>>

Destroy ==
    /\ mpc = "destroy"
    /\ lock' = "destroyed"
    /\ mpc' = "listen"
    /\ UNCHANGED <<loop_num, spawned, thread, g_loops, holder, started, loaded,
                   acceptVars, down>>

-----------------------------------------------------------------------------
(* listener.c                                                              *)

(* http_server_start does not look at what listener_create returns: the    *)
(* main loop runs with or without a listener.                              *)
Listen ==
    /\ mpc = "listen"
    /\ \/ mpc' = "run"
       \/ CanFail /\ mpc' = "deaf"
    /\ UNCHANGED <<loop_num, spawned, thread, g_loops, lockVars, started,
                   loaded, acceptVars, down>>

(* g_loops[i++] after the test of i against loop_num.                      *)
Picked == IF turn >= loop_num THEN 0 ELSE turn
Following(i) == i + 1

(* event_accept_callback; connection_start follows the loop it was given.  *)
(* Without workers the connection goes to the main thread's own loop.      *)
Accept ==
    /\ mpc = "run"
    /\ \A w \in Workers : conns[w] < MaxConns
    /\ \/ loop_num = 0 /\ UNCHANGED <<acceptVars, down>>
       \/ /\ loop_num > 0
          /\ turn' = Following(Picked)
          /\ conns' = [conns EXCEPT ![Picked] = @ + 1]
          /\ down' = (g_loops[Picked] = "null")
    /\ UNCHANGED <<mainVars, thread, g_loops, lockVars, started, loaded>>

-----------------------------------------------------------------------------
(* spawn_thread                                                            *)

CreateLoop(w) ==
    /\ thread[w] = "create"
    /\ thread' = [thread EXCEPT ![w] = "lock"]
    /\ \/ g_loops' = [g_loops EXCEPT ![w] = "loop"]
       \/ CanFail /\ UNCHANGED g_loops
    /\ UNCHANGED <<mainVars, lockVars, started, loaded, acceptVars, down>>

WorkerLock(w) ==
    /\ thread[w] = "lock"
    /\ holder = NoOne
    /\ holder' = w
    /\ thread' = [thread EXCEPT ![w] = "load"]
    /\ UNCHANGED <<mainVars, g_loops, lock, started, loaded, acceptVars, down>>

(* started_loop++ reads and writes.                                        *)
Load(w) ==
    /\ thread[w] = "load"
    /\ loaded' = [loaded EXCEPT ![w] = started]
    /\ thread' = [thread EXCEPT ![w] = "store"]
    /\ UNCHANGED <<mainVars, g_loops, lockVars, started, acceptVars, down>>

Store(w) ==
    /\ thread[w] = "store"
    /\ started' = loaded[w] + 1
    /\ thread' = [thread EXCEPT ![w] = "unlock"]
    /\ UNCHANGED <<mainVars, g_loops, lockVars, loaded, acceptVars, down>>

WorkerUnlock(w) ==
    /\ thread[w] = "unlock"
    /\ holder' = NoOne
    /\ thread' = [thread EXCEPT ![w] = "run"]
    /\ UNCHANGED <<mainVars, g_loops, lock, started, loaded, acceptVars, down>>

(* event_loop_run follows the loop.                                        *)
Run(w) ==
    /\ thread[w] = "run"
    /\ thread' = [thread EXCEPT ![w] = "looping"]
    /\ down' = (g_loops[w] = "null")
    /\ UNCHANGED <<mainVars, g_loops, lockVars, started, loaded, acceptVars>>

-----------------------------------------------------------------------------

MainStep ==
    \/ \E n \in Requested : Create(n)
    \/ Spawn \/ Spawned \/ MainLock \/ MainTest \/ Destroy \/ Listen

WorkerStep(w) ==
    \/ CreateLoop(w) \/ WorkerLock(w) \/ Load(w) \/ Store(w)
    \/ WorkerUnlock(w) \/ Run(w)

Next ==
    /\ ~down
    /\ MainStep \/ Accept \/ \E w \in Workers : WorkerStep(w)

Spec == Init /\ [][Next]_vars

(* The threads run, and a worker that keeps finding the spin lock free gets*)
(* it in the end although the main thread takes it between any two of its  *)
(* tests: no lock guarantees that, the hardware's arbitration does.        *)
Fairness ==
    /\ WF_vars(~down /\ MainStep)
    /\ \A w \in Workers :
          WF_vars(~down /\ WorkerStep(w)) /\ SF_vars(~down /\ WorkerLock(w))

FairSpec == Spec /\ Fairness

-----------------------------------------------------------------------------
(* Properties                                                              *)

TypeOK ==
    /\ mpc \in MainLabels
    /\ loop_num \in 0..MaxLoop
    /\ spawned \in 0..loop_num
    /\ thread \in [Workers -> WorkerLabels]
    /\ g_loops \in [Workers -> {"null", "loop"}]
    /\ lock \in {"uninit", "ready", "destroyed"}
    /\ holder \in Workers \cup {Main, NoOne}
    /\ started \in Nat
    /\ loaded \in [Workers -> Nat]
    /\ turn \in 0..MaxLoop
    /\ conns \in [Workers -> Nat]
    /\ down \in BOOLEAN

Counted == {w \in Workers : thread[w] \in {"unlock", "run", "looping"}}

(* No increment of started_loop is lost (servermanager.c:22-24), however   *)
(* the workers and the polling main thread interleave.                     *)
CountExact == started = Cardinality(Counted)

(* The spin lock is never touched before its initialisation or after its   *)
(* destruction (servermanager.c:33, 69): the last worker has let go of it  *)
(* before the main thread destroys it.                                     *)
LockAlive ==
    /\ mpc \in {"lock", "test"} => lock = "ready"
    /\ \A w \in Workers :
          thread[w] \in {"create", "lock", "load", "store", "unlock"} => lock = "ready"

Ready == mpc \in {"destroy", "listen", "run", "deaf"}

(* The main thread stops waiting only when every worker it counts on has   *)
(* been through event_loop_create and the count (servermanager.c:60-67),   *)
(* whichever workers failed to start or to get a loop.                     *)
AllStarted == Ready => \A w \in Workers : w < loop_num => w \in Counted

(* When server_manager_create stops waiting, every event loop exists       *)
(* (servermanager.c:60): accepted connections are given to g_loops[i]      *)
(* without a further test (listener.c:83).                                 *)
LoopsCreated ==
    Ready => \A w \in Workers : w < loop_num => g_loops[w] = "loop"

(* Connections are dealt out evenly (listener.c:74-84).                    *)
Balanced ==
    \A v, w \in Workers : v < loop_num /\ w < loop_num => conns[v] <= conns[w] + 1

Serving == mpc = "run" /\ \A w \in Workers : w < loop_num => thread[w] = "looping"

(* A worker is missing, the listener is, or the process has died.          *)
Failed ==
    \/ down
    \/ mpc = "deaf"
    \/ \E w \in Workers : w < spawned /\ thread[w] = "none"

(* The server comes to serve unless something fails: neither the polling   *)
(* main thread nor a worker waits for ever.                                *)
EventuallyServing == <>(Serving \/ Failed)

=============================================================================
