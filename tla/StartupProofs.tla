----------------------------- MODULE StartupProofs -----------------------------
(***************************************************************************)
(* Proofs about Startup, for every number of workers and every -w option.  *)
(* The counter is exact because the threads that touch it exclude each     *)
(* other (Exclusive) and a worker's copy is current (Current); that makes  *)
(* the main thread's test mean that every worker is done (Awaited), on     *)
(* which the life of the lock and of the loops depends.                    *)
(***************************************************************************)
EXTENDS Startup, FiniteSetTheorems, TLAPS

Past == {"destroy", "listen", "run", "deaf"}
Done == {"unlock", "run", "looping"}

Exclusive ==
    /\ \A w \in Workers : thread[w] \in {"load", "store", "unlock"} => holder = w
    /\ mpc = "test" => holder = Main

Current == \A w \in Workers : thread[w] = "store" => loaded[w] = started

Nascent ==
    /\ \A w \in Workers : thread[w] # "none" => w < spawned
    /\ mpc = "create" => spawned = 0
    /\ mpc \in {"spawn", "lock", "test", "destroy"} => lock = "ready"

Awaited ==
    mpc \in Past => \A w \in Workers :
        thread[w] = (IF w < loop_num THEN thread[w] ELSE "none")
        /\ (w < loop_num => thread[w] \in {"run", "looping"})

Built == ~CanFail => \A w \in Workers :
            thread[w] \notin {"none", "create"} => g_loops[w] = "loop"

Dealt ==
    /\ turn <= loop_num
    /\ mpc # "run" => turn = 0 /\ \A w \in Workers : conns[w] = 0
    /\ \E k \in Nat : \A w \in Workers :
          w < loop_num => conns[w] = IF w < turn THEN k + 1 ELSE k

IInv ==
    /\ TypeOK
    /\ Exclusive
    /\ Current
    /\ Nascent
    /\ Awaited
    /\ Built
    /\ CountExact

-----------------------------------------------------------------------------

LEMMA CountedFinite == IsFiniteSet(Counted) /\ Cardinality(Counted) \in Nat
  <1>1. IsFiniteSet(Workers)
    BY FS_Interval, StartupAssumption DEF Workers
  <1>2. Counted \subseteq Workers
    BY DEF Counted
  <1> QED
    BY <1>1, <1>2, FS_Subset, FS_CardinalityType

(* Who has passed the counter does not change but by Store.                *)
LEMMA CountedSame ==
    ASSUME \A w \in Workers : thread'[w] \in Done <=> thread[w] \in Done,
           UNCHANGED started, CountExact
    PROVE  CountExact'
  <1>1. Counted' = Counted
    BY DEF Counted, Done
  <1> QED
    BY <1>1 DEF CountExact

(* All of loop_num workers are counted when the counter says so.           *)
LEMMA CountedAll ==
    ASSUME IInv, started = loop_num
    PROVE  \A w \in Workers : w < loop_num => thread[w] \in Done
  <1> DEFINE All == 0..(loop_num - 1)
  <1>1. loop_num \in Nat
    BY DEF IInv, TypeOK
  <1>2. IsFiniteSet(All) /\ Cardinality(All) = loop_num
    BY <1>1, FS_Interval
  <1>3. Counted \subseteq All
    BY <1>1 DEF Counted, Workers, IInv, TypeOK, Nascent
  <1>4. Cardinality(Counted) = Cardinality(All)
    BY <1>2 DEF IInv, CountExact
  <1>5. Counted = All
    BY <1>2, <1>3, <1>4, FS_Subset
  <1> QED
    BY <1>1, <1>5 DEF Counted, Done, Workers

LEMMA InitIInv == Init => IInv
  <1> SUFFICES ASSUME Init PROVE IInv
    OBVIOUS
  <1>1. TypeOK
    <2>1. 0 \in 0..MaxLoop /\ 0 \in 0..0
      BY StartupAssumption
    <2> QED
      BY <2>1 DEF Init, TypeOK, MainLabels, WorkerLabels
  <1>2. Exclusive /\ Current /\ Nascent /\ Awaited /\ Built
    BY DEF Init, Exclusive, Current, Nascent, Awaited, Built, Past
  <1>3. Counted = {}
    BY DEF Init, Counted
  <1>4. CountExact
    BY <1>3, FS_EmptySet DEF CountExact, Init
  <1> QED
    BY <1>1, <1>2, <1>4 DEF IInv

-----------------------------------------------------------------------------
(* The main thread.                                                        *)

LEMMA CreateIInv ==
    ASSUME IInv, NEW n \in Requested, Create(n)
    PROVE  IInv'
  <1> USE DEF Create, lockVars, acceptVars
  <1>1. Clamp(n) \in 0..MaxLoop
    BY StartupAssumption DEF Clamp
  <1>2. TypeOK'
    <2>1. loop_num' \in 0..MaxLoop /\ spawned' = 0
      BY <1>1 DEF IInv, TypeOK, Nascent
    <2>2. spawned' \in 0..loop_num'
      BY <2>1
    <2>3. mpc' \in MainLabels /\ down' \in BOOLEAN /\ lock' = "ready"
      BY DEF IInv, TypeOK, MainLabels
    <2> QED
      BY <2>1, <2>2, <2>3 DEF IInv, TypeOK
  <1>3. Exclusive' /\ Current' /\ Nascent' /\ Awaited' /\ Built'
    BY DEF IInv, Exclusive, Current, Nascent, Awaited, Built, Past
  <1>4. CountExact'
    BY CountedSame DEF IInv
  <1> QED
    BY <1>2, <1>3, <1>4 DEF IInv

LEMMA SpawnIInv ==
    ASSUME IInv, Spawn
    PROVE  IInv'
  <1> USE DEF Spawn, lockVars, acceptVars
  <1>1. spawned \in Workers /\ loop_num \in 0..MaxLoop /\ spawned + 1 \in 0..loop_num
    BY StartupAssumption DEF IInv, TypeOK, Workers
  <1>2. thread[spawned] = "none"
    BY <1>1 DEF IInv, Nascent, Workers
  <1>3. TypeOK'
    BY <1>1 DEF IInv, TypeOK, WorkerLabels
  <1>4. Exclusive' /\ Current' /\ Awaited' /\ Built'
    BY <1>1 DEF IInv, TypeOK, Exclusive, Current, Awaited, Built, Past
  <1>5. Nascent'
    <2>1. ASSUME NEW w \in Workers, thread'[w] # "none" PROVE w < spawned'
      <3>1. w \in Int
        BY <2>1 DEF Workers
      <3>2. w = spawned \/ thread[w] # "none"
        BY <1>1, <2>1 DEF IInv, TypeOK
      <3>3. w = spawned \/ w < spawned
        BY <3>2 DEF IInv, Nascent
      <3> QED
        BY <1>1, <3>1, <3>3
    <2>2. mpc' = "spawn" /\ lock' = "ready"
      BY DEF IInv, Nascent
    <2> QED
      BY <2>1, <2>2 DEF Nascent
  <1>6. CountExact'
    <2>1. \A w \in Workers : thread'[w] \in Done <=> thread[w] \in Done
      BY <1>1, <1>2 DEF IInv, TypeOK, Done
    <2> QED
      BY <2>1, CountedSame DEF IInv
  <1> QED
    BY <1>3, <1>4, <1>5, <1>6 DEF IInv

LEMMA MainIInv ==
    ASSUME IInv, Spawned \/ MainLock \/ Destroy \/ Listen
    PROVE  IInv'
  <1> USE DEF Spawned, MainLock, Destroy, Listen, lockVars, acceptVars
  <1>1. TypeOK'
    BY DEF IInv, TypeOK, MainLabels
  <1>2. Exclusive'
    BY DEF IInv, Exclusive, NoOne, Main, Workers
  <1>3. Current' /\ Nascent' /\ Awaited' /\ Built'
    BY DEF IInv, Current, Nascent, Awaited, Built, Past
  <1>4. CountExact'
    BY CountedSame DEF IInv
  <1> QED
    BY <1>1, <1>2, <1>3, <1>4 DEF IInv

LEMMA MainTestIInv ==
    ASSUME IInv, MainTest
    PROVE  IInv'
  <1> USE DEF MainTest, acceptVars
  <1>1. TypeOK'
    BY DEF IInv, TypeOK, MainLabels
  <1>2. \A w \in Workers : thread[w] \notin {"load", "store", "unlock"}
    BY DEF IInv, Exclusive, Main, Workers
  <1>3. Exclusive' /\ Current' /\ Nascent' /\ Built'
    BY <1>2 DEF IInv, Exclusive, Current, Nascent, Built
  <1>4. Awaited'
    <2> SUFFICES ASSUME started = loop_num
                 PROVE  Awaited'
      BY DEF Awaited, Past
    <2>1. \A w \in Workers : w < loop_num => thread[w] \in {"run", "looping"}
      BY <1>2, CountedAll DEF Done
    <2>2. \A w \in Workers : ~(w < loop_num) => thread[w] = "none"
      BY StartupAssumption DEF IInv, TypeOK, Nascent, Workers
    <2> QED
      BY <2>1, <2>2 DEF Awaited
  <1>5. CountExact'
    BY CountedSame DEF IInv
  <1> QED
    BY <1>1, <1>3, <1>4, <1>5 DEF IInv

LEMMA AcceptIInv ==
    ASSUME IInv, Accept
    PROVE  IInv'
  <1> USE DEF Accept, mainVars, lockVars, acceptVars
  <1>1. TypeOK'
    <2>1. turn' \in 0..MaxLoop /\ conns' \in [Workers -> Nat] /\ down' \in BOOLEAN
      <3>1. CASE loop_num = 0
        BY <3>1 DEF IInv, TypeOK
      <3>2. CASE loop_num > 0
        <4>1. Picked \in Workers /\ Picked + 1 \in 0..MaxLoop
          BY <3>2, StartupAssumption DEF IInv, TypeOK, Picked, Workers
        <4>0. ~(loop_num = 0)
          BY <3>2 DEF IInv, TypeOK
        <4>2. /\ turn' = Picked + 1
              /\ conns' = [conns EXCEPT ![Picked] = @ + 1]
          BY <4>0 DEF Following
        <4>4. down' = (g_loops[Picked] = "null")
          BY <4>0, Zenon
        <4>5. down' \in BOOLEAN
          BY <4>4
        <4>3. conns \in [Workers -> Nat]
          BY DEF IInv, TypeOK
        <4> HIDE DEF Accept
        <4> QED
          BY <4>1, <4>2, <4>3, <4>5
      <3> QED
        BY <3>1, <3>2 DEF IInv, TypeOK
    <2> QED
      BY <2>1 DEF IInv, TypeOK
  <1>2. Exclusive' /\ Current' /\ Nascent' /\ Awaited' /\ Built'
    BY DEF IInv, Exclusive, Current, Nascent, Awaited, Built
  <1>3. CountExact'
    BY CountedSame DEF IInv
  <1> QED
    BY <1>1, <1>2, <1>3 DEF IInv

-----------------------------------------------------------------------------
(* The workers.                                                            *)

(* Steps that leave the counter alone and keep a worker on its side of it. *)
LEMMA WorkerIInv ==
    ASSUME IInv, NEW w \in Workers,
           CreateLoop(w) \/ WorkerLock(w) \/ Load(w) \/ WorkerUnlock(w) \/ Run(w)
    PROVE  IInv'
  <1> USE DEF CreateLoop, WorkerLock, Load, WorkerUnlock, Run, mainVars,
              lockVars, acceptVars
  <1>1. TypeOK'
    <2>1. thread' \in [Workers -> WorkerLabels]
      BY DEF IInv, TypeOK, WorkerLabels
    <2>2. /\ g_loops' \in [Workers -> {"null", "loop"}]
          /\ loaded' \in [Workers -> Nat]
          /\ holder' \in Workers \cup {Main, NoOne}
          /\ down' \in BOOLEAN
      BY DEF IInv, TypeOK
    <2>3. UNCHANGED <<mpc, loop_num, spawned, lock, started, turn, conns>>
      OBVIOUS
    <2> QED
      BY <2>1, <2>2, <2>3 DEF IInv, TypeOK
  <1>2. Exclusive'
    <2>1. CASE CreateLoop(w) \/ Load(w) \/ Run(w)
      BY <2>1 DEF IInv, TypeOK, Exclusive
    <2>2. CASE WorkerLock(w)
      BY <2>2 DEF IInv, TypeOK, Exclusive, NoOne, Main, Workers
    <2>3. CASE WorkerUnlock(w)
      BY <2>3 DEF IInv, TypeOK, Exclusive, NoOne, Main, Workers
    <2> QED
      BY <2>1, <2>2, <2>3
  <1>3. Current' /\ Nascent'
    BY DEF IInv, TypeOK, Current, Nascent
  <1>4. Awaited' /\ Built'
    BY DEF IInv, TypeOK, Awaited, Built
  <1>5. CountExact'
    <2>1. \A v \in Workers : thread'[v] \in Done <=> thread[v] \in Done
      BY DEF IInv, TypeOK, Done
    <2> QED
      BY <2>1, CountedSame DEF IInv
  <1> QED
    BY <1>1, <1>2, <1>3, <1>4, <1>5 DEF IInv

LEMMA StoreIInv ==
    ASSUME IInv, NEW w \in Workers, Store(w)
    PROVE  IInv'
  <1> USE DEF Store, mainVars, lockVars, acceptVars
  <1>1. TypeOK'
    BY DEF IInv, TypeOK, WorkerLabels
  <1>2. Exclusive'
    BY DEF IInv, TypeOK, Exclusive
  <1>3. Current'
    BY DEF IInv, TypeOK, Exclusive, Current
  <1>4. Nascent' /\ Awaited' /\ Built'
    BY DEF IInv, TypeOK, Nascent, Awaited, Built
  <1>5. CountExact'
    <2>1. Counted' = Counted \cup {w} /\ w \notin Counted
      BY DEF IInv, TypeOK, Counted
    <2>2. Cardinality(Counted') = Cardinality(Counted) + 1
      BY <2>1, CountedFinite, FS_AddElement
    <2> QED
      BY <2>2 DEF IInv, Current, CountExact
  <1> QED
    BY <1>1, <1>2, <1>3, <1>4, <1>5 DEF IInv

LEMMA Consecution ==
    ASSUME IInv, [Next]_vars
    PROVE  IInv'
  <1>1. CASE MainStep
    BY <1>1, CreateIInv, SpawnIInv, MainIInv, MainTestIInv DEF MainStep
  <1>2. CASE Accept
    BY <1>2, AcceptIInv
  <1>3. CASE \E w \in Workers : WorkerStep(w)
    BY <1>3, WorkerIInv, StoreIInv DEF WorkerStep
  <1>4. CASE UNCHANGED vars
    <2> USE <1>4 DEF vars, mainVars, lockVars, acceptVars
    <2>1. TypeOK'
      BY DEF IInv, TypeOK
    <2>2. Exclusive' /\ Current' /\ Nascent' /\ Awaited' /\ Built'
      BY DEF IInv, Exclusive, Current, Nascent, Awaited, Built
    <2>3. CountExact'
      BY CountedSame DEF IInv
    <2> QED
      BY <2>1, <2>2, <2>3 DEF IInv
  <1> QED
    BY <1>1, <1>2, <1>3, <1>4 DEF Next

-----------------------------------------------------------------------------
(* The theorems.                                                           *)

(* The inductive invariant holds whatever fails and however the threads    *)
(* interleave.                                                             *)
THEOREM Invariance == Spec => []IInv
  <1>1. IInv /\ [Next]_vars => IInv'
    BY Consecution
  <1> QED
    BY InitIInv, <1>1, PTL DEF Spec

(* The counter, its copies and the loops keep within their ranges.         *)
THEOREM TypeCorrect == Spec => []TypeOK
  <1>1. IInv => TypeOK
    BY DEF IInv
  <1> QED
    BY <1>1, Invariance, PTL

(* started_loop counts the workers that have passed it, none twice and none*)
(* lost (servermanager.c:22-24).                                           *)
THEOREM CountCorrect == Spec => []CountExact
  <1>1. IInv => CountExact
    BY DEF IInv
  <1> QED
    BY <1>1, Invariance, PTL

(* Nobody touches the spin lock outside its life (servermanager.c:33, 69). *)
THEOREM LockAliveCorrect == Spec => []LockAlive
  <1>1. IInv => LockAlive
    BY DEF IInv, TypeOK, Nascent, Awaited, LockAlive, Past, MainLabels, Workers
  <1> QED
    BY <1>1, Invariance, PTL

(* Every worker has been through event_loop_create and has been counted    *)
(* when the main thread goes on, whatever fails (servermanager.c:60-67).   *)
THEOREM AllStartedCorrect == Spec => []AllStarted
  <1>1. IInv => AllStarted
    BY DEF IInv, Awaited, AllStarted, Ready, Counted, Past
  <1> QED
    BY <1>1, Invariance, PTL

(* If no event_loop_create fails, all loops exist when the main thread goes*)
(* on to listen (servermanager.c:60).                                      *)
THEOREM LoopsCreatedCorrect ==
    ASSUME ~CanFail
    PROVE  Spec => []LoopsCreated
  <1>1. IInv => LoopsCreated
    BY DEF IInv, Awaited, Built, LoopsCreated, Ready, Past
  <1> QED
    BY <1>1, Invariance, PTL

(* Connections are dealt out evenly, for any number of loops and           *)
(* connections (listener.c:74-84).                                         *)
THEOREM BalancedCorrect == Spec => []Balanced
  <1>1. Init => Dealt
    BY StartupAssumption DEF Init, Dealt, Workers
  <1>2. ASSUME IInv, Dealt, [Next]_vars PROVE Dealt'
    <2>1. CASE Accept
      <3>1. CASE loop_num = 0
        BY <1>2, <2>1, <3>1 DEF Accept, acceptVars, mainVars, Dealt
      <3>2. CASE loop_num > 0
        <4>1. PICK k \in Nat : \A w \in Workers :
                 w < loop_num => conns[w] = IF w < turn THEN k + 1 ELSE k
          BY <1>2 DEF Dealt
        <4>2. /\ turn' = Picked + 1 /\ conns' = [conns EXCEPT ![Picked] = @ + 1]
              /\ UNCHANGED <<mpc, loop_num>> /\ mpc = "run"
          BY <2>1, <3>2 DEF Accept, Following, mainVars
        <4>3. /\ turn \in Nat /\ loop_num \in 0..MaxLoop /\ Picked \in Workers
              /\ Picked < loop_num /\ conns \in [Workers -> Nat] /\ MaxLoop \in Nat
          BY <1>2, <3>2, StartupAssumption DEF IInv, TypeOK, Picked, Workers
        <4>4. turn' <= loop_num'
          BY <4>2, <4>3 DEF Workers
        <4>5. CASE turn < loop_num
          <5>1. Picked = turn
            BY <4>3, <4>5 DEF Picked
          <5>2. \A w \in Workers :
                   w < loop_num => conns'[w] = IF w < turn' THEN k + 1 ELSE k
            BY <4>1, <4>2, <4>3, <5>1 DEF Workers
          <5> QED
            BY <4>2, <4>4, <5>2 DEF Dealt
        <4>6. CASE turn = loop_num
          <5>1. Picked = 0
            BY <4>6, <4>3 DEF Picked
          <5>2. \A w \in Workers :
                   w < loop_num => conns'[w] = IF w < turn' THEN (k + 1) + 1 ELSE k + 1
            BY <4>1, <4>2, <4>3, <4>6, <5>1 DEF Workers
          <5>3. k + 1 \in Nat
            OBVIOUS
          <5> QED
            BY <4>2, <4>4, <5>2, <5>3 DEF Dealt
        <4> QED
          BY <1>2, <4>3, <4>5, <4>6 DEF Dealt
      <3> QED
        BY <1>2, <3>1, <3>2, StartupAssumption DEF IInv, TypeOK
    <2>2. CASE ~Accept
      <3>1. UNCHANGED acceptVars
        BY <1>2, <2>2 DEF Next, MainStep, WorkerStep, Create, Spawn, Spawned,
           MainLock, MainTest, Destroy, Listen, CreateLoop, WorkerLock, Load,
           Store, WorkerUnlock, Run, vars
      <3>2. mpc = "run" => mpc' = "run" /\ loop_num' = loop_num
        BY <1>2, <2>2 DEF Next, MainStep, WorkerStep, Create, Spawn, Spawned,
           MainLock, MainTest, Destroy, Listen, CreateLoop, WorkerLock, Load,
           Store, WorkerUnlock, Run, vars, mainVars
      <3>3. CASE mpc = "run"
        BY <1>2, <3>1, <3>2, <3>3 DEF acceptVars, Dealt
      <3>4. CASE mpc # "run"
        <4>1. turn' = 0 /\ \A w \in Workers : conns'[w] = 0
          BY <1>2, <3>1, <3>4 DEF acceptVars, Dealt
        <4>2. loop_num' \in Nat
          BY <1>2, Consecution, StartupAssumption DEF IInv, TypeOK
        <4> QED
          BY <4>1, <4>2 DEF Dealt, Workers
      <3> QED
        BY <3>3, <3>4
    <2> QED
      BY <2>1, <2>2
  <1>3. IInv /\ Dealt => Balanced
    BY DEF IInv, TypeOK, Dealt, Balanced, Workers
  <1> QED
    BY <1>1, <1>2, <1>3, Invariance, PTL DEF Spec

=============================================================================
