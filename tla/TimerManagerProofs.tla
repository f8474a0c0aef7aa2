-------------------------- MODULE TimerManagerProofs --------------------------
(***************************************************************************)
(* Proofs about TimerManager, for every set of addresses, every initial    *)
(* capacity and every delay. A manager is sound when its active array      *)
(* holds distinct timers and its top pointer and index name the nearest    *)
(* one; a push and a pop keep it so (PushSound, PopSound), and the wait of *)
(* a round starts only when nothing is overdue (Timely).                   *)
(***************************************************************************)
EXTENDS TimerManager, FiniteSetTheorems, WellFoundedInduction, TLAPS

Places(n) == 0..(n - 1)
Arrays(cap) == [Places(cap) -> Block \cup {Null}]

Shape(mgr) ==
    /\ mgr = [queue |-> mgr.queue, index |-> mgr.index, size |-> mgr.size,
              cap |-> mgr.cap, top |-> mgr.top, top_index |-> mgr.top_index]
    /\ mgr.cap \in Nat \ {0}
    /\ mgr.size \in 0..mgr.cap
    /\ mgr.index \in {0, 1}
    /\ mgr.queue \in [{0, 1} -> Arrays(mgr.cap)]
    /\ mgr.top \in Block \cup {Null}
    /\ mgr.top_index \in Places(mgr.cap)

Distinct(mgr) ==
    \A i, j \in Places(mgr.size) :
        /\ Active(mgr)[i] \in Block
        /\ Active(mgr)[i] = Active(mgr)[j] => i = j

TopFirst(mgr, l) ==
    /\ mgr.size = 0 => mgr.top = Null /\ mgr.top_index = 0
    /\ mgr.size > 0 =>
          /\ mgr.top_index \in Places(mgr.size)
          /\ Active(mgr)[mgr.top_index] = mgr.top
          /\ \A i \in Places(mgr.size) : l[mgr.top] <= l[Active(mgr)[i]]

Sound(mgr, l) == Shape(mgr) /\ Distinct(mgr) /\ TopFirst(mgr, l)

Typed ==
    /\ out \in [Block -> Nat] /\ left \in [Block -> Int] /\ age \in [Block -> Nat]
    /\ type \in [Block -> {"none", "once", "repeat"}]
    /\ pc \in Labels /\ ti \in Copy
    /\ timeout \in Int /\ elapsed \in Nat

Timely ==
    pc \in {"setup", "calc", "dispatch"} => \A b \in Entries(m) : left[b] >= 0

IInv == Typed /\ Sound(m, left) /\ Timely

-----------------------------------------------------------------------------
(* Nearest.                                                                *)

(* Among n places of an array there is a first one of the nearest timers:  *)
(* the sets of the places before a given one in that order are finite, so  *)
(* that one of them has no smaller one, and it is empty.                   *)
LEMMA NearestExists ==
    ASSUME NEW n \in Nat \ {0}, NEW t \in [Places(n) -> Int]
    PROVE  \E i \in Places(n) :
              /\ \A j \in Places(n) : t[i] <= t[j]
              /\ \A j \in Places(i) : t[i] < t[j]
  <1> DEFINE Before(i) == {j \in Places(n) : t[j] < t[i] \/ (t[j] = t[i] /\ j < i)}
             Family == {Before(i) : i \in Places(n)}
             R == StrictSubsetOrdering(Places(n))
  <1>1. Family \subseteq FiniteSubsetsOf(Places(n)) /\ Family # {}
    <2>1. IsFiniteSet(Places(n))
      BY FS_Interval DEF Places
    <2>2. FiniteSubsetsOf(Places(n)) = SUBSET Places(n)
      BY <2>1, FS_FiniteSubsetsOfFinite
    <2>3. Before(0) \in Family
      BY DEF Places
    <2>4. \A y \in Family : y \in SUBSET Places(n)
      OBVIOUS
    <2> HIDE DEF Family
    <2> QED
      BY <2>2, <2>3, <2>4
  <1>2. PICK x \in Family : \A y \in Family : ~ (<<y, x>> \in R)
    <2>1. IsWellFoundedOn(R, FiniteSubsetsOf(Places(n)))
      BY FS_StrictSubsetOrderingWellFounded
    <2> HIDE DEF Family, R
    <2> QED
      BY <1>1, <2>1, WFMin
  <1>3. PICK i \in Places(n) : x = Before(i)
    BY <1>2
  <1>4. Before(i) = {}
    <2> SUFFICES ASSUME NEW j \in Before(i) PROVE FALSE
      OBVIOUS
    <2>1. j \in Places(n) /\ t[i] \in Int /\ t[j] \in Int
      BY <1>3
    <2>2. Before(j) \subseteq Before(i) /\ j \notin Before(j)
      BY <1>3, <2>1 DEF Places
    <2>3. <<Before(j), Before(i)>> \in R
      BY <2>2 DEF StrictSubsetOrdering
    <2> QED
      BY <1>2, <1>3, <2>1, <2>3
  <1>5. ASSUME NEW j \in Places(n)
        PROVE  t[i] <= t[j] /\ (j < i => t[i] < t[j])
    <2>1. t[i] \in Int /\ t[j] \in Int /\ i \in Int /\ j \in Int
      BY DEF Places
    <2>2. j \notin Before(i)
      BY <1>4
    <2>3. ~(t[j] < t[i] \/ (t[j] = t[i] /\ j < i))
      BY <2>2
    <2> QED
      BY <2>1, <2>3
  <1>6. \A j \in Places(i) : j \in Places(n) /\ j < i
    BY DEF Places
  <1> QED
    BY <1>5, <1>6

(* What Nearest returns.                                                   *)
LEMMA NearestCorrect ==
    ASSUME NEW n \in Nat \ {0}, NEW q, NEW l \in [Block -> Int],
           \A i \in Places(n) : q[i] \in Block
    PROVE  /\ Nearest(q, l, n) \in Places(n)
           /\ \A j \in Places(n) : l[q[Nearest(q, l, n)]] <= l[q[j]]
  <1> DEFINE t == [i \in Places(n) |-> l[q[i]]]
  <1>1. t \in [Places(n) -> Int]
    OBVIOUS
  <1>2. PICK i \in Places(n) : /\ \A j \in Places(n) : t[i] <= t[j]
                               /\ \A j \in Places(i) : t[i] < t[j]
    <2> HIDE DEF t
    <2> QED
      BY <1>1, NearestExists
  <1>3. /\ \A j \in 0..(n - 1) : l[q[i]] <= l[q[j]]
        /\ \A j \in 0..(i - 1) : l[q[i]] < l[q[j]]
    <2>1. \A j \in Places(n) : t[j] = l[q[j]]
      OBVIOUS
    <2>2. Places(i) \subseteq Places(n)
      BY DEF Places
    <2> HIDE DEF t
    <2> QED
      BY <1>2, <2>1, <2>2 DEF Places
  <1> QED
    BY <1>3 DEF Nearest, Places

-----------------------------------------------------------------------------
(* Push.                                                                   *)

(* Growing changes nothing but the room behind the timers.                 *)
LEMMA EnlargedSound ==
    ASSUME NEW mgr, NEW l, Sound(mgr, l)
    PROVE  LET g == Enlarged(mgr) IN
           /\ Sound(g, l)
           /\ g.size = mgr.size /\ g.size < g.cap /\ g.top = mgr.top
           /\ \A i \in Places(mgr.size) : Active(g)[i] = Active(mgr)[i]
  <1> DEFINE g == Enlarged(mgr)
             cell(q, i) == IF q = mgr.index /\ i < mgr.size
                           THEN mgr.queue[q][i] ELSE Null
             queue == [q \in {0, 1} |-> [i \in Places(2 * mgr.cap) |-> cell(q, i)]]
  <1>1. g = [queue |-> queue, index |-> mgr.index, size |-> mgr.size,
             cap |-> 2 * mgr.cap, top |-> mgr.top, top_index |-> mgr.top_index]
    <2>1. g = [mgr EXCEPT !.cap = 2 * @, !.queue = queue]
      BY DEF Enlarged, Places
    <2>2. mgr = [queue |-> mgr.queue, index |-> mgr.index, size |-> mgr.size,
                 cap |-> mgr.cap, top |-> mgr.top, top_index |-> mgr.top_index]
      BY DEF Sound, Shape
    <2> HIDE DEF g, queue
    <2> QED
      BY <2>1, <2>2
  <1>2. \A q \in {0, 1}, i \in Places(2 * mgr.cap) : cell(q, i) \in Block \cup {Null}
    BY DEF Sound, Shape, Places, Arrays
  <1>3. queue \in [{0, 1} -> Arrays(2 * mgr.cap)]
    <2> HIDE DEF cell
    <2> QED
      BY <1>2 DEF Arrays
  <1>4. \A i \in Places(mgr.size) : i \in Places(2 * mgr.cap) /\ i < mgr.size
    BY DEF Sound, Shape, Places
  <1>5. \A i \in Places(mgr.size) : queue[mgr.index][i] = mgr.queue[mgr.index][i]
    BY <1>4 DEF Sound, Shape
  <1> HIDE DEF queue, g
  <1>6. Shape(g)
    BY <1>1, <1>3 DEF Sound, Shape, Places
  <1>7. \A i \in Places(mgr.size) : Active(g)[i] = Active(mgr)[i]
    BY <1>1, <1>5 DEF Active
  <1>8. Distinct(g) /\ TopFirst(g, l)
    BY <1>1, <1>7 DEF Sound, Distinct, TopFirst
  <1>9. g.size < g.cap
    BY <1>1 DEF Sound, Shape
  <1> QED
    BY <1>1, <1>6, <1>7, <1>8, <1>9 DEF Sound, g

(* A push keeps a manager sound and adds the new timer to it.              *)
LEMMA PushSound ==
    ASSUME NEW mgr, NEW l \in [Block -> Int], Sound(mgr, l),
           NEW b \in Block, b \notin Entries(mgr), NEW d \in Nat
    PROVE  /\ Sound(Push(mgr, l, b, d), [l EXCEPT ![b] = d])
           /\ Entries(Push(mgr, l, b, d)) \subseteq Entries(mgr) \cup {b}
  <1> DEFINE r == IF Full(mgr) THEN Enlarged(mgr) ELSE mgr
             nearer == r.top # Null /\ d < l[r.top]
             p == Push(mgr, l, b, d)
             k == [l EXCEPT ![b] = d]
             array == [Active(r) EXCEPT ![r.size] = b]
  <1>1. /\ Sound(r, l) /\ r.size = mgr.size /\ r.size < r.cap
        /\ \A i \in Places(mgr.size) : Active(r)[i] = Active(mgr)[i]
    BY EnlargedSound DEF Full, Sound, Shape
  <1> HIDE DEF r
  <1>2. p = [queue |-> [r.queue EXCEPT ![r.index] = array], index |-> r.index,
             size |-> r.size + 1, cap |-> r.cap,
             top |-> IF r.top = Null \/ nearer THEN b ELSE r.top,
             top_index |-> IF nearer THEN r.size ELSE r.top_index]
    <2>1. p = [r EXCEPT
                 !.top = IF r.top = Null \/ nearer THEN b ELSE @,
                 !.top_index = IF nearer THEN r.size ELSE @,
                 !.queue[r.index][r.size] = b,
                 !.size = @ + 1]
      BY DEF Push, r
    <2>2. r = [queue |-> r.queue, index |-> r.index, size |-> r.size,
               cap |-> r.cap, top |-> r.top, top_index |-> r.top_index]
      BY <1>1 DEF Sound, Shape
    <2>3. [r.queue EXCEPT ![r.index][r.size] = b] = [r.queue EXCEPT ![r.index] = array]
      BY DEF Active
    <2> HIDE DEF p, nearer, array
    <2>4. p = [r EXCEPT
                 !.top = IF r.top = Null \/ nearer THEN b ELSE r.top,
                 !.top_index = IF nearer THEN r.size ELSE r.top_index,
                 !.queue = [r.queue EXCEPT ![r.index][r.size] = b],
                 !.size = r.size + 1]
      BY <2>1, <2>2
    <2> QED
      BY <2>2, <2>3, <2>4
  <1>3. /\ r.size \in Places(r.cap) /\ Active(r) \in Arrays(r.cap)
        /\ array \in Arrays(r.cap) /\ array[r.size] = b
        /\ \A i \in Places(r.size) : array[i] = Active(r)[i]
    BY <1>1 DEF Sound, Shape, Active, Arrays, Places
  <1> HIDE DEF p, array
  <1>4. Active(p) = array
    BY <1>1, <1>2 DEF Active, Sound, Shape
  <1>5. Shape(p)
    BY <1>1, <1>2, <1>3 DEF Sound, Shape, Places
  <1>6. \A i \in Places(p.size) : i \in Places(r.size) \/ i = r.size
    BY <1>1, <1>2 DEF Sound, Shape, Places
  <1>7. \A i \in Places(r.size) : Active(r)[i] \in Block /\ Active(r)[i] # b
    BY <1>1 DEF Sound, Distinct, Entries, Places
  <1>8. Distinct(p)
    BY <1>1, <1>3, <1>4, <1>6, <1>7 DEF Sound, Distinct
  <1>9. k[b] = d /\ \A i \in Places(r.size) : k[Active(r)[i]] = l[Active(r)[i]]
    BY <1>7
  <1>10. TopFirst(p, k)
    <2>1. p.size > 0 /\ r.size \in Nat
      BY <1>1, <1>2 DEF Sound, Shape
    <2>2. CASE r.size = 0
      <3>1. r.top = Null /\ r.top_index = 0
        BY <1>1, <2>2 DEF Sound, TopFirst
      <3>2. p.top = b /\ p.top_index = 0 /\ p.size = 1
        BY <1>2, <2>2, <3>1
      <3> QED
        BY <1>3, <1>4, <1>9, <2>2, <3>2 DEF TopFirst, Places
    <2>3. CASE r.size > 0
      <3>1. /\ r.top_index \in Places(r.size) /\ Active(r)[r.top_index] = r.top
            /\ \A i \in Places(r.size) : l[r.top] <= l[Active(r)[i]]
        BY <1>1, <2>3 DEF Sound, TopFirst
      <3>2. r.top \in Block /\ r.top # Null /\ r.top # b /\ k[r.top] = l[r.top]
        BY <1>7, <3>1, TimerAssumption
      <3>3. \A i \in Places(r.size) : l[Active(r)[i]] \in Int
        BY <1>7
      <3>4. CASE nearer
        <4>1. p.top = b /\ p.top_index = r.size
          BY <1>2, <3>4
        <4>2. \A i \in Places(r.size) : d <= l[Active(r)[i]]
          BY <3>1, <3>2, <3>3, <3>4
        <4> QED
          BY <1>2, <1>3, <1>4, <1>6, <1>9, <2>1, <4>1, <4>2 DEF TopFirst, Places
      <3>5. CASE ~nearer
        <4>1. p.top = r.top /\ p.top_index = r.top_index
          BY <1>2, <3>2, <3>5
        <4>2. l[r.top] <= d
          BY <3>2, <3>5
        <4>3. p.top_index \in Places(p.size)
          BY <1>2, <2>1, <3>1, <4>1 DEF Places
        <4> QED
          BY <1>3, <1>4, <1>6, <1>9, <2>1, <3>1, <3>2, <4>1, <4>2, <4>3 DEF TopFirst
      <3> QED
        BY <3>4, <3>5
    <2> QED
      BY <2>1, <2>2, <2>3
  <1>11. Entries(p) \subseteq Entries(mgr) \cup {b}
    BY <1>1, <1>3, <1>4, <1>6 DEF Entries, Places
  <1> QED
    BY <1>5, <1>8, <1>10, <1>11 DEF Sound, p

-----------------------------------------------------------------------------
(* Pop.                                                                    *)

(* A pop keeps a manager sound: the timers behind the removed one move up  *)
(* by a place, and the nearest of those that are left is found.            *)
LEMMA PopSound ==
    ASSUME NEW mgr, NEW l \in [Block -> Int], Sound(mgr, l), mgr.size > 0
    PROVE  /\ Sound(Pop(mgr, l), l)
           /\ Entries(Pop(mgr, l)) \subseteq Entries(mgr)
  <1> DEFINE p == Pop(mgr, l)
             n == mgr.size - 1
             from == Active(mgr)
             into == 1 - mgr.index
             place(i) == IF i < mgr.top_index THEN i ELSE i + 1
             cell(i) == IF i < n THEN from[place(i)]
                        ELSE IF i < mgr.size THEN mgr.queue[into][i] ELSE Null
             moved == [i \in Places(mgr.cap) |-> cell(i)]
             rest == [i \in Places(mgr.cap) |-> IF i < mgr.size THEN from[i] ELSE Null]
             queue == [q \in {0, 1} |-> IF q = into THEN moved ELSE rest]
             near == Nearest(moved, l, n)
  <1>1. /\ mgr = [queue |-> mgr.queue, index |-> mgr.index, size |-> mgr.size,
                  cap |-> mgr.cap, top |-> mgr.top, top_index |-> mgr.top_index]
        /\ mgr.cap \in Nat \ {0} /\ mgr.size \in 1..mgr.cap
        /\ mgr.index \in {0, 1} /\ mgr.top_index \in Places(mgr.size)
        /\ into \in {0, 1}
        /\ from \in Arrays(mgr.cap) /\ mgr.queue[into] \in Arrays(mgr.cap)
    BY DEF Sound, Shape, TopFirst, Active
  <1>2. CASE mgr.size = 1
    <2>1. p = [mgr EXCEPT !.top = Null, !.size = 0]
      BY <1>2 DEF Pop
    <2>2. p = [queue |-> mgr.queue, index |-> mgr.index, size |-> 0,
               cap |-> mgr.cap, top |-> Null, top_index |-> mgr.top_index]
      BY <1>1, <2>1
    <2> HIDE DEF p
    <2>3. Shape(p)
      BY <2>2 DEF Sound, Shape
    <2>4. Distinct(p) /\ TopFirst(p, l)
      BY <1>1, <1>2, <2>2 DEF Distinct, TopFirst, Places
    <2>5. Entries(p) = {}
      BY <2>2 DEF Entries
    <2> QED
      BY <2>3, <2>4, <2>5 DEF Sound, p
  <1>3. CASE mgr.size > 1
    <2>1. n \in Nat \ {0} /\ n < mgr.size
      BY <1>1, <1>3
    <2>2. \A i \in Places(n) : /\ i \in Places(mgr.cap) /\ i < n
                               /\ place(i) \in Places(mgr.size)
                               /\ place(i) # mgr.top_index
      BY <1>1, <2>1 DEF Places
    <2>3. \A i, j \in Places(n) : place(i) = place(j) => i = j
      BY <1>1 DEF Places
    <2>4. \A i \in Places(mgr.size) : from[i] \in Block
      BY DEF Sound, Distinct
    <2>5. moved \in Arrays(mgr.cap) /\ rest \in Arrays(mgr.cap)
      <3>1. \A i \in Places(mgr.cap) : from[i] \in Block \cup {Null}
                                       /\ mgr.queue[into][i] \in Block \cup {Null}
        BY <1>1 DEF Arrays
      <3>2. \A i \in Places(mgr.cap) : i < n => place(i) \in Places(mgr.cap)
        BY <1>1, <2>1 DEF Places
      <3> HIDE DEF from, into, place, n
      <3> QED
        BY <3>1, <3>2 DEF Arrays
    <2>6. \A i \in Places(n) : moved[i] = from[place(i)]
      BY <2>2
    <2>7. p = [mgr EXCEPT !.queue = queue, !.index = into, !.size = n,
                          !.top_index = near, !.top = moved[near]]
      <3>1. mgr.size # 1
        BY <1>1, <1>3
      <3> QED
        BY <3>1, Zenon DEF Pop, Places
    <2> HIDE DEF p, from, into, place, cell, moved, rest, near, n
    <2>8. near \in Places(n) /\ \A j \in Places(n) : l[moved[near]] <= l[moved[j]]
      <3>1. \A i \in Places(n) : moved[i] \in Block
        BY <2>2, <2>4, <2>6
      <3> QED
        BY <2>1, <3>1, NearestCorrect DEF near
    <2>9. queue \in [{0, 1} -> Arrays(mgr.cap)] /\ queue[into] = moved
      BY <1>1, <2>5
    <2> HIDE DEF queue
    <2>10. p = [queue |-> queue, index |-> into, size |-> n, cap |-> mgr.cap,
                top |-> moved[near], top_index |-> near]
      BY <1>1, <2>7
    <2>11. Active(p) = moved
      BY <2>9, <2>10 DEF Active
    <2>12. \A i \in Places(n) : moved[i] \in Block
      BY <2>2, <2>4, <2>6
    <2>13. near \in Places(mgr.cap) /\ moved[near] \in Block /\ n \in 0..mgr.cap
      BY <1>1, <2>1, <2>2, <2>8, <2>12
    <2>14. Shape(p)
      BY <1>1, <2>9, <2>10, <2>13 DEF Shape
    <2>15. Distinct(p)
      <3> SUFFICES ASSUME NEW i \in Places(n), NEW j \in Places(n), moved[i] = moved[j]
                   PROVE  i = j
        BY <2>10, <2>11, <2>12 DEF Distinct
      <3>1. from[place(i)] = from[place(j)]
        BY <2>6
      <3>2. place(i) = place(j)
        BY <2>2, <3>1 DEF Sound, Distinct, from
      <3> QED
        BY <2>3, <3>2
    <2>16. TopFirst(p, l)
      BY <2>1, <2>8, <2>10, <2>11 DEF TopFirst
    <2>17. Entries(p) \subseteq Entries(mgr)
      BY <2>2, <2>6, <2>10, <2>11 DEF Entries, Places, from
    <2> QED
      BY <2>14, <2>15, <2>16, <2>17 DEF Sound, p
  <1> QED
    BY <1>1, <1>2, <1>3

-----------------------------------------------------------------------------
(* The invariant.                                                          *)

(* The top timer of a manager that has one is an entry, and no entry is    *)
(* nearer.                                                                 *)
LEMMA TopIsEntry ==
    ASSUME Sound(m, left), m.size > 0
    PROVE  /\ m.top \in Block /\ m.top \in Entries(m)
           /\ \A b \in Entries(m) : b \in Block /\ left[m.top] <= left[b]
  BY DEF Sound, Distinct, TopFirst, Entries, Places

LEMMA EntriesAreBlocks ==
    ASSUME Sound(m, left)
    PROVE  Entries(m) \subseteq Block
  BY DEF Sound, Distinct, Entries, Places

LEMMA InitIInv == Init => IInv
  <1> SUFFICES ASSUME Init PROVE IInv
    OBVIOUS
  <1>1. Typed
    BY DEF Init, Typed, Labels, Copy
  <1>2. /\ m.size = 0 /\ m.top = Null /\ m.top_index = 0 /\ m.index = 0
        /\ m.cap = InitCap
        /\ m.queue = [q \in {0, 1} |-> [i \in Places(InitCap) |-> Null]]
        /\ m = [queue |-> m.queue, index |-> m.index, size |-> m.size,
                cap |-> m.cap, top |-> m.top, top_index |-> m.top_index]
    BY DEF Init, Places
  <1>3. m.queue \in [{0, 1} -> Arrays(InitCap)]
    BY <1>2 DEF Arrays
  <1>4. Shape(m)
    BY <1>2, <1>3, TimerAssumption DEF Shape, Places
  <1>5. Distinct(m) /\ TopFirst(m, left)
    BY <1>2 DEF Distinct, TopFirst, Places
  <1>6. Entries(m) = {}
    BY <1>2 DEF Entries
  <1> QED
    BY <1>1, <1>4, <1>5, <1>6 DEF IInv, Sound, Timely

(* Adding a timer keeps the manager sound, and only the new one changes.   *)
LEMMA AddSound ==
    ASSUME Typed, Sound(m, left), NEW b \in Block, NEW d \in Nat,
           NEW t \in {"none", "once", "repeat"}, Add(b, d, t)
    PROVE  /\ Sound(m', left')
           /\ out' \in [Block -> Nat] /\ left' \in [Block -> Int]
           /\ age' \in [Block -> Nat]
           /\ type' \in [Block -> {"none", "once", "repeat"}]
           /\ \A e \in Entries(m') : e = b \/ (e \in Entries(m) /\ e # b)
           /\ left'[b] = d /\ \A e \in Block \ {b} : left'[e] = left[e]
  <1>1. Sofar \in Nat
    BY DEF Typed, Sofar
  <1>2. /\ b \notin Entries(m) /\ m' = Push(m, left, b, d)
        /\ left' = [left EXCEPT ![b] = d]
    BY DEF Add
  <1>3. left \in [Block -> Int]
    BY DEF Typed
  <1>4. Sound(m', left') /\ Entries(m') \subseteq Entries(m) \cup {b}
    BY <1>2, <1>3, PushSound
  <1>5. /\ out' \in [Block -> Nat] /\ left' \in [Block -> Int]
        /\ age' \in [Block -> Nat]
        /\ type' \in [Block -> {"none", "once", "repeat"}]
    BY <1>1 DEF Typed, Add
  <1> QED
    BY <1>2, <1>3, <1>4, <1>5

LEMMA Consecution == IInv /\ [Next]_vars => IInv'
  <1> SUFFICES ASSUME IInv, [Next]_vars PROVE IInv'
    OBVIOUS
  <1> USE DEF IInv
  <1>1. CASE UNCHANGED vars
    BY <1>1 DEF vars, heapVars, loopVars, Typed, Timely, Sound, Shape, Distinct,
       TopFirst, Active, Entries
  <1>2. ASSUME NEW b \in Block, NEW d \in Delays, NEW t \in Types, AddTimer(b, d, t)
        PROVE  IInv'
    <2>1. d \in Nat /\ t \in {"none", "once", "repeat"} /\ Add(b, d, t)
          /\ UNCHANGED loopVars
      BY <1>2, TimerAssumption DEF AddTimer
    <2>2. Typed'
      BY <2>1, AddSound DEF Typed, loopVars
    <2>3. Timely'
      BY <2>1, AddSound, EntriesAreBlocks DEF Timely, loopVars
    <2> QED
      BY <2>1, <2>2, <2>3, AddSound
  <1>3. ASSUME NEW b \in Block, Again(b) PROVE IInv'
    <2>1. /\ ti.out \in Nat /\ ti.type \in {"none", "once", "repeat"}
          /\ Add(b, ti.out, ti.type) /\ pc' = "callback"
          /\ UNCHANGED <<ti, timeout, elapsed>>
      BY <1>3 DEF Again, Typed, Copy
    <2>2. Typed'
      BY <2>1, AddSound DEF Typed, Labels
    <2>3. Timely'
      BY <2>1 DEF Timely
    <2> QED
      BY <2>1, <2>2, <2>3, AddSound
  <1>4. CASE Fire
    <2>1. m.size > 0
      BY <1>4 DEF Fire, Sound, Shape, TopFirst
    <2>2. m.top \in Block
      BY <2>1, TopIsEntry
    <2>3. Sound(m', left')
      BY <1>4, <2>1, PopSound DEF Fire, heapVars, Typed
    <2>4. Typed'
      BY <1>4, <2>2 DEF Fire, heapVars, Typed, Labels, Copy
    <2> QED
      BY <1>4, <2>3, <2>4 DEF Fire, Timely
  <1>5. CASE Return
    <2>1. CASE timeout = -1
      BY <1>5, <2>1 DEF Return, Typed, Labels, Timely, Sound, Shape, Distinct,
         TopFirst, Active, Entries
    <2>2. CASE timeout # -1
      <3>1. Passed \in Int
        BY TimerAssumption DEF Typed, Passed
      <3>2. /\ left' = [b \in Block |->
                          IF b \in Entries(m) THEN left[b] - Passed ELSE left[b]]
            /\ pc' = "fire" /\ UNCHANGED <<m, out, type, age, ti, timeout, elapsed>>
        BY <1>5, <2>2 DEF Return
      <3>3. Typed'
        BY <3>1, <3>2 DEF Typed, Labels
      <3>4. \A b \in Entries(m) : left[b] \in Int /\ left'[b] = left[b] - Passed
        BY <3>2, EntriesAreBlocks DEF Typed
      <3>5. \A i \in Places(m.size) : Active(m)[i] \in Entries(m)
        BY DEF Entries, Places
      <3>6. TopFirst(m, left)'
        <4>1. CASE m.size = 0
          BY <3>2, <4>1 DEF Sound, TopFirst
        <4>2. CASE m.size > 0
          <5>1. m.top \in Entries(m)
            BY <4>2, TopIsEntry
          <5>2. \A i \in Places(m.size) : left'[m.top] <= left'[Active(m)[i]]
            BY <3>1, <3>4, <3>5, <4>2, <5>1, TopIsEntry
          <5> QED
            BY <3>2, <4>2, <5>2 DEF Sound, TopFirst, Active
        <4> QED
          BY <3>2, <4>1, <4>2 DEF Sound, Shape
      <3>7. Sound(m, left)'
        BY <3>2, <3>6 DEF Sound, Shape, Distinct, Active
      <3> QED
        BY <3>2, <3>3, <3>7 DEF Timely
    <2> QED
      BY <2>1, <2>2
  <1>6. CASE Stop
    <2>1. m.size > 0
      BY <1>6 DEF Stop, Sound, Shape, TopFirst
    <2>2. \A b \in Entries(m) : left[b] >= 0
      BY <1>6, <2>1, TopIsEntry DEF Stop, Typed
    <2>3. UNCHANGED <<m, heapVars, ti, timeout, elapsed>> /\ pc' = "calc"
      BY <1>6 DEF Stop
    <2> QED
      BY <2>2, <2>3 DEF heapVars, Typed, Labels, Timely, Sound, Shape, Distinct,
         TopFirst, Active, Entries
  <1>7. CASE Start
    BY <1>7 DEF Start, heapVars, Typed, Labels, Timely, Sound, Shape, Distinct,
       TopFirst, Active, Entries
  <1>8. CASE Calc
    <2>1. timeout' \in Int
      <3>1. m.size > 0 => left[m.top] \in Int
        BY TopIsEntry DEF Typed
      <3> QED
        BY <1>8, <3>1 DEF Calc
    <2> QED
      BY <1>8, <2>1 DEF Calc, heapVars, Typed, Labels, Timely, Sound, Shape,
         Distinct, TopFirst, Active, Entries
  <1>9. CASE Tick
    <2>1. Typed'
      BY <1>9 DEF Tick, Typed
    <2> QED
      BY <1>9, <2>1 DEF Tick, Timely, Sound, Shape, Distinct, TopFirst, Active, Entries
  <1>10. CASE Crash \/ Once \/ Called
    <2>1. UNCHANGED <<m, heapVars, ti, timeout, elapsed>>
          /\ pc' \in {"down", "callback", "fire"}
      BY <1>10 DEF Crash, Once, Called
    <2> QED
      BY <2>1 DEF heapVars, Typed, Labels, Timely, Sound, Shape, Distinct,
         TopFirst, Active
  <1> QED
    BY <1>1, <1>2, <1>3, <1>4, <1>5, <1>6, <1>7, <1>8, <1>9, <1>10 DEF Next, Loop

-----------------------------------------------------------------------------
(* The theorems.                                                           *)

(* The inductive invariant holds for timers added from everywhere and      *)
(* rounds of any length.                                                   *)
THEOREM Invariance == Spec => []IInv
  BY InitIInv, Consecution, PTL DEF Spec

(* Types, and the positions within the arrays (timer.h:24-32).             *)
THEOREM TypeCorrect == Spec => []TypeOK
  <1>1. IInv => TypeOK
    BY DEF IInv, Typed, Sound, Shape, TypeOK, Array, Arrays, Places
  <1> QED
    BY <1>1, Invariance, PTL

(* The top pointer names the nearest timer and top_index its place, after  *)
(* any number of pushes, pops and growths (timer.c:93-101, 146-168).       *)
THEOREM TopIsNearestCorrect == Spec => []TopIsNearest
  <1>1. IInv => TopIsNearest
    <2> SUFFICES ASSUME IInv PROVE TopIsNearest
      OBVIOUS
    <2>1. m.size \in Nat
      BY DEF IInv, Sound, Shape
    <2>2. m.size > 0 => m.top # Null
      BY TopIsEntry, TimerAssumption DEF IInv
    <2> QED
      BY <2>1, <2>2, TopIsEntry DEF IInv, Sound, TopFirst, TopIsNearest
  <1> QED
    BY <1>1, Invariance, PTL

(* The active array holds as many distinct timers as the size says: moving *)
(* them to the other array and growing lose none (timer.c:60-89, 146-168). *)
THEOREM NoneLostCorrect == Spec => []NoneLost
  <1>1. IInv => NoneLost
    <2> SUFFICES ASSUME IInv PROVE NoneLost
      OBVIOUS
    <2> DEFINE f == [i \in Places(m.size) |-> Active(m)[i]]
    <2>1. m.size \in Nat
      BY DEF IInv, Sound, Shape
    <2>2. f \in Bijection(Places(m.size), Entries(m))
      BY DEF IInv, Sound, Distinct, Entries, Places, Bijection, Injection,
         Surjection, IsInjective
    <2>3. IsFiniteSet(Places(m.size)) /\ Cardinality(Places(m.size)) = m.size
      <3> DEFINE last == m.size - 1
      <3>1. last \in Int
        BY ONLY <2>1
      <3> HIDE DEF last
      <3>2. /\ IsFiniteSet(0..last)
            /\ Cardinality(0..last) = IF 0 > last THEN 0 ELSE last - 0 + 1
        BY <3>1, FS_Interval
      <3>3. m.size = IF 0 > last THEN 0 ELSE last - 0 + 1
        BY ONLY <2>1 DEF last
      <3>4. Places(m.size) = 0..last
        BY Zenon DEF Places, last
      <3> QED
        BY ONLY <3>2, <3>3, <3>4, Zenon
    <2>4. Cardinality(Entries(m)) = m.size
      BY <2>2, <2>3, FS_Bijection DEF ExistsBijection
    <2>5. Null \notin Entries(m)
      BY EntriesAreBlocks, TimerAssumption DEF IInv
    <2> QED
      BY <2>4, <2>5 DEF NoneLost
  <1> QED
    BY <1>1, Invariance, PTL

(* Nothing is overdue when a wait is computed (servermanager.c:85, 99-108).*)
THEOREM BoundedWaitCorrect == Spec => []BoundedWait
  <1>1. IInv => BoundedWait
    BY TopIsEntry DEF IInv, Timely, BoundedWait
  <1> QED
    BY <1>1, Invariance, PTL

(* A timer has been charged for no more than has passed since it was added,*)
(* or its time_out has passed anyway; the round in hand is not charged yet.*)
Charged ==
    \A b \in Entries(m) : Aged(b) \/ Milli * (out[b] - left[b]) + Sofar <= age[b]

LEMMA PassedBound ==
    ASSUME elapsed \in Nat
    PROVE  Passed \in Nat /\ Milli * Passed <= elapsed
  <1>1. Milli \in Nat /\ Milli > 0
    BY TimerAssumption
  <1> QED
    BY <1>1 DEF Passed

LEMMA TimesMinus ==
    ASSUME NEW k \in Nat, NEW a \in Int, NEW b \in Int
    PROVE  /\ k * (a - b) = k * a - k * b
           /\ k * (a - b) \in Int /\ k * a \in Int /\ k * b \in Int
           /\ b <= 0 => k * b <= 0
  OBVIOUS

LEMMA TimesZero == \A k \in Nat : k * 0 = 0
  OBVIOUS

(* A new timer has been charged nothing, and its age is that of the round. *)
LEMMA AddCharged ==
    ASSUME IInv, Charged, NEW b \in Block, NEW d \in Nat,
           NEW t \in {"none", "once", "repeat"}, Add(b, d, t), Sofar' = Sofar
    PROVE  Charged'
  <1>1. /\ out \in [Block -> Nat] /\ left \in [Block -> Int]
        /\ age \in [Block -> Nat] /\ Milli \in Nat /\ Sofar \in Nat
    BY TimerAssumption DEF IInv, Typed, Sofar
  <1>2. SUFFICES ASSUME NEW e \in Entries(m')
                 PROVE  Aged(e)' \/ Milli * (out'[e] - left'[e]) + Sofar <= age'[e]
    BY DEF Charged, Entries
  <1>3. e = b \/ (e \in Entries(m) /\ e # b)
    BY AddSound DEF IInv
  <1>4. CASE e = b
    <2>1. out'[e] = d /\ left'[e] = d /\ age'[e] = Sofar
      BY <1>1, <1>4 DEF Add
    <2>2. out'[e] - left'[e] = 0
      BY <2>1
    <2>3. Milli * (out'[e] - left'[e]) = 0
      BY <1>1, <2>2, TimesZero
    <2> QED
      BY <1>1, <2>1, <2>3
  <1>5. CASE e \in Entries(m) /\ e # b
    <2>1. out'[e] = out[e] /\ left'[e] = left[e] /\ age'[e] = age[e]
      BY <1>1, <1>5 DEF Add
    <2> QED
      BY <1>5, <2>1 DEF Charged, Aged
  <1> QED
    BY <1>3, <1>4, <1>5

LEMMA ChargedNext == IInv /\ Charged /\ [Next]_vars => Charged'
  <1> SUFFICES ASSUME IInv, Charged, [Next]_vars PROVE Charged'
    OBVIOUS
  <1>0. /\ out \in [Block -> Nat] /\ left \in [Block -> Int]
        /\ age \in [Block -> Nat] /\ Milli \in Nat /\ elapsed \in Nat
        /\ Entries(m) \subseteq Block /\ Sofar \in Nat
    BY TimerAssumption, EntriesAreBlocks DEF IInv, Typed, Sofar
  (* Nothing of a timer changes, and the round's charge does not grow.      *)
  <1>1. ASSUME UNCHANGED heapVars, Entries(m') \subseteq Entries(m), Sofar' = 0 \/ Sofar' = Sofar
        PROVE  Charged'
    <2>1. SUFFICES ASSUME NEW b \in Entries(m)
                   PROVE  Aged(b)' \/ Milli * (out[b] - left[b]) + Sofar' <= age[b]
      BY <1>1 DEF heapVars, Charged, Entries
    <2>2. Aged(b)' <=> Aged(b)
      BY <1>1 DEF heapVars, Aged
    <2>3. Milli * (out[b] - left[b]) \in Int /\ age[b] \in Int
      BY <1>0, TimesMinus
    <2> QED
      BY <1>0, <1>1, <2>2, <2>3 DEF Charged
  <1>2. CASE Start \/ Calc \/ Stop \/ Crash \/ Once \/ Called \/ UNCHANGED vars
    <2>1. UNCHANGED <<m, heapVars>> /\ (Sofar' = 0 \/ Sofar' = Sofar)
      BY <1>2 DEF Start, Calc, Stop, Crash, Once, Called, vars, heapVars, loopVars, Sofar
    <2> QED
      BY <1>1, <2>1 DEF Entries, Active
  <1>3. CASE Fire
    <2>1. m.size > 0
      BY <1>3 DEF Fire, IInv, Sound, Shape, TopFirst
    <2>2. Entries(m') \subseteq Entries(m)
      BY <1>0, <1>3, <2>1, PopSound DEF Fire, IInv
    <2> QED
      BY <1>1, <1>3, <2>2 DEF Fire, Sofar
  <1>4. CASE Return
    <2>1. CASE timeout = -1
      <3>1. UNCHANGED <<m, heapVars>> /\ Sofar' = 0
        BY <1>4, <2>1 DEF Return, heapVars, Sofar
      <3> QED
        BY <1>1, <3>1 DEF Entries, Active
    <2>2. CASE timeout # -1
      <3>1. /\ left' = [b \in Block |->
                          IF b \in Entries(m) THEN left[b] - Passed ELSE left[b]]
            /\ UNCHANGED <<m, out, age>> /\ Sofar' = 0 /\ Sofar = elapsed
        BY <1>4, <2>2 DEF Return, Sofar
      <3>2. Passed \in Nat /\ Milli * Passed <= elapsed
        BY <1>0, PassedBound
      <3>3. SUFFICES ASSUME NEW b \in Entries(m), ~Aged(b)
                     PROVE  Milli * (out[b] - left'[b]) <= age[b]
        <4>1. \A b \in Entries(m) : Aged(b)' <=> Aged(b)
          BY <3>1 DEF Aged
        <4>2. \A b \in Block : Milli * (out[b] - left'[b]) \in Int
          BY <1>0, <3>1, <3>2, TimesMinus
        <4>3. Entries(m)' = Entries(m)
          BY <3>1 DEF Entries, Active
        <4>4. SUFFICES ASSUME NEW b \in Entries(m)
                       PROVE  Aged(b)' \/ Milli * (out'[b] - left'[b]) + Sofar' <= age'[b]
          BY <4>3, Zenon DEF Charged
        <4>5. Milli * (out'[b] - left'[b]) + Sofar' = Milli * (out[b] - left'[b])
          BY <1>0, <3>1, <4>2
        <4> QED
          BY <1>0, <3>1, <4>1, <4>5
      <3> DEFINE d == out[b] - left[b]
      <3>4. b \in Block /\ d \in Int /\ left'[b] = left[b] - Passed
        BY <1>0, <3>1
      <3>5. out[b] - left'[b] = d + Passed
        BY <1>0, <3>2, <3>4
      <3>6. Milli * d + elapsed <= age[b]
        BY <3>1, <3>3 DEF Charged
      <3>7. Milli * (d + Passed) = Milli * d + Milli * Passed
            /\ Milli * d \in Int /\ Milli * Passed \in Int
        <4> HIDE DEF d
        <4> QED
          BY <1>0, <3>2, <3>4
      <3> HIDE DEF d
      <3> QED
        BY <1>0, <3>2, <3>4, <3>5, <3>6, <3>7
    <2> QED
      BY <2>1, <2>2
  <1>5. CASE Tick
    <2>1. SUFFICES ASSUME NEW b \in Entries(m)
                   PROVE  Aged(b)' \/ Milli * (out[b] - left[b]) + Sofar' <= age'[b]
      BY <1>5 DEF Tick, Charged, Entries, Active
    <2>2. Sofar' = Sofar + 1
      BY <1>0, <1>5 DEF Tick, Sofar
    <2>3. b \in Block /\ Milli * (out[b] - left[b]) \in Int
      BY <1>0, TimesMinus
    <2>4. CASE Aged(b)
      BY <1>5, <2>3, <2>4 DEF Tick, Aged
    <2>5. CASE ~Aged(b)
      <3>1. age'[b] = age[b] + 1
        BY <1>5, <2>3, <2>5 DEF Tick
      <3> QED
        BY <1>0, <2>2, <2>3, <2>5, <3>1 DEF Charged
    <2> QED
      BY <2>4, <2>5
  <1>6. ASSUME NEW b \in Block, Again(b) PROVE Charged'
    <2>1. ti.out \in Nat /\ ti.type \in {"none", "once", "repeat"} /\ Sofar' = Sofar
      BY <1>6 DEF Again, IInv, Typed, Copy, Sofar
    <2> QED
      BY <1>6, <2>1, AddCharged DEF Again
  <1>7. ASSUME NEW b \in Block, NEW d \in Delays, NEW t \in Types, AddTimer(b, d, t)
        PROVE  Charged'
    <2>1. d \in Nat /\ t \in {"none", "once", "repeat"} /\ Sofar' = Sofar
      BY <1>7, TimerAssumption DEF AddTimer, loopVars, Sofar
    <2> QED
      BY <1>7, <2>1, AddCharged DEF AddTimer
  <1> QED
    BY <1>2, <1>3, <1>4, <1>5, <1>6, <1>7 DEF Next, Loop

(* No timer is due before its time_out has passed (timer.h:15), whatever   *)
(* timers there are and however long the rounds take: what the rounds      *)
(* charge to a timer is never more than its age.                           *)
THEOREM NotEarlyCorrect == Spec => []NotEarly
  <1>1. Init => Charged
    BY DEF Init, Charged, Entries
  <1>2. IInv /\ Charged => NotEarly
    <2>1. SUFFICES ASSUME IInv, Charged, NEW b \in Entries(m), left[b] <= 0,
                          ~Aged(b), pc = "fire"
                   PROVE  FALSE
      BY Zenon DEF NotEarly
    <2>2. b \in Block /\ out[b] \in Nat /\ left[b] \in Int /\ age[b] \in Nat
      <3>1. b \in Block
        BY <2>1, EntriesAreBlocks DEF IInv
      <3> QED
        BY <2>1, <3>1 DEF IInv, Typed
    <2>3. Milli * (out[b] - left[b]) <= age[b]
      <3>1. Milli * (out[b] - left[b]) \in Int
        BY <2>2, TimesMinus, TimerAssumption
      <3> QED
        BY <2>1, <2>2, <3>1 DEF Charged, Sofar
    <2>4. Milli * out[b] <= Milli * (out[b] - left[b])
      BY <2>1, <2>2, TimesMinus, TimerAssumption
    <2> QED
      BY <2>1, <2>2, <2>3, <2>4, TimesMinus, TimerAssumption DEF Aged
  <1> QED
    BY <1>1, <1>2, Invariance, ChargedNext, PTL DEF Spec

=============================================================================
