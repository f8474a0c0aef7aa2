----------------------------- MODULE HandoffProofs -----------------------------
(***************************************************************************)
(* Proofs about Handoff, for any number of connections, workers and steps  *)
(* of the threads. An event belongs to the thread of one loop, and only    *)
(* from its registration on (Owned); a connection that main has not yet    *)
(* registered is nobody else's (Private); a thread that has gone past a    *)
(* test of the event while main was storing has left its mark (Marked).    *)
(* So an event without a mark has what event_add_io stores in it (Known    *)
(* and Watched), and nothing goes wrong with it.                           *)
(***************************************************************************)
EXTENDS Handoff, TLAPS

Registered(c) == interest[c] # "absent"
Works(l, c) == task[l].at # "wait" /\ task[l].conn = c
Tasks == [Loops -> [at : Steps, conn : Conns, on : BOOLEAN, free : BOOLEAN]]
BeforeAdd == {"establish", "start", "add"}

Owned ==
    \A l \in Loops : task[l].at # "wait" =>
        /\ loop[task[l].conn] = l /\ mem[task[l].conn] = "live"
        /\ task[l].at # "close" => Registered(task[l].conn)

Private ==
    /\ main # "accept" => task[MainLoop].at = "wait" /\ mem[cur] # "none"
    /\ main \in BeforeAdd =>
        /\ mem[cur] = "live" /\ ~Registered(cur) /\ ~writing[cur]
        /\ \A l \in Loops : ~Works(l, cur)
    /\ main = "start" => prepared[cur] = {"handler", "callback"}
    /\ main = "add" => prepared[cur] = Parts

InStore ==
    /\ main # "store" => stored = {}
    /\ main = "store" => stored \in {{}, {"epoll_fd"}, {"is_working"}}
    /\ main = "store" /\ ~early[cur] => mem[cur] = "live" /\ Registered(cur)

Fresh == \A c \in Conns : IF mem[c] = "none" THEN ~writing[c] ELSE loop[c] \in Dealt

Marked ==
    \A l \in Loops :
        task[l].at \in {"ctl", "del", "close"} /\ Storing(task[l].conn) =>
            early[task[l].conn]

Has(c, f) == IF f = "epoll_fd" THEN epoll_fd[c] = loop[c] ELSE is_working[c]
FieldsStored ==
    \A c \in Conns : Registered(c) /\ ~early[c] =>
        \A f \in Fields : (Storing(c) => f \in stored) => Has(c, f)

Watched ==
    \A c \in Conns :
        Registered(c) /\ ~early[c] /\ (\A l \in Loops : ~(Works(l, c) /\ task[l].at = "ctl"))
            => (interest[c] = "inout" <=> writing[c])

(* The inductive invariant. *)
IInv ==
    /\ TypeOK /\ Owned /\ Private /\ InStore /\ Fresh /\ Marked /\ FieldsStored /\ Watched
    /\ RunsAfterConnection /\ UnharmedUnlessEarly

LEMMA GotoTyped ==
  ASSUME TypeOK, NEW l \in Loops, NEW at \in Steps, Goto(l, at)
  PROVE  task' \in Tasks
  BY DEF TypeOK, Goto, Tasks

LEMMA CreateStep ==
  ASSUME IInv, NEW c \in Conns, Create(c)
  PROVE  IInv'
  <1>1. TypeOK'
    BY DEF IInv, TypeOK, Create, Dealt, endVars, Loops
  <1>2. Owned'
    BY DEF IInv, Owned, Registered, Create
  <1>3. Private'
    BY DEF IInv, TypeOK, Private, Registered, Works, Owned, Fresh,
         RunsAfterConnection, Create
  <1>4. InStore'
    BY DEF IInv, InStore, Create
  <1>5. Fresh'
    BY DEF IInv, TypeOK, Fresh, Dealt, Create
  <1>6. Marked'
    BY DEF IInv, Marked, Storing, Create
  <1>7. FieldsStored'
    BY DEF IInv, FieldsStored, Registered, Storing, Has, RunsAfterConnection, Create
  <1>8. Watched'
    BY DEF IInv, Watched, Registered, Works, Create
  <1>9. RunsAfterConnection'
    BY DEF IInv, RunsAfterConnection, Create
  <1>10. UnharmedUnlessEarly'
    BY DEF IInv, UnharmedUnlessEarly, Create, endVars
  <1>11. QED
    BY <1>1, <1>2, <1>3, <1>4, <1>5, <1>6, <1>7, <1>8, <1>9, <1>10 DEF IInv

LEMMA EstablishStep ==
  ASSUME IInv, Establish
  PROVE  IInv'
  <1>1. TypeOK'
    BY DEF IInv, TypeOK, Establish, fieldVars, endVars, Parts
  <1>2. Owned'
    BY DEF IInv, Owned, Registered, Establish
  <1>3. Private'
    BY DEF IInv, TypeOK, Private, Registered, Works, BeforeAdd, Establish
  <1>4. InStore'
    BY DEF IInv, InStore, Establish
  <1>5. Fresh'
    BY DEF IInv, Fresh, Dealt, Establish
  <1>6. Marked'
    BY DEF IInv, Marked, Storing, Establish
  <1>7. FieldsStored'
    BY DEF IInv, FieldsStored, Registered, Storing, Has, Establish, fieldVars
  <1>8. Watched'
    BY DEF IInv, Watched, Registered, Works, Establish
  <1>9. RunsAfterConnection'
    BY DEF IInv, RunsAfterConnection, Private, Registered, BeforeAdd, Establish
  <1>10. UnharmedUnlessEarly'
    BY DEF IInv, UnharmedUnlessEarly, Establish, endVars
  <1>11. QED
    BY <1>1, <1>2, <1>3, <1>4, <1>5, <1>6, <1>7, <1>8, <1>9, <1>10 DEF IInv

LEMMA StartStep ==
  ASSUME IInv, Start
  PROVE  IInv'
  <1>1. TypeOK'
    BY DEF IInv, TypeOK, Start, fieldVars, endVars, Parts
  <1>2. Owned'
    BY DEF IInv, Owned, Registered, Start
  <1>3. Private'
    BY DEF IInv, TypeOK, Private, Registered, Works, BeforeAdd, Start, Parts
  <1>4. InStore'
    BY DEF IInv, InStore, Start
  <1>5. Fresh'
    BY DEF IInv, Fresh, Dealt, Start
  <1>6. Marked'
    BY DEF IInv, Marked, Storing, Start
  <1>7. FieldsStored'
    BY DEF IInv, FieldsStored, Registered, Storing, Has, Start, fieldVars
  <1>8. Watched'
    BY DEF IInv, Watched, Registered, Works, Start
  <1>9. RunsAfterConnection'
    BY DEF IInv, RunsAfterConnection, Start, Parts
  <1>10. UnharmedUnlessEarly'
    BY DEF IInv, UnharmedUnlessEarly, Start, endVars
  <1>11. QED
    BY <1>1, <1>2, <1>3, <1>4, <1>5, <1>6, <1>7, <1>8, <1>9, <1>10 DEF IInv

LEMMA EpollAddStep ==
  ASSUME IInv, EpollAdd
  PROVE  IInv'
  <1>1. TypeOK'
    BY DEF IInv, TypeOK, EpollAdd, fieldVars, connVars, endVars
  <1>2. Owned'
    BY DEF IInv, Owned, Registered, EpollAdd, connVars
  <1>3. Private'
    BY DEF IInv, Private, BeforeAdd, EpollAdd
  <1>4. InStore'
    BY DEF IInv, TypeOK, InStore, Registered, Private, BeforeAdd, EpollAdd
  <1>5. Fresh'
    BY DEF IInv, Fresh, Dealt, EpollAdd, connVars
  <1>6. Marked'
    BY DEF IInv, Marked, Storing, Private, Works, BeforeAdd, EpollAdd
  <1>7. FieldsStored'
    BY DEF IInv, FieldsStored, Registered, Storing, Has, InStore, EpollAdd,
         fieldVars, connVars
  <1>8. Watched'
    BY DEF IInv, Watched, Registered, Works, Private, BeforeAdd, EpollAdd
  <1>9. RunsAfterConnection'
    BY DEF IInv, RunsAfterConnection, Private, BeforeAdd, EpollAdd, connVars
  <1>10. UnharmedUnlessEarly'
    BY DEF IInv, UnharmedUnlessEarly, EpollAdd, endVars
  <1>11. QED
    BY <1>1, <1>2, <1>3, <1>4, <1>5, <1>6, <1>7, <1>8, <1>9, <1>10 DEF IInv

LEMMA StoreStep ==
  ASSUME IInv, NEW f \in Fields, Store(f)
  PROVE  IInv'
  <1>1. TypeOK'
    <2>1. stored' \in SUBSET Fields /\ main' \in {"store", "accept"} /\ corrupt' \in BOOLEAN
      BY DEF IInv, TypeOK, Store
    <2>2. /\ is_working' \in [Conns -> BOOLEAN]
          /\ epoll_fd' \in [Conns -> Loops \cup {Junk}]
      <3>1. /\ is_working \in [Conns -> BOOLEAN] /\ epoll_fd \in [Conns -> Loops \cup {Junk}]
            /\ loop[cur] \in Loops
        BY DEF IInv, TypeOK
      <3>2. Stored(f) \/ UNCHANGED fieldVars
        BY DEF Store
      <3>3. QED
        BY <3>1, <3>2 DEF Stored, fieldVars, Fields
    <2>3. UNCHANGED <<g_loops, cur, mem, connVars, writing, interest, task, early, down>>
      BY DEF Store
    <2>4. QED
      BY <2>1, <2>2, <2>3 DEF IInv, TypeOK, connVars
  <1>2. Owned'
    BY DEF IInv, Owned, Registered, Store, connVars
  <1>3. Private'
    BY DEF IInv, Private, BeforeAdd, Store
  <1>4. InStore'
    BY DEF IInv, InStore, Registered, Store, Fields
  <1>5. Fresh'
    BY DEF IInv, Fresh, Dealt, Store, connVars
  <1>6. Marked'
    BY DEF IInv, Marked, Storing, Store
  <1>7. FieldsStored'
    <2>1. SUFFICES ASSUME NEW c \in Conns, Registered(c), ~early[c], NEW g \in Fields,
                          main' = "store" /\ cur = c => g \in stored'
                   PROVE  Has(c, g)'
      BY DEF FieldsStored, Registered, Storing, Store
    <2>2. CASE c # cur
      <3>1. Has(c, g)
        BY <2>1, <2>2 DEF IInv, FieldsStored, Storing
      <3>2. QED
        BY <2>2, <3>1 DEF IInv, TypeOK, Has, Store, Stored, connVars, fieldVars
    <2>3. CASE c = cur
      <3>1. main = "store" /\ f \notin stored /\ Stored(f) /\ loop' = loop
        BY <2>1, <2>3 DEF IInv, InStore, Store, connVars
      <3>2. g = f \/ g \in stored
        BY <2>1, <2>3 DEF IInv, InStore, Store, Fields
      <3>3. CASE g = f
        BY <2>3, <3>1, <3>3 DEF IInv, TypeOK, Stored, Has, Fields
      <3>4. CASE g # f
        <4>1. Has(c, g)
          BY <2>1, <2>3, <3>2, <3>4 DEF IInv, FieldsStored, Storing
        <4>2. QED
          BY <2>3, <3>1, <3>4, <4>1 DEF IInv, TypeOK, Stored, Has, Fields
      <3>5. QED
        BY <3>3, <3>4
    <2>4. QED
      BY <2>2, <2>3
  <1>8. Watched'
    BY DEF IInv, Watched, Registered, Works, Store
  <1>9. RunsAfterConnection'
    BY DEF IInv, RunsAfterConnection, Store, connVars
  <1>10. UnharmedUnlessEarly'
    BY DEF IInv, TypeOK, UnharmedUnlessEarly, InStore, Store
  <1>11. QED
    BY <1>1, <1>2, <1>3, <1>4, <1>5, <1>6, <1>7, <1>8, <1>9, <1>10 DEF IInv

LEMMA ModifyStep ==
  ASSUME IInv, NEW l \in Loops, Modify(l)
  PROVE  IInv'
  <1>1. TypeOK'
    <2>1. Goto(l, "ctl") \/ Goto(l, "stop") \/ Goto(l, "wait")
      BY DEF Modify, Done
    <2>2. task' \in [Loops -> [at : Steps, conn : Conns, on : BOOLEAN, free : BOOLEAN]]
      <3>1. ASSUME NEW to \in Steps, Goto(l, to)
            PROVE  task' \in [Loops -> [at : Steps, conn : Conns, on : BOOLEAN, free : BOOLEAN]]
        BY <3>1 DEF IInv, TypeOK, Goto
      <3>2. "ctl" \in Steps /\ "stop" \in Steps /\ "wait" \in Steps
        BY DEF Steps
      <3>3. QED
        BY ONLY <2>1, <3>1, <3>2
    <2>3. writing' \in [Conns -> BOOLEAN]
      BY DEF IInv, TypeOK, Modify
    <2>4. early' \in [Conns -> BOOLEAN]
      BY DEF IInv, TypeOK, Modify, Looks, Storing
    <2>5. UNCHANGED <<g_loops, mainVars, mem, connVars, fieldVars, interest, endVars>>
      BY Zenon DEF Modify
    <2>6. QED
      BY <2>2, <2>3, <2>4, <2>5 DEF IInv, TypeOK, mainVars, connVars, fieldVars, endVars
  <1>2. Owned'
    BY DEF IInv, TypeOK, Owned, Registered, Modify, Goto, Done, connVars, Loops
  <1>3. Private'
    BY DEF IInv, TypeOK, Private, Registered, Works, Modify, Goto, Done, mainVars,
         fieldVars, connVars, Loops
  <1>4. InStore'
    BY DEF IInv, TypeOK, InStore, Registered, Modify, Looks, mainVars
  <1>5. Fresh'
    BY DEF IInv, Fresh, Dealt, Owned, Modify, connVars
  <1>6. Marked'
    BY DEF IInv, TypeOK, Marked, Storing, Modify, Looks, Goto, Done, mainVars, Loops
  <1>7. FieldsStored'
    BY DEF IInv, TypeOK, FieldsStored, Registered, Storing, Has, Modify, Looks,
         mainVars, fieldVars, connVars
  <1>8. Watched'
    BY DEF IInv, TypeOK, Watched, Registered, Works, FieldsStored, Has, Modify,
         Looks, Goto, Done, Fields, Loops
  <1>9. RunsAfterConnection'
    BY DEF IInv, RunsAfterConnection, Modify, connVars
  <1>10. UnharmedUnlessEarly'
    BY DEF IInv, TypeOK, UnharmedUnlessEarly, Owned, Private, Fresh, Dealt, Modify,
         Looks, Storing, endVars, Loops
  <1>11. QED
    BY <1>1, <1>2, <1>3, <1>4, <1>5, <1>6, <1>7, <1>8, <1>9, <1>10 DEF IInv

LEMMA CtlStep ==
  ASSUME IInv, NEW l \in Loops, Ctl(l)
  PROVE  IInv'
  <1>1. TypeOK'
    <2>1. CASE Known(task[l].conn)
      <3>1. Goto(l, "stop") \/ Goto(l, "wait")
        BY <2>1 DEF Ctl, Done
      <3>2. QED
        BY <3>1, <2>1, GotoTyped DEF IInv, TypeOK, Tasks, Ctl, Looks, Steps,
             mainVars, connVars, fieldVars
    <2>2. CASE ~Known(task[l].conn)
      BY <2>2 DEF IInv, TypeOK, Ctl, Looks, mainVars, connVars, fieldVars
    <2>3. QED
      BY <2>1, <2>2
  <1>2. Owned'
    BY DEF IInv, TypeOK, Owned, Registered, Ctl, Goto, Done, connVars, Loops
  <1>3. Private'
    BY DEF IInv, TypeOK, Private, Registered, Works, Ctl, Goto, Done, mainVars,
         connVars, Loops
  <1>4. InStore'
    BY DEF IInv, TypeOK, InStore, Registered, Ctl, Looks, mainVars
  <1>5. Fresh'
    BY DEF IInv, Fresh, Dealt, Ctl, connVars
  <1>6. Marked'
    BY DEF IInv, TypeOK, Marked, Storing, Ctl, Looks, Goto, Done, mainVars, Loops
  <1>7. FieldsStored'
    BY DEF IInv, TypeOK, FieldsStored, Registered, Storing, Has, Ctl, Looks, Known,
         mainVars, fieldVars, connVars
  <1>8. Watched'
    BY DEF IInv, TypeOK, Watched, Registered, Works, Ctl, Looks, Goto, Done,
         fieldVars, Loops
  <1>9. RunsAfterConnection'
    BY DEF IInv, TypeOK, RunsAfterConnection, Ctl, Known, connVars
  <1>10. UnharmedUnlessEarly'
    BY DEF IInv, TypeOK, UnharmedUnlessEarly, Owned, Marked, FieldsStored, Has,
         Registered, Ctl, Looks, Known, Fields
  <1>11. QED
    BY <1>1, <1>2, <1>3, <1>4, <1>5, <1>6, <1>7, <1>8, <1>9, <1>10 DEF IInv

LEMMA StopStep ==
  ASSUME IInv, NEW l \in Loops, Stop(l)
  PROVE  IInv'
  <1>1. TypeOK'
    BY DEF IInv, TypeOK, Stop, Looks, Goto, mainVars, fieldVars, connVars, endVars,
         Steps, Loops
  <1>2. Owned'
    BY DEF IInv, Owned, Registered, Stop, Goto, connVars
  <1>3. Private'
    BY DEF IInv, Private, Registered, Works, Stop, Goto, mainVars, connVars
  <1>4. InStore'
    BY DEF IInv, TypeOK, InStore, Registered, Stop, Looks, mainVars
  <1>5. Fresh'
    BY DEF IInv, Fresh, Dealt, Stop, connVars
  <1>6. Marked'
    BY DEF IInv, TypeOK, Marked, Storing, Stop, Looks, Goto, mainVars, Steps
  <1>7. FieldsStored'
    BY DEF IInv, TypeOK, FieldsStored, Registered, Storing, Has, Stop, Looks,
         mainVars, fieldVars, connVars
  <1>8. Watched'
    BY DEF IInv, TypeOK, Watched, Registered, Works, Stop, Looks, Goto
  <1>9. RunsAfterConnection'
    BY DEF IInv, RunsAfterConnection, Stop, connVars
  <1>10. UnharmedUnlessEarly'
    BY DEF IInv, TypeOK, UnharmedUnlessEarly, Owned, Private, Fresh, Dealt, Stop,
         Looks, Storing, endVars
  <1>11. QED
    BY <1>1, <1>2, <1>3, <1>4, <1>5, <1>6, <1>7, <1>8, <1>9, <1>10 DEF IInv

LEMMA DelStep ==
  ASSUME IInv, NEW l \in Loops, Del(l)
  PROVE  IInv'
  <1>1. TypeOK'
    <2>1. CASE Known(task[l].conn)
      BY <2>1, GotoTyped DEF IInv, TypeOK, Tasks, Del, Looks, Steps, mainVars, connVars
    <2>2. CASE ~Known(task[l].conn)
      BY <2>2 DEF IInv, TypeOK, Del, Looks, mainVars, connVars
    <2>3. QED
      BY <2>1, <2>2
  <1>2. Owned'
    BY DEF IInv, TypeOK, Owned, Registered, Del, Goto, connVars, Loops
  <1>3. Private'
    BY DEF IInv, TypeOK, Private, Registered, Works, Del, Goto, mainVars, connVars,
         Loops
  <1>4. InStore'
    BY DEF IInv, TypeOK, InStore, Registered, Del, Looks, Storing, mainVars
  <1>5. Fresh'
    BY DEF IInv, Fresh, Dealt, Del, connVars
  <1>6. Marked'
    BY DEF IInv, TypeOK, Marked, Storing, Del, Looks, Goto, mainVars, Loops
  <1>7. FieldsStored'
    BY DEF IInv, TypeOK, FieldsStored, Registered, Storing, Has, Del, Looks,
         mainVars, connVars
  <1>8. Watched'
    BY DEF IInv, TypeOK, Watched, Registered, Works, Del, Looks, Goto, Loops
  <1>9. RunsAfterConnection'
    BY DEF IInv, TypeOK, RunsAfterConnection, Del, connVars
  <1>10. UnharmedUnlessEarly'
    BY DEF IInv, TypeOK, UnharmedUnlessEarly, Owned, Marked, FieldsStored, Has,
         Registered, Del, Looks, Known, Fields
  <1>11. QED
    BY <1>1, <1>2, <1>3, <1>4, <1>5, <1>6, <1>7, <1>8, <1>9, <1>10 DEF IInv

LEMMA CloseStep ==
  ASSUME IInv, NEW l \in Loops, Close(l)
  PROVE  IInv'
  <1>1. TypeOK'
    BY DEF IInv, TypeOK, Close, Goto, mainVars, fieldVars, connVars, endVars, Steps
  <1>2. Owned'
    BY DEF IInv, TypeOK, Owned, Registered, Close, Goto, mainVars, connVars, endVars
  <1>3. Private'
    BY DEF IInv, Private, Registered, Works, Close, Goto, mainVars, connVars
  <1>4. InStore'
    BY DEF IInv, InStore, Registered, Marked, Storing, Close, mainVars
  <1>5. Fresh'
    BY DEF IInv, Fresh, Dealt, Owned, Close, connVars
  <1>6. Marked'
    BY DEF IInv, Marked, Storing, Close, Goto, mainVars
  <1>7. FieldsStored'
    BY DEF IInv, FieldsStored, Registered, Storing, Has, Close, mainVars, fieldVars,
         connVars
  <1>8. Watched'
    BY DEF IInv, Watched, Registered, Works, Close, Goto
  <1>9. RunsAfterConnection'
    BY DEF IInv, TypeOK, RunsAfterConnection, Close, connVars
  <1>10. UnharmedUnlessEarly'
    BY DEF IInv, UnharmedUnlessEarly, Close, endVars
  <1>11. QED
    BY <1>1, <1>2, <1>3, <1>4, <1>5, <1>6, <1>7, <1>8, <1>9, <1>10 DEF IInv

LEMMA ReadStep ==
  ASSUME IInv, NEW l \in Loops, NEW c \in Conns, Read(l, c)
  PROVE  IInv'
  <1>1. TypeOK'
    <2>1. task' = task \/ \E at \in Steps, on, free \in BOOLEAN : Begin(l, c, at, on, free)
      BY DEF Read, Steps
    <2>2. task' \in Tasks
      BY <2>1 DEF IInv, TypeOK, Begin, Tasks
    <2>3. out' \in [Conns -> BOOLEAN] /\ closing' \in [Conns -> BOOLEAN]
      BY DEF IInv, TypeOK, Read
    <2>4. QED
      BY <2>2, <2>3 DEF IInv, TypeOK, Read, Tasks, mainVars, fieldVars, endVars
  <1>2. Owned'
    BY DEF IInv, TypeOK, Owned, Registered, RunsAfterConnection, Read, Reports,
         Waits, Begin, endVars
  <1>3. Private'
    BY DEF IInv, TypeOK, Private, Registered, Works, Read, Reports, Waits, Begin,
         mainVars, Loops
  <1>4. InStore'
    BY DEF IInv, InStore, Registered, Read, mainVars
  <1>5. Fresh'
    BY DEF IInv, Fresh, Dealt, Read
  <1>6. Marked'
    BY DEF IInv, TypeOK, Marked, Storing, Read, Begin, mainVars, Loops
  <1>7. FieldsStored'
    BY DEF IInv, FieldsStored, Registered, Storing, Has, Read, mainVars, fieldVars
  <1>8. Watched'
    BY DEF IInv, TypeOK, Watched, Registered, Works, Read, Reports, Waits, Begin,
         Loops
  <1>9. RunsAfterConnection'
    BY DEF IInv, RunsAfterConnection, Read
  <1>10. UnharmedUnlessEarly'
    BY DEF IInv, UnharmedUnlessEarly, Read, endVars
  <1>11. QED
    BY <1>1, <1>2, <1>3, <1>4, <1>5, <1>6, <1>7, <1>8, <1>9, <1>10 DEF IInv

LEMMA WriteStep ==
  ASSUME IInv, NEW l \in Loops, NEW c \in Conns, Write(l, c)
  PROVE  IInv'
  <1>1. TypeOK'
    BY DEF IInv, TypeOK, Write, Begin, mainVars, fieldVars, endVars, Steps
  <1>2. Owned'
    BY DEF IInv, Owned, Registered, RunsAfterConnection, Write, Reports, Begin
  <1>3. Private'
    BY DEF IInv, Private, Registered, Works, Write, Reports, Waits, Begin, mainVars
  <1>4. InStore'
    BY DEF IInv, InStore, Registered, Write, mainVars
  <1>5. Fresh'
    BY DEF IInv, Fresh, Dealt, Write
  <1>6. Marked'
    BY DEF IInv, Marked, Storing, Write, Begin, mainVars
  <1>7. FieldsStored'
    BY DEF IInv, FieldsStored, Registered, Storing, Has, Write, mainVars, fieldVars
  <1>8. Watched'
    BY DEF IInv, Watched, Registered, Works, Write, Reports, Waits, Begin
  <1>9. RunsAfterConnection'
    BY DEF IInv, RunsAfterConnection, Write
  <1>10. UnharmedUnlessEarly'
    BY DEF IInv, UnharmedUnlessEarly, Write, endVars
  <1>11. QED
    BY <1>1, <1>2, <1>3, <1>4, <1>5, <1>6, <1>7, <1>8, <1>9, <1>10 DEF IInv

LEMMA ErrorStep ==
  ASSUME IInv, NEW l \in Loops, NEW c \in Conns, Error(l, c)
  PROVE  IInv'
  <1>1. TypeOK'
    BY DEF IInv, TypeOK, Error, Begin, mainVars, fieldVars, connVars, endVars, Steps
  <1>2. Owned'
    BY DEF IInv, Owned, Registered, RunsAfterConnection, Error, Reports, Begin,
         connVars
  <1>3. Private'
    BY DEF IInv, Private, Registered, Works, Error, Reports, Waits, Begin, mainVars,
         connVars
  <1>4. InStore'
    BY DEF IInv, InStore, Registered, Error, mainVars
  <1>5. Fresh'
    BY DEF IInv, Fresh, Dealt, Error, connVars
  <1>6. Marked'
    BY DEF IInv, Marked, Storing, Error, Begin, mainVars
  <1>7. FieldsStored'
    BY DEF IInv, FieldsStored, Registered, Storing, Has, Error, mainVars, fieldVars,
         connVars
  <1>8. Watched'
    BY DEF IInv, Watched, Registered, Works, Error, Reports, Waits, Begin
  <1>9. RunsAfterConnection'
    BY DEF IInv, RunsAfterConnection, Error, connVars
  <1>10. UnharmedUnlessEarly'
    BY DEF IInv, UnharmedUnlessEarly, Error, endVars
  <1>11. QED
    BY <1>1, <1>2, <1>3, <1>4, <1>5, <1>6, <1>7, <1>8, <1>9, <1>10 DEF IInv

LEMMA InitIInv == Init => IInv
  <1>1. Init => TypeOK
    <2>1. SUFFICES ASSUME Init
                   PROVE  TypeOK
      OBVIOUS
    <2>2. Rest \in [at : Steps, conn : Conns, on : BOOLEAN, free : BOOLEAN]
      BY <2>1 DEF Init, Rest, Steps
    <2>3. QED
      BY <2>1, <2>2 DEF Init, TypeOK, Loops
  <1>2. Init => Owned /\ Private /\ InStore /\ Marked
    BY DEF Init, Rest, Owned, Private, InStore, Marked, BeforeAdd, Registered, Loops
  <1>3. Init => Fresh /\ FieldsStored /\ Watched
    BY DEF Init, Fresh, FieldsStored, Watched, Registered
  <1>4. Init => RunsAfterConnection /\ UnharmedUnlessEarly
    BY DEF Init, RunsAfterConnection, UnharmedUnlessEarly
  <1>5. QED
    BY <1>1, <1>2, <1>3, <1>4 DEF IInv

LEMMA StutterStep ==
  ASSUME IInv, UNCHANGED vars
  PROVE  IInv'
  <1>1. TypeOK'
    BY DEF IInv, TypeOK, vars, mainVars, connVars, fieldVars, endVars
  <1>2. (Owned /\ Private /\ InStore /\ Marked)'
    BY DEF IInv, Owned, Private, InStore, Marked, Registered, Works, Storing,
         vars, mainVars, connVars, fieldVars, endVars
  <1>3. (Fresh /\ FieldsStored /\ Watched)'
    BY DEF IInv, Fresh, Dealt, FieldsStored, Watched, Registered, Works, Storing, Has,
         vars, mainVars, connVars, fieldVars, endVars
  <1>4. (RunsAfterConnection /\ UnharmedUnlessEarly)'
    BY DEF IInv, RunsAfterConnection, UnharmedUnlessEarly,
         vars, mainVars, connVars, fieldVars, endVars
  <1>5. QED
    BY <1>1, <1>2, <1>3, <1>4 DEF IInv

LEMMA NextStep == IInv /\ [Next]_vars => IInv'
  <1>. SUFFICES ASSUME IInv, [Next]_vars
                PROVE  IInv'
    OBVIOUS
  <1>1. CASE \E c \in Conns : Create(c)
    BY <1>1, CreateStep
  <1>2. CASE Accepting
    BY <1>2, EstablishStep, StartStep, EpollAddStep, StoreStep DEF Accepting
  <1>3. CASE \E l \in Loops : Handling(l)
    BY <1>3, ModifyStep, CtlStep, StopStep, DelStep, CloseStep DEF Handling
  <1>4. CASE \E l \in Loops, c \in Conns : Read(l, c) \/ Write(l, c) \/ Error(l, c)
    BY <1>4, ReadStep, WriteStep, ErrorStep
  <1>5. CASE UNCHANGED vars
    BY <1>5, StutterStep
  <1>6. QED
    BY <1>1, <1>2, <1>3, <1>4, <1>5 DEF Next

LEMMA Invariance == Spec => []IInv
  BY InitIInv, NextStep, PTL DEF Spec

(* Types, for any number of connections and worker loops.                  *)
THEOREM TypeCorrect == Spec => []TypeOK
  <1>1. IInv => TypeOK
    BY DEF IInv
  <1>2. QED
    BY <1>1, Invariance, PTL

(* No handler ever gets an event whose connection lacks its request, its   *)
(* closing callback or a buffer: event_accept_callback registers it last.  *)
THEOREM RunsAfterConnectionCorrect == Spec => []RunsAfterConnection
  <1>1. IInv => RunsAfterConnection
    BY DEF IInv
  <1>2. QED
    BY <1>1, Invariance, PTL

(* An event that no handler saw while event_add_io was storing knows its   *)
(* loop, and the kernel watches what its flag says.                        *)
THEOREM AgreeCorrect == Spec => []AgreeUnlessEarly
  <1>1. IInv => AgreeUnlessEarly
    <2>1. SUFFICES ASSUME IInv, NEW c \in Conns, interest[c] # "absent", ~Busy(c),
                          ~Storing(c), ~early[c]
                   PROVE  /\ is_working[c] /\ epoll_fd[c] = loop[c]
                          /\ interest[c] = "inout" <=> writing[c]
      BY DEF AgreeUnlessEarly
    <2>2. Has(c, "epoll_fd") /\ Has(c, "is_working")
      BY <2>1 DEF IInv, FieldsStored, Registered, Fields
    <2>3. interest[c] = "inout" <=> writing[c]
      BY <2>1 DEF IInv, Watched, Registered, Works, Busy
    <2>4. QED
      BY <2>2, <2>3 DEF Has
  <1>2. QED
    BY <1>1, Invariance, PTL

(* Only a handler that comes before the stores of event_add_io, in another *)
(* thread, can end the process by a refused epoll_ctl or leave the main    *)
(* thread a freed event to store into.                                     *)
THEOREM UnharmedCorrect == Spec => []UnharmedUnlessEarly
  <1>1. IInv => UnharmedUnlessEarly
    BY DEF IInv
  <1>2. QED
    BY <1>1, Invariance, PTL

=============================================================================
