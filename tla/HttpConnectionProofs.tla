------------------------- MODULE HttpConnectionProofs -------------------------
(***************************************************************************)
(* Proofs about HttpConnection, for every set of connections, every buffer *)
(* size and every number of requests. The invariants of the connection are *)
(* not inductive one by one: a step of the thread is safe because of where *)
(* the thread stands (Handling), which holds because of how the connection *)
(* came to be freed (FlushedBeforeFree), and so on; IInv is their          *)
(* conjunction, and Consecution goes through the actions one at a time.    *)
(***************************************************************************)
EXTENDS HttpConnection, TLAPS

(* Where the thread is, relative to the connection it handles: alive, or   *)
(* just freed by the read handler while event_handler goes on to EPOLLOUT. *)
Handling ==
    /\ pc # "wait" => mem[cur] \in {"live", "freed"}
    /\ pc \notin {"wait", "write"} => mem[cur] = "live"
    /\ pc = "request" => rbuf[cur] # <<>>
    /\ pc = "head" => pushed < HeadLen

(* A connection not yet accepted is in its initial state.                  *)
Fresh == \A c \in Conns : mem[c] = "unborn" => state[c] = "open"

(* Request data waits for its parser only: http_request releases the read  *)
(* buffer whatever it makes of it (http_request.c:114).                    *)
Drained == \A c \in Conns : rbuf[c] # <<>> => pc = "request" /\ cur = c

(* EPOLLOUT stays in the interest list from the event that carries it until*)
(* the write handler has run, which then has something to send only if the *)
(* event carried it.                                                       *)
OutWanted ==
    /\ pc # "wait" /\ out => want[cur]
    /\ pc = "write" => out \/ mem[cur] = "freed"

(* RestArmed, wherever the thread is.                                      *)
RestWanted == \A c \in Conns : block[c].start > 0 => want[c]

IInv ==
    /\ TypeOK
    /\ Handling
    /\ Fresh
    /\ Drained
    /\ ClosingArmed
    /\ FlushedBeforeFree
    /\ OutWanted
    /\ RestWanted

-----------------------------------------------------------------------------
(* Lemmas on the operators.                                                *)

LEMMA SubSeqType ==
    ASSUME NEW S, NEW s \in Seq(S), NEW m \in Nat \ {0}, NEW n \in 0..Len(s)
    PROVE  /\ SubSeq(s, m, n) \in Seq(S)
           /\ Len(SubSeq(s, m, n)) = IF m <= n THEN n - m + 1 ELSE 0
  OBVIOUS

LEMMA EmptyLen ==
    ASSUME NEW S, NEW s \in Seq(S)
    PROVE  /\ Len(s) \in Nat
           /\ s = <<>> <=> Len(s) = 0
  OBVIOUS

(* The kernel takes no more than it was offered and has room for.          *)
LEMMA AcceptedBound ==
    ASSUME ConnTypeOK, NEW c \in Conns, NEW len \in Nat
    PROVE  Accepted(c, len) \in 0..len /\ Accepted(c, len) <= room[c]
  BY DEF Accepted, ConnTypeOK

LEMMA OutSeqs ==
    ASSUME NEW n \in Nat, NEW len \in Nat
    PROVE  /\ BodyOf(n, len) \in Seq(OutUnit) /\ Len(BodyOf(n, len)) = len
           /\ PageOf(n, len) \in Seq(OutUnit) /\ Len(PageOf(n, len)) = len
  <1>1. \A p \in {"body", "page"} : [resp |-> n, part |-> p] \in OutUnit
    BY DEF OutUnit
  <1>2. \A p \in {"body", "page"}, k \in Nat :
          /\ [i \in 1..k |-> [resp |-> n, part |-> p]] \in Seq(OutUnit)
          /\ Len([i \in 1..k |-> [resp |-> n, part |-> p]]) = k
    BY <1>1
  <1> QED
    BY <1>2 DEF BodyOf, PageOf

(* What a push and a release leave of a block.                             *)
LEMMA BlockType ==
    ASSUME NEW b \in Blocks, NEW used \in Nat, NEW n \in 0..used
    PROVE  /\ Placed(b, used) \in Blocks
           /\ Placed(b, used).start \in {b.start, 0}
           /\ Released(b, used, n) \in Blocks
           /\ n = used => Released(b, used, n).start = 0
           /\ n = 0 => Released(b, used, n).start \in {b.start, 0}
  <1>1. b = [start |-> b.start, cap |-> b.cap] /\ b.start \in Nat /\ b.cap \in Nat
    BY DEF Blocks
  <1>2. Placed(b, used) \in {b, [start |-> 0, cap |-> b.cap],
                             [start |-> 0, cap |-> b.cap * 2 + 1]}
    BY <1>1 DEF Placed
  <1>3. b.cap * 2 + 1 \in Nat
    BY <1>1
  <1>4. Placed(b, used) \in Blocks /\ Placed(b, used).start \in {b.start, 0}
    BY <1>1, <1>2, <1>3 DEF Blocks
  <1> DEFINE s == IF n = used THEN 0 ELSE b.start + n
  <1>5. s \in Nat /\ (n = used => s = 0) /\ (n = 0 => s \in {b.start, 0})
    BY <1>1
  <1>6. Released(b, used, n) = [start |-> s, cap |-> b.cap]
    BY <1>1 DEF Released
  <1> HIDE DEF s
  <1>7. /\ Released(b, used, n) \in Blocks
        /\ n = used => Released(b, used, n).start = 0
        /\ n = 0 => Released(b, used, n).start \in {b.start, 0}
    BY <1>1, <1>5, <1>6 DEF Blocks
  <1> QED
    BY <1>4, <1>7

(* A push keeps the readable units and the type of what it changes; bytes  *)
(* released in front are never more than before.                           *)
LEMMA PushType ==
    ASSUME ConnTypeOK, NEW c \in Conns, NEW unit \in OutUnit, PushData(c, unit)
    PROVE  /\ \E u \in OutUnit :
                 /\ u.resp = unit.resp /\ u.part \in {unit.part, "foreign"}
                 /\ wbuf' = [wbuf EXCEPT ![c] = Append(@, u)]
           /\ wbuf' \in [Conns -> Seq(OutUnit)]
           /\ block' \in [Conns -> Blocks]
           /\ \A d \in Conns : block'[d].start \in {block[d].start, 0}
           /\ \A d \in Conns \ {c} : wbuf'[d] = wbuf[d]
  <1>1. PICK u \in Pushed(c, unit) : wbuf' = [wbuf EXCEPT ![c] = Append(@, u)]
    BY DEF PushData
  <1>2. u \in OutUnit /\ u.resp = unit.resp /\ u.part \in {unit.part, "foreign"}
    BY <1>1 DEF Pushed, OutUnit
  <1>3. wbuf' \in [Conns -> Seq(OutUnit)] /\ \A d \in Conns \ {c} : wbuf'[d] = wbuf[d]
    <2>1. Append(wbuf[c], u) \in Seq(OutUnit)
      BY <1>2 DEF ConnTypeOK
    <2> QED
      BY <1>1, <2>1 DEF ConnTypeOK
  <1> DEFINE b == Placed(block[c], Len(wbuf[c]))
  <1>4. b \in Blocks /\ b.start \in {block[c].start, 0}
    BY BlockType DEF ConnTypeOK
  <1>5. block' = [block EXCEPT ![c] = b]
    BY DEF PushData
  <1> HIDE DEF b
  <1>6. block' \in [Conns -> Blocks] /\ \A d \in Conns : block'[d].start \in {block[d].start, 0}
    BY <1>4, <1>5 DEF ConnTypeOK
  <1> QED
    BY <1>1, <1>2, <1>3, <1>6

(* A send types the wire and the room it leaves.                           *)
LEMMA TransmitType ==
    ASSUME ConnTypeOK, NEW c \in Conns, NEW units \in Seq(OutUnit),
           Len(units) <= room[c], Transmit(c, units)
    PROVE  /\ wire' \in [Conns -> Seq(OutUnit)]
           /\ room' \in [Conns -> 0..SndBuf]
           /\ UNCHANGED <<inq, fin, reset>>
  <1>1. wire[c] \o units \in Seq(OutUnit)
    BY DEF ConnTypeOK
  <1>2. Len(units) \in Nat /\ room[c] - Len(units) \in 0..SndBuf
    BY SndBufAssumption DEF ConnTypeOK
  <1> QED
    BY <1>1, <1>2 DEF Transmit, ConnTypeOK

(* A send of the write buffer moves its first n units to the wire.         *)
LEMMA SendAndReleaseType ==
    ASSUME ConnTypeOK, NEW c \in Conns, NEW n \in 0..Len(wbuf[c]),
           n <= room[c], SendAndRelease(c, n)
    PROVE  /\ wire' \in [Conns -> Seq(OutUnit)]
           /\ room' \in [Conns -> 0..SndBuf]
           /\ wbuf' \in [Conns -> Seq(OutUnit)]
           /\ \A d \in Conns \ {c} : wbuf'[d] = wbuf[d] /\ block'[d] = block[d]
           /\ block' \in [Conns -> Blocks]
           /\ n = Len(wbuf[c]) => wbuf'[c] = <<>> /\ block'[c].start = 0
           /\ n = 0 => block'[c].start \in {block[c].start, 0}
           /\ UNCHANGED <<inq, fin, reset>>
  <1> DEFINE sent == SubSeq(wbuf[c], 1, n)
             rest == SubSeq(wbuf[c], n + 1, Len(wbuf[c]))
  <1>1. wbuf[c] \in Seq(OutUnit) /\ Len(wbuf[c]) \in Nat
    BY DEF ConnTypeOK
  <1>2. sent \in Seq(OutUnit) /\ Len(sent) = n
    BY <1>1, SubSeqType
  <1>3. rest \in Seq(OutUnit) /\ (n = Len(wbuf[c]) => Len(rest) = 0)
    BY <1>1, SubSeqType
  <1>4. n = Len(wbuf[c]) => rest = <<>>
    BY <1>3, EmptyLen
  <1>5. Transmit(c, sent) /\ wbuf' = [wbuf EXCEPT ![c] = rest]
    BY DEF SendAndRelease
  <1> DEFINE b == Released(block[c], Len(wbuf[c]), n)
  <1>7. /\ b \in Blocks
        /\ n = Len(wbuf[c]) => b.start = 0
        /\ n = 0 => b.start \in {block[c].start, 0}
    BY <1>1, BlockType DEF ConnTypeOK
  <1>8. block' = [block EXCEPT ![c] = b]
    BY DEF SendAndRelease
  <1>6. /\ wire' \in [Conns -> Seq(OutUnit)]
        /\ room' \in [Conns -> 0..SndBuf]
        /\ UNCHANGED <<inq, fin, reset>>
    <2> HIDE DEF sent
    <2> QED
      BY <1>2, <1>5, TransmitType
  <1> HIDE DEF sent, rest, b
  <1>9. /\ wbuf' \in [Conns -> Seq(OutUnit)] /\ (n = Len(wbuf[c]) => wbuf'[c] = <<>>)
        /\ \A d \in Conns \ {c} : wbuf'[d] = wbuf[d]
    BY <1>3, <1>4, <1>5 DEF ConnTypeOK
  <1>10. /\ block' \in [Conns -> Blocks]
         /\ \A d \in Conns \ {c} : block'[d] = block[d]
         /\ n = Len(wbuf[c]) => block'[c].start = 0
         /\ n = 0 => block'[c].start \in {block[c].start, 0}
    BY <1>7, <1>8 DEF ConnTypeOK
  <1> QED
    BY <1>6, <1>9, <1>10

-----------------------------------------------------------------------------
(* The initial states, and one lemma per action.                           *)

LEMMA InitIInv == Init => IInv
  <1> SUFFICES ASSUME Init PROVE IInv
    OBVIOUS
  <1>1. /\ <<>> \in Seq(InUnit) /\ <<>> \in Seq(OutUnit) /\ <<>> \in Seq(Kinds)
        /\ <<>> \in Seq([req : Nat, status : Statuses])
    OBVIOUS
  <1>2. ConnTypeOK
    BY <1>1, SndBufAssumption DEF Init, ConnInit, ConnTypeOK, Mem, Blocks
  <1>3. 0 \in 0..HeadLen
    BY HttpAssumption
  <1>4. TypeOK
    BY <1>1, <1>2, <1>3 DEF Init, TypeOK, Labels
  <1> QED
    BY <1>4 DEF IInv, Init, ConnInit, Handling, Fresh, Drained,
                ClosingArmed, FlushedBeforeFree, OutWanted, RestWanted

LEMMA AcceptIInv ==
    ASSUME IInv, NEW c \in Conns, Accept(c)
    PROVE  IInv'
  <1> USE DEF Accept, sockVars, loopVars, clientVars
  <1>1. TypeOK'
    BY DEF IInv, TypeOK, ConnTypeOK, Mem
  <1>2. Handling' /\ Fresh'
    BY DEF IInv, TypeOK, ConnTypeOK, Handling, Fresh
  <1>3. Drained' /\ ClosingArmed' /\ FlushedBeforeFree'
    BY DEF IInv, TypeOK, ConnTypeOK, Fresh, Drained, ClosingArmed,
           FlushedBeforeFree
  <1>4. OutWanted' /\ RestWanted'
    BY DEF IInv, TypeOK, ConnTypeOK, OutWanted, RestWanted
  <1> QED
    BY <1>1, <1>2, <1>3, <1>4 DEF IInv

LEMMA DispatchIInv ==
    ASSUME IInv, NEW c \in Conns, Dispatch(c)
    PROVE  IInv'
  <1> USE DEF Dispatch, connVars, sockVars, clientVars
  <1>1. TypeOK'
    BY DEF IInv, TypeOK, ConnTypeOK, Labels, OutReady
  <1>2. Handling' /\ Fresh'
    BY DEF IInv, Handling, Fresh
  <1>3. Drained' /\ ClosingArmed' /\ FlushedBeforeFree'
    BY DEF IInv, Drained, ClosingArmed, FlushedBeforeFree
  <1>4. OutWanted' /\ RestWanted'
    BY DEF IInv, OutReady, OutWanted, RestWanted
  <1> QED
    BY <1>1, <1>2, <1>3, <1>4 DEF IInv

LEMMA HandleErrorIInv ==
    ASSUME IInv, HandleError
    PROVE  IInv'
  <1> USE DEF HandleError, ErrorHandler, sockVars, clientVars
  <1>1. TypeOK'
    BY DEF IInv, TypeOK, ConnTypeOK, Labels, Mem
  <1>2. Handling' /\ Fresh'
    BY DEF IInv, TypeOK, ConnTypeOK, Handling, Fresh
  <1>3. Drained' /\ ClosingArmed' /\ FlushedBeforeFree'
    BY DEF IInv, TypeOK, ConnTypeOK, Drained, ClosingArmed,
           FlushedBeforeFree
  <1>4. OutWanted' /\ RestWanted'
    BY DEF IInv, OutWanted, RestWanted
  <1> QED
    BY <1>1, <1>2, <1>3, <1>4 DEF IInv

LEMMA ReadDataIInv ==
    ASSUME IInv, ReadData
    PROVE  IInv'
  <1> USE DEF ReadData, ReadBuffer, clientVars
  <1>1. /\ rbuf[cur] \o inq[cur] \in Seq(InUnit)
        /\ rbuf[cur] \o inq[cur] # <<>>
        /\ cur \in Conns /\ <<>> \in Seq(InUnit)
    BY DEF IInv, TypeOK, ConnTypeOK
  <1>2. TypeOK'
    BY <1>1 DEF IInv, TypeOK, ConnTypeOK, Labels
  <1>3. Handling' /\ Fresh'
    BY <1>1 DEF IInv, TypeOK, ConnTypeOK, Handling, Fresh
  <1>4. Drained'
    BY DEF IInv, TypeOK, ConnTypeOK, Drained
  <1>5. ClosingArmed' /\ FlushedBeforeFree'
    BY DEF IInv, ClosingArmed, FlushedBeforeFree
  <1>6. OutWanted' /\ RestWanted'
    BY DEF IInv, OutWanted, RestWanted
  <1> QED
    BY <1>2, <1>3, <1>4, <1>5, <1>6 DEF IInv

(* Both outcomes of a close keep what concerns the connection's memory.    *)
LEMMA DisconnectKeeps ==
    ASSUME IInv, mem[cur] = "live", Disconnect(cur),
           UNCHANGED <<wbuf, block>>
    PROVE  /\ mem' \in [Conns -> Mem]
           /\ state' \in [Conns -> {"open", "closing"}]
           /\ want' \in [Conns -> BOOLEAN]
           /\ mem'[cur] \in {"live", "freed"}
           /\ want[cur] => want'[cur]
           /\ Fresh' /\ ClosingArmed' /\ FlushedBeforeFree' /\ RestWanted'
  <1>1. CASE wbuf[cur] # <<>> /\ UNCHANGED mem
    BY <1>1 DEF Disconnect, ConnectionFree, IInv, TypeOK, ConnTypeOK, Mem,
                Fresh, ClosingArmed, FlushedBeforeFree, RestWanted
  <1>2. CASE wbuf[cur] = <<>> /\ ConnectionFree(cur)
    BY <1>2 DEF Disconnect, ConnectionFree, IInv, TypeOK, ConnTypeOK, Mem,
                Fresh, ClosingArmed, FlushedBeforeFree, RestWanted
  <1> QED
    BY <1>1, <1>2 DEF Disconnect

LEMMA ReadEndIInv ==
    ASSUME IInv, ReadEnd
    PROVE  IInv'
  <1> USE DEF ReadEnd, sockVars, clientVars
  <1>1. mem[cur] = "live" /\ cur \in Conns
    BY DEF IInv, Handling, TypeOK
  <1>2. /\ mem' \in [Conns -> Mem]
        /\ state' \in [Conns -> {"open", "closing"}]
        /\ want' \in [Conns -> BOOLEAN]
        /\ mem'[cur] \in {"live", "freed"}
        /\ want[cur] => want'[cur]
        /\ Fresh' /\ ClosingArmed' /\ FlushedBeforeFree' /\ RestWanted'
    BY <1>1, DisconnectKeeps
  <1>3. pc' \in {"write", "wait"}
    BY DEF AfterRead
  <1>4. TypeOK'
    BY <1>2, <1>3 DEF IInv, TypeOK, ConnTypeOK, Labels
  <1>5. Handling' /\ Drained'
    BY <1>2, <1>3 DEF IInv, Handling, Drained
  <1>6. OutWanted'
    BY <1>2 DEF AfterRead, IInv, OutWanted
  <1> QED
    BY <1>2, <1>4, <1>5, <1>6 DEF IInv

LEMMA HandleWriteIInv ==
    ASSUME IInv, HandleWrite
    PROVE  IInv'
  <1> DEFINE n == Accepted(cur, Len(wbuf[cur]))
  <1>1. /\ cur \in Conns /\ ConnTypeOK
        /\ wbuf[cur] \in Seq(OutUnit) /\ Len(wbuf[cur]) \in Nat
        /\ mem[cur] \in {"live", "freed"}
    BY DEF HandleWrite, IInv, TypeOK, ConnTypeOK, Handling
  <1>2. n \in 0..Len(wbuf[cur]) /\ n <= room[cur]
    BY <1>1, AcceptedBound
  <1>3. mem[cur] = "freed" => n = 0
    BY <1>1, <1>2 DEF IInv, FlushedBeforeFree
  <1>4. CASE UNCHANGED <<connVars, sockVars>>
    <2>1. TypeOK'
      BY <1>4 DEF HandleWrite, connVars, sockVars, clientVars, IInv, TypeOK,
                  ConnTypeOK, Labels
    <2>2. Handling' /\ Fresh' /\ Drained' /\ ClosingArmed'
          /\ FlushedBeforeFree'
      BY <1>4 DEF HandleWrite, connVars, sockVars, clientVars, IInv, Handling,
                  Fresh, Drained, ClosingArmed, FlushedBeforeFree
    <2>3. OutWanted' /\ RestWanted'
      BY <1>4 DEF HandleWrite, connVars, IInv, OutWanted, RestWanted
    <2> QED
      BY <2>1, <2>2, <2>3 DEF IInv
  <1>5. CASE /\ n # 0
             /\ SendAndRelease(cur, n)
             /\ UNCHANGED <<state, rbuf>>
             /\ \/ n < Len(wbuf[cur]) /\ UNCHANGED <<mem, want>>
                \/ /\ n = Len(wbuf[cur])
                   /\ want' = [want EXCEPT ![cur] = FALSE]
                   /\ \/ state[cur] = "closing" /\ ConnectionFree(cur)
                      \/ state[cur] = "open" /\ UNCHANGED mem
    <2>1. mem[cur] = "live"
      BY <1>1, <1>3, <1>5
    <2>2. /\ wire' \in [Conns -> Seq(OutUnit)]
          /\ room' \in [Conns -> 0..SndBuf]
          /\ wbuf' \in [Conns -> Seq(OutUnit)]
          /\ block' \in [Conns -> Blocks]
          /\ \A d \in Conns \ {cur} : wbuf'[d] = wbuf[d] /\ block'[d] = block[d]
          /\ n = Len(wbuf[cur]) => wbuf'[cur] = <<>> /\ block'[cur].start = 0
          /\ UNCHANGED <<inq, fin, reset>>
      <3> HIDE DEF n
      <3> QED
        BY <1>1, <1>2, <1>5, SendAndReleaseType
    <2>3. TypeOK'
      BY <1>5, <2>2 DEF HandleWrite, clientVars, ConnectionFree, IInv, TypeOK,
                        ConnTypeOK, Labels, Mem
    <2>4. Handling' /\ Fresh' /\ Drained'
      BY <1>1, <1>5, <2>1 DEF HandleWrite, clientVars, ConnectionFree, IInv,
           TypeOK, ConnTypeOK, Handling, Fresh, Drained
    <2>5. ClosingArmed' /\ FlushedBeforeFree'
      BY <1>1, <1>5, <2>1, <2>2 DEF ConnectionFree, IInv, ConnTypeOK,
           ClosingArmed, FlushedBeforeFree
    <2>6. want[cur]
      BY <1>1, <2>1 DEF HandleWrite, IInv, OutWanted
    <2>7. OutWanted'
      BY DEF HandleWrite, OutWanted
    <2>8. RestWanted'
      <3> SUFFICES ASSUME NEW d \in Conns, block'[d].start > 0 PROVE want'[d]
        BY DEF RestWanted
      <3>1. CASE d = cur
        BY <1>5, <2>2, <2>6, <3>1
      <3>2. CASE d # cur
        <4>1. want'[d] = want[d]
          BY <1>1, <1>5, <3>2 DEF ConnTypeOK
        <4>2. block[d].start > 0
          BY <2>2, <3>2
        <4> QED
          BY <4>1, <4>2 DEF IInv, RestWanted
      <3> QED
        BY <3>1, <3>2
    <2> QED
      BY <2>3, <2>4, <2>5, <2>7, <2>8 DEF IInv
  <1> QED
    BY <1>4, <1>5 DEF HandleWrite, WritableCallback

LEMMA HandleRequestIInv ==
    ASSUME IInv, HandleRequest
    PROVE  IInv'
  <1> DEFINE q == rbuf[cur]
             status == Parse(q)
             rest == SubSeq(q, Len(q) + 1, Len(q))
  <1>1. /\ pc = "request" /\ cur \in Conns /\ mem[cur] = "live"
        /\ q \in Seq(InUnit) /\ q # <<>> /\ Len(q) \in Nat
    BY DEF HandleRequest, IInv, TypeOK, ConnTypeOK, Handling
  <1>2. q[1] \in InUnit
    BY <1>1
  <1>3. q[1].req \in Nat /\ status \in Statuses
    BY <1>2 DEF InUnit, Parse, Statuses
  <1>4. rest = <<>> /\ rest \in Seq(InUnit)
    BY <1>1
  <1>5. Append(answers[cur], [req |-> q[1].req, status |-> status])
          \in Seq([req : Nat, status : Statuses])
    <2> HIDE DEF q, status
    <2>1. [req |-> q[1].req, status |-> status] \in [req : Nat, status : Statuses]
      BY <1>3
    <2>2. answers[cur] \in Seq([req : Nat, status : Statuses])
      BY <1>1 DEF IInv, TypeOK
    <2> QED
      BY <2>1, <2>2
  <1>6. /\ answers' = [answers EXCEPT
                ![cur] = Append(@, [req |-> q[1].req, status |-> status])]
        /\ rbuf' = [rbuf EXCEPT ![cur] = rest]
        /\ keep' \in BOOLEAN /\ pushed' = 0 /\ pc' = "head"
        /\ UNCHANGED <<mem, state, want, wbuf, block, sockVars, cur, out,
                       clientVars>>
    BY DEF HandleRequest, Consumed
  <1> HIDE DEF q, status, rest
  <1>7. TypeOK'
    <2>1. ConnTypeOK'
      BY <1>1, <1>4, <1>6 DEF IInv, TypeOK, ConnTypeOK, sockVars
    <2>2. answers' \in [Conns -> Seq([req : Nat, status : Statuses])]
      BY <1>1, <1>5, <1>6 DEF IInv, TypeOK
    <2> QED
      <3>1. pushed' \in 0..HeadLen
        BY <1>6, HttpAssumption
      <3> QED
        BY <1>6, <2>1, <2>2, <3>1 DEF IInv, TypeOK, Labels, clientVars
  <1>8. Handling' /\ Fresh'
    BY <1>1, <1>6, HttpAssumption DEF IInv, Handling, Fresh
  <1>9. Drained'
    BY <1>1, <1>4, <1>6 DEF IInv, TypeOK, ConnTypeOK, Drained
  <1>10. ClosingArmed' /\ FlushedBeforeFree' /\ RestWanted'
    BY <1>6 DEF IInv, ClosingArmed, FlushedBeforeFree, RestWanted
  <1>11. OutWanted'
    BY <1>1, <1>6 DEF IInv, OutWanted
  <1> QED
    BY <1>7, <1>8, <1>9, <1>10, <1>11 DEF IInv

LEMMA AppendHeadIInv ==
    ASSUME IInv, AppendHead
    PROVE  IInv'
  <1> DEFINE unit == [resp |-> Serial(cur), part |-> "head"]
  <1>1. /\ pc = "head" /\ cur \in Conns /\ mem[cur] = "live" /\ ConnTypeOK
        /\ pushed \in 0..HeadLen /\ pushed < HeadLen
    BY DEF AppendHead, IInv, TypeOK, Handling
  <1>2. unit \in OutUnit
    <2>1. Len(answers[cur]) \in Nat
      BY <1>1 DEF IInv, TypeOK
    <2> QED
      BY <2>1 DEF OutUnit, Serial
  <1>3. /\ PushData(cur, unit)
        /\ pushed' = pushed + 1
        /\ pc' \in {"head", "sendhead", "page", "down"}
        /\ pc' = "head" => pushed' < HeadLen
        /\ UNCHANGED <<mem, state, want, rbuf, sockVars, cur, out, keep, answers,
                       clientVars>>
    BY DEF AppendHead
  <1> HIDE DEF unit
  <1>4. /\ wbuf' \in [Conns -> Seq(OutUnit)]
        /\ block' \in [Conns -> Blocks]
        /\ \A d \in Conns : block'[d].start \in {block[d].start, 0}
        /\ \A d \in Conns \ {cur} : wbuf'[d] = wbuf[d]
    BY <1>1, <1>2, <1>3, PushType
  <1>5. TypeOK'
    <2>1. ConnTypeOK'
      BY <1>1, <1>3, <1>4 DEF ConnTypeOK, sockVars
    <2>2. pushed' \in 0..HeadLen
      BY <1>1, <1>3, HttpAssumption
    <2> QED
      BY <1>3, <2>1, <2>2 DEF IInv, TypeOK, Labels, clientVars
  <1>6. Handling' /\ Fresh' /\ Drained'
    BY <1>1, <1>3 DEF IInv, Handling, Fresh, Drained
  <1>7. ClosingArmed' /\ FlushedBeforeFree'
    BY <1>1, <1>3, <1>4 DEF IInv, ClosingArmed, FlushedBeforeFree
  <1>8. OutWanted'
    BY <1>1, <1>3 DEF IInv, OutWanted
  <1>9. RestWanted'
    <2> SUFFICES ASSUME NEW d \in Conns, block'[d].start > 0 PROVE want[d]
      BY <1>3 DEF RestWanted
    <2>1. block'[d].start = block[d].start
      BY <1>4
    <2> QED
      BY <2>1 DEF IInv, RestWanted
  <1> QED
    BY <1>5, <1>6, <1>7, <1>8, <1>9 DEF IInv

LEMMA SendHeadIInv ==
    ASSUME IInv, SendHead
    PROVE  IInv'
  <1> DEFINE n == Accepted(cur, Len(wbuf[cur]))
  <1>1. /\ cur \in Conns /\ ConnTypeOK /\ mem[cur] = "live"
        /\ wbuf[cur] \in Seq(OutUnit) /\ Len(wbuf[cur]) \in Nat
    BY DEF SendHead, IInv, TypeOK, ConnTypeOK, Handling
  <1>2. n \in 0..Len(wbuf[cur]) /\ n <= room[cur]
    BY <1>1, AcceptedBound
  <1>3. /\ SendAndRelease(cur, n)
        /\ \/ UNCHANGED want /\ n \in {0, Len(wbuf[cur])}
           \/ want' = [want EXCEPT ![cur] = TRUE]
        /\ pc' \in {"sendfile", "finish"}
        /\ UNCHANGED <<mem, state, rbuf, cur, out, keep, pushed, answers,
                       clientVars>>
    BY DEF SendHead, SendBuffer
  <1>4. /\ wire' \in [Conns -> Seq(OutUnit)]
        /\ room' \in [Conns -> 0..SndBuf]
        /\ wbuf' \in [Conns -> Seq(OutUnit)]
        /\ block' \in [Conns -> Blocks]
        /\ \A d \in Conns \ {cur} : wbuf'[d] = wbuf[d] /\ block'[d] = block[d]
        /\ n = Len(wbuf[cur]) => block'[cur].start = 0
        /\ n = 0 => block'[cur].start \in {block[cur].start, 0}
        /\ UNCHANGED <<inq, fin, reset>>
    <2> HIDE DEF n
    <2> QED
      BY <1>1, <1>2, <1>3, SendAndReleaseType
  <1>5. TypeOK'
    BY <1>3, <1>4 DEF IInv, TypeOK, ConnTypeOK, Labels, clientVars
  <1>6. Handling' /\ Fresh'
    BY <1>1, <1>3 DEF IInv, Handling, Fresh
  <1>7. Drained'
    BY <1>3 DEF SendHead, IInv, Drained
  <1>8. ClosingArmed' /\ FlushedBeforeFree'
    BY <1>1, <1>3, <1>4 DEF IInv, ConnTypeOK, ClosingArmed, FlushedBeforeFree
  <1>9. OutWanted'
    <2>1. want[cur] => want'[cur]
      BY <1>1, <1>3 DEF ConnTypeOK
    <2>2. pc # "wait" /\ pc' # "write" /\ UNCHANGED <<cur, out>>
      BY <1>3 DEF SendHead
    <2> QED
      BY <2>1, <2>2 DEF IInv, OutWanted
  <1>10. RestWanted'
    <2> SUFFICES ASSUME NEW d \in Conns, block'[d].start > 0 PROVE want'[d]
      BY DEF RestWanted
    <2>1. want[d] => want'[d]
      BY <1>1, <1>3 DEF ConnTypeOK
    <2>2. block[d].start > 0 \/ (d = cur /\ want'[d])
      <3>1. CASE d # cur
        BY <1>4, <3>1
      <3>2. CASE d = cur /\ n \in {0, Len(wbuf[cur])}
        <4> HIDE DEF n
        <4>1. block'[d].start \in {block[d].start, 0}
          BY <1>4, <3>2
        <4> QED
          BY <4>1
      <3>3. CASE d = cur /\ want' = [want EXCEPT ![cur] = TRUE]
        BY <1>1, <3>3 DEF ConnTypeOK
      <3> QED
        BY <1>3, <3>1, <3>2, <3>3
    <2> QED
      BY <2>1, <2>2 DEF IInv, RestWanted
  <1> QED
    BY <1>5, <1>6, <1>7, <1>8, <1>9, <1>10 DEF IInv

(* A sendfile step of the thread changes the socket and nothing else that  *)
(* the invariant speaks of.                                                *)
LEMMA SendfileIInv ==
    ASSUME IInv, pc \in {"sendfile", "page"}, pc' = "finish",
           NEW units \in Seq(OutUnit), Len(units) <= room[cur],
           Transmit(cur, units),
           UNCHANGED <<connVars, cur, out, keep, pushed, answers, clientVars>>
    PROVE  IInv'
  <1> USE DEF connVars, clientVars
  <1>1. /\ wire' \in [Conns -> Seq(OutUnit)]
        /\ room' \in [Conns -> 0..SndBuf]
        /\ UNCHANGED <<inq, fin, reset>>
    BY TransmitType DEF IInv, TypeOK
  <1>2. TypeOK'
    BY <1>1 DEF IInv, TypeOK, ConnTypeOK, Labels
  <1>3. Handling' /\ Fresh' /\ Drained' /\ ClosingArmed'
        /\ FlushedBeforeFree' /\ OutWanted' /\ RestWanted'
    BY DEF IInv, Handling, Fresh, Drained, ClosingArmed,
           FlushedBeforeFree, OutWanted, RestWanted
  <1> QED
    BY <1>2, <1>3 DEF IInv

LEMMA SendFileIInv ==
    ASSUME IInv, SendFile
    PROVE  IInv'
  <1> DEFINE n == Accepted(cur, BodyLen)
             k == Len(answers[cur])
  <1>1. cur \in Conns /\ ConnTypeOK /\ BodyLen \in Nat /\ k \in Nat
    BY HttpAssumption DEF IInv, TypeOK
  <1>2. n \in Nat /\ n <= room[cur]
    BY <1>1, AcceptedBound
  <1>3. BodyOf(k, n) \in Seq(OutUnit) /\ Len(BodyOf(k, n)) <= room[cur]
    <2> HIDE DEF n, k
    <2> QED
      BY <1>1, <1>2, OutSeqs
  <1>4. Transmit(cur, BodyOf(k, n))
    BY DEF SendFile, Serial
  <1> QED
    BY <1>3, <1>4, SendfileIInv DEF SendFile

LEMMA SendPageIInv ==
    ASSUME IInv, SendPage
    PROVE  IInv'
  <1> DEFINE n == Accepted(cur, BodyLen)
             k == Len(answers[cur])
  <1>1. cur \in Conns /\ ConnTypeOK /\ BodyLen \in Nat /\ k \in Nat
    BY HttpAssumption DEF IInv, TypeOK
  <1>2. n \in Nat /\ n <= room[cur]
    BY <1>1, AcceptedBound
  <1>3. PageOf(k, n) \in Seq(OutUnit) /\ Len(PageOf(k, n)) <= room[cur]
    <2> HIDE DEF n, k
    <2> QED
      BY <1>1, <1>2, OutSeqs
  <1>4. Transmit(cur, PageOf(k, n))
    BY DEF SendPage, Serial
  <1> QED
    BY <1>3, <1>4, SendfileIInv DEF SendPage

LEMMA FinishIInv ==
    ASSUME IInv, Finish
    PROVE  IInv'
  <1> USE DEF Finish, sockVars, clientVars
  <1>1. mem[cur] = "live" /\ cur \in Conns
    BY DEF IInv, Handling, TypeOK
  <1>2. /\ mem' \in [Conns -> Mem]
        /\ state' \in [Conns -> {"open", "closing"}]
        /\ want' \in [Conns -> BOOLEAN]
        /\ mem'[cur] \in {"live", "freed"}
        /\ want[cur] => want'[cur]
        /\ Fresh' /\ ClosingArmed' /\ FlushedBeforeFree' /\ RestWanted'
    <2>1. CASE ~keep /\ Disconnect(cur)
      BY <1>1, <2>1, DisconnectKeeps
    <2>2. CASE UNCHANGED <<mem, state, want>>
      BY <1>1, <2>2 DEF IInv, TypeOK, ConnTypeOK, Fresh, ClosingArmed,
                        FlushedBeforeFree, RestWanted
    <2> QED
      BY <2>1, <2>2
  <1>3. pc' \in {"write", "wait"}
    BY DEF AfterRead
  <1>4. TypeOK'
    BY <1>2, <1>3 DEF IInv, TypeOK, ConnTypeOK, Labels
  <1>5. Handling' /\ Drained'
    BY <1>2, <1>3 DEF IInv, Handling, Drained
  <1>6. OutWanted'
    BY <1>2 DEF AfterRead, IInv, OutWanted
  <1> QED
    BY <1>2, <1>4, <1>5, <1>6 DEF IInv

(* Clients and the network touch no memory of the server.                  *)
LEMMA EnvironmentIInv ==
    ASSUME IInv, NEW c \in Conns, Environment(c)
    PROVE  IInv'
  <1> USE DEF connVars, loopVars
  <1>1. TypeOK'
    <2>1. CASE \E kind \in Kinds : ClientAsk(c, kind)
      <3>1. PICK kind \in Kinds : ClientAsk(c, kind)
        BY <2>1
      <3>2. \A p \in {1, 2} : Unit(c, kind, p) \in InUnit
        BY DEF Unit, InUnit, IInv, TypeOK
      <3> DEFINE u == Unit(c, kind, 1)
                 v == Unit(c, kind, 2)
      <3>3. u \in InUnit /\ v \in InUnit
        BY <3>2
      <3> HIDE DEF u, v
      <3>4. /\ inq[c] \o <<u, v>> \in Seq(InUnit)
            /\ Append(inq[c], u) \in Seq(InUnit)
            /\ <<v>> \in Seq(InUnit)
            /\ Append(asked[c], kind) \in Seq(Kinds)
        BY <3>3 DEF IInv, TypeOK, ConnTypeOK
      <3>5. /\ asked' = [asked EXCEPT ![c] = Append(@, kind)]
            /\ \/ inq' = [inq EXCEPT ![c] = @ \o <<u, v>>] /\ UNCHANGED unsent
               \/ /\ inq' = [inq EXCEPT ![c] = Append(@, u)]
                  /\ unsent' = [unsent EXCEPT ![c] = <<v>>]
            /\ UNCHANGED <<connVars, fin, reset, room, wire, loopVars>>
        BY <3>1 DEF ClientAsk, u, v
      <3>6. /\ inq' \in [Conns -> Seq(InUnit)]
            /\ unsent' \in [Conns -> Seq(InUnit)]
            /\ asked' \in [Conns -> Seq(Kinds)]
        <4>1. /\ inq \in [Conns -> Seq(InUnit)]
              /\ unsent \in [Conns -> Seq(InUnit)]
              /\ asked \in [Conns -> Seq(Kinds)]
          BY DEF IInv, TypeOK, ConnTypeOK
        <4>2. asked' \in [Conns -> Seq(Kinds)]
          BY ONLY <3>4, <3>5, <4>1
        <4>3. inq' \in [Conns -> Seq(InUnit)] /\ unsent' \in [Conns -> Seq(InUnit)]
          BY ONLY <3>4, <3>5, <4>1
        <4> QED
          BY <4>2, <4>3
      <3> QED
        BY <3>5, <3>6 DEF IInv, TypeOK, ConnTypeOK
    <2>2. CASE ClientRest(c)
      <3>1. inq[c] \o unsent[c] \in Seq(InUnit) /\ <<>> \in Seq(InUnit)
        BY DEF IInv, TypeOK, ConnTypeOK
      <3> QED
        BY <2>2, <3>1 DEF ClientRest, IInv, TypeOK, ConnTypeOK
    <2>3. CASE ClientShutdown(c) \/ ClientReset(c)
      BY <2>3 DEF ClientShutdown, ClientReset, clientVars, IInv, TypeOK,
                  ConnTypeOK
    <2>4. CASE Drain(c)
      <3>1. room[c] + 1 \in 0..SndBuf
        BY <2>4, SndBufAssumption DEF Drain, IInv, TypeOK, ConnTypeOK
      <3> QED
        BY <2>4, <3>1 DEF Drain, clientVars, IInv, TypeOK, ConnTypeOK
    <2> QED
      BY <2>1, <2>2, <2>3, <2>4 DEF Environment
  <1>2. UNCHANGED <<mem, state, want, rbuf, wbuf, block, pc, cur, out, pushed>>
    BY DEF Environment, ClientAsk, ClientRest, ClientShutdown, ClientReset,
           Drain
  <1>3. Handling' /\ Fresh' /\ Drained' /\ ClosingArmed'
        /\ FlushedBeforeFree' /\ OutWanted' /\ RestWanted'
    BY <1>2 DEF IInv, Handling, Fresh, Drained, ClosingArmed,
                FlushedBeforeFree, OutWanted, RestWanted
  <1> QED
    BY <1>1, <1>3 DEF IInv

LEMMA StutterIInv ==
    ASSUME IInv, UNCHANGED vars
    PROVE  IInv'
  <1> USE DEF vars, connVars, sockVars, loopVars, clientVars
  <1>1. TypeOK'
    BY DEF IInv, TypeOK, ConnTypeOK
  <1>2. Handling' /\ Fresh' /\ Drained' /\ ClosingArmed'
        /\ FlushedBeforeFree' /\ OutWanted' /\ RestWanted'
    BY DEF IInv, Handling, Fresh, Drained, ClosingArmed,
           FlushedBeforeFree, OutWanted, RestWanted
  <1> QED
    BY <1>1, <1>2 DEF IInv

LEMMA Consecution ==
    ASSUME IInv, [Next]_vars
    PROVE  IInv'
  <1>1. CASE Handler
    BY <1>1, HandleErrorIInv, ReadDataIInv, ReadEndIInv, HandleWriteIInv,
       HandleRequestIInv, AppendHeadIInv, SendHeadIInv, SendFileIInv, SendPageIInv,
       FinishIInv
       DEF Handler
  <1>2. CASE \E c \in Conns : Accept(c) \/ Dispatch(c) \/ Environment(c)
    BY <1>2, AcceptIInv, DispatchIInv, EnvironmentIInv
  <1>3. CASE UNCHANGED vars
    BY <1>3, StutterIInv
  <1> QED
    BY <1>1, <1>2, <1>3 DEF Next

(* Only the connection in hand is written to, and only while it is live;   *)
(* the one handler that may meet a freed connection finds nothing to send. *)
LEMMA ClosedStep ==
    ASSUME IInv, [Next]_vars
    PROVE  ClosedStays
  <1> SUFFICES ASSUME NEW c \in Conns, mem[c] \in {"freed", "leaked"}
               PROVE  mem'[c] = mem[c] /\ wire'[c] = wire[c]
                      /\ wbuf'[c] = wbuf[c]
    BY DEF ClosedStays
  <1> USE DEF connVars, sockVars
  <1>1. cur \in Conns /\ ConnTypeOK
    BY DEF IInv, TypeOK
  <1>2. CASE HandleWrite
    <2> DEFINE n == Accepted(cur, Len(wbuf[cur]))
    <2>1. Len(wbuf[cur]) \in Nat /\ mem[cur] \in {"live", "freed"}
      BY <1>1, <1>2 DEF HandleWrite, IInv, Handling, ConnTypeOK
    <2>2. n \in 0..Len(wbuf[cur])
      BY <1>1, <2>1, AcceptedBound
    <2>3. c = cur => n = 0
      BY <1>1, <1>2, <2>1, <2>2, EmptyLen DEF IInv, FlushedBeforeFree
    <2>4. c = cur => UNCHANGED <<mem, wire, wbuf>>
      BY <1>2, <2>3 DEF HandleWrite, WritableCallback
    <2>5. c # cur => mem'[c] = mem[c] /\ wire'[c] = wire[c]
                     /\ wbuf'[c] = wbuf[c]
      BY <1>1, <1>2 DEF HandleWrite, WritableCallback, SendAndRelease,
                        Transmit, ConnectionFree, ConnTypeOK
    <2> QED
      BY <2>4, <2>5
  <1>3. CASE Handler /\ ~HandleWrite
    <2>1. c # cur
      BY <1>3 DEF Handler, IInv, Handling, HandleError, ReadData, ReadEnd,
                  HandleRequest, AppendHead, SendHead, SendFile, SendPage, Finish
    <2> QED
      BY <1>1, <1>3, <2>1 DEF Handler, HandleError, ReadData, ReadEnd,
         HandleRequest, AppendHead, SendHead, SendFile, SendPage, Finish, ErrorHandler,
         ReadBuffer, PushData, Disconnect, ConnectionFree, SendBuffer, SendAndRelease,
         Transmit, ConnTypeOK
  <1>4. CASE \E d \in Conns : Accept(d) \/ Dispatch(d) \/ Environment(d)
    <2>1. UNCHANGED <<wire, wbuf>>
      BY <1>4 DEF Accept, Dispatch, Environment, ClientAsk, ClientRest,
                  ClientShutdown, ClientReset, Drain
    <2>2. mem'[c] = mem[c]
      BY <1>1, <1>4 DEF Accept, Dispatch, Environment, ClientAsk, ClientRest,
                  ClientShutdown, ClientReset, Drain, ConnTypeOK
    <2> QED
      BY <2>1, <2>2
  <1>5. CASE UNCHANGED vars
    BY <1>5 DEF vars
  <1> QED
    BY <1>2, <1>3, <1>4, <1>5 DEF Next

-----------------------------------------------------------------------------
(* The theorems.                                                           *)

(* The inductive invariant holds in every behaviour of the server.         *)
THEOREM Invariance == Spec => []IInv
  <1>1. IInv /\ [Next]_vars => IInv'
    BY Consecution
  <1> QED
    BY InitIInv, <1>1, PTL DEF Spec

(* Every variable keeps its type: in particular the kernel's queue is never*)
(* overfilled and the parser is never entered with an empty read buffer,   *)
(* where request_handle_request_line would follow a null msg.              *)
THEOREM TypeCorrect == Spec => []TypeOK
  <1>1. IInv => TypeOK
    BY DEF IInv
  <1> QED
    BY <1>1, Invariance, PTL

(* Closing connections that still exist wait for EPOLLOUT                  *)
(* (connection.c:163-165).                                                 *)
THEOREM ClosingArmedCorrect == Spec => []ClosingArmed
  <1>1. IInv => ClosingArmed
    BY DEF IInv
  <1> QED
    BY <1>1, Invariance, PTL

(* No connection is freed with output in its buffer (connection.c:163).    *)
THEOREM FlushedCorrect == Spec => []FlushedBeforeFree
  <1>1. IInv => FlushedBeforeFree
    BY DEF IInv
  <1> QED
    BY <1>1, Invariance, PTL

(* A rest of output that has been sent in part waits for EPOLLOUT, at every*)
(* return to epoll_wait (connection.c:201-204).                            *)
THEOREM RestArmedCorrect == Spec => []RestArmed
  <1>1. IInv => RestArmed
    BY DEF IInv, RestWanted, RestArmed
  <1> QED
    BY <1>1, Invariance, PTL

(* After the close of its descriptor nothing is sent on a connection,      *)
(* nothing is added to its buffer and it is not closed again.              *)
THEOREM NothingAfterCloseCorrect == Spec => NothingAfterClose
  <1>1. IInv /\ [Next]_vars => [ClosedStays]_vars
    BY ClosedStep
  <1> QED
    BY <1>1, Invariance, PTL DEF Spec, NothingAfterClose

=============================================================================
