--------------------------- MODULE HttpStreamProofs ---------------------------
(***************************************************************************)
(* Proofs about what HttpConnection sends, for every set of connections,   *)
(* every length of heads, files and send queue: the stream of a connection *)
(* (what the kernel has taken and what is still in the write buffer) grows *)
(* in two ways only (StreamStep), neither of which loses, repeats or       *)
(* reorders a line of a head. And about clients that await their answers:  *)
(* at most one request is on its way, the send queue is empty then (Turn), *)
(* and no push leaves the block of the write buffer (InBlock).             *)
(***************************************************************************)
EXTENDS HttpConnectionProofs, FiniteSetTheorems, SequenceTheorems

-----------------------------------------------------------------------------
(* Counting the units of a sequence that are in a set.                     *)

Places(s, U) == {i \in DOMAIN s : s[i] \in U}
Count(s, U) == Cardinality(Places(s, U))

LEMMA PlacesFinite ==
    ASSUME NEW T, NEW s \in Seq(T), NEW U
    PROVE  /\ IsFiniteSet(Places(s, U))
           /\ Count(s, U) \in Nat
           /\ Count(s, U) <= Len(s)
           /\ Count(s, U) = 0 <=> Places(s, U) = {}
  <1>1. Len(s) \in Nat
    OBVIOUS
  <1>2. IsFiniteSet(1..Len(s)) /\ Cardinality(1..Len(s)) = Len(s)
    BY <1>1, FS_Interval
  <1>3. IsFiniteSet(Places(s, U)) /\ Count(s, U) <= Len(s)
    <2>1. Places(s, U) \in SUBSET (1..Len(s))
      BY DEF Places
    <2> QED
      BY <1>2, <2>1, FS_Subset DEF Count
  <1>4. Count(s, U) \in Nat
    BY <1>3, FS_CardinalityType DEF Count
  <1>5. Count(s, U) = 0 <=> Places(s, U) = {}
    BY <1>3, FS_EmptySet, Zenon DEF Count
  <1> QED
    BY <1>3, <1>4, <1>5

LEMMA CountConcat ==
    ASSUME NEW T, NEW s \in Seq(T), NEW t \in Seq(T), NEW U
    PROVE  Count(s \o t, U) = Count(s, U) + Count(t, U)
  <1> DEFINE n == Len(s)
             later == {j \in n + 1..n + Len(t) : t[j - n] \in U}
             f == [i \in Places(t, U) |-> n + i]
  <1>1. n \in Nat /\ Len(t) \in Nat
    OBVIOUS
  <1>2. Places(t, U) \subseteq 1..Len(t)
    BY DEF Places
  <1>3. Places(s \o t, U) = Places(s, U) \cup later
    BY DEF Places
  <1>4. Places(s, U) \cap later = {}
    BY DEF Places
  <1>5. f \in Bijection(Places(t, U), later)
    <2>1. \A i \in Places(t, U) : f[i] \in later
      BY <1>1, <1>2 DEF Places
    <2>2. \A i, j \in Places(t, U) : f[i] = f[j] => i = j
      BY <1>1, <1>2
    <2>3. \A j \in later : \E i \in Places(t, U) : f[i] = j
      <3>1. SUFFICES ASSUME NEW j \in later PROVE \E i \in Places(t, U) : f[i] = j
        OBVIOUS
      <3>2. j - n \in Places(t, U) /\ n + (j - n) = j
        BY <1>1 DEF Places
      <3> QED
        BY <3>2
    <2> HIDE DEF later
    <2> QED
      BY <2>1, <2>2, <2>3 DEF Bijection, Injection, Surjection, IsInjective
  <1>6. IsFiniteSet(Places(s, U)) /\ IsFiniteSet(Places(t, U))
    BY PlacesFinite
  <1>7. IsFiniteSet(later) /\ Cardinality(later) = Count(t, U)
    <2> HIDE DEF f, later
    <2> QED
      BY <1>5, <1>6, FS_Bijection DEF ExistsBijection, Count
  <1>8. Cardinality(Places(s, U) \cap later) = 0
    BY <1>4, FS_EmptySet
  <1> HIDE DEF later
  <1>9. Cardinality(Places(s, U) \cup later) = Count(s, U) + Count(t, U) - 0
    BY <1>6, <1>7, <1>8, FS_Union DEF Count
  <1> QED
    BY <1>3, <1>9, PlacesFinite DEF Count

(* A sequence of equal units counts as a whole or not at all.              *)
LEMMA CountSame ==
    ASSUME NEW T, NEW s \in Seq(T), NEW u, \A i \in DOMAIN s : s[i] = u, NEW U
    PROVE  /\ u \in U => Count(s, U) = Len(s)
           /\ u \notin U => Count(s, U) = 0
  <1>1. Len(s) \in Nat /\ DOMAIN s = 1..Len(s)
    OBVIOUS
  <1>2. /\ u \in U => Places(s, U) = 1..Len(s)
        /\ u \notin U => Places(s, U) = {}
    BY <1>1 DEF Places
  <1>3. \A n \in Nat : Cardinality(1..n) = n
    BY FS_Interval
  <1>4. Cardinality(1..Len(s)) = Len(s) /\ Cardinality({}) = 0
    BY <1>1, <1>3, FS_EmptySet
  <1> QED
    BY <1>2, <1>4 DEF Count

LEMMA CountUnion ==
    ASSUME NEW T, NEW s \in Seq(T), NEW U, NEW V, U \cap V = {}
    PROVE  Count(s, U \cup V) = Count(s, U) + Count(s, V)
  <1>1. Places(s, U \cup V) = Places(s, U) \cup Places(s, V)
    BY DEF Places
  <1>2. Places(s, U) \cap Places(s, V) = {}
    BY DEF Places
  <1>3. IsFiniteSet(Places(s, U)) /\ IsFiniteSet(Places(s, V))
    BY PlacesFinite
  <1>4. Cardinality(Places(s, U) \cup Places(s, V)) = Count(s, U) + Count(s, V) - 0
    BY <1>2, <1>3, FS_Union, FS_EmptySet DEF Count
  <1>5. Count(s, U) \in Nat /\ Count(s, V) \in Nat
    BY PlacesFinite
  <1>6. Count(s, U \cup V) = Cardinality(Places(s, U) \cup Places(s, V))
    BY <1>1 DEF Count
  <1> QED
    BY <1>4, <1>5, <1>6

-----------------------------------------------------------------------------
(* How the stream of a connection grows.                                   *)

Heads(k) == {u \in OutUnit : u.resp = k /\ u.part \in {"head", "foreign"}}
Others(k) == {u \in OutUnit : u.resp = k /\ u.part \in {"body", "page"}}

(* The thread writes the head of an answer on c, or died of it; it has not *)
(* yet sent what follows the head; and the lines of the last head so far.  *)
Heading(c) == cur = c /\ pc = "head"
Writing(c) == cur = c /\ pc \in {"head", "down"}
Answering(c) == cur = c /\ pc \in {"head", "sendhead", "sendfile", "page"}
Latest(c) == IF Writing(c) THEN pushed ELSE HeadLen

(* The file goes out past the write buffer only when that is empty.        *)
FileBehindHead == pc = "sendfile" => wbuf[cur] = <<>>

Kept(c) ==
    /\ Stream(c)' = Stream(c) /\ answers'[c] = answers[c]
    /\ Latest(c)' = Latest(c)
    /\ Answering(c)' => Answering(c)

Begun(c) ==
    /\ Stream(c)' = Stream(c) /\ Len(answers'[c]) = Len(answers[c]) + 1
    /\ Latest(c) = HeadLen /\ Latest(c)' = 0

Appended(c) ==
    /\ \E u \in Heads(Len(answers[c])) : Stream(c)' = Append(Stream(c), u)
    /\ answers'[c] = answers[c]
    /\ Latest(c)' = Latest(c) + 1
    /\ Answering(c)

Follows(c, x) ==
    /\ Len(x) <= BodyLen
    /\ \A i \in DOMAIN x : /\ x[i].resp = Len(answers[c])
                           /\ x[i].part = "page" \/ (x[i].part = "body" /\ wbuf[c] = <<>>)

Filled(c) ==
    /\ \E x \in Seq(OutUnit) : Follows(c, x) /\ Stream(c)' = (wire[c] \o x) \o wbuf[c]
    /\ answers'[c] = answers[c]
    /\ Latest(c)' = Latest(c)
    /\ Answering(c) /\ ~Answering(c)'

LEMMA ConcatThree ==
    ASSUME NEW s \in Seq(OutUnit), NEW t \in Seq(OutUnit), NEW u \in Seq(OutUnit)
    PROVE  s \o (t \o u) = (s \o t) \o u
  OBVIOUS

LEMMA AppendConcat ==
    ASSUME NEW s \in Seq(OutUnit), NEW t \in Seq(OutUnit), NEW u \in OutUnit
    PROVE  s \o Append(t, u) = Append(s \o t, u)
  OBVIOUS

(* A send moves units within the stream.                                   *)
LEMMA SendKeepsStream ==
    ASSUME ConnTypeOK, NEW c \in Conns, NEW n \in 0..Len(wbuf[c]), SendAndRelease(c, n)
    PROVE  \A d \in Conns : Stream(d)' = Stream(d)
  <1> DEFINE w == wbuf[c]
             sent == SubSeq(w, 1, n)
             rest == SubSeq(w, n + 1, Len(w))
  <1>1. w \in Seq(OutUnit) /\ wire[c] \in Seq(OutUnit) /\ Len(w) \in Nat
    BY DEF ConnTypeOK
  <1>2. sent \in Seq(OutUnit) /\ rest \in Seq(OutUnit)
    BY <1>1, SubSeqType
  <1>3. sent \o rest = w
    <2>1. 1 \in 1..Len(w) + 1 /\ n \in 1 - 1..Len(w) /\ Len(w) \in n..Len(w)
      BY <1>1
    <2>2. sent \o rest = SubSeq(w, 1, Len(w))
      BY <1>1, <2>1, ConcatAdjacentSubSeq
    <2> QED
      BY <1>1, <2>2, SubSeqFull
  <1>4. wire' = [wire EXCEPT ![c] = @ \o sent] /\ wbuf' = [wbuf EXCEPT ![c] = rest]
    BY DEF SendAndRelease, Transmit
  <1> HIDE DEF w, sent, rest
  <1>5. (wire[c] \o sent) \o rest = wire[c] \o w
    <2>1. (wire[c] \o sent) \o rest = wire[c] \o (sent \o rest)
      BY <1>1, <1>2, ConcatThree
    <2> QED
      BY <1>3, <2>1
  <1> QED
    BY <1>4, <1>5 DEF ConnTypeOK, Stream, w

LEMMA StreamStep ==
    ASSUME IInv, FileBehindHead, [Next]_vars, NEW c \in Conns
    PROVE  Kept(c) \/ Begun(c) \/ Appended(c) \/ Filled(c)
  <1>1. /\ ConnTypeOK /\ cur \in Conns /\ BodyLen \in Nat
        /\ answers \in [Conns -> Seq([req : Nat, status : Statuses])]
        /\ \A d \in Conns : Len(answers[d]) \in Nat
        /\ wbuf[cur] \in Seq(OutUnit) /\ Len(wbuf[cur]) \in Nat
        /\ HeadLen \in Nat /\ pushed \in 0..HeadLen
    <2>1. ConnTypeOK /\ cur \in Conns /\ BodyLen \in Nat
          /\ HeadLen \in Nat /\ pushed \in 0..HeadLen
          /\ answers \in [Conns -> Seq([req : Nat, status : Statuses])]
      BY HttpAssumption DEF IInv, TypeOK
    <2>2. \A d \in Conns : Len(answers[d]) \in Nat
      BY <2>1
    <2>3. wbuf[cur] \in Seq(OutUnit) /\ Len(wbuf[cur]) \in Nat
      BY <2>1 DEF ConnTypeOK
    <2> QED
      BY <2>1, <2>2, <2>3
  <1>2. Accepted(cur, Len(wbuf[cur])) \in 0..Len(wbuf[cur])
    BY <1>1, AcceptedBound
  <1>3. CASE /\ UNCHANGED <<wire, wbuf, answers, pushed>>
             /\ \/ UNCHANGED <<pc, cur>>
                \/ /\ pc \notin {"head", "down"}
                   /\ pc' \notin {"head", "down", "sendhead", "sendfile", "page"}
    BY <1>3 DEF Kept, Stream, Answering, Latest, Writing
  <1>4. CASE HandleWrite
    <2>1. \A d \in Conns : Stream(d)' = Stream(d)
      <3>1. CASE UNCHANGED <<connVars, sockVars>>
        BY <3>1 DEF Stream, connVars, sockVars
      <3>2. CASE SendAndRelease(cur, Accepted(cur, Len(wbuf[cur])))
        BY <1>1, <1>2, <3>2, SendKeepsStream
      <3> QED
        BY <1>4, <3>1, <3>2 DEF HandleWrite, WritableCallback
    <2> QED
      BY <1>4, <2>1 DEF HandleWrite, Kept, Answering, Latest, Writing
  <1>5. CASE HandleRequest
    <2>1. /\ Stream(c)' = Stream(c)
          /\ pc = "request" /\ pc' = "head" /\ pushed' = 0 /\ cur' = cur
          /\ \E a \in [req : Nat, status : Statuses] :
                answers' = [answers EXCEPT ![cur] = Append(@, a)]
      <3>1. rbuf[cur][1] \in InUnit
        BY <1>1, <1>5 DEF HandleRequest, IInv, Handling, ConnTypeOK
      <3> DEFINE a == [req |-> rbuf[cur][1].req, status |-> Parse(rbuf[cur])]
      <3>2. a \in [req : Nat, status : Statuses]
        BY <3>1 DEF Parse, Statuses, InUnit
      <3>3. answers' = [answers EXCEPT ![cur] = Append(@, a)]
        BY <1>5 DEF HandleRequest
      <3>4. UNCHANGED <<wire, wbuf>>
        BY <1>5 DEF HandleRequest, sockVars
      <3> HIDE DEF a
      <3> QED
        BY <1>5, <3>2, <3>3, <3>4 DEF HandleRequest, Stream
    <2>2. CASE c = cur
      <3>1. Len(answers'[c]) = Len(answers[c]) + 1
        BY <1>1, <2>1, <2>2
      <3> QED
        BY <2>1, <2>2, <3>1 DEF Begun, Latest, Writing
    <2>3. CASE c # cur
      BY <1>1, <2>1, <2>3 DEF Kept, Answering, Latest, Writing
    <2> QED
      BY <2>2, <2>3
  <1>12. CASE AppendHead
    <2> DEFINE unit == [resp |-> Len(answers[cur]), part |-> "head"]
    <2>1. unit \in OutUnit
      BY <1>1 DEF OutUnit
    <2>2. /\ PushData(cur, unit)
          /\ pc = "head" /\ pushed' = pushed + 1
          /\ pc' \in {"head", "down"} \/ pushed' = HeadLen
          /\ UNCHANGED <<wire, answers, cur>>
      BY <1>12 DEF AppendHead, Serial, sockVars
    <2> HIDE DEF unit
    <2>3. PICK u \in OutUnit : /\ u.resp = unit.resp /\ u.part \in {unit.part, "foreign"}
                               /\ wbuf' = [wbuf EXCEPT ![cur] = Append(@, u)]
      BY <1>1, <2>1, <2>2, PushType
    <2>4. CASE c = cur
      <3>1. u \in Heads(Len(answers[c]))
        BY <2>3, <2>4 DEF Heads, unit
      <3>2. Stream(c)' = Append(Stream(c), u)
        <4>1. wire[c] \in Seq(OutUnit) /\ wbuf[c] \in Seq(OutUnit)
          BY <1>1 DEF ConnTypeOK
        <4>2. wire'[c] = wire[c] /\ wbuf'[c] = Append(wbuf[c], u)
          BY <1>1, <2>2, <2>3, <2>4 DEF ConnTypeOK
        <4>3. wire[c] \o Append(wbuf[c], u) = Append(wire[c] \o wbuf[c], u)
          BY <4>1, AppendConcat
        <4> QED
          BY <4>2, <4>3 DEF Stream
      <3>3. Latest(c)' = Latest(c) + 1 /\ Answering(c)
        BY <1>1, <2>2, <2>4 DEF Latest, Writing, Answering
      <3> QED
        BY <2>2, <3>1, <3>2, <3>3 DEF Appended
    <2>5. CASE c # cur
      <3>1. wbuf'[c] = wbuf[c]
        BY <1>1, <2>3, <2>5 DEF ConnTypeOK
      <3> QED
        BY <2>2, <2>5, <3>1 DEF Kept, Stream, Answering, Latest, Writing
    <2> QED
      BY <2>4, <2>5
  <1>6. CASE SendHead
    <2>1. \A d \in Conns : Stream(d)' = Stream(d)
      BY <1>1, <1>2, <1>6, SendKeepsStream DEF SendHead, SendBuffer
    <2> QED
      BY <1>6, <2>1 DEF SendHead, Kept, Answering, Latest, Writing
  <1>7. ASSUME NEW x \in Seq(OutUnit), Transmit(cur, x), Follows(cur, x),
               pc \in {"sendfile", "page"}, pc' = "finish", UNCHANGED <<wbuf, cur, answers>>
        PROVE  Kept(c) \/ Filled(c)
    <2>1. CASE c = cur
      BY <1>1, <1>7, <2>1 DEF Transmit, Filled, Stream, Answering, Latest, Writing,
         ConnTypeOK
    <2>2. CASE c # cur
      BY <1>1, <1>7, <2>2 DEF Transmit, Kept, Stream, Answering, Latest, Writing,
         ConnTypeOK
    <2> QED
      BY <2>1, <2>2
  <1>8. CASE SendFile \/ SendPage
    <2> DEFINE k == Len(answers[cur])
               n == Accepted(cur, BodyLen)
    <2>1. k \in Nat /\ n \in 0..BodyLen
      BY <1>1, AcceptedBound
    <2>2. CASE SendFile
      <3>1. BodyOf(k, n) \in Seq(OutUnit) /\ Len(BodyOf(k, n)) = n
        <4> HIDE DEF k, n
        <4> QED
          BY <2>1, OutSeqs
      <3>2. Follows(cur, BodyOf(k, n))
        BY <2>1, <2>2, <3>1 DEF Follows, BodyOf, SendFile, FileBehindHead
      <3> QED
        BY <1>7, <2>2, <3>1, <3>2 DEF SendFile, connVars, Serial
    <2>3. CASE SendPage
      <3>1. PageOf(k, n) \in Seq(OutUnit) /\ Len(PageOf(k, n)) = n
        <4> HIDE DEF k, n
        <4> QED
          BY <2>1, OutSeqs
      <3>2. Follows(cur, PageOf(k, n))
        BY <2>1, <2>3, <3>1 DEF Follows, PageOf
      <3> QED
        BY <1>7, <2>3, <3>1, <3>2 DEF SendPage, connVars, Serial
    <2> QED
      BY <1>8, <2>2, <2>3
  <1>9. CASE HandleError \/ ReadData \/ ReadEnd \/ Finish
    BY <1>3, <1>9 DEF HandleError, ErrorHandler, ReadData, ReadBuffer, ReadEnd, Finish,
       AfterRead, sockVars
  <1>10. CASE \E d \in Conns : Accept(d) \/ Dispatch(d) \/ Environment(d)
    BY <1>3, <1>10 DEF Accept, Dispatch, Environment, ClientAsk, ClientRest,
       ClientShutdown, ClientReset, Drain, connVars, sockVars, loopVars
  <1>11. CASE UNCHANGED vars
    BY <1>3, <1>11 DEF vars, connVars, sockVars, loopVars
  <1> QED
    BY <1>4, <1>5, <1>6, <1>8, <1>9, <1>10, <1>11, <1>12 DEF Next, Handler

-----------------------------------------------------------------------------
(* What is invariant of the stream of one connection.                      *)

(* Nothing in a stream belongs to an answer still to come.                 *)
Bounded(s, n) == \A i \in DOMAIN s : s[i].resp \in 1..n

Ordered(s) ==
    \A i, j \in DOMAIN s :
        i < j /\ s[i].part # "page" /\ s[j].part # "page" =>
            /\ s[i].resp <= s[j].resp
            /\ s[i].resp = s[j].resp => ~(s[i].part = "body" /\ s[j].part # "body")

(* Each of the n answers has its whole head in the stream, the last one p  *)
(* lines of it, and none has more than one file or error page.             *)
Complete(s, n, p) ==
    \A k \in 1..n : /\ Count(s, Heads(k)) = IF k = n THEN p ELSE HeadLen
                    /\ Count(s, Others(k)) <= BodyLen

StreamOK(c) ==
    LET n == Len(answers[c]) IN
    /\ Bounded(Stream(c), n)
    /\ Ordered(Stream(c))
    /\ Complete(Stream(c), n, Latest(c))
    /\ Answering(c) => n > 0 /\ Count(Stream(c), Others(n)) = 0

(* Only heads pass through the write buffer.                               *)
HeadsOnly ==
    \A c \in Conns : \A i \in DOMAIN wbuf[c] : wbuf[c][i].part \in {"head", "foreign"}

SInv ==
    /\ IInv
    /\ FileBehindHead
    /\ HeadsOnly
    /\ \A c \in Conns : StreamOK(c)

LEMMA ConcatParts ==
    ASSUME NEW s \in Seq(OutUnit), NEW t \in Seq(OutUnit)
    PROVE  /\ s \o t \in Seq(OutUnit) /\ Len(s \o t) = Len(s) + Len(t)
           /\ Len(s) \in Nat /\ Len(t) \in Nat
           /\ \A i \in DOMAIN (s \o t) :
                \/ i \in DOMAIN s /\ (s \o t)[i] = s[i]
                \/ i - Len(s) \in DOMAIN t /\ (s \o t)[i] = t[i - Len(s)]
                   /\ i > Len(s)
  OBVIOUS

LEMMA UnitParts ==
    ASSUME NEW s \in Seq(OutUnit), NEW i \in DOMAIN s
    PROVE  /\ i \in 1..Len(s) /\ s[i] \in OutUnit
           /\ s[i].resp \in Nat /\ s[i].part \in {"head", "body", "page", "foreign"}
  <1>1. i \in 1..Len(s) /\ s[i] \in OutUnit
    OBVIOUS
  <1> QED
    BY <1>1 DEF OutUnit

LEMMA BoundedConcat ==
    ASSUME NEW s \in Seq(OutUnit), NEW t \in Seq(OutUnit), NEW n \in Nat
    PROVE  Bounded(s \o t, n) <=> Bounded(s, n) /\ Bounded(t, n)
  <1>1. ASSUME Bounded(s, n), Bounded(t, n) PROVE Bounded(s \o t, n)
    BY <1>1, ConcatParts DEF Bounded
  <1>2. ASSUME Bounded(s \o t, n) PROVE Bounded(s, n) /\ Bounded(t, n)
    <2>1. \A i \in DOMAIN s : i \in DOMAIN (s \o t) /\ (s \o t)[i] = s[i]
      OBVIOUS
    <2>2. \A i \in DOMAIN t : Len(s) + i \in DOMAIN (s \o t) /\ (s \o t)[Len(s) + i] = t[i]
      OBVIOUS
    <2> QED
      BY <1>2, <2>1, <2>2 DEF Bounded
  <1> QED
    BY <1>1, <1>2

(* What belongs to later answers is not counted.                           *)
LEMMA BoundedCount ==
    ASSUME NEW s \in Seq(OutUnit), NEW n \in Nat, NEW k \in Nat, Bounded(s, n), n < k
    PROVE  Count(s, Heads(k)) = 0 /\ Count(s, Others(k)) = 0
  <1>1. \A i \in DOMAIN s : s[i] \notin Heads(k) /\ s[i] \notin Others(k)
    BY UnitParts DEF Bounded, Heads, Others
  <1>2. Places(s, Heads(k)) = {} /\ Places(s, Others(k)) = {}
    BY <1>1 DEF Places
  <1> QED
    BY <1>2, PlacesFinite

(* A new answer has no line of its head in the stream yet.                 *)
LEMMA BegunStream ==
    ASSUME NEW s \in Seq(OutUnit), NEW n \in Nat, Bounded(s, n), Complete(s, n, HeadLen)
    PROVE  /\ Bounded(s, n + 1)
           /\ Complete(s, n + 1, 0)
           /\ Count(s, Others(n + 1)) = 0
  <1>1. BodyLen \in Nat
    BY HttpAssumption
  <1>2. Count(s, Heads(n + 1)) = 0 /\ Count(s, Others(n + 1)) = 0
    BY BoundedCount
  <1>3. \A k \in 1..n + 1 : (k \in 1..n /\ k # n + 1) \/ k = n + 1
    OBVIOUS
  <1> QED
    BY <1>1, <1>2, <1>3 DEF Bounded, Complete

(* A line of the last head goes to the end.                                *)
LEMMA AppendedStream ==
    ASSUME NEW s \in Seq(OutUnit), NEW n \in Nat \ {0}, NEW p \in Nat,
           Bounded(s, n), Ordered(s), Complete(s, n, p), Count(s, Others(n)) = 0,
           NEW u \in Heads(n)
    PROVE  /\ Bounded(Append(s, u), n)
           /\ Ordered(Append(s, u))
           /\ Complete(Append(s, u), n, p + 1)
           /\ Count(Append(s, u), Others(n)) = 0
  <1> DEFINE h == <<u>>
             r == Append(s, u)
  <1>1. /\ HeadLen \in Nat /\ BodyLen \in Nat
        /\ u \in OutUnit /\ u.resp = n /\ u.part \in {"head", "foreign"}
    BY HttpAssumption DEF Heads
  <1>2. h \in Seq(OutUnit) /\ Len(h) = 1 /\ (\A i \in DOMAIN h : h[i] = u) /\ r = s \o h
    BY <1>1
  <1>3. \A k \in 1..n : (u \in Heads(k) <=> k = n) /\ u \notin Others(k)
    BY <1>1 DEF Heads, Others
  <1> HIDE DEF h, r
  <1>4. \A k \in 1..n : /\ Count(h, Heads(k)) = IF k = n THEN 1 ELSE 0
                        /\ Count(h, Others(k)) = 0
    <2> SUFFICES ASSUME NEW k \in 1..n
                 PROVE  /\ Count(h, Heads(k)) = IF k = n THEN 1 ELSE 0
                        /\ Count(h, Others(k)) = 0
      OBVIOUS
    <2>1. Count(h, Others(k)) = 0
      BY <1>2, <1>3, CountSame
    <2>2. k = n => Count(h, Heads(k)) = 1
      BY <1>2, <1>3, CountSame
    <2>3. k # n => Count(h, Heads(k)) = 0
      BY <1>2, <1>3, CountSame
    <2> QED
      BY <2>1, <2>2, <2>3
  <1>5. \A U : Count(r, U) = Count(s, U) + Count(h, U)
    BY <1>2, CountConcat
  <1>6. \A k \in 1..n : Count(s, Heads(k)) \in Nat /\ Count(s, Others(k)) \in Nat
    BY PlacesFinite
  <1>7. Complete(r, n, p + 1)
    <2> SUFFICES ASSUME NEW k \in 1..n
                 PROVE  /\ Count(r, Heads(k)) = IF k = n THEN p + 1 ELSE HeadLen
                        /\ Count(r, Others(k)) <= BodyLen
      BY DEF Complete
    <2>1. /\ Count(s, Heads(k)) = IF k = n THEN p ELSE HeadLen
          /\ Count(s, Others(k)) <= BodyLen
      BY DEF Complete
    <2>2. /\ Count(r, Heads(k)) = Count(s, Heads(k)) + (IF k = n THEN 1 ELSE 0)
          /\ Count(r, Others(k)) = Count(s, Others(k)) + 0
      BY <1>4, <1>5
    <2> QED
      BY ONLY <1>1, <1>6, <2>1, <2>2, p \in Nat, k \in 1..n
  <1>8. Count(r, Others(n)) = 0
    BY <1>4, <1>5
  <1>9. Bounded(r, n)
    <2>1. Bounded(h, n)
      BY <1>1, <1>2 DEF Bounded
    <2> QED
      BY <1>2, <2>1, BoundedConcat
  <1>10. Ordered(r)
    <2>1. \A i \in DOMAIN s : s[i].resp = n => s[i].part # "body"
      <3>1. Places(s, Others(n)) = {}
        BY PlacesFinite
      <3> QED
        BY <3>1, UnitParts DEF Places, Others
    <2>2. SUFFICES ASSUME NEW i \in DOMAIN r, NEW j \in DOMAIN r, i < j,
                          r[i].part # "page", r[j].part # "page"
                   PROVE  /\ r[i].resp <= r[j].resp
                          /\ r[i].resp = r[j].resp =>
                               ~(r[i].part = "body" /\ r[j].part # "body")
      BY DEF Ordered
    <2>3. i \in DOMAIN s /\ r[i] = s[i]
      BY <1>1, <2>2 DEF r
    <2>4. CASE j \in DOMAIN s /\ r[j] = s[j]
      BY <2>2, <2>3, <2>4 DEF Ordered
    <2>5. CASE r[j] = u
      BY <1>1, <2>1, <2>3, <2>5 DEF Bounded
    <2> QED
      BY <1>1, <2>4, <2>5 DEF r
  <1> QED
    BY <1>7, <1>8, <1>9, <1>10 DEF r

(* A file or an error page goes between what is sent and what is buffered. *)
LEMMA FilledStream ==
    ASSUME NEW s \in Seq(OutUnit), NEW t \in Seq(OutUnit), NEW x \in Seq(OutUnit),
           NEW n \in Nat, n > 0, NEW p \in Nat, Len(x) <= BodyLen,
           \A i \in DOMAIN x : /\ x[i].resp = n
                               /\ x[i].part = "page" \/ (x[i].part = "body" /\ t = <<>>),
           Bounded(s \o t, n), Ordered(s \o t), Complete(s \o t, n, p),
           Count(s \o t, Others(n)) = 0
    PROVE  /\ Bounded((s \o x) \o t, n)
           /\ Ordered((s \o x) \o t)
           /\ Complete((s \o x) \o t, n, p)
  <1> DEFINE r == (s \o x) \o t
             q == s \o t
  <1>1. /\ HeadLen \in Nat /\ BodyLen \in Nat
        /\ s \o x \in Seq(OutUnit) /\ q \in Seq(OutUnit) /\ r \in Seq(OutUnit)
    BY HttpAssumption
  <1>2. \A i \in DOMAIN x : /\ x[i] \in OutUnit /\ x[i].part \in {"body", "page"}
                            /\ x[i].part = "page" \/ t = <<>>
    BY UnitParts
  <1>3. \A U : Count(r, U) = Count(q, U) + Count(x, U)
    <2>1. ASSUME NEW U PROVE Count(r, U) = Count(q, U) + Count(x, U)
      <3>1. /\ Count(q, U) = Count(s, U) + Count(t, U)
            /\ Count(s \o x, U) = Count(s, U) + Count(x, U)
        BY CountConcat
      <3>2. Count(r, U) = Count(s \o x, U) + Count(t, U)
        <4> DEFINE sx == s \o x
        <4>1. sx \in Seq(OutUnit)
          BY <1>1
        <4> HIDE DEF sx
        <4>2. Count(sx \o t, U) = Count(sx, U) + Count(t, U)
          BY <4>1, CountConcat
        <4> QED
          BY <4>2 DEF sx
      <3>3. Count(s, U) \in Nat /\ Count(t, U) \in Nat /\ Count(x, U) \in Nat
        BY PlacesFinite
      <3> HIDE DEF q, r
      <3> QED
        BY <3>1, <3>2, <3>3
    <2> QED
      BY <2>1
  <1>4. \A U : Count(x, U) \in Nat /\ Count(x, U) <= BodyLen
    <2>1. Len(x) \in Nat
      OBVIOUS
    <2> QED
      BY <1>1, <2>1, PlacesFinite
  <1>5. \A k \in 1..n : /\ Count(x, Heads(k)) = 0
                        /\ k # n => Count(x, Others(k)) = 0
    <2>1. \A k \in 1..n : /\ Places(x, Heads(k)) = {}
                          /\ k # n => Places(x, Others(k)) = {}
      BY <1>2 DEF Places, Heads, Others
    <2> QED
      BY <2>1, PlacesFinite
  <1>6. \A k \in 1..n : Count(q, Heads(k)) \in Nat /\ Count(q, Others(k)) \in Nat
    BY <1>1, PlacesFinite
  <1>7. Complete(r, n, p)
    <2>1. ASSUME NEW k \in 1..n
          PROVE  Count(r, Heads(k)) = (IF k = n THEN p ELSE HeadLen) /\ Count(r, Others(k)) <= BodyLen
      <3>1. Count(q, Heads(k)) = (IF k = n THEN p ELSE HeadLen) /\ Count(q, Others(k)) <= BodyLen
        BY DEF Complete
      <3>2. /\ Count(r, Heads(k)) = Count(q, Heads(k)) + Count(x, Heads(k))
            /\ Count(r, Others(k)) = Count(q, Others(k)) + Count(x, Others(k))
        BY <1>3
      <3>3. Count(x, Heads(k)) = 0 /\ Count(x, Others(k)) \in Nat
            /\ Count(x, Others(k)) <= BodyLen
        BY <1>4, <1>5
      <3>4. k = n => Count(q, Others(k)) = 0
        OBVIOUS
      <3>5. k # n => Count(x, Others(k)) = 0
        BY <1>5
      <3> HIDE DEF q, r
      <3> QED
        BY <1>1, <1>6, <3>1, <3>2, <3>3, <3>4, <3>5
    <2> QED
      BY <2>1 DEF Complete
  <1>8. Bounded(r, n)
    <2>1. Bounded(x, n)
      BY DEF Bounded
    <2> QED
      BY <1>1, <2>1, BoundedConcat
  <1>9. CASE t = <<>>
    <2> DEFINE sx == s \o x
    <2>1. r = sx /\ q = s
      BY <1>1, <1>9
    <2>2. Ordered(sx)
      <3>1. SUFFICES ASSUME NEW i \in DOMAIN sx, NEW j \in DOMAIN sx, i < j,
                            sx[i].part # "page", sx[j].part # "page"
                     PROVE  /\ sx[i].resp <= sx[j].resp
                            /\ sx[i].resp = sx[j].resp =>
                                 ~(sx[i].part = "body" /\ sx[j].part # "body")
        BY DEF Ordered
      <3>2. Ordered(s)
        BY <2>1
      <3>3. CASE j \in DOMAIN s /\ sx[j] = s[j]
        <4>1. i \in DOMAIN s /\ sx[i] = s[i]
          BY <3>1, <3>3
        <4> HIDE DEF sx
        <4> QED
          BY <3>1, <3>2, <3>3, <4>1 DEF Ordered
      <3>4. CASE sx[j].resp = n /\ sx[j].part \in {"body", "page"}
        <4>1. sx[i].resp \in 1..n
          BY <1>8, <2>1 DEF Bounded
        <4>2. sx[j].part = "body"
          BY <3>1, <3>4
        <4> HIDE DEF sx
        <4> QED
          BY <3>4, <4>1, <4>2
      <3> QED
        BY <1>2, <3>3, <3>4, ConcatParts
    <2> QED
      BY <1>7, <1>8, <2>1, <2>2
  <1>10. CASE t # <<>>
    <2> DEFINE at(i) == IF i \in DOMAIN s THEN i ELSE i - Len(x)
    <2>1. \A i \in DOMAIN x : x[i].part = "page"
      BY <1>2, <1>10
    <2>2. ASSUME NEW i \in DOMAIN r, r[i].part # "page"
          PROVE  at(i) \in DOMAIN q /\ q[at(i)] = r[i]
      <3>1. CASE i \in DOMAIN s
        BY <3>1
      <3>2. CASE i \notin DOMAIN s
        <4>1. i > Len(s) + Len(x)
          BY <2>1, <2>2, <3>2
        <4> QED
          BY <3>2, <4>1
      <3> QED
        BY <3>1, <3>2
    <2>3. \A i, j \in DOMAIN r : i < j /\ r[i].part # "page" /\ r[j].part # "page"
            => at(i) < at(j)
      <3>1. ASSUME NEW i \in DOMAIN r, NEW j \in DOMAIN r, i < j, r[j].part # "page"
            PROVE  at(i) < at(j) \/ i \in Len(s) + 1..Len(s) + Len(x)
        <4>1. j \notin Len(s) + 1..Len(s) + Len(x)
          BY <2>1, <3>1
        <4> QED
          BY <3>1, <4>1
      <3>2. \A i \in Len(s) + 1..Len(s) + Len(x) : r[i].part = "page"
        BY <2>1
      <3> QED
        BY <3>1, <3>2
    <2>4. Ordered(r)
      <3>1. Ordered(q)
        OBVIOUS
      <3> HIDE DEF r, q, at
      <3>2. SUFFICES ASSUME NEW i \in DOMAIN r, NEW j \in DOMAIN r, i < j,
                            r[i].part # "page", r[j].part # "page"
                     PROVE  /\ r[i].resp <= r[j].resp
                            /\ r[i].resp = r[j].resp =>
                                 ~(r[i].part = "body" /\ r[j].part # "body")
        BY DEF Ordered
      <3>3. /\ at(i) \in DOMAIN q /\ q[at(i)] = r[i]
            /\ at(j) \in DOMAIN q /\ q[at(j)] = r[j]
            /\ at(i) < at(j)
        BY <2>2, <2>3, <3>2
      <3> QED
        BY <3>1, <3>2, <3>3 DEF Ordered
    <2> QED
      BY <1>7, <1>8, <2>4
  <1> QED
    BY <1>9, <1>10

(* A send releases units from the front of the write buffer and puts none  *)
(* in.                                                                     *)
LEMMA SendKeepsHeads ==
    ASSUME ConnTypeOK, HeadsOnly, NEW c \in Conns, NEW n \in 0..Len(wbuf[c]),
           SendAndRelease(c, n)
    PROVE  HeadsOnly' /\ (n = Len(wbuf[c]) => wbuf'[c] = <<>>)
  <1> DEFINE w == wbuf[c]
             rest == SubSeq(w, n + 1, Len(w))
  <1>1. w \in Seq(OutUnit) /\ Len(w) \in Nat
    BY DEF ConnTypeOK
  <1>2. /\ n = Len(w) => rest = <<>>
        /\ \A i \in DOMAIN rest : n + i \in DOMAIN w /\ rest[i] = w[n + i]
    BY <1>1
  <1>3. wbuf' = [wbuf EXCEPT ![c] = rest]
    BY DEF SendAndRelease
  <1> HIDE DEF rest
  <1>4. wbuf'[c] = rest /\ \A d \in Conns \ {c} : wbuf'[d] = wbuf[d]
    BY <1>3 DEF ConnTypeOK
  <1>5. \A i \in DOMAIN rest : rest[i].part \in {"head", "foreign"}
    BY <1>2 DEF HeadsOnly
  <1> QED
    BY <1>2, <1>4, <1>5 DEF HeadsOnly

LEMMA HeadsStep ==
    ASSUME IInv, FileBehindHead, HeadsOnly, [Next]_vars
    PROVE  FileBehindHead' /\ HeadsOnly'
  <1>1. /\ ConnTypeOK /\ cur \in Conns
        /\ wbuf[cur] \in Seq(OutUnit) /\ Len(wbuf[cur]) \in Nat
        /\ Len(answers[cur]) \in Nat
    BY DEF IInv, TypeOK, ConnTypeOK
  <1>2. Accepted(cur, Len(wbuf[cur])) \in 0..Len(wbuf[cur])
    BY <1>1, AcceptedBound
  <1>3. CASE /\ UNCHANGED wbuf
             /\ pc' = "sendfile" => UNCHANGED <<pc, cur>>
    BY <1>3 DEF FileBehindHead, HeadsOnly
  <1>4. CASE HandleWrite
    <2>1. HeadsOnly'
      <3>1. CASE UNCHANGED <<connVars, sockVars>>
        BY <3>1 DEF HeadsOnly, connVars
      <3>2. CASE SendAndRelease(cur, Accepted(cur, Len(wbuf[cur])))
        BY <1>1, <1>2, <3>2, SendKeepsHeads
      <3> QED
        BY <1>4, <3>1, <3>2 DEF HandleWrite, WritableCallback
    <2> QED
      BY <1>4, <2>1 DEF HandleWrite, FileBehindHead
  <1>5. CASE AppendHead
    <2> DEFINE unit == [resp |-> Len(answers[cur]), part |-> "head"]
    <2>1. unit \in OutUnit /\ unit.part = "head"
      BY <1>1 DEF OutUnit
    <2>2. PushData(cur, unit) /\ (pc' = "sendfile" => FALSE)
      BY <1>5 DEF AppendHead, Serial
    <2> HIDE DEF unit
    <2>3. PICK u \in OutUnit : /\ u.part \in {unit.part, "foreign"}
                               /\ wbuf' = [wbuf EXCEPT ![cur] = Append(@, u)]
      BY <1>1, <2>1, <2>2, PushType
    <2>4. \A i \in DOMAIN Append(wbuf[cur], u) :
            Append(wbuf[cur], u)[i].part \in {"head", "foreign"}
      BY <1>1, <2>1, <2>3 DEF HeadsOnly
    <2>5. HeadsOnly'
      BY <1>1, <2>3, <2>4 DEF HeadsOnly, ConnTypeOK
    <2> QED
      BY <2>2, <2>5 DEF FileBehindHead
  <1>6. CASE SendHead
    <2> DEFINE n == Accepted(cur, Len(wbuf[cur]))
    <2>1. SendAndRelease(cur, n) /\ (pc' = "sendfile" => n = Len(wbuf[cur])) /\ cur' = cur
      BY <1>6 DEF SendHead, SendBuffer
    <2>2. HeadsOnly' /\ (n = Len(wbuf[cur]) => wbuf'[cur] = <<>>)
      <3> HIDE DEF n
      <3> QED
        BY <1>1, <1>2, <2>1, SendKeepsHeads DEF n
    <2> QED
      BY <2>1, <2>2 DEF FileBehindHead
  <1>7. CASE \/ SendFile \/ SendPage \/ HandleError \/ ReadData \/ ReadEnd \/ Finish
             \/ HandleRequest
    BY <1>3, <1>7 DEF HandleRequest, SendFile, SendPage, HandleError, ErrorHandler, ReadData, ReadBuffer,
       ReadEnd, Finish, AfterRead, connVars
  <1>8. CASE \E d \in Conns : Accept(d) \/ Dispatch(d) \/ Environment(d)
    BY <1>3, <1>8 DEF Accept, Dispatch, Environment, ClientAsk, ClientRest,
       ClientShutdown, ClientReset, Drain, connVars, loopVars
  <1>9. CASE UNCHANGED vars
    BY <1>3, <1>9 DEF vars, connVars, loopVars
  <1> QED
    BY <1>4, <1>5, <1>6, <1>7, <1>8, <1>9 DEF Next, Handler

LEMMA StreamOKStep ==
    ASSUME IInv, NEW c \in Conns, StreamOK(c),
           Kept(c) \/ Begun(c) \/ Appended(c) \/ Filled(c)
    PROVE  StreamOK(c)'
  <1> DEFINE n == Len(answers[c])
             p == Latest(c)
             s == Stream(c)
  <1>1. /\ n \in Nat /\ wire[c] \in Seq(OutUnit) /\ wbuf[c] \in Seq(OutUnit)
        /\ s \in Seq(OutUnit) /\ p \in Nat
    BY HttpAssumption DEF IInv, TypeOK, ConnTypeOK, Stream, Latest
  <1>2. /\ Bounded(s, n) /\ Ordered(s) /\ Complete(s, n, p)
        /\ Answering(c) => n > 0 /\ Count(s, Others(n)) = 0
    BY DEF StreamOK
  <1>3. CASE Kept(c)
    BY <1>2, <1>3 DEF Kept, StreamOK
  <1>4. CASE Begun(c)
    <2>1. n + 1 > 0
      BY <1>1
    <2>2. s' = s /\ Len(answers'[c]) = n + 1 /\ p = HeadLen /\ p' = 0
      BY <1>4 DEF Begun
    <2> HIDE DEF n, p, s
    <2>3. /\ Bounded(s, n + 1) /\ Complete(s, n + 1, 0) /\ Count(s, Others(n + 1)) = 0
      BY <1>1, <1>2, <2>2, BegunStream
    <2> QED
      BY <1>2, <2>1, <2>2, <2>3 DEF StreamOK, s, p
  <1>5. CASE Appended(c)
    <2>1. PICK u \in Heads(n) : s' = Append(s, u)
      BY <1>5 DEF Appended
    <2>2. answers'[c] = answers[c] /\ p' = p + 1 /\ Answering(c)
      BY <1>5 DEF Appended
    <2>3. n \in Nat \ {0} /\ Count(s, Others(n)) = 0
      BY <1>1, <1>2, <2>2
    <2> HIDE DEF n, p, s
    <2>4. /\ Bounded(s', n) /\ Ordered(s') /\ Complete(s', n, p')
          /\ Count(s', Others(n)) = 0
      BY <1>1, <1>2, <2>1, <2>2, <2>3, AppendedStream
    <2> QED
      BY <1>1, <2>2, <2>3, <2>4 DEF StreamOK, s, p, n
  <1>6. CASE Filled(c)
    <2>1. PICK x \in Seq(OutUnit) : Follows(c, x) /\ Stream(c)' = (wire[c] \o x) \o wbuf[c]
      BY <1>6 DEF Filled
    <2>2. answers'[c] = answers[c] /\ p' = p /\ Answering(c) /\ ~Answering(c)'
      BY <1>6 DEF Filled
    <2> HIDE DEF p
    <2>3. /\ Bounded(Stream(c)', n) /\ Ordered(Stream(c)') /\ Complete(Stream(c)', n, p)
      BY <1>1, <1>2, <2>1, <2>2, FilledStream DEF Follows, Stream
    <2> QED
      BY <2>2, <2>3 DEF StreamOK, p
  <1> QED
    BY <1>3, <1>4, <1>5, <1>6

LEMMA InitSInv == Init => SInv
  <1> SUFFICES ASSUME Init PROVE SInv
    OBVIOUS
  <1>1. \A c \in Conns : Stream(c) = <<>> /\ Len(answers[c]) = 0 /\ ~Answering(c)
    <2>1. <<>> \o <<>> = <<>> /\ Len(<<>>) = 0
      OBVIOUS
    <2>2. \A c \in Conns : wire[c] = <<>> /\ wbuf[c] = <<>> /\ answers[c] = <<>>
      BY DEF Init, ConnInit
    <2>3. \A c \in Conns : ~Answering(c)
      BY DEF Init, Answering
    <2>4. \A c \in Conns : Stream(c) = <<>> /\ Len(answers[c]) = 0
      BY <2>1, <2>2, Zenon DEF Stream
    <2> QED
      BY <2>3, <2>4
  <1>2. Bounded(<<>>, 0) /\ Ordered(<<>>) /\ \A p : Complete(<<>>, 0, p)
    BY DEF Bounded, Ordered, Complete
  <1>3. \A c \in Conns : StreamOK(c)
    BY <1>1, <1>2 DEF StreamOK
  <1>4. FileBehindHead /\ HeadsOnly
    BY DEF Init, ConnInit, FileBehindHead, HeadsOnly
  <1> QED
    BY <1>3, <1>4, InitIInv DEF SInv

LEMMA SInvStep ==
    ASSUME SInv, [Next]_vars
    PROVE  SInv'
  <1>1. IInv /\ FileBehindHead /\ HeadsOnly
    BY DEF SInv
  <1>2. \A c \in Conns : StreamOK(c)'
    <2>1. ASSUME NEW c \in Conns PROVE StreamOK(c)'
      BY <1>1, StreamStep, StreamOKStep DEF SInv
    <2> QED
      BY <2>1
  <1> QED
    BY <1>1, <1>2, Consecution, HeadsStep DEF SInv

-----------------------------------------------------------------------------
(* The theorems about the streams.                                         *)

THEOREM StreamInvariance == Spec => []SInv
  <1>1. SInv /\ [Next]_vars => SInv'
    BY SInvStep
  <1> QED
    BY InitSInv, <1>1, PTL DEF Spec

(* Whatever the kernel takes of it at a time, every line of the head of an *)
(* answer that has been pushed is in the stream exactly once, as long as   *)
(* nothing pushed behind the block was changed there (connection.c:97-129, *)
(* 190-209).                                                               *)
THEOREM HeadsConservedCorrect == Spec => []HeadsConserved
  <1>1. SInv => HeadsConserved
    <2>1. SUFFICES ASSUME SInv, NEW c \in Conns, Intact(c), NEW k \in DOMAIN answers[c]
                   PROVE  Cardinality({i \in DOMAIN Stream(c) :
                              Stream(c)[i].resp = k /\ Stream(c)[i].part = "head"})
                            = Written(c, k)
      BY DEF HeadsConserved
    <2>2. Stream(c) \in Seq(OutUnit) /\ k \in 1..Len(answers[c])
      <3>1. ConnTypeOK /\ answers \in [Conns -> Seq([req : Nat, status : Statuses])]
        BY <2>1 DEF SInv, IInv, TypeOK
      <3>2. wire[c] \in Seq(OutUnit) /\ wbuf[c] \in Seq(OutUnit)
        BY ONLY <2>1, <3>1 DEF ConnTypeOK
      <3>3. k \in 1..Len(answers[c])
        BY ONLY <2>1, <3>1
      <3> QED
        BY ONLY <3>2, <3>3 DEF Stream
    <2>3. Count(Stream(c), Heads(k)) = Written(c, k)
      <3>1. Complete(Stream(c), Len(answers[c]), Latest(c))
        BY <2>1 DEF SInv, StreamOK
      <3>2. Written(c, k) = IF k = Len(answers[c]) THEN Latest(c) ELSE HeadLen
        BY DEF Written, Latest, Writing, Serial
      <3> QED
        BY <2>2, <3>1, <3>2 DEF Complete
    <2>4. Places(Stream(c), Heads(k)) =
            {i \in DOMAIN Stream(c) : Stream(c)[i].resp = k /\ Stream(c)[i].part = "head"}
      BY <2>1, <2>2, UnitParts DEF Places, Heads, Intact
    <2> QED
      BY <2>3, <2>4 DEF Count
  <1> QED
    BY <1>1, StreamInvariance, PTL

(* Files and heads never overtake one another (http_request.c:379).        *)
THEOREM StreamInOrderCorrect == Spec => []StreamInOrder
  <1>1. SInv => StreamInOrder
    BY DEF SInv, StreamOK, Ordered, StreamInOrder
  <1> QED
    BY <1>1, StreamInvariance, PTL

-----------------------------------------------------------------------------
(* Clients that await their answers and send their requests whole.         *)

Pair(n, kind) == <<[req |-> n, kind |-> kind, part |-> 1], [req |-> n, kind |-> kind, part |-> 2]>>

(* Every request but the last is answered, as it was asked; and if the     *)
(* last is still to be answered it is whole in one place, with nothing to  *)
(* send before its answer.                                                 *)
Turn(c) ==
    LET n == Len(asked[c])
        m == Len(answers[c])
    IN
    /\ unsent[c] = <<>>
    /\ \A k \in 1..m :
          /\ answers[c][k].req = k
          /\ answers[c][k].status = IF asked[c][k] = "fail" THEN "fail" ELSE "ok"
    /\ \/ m = n /\ inq[c] = <<>> /\ rbuf[c] = <<>>
       \/ /\ m = n - 1
          /\ \/ inq[c] = Pair(n, asked[c][n]) /\ rbuf[c] = <<>>
             \/ rbuf[c] = Pair(n, asked[c][n]) /\ inq[c] = <<>>
          /\ wbuf[c] = <<>>
          /\ room[c] = SndBuf
          /\ Answering(c) => BodyLen = 0
          /\ ~Heading(c)

(* The units lie within their block, an empty buffer starts at its front,  *)
(* and so does one that a head is being written to.                        *)
InBlock(c) ==
    /\ block[c].start + Len(wbuf[c]) <= block[c].cap
    /\ wbuf[c] = <<>> \/ Heading(c) => block[c].start = 0

TInv ==
    /\ SInv
    /\ \A c \in Conns : Turn(c) /\ InBlock(c)

(* What a client counts when it asks whether an answer is complete.        *)
LEMMA ServedCount ==
    ASSUME ConnTypeOK, NEW c \in Conns, NEW k \in Nat, Served(c, k)
    PROVE  Count(wire[c], Heads(k)) + Count(wire[c], Others(k)) = HeadLen + BodyLen
  <1>1. wire[c] \in Seq(OutUnit)
    BY DEF ConnTypeOK
  <1>2. Places(wire[c], Heads(k) \cup Others(k)) = {i \in DOMAIN wire[c] : wire[c][i].resp = k}
    BY <1>1, UnitParts DEF Places, Heads, Others
  <1>3. Heads(k) \cap Others(k) = {}
    BY DEF Heads, Others
  <1>4. Count(wire[c], Heads(k) \cup Others(k))
          = Count(wire[c], Heads(k)) + Count(wire[c], Others(k))
    BY <1>1, <1>3, CountUnion
  <1> QED
    BY <1>2, <1>4 DEF Served, Count

(* A client that may ask has been answered in full, and nothing is left to *)
(* send to it.                                                             *)
LEMMA AskAfterAnswers ==
    ASSUME AwaitResponse, SInv, NEW c \in Conns, Turn(c), MayAsk(c)
    PROVE  /\ Len(answers[c]) = Len(asked[c])
           /\ wbuf[c] = <<>>
           /\ Answering(c) => BodyLen = 0
           /\ ~Heading(c)
  <1> DEFINE n == Len(asked[c])
             m == Len(answers[c])
             H(s, k) == Count(s, Heads(k))
             O(s, k) == Count(s, Others(k))
  <1>1. /\ n \in Nat /\ m \in Nat /\ ConnTypeOK
        /\ wire[c] \in Seq(OutUnit) /\ wbuf[c] \in Seq(OutUnit)
        /\ HeadLen \in Nat /\ HeadLen > 0 /\ BodyLen \in Nat
        /\ Latest(c) \in 0..HeadLen
    BY HttpAssumption DEF SInv, IInv, TypeOK, ConnTypeOK, Latest
  <1>2. /\ Bounded(wire[c] \o wbuf[c], m)
        /\ Complete(wire[c] \o wbuf[c], m, Latest(c))
        /\ Answering(c) => m > 0 /\ O(wire[c] \o wbuf[c], m) = 0
    BY DEF SInv, StreamOK, Stream
  <1>3. Bounded(wire[c], m) /\ Bounded(wbuf[c], m)
    BY <1>1, <1>2, BoundedConcat
  <1>4. \A k \in 1..n : H(wire[c], k) + O(wire[c], k) = HeadLen + BodyLen
    <2>1. \A k \in 1..n : Served(c, k)
      BY <1>1 DEF MayAsk, SInv, IInv, TypeOK
    <2> QED
      BY <1>1, <2>1, ServedCount
  <1>5. m = n
    <2>1. SUFFICES ASSUME m = n - 1 PROVE FALSE
      BY DEF Turn
    <2>2. n \in 1..n /\ m < n
      BY <1>1, <2>1
    <2>3. H(wire[c], n) = 0 /\ O(wire[c], n) = 0
      BY <1>1, <1>3, <2>2, BoundedCount
    <2> HIDE DEF H, O, n
    <2> QED
      BY <1>1, <1>4, <2>2, <2>3
  <1>6. ASSUME NEW k \in 1..m
        PROVE  /\ H(wire[c], k) + H(wbuf[c], k) = IF k = m THEN Latest(c) ELSE HeadLen
               /\ H(wire[c], k) + H(wbuf[c], k) <= HeadLen
               /\ O(wire[c], k) + O(wbuf[c], k) <= BodyLen
               /\ H(wire[c], k) \in Nat /\ H(wbuf[c], k) \in Nat
               /\ O(wire[c], k) \in Nat /\ O(wbuf[c], k) \in Nat
               /\ H(wire[c], k) + O(wire[c], k) = HeadLen + BodyLen
    <2>1. /\ Count(wire[c] \o wbuf[c], Heads(k)) = IF k = m THEN Latest(c) ELSE HeadLen
          /\ Count(wire[c] \o wbuf[c], Others(k)) <= BodyLen
      BY <1>2, <1>6 DEF Complete
    <2>2. /\ Count(wire[c] \o wbuf[c], Heads(k)) = H(wire[c], k) + H(wbuf[c], k)
          /\ Count(wire[c] \o wbuf[c], Others(k)) = O(wire[c], k) + O(wbuf[c], k)
      BY <1>1, CountConcat
    <2>3. /\ H(wire[c], k) \in Nat /\ H(wbuf[c], k) \in Nat
          /\ O(wire[c], k) \in Nat /\ O(wbuf[c], k) \in Nat
      BY <1>1, PlacesFinite
    <2>4. H(wire[c], k) + O(wire[c], k) = HeadLen + BodyLen
      BY <1>4, <1>5, <1>6
    <2>5. (IF k = m THEN Latest(c) ELSE HeadLen) <= HeadLen
      BY <1>1
    <2> HIDE DEF H, O
    <2> QED
      BY ONLY <2>1, <2>2, <2>3, <2>4, <2>5
  <1>7. wbuf[c] = <<>>
    <2>1. SUFFICES ASSUME wbuf[c] # <<>> PROVE FALSE
      OBVIOUS
    <2>2. 1 \in DOMAIN wbuf[c]
      BY <1>1, <2>1
    <2> DEFINE u == wbuf[c][1]
    <2>3. u \in OutUnit /\ u.resp \in 1..m /\ u \in Heads(u.resp)
      BY <1>1, <1>3, <2>2, UnitParts DEF SInv, HeadsOnly, Bounded, Heads
    <2>4. H(wbuf[c], u.resp) # 0
      <3>1. 1 \in Places(wbuf[c], Heads(u.resp))
        BY <2>2, <2>3 DEF Places
      <3> QED
        BY <1>1, <3>1, PlacesFinite
    <2> DEFINE k == u.resp
    <2>5. k \in 1..m /\ H(wbuf[c], k) # 0
      BY <2>3, <2>4
    <2> HIDE DEF H, O, m, k
    <2> QED
      BY <1>1, <1>6, <2>5
  <1>8. Answering(c) => BodyLen = 0
    <2>1. SUFFICES ASSUME Answering(c) PROVE BodyLen = 0
      OBVIOUS
    <2>2. m \in 1..m
      BY <1>1, <1>2, <2>1
    <2>3. O(wire[c], m) + O(wbuf[c], m) = 0
      BY <1>1, <1>2, <2>1, CountConcat
    <2> HIDE DEF H, O, m
    <2> QED
      BY <1>1, <1>6, <2>2, <2>3
  <1>9. ~Heading(c)
    <2>1. SUFFICES ASSUME Heading(c) PROVE FALSE
      OBVIOUS
    <2>2. Answering(c) /\ Latest(c) = pushed /\ pushed < HeadLen
      BY <2>1 DEF Heading, Answering, Latest, Writing, SInv, IInv, Handling
    <2>3. m \in 1..m
      BY <1>1, <1>2, <2>2
    <2>4. /\ H(wire[c], m) + H(wbuf[c], m) = pushed
          /\ O(wire[c], m) + O(wbuf[c], m) <= BodyLen
          /\ H(wire[c], m) \in Nat /\ H(wbuf[c], m) \in Nat
          /\ O(wire[c], m) \in Nat /\ O(wbuf[c], m) \in Nat
          /\ H(wire[c], m) + O(wire[c], m) = HeadLen + BodyLen
      <3> HIDE DEF H, O, m
      <3> QED
        BY <1>6, <2>2, <2>3
    <2>5. pushed \in Nat
      BY <1>1, <2>2
    <2> HIDE DEF H, O, m
    <2> QED
      BY ONLY <1>1, <2>2, <2>4, <2>5
  <1> QED
    BY <1>5, <1>7, <1>8, <1>9

(* A step that neither asks, reads nor answers on c.                       *)
Elsewhere(c) ==
    /\ asked'[c] = asked[c] /\ answers'[c] = answers[c] /\ unsent'[c] = unsent[c]
    /\ inq'[c] = inq[c] /\ rbuf'[c] = rbuf[c]
    /\ wbuf[c] = <<>> => wbuf'[c] = <<>>
    /\ wbuf[c] = <<>> /\ room[c] = SndBuf /\ (Answering(c) => BodyLen = 0)
         => room'[c] = SndBuf
    /\ Answering(c)' => Answering(c)
    /\ Heading(c)' => Heading(c)

LEMMA ElsewhereTurn ==
    ASSUME NEW c \in Conns, Turn(c), Elsewhere(c)
    PROVE  Turn(c)'
  BY DEF Turn, Elsewhere, Pair

(* A send from an empty write buffer changes nothing.                      *)
LEMMA SendElsewhere ==
    ASSUME ConnTypeOK, NEW c \in Conns, NEW n \in 0..Len(wbuf[c]), SendAndRelease(c, n),
           UNCHANGED rbuf, NEW d \in Conns
    PROVE  /\ inq'[d] = inq[d] /\ rbuf'[d] = rbuf[d]
           /\ wbuf[d] = <<>> => wbuf'[d] = <<>> /\ room'[d] = room[d]
  <1>1. wbuf[c] \in Seq(OutUnit) /\ Len(wbuf[c]) \in Nat /\ room[c] \in 0..SndBuf
    BY DEF ConnTypeOK
  <1>2. CASE c = d /\ wbuf[c] = <<>>
    <2>1. n = 0 /\ SubSeq(wbuf[c], 1, n) = <<>> /\ SubSeq(wbuf[c], n + 1, Len(wbuf[c])) = <<>>
      BY <1>1, <1>2
    <2>2. wbuf'[c] = <<>> /\ room'[c] = room[c] - Len(<<>>)
      BY <2>1 DEF SendAndRelease, Transmit, ConnTypeOK
    <2>3. room'[c] = room[c]
      BY <1>1, <2>2, SndBufAssumption
    <2> QED
      BY <1>2, <2>2, <2>3 DEF SendAndRelease, Transmit
  <1>3. CASE c # d \/ wbuf[c] # <<>>
    BY <1>3 DEF SendAndRelease, Transmit, ConnTypeOK
  <1> QED
    BY <1>2, <1>3

LEMMA HandlerTurn ==
    ASSUME SInv, Handler, ~HandleRequest, NEW c \in Conns, Turn(c)
    PROVE  Turn(c)'
  <1>1. /\ ConnTypeOK /\ cur \in Conns /\ BodyLen \in Nat /\ SndBuf \in Nat
        /\ wbuf[cur] \in Seq(OutUnit) /\ Len(wbuf[cur]) \in Nat
        /\ room[cur] \in 0..SndBuf
        /\ inq[c] \in Seq(InUnit) /\ rbuf[c] \in Seq(InUnit)
    <2>1. ConnTypeOK /\ cur \in Conns
      BY Zenon DEF SInv, IInv, TypeOK
    <2>2. wbuf[cur] \in Seq(OutUnit) /\ room[cur] \in 0..SndBuf
      BY ONLY <2>1 DEF ConnTypeOK
    <2>3. inq[c] \in Seq(InUnit) /\ rbuf[c] \in Seq(InUnit)
      BY ONLY <2>1, c \in Conns DEF ConnTypeOK
    <2>4. Len(wbuf[cur]) \in Nat
      BY ONLY <2>2
    <2> QED
      BY ONLY <2>1, <2>2, <2>3, <2>4, HttpAssumption, SndBufAssumption
  <1>2. Accepted(cur, Len(wbuf[cur])) \in 0..Len(wbuf[cur])
    BY <1>1, AcceptedBound
  <1>3. CASE HandleError \/ ReadEnd \/ Finish
    BY <1>3, ElsewhereTurn DEF HandleError, ErrorHandler, ReadEnd, Finish, AfterRead,
       Elsewhere, Answering, Heading, sockVars, clientVars
  <1>4. CASE HandleWrite
    <2>1. CASE UNCHANGED <<connVars, sockVars>>
      BY <1>4, <2>1, ElsewhereTurn DEF HandleWrite, Elsewhere, Answering, Heading, connVars,
         sockVars, clientVars
    <2>2. CASE SendAndRelease(cur, Accepted(cur, Len(wbuf[cur]))) /\ UNCHANGED rbuf
      BY <1>1, <1>2, <1>4, <2>2, SendElsewhere, ElsewhereTurn DEF HandleWrite, Elsewhere,
         Answering, Heading, clientVars
    <2> QED
      BY <1>4, <2>1, <2>2 DEF HandleWrite, WritableCallback
  <1>5. CASE SendHead
    <2>1. SendAndRelease(cur, Accepted(cur, Len(wbuf[cur]))) /\ UNCHANGED rbuf
      BY <1>5 DEF SendHead, SendBuffer
    <2> QED
      BY <1>1, <1>2, <1>5, <2>1, SendElsewhere, ElsewhereTurn DEF SendHead, Elsewhere,
         Answering, Heading, clientVars
  <1>6. ASSUME NEW x \in Seq(OutUnit), Transmit(cur, x), Len(x) = Accepted(cur, BodyLen),
               pc \in {"sendfile", "page"}, pc' = "finish",
               UNCHANGED <<connVars, cur, answers, clientVars>>
        PROVE  Turn(c)'
    <2>1. CASE c = cur
      <3>1. BodyLen = 0 => Len(x) = 0
        BY <1>1, <1>6, AcceptedBound
      <3>2. room[c] = SndBuf /\ BodyLen = 0 => room'[c] = SndBuf
        BY <1>1, <1>6, <2>1, <3>1 DEF Transmit, ConnTypeOK
      <3>3. Answering(c) /\ ~Answering(c)' /\ ~Heading(c)'
        BY <1>6, <2>1 DEF Answering, Heading
      <3> QED
        BY <1>6, <3>2, <3>3, ElsewhereTurn DEF Elsewhere, Transmit, connVars, clientVars
    <2>2. CASE c # cur
      BY <1>1, <1>6, <2>2, ElsewhereTurn DEF Elsewhere, Transmit, connVars, clientVars,
         Answering, Heading, ConnTypeOK
    <2> QED
      BY <2>1, <2>2
  <1>7. CASE SendFile \/ SendPage
    <2> DEFINE k == Len(answers[cur])
               n == Accepted(cur, BodyLen)
    <2>1. k \in Nat /\ n \in Nat
      <3>1. answers[cur] \in Seq([req : Nat, status : Statuses])
        BY <1>1 DEF SInv, IInv, TypeOK
      <3>2. n \in 0..BodyLen
        BY <1>1, AcceptedBound
      <3> QED
        BY <3>1, <3>2
    <2>2. /\ BodyOf(k, n) \in Seq(OutUnit) /\ Len(BodyOf(k, n)) = n
          /\ PageOf(k, n) \in Seq(OutUnit) /\ Len(PageOf(k, n)) = n
      <3> HIDE DEF k, n
      <3> QED
        BY <2>1, OutSeqs
    <2> QED
      BY <1>6, <1>7, <2>2 DEF SendFile, SendPage, Serial
  <1>8. CASE ReadData
    <2>1. CASE c = cur
      <3> DEFINE n == Len(asked[c])
      <3>1. inq[c] = Pair(n, asked[c][n]) /\ rbuf[c] = <<>>
        BY <1>8, <2>1 DEF ReadData, ReadBuffer, Turn
      <3>2. inq'[c] = <<>> /\ rbuf'[c] = inq[c]
        BY <1>1, <1>8, <2>1, <3>1 DEF ReadData, ReadBuffer, ConnTypeOK
      <3>3. /\ asked'[c] = asked[c] /\ answers'[c] = answers[c] /\ unsent'[c] = unsent[c]
            /\ wbuf'[c] = wbuf[c] /\ room'[c] = room[c] /\ ~Answering(c)' /\ ~Heading(c)'
        BY <1>8 DEF ReadData, ReadBuffer, clientVars, Answering, Heading
      <3> QED
        BY <1>8, <2>1, <3>1, <3>2, <3>3 DEF Turn, Pair, ReadData, ReadBuffer
    <2>2. CASE c # cur
      BY <1>1, <1>8, <2>2, ElsewhereTurn DEF Elsewhere, ReadData, ReadBuffer, clientVars,
         Answering, Heading, ConnTypeOK
    <2> QED
      BY <2>1, <2>2
  <1>9. CASE AppendHead
    <2>1. /\ PushData(cur, [resp |-> Serial(cur), part |-> "head"])
          /\ pc = "head" /\ cur' = cur
          /\ UNCHANGED <<rbuf, inq, room, answers, asked, unsent>>
      BY <1>9 DEF AppendHead, sockVars, clientVars
    <2>2. CASE c = cur
      <3>1. Heading(c)
        BY <2>1, <2>2 DEF Heading
      <3> QED
        BY <2>1, <3>1 DEF Turn, Pair
    <2>3. CASE c # cur
      <3>1. wbuf'[c] = wbuf[c]
        BY <1>1, <2>1, <2>3 DEF PushData, ConnTypeOK
      <3> QED
        BY <2>1, <2>3, <3>1, ElsewhereTurn DEF Elsewhere, Answering, Heading
    <2> QED
      BY <2>2, <2>3
  <1> QED
    BY <1>3, <1>4, <1>5, <1>7, <1>8, <1>9 DEF Handler

LEMMA RequestTurn ==
    ASSUME SInv, HandleRequest, NEW c \in Conns, Turn(c)
    PROVE  Turn(c)'
  <1>1. /\ ConnTypeOK /\ cur \in Conns /\ pc = "request" /\ rbuf[cur] # <<>>
        /\ rbuf[cur] \in Seq(InUnit)
        /\ answers \in [Conns -> Seq([req : Nat, status : Statuses])]
        /\ asked \in [Conns -> Seq(Kinds)]
    BY DEF HandleRequest, SInv, IInv, TypeOK, ConnTypeOK, Handling
  <1>2. CASE c # cur
    BY <1>1, <1>2, ElsewhereTurn DEF HandleRequest, Elsewhere, Answering, Heading, sockVars,
       clientVars, ConnTypeOK
  <1>3. CASE c = cur
    <2> DEFINE n == Len(asked[c])
               m == Len(answers[c])
               q == rbuf[c]
               status == IF asked[c][n] = "fail" THEN "fail" ELSE "ok"
               a == [req |-> n, status |-> status]
    <2>1. /\ n \in Nat /\ m \in Nat
          /\ m = n - 1 /\ q = Pair(n, asked[c][n]) /\ inq[c] = <<>> /\ unsent[c] = <<>>
          /\ \A k \in 1..m :
               /\ answers[c][k].req = k
               /\ answers[c][k].status = IF asked[c][k] = "fail" THEN "fail" ELSE "ok"
      BY <1>1, <1>3 DEF Turn
    <2>2. Parse(q) = status /\ q[1].req = n /\ Len(q) = 2
      BY <2>1 DEF Parse, Pair
    <2>3. answers' = [answers EXCEPT ![c] = Append(@, a)]
      BY <1>3, <2>2 DEF HandleRequest
    <2>4. rbuf' = [rbuf EXCEPT ![c] = SubSeq(q, 3, 2)]
      BY <1>3, <2>2 DEF HandleRequest, Consumed
    <2>5. rbuf'[c] = <<>>
      BY <1>1, <1>3, <2>4 DEF ConnTypeOK
    <2>6. inq'[c] = <<>> /\ unsent'[c] = <<>> /\ asked' = asked
      BY <2>1 DEF HandleRequest, sockVars, clientVars
    <2>7. answers'[c] = Append(answers[c], a)
      BY <1>1, <2>3
    <2> HIDE DEF a
    <2>8. /\ Len(answers'[c]) = n
          /\ \A k \in 1..m : answers'[c][k] = answers[c][k]
          /\ answers'[c][n] = a
      BY <1>1, <2>1, <2>7
    <2>9. \A k \in 1..n :
               /\ answers'[c][k].req = k
               /\ answers'[c][k].status = IF asked[c][k] = "fail" THEN "fail" ELSE "ok"
      <3>1. \A k \in 1..n : k \in 1..m \/ k = n
        BY <2>1
      <3>2. a.req = n /\ a.status = status
        BY DEF a
      <3> QED
        BY <2>1, <2>8, <3>1, <3>2
    <2> QED
      BY <2>5, <2>6, <2>8, <2>9 DEF Turn
  <1> QED
    BY <1>2, <1>3

LEMMA AskTurn ==
    ASSUME AwaitResponse, WholeRequests, SInv, NEW c \in Conns, Turn(c),
           NEW kind \in Kinds, ClientAsk(c, kind)
    PROVE  Turn(c)'
  <1> DEFINE n == Len(asked[c])
  <1>1. /\ asked[c] \in Seq(Kinds) /\ n \in Nat /\ inq[c] \in Seq(InUnit)
        /\ asked \in [Conns -> Seq(Kinds)] /\ inq \in [Conns -> Seq(InUnit)]
    BY DEF SInv, IInv, TypeOK, ConnTypeOK
  <1>2. /\ MayAsk(c)
        /\ asked' = [asked EXCEPT ![c] = Append(@, kind)]
        /\ inq' = [inq EXCEPT ![c] = @ \o Pair(n + 1, kind)]
        /\ UNCHANGED <<unsent, connVars, room, loopVars>>
    BY DEF ClientAsk, Unit, Pair
  <1>3. /\ Len(answers[c]) = n /\ wbuf[c] = <<>> /\ room[c] = SndBuf
        /\ (Answering(c) => BodyLen = 0) /\ ~Heading(c)
    BY <1>2, AskAfterAnswers DEF MayAsk
  <1>4. inq[c] = <<>> /\ rbuf[c] = <<>> /\ unsent[c] = <<>>
    BY <1>1, <1>3 DEF Turn
  <1>5. /\ Len(asked'[c]) = n + 1 /\ asked'[c][n + 1] = kind
        /\ \A k \in 1..n : asked'[c][k] = asked[c][k]
    BY <1>1, <1>2
  <1>6. inq'[c] = Pair(n + 1, kind)
    BY <1>1, <1>2, <1>4 DEF Pair
  <1>7. /\ rbuf'[c] = <<>> /\ wbuf'[c] = <<>> /\ room'[c] = SndBuf /\ unsent'[c] = <<>>
        /\ answers' = answers /\ (Answering(c)' => BodyLen = 0) /\ ~Heading(c)'
    BY <1>2, <1>3, <1>4 DEF connVars, loopVars, Answering, Heading
  <1> HIDE DEF n
  <1> QED
    BY <1>1, <1>3, <1>5, <1>6, <1>7 DEF Turn, Pair

LEMMA TurnStep ==
    ASSUME AwaitResponse, WholeRequests, SInv, [Next]_vars, NEW c \in Conns, Turn(c)
    PROVE  Turn(c)'
  <1>1. CASE Handler
    BY <1>1, HandlerTurn, RequestTurn
  <1>2. ASSUME NEW d \in Conns, Environment(d)
        PROVE  Turn(c)'
    <2>1. ASSUME NEW kind \in Kinds, ClientAsk(d, kind) PROVE Turn(c)'
      <3>1. CASE c = d
        BY <2>1, <3>1, AskTurn
      <3>2. CASE c # d
        BY <2>1, <3>2, ElsewhereTurn DEF ClientAsk, Elsewhere, Answering, Heading, connVars, loopVars,
           SInv, IInv, TypeOK, ConnTypeOK
      <3> QED
        BY <3>1, <3>2
    <2>2. CASE ClientRest(d)
      <3>1. c # d
        BY <2>2 DEF ClientRest, Turn
      <3>2. /\ inq'[c] = inq[c] /\ unsent'[c] = unsent[c]
            /\ UNCHANGED <<connVars, room, loopVars, asked>>
        BY <2>2, <3>1 DEF ClientRest, SInv, IInv, TypeOK, ConnTypeOK
      <3> QED
        BY <3>2, ElsewhereTurn DEF Elsewhere, Answering, Heading, connVars, loopVars
    <2>3. CASE Drain(d)
      BY <2>3, ElsewhereTurn, SndBufAssumption DEF Drain, Elsewhere, Answering, Heading, connVars,
         loopVars, clientVars, SInv, IInv, TypeOK, ConnTypeOK
    <2>4. CASE ClientShutdown(d) \/ ClientReset(d)
      BY <2>4, ElsewhereTurn DEF ClientShutdown, ClientReset, Elsewhere, Answering, Heading, connVars,
         loopVars, clientVars
    <2> QED
      BY <1>2, <2>1, <2>2, <2>3, <2>4 DEF Environment
  <1>3. CASE \E d \in Conns : Accept(d) \/ Dispatch(d)
    BY <1>3, ElsewhereTurn DEF Accept, Dispatch, Elsewhere, Answering, Heading, connVars, sockVars,
       loopVars, clientVars
  <1>4. CASE UNCHANGED vars
    BY <1>4, ElsewhereTurn DEF Elsewhere, Answering, Heading, vars, connVars, sockVars, loopVars,
       clientVars
  <1> QED
    BY <1>1, <1>2, <1>3, <1>4 DEF Next

-----------------------------------------------------------------------------
(* No push leaves the block of the write buffer.                           *)

(* What a release leaves of a block.                                       *)
LEMMA ReleaseBlock ==
    ASSUME NEW b \in Blocks, NEW used \in Nat, NEW n \in 0..used, b.start + used <= b.cap
    PROVE  /\ Released(b, used, n).start + (used - n) <= Released(b, used, n).cap
           /\ used - n = 0 => Released(b, used, n).start = 0
  <1>1. b.start \in Nat /\ b.cap \in Nat /\ b = [start |-> b.start, cap |-> b.cap]
    BY DEF Blocks
  <1> DEFINE s == IF n = used THEN 0 ELSE b.start + n
  <1>2. Released(b, used, n) = [start |-> s, cap |-> b.cap]
    BY <1>1 DEF Released
  <1>3. s + (used - n) <= b.cap /\ (used - n = 0 => s = 0)
    BY <1>1
  <1> HIDE DEF s
  <1> QED
    BY <1>2, <1>3

(* What a push into an unreleased block leaves of it.                      *)
LEMMA PlaceBlock ==
    ASSUME NEW b \in Blocks, NEW used \in Nat, used <= b.cap, b.start = 0
    PROVE  Placed(b, used).start = 0 /\ used + 1 <= Placed(b, used).cap
  <1>1. b.cap \in Nat
    BY DEF Blocks
  <1>2. CASE b.cap - used >= 1
    BY <1>1, <1>2 DEF Placed
  <1>3. CASE ~(b.cap - used >= 1)
    <2>1. Placed(b, used) = [start |-> 0, cap |-> b.cap * 2 + 1]
      BY <1>3 DEF Placed
    <2> QED
      BY <1>1, <2>1
  <1> QED
    BY <1>2, <1>3

LEMMA SendInBlock ==
    ASSUME ConnTypeOK, NEW c \in Conns, NEW n \in 0..Len(wbuf[c]), SendAndRelease(c, n),
           NEW d \in Conns, InBlock(d), ~Heading(d)'
    PROVE  InBlock(d)'
  <1>1. wbuf[c] \in Seq(OutUnit) /\ Len(wbuf[c]) \in Nat /\ block[c] \in Blocks
    BY DEF ConnTypeOK
  <1> DEFINE used == Len(wbuf[c])
             rest == SubSeq(wbuf[c], n + 1, used)
             b == Released(block[c], used, n)
  <1>2. wbuf' = [wbuf EXCEPT ![c] = rest] /\ block' = [block EXCEPT ![c] = b]
    BY DEF SendAndRelease
  <1>3. rest \in Seq(OutUnit) /\ Len(rest) = used - n
    BY <1>1, SubSeqType
  <1>4. rest = <<>> <=> used - n = 0
    BY <1>3, EmptyLen
  <1>5. CASE d = c
    <2>1. block[c].start + used <= block[c].cap
      BY <1>5 DEF InBlock
    <2>2. b.start + (used - n) <= b.cap /\ (used - n = 0 => b.start = 0)
      BY <1>1, <2>1, ReleaseBlock
    <2>3. wbuf'[d] = rest /\ block'[d] = b
      <3> HIDE DEF rest, b
      <3> QED
        BY <1>2, <1>5 DEF ConnTypeOK
    <2> HIDE DEF used, rest, b
    <2> QED
      BY <1>3, <1>4, <2>2, <2>3 DEF InBlock
  <1>6. CASE d # c
    <2>1. wbuf'[d] = wbuf[d] /\ block'[d] = block[d]
      <3> HIDE DEF rest, b
      <3> QED
        BY <1>2, <1>6 DEF ConnTypeOK
    <2> QED
      BY <2>1 DEF InBlock
  <1> QED
    BY <1>5, <1>6

(* A head is begun on an empty buffer: the client has read everything      *)
(* before it asked.                                                        *)
LEMMA InBlockStep ==
    ASSUME SInv, [Next]_vars, NEW c \in Conns, Turn(c), InBlock(c)
    PROVE  InBlock(c)'
  <1>1. /\ ConnTypeOK /\ cur \in Conns /\ Handling
        /\ wbuf[cur] \in Seq(OutUnit) /\ Len(wbuf[cur]) \in Nat
        /\ Accepted(cur, Len(wbuf[cur])) \in 0..Len(wbuf[cur])
    <2>1. ConnTypeOK /\ cur \in Conns /\ Handling
      BY DEF SInv, IInv, TypeOK
    <2>2. wbuf[cur] \in Seq(OutUnit) /\ Len(wbuf[cur]) \in Nat
      BY <2>1 DEF ConnTypeOK
    <2> QED
      BY <2>1, <2>2, AcceptedBound
  <1>2. CASE UNCHANGED <<wbuf, block>> /\ (Heading(c)' => Heading(c))
    BY <1>2 DEF InBlock
  <1>3. CASE HandleWrite
    <2>1. ~Heading(c)'
      BY <1>3 DEF HandleWrite, Heading
    <2>2. CASE UNCHANGED <<connVars, sockVars>>
      BY <1>2, <2>1, <2>2 DEF connVars
    <2>3. CASE SendAndRelease(cur, Accepted(cur, Len(wbuf[cur])))
      BY <1>1, <2>1, <2>3, SendInBlock
    <2> QED
      BY <1>3, <2>2, <2>3 DEF HandleWrite, WritableCallback
  <1>4. CASE SendHead
    <2>1. ~Heading(c)'
      BY <1>4 DEF SendHead, Heading
    <2>2. SendAndRelease(cur, Accepted(cur, Len(wbuf[cur])))
      BY <1>4 DEF SendHead, SendBuffer
    <2> QED
      BY <1>1, <2>1, <2>2, SendInBlock
  <1>5. CASE HandleRequest
    <2>1. UNCHANGED <<wbuf, block, cur>> /\ pc = "request"
      BY <1>5 DEF HandleRequest
    <2>2. CASE c = cur
      <3>1. wbuf[c] = <<>>
        BY <1>1, <2>1, <2>2 DEF Handling, Turn
      <3> QED
        BY <2>1, <3>1 DEF InBlock
    <2>3. CASE c # cur
      BY <1>2, <2>1, <2>3 DEF Heading
    <2> QED
      BY <2>2, <2>3
  <1>6. CASE AppendHead
    <2> DEFINE b == Placed(block[cur], Len(wbuf[cur]))
    <2>1. PICK u : wbuf' = [wbuf EXCEPT ![cur] = Append(@, u)]
      BY <1>6 DEF AppendHead, PushData
    <2>2. block' = [block EXCEPT ![cur] = b] /\ pc = "head" /\ cur' = cur
      BY <1>6 DEF AppendHead, PushData
    <2> HIDE DEF b
    <2>3. CASE c = cur
      <3>1. block[c].start = 0 /\ Len(wbuf[c]) <= block[c].cap
        <4>1. block[c].start = 0 /\ block[c].start + Len(wbuf[c]) <= block[c].cap
          BY <2>2, <2>3 DEF InBlock, Heading
        <4> QED
          BY <1>1, <2>3, <4>1
      <3>2. b.start = 0 /\ Len(wbuf[c]) + 1 <= b.cap
        BY <1>1, <2>3, <3>1, PlaceBlock DEF ConnTypeOK, b
      <3>3. wbuf'[c] = Append(wbuf[c], u) /\ block'[c] = b
        BY <2>1, <2>2, <2>3 DEF ConnTypeOK, SInv, IInv, TypeOK
      <3>4. Len(wbuf'[c]) = Len(wbuf[c]) + 1
        BY <1>1, <2>3, <3>3
      <3> QED
        BY <1>1, <2>3, <3>2, <3>3, <3>4 DEF InBlock
    <2>4. CASE c # cur
      <3>1. wbuf'[c] = wbuf[c] /\ block'[c] = block[c]
        BY <1>1, <2>1, <2>2, <2>4 DEF ConnTypeOK
      <3> QED
        BY <2>2, <2>4, <3>1 DEF InBlock, Heading
    <2> QED
      BY <2>3, <2>4
  <1>7. CASE \/ SendFile \/ SendPage \/ HandleError \/ ReadData \/ ReadEnd \/ Finish
    BY <1>2, <1>7 DEF SendFile, SendPage, HandleError, ErrorHandler, ReadData, ReadBuffer,
       ReadEnd, Finish, AfterRead, Heading, connVars
  <1>8. CASE \E d \in Conns : Accept(d) \/ Dispatch(d) \/ Environment(d)
    BY <1>2, <1>8 DEF Accept, Dispatch, Environment, ClientAsk, ClientRest,
       ClientShutdown, ClientReset, Drain, Heading, connVars, loopVars
  <1>9. CASE UNCHANGED vars
    BY <1>2, <1>9 DEF Heading, vars, connVars, loopVars
  <1> QED
    BY <1>3, <1>4, <1>5, <1>6, <1>7, <1>8, <1>9 DEF Next, Handler

LEMMA InitTInv == Init => TInv
  <1> SUFFICES ASSUME Init PROVE TInv
    OBVIOUS
  <1>1. ASSUME NEW c \in Conns PROVE Turn(c) /\ InBlock(c)
    <2>1. /\ asked[c] = <<>> /\ answers[c] = <<>> /\ unsent[c] = <<>>
          /\ inq[c] = <<>> /\ rbuf[c] = <<>> /\ wbuf[c] = <<>>
          /\ block[c].start = 0 /\ block[c].cap = 0
      BY DEF Init, ConnInit
    <2>2. Len(<<>>) = 0
      OBVIOUS
    <2> QED
      BY <2>1, <2>2 DEF Turn, InBlock
  <1> QED
    BY <1>1, InitSInv DEF TInv

LEMMA TInvStep ==
    ASSUME AwaitResponse, WholeRequests, TInv, [Next]_vars
    PROVE  TInv'
  <1>1. SInv /\ \A c \in Conns : Turn(c) /\ InBlock(c)
    BY DEF TInv
  <1>2. ASSUME NEW c \in Conns PROVE Turn(c)' /\ InBlock(c)'
    BY <1>1, TurnStep, InBlockStep
  <1>3. SInv'
    BY <1>1, SInvStep
  <1> QED
    BY <1>2, <1>3 DEF TInv

-----------------------------------------------------------------------------
(* The theorems about clients that await their answers.                    *)

(* One request at most is on its way, and everything sent before it has    *)
(* been read.                                                              *)
THEOREM TurnInvariance ==
    ASSUME AwaitResponse, WholeRequests
    PROVE  Spec => []TInv
  <1>1. TInv /\ [Next]_vars => TInv'
    BY TInvStep
  <1> QED
    BY InitTInv, <1>1, PTL DEF Spec

(* Their requests are answered one for one, each for what it asked, though *)
(* http_request looks at the first request of the read buffer only and     *)
(* releases all of it (http_request.c:106-121).                            *)
THEOREM AnswersMatchCorrect ==
    ASSUME AwaitResponse, WholeRequests
    PROVE  Spec => []AnswersMatchRequests
  <1>1. TInv => AnswersMatchRequests
    <2>1. SUFFICES ASSUME TInv, NEW c \in Conns
                   PROVE  /\ Len(answers[c]) <= Len(asked[c])
                          /\ \A k \in DOMAIN answers[c] :
                               /\ answers[c][k].req = k
                               /\ answers[c][k].status =
                                    IF asked[c][k] = "fail" THEN "fail" ELSE "ok"
      BY DEF AnswersMatchRequests
    <2>2. /\ Len(answers[c]) \in Nat /\ Len(asked[c]) \in Nat
          /\ DOMAIN answers[c] = 1..Len(answers[c])
      BY <2>1 DEF TInv, SInv, IInv, TypeOK
    <2>3. Turn(c)
      BY <2>1 DEF TInv
    <2> QED
      BY <2>2, <2>3 DEF Turn
  <1> QED
    BY <1>1, TurnInvariance, PTL

(* And whatever the kernel takes of an answer at a time, no head is       *)
(* written behind the block of the write buffer, although ring_buffer.c:27 *)
(* takes the room in front of the readable bytes for room behind them.     *)
THEOREM WithinBlockCorrect ==
    ASSUME AwaitResponse, WholeRequests
    PROVE  Spec => []WithinBlock
  <1>1. TInv => WithinBlock
    BY DEF TInv, InBlock, WithinBlock
  <1> QED
    BY <1>1, TurnInvariance, PTL

=============================================================================
