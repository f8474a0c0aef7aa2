--------------------------- MODULE RingBufferProofs ---------------------------
(***************************************************************************)
(* Proofs about RingBuffer, for every kind of byte, every size of a push   *)
(* and every size of the block. Two inductive invariants: Positions holds  *)
(* whatever the callers do and says how the block can be overrun; Sound    *)
(* holds for disciplined callers and makes the buffer a queue.             *)
(***************************************************************************)
EXTENDS RingBuffer, TLAPS

Positions == rb.start \in Nat /\ rb.end \in Nat /\ rb.cap \in Nat /\ EmptyIsReset

(* A block that holds the data it claims to hold.                          *)
Holds(r) ==
    /\ r.start \in Nat /\ r.end \in Nat /\ r.cap \in Nat
    /\ r.start <= r.end /\ r.end <= r.cap
    /\ \A k \in Int : r.start <= k /\ k < r.end => r.msg[k] \in Byte

Sound == Holds(rb) /\ EmptyIsReset

-----------------------------------------------------------------------------
(* Lemmas on the operators.                                                *)

LEMMA DataIsSeq ==
    ASSUME NEW data \in Data
    PROVE  data \in Seq(Byte) /\ Len(data) \in Nat \ {0}
  BY RingAssumption DEF Data

LEMMA SubSeqParts ==
    ASSUME NEW s \in Seq(Byte), NEW n \in 1..Len(s)
    PROVE  /\ SubSeq(s, n, Len(s)) \in Seq(Byte)
           /\ Len(SubSeq(s, n, Len(s))) = Len(s) - n + 1
           /\ \A i \in 1..(Len(s) - n + 1) : SubSeq(s, n, Len(s))[i] = s[n + i - 1]
  OBVIOUS

LEMMA ConcatIs ==
    ASSUME NEW S, NEW s \in Seq(S), NEW d \in Seq(S), NEW t \in Seq(S),
           Len(t) = Len(s) + Len(d),
           \A i \in 1..Len(s) : t[i] = s[i],
           \A i \in 1..Len(d) : t[Len(s) + i] = d[i]
    PROVE  t = s \o d
  <1>1. Len(s) \in Nat /\ Len(d) \in Nat /\ Len(s \o d) = Len(t)
        /\ s \o d \in Seq(S)
    OBVIOUS
  <1>2. \A i \in 1..Len(t) : t[i] = (s \o d)[i]
    <2> SUFFICES ASSUME NEW i \in 1..Len(t) PROVE t[i] = (s \o d)[i]
      OBVIOUS
    <2>1. CASE i <= Len(s)
      BY <2>1, <1>1
    <2>2. CASE i > Len(s)
      <3>1. i - Len(s) \in 1..Len(d) /\ i = Len(s) + (i - Len(s))
        BY <2>2, <1>1
      <3>2. t[i] = d[i - Len(s)]
        BY <3>1
      <3> QED
        BY <2>2, <1>1, <3>1, <3>2
    <2> QED
      BY <1>1, <2>1, <2>2
  <1> QED
    BY <1>1, <1>2

LEMMA ContentIsSeq ==
    ASSUME NEW r, Holds(r)
    PROVE  /\ Content(r) \in Seq(Byte)
           /\ Len(Content(r)) = Used(r) /\ Used(r) \in Nat
           /\ \A i \in 1..Used(r) : Content(r)[i] = r.msg[r.start + i - 1]
  <1>1. Used(r) \in Nat
    BY DEF Holds, Used
  <1>2. \A i \in 1..Used(r) : At(r, r.start + i - 1) = r.msg[r.start + i - 1]
                              /\ r.msg[r.start + i - 1] \in Byte
    BY DEF Holds, Used, At
  <1>3. Content(r) = [i \in 1..Used(r) |-> r.msg[r.start + i - 1]]
    BY <1>2 DEF Content
  <1>4. Content(r) \in [1..Used(r) -> Byte]
    BY <1>2, <1>3
  <1> HIDE DEF Used
  <1> QED
    BY <1>1, <1>3, <1>4

(* Where a push leaves the positions, discipline or not.                   *)
LEMMA PushPositions ==
    ASSUME NEW r, NEW data \in Seq(Byte), Len(data) \in Nat \ {0},
           r.start \in Nat, r.end \in Nat, r.cap \in Nat, r.start <= r.end
    PROVE  LET new == PushData(r, data) IN
           /\ new.start \in Nat /\ new.end \in Nat /\ new.cap \in Nat
           /\ new.start < new.end
           /\ r.end <= r.cap /\ new.end > new.cap => r.start > 0
  <1>1. CASE Room(r) >= Len(data)
    BY <1>1 DEF PushData, InPlace, Room, Used
  <1>2. CASE Room(r) < Len(data) /\ r.start > Len(data)
    BY <1>2 DEF PushData, Shifted, Room, Used
  <1>3. CASE Room(r) < Len(data) /\ ~(r.start > Len(data))
    BY <1>3 DEF PushData, Grown, Room, Used
  <1> QED
    BY <1>1, <1>2, <1>3 DEF Room, Used

(* A push behind data at the front of its block appends it.                *)
LEMMA PushContent ==
    ASSUME NEW r, Holds(r), r.start = 0,
           NEW data \in Seq(Byte), Len(data) \in Nat \ {0}
    PROVE  /\ Holds(PushData(r, data))
           /\ Content(PushData(r, data)) = Content(r) \o data
           /\ PushData(r, data).start = 0 /\ PushData(r, data).end > 0
  <1> DEFINE new == PushData(r, data)
  <1>1. /\ r.end \in Nat /\ r.cap \in Nat /\ r.end <= r.cap
        /\ \A k \in Int : 0 <= k /\ k < r.end => r.msg[k] \in Byte
    BY DEF Holds
  <1>2. /\ new.start = 0
        /\ new.end = r.end + Len(data)
        /\ new.cap \in Nat /\ new.end <= new.cap
        /\ \A k \in Int : 0 <= k /\ k < r.end => new.msg[k] = r.msg[k]
        /\ \A k \in Int : r.end <= k /\ k < new.end =>
                            new.msg[k] = data[k - r.end + 1]
    <2>1. CASE Room(r) >= Len(data)
      BY <1>1, <2>1 DEF PushData, InPlace, Written, Room, Used
    <2>2. CASE ~(Room(r) >= Len(data))
      <3>1. new = Grown(r, data)
        BY <1>1, <2>2 DEF PushData
      <3>2. /\ new.start = 0
            /\ new.end = r.end + Len(data)
            /\ new.cap = r.cap * 2 + Len(data)
        BY <1>1, <3>1 DEF Grown, Used
      <3>3. \A k \in Int : 0 <= k /\ k < r.end => new.msg[k] = r.msg[k]
        BY <1>1, <3>1 DEF Grown, Used, Written, At
      <3>4. \A k \in Int : r.end <= k /\ k < r.end + Len(data) =>
                            new.msg[k] = data[k - r.end + 1]
        BY <1>1, <3>1 DEF Grown, Used, Written
      <3> QED
        BY <1>1, <3>2, <3>3, <3>4
    <2> QED
      BY <2>1, <2>2
  <1> HIDE DEF new
  <1>3. Holds(new)
    <2>1. \A k \in Int : r.end <= k /\ k < new.end => data[k - r.end + 1] \in Byte
      BY <1>1, <1>2
    <2> QED
      BY <1>1, <1>2, <2>1 DEF Holds
  <1>4. Content(new) = Content(r) \o data
    <2>1. /\ Content(new) \in Seq(Byte)
          /\ Len(Content(new)) = r.end + Len(data)
          /\ \A i \in 1..(r.end + Len(data)) : Content(new)[i] = new.msg[i - 1]
      BY <1>1, <1>2, <1>3, ContentIsSeq DEF Used
    <2>2. /\ Content(r) \in Seq(Byte)
          /\ Len(Content(r)) = r.end
          /\ \A i \in 1..r.end : Content(r)[i] = r.msg[i - 1]
      BY <1>1, ContentIsSeq DEF Used
    <2> DEFINE s == Content(r)
               t == Content(new)
               m == new.msg
    <2>3. /\ s \in Seq(Byte) /\ t \in Seq(Byte) /\ Len(s) \in Nat
          /\ Len(t) = Len(s) + Len(data)
          /\ Len(s) = r.end
      BY <1>1, <2>1, <2>2
    <2>4. ASSUME NEW i \in 1..Len(s)
          PROVE  t[i] = s[i]
      <3>1. i \in 1..r.end /\ i \in 1..(r.end + Len(data)) /\ i - 1 \in Int
            /\ 0 <= i - 1 /\ i - 1 < r.end
        BY <1>1, <2>3
      <3>2. t[i] = m[i - 1] /\ s[i] = r.msg[i - 1]
        BY <3>1, <2>1, <2>2
      <3>3. m[i - 1] = r.msg[i - 1]
        BY <3>1, <1>2
      <3> QED
        BY <3>2, <3>3
    <2>5. ASSUME NEW i \in 1..Len(data)
          PROVE  t[Len(s) + i] = data[i]
      <3> DEFINE j == Len(s) + i
      <3>0. /\ j = r.end + i /\ r.end \in Nat /\ Len(data) \in Nat
            /\ new.end = r.end + Len(data)
        BY <1>1, <1>2, <2>3
      <3>1. /\ j \in 1..(r.end + Len(data)) /\ j - 1 \in Int
            /\ r.end <= j - 1 /\ j - 1 < new.end /\ (j - 1) - r.end + 1 = i
        <4> HIDE DEF j, s
        <4> QED
          BY <3>0
      <3> HIDE DEF j
      <3>2. t[j] = m[j - 1]
        BY <3>1, <2>1
      <3>3. m[j - 1] = data[(j - 1) - r.end + 1]
        BY <3>1, <1>2
      <3> QED
        BY <3>1, <3>2, <3>3 DEF j
    <2> HIDE DEF s, t
    <2>6. t = s \o data
      BY <2>3, <2>4, <2>5, ConcatIs
    <2> QED
      BY <2>6 DEF s, t
  <1> QED
    BY <1>1, <1>2, <1>3, <1>4 DEF new

(* A readv into an empty buffer leaves it holding the data read.           *)
LEMMA ReadContent ==
    ASSUME NEW r, Holds(r), r.start = 0, r.end = 0,
           NEW data \in Seq(Byte), Len(data) \in Nat \ {0}
    PROVE  /\ Holds(ReadInto(r, data))
           /\ Content(ReadInto(r, data)) = data
           /\ ReadInto(r, data).start = 0 /\ ReadInto(r, data).end > 0
  <1> DEFINE new == ReadInto(r, data)
             avail == AvailableBytes(r)
             front == SubSeq(data, 1, avail)
             rest == SubSeq(data, avail + 1, Len(data))
             direct == [start |-> r.start, end |-> r.end + avail,
                        cap |-> r.cap,
                        msg |-> Written(r.msg, r.cap, r.start, front)]
  <1>1. avail = r.cap /\ r.cap \in Nat
    BY DEF Holds, AvailableBytes
  <1>2. CASE Len(data) <= avail
    <2>1. new = [start |-> 0, end |-> Len(data), cap |-> r.cap,
                 msg |-> Written(r.msg, r.cap, 0, data)]
      BY <1>2 DEF ReadInto
    <2>2. /\ new.start = 0 /\ new.end = Len(data) /\ new.cap = r.cap
          /\ \A k \in Int : 0 <= k /\ k < Len(data) => new.msg[k] = data[k + 1]
      BY <1>1, <1>2, <2>1 DEF Written
    <2> HIDE DEF new, avail
    <2>3. Holds(new)
      <3>1. \A k \in Int : 0 <= k /\ k < Len(data) => data[k + 1] \in Byte
        OBVIOUS
      <3> QED
        BY <1>1, <1>2, <2>2, <3>1 DEF Holds
    <2>4. Content(new) = data
      <3> DEFINE t == Content(new)
                 m == new.msg
      <3>1. /\ t \in Seq(Byte) /\ Len(t) = Len(data)
            /\ \A i \in 1..Len(data) : t[i] = m[i - 1]
        BY <2>2, <2>3, ContentIsSeq DEF Used
      <3> HIDE DEF t
      <3>2. ASSUME NEW i \in 1..Len(data) PROVE t[i] = data[i]
        <4>1. i - 1 \in Int /\ 0 <= i - 1 /\ i - 1 < Len(data) /\ (i - 1) + 1 = i
          OBVIOUS
        <4>2. t[i] = m[i - 1]
          BY <3>1
        <4>3. m[i - 1] = data[(i - 1) + 1]
          BY <4>1, <2>2
        <4> QED
          BY <4>1, <4>2, <4>3
      <3>3. t = data
        BY <3>1, <3>2
      <3> QED
        BY <3>3 DEF t
    <2> QED
      BY <2>2, <2>3, <2>4 DEF new
  <1>3. CASE Len(data) > avail
    <2>1. new = PushData(direct, rest)
      BY <1>1, <1>3 DEF ReadInto
    <2>2. front \in Seq(Byte) /\ Len(front) = avail
          /\ \A i \in 1..avail : front[i] = data[i]
      BY <1>1, <1>3
    <2>3. rest \in Seq(Byte) /\ Len(rest) = Len(data) - avail
          /\ Len(rest) \in Nat \ {0}
      BY <1>1, <1>3
    <2>4. front \o rest = data
      <3>1. \A i \in 1..Len(rest) : rest[i] = data[avail + i]
        BY <1>1, <1>3
      <3>2. Len(data) = Len(front) + Len(rest)
        BY <1>1, <2>2, <2>3
      <3> HIDE DEF front, rest, avail
      <3>3. /\ \A i \in 1..Len(front) : data[i] = front[i]
            /\ \A i \in 1..Len(rest) : data[Len(front) + i] = rest[i]
        BY <2>2, <3>1
      <3> QED
        BY <2>2, <2>3, <3>2, <3>3, ConcatIs
    <2>5. /\ direct.start = 0 /\ direct.end = avail /\ direct.cap = avail
          /\ \A k \in Int : 0 <= k /\ k < avail => direct.msg[k] = front[k + 1]
      <3> HIDE DEF avail, front
      <3> QED
        BY <1>1, <2>2 DEF Written
    <2> HIDE DEF new, front, rest, direct, avail
    <2>6. Holds(direct)
      <3>1. \A k \in Int : 0 <= k /\ k < avail => front[k + 1] \in Byte
        BY <1>1, <2>2
      <3> QED
        BY <1>1, <2>5, <3>1 DEF Holds
    <2>7. Content(direct) = front
      <3> DEFINE t == Content(direct)
                 m == direct.msg
      <3>1. /\ t \in Seq(Byte) /\ Len(t) = avail
            /\ \A i \in 1..avail : t[i] = m[i - 1]
        BY <1>1, <2>5, <2>6, ContentIsSeq DEF Used
      <3> HIDE DEF t
      <3>2. ASSUME NEW i \in 1..avail PROVE t[i] = front[i]
        <4>1. i - 1 \in Int /\ 0 <= i - 1 /\ i - 1 < avail /\ (i - 1) + 1 = i
          BY <1>1
        <4>2. t[i] = m[i - 1]
          BY <3>1
        <4>3. m[i - 1] = front[(i - 1) + 1]
          BY <4>1, <2>5
        <4> QED
          BY <4>1, <4>2, <4>3
      <3>3. t = front
        BY <2>2, <3>1, <3>2
      <3> QED
        BY <3>3 DEF t
    <2>8. /\ Holds(new) /\ Content(new) = front \o rest
          /\ new.start = 0 /\ new.end > 0
      BY <2>1, <2>3, <2>5, <2>6, <2>7, PushContent
    <2> QED
      BY <2>4, <2>8 DEF new
  <1> QED
    BY <1>1, <1>2, <1>3

(* A release drops the oldest bytes, and rewinds an emptied buffer.        *)
LEMMA ReleaseContent ==
    ASSUME NEW r, Holds(r), NEW n \in 1..Used(r)
    PROVE  LET new == ReleaseBytes(r, n) IN
           /\ Holds(new)
           /\ Content(new) = SubSeq(Content(r), n + 1, Used(r))
           /\ new.start = new.end => new.start = 0
  <1> DEFINE new == ReleaseBytes(r, n)
             s == Content(r)
             t == Content(new)
             u == SubSeq(s, n + 1, Used(r))
             len == Used(r) - n
  <1>1. /\ r.start \in Nat /\ r.end \in Nat /\ r.cap \in Nat /\ n \in Nat \ {0}
        /\ r.start + n <= r.end /\ r.end <= r.cap
        /\ Used(r) = r.end - r.start /\ len \in Nat
    BY DEF Holds, Used
  <1>2. /\ s \in Seq(Byte) /\ Len(s) = Used(r) /\ Used(r) \in Nat
        /\ \A i \in 1..Used(r) : s[i] = r.msg[r.start + i - 1]
    BY ContentIsSeq
  <1>3. /\ new.cap = r.cap
        /\ \A k \in Int : r.start + n <= k /\ k < r.end => new.msg[k] = r.msg[k]
    BY <1>1 DEF ReleaseBytes
  <1>4. CASE r.start + n = r.end
    <2>1. new.start = 0 /\ new.end = 0 /\ n = Used(r)
      BY <1>1, <1>4 DEF ReleaseBytes
    <2> HIDE DEF new, s
    <2>2. Holds(new)
      BY <1>1, <1>3, <2>1 DEF Holds
    <2>3. t = <<>>
      BY <2>1 DEF Content, Used
    <2>4. u = <<>>
      BY <1>2, <2>1
    <2> QED
      BY <2>1, <2>2, <2>3, <2>4 DEF new, s
  <1>5. CASE r.start + n < r.end
    <2>1. new.start = r.start + n /\ new.end = r.end
      BY <1>1, <1>5 DEF ReleaseBytes
    <2> HIDE DEF new, s
    <2>2. Holds(new)
      <3>1. \A k \in Int : r.start + n <= k /\ k < r.end => r.msg[k] \in Byte
        BY <1>1 DEF Holds
      <3> QED
        BY <1>1, <1>3, <2>1, <3>1 DEF Holds
    <2>3. /\ t \in Seq(Byte) /\ Len(t) = len
          /\ \A i \in 1..len : t[i] = new.msg[(r.start + n) + i - 1]
      BY <1>1, <2>1, <2>2, ContentIsSeq DEF Used
    <2>4. /\ u \in Seq(Byte) /\ Len(u) = len
          /\ \A i \in 1..len : u[i] = s[n + i]
      <3>1. n + 1 \in 1..Len(s) /\ Len(s) - (n + 1) + 1 = len
            /\ u = SubSeq(s, n + 1, Len(s))
        BY <1>1, <1>2, <1>5
      <3> HIDE DEF len
      <3>2. /\ u \in Seq(Byte) /\ Len(u) = len
            /\ \A i \in 1..len : u[i] = s[(n + 1) + i - 1]
        <4> HIDE DEF u
        <4> QED
          BY <1>2, <3>1, SubSeqParts
      <3>3. ASSUME NEW i \in 1..len PROVE u[i] = s[n + i]
        <4>1. (n + 1) + i - 1 = n + i
          BY <1>1
        <4> QED
          BY <3>2, <4>1
      <3> QED
        BY <3>2, <3>3
    <2> HIDE DEF t, u, len
    <2>5. ASSUME NEW i \in 1..len PROVE t[i] = u[i]
      <3> DEFINE k == r.start + n + i - 1
                 j == n + i
      <3>1. /\ k \in Int /\ r.start + n <= k /\ k < r.end
            /\ j \in 1..Used(r) /\ k = r.start + j - 1
            /\ k = (r.start + n) + i - 1
        BY <1>1 DEF len
      <3> HIDE DEF k, j
      <3>2. t[i] = new.msg[k]
        BY <3>1, <2>3
      <3>3. new.msg[k] = r.msg[k]
        BY <3>1, <1>3
      <3>4. s[j] = r.msg[k]
        BY <3>1, <1>2
      <3>5. u[i] = s[j]
        BY <2>4 DEF j
      <3> QED
        BY <3>2, <3>3, <3>4, <3>5
    <2>6. t = u
      BY <2>3, <2>4, <2>5
    <2>7. new.start # new.end
      BY <1>1, <1>5, <2>1
    <2> QED
      BY <2>2, <2>6, <2>7 DEF t, u, new, s
  <1> QED
    BY <1>1, <1>4, <1>5

LEMMA ReadPositions ==
    ASSUME NEW r, NEW data \in Seq(Byte), Len(data) \in Nat \ {0},
           r.start \in Nat, r.end \in Nat, r.cap \in Nat, r.start <= r.end,
           AvailableBytes(r) >= 0
    PROVE  LET new == ReadInto(r, data) IN
           /\ new.start \in Nat /\ new.end \in Nat /\ new.cap \in Nat
           /\ new.start < new.end
           /\ r.end <= r.cap /\ new.end > new.cap => r.start > 0
  <1> DEFINE avail == AvailableBytes(r)
             rest == SubSeq(data, avail + 1, Len(data))
             direct == [start |-> r.start, end |-> r.end + avail,
                        cap |-> r.cap,
                        msg |-> Written(r.msg, r.cap, r.start,
                                        SubSeq(data, 1, avail))]
  <1>1. avail \in Nat /\ avail = r.cap - r.end
    BY DEF AvailableBytes
  <1>2. CASE Len(data) <= avail
    <2>1. /\ ReadInto(r, data).start = r.start
          /\ ReadInto(r, data).end = r.end + Len(data)
          /\ ReadInto(r, data).cap = r.cap
      BY <1>2 DEF ReadInto
    <2> QED
      BY <1>1, <1>2, <2>1
  <1>3. CASE Len(data) > avail
    <2>1. ReadInto(r, data) = PushData(direct, rest)
      BY <1>1, <1>3 DEF ReadInto
    <2>2. rest \in Seq(Byte) /\ Len(rest) \in Nat \ {0}
      BY <1>1, <1>3
    <2>3. /\ direct.start = r.start /\ direct.end = r.cap /\ direct.cap = r.cap
      BY <1>1
    <2> HIDE DEF direct, rest, avail
    <2>4. /\ direct.start \in Nat /\ direct.end \in Nat /\ direct.cap \in Nat
          /\ direct.start <= direct.end
      BY <1>1, <2>3
    <2>5. LET new == PushData(direct, rest) IN
          /\ new.start \in Nat /\ new.end \in Nat /\ new.cap \in Nat
          /\ new.start < new.end
          /\ direct.end <= direct.cap /\ new.end > new.cap => direct.start > 0
      BY <2>2, <2>4, PushPositions
    <2> QED
      BY <1>1, <2>1, <2>3, <2>5
  <1> QED
    BY <1>1, <1>2, <1>3

-----------------------------------------------------------------------------
(* Whatever the callers do.                                                *)

LEMMA PositionsStep ==
    ASSUME Positions, [Next]_vars
    PROVE  Positions' /\ (Overruns => rb.start > 0)
  <1> USE DEF Positions, EmptyIsReset, Overruns
  <1>1. ASSUME NEW data \in Data, Push(data)
        PROVE  Positions' /\ (Overruns => rb.start > 0)
    BY <1>1, DataIsSeq, PushPositions DEF Push
  <1>2. ASSUME NEW data \in Data, Read(data)
        PROVE  Positions' /\ (Overruns => rb.start > 0)
    BY <1>2, DataIsSeq, ReadPositions DEF Read
  <1>3. ASSUME NEW n \in 1..Used(rb), Release(n)
        PROVE  Positions' /\ (Overruns => rb.start > 0)
    BY <1>3 DEF Release, ReleaseBytes, Used
  <1>4. CASE UNCHANGED vars
    BY <1>4 DEF vars
  <1> QED
    BY <1>1, <1>2, <1>3, <1>4 DEF Next

THEOREM PositionsCorrect == Spec => []Positions
  <1>1. Init => Positions
    BY DEF Init, Positions, EmptyIsReset
  <1>2. Positions /\ [Next]_vars => Positions'
    BY PositionsStep
  <1> QED
    BY <1>1, <1>2, PTL DEF Spec

(* An emptied buffer always starts again at the front of its block         *)
(* (ring_buffer.c:95-97), overrun or not.                                  *)
THEOREM EmptyIsResetCorrect == Spec => []EmptyIsReset
  <1>1. Positions => EmptyIsReset
    BY DEF Positions
  <1> QED
    BY <1>1, PositionsCorrect, PTL

(* The only way to overrun a block is to append while released bytes lie at*)
(* its front (ring_buffer.c:25-27).                                        *)
THEOREM OverrunCorrect == Spec => OverrunNeedsReleased
  <1>1. Positions /\ [Next]_vars => [Overruns => rb.start > 0]_vars
    BY PositionsStep
  <1> QED
    BY <1>1, PositionsCorrect, PTL DEF Spec, OverrunNeedsReleased

(* The branch that moves data to the front is dead code while the block is *)
(* not overrun (ring_buffer.c:28-33).                                      *)
THEOREM ShiftIsDeadCorrect == Spec => []ShiftIsDead
  <1>1. Positions => ShiftIsDead
    <2> SUFFICES ASSUME Positions, InBounds, NEW data \in Data,
                        Room(rb) < Len(data)
                 PROVE  rb.start <= Len(data)
      BY DEF ShiftIsDead
    <2>1. Len(data) \in Nat
      BY DataIsSeq
    <2> QED
      BY <2>1 DEF Positions, EmptyIsReset, InBounds, Room, Used
  <1> QED
    BY <1>1, PositionsCorrect, PTL

-----------------------------------------------------------------------------
(* With disciplined callers.                                               *)

LEMMA InitSound == Init => Sound /\ Content(rb) = <<>>
  BY DEF Init, Sound, Holds, EmptyIsReset, Content, Used

LEMMA SoundStep ==
    ASSUME Disciplined, Sound, [Next]_vars
    PROVE  Sound' /\ [Queue!Next]_<<Content(rb), given>>
  <1> USE DEF Sound, EmptyIsReset
  <1>1. ASSUME NEW data \in Data, Push(data)
        PROVE  Sound' /\ Queue!Push
    <2>1. data \in Seq(Byte) /\ Len(data) \in Nat \ {0}
      BY DataIsSeq
    <2>2. rb' = PushData(rb, data) /\ rb.start = 0 /\ given' = data
      BY <1>1 DEF Push
    <2>3. /\ Holds(rb') /\ Content(rb') = Content(rb) \o data
          /\ rb'.start = 0 /\ rb'.end > 0
      BY <2>1, <2>2, PushContent
    <2>4. Sound'
      BY <2>3 DEF Holds
    <2>5. Queue!Push
      BY <2>1, <2>2, <2>3 DEF Queue!Push
    <2> QED
      BY <2>4, <2>5
  <1>2. ASSUME NEW data \in Data, Read(data)
        PROVE  Sound' /\ Queue!Push
    <2>1. data \in Seq(Byte) /\ Len(data) \in Nat \ {0}
      BY DataIsSeq
    <2>2. rb' = ReadInto(rb, data) /\ rb.start = 0 /\ rb.end = 0 /\ given' = data
      BY <1>2 DEF Read
    <2>3. /\ Holds(rb') /\ Content(rb') = data
          /\ rb'.start = 0 /\ rb'.end > 0
      BY <2>1, <2>2, ReadContent
    <2>4. Content(rb) = <<>>
      BY <2>2 DEF Content, Used
    <2>5. Content(rb') = Content(rb) \o data
      BY <2>1, <2>3, <2>4
    <2>6. Sound'
      BY <2>3 DEF Holds
    <2>7. Queue!Push
      BY <2>1, <2>2, <2>5 DEF Queue!Push
    <2> QED
      BY <2>6, <2>7
  <1>3. ASSUME NEW n \in 1..Used(rb), Release(n)
        PROVE  Sound' /\ Queue!Release
    <2>1. rb' = ReleaseBytes(rb, n) /\ given' = <<>>
      BY <1>3 DEF Release
    <2>2. /\ Holds(rb')
          /\ Content(rb') = SubSeq(Content(rb), n + 1, Used(rb))
          /\ rb'.start = rb'.end => rb'.start = 0
      BY <2>1, ReleaseContent
    <2>3. Sound'
      BY <2>2 DEF Holds
    <2>4. Len(Content(rb)) = Used(rb) /\ Used(rb) \in Nat
      BY ContentIsSeq
    <2>5. n \in 0..Len(Content(rb))
      BY <2>4
    <2>6. Queue!Release
      BY <2>1, <2>2, <2>4, <2>5 DEF Queue!Release
    <2> QED
      BY <2>3, <2>6
  <1>4. CASE UNCHANGED vars
    <2>1. Sound'
      BY <1>4 DEF vars, Holds
    <2>2. UNCHANGED <<Content(rb), given>>
      BY <1>4 DEF vars
    <2> QED
      BY <2>1, <2>2
  <1> QED
    BY <1>1, <1>2, <1>3, <1>4 DEF Next, Queue!Next

THEOREM SoundCorrect ==
    ASSUME Disciplined
    PROVE  Spec => []Sound
  <1>1. Init => Sound
    BY InitSound
  <1>2. Sound /\ [Next]_vars => Sound'
    BY SoundStep
  <1> QED
    BY <1>1, <1>2, PTL DEF Spec

(* Disciplined callers never reach beyond the block: as long as nothing is *)
(* released before a push, the test of ring_buffer.c:27 is good enough.    *)
THEOREM InBoundsCorrect ==
    ASSUME Disciplined
    PROVE  Spec => []InBounds
  <1>1. Sound => InBounds
    BY DEF Sound, Holds, InBounds
  <1> QED
    BY <1>1, SoundCorrect, PTL

(* For disciplined callers the ring buffer, with its growing block and the *)
(* readv that bypasses ring_buffer_push_data, implements a queue of bytes. *)
THEOREM QueueCorrect ==
    ASSUME Disciplined
    PROVE  Spec => IsQueue
  <1>1. Init => Queue!Init
    BY InitSound DEF Init, Queue!Init
  <1>2. Sound /\ [Next]_vars => [Queue!Next]_<<Content(rb), given>>
    BY SoundStep
  <1> QED
    BY <1>1, <1>2, SoundCorrect, PTL DEF Spec, IsQueue, Queue!Spec

=============================================================================
