--------------------------- MODULE HttpRequestProofs ---------------------------
(***************************************************************************)
(* Proofs about the calls of http_request, for any files, versions and     *)
(* header lines, any number of them, and any hash function.                *)
(***************************************************************************)
EXTENDS HttpRequest, WellFoundedInduction, TLAPS

-----------------------------------------------------------------------------
(* The table of header handlers.                                           *)

LessThan == {p \in Nat \X Nat : p[1] < p[2]}

LEMMA LeastNat ==
  ASSUME NEW T \in SUBSET Nat, T # {}
  PROVE  \E m \in T : \A n \in T : m <= n
  <1>1. OpToRel(<, Nat) = LessThan
    BY DEF OpToRel, LessThan
  <1>2. IsWellFoundedOn(LessThan, Nat)
    BY <1>1, NatLessThanWellFounded
  <1>3. PICK m \in T : \A n \in T : ~(<<n, m>> \in LessThan)
    BY <1>2, WFMin
  <1>4. \A a, b \in Nat : a < b => <<a, b>> \in LessThan
    BY DEF LessThan
  <1>5. \A n \in T : m <= n
    <2>1. SUFFICES ASSUME NEW n \in T PROVE m <= n
      OBVIOUS
    <2>2. n \in Nat /\ m \in Nat
      OBVIOUS
    <2>3. ~(<<n, m>> \in LessThan)
      BY <1>3
    <2>4. QED
      BY <1>4, <2>2, <2>3
  <1>6. QED
    BY <1>5

LEMMA MinIs ==
  ASSUME NEW T \in SUBSET Int, NEW m \in T, \A n \in T : m <= n
  PROVE  Min(T) = m
  <1>1. \E x \in T : \A y \in T : x =< y
    OBVIOUS
  <1>2. Min(T) \in T /\ \A y \in T : Min(T) =< y
    BY <1>1 DEF Min
  <1>3. \A x \in T : (\A y \in T : x =< y) => x = m
    OBVIOUS
  <1>4. QED
    BY <1>2, <1>3, Zenon

LEMMA MaxIs ==
  ASSUME NEW T \in SUBSET Int, NEW m \in T, \A n \in T : n <= m
  PROVE  Max(T) = m
  <1>1. \E x \in T : \A y \in T : x >= y
    OBVIOUS
  <1>2. Max(T) \in T /\ \A y \in T : Max(T) >= y
    BY <1>1 DEF Max
  <1>3. \A x \in T : (\A y \in T : x >= y) => x = m
    OBVIOUS
  <1>4. QED
    BY <1>2, <1>3, Zenon

Dicts(V) == [Buckets -> Seq([k : Keys, v : V])]

LEMMA DictInitType == ASSUME NEW V PROVE DictInit \in Dicts(V)
  BY DEF DictInit, Dicts

(* dict_get finds what dict_put has just put, and still finds under every  *)
(* other key what it found before, whatever keys share a bucket.           *)
LEMMA GetPut ==
  ASSUME NEW V, NEW d \in Dicts(V), NEW k \in Keys, NEW v \in V
  PROVE  /\ Put(d, k, v) \in Dicts(V)
         /\ Get(Put(d, k, v), k) = v
         /\ \A j \in Keys \ {k} : Get(Put(d, k, v), j) = Get(d, j)
  <1> DEFINE e == Put(d, k, v)
             s == d[Hash[k]]
             t == <<[k |-> k, v |-> v]>> \o s
  <1>1. Hash[k] \in Buckets /\ s \in Seq([k : Keys, v : V])
    BY DEF Buckets, Dicts
  <1>2. /\ t \in Seq([k : Keys, v : V])
        /\ Len(t) = Len(s) + 1
        /\ t[1] = [k |-> k, v |-> v]
        /\ \A i \in 1..Len(s) : t[i + 1] = s[i]
    BY <1>1
  <1>3. e \in Dicts(V) /\ e[Hash[k]] = t
    BY <1>1, <1>2 DEF Put, Dicts
  <1>4. \A b \in Buckets \ {Hash[k]} : e[b] = d[b]
    BY <1>1 DEF Put, Dicts
  <1> HIDE DEF e, s, t
  <1>5. Get(e, k) = v
    <2>1. 1 \in Found(e, k) /\ Found(e, k) \in SUBSET Int /\ \A i \in Found(e, k) : 1 <= i
      BY <1>1, <1>2, <1>3 DEF Found
    <2>2. Min(Found(e, k)) = 1
      BY <2>1, MinIs
    <2>3. QED
      BY <1>2, <1>3, <2>1, <2>2 DEF Get
  <1>6. ASSUME NEW j \in Keys \ {k} PROVE Get(e, j) = Get(d, j)
    <2>1. CASE Hash[j] # Hash[k]
      <3>1. e[Hash[j]] = d[Hash[j]]
        BY <1>4, <2>1 DEF Buckets
      <3>2. QED
        BY <3>1 DEF Get, Found
    <2>2. CASE Hash[j] = Hash[k]
      <3>1. e[Hash[j]] = t /\ d[Hash[j]] = s
        BY <1>3, <2>2 DEF s
      <3>2. \A i \in 1..Len(s) : i \in Found(d, j) <=> i + 1 \in Found(e, j)
        BY <1>1, <1>2, <3>1 DEF Found
      <3>3. Found(d, j) \subseteq 1..Len(s) /\ Found(e, j) \subseteq 2..Len(s) + 1
        BY <1>1, <1>2, <1>6, <3>1 DEF Found
      <3>4. CASE Found(d, j) = {}
        <4>1. Found(e, j) = {}
          <5>1. \A i \in 2..Len(s) + 1 : i - 1 \in 1..Len(s) /\ (i - 1) + 1 = i
            BY <1>1
          <5>2. QED
            BY <3>2, <3>3, <3>4, <5>1
        <4>2. QED
          BY <3>4, <4>1 DEF Get
      <3>5. CASE Found(d, j) # {}
        <4>1. PICK m \in Found(d, j) : \A n \in Found(d, j) : m <= n
          BY <1>1, <3>3, <3>5, LeastNat
        <4>2. Min(Found(d, j)) = m
          BY <1>1, <3>3, <4>1, MinIs
        <4>3. m + 1 \in Found(e, j)
          BY <3>2, <3>3, <4>1
        <4>4. \A n \in Found(e, j) : m + 1 <= n
          <5>1. SUFFICES ASSUME NEW n \in Found(e, j) PROVE m + 1 <= n
            OBVIOUS
          <5>2. n - 1 \in 1..Len(s) /\ (n - 1) + 1 = n
            BY <1>1, <3>3
          <5>3. n - 1 \in Found(d, j)
            BY <3>2, <5>2
          <5>4. QED
            BY <1>1, <3>3, <4>1, <5>2, <5>3
        <4>5. Min(Found(e, j)) = m + 1
          BY <1>1, <3>3, <4>3, <4>4, MinIs
        <4>6. t[m + 1] = s[m]
          BY <1>2, <3>3, <4>1
        <4>7. QED
          BY <3>1, <3>5, <4>2, <4>3, <4>5, <4>6 DEF Get
      <3>6. QED
        BY <3>4, <3>5
    <2>3. QED
      BY <2>1, <2>2
  <1>7. QED
    BY <1>3, <1>5, <1>6 DEF e

LEMMA EntryType ==
  ASSUME NEW S, NEW s \in Seq(S)
  PROVE  Len(s) \in Nat /\ \A i \in 1..Len(s) : s[i] \in S
  OBVIOUS

(* The dictionaries that a list is put into, entry by entry: the recursive *)
(* function of PutAll exists, and each of its dictionaries is as the one   *)
(* before with one entry more.                                             *)
Steps(list, n, g) ==
    [i \in 0..n |-> IF i = 0 THEN DictInit ELSE Put(g[i - 1], list[i].k, list[i].v)]

Puts(list) == CHOOSE g : g = Steps(list, Len(list), g)

LEMMA PutsExist ==
  ASSUME NEW list, NEW n \in Nat
  PROVE  \E g : g = Steps(list, n, g)
  <1> DEFINE T == {m \in Nat : \A g : g # Steps(list, m, g)}
  <1>1. SUFFICES ASSUME T # {} PROVE FALSE
    OBVIOUS
  <1>2. PICK m \in T : \A k \in T : m <= k
    <2>1. T \in SUBSET Nat
      OBVIOUS
    <2>2. QED
      BY <1>1, <2>1, LeastNat
  <1>3. CASE m = 0
    <2> DEFINE g == [i \in 0..0 |-> DictInit]
    <2>1. g = Steps(list, 0, g)
      BY DEF Steps
    <2>2. QED
      BY <1>3, <2>1
  <1>4. CASE m # 0
    <2>1. m - 1 \in Nat /\ ~(m <= m - 1) /\ m \in Nat
      BY <1>4
    <2>2. m - 1 \notin T
      BY <1>2, <2>1
    <2>3. PICK g : g = Steps(list, m - 1, g)
      BY <2>1, <2>2
    <2> DEFINE h == [i \in 0..m |->
                        IF i = m THEN Put(g[m - 1], list[m].k, list[m].v) ELSE g[i]]
    <2>4. \A i \in 0..m - 1 : i \in 0..m /\ i # m /\ h[i] = g[i]
      BY <2>1
    <2>5. \A i \in 0..m :
            h[i] = IF i = 0 THEN DictInit ELSE Put(h[i - 1], list[i].k, list[i].v)
      <3>1. SUFFICES ASSUME NEW i \in 0..m
                     PROVE  h[i] = IF i = 0 THEN DictInit
                                   ELSE Put(h[i - 1], list[i].k, list[i].v)
        OBVIOUS
      <3>2. CASE i = m
        <4>1. h[m] = Put(g[m - 1], list[m].k, list[m].v) /\ m - 1 \in 0..m - 1
          BY <2>1
        <4>2. QED
          BY <1>4, <2>4, <3>2, <4>1
      <3>3. CASE i # m
        <4>1. i \in 0..m - 1 /\ (i # 0 => i - 1 \in 0..m - 1)
          BY <2>1, <3>3
        <4>2. g[i] = IF i = 0 THEN DictInit ELSE Put(g[i - 1], list[i].k, list[i].v)
          BY <2>3, <4>1, Zenon DEF Steps
        <4> HIDE DEF h
        <4>3. QED
          BY <2>4, <4>1, <4>2
      <3>4. QED
        BY <3>2, <3>3
    <2>6. h = Steps(list, m, h)
      <3>1. DOMAIN h = 0..m /\ h = [i \in 0..m |-> h[i]]
        OBVIOUS
      <3> HIDE DEF h
      <3>2. QED
        BY <2>5, <3>1 DEF Steps
    <2>7. QED
      BY <1>2, <2>6
  <1>5. QED
    BY <1>3, <1>4

LEMMA PutsAre ==
  ASSUME NEW V, NEW list \in Seq([k : Keys, v : V])
  PROVE  /\ PutAll(list) = Puts(list)[Len(list)]
         /\ Puts(list)[0] = DictInit
         /\ \A i \in 1..Len(list) :
               Puts(list)[i] = Put(Puts(list)[i - 1], list[i].k, list[i].v)
  <1>1. Len(list) \in Nat
    OBVIOUS
  <1>2. Puts(list) = Steps(list, Len(list), Puts(list))
    BY <1>1, PutsExist, Zenon DEF Puts
  <1>3. \A i \in 0..Len(list) :
          Puts(list)[i] = IF i = 0 THEN DictInit
                          ELSE Put(Puts(list)[i - 1], list[i].k, list[i].v)
    BY <1>2, Zenon DEF Steps
  <1>4. 0 \in 0..Len(list) /\ \A i \in 1..Len(list) : i \in 0..Len(list) /\ i # 0
    BY <1>1
  <1>5. PutAll(list) = Puts(list)[Len(list)]
    BY Zenon DEF PutAll, Puts, Steps
  <1>6. QED
    BY <1>3, <1>4, <1>5, Zenon

(* Every key of a list that has been put finds a value that the list gives *)
(* it, and every other key finds nothing.                                  *)
Values(list, n, k) == {list[i].v : i \in {j \in 1..n : list[j].k = k}}

LEMMA PutAllFinds ==
  ASSUME NEW V, NEW list \in Seq([k : Keys, v : V]), NEW k \in Keys
  PROVE  IF Values(list, Len(list), k) = {} THEN Get(PutAll(list), k) = Null
         ELSE Get(PutAll(list), k) \in Values(list, Len(list), k)
  <1> DEFINE d(i) == Puts(list)[i]
             Right(i) == /\ d(i) \in Dicts(V)
                         /\ Values(list, i, k) = {} => Get(d(i), k) = Null
                         /\ Values(list, i, k) # {} => Get(d(i), k) \in Values(list, i, k)
             T == {i \in 0..Len(list) : ~Right(i)}
  <1>1. Len(list) \in Nat /\ \A i \in 1..Len(list) : list[i].k \in Keys /\ list[i].v \in V
    <2>1. Len(list) \in Nat /\ \A i \in 1..Len(list) : list[i] \in [k : Keys, v : V]
      BY EntryType
    <2>2. \A e \in [k : Keys, v : V] : e.k \in Keys /\ e.v \in V
      OBVIOUS
    <2>3. QED
      BY <2>1, <2>2, Zenon
  <1>2. T = {}
    <2>1. SUFFICES ASSUME T # {} PROVE FALSE
      OBVIOUS
    <2>2. PICK i \in T : \A j \in T : i <= j
      <3>1. T \in SUBSET Nat
        BY <1>1
      <3> HIDE DEF T
      <3>2. QED
        BY <2>1, <3>1, LeastNat
    <2>3. i \in 0..Len(list) /\ ~Right(i)
      BY <2>2
    <2>4. CASE i = 0
      <3>1. d(0) = DictInit
        BY PutsAre
      <3>2. Get(DictInit, k) = Null
        <4>1. DictInit[Hash[k]] = <<>>
          BY DEF DictInit, Buckets
        <4>2. Found(DictInit, k) = {}
          BY <4>1 DEF Found
        <4>3. QED
          BY <4>2 DEF Get
      <3>3. Values(list, 0, k) = {}
        BY DEF Values
      <3> HIDE DEF d
      <3>4. QED
        BY <2>3, <2>4, <3>1, <3>2, <3>3, DictInitType
    <2>5. CASE i # 0
      <3> DEFINE e == list[i]
      <3>1. i \in 1..Len(list) /\ i - 1 \in 0..Len(list) /\ ~(i <= i - 1)
        BY <1>1, <2>3, <2>5
      <3>2. Right(i - 1)
        BY <2>2, <3>1
      <3>3. d(i) = Put(d(i - 1), e.k, e.v)
        BY <3>1, PutsAre
      <3>4. e.k \in Keys /\ e.v \in V
        BY <1>1, <3>1
      <3> HIDE DEF d, e
      <3>5. /\ d(i) \in Dicts(V) /\ Get(d(i), e.k) = e.v
            /\ k # e.k => Get(d(i), k) = Get(d(i - 1), k)
        BY <3>2, <3>3, <3>4, GetPut
      <3>6. \A j : j \in 1..i <=> j \in 1..i - 1 \/ j = i
        BY <3>1
      <3>7. Values(list, i, k) = Values(list, i - 1, k) \cup (IF e.k = k THEN {e.v} ELSE {})
        BY <3>6 DEF Values, e
      <3> HIDE DEF Right
      <3>8. Right(i)
        BY <3>2, <3>5, <3>7 DEF Right
      <3>9. QED
        BY <2>3, <3>8
    <2>6. QED
      BY <2>4, <2>5
  <1>3. Right(Len(list))
    <2>1. Len(list) \in 0..Len(list)
      BY <1>1
    <2> HIDE DEF Right
    <2>2. QED
      BY <1>2, <2>1
  <1>4. PutAll(list) = d(Len(list))
    BY PutsAre
  <1>5. QED
    BY <1>3, <1>4

(* Every name of hf_list finds its handler and no other name finds one,    *)
(* whatever names collide (web/http_request.c:87, 254).                    *)
THEOREM HandlersFound ==
    \A k \in Keys :
        Get(HeaderDict, k) =
            IF k \in {"content-length", "connection", "transfer-encoding"} THEN k
            ELSE IF k = "host" THEN "base" ELSE Null
  <1> DEFINE V == {"content-length", "connection", "base", "transfer-encoding"}
             d1 == Put(DictInit, "content-length", "content-length")
             d2 == Put(d1, "connection", "connection")
             d3 == Put(d2, "host", "base")
             d4 == Put(d3, "transfer-encoding", "transfer-encoding")
  <1>1. {"content-length", "connection", "host", "transfer-encoding"} \subseteq Keys
    BY RequestAssumption
  <1>2. DictInit \in Dicts(V) /\ \A k \in Keys : Get(DictInit, k) = Null
    BY DictInitType DEF Get, Found, DictInit, Buckets
  <1>3. /\ d1 \in Dicts(V)
        /\ Get(d1, "content-length") = "content-length"
        /\ \A k \in Keys \ {"content-length"} : Get(d1, k) = Get(DictInit, k)
    BY <1>1, <1>2, GetPut
  <1> HIDE DEF d1
  <1>4. /\ d2 \in Dicts(V)
        /\ Get(d2, "connection") = "connection"
        /\ \A k \in Keys \ {"connection"} : Get(d2, k) = Get(d1, k)
    BY <1>1, <1>3, GetPut
  <1> HIDE DEF d2
  <1>5. /\ d3 \in Dicts(V)
        /\ Get(d3, "host") = "base"
        /\ \A k \in Keys \ {"host"} : Get(d3, k) = Get(d2, k)
    BY <1>1, <1>4, GetPut
  <1> HIDE DEF d3
  <1>6. /\ Get(d4, "transfer-encoding") = "transfer-encoding"
        /\ \A k \in Keys \ {"transfer-encoding"} : Get(d4, k) = Get(d3, k)
    BY <1>1, <1>5, GetPut
  <1>7. HeaderDict = d4
    BY DEF HeaderDict, d1, d2, d3
  <1> HIDE DEF d4
  <1>8. QED
    BY <1>1, <1>2, <1>3, <1>4, <1>5, <1>6, <1>7

-----------------------------------------------------------------------------
(* The lines of a request.                                                 *)

LEMMA GreatestIn ==
  ASSUME NEW n \in Nat, NEW T \in SUBSET (1..n), T # {}
  PROVE  Max(T) \in T /\ \A x \in T : x <= Max(T)
  <1> DEFINE D == {n - x : x \in T}
  <1>0. \A x \in T : x \in 1..n /\ n - x \in Nat
    OBVIOUS
  <1>1. D \in SUBSET Nat /\ D # {}
    <2>1. D \in SUBSET Nat
      BY <1>0
    <2>2. PICK x \in T : TRUE
      OBVIOUS
    <2>3. n - x \in D
      BY <2>2
    <2>4. QED
      BY <2>1, <2>3
  <1>2. PICK m \in D : \A d \in D : m <= d
    BY <1>1, LeastNat
  <1>3. PICK t \in T : m = n - t
    BY <1>2
  <1>4. \A x \in T : x <= t
    <2>1. SUFFICES ASSUME NEW x \in T PROVE x <= t
      OBVIOUS
    <2>2. n - x \in D
      OBVIOUS
    <2>3. n - t <= n - x
      BY <1>2, <1>3, <2>2
    <2>4. QED
      BY <2>3
  <1>5. Max(T) = t
    <2>1. T \in SUBSET Int
      BY <1>0
    <2>2. QED
      BY <1>4, <2>1, MaxIs
  <1>6. QED
    BY <1>4, <1>5

(* A line more: the last line of a kind is the new one or what it was.     *)
LinedIn(s, name, values) ==
    {i \in DOMAIN s : Lower[s[i].name] = name /\ s[i].value \in values}

LatestIn(s, h, t, name, values) ==
    IF Lower[h.name] = name /\ h.value \in values
    THEN LinedIn(t, name, values) # {} /\ t[Max(LinedIn(t, name, values))] = h
    ELSE /\ LinedIn(t, name, values) = LinedIn(s, name, values)
         /\ LinedIn(s, name, values) # {} =>
               t[Max(LinedIn(t, name, values))] = s[Max(LinedIn(s, name, values))]

LEMMA LinedAppend ==
  ASSUME NEW s \in Seq(HeaderLines), NEW h \in HeaderLines, NEW t, t = Append(s, h),
         NEW name, NEW values
  PROVE  LatestIn(s, h, t, name, values)
  <1> DEFINE n == Len(s)
             old == LinedIn(s, name, values)
             new == LinedIn(t, name, values)
  <1>1. /\ n \in Nat /\ Len(t) = n + 1 /\ t[n + 1] = h
        /\ \A i \in 1..n : t[i] = s[i]
        /\ DOMAIN s = 1..n /\ DOMAIN t = 1..n + 1
    OBVIOUS
  <1>2. old \subseteq 1..n
    BY <1>1 DEF LinedIn
  <1>3. CASE Lower[h.name] = name /\ h.value \in values
    <2>1. n + 1 \in new /\ new \subseteq 1..n + 1
      BY <1>1, <1>3 DEF LinedIn
    <2>2. Max(new) = n + 1
      BY <1>1, <2>1, MaxIs
    <2>3. QED
      BY <1>1, <1>3, <2>1, <2>2 DEF LatestIn
  <1>4. CASE ~(Lower[h.name] = name /\ h.value \in values)
    <2>1. new = old
      BY <1>1, <1>4 DEF LinedIn
    <2>2. ASSUME old # {} PROVE t[Max(new)] = s[Max(old)]
      <3>1. Max(old) \in 1..n
        BY <1>1, <1>2, <2>2, GreatestIn
      <3>2. QED
        BY <1>1, <2>1, <3>1
    <2>3. QED
      BY <1>4, <2>1, <2>2 DEF LatestIn
  <1>5. QED
    BY <1>3, <1>4 DEF LatestIn

-----------------------------------------------------------------------------
(* The invariant: what each stage of a call has found out so far.          *)

InOrder ==
    /\ line.verdict = "OK"
    /\ ~(line.version[1] > 1) /\ ~(line.version[2] > 1)
    /\ line.file.kind \in {"file", "index"}

LengthIs ==
    \/ Lengths = {} /\ length = -1
    \/ /\ Lengths # {} /\ length = headers[Max(Lengths)].value
       /\ length \in Nat \ {0}

(* The status that the handlers give, requests that are not whole included. *)
Given ==
    IF line.verdict = "AGAIN" \/ ending = "cut" THEN AGAIN
    ELSE IF line.verdict = "INVALID_REQUEST" \/ ending = "bad" THEN 400
    ELSE IF line.version[1] > 1 \/ line.version[2] > 1 THEN 500
    ELSE IF line.file.kind \in {"none", "bare"} THEN 404
    ELSE IF Received(body) < Declared THEN AGAIN
    ELSE 200

Good == InOrder /\ ending = "crlf"

StatusGiven ==
    head # NoHead => head.status = Given /\ (head.status = 200 => Good)

BeforeHead ==
    pc \in {"line", "headers", "body", "respond", "error", "down"} => head = NoHead

AtLine ==
    pc = "line" => headers = <<>> /\ ending = "" /\ body = 0 /\ length = -1 /\ ~fd

AtHeaders ==
    /\ pc \in {"headers", "body"} => InOrder /\ (keep <=> Wanted) /\ LengthIs /\ body = 0
    /\ pc = "headers" => ending = ""
    /\ pc = "body" => ending = "crlf"

AtRespond == pc = "respond" => (keep <=> Wanted) /\ Given = 200 /\ Good

AtError == pc = "error" => status = Given /\ status \in {AGAIN, 400, 404, 500}

AtFile ==
    /\ pc = "file" => (keep <=> Wanted) /\ head.status = 200
    /\ pc \in {"file", "finish"} => head.status # 0
    /\ pc = "file" => (~keep => head.close) /\ (head.close => ~keep \/ overdue)

RInv ==
    /\ TypeOK /\ BeforeHead /\ AtLine /\ AtHeaders /\ AtRespond /\ AtError /\ AtFile
    /\ StatusGiven /\ KeepRight /\ FilesClosed

LEMMA HandlerIs ==
  ASSUME NEW h \in HeaderLines
  PROVE  /\ Handler(h) = "connection" <=> Lower[h.name] = "connection"
         /\ Handler(h) = "content-length" <=> Lower[h.name] = "content-length"
  <1>1. Lower[h.name] \in Keys
    BY RequestAssumption
  <1>2. Null \notin {"content-length", "connection", "base", "transfer-encoding"}
    BY RequestAssumption
  <1>3. QED
    BY <1>1, <1>2, HandlersFound DEF Handler

LEMMA RInvInit == Init => RInv
  <1> SUFFICES ASSUME Init PROVE RInv
    OBVIOUS
  <1>1. pc = "idle" /\ link = "open" /\ size = 0 /\ sent = 0 /\ body = 0 /\ lost = 0
    BY DEF Init
  <1>2. /\ line = NoLine /\ ending = "" /\ length = -1
        /\ ext = "html" /\ status = 0 /\ head = NoHead
    BY DEF Init
  <1>3. keep = FALSE /\ fd = FALSE /\ overdue = FALSE /\ pending = FALSE
    BY DEF Init
  <1>4. TypeOK
    <2>1. "html" \in Keys /\ 0 \in 0..MaxBody /\ 0 \in 0..MaxLeaks
      BY RequestAssumption
    <2>2. head.close \in BOOLEAN
      BY <1>2 DEF NoHead
    <2>3. /\ pc \in Stages /\ size \in Nat /\ sent \in Nat
          /\ body \in 0..MaxBody /\ lost \in 0..MaxLeaks
          /\ link \in {"open", "closing", "closed"}
      BY <1>1, <2>1 DEF Stages
    <2>4. headers \in Seq(HeaderLines)
      <3>1. <<>> \in Seq(HeaderLines)
        OBVIOUS
      <3>2. headers = <<>>
        BY Zenon DEF Init
      <3>3. QED
        BY <3>1, <3>2, Zenon
    <2>5. /\ line \in Lines \cup {NoLine} /\ ending \in {"", "crlf", "cut", "bad"}
          /\ (length = -1 \/ length \in Nat \ {0})
          /\ ext \in Keys /\ status \in {0, AGAIN, 400, 404, 500}
      BY <1>2, <2>1
    <2>6. keep \in BOOLEAN /\ fd \in BOOLEAN /\ overdue \in BOOLEAN /\ pending \in BOOLEAN
      BY <1>3
    <2>7. QED
      BY <2>2, <2>3, <2>4, <2>5, <2>6, Zenon DEF TypeOK
  <1>5. BeforeHead /\ AtLine /\ AtHeaders /\ AtRespond /\ AtError /\ AtFile
        /\ StatusGiven /\ KeepRight /\ FilesClosed
    BY <1>1, <1>2, <1>3 DEF BeforeHead, AtLine, AtHeaders, AtRespond, AtError, AtFile,
       StatusGiven, KeepRight, FilesClosed
  <1>6. QED
    BY <1>4, <1>5 DEF RInv

(* The lines of the call fix its status and what its client wants.         *)
LEMMA LinesFix ==
  ASSUME UNCHANGED <<line, headers>>
  PROVE  /\ Wanted' = Wanted
         /\ Lengths' = Lengths
         /\ length' = length => (LengthIs' <=> LengthIs)
         /\ InOrder' <=> InOrder
  BY DEF Wanted, Wishes, Lengths, Lined, LengthIs, InOrder

LEMMA GivenSame ==
  ASSUME UNCHANGED <<line, headers>>, UNCHANGED <<ending, body>>
  PROVE  Given' = Given /\ (Good' <=> Good)
  BY DEF Given, Declared, Received, Lengths, Lined, Good, InOrder

(* The invariant does not change with variables that do not change.        *)
TypeRequest == /\ line \in Lines \cup {NoLine} /\ headers \in Seq(HeaderLines)
               /\ ending \in {"", "crlf", "cut", "bad"} /\ body \in 0..MaxBody
TypePar == /\ keep \in BOOLEAN /\ (length = -1 \/ length \in Nat \ {0})
           /\ ext \in Keys /\ status \in {0, AGAIN, 400, 404, 500}
TypeFile == fd \in BOOLEAN /\ size \in Nat
TypeAnswer == head.close \in BOOLEAN /\ sent \in Nat /\ lost \in 0..MaxLeaks
TypeLink == /\ overdue \in BOOLEAN /\ pending \in BOOLEAN
            /\ link \in {"open", "closing", "closed"}

LEMMA TypeParts ==
  TypeOK <=> /\ pc \in Stages /\ TypeRequest /\ TypePar /\ TypeFile
             /\ TypeAnswer /\ TypeLink
  BY Zenon DEF TypeOK, TypeRequest, TypePar, TypeFile, TypeAnswer, TypeLink

LEMMA TypePartsPrimed ==
  TypeOK' <=> /\ pc' \in Stages /\ TypeRequest' /\ TypePar' /\ TypeFile'
              /\ TypeAnswer' /\ TypeLink'
  BY Zenon DEF TypeOK, TypeRequest, TypePar, TypeFile, TypeAnswer, TypeLink

LEMMA TypeSame ==
  /\ UNCHANGED requestVars => (TypeRequest' <=> TypeRequest)
  /\ UNCHANGED parVars => (TypePar' <=> TypePar)
  /\ UNCHANGED fileVars => (TypeFile' <=> TypeFile)
  /\ UNCHANGED <<head, sent, lost>> => (TypeAnswer' <=> TypeAnswer)
  /\ UNCHANGED <<overdue, linkVars>> => (TypeLink' <=> TypeLink)
  <1>1. UNCHANGED requestVars => (TypeRequest' <=> TypeRequest)
    BY Zenon DEF TypeRequest, requestVars
  <1>2. UNCHANGED parVars => (TypePar' <=> TypePar)
    BY DEF TypePar, parVars
  <1>3. UNCHANGED fileVars => (TypeFile' <=> TypeFile)
    BY Zenon DEF TypeFile, fileVars
  <1>4. UNCHANGED <<head, sent, lost>> => (TypeAnswer' <=> TypeAnswer)
    BY Zenon DEF TypeAnswer
  <1>5. UNCHANGED <<overdue, linkVars>> => (TypeLink' <=> TypeLink)
    BY Zenon DEF TypeLink, linkVars
  <1>6. QED
    BY <1>1, <1>2, <1>3, <1>4, <1>5, Zenon

LEMMA ReceiveKeeps == RInv /\ Receive => RInv'
  <1> SUFFICES ASSUME RInv, Receive PROVE RInv'
    OBVIOUS
  <1>1. TypeOK'
    <2>1. /\ UNCHANGED <<lost, overdue, pending, link, size>>
          /\ pc' = "line" /\ line' = NoLine /\ ending' = "" /\ body' = 0
          /\ length' = -1 /\ ext' = "html" /\ status' = 0 /\ head' = NoHead /\ sent' = 0
      BY DEF Receive, Reset, linkVars
    <2>2. keep' \in BOOLEAN /\ fd' \in BOOLEAN
      BY DEF Receive, Reset
    <2>3. headers' \in Seq(HeaderLines)
      <3>1. <<>> \in Seq(HeaderLines)
        OBVIOUS
      <3>2. headers' = <<>>
        BY Zenon DEF Receive
      <3>3. QED
        BY <3>1, <3>2, Zenon
    <2>4. "html" \in Keys /\ 0 \in 0..MaxBody
      BY RequestAssumption
    <2>5. NoHead.close \in BOOLEAN
      BY DEF NoHead
    <2>6. QED
      BY <2>1, <2>2, <2>3, <2>4, <2>5 DEF RInv, TypeOK, Stages
  <1>2. BeforeHead' /\ AtLine' /\ StatusGiven'
    BY DEF Receive, Reset, BeforeHead, AtLine, StatusGiven
  <1>3. AtHeaders' /\ AtRespond' /\ AtError' /\ AtFile' /\ KeepRight' /\ FilesClosed'
    BY DEF Receive, AtHeaders, AtRespond, AtError, AtFile, KeepRight, FilesClosed
  <1>4. QED
    BY <1>1, <1>2, <1>3 DEF RInv

LEMMA RequestLineKeeps == ASSUME RInv, NEW l \in Lines, RequestLine(l) PROVE RInv'
  <1>1. /\ pc = "line" /\ line' = l
        /\ UNCHANGED <<headers, ending, body, length, head, sent, lost, overdue, linkVars>>
    BY DEF RequestLine
  <1>2. ending' = "" /\ body' = 0 /\ length' = -1 /\ head' = NoHead
    BY <1>1, Zenon DEF RInv, AtLine, BeforeHead
  <1>3. /\ l.verdict \in Verdicts
        /\ l.verdict = "OK" => l.version \in Versions /\ l.file \in Files
        /\ l.verdict # "OK" => ~(l.version[1] > 1) /\ ~(l.version[2] > 1)
    BY DEF Lines, NoLine, Verdicts
  <1>4. pc' \in {"error", "headers", "down"}
    BY DEF RequestLine, Fail
  <1>5. TypeOK'
    <2>1. l.verdict = "OK" => l.file.ext \in Keys /\ l.file.size \in Nat
      BY <1>3, RequestAssumption
    <2>2. "html" \in Keys /\ IndexSize \in Nat
      BY RequestAssumption
    <2>3. keep \in BOOLEAN /\ fd \in BOOLEAN /\ ext \in Keys /\ size \in Nat
      BY DEF RInv, TypeOK
    <2>4. keep' \in BOOLEAN
      BY <2>3, Zenon DEF RequestLine
    <2>5. ext' \in Keys
      BY <2>1, <2>2, <2>3, Zenon DEF RequestLine, OpenResource
    <2>6. size' \in Nat /\ fd' \in BOOLEAN
      BY <2>1, <2>2, <2>3 DEF RequestLine, OpenResource, fileVars
    <2>7. status' \in {0, AGAIN, 400, 404, 500}
      <3>1. status \in {0, AGAIN, 400, 404, 500}
        BY DEF RInv, TypeOK
      <3>2. status' \in {status, AGAIN, 400, 404, 500}
        BY Zenon DEF RequestLine, Fail
      <3>3. QED
        BY <3>1, <3>2
    <2>8. pc' \in Stages
      BY <1>4 DEF Stages
    <2>9. TypeRequest /\ TypePar /\ TypeFile /\ TypeAnswer /\ TypeLink
      BY TypeParts, Zenon DEF RInv
    <2>10. TypeRequest'
      BY <1>1, <2>9, Zenon DEF TypeRequest
    <2>11. TypePar'
      BY <1>1, <2>4, <2>5, <2>7, <2>9, Zenon DEF TypePar
    <2>12. UNCHANGED <<head, sent, lost>> /\ UNCHANGED <<overdue, linkVars>>
      BY <1>1, Zenon
    <2>13. TypeFile'
      BY <2>6, Zenon DEF TypeFile
    <2>14. QED
      BY <2>8, <2>9, <2>10, <2>11, <2>12, <2>13, TypeSame, TypePartsPrimed, Zenon
  <1>6. Wishes' = {} /\ Lengths' = {}
    <2>1. DOMAIN headers' = {}
      <3>1. DOMAIN <<>> = {}
        OBVIOUS
      <3>2. headers' = <<>>
        BY <1>1, Zenon DEF RInv, AtLine
      <3>3. QED
        BY <3>1, <3>2, Zenon
    <2>2. QED
      BY <2>1, Zenon DEF Wishes, Lengths, Lined
  <1>7. AtError'
    <2>1. CASE l.verdict = "AGAIN"
      BY <1>1, <1>2, <2>1 DEF RequestLine, Fail, AtError, Given
    <2>2. CASE l.verdict = "INVALID_REQUEST"
      BY <1>1, <1>2, <2>2 DEF RequestLine, Fail, AtError, Given
    <2>3. CASE l.verdict = "OK"
      <3>1. \/ /\ l.version[1] > 1 \/ l.version[2] > 1
               /\ status' = 500
            \/ /\ l.version[1] <= 1 /\ l.version[2] <= 1
               /\ l.file.kind \in {"none", "bare"} /\ status' = 404
            \/ pc' \in {"headers", "down"}
        BY <2>3, Zenon DEF RequestLine, Fail
      <3>2. l.version[1] \in Nat /\ l.version[2] \in Nat
        BY <1>3, <2>3, RequestAssumption
      <3>3. /\ line' = l /\ l.verdict # "AGAIN" /\ l.verdict # "INVALID_REQUEST"
            /\ ending' # "cut" /\ ending' # "bad"
        BY <1>1, <1>2, <2>3
      <3>4. CASE pc' \in {"headers", "down"}
        BY <3>4 DEF AtError
      <3>5. CASE pc' \notin {"headers", "down"} /\ (l.version[1] > 1 \/ l.version[2] > 1)
        <4>1. Given' = 500
          BY <3>3, <3>5, Zenon DEF Given
        <4>2. status' = 500
          BY <3>1, <3>2, <3>5
        <4>3. QED
          BY <4>1, <4>2 DEF AtError
      <3>6. CASE pc' \notin {"headers", "down"} /\ ~(l.version[1] > 1 \/ l.version[2] > 1)
        <4>1. l.file.kind \in {"none", "bare"} /\ status' = 404
          BY <3>1, <3>6
        <4>2. Given' = 404
          BY <3>3, <3>6, <4>1, Zenon DEF Given
        <4>3. QED
          BY <4>1, <4>2 DEF AtError
      <3>7. QED
        BY <3>4, <3>5, <3>6
    <2>4. QED
      BY <1>3, <2>1, <2>2, <2>3 DEF Verdicts
  <1>8. AtHeaders'
    <2>1. SUFFICES ASSUME pc' = "headers" PROVE AtHeaders'
      BY <1>4 DEF AtHeaders
    <2>2. InOrder' /\ keep' = (l.version = <<1, 1>>)
      <3>1. /\ l.verdict = "OK"
            /\ l.version[1] <= 1 /\ l.version[2] <= 1
            /\ l.file.kind \in {"file", "index"}
            /\ keep' = (l.version = <<1, 1>>)
        BY <2>1 DEF RequestLine, Fail
      <3>2. l.version[1] \in Nat /\ l.version[2] \in Nat
        BY <1>3, <3>1, RequestAssumption
      <3>3. QED
        BY <1>1, <3>1, <3>2 DEF InOrder
    <2>3. (keep' <=> Wanted')
      BY <1>1, <1>6, <2>2 DEF Wanted
    <2>4. LengthIs'
      BY <1>2, <1>6 DEF LengthIs
    <2>5. QED
      BY <1>2, <2>1, <2>2, <2>3, <2>4 DEF AtHeaders
  <1>9. BeforeHead' /\ AtLine' /\ AtRespond' /\ AtFile' /\ StatusGiven' /\ KeepRight'
        /\ FilesClosed'
    BY <1>2, <1>4 DEF BeforeHead, AtLine, AtRespond, AtFile, StatusGiven, KeepRight,
       FilesClosed
  <1>10. QED
    BY <1>5, <1>7, <1>8, <1>9 DEF RInv

LEMMA WishesAppend ==
  ASSUME headers \in Seq(HeaderLines), NEW h \in HeaderLines,
         headers' = Append(headers, h)
  PROVE  IF Lower[h.name] = "connection" /\ h.value \in {"keep-alive", "close"}
         THEN Wishes' # {} /\ headers'[Max(Wishes')] = h
         ELSE Wishes' = Wishes
              /\ (Wishes # {} => headers'[Max(Wishes')] = headers[Max(Wishes)])
  <1>1. LatestIn(headers, h, headers', "connection", {"keep-alive", "close"})
    BY LinedAppend, Zenon
  <1>2. Wishes = LinedIn(headers, "connection", {"keep-alive", "close"})
    BY DEF Wishes, Lined, LinedIn
  <1>3. Wishes' = LinedIn(headers', "connection", {"keep-alive", "close"})
    BY DEF Wishes, Lined, LinedIn
  <1>4. QED
    BY <1>1, <1>2, <1>3, Zenon DEF LatestIn

LEMMA LengthsAppend ==
  ASSUME headers \in Seq(HeaderLines), NEW h \in HeaderLines,
         headers' = Append(headers, h)
  PROVE  IF Lower[h.name] = "content-length" /\ h.value \in Nat \ {0}
         THEN Lengths' # {} /\ headers'[Max(Lengths')] = h
         ELSE Lengths' = Lengths
              /\ (Lengths # {} => headers'[Max(Lengths')] = headers[Max(Lengths)])
  <1>1. LatestIn(headers, h, headers', "content-length", Nat \ {0})
    BY LinedAppend, Zenon
  <1>2. Lengths = LinedIn(headers, "content-length", Nat \ {0})
    BY DEF Lengths, Lined, LinedIn
  <1>3. Lengths' = LinedIn(headers', "content-length", Nat \ {0})
    BY DEF Lengths, Lined, LinedIn
  <1>4. QED
    BY <1>1, <1>2, <1>3, Zenon DEF LatestIn

LEMMA HeaderLineKeeps == ASSUME RInv, NEW h \in HeaderLines, HeaderLine(h) PROVE RInv'
  <1>0. Null # "connection" /\ Null # "content-length"
    BY RequestAssumption
  <1>1. /\ pc = "headers" /\ pc' = "headers" /\ headers' = Append(headers, h)
        /\ UNCHANGED <<line, ending, body, ext, status, fd, size, head, sent, lost,
                       overdue, pending, link>>
    BY DEF HeaderLine, fileVars, linkVars
  <1>2. headers \in Seq(HeaderLines) /\ headers' \in Seq(HeaderLines)
    <2>1. headers \in Seq(HeaderLines)
      BY Zenon DEF RInv, TypeOK
    <2>2. QED
      BY <1>1, <2>1
  <1>3. InOrder /\ (keep <=> Wanted) /\ LengthIs /\ body = 0 /\ ending = "" /\ head = NoHead
    BY <1>1, Zenon DEF RInv, AtHeaders, BeforeHead
  <1>4. keep' \in BOOLEAN /\ (keep' <=> Wanted')
    <2>1. IF Lower[h.name] = "connection" THEN Connection(h) ELSE keep' = keep
      <3>1. \/ Handler(h) = "connection" /\ Connection(h)
            \/ Handler(h) # "connection" /\ keep' = keep
        BY <1>0, Zenon DEF HeaderLine
      <3>2. QED
        BY <3>1, HandlerIs, Zenon
    <2>2. keep \in BOOLEAN
      BY Zenon DEF RInv, TypeOK
    <2>3. CASE Lower[h.name] = "connection" /\ h.value \in {"keep-alive", "close"}
      <3>1. Wanted' <=> h.value = "keep-alive"
        BY <1>1, <1>2, <2>3, WishesAppend, Zenon DEF Wanted
      <3>2. keep' = IF h.value = "keep-alive" THEN TRUE ELSE FALSE
        BY <2>1, <2>3 DEF Connection
      <3>3. QED
        BY <3>1, <3>2
    <2>4. CASE ~(Lower[h.name] = "connection" /\ h.value \in {"keep-alive", "close"})
      <3>1. /\ Wishes' = Wishes
            /\ Wishes # {} => headers'[Max(Wishes')] = headers[Max(Wishes)]
        BY <1>1, <1>2, <2>4, WishesAppend, Zenon
      <3>2. Wanted' <=> Wanted
        BY <1>1, <3>1, Zenon DEF Wanted
      <3>3. keep' = keep
        BY <2>1, <2>4, Zenon DEF Connection
      <3>4. QED
        BY <1>3, <2>2, <3>2, <3>3, Zenon
    <2>5. QED
      BY <2>3, <2>4
  <1>5. LengthIs' /\ (length' = -1 \/ length' \in Nat \ {0})
    <2>1. length' = IF Lower[h.name] = "content-length" /\ h.value > 0
                    THEN h.value ELSE length
      <3>1. IF Handler(h) = "content-length"
            THEN length' = IF h.value > 0 THEN h.value ELSE length
            ELSE length' = length
        BY <1>0, Zenon DEF HeaderLine
      <3>2. QED
        BY <3>1, HandlerIs, Zenon
    <2>2. Lower[h.name] = "content-length" => h.value \in Int
      BY RequestAssumption
    <2>3. CASE Lower[h.name] = "content-length" /\ h.value \in Nat \ {0}
      <3>1. length' = h.value
        BY <2>1, <2>3
      <3>2. Lengths' # {} /\ headers'[Max(Lengths')] = h
        BY <1>1, <1>2, <2>3, LengthsAppend, Zenon
      <3>3. QED
        BY <2>3, <3>1, <3>2 DEF LengthIs
    <2>4. CASE ~(Lower[h.name] = "content-length" /\ h.value \in Nat \ {0})
      <3>1. length' = length
        BY <2>1, <2>2, <2>4
      <3>2. /\ Lengths' = Lengths
            /\ Lengths # {} => headers'[Max(Lengths')] = headers[Max(Lengths)]
        BY <1>1, <1>2, <2>4, LengthsAppend, Zenon
      <3>3. QED
        BY <1>3, <3>1, <3>2, Zenon DEF LengthIs
    <2>5. QED
      BY <2>3, <2>4
  <1>6. TypeOK'
    <2>1. TypeRequest /\ TypePar /\ TypeFile /\ TypeAnswer /\ TypeLink
      BY TypeParts, Zenon DEF RInv
    <2>2. pc' \in Stages
      BY <1>1 DEF Stages
    <2>3. TypeRequest'
      BY <1>1, <1>2, <2>1, Zenon DEF TypeRequest
    <2>4. TypePar'
      BY <1>1, <1>4, <1>5, <2>1, Zenon DEF TypePar
    <2>5. UNCHANGED fileVars /\ UNCHANGED <<head, sent, lost>>
          /\ UNCHANGED <<overdue, linkVars>>
      BY <1>1, Zenon DEF fileVars, linkVars
    <2>6. QED
      BY <2>1, <2>2, <2>3, <2>4, <2>5, TypeSame, TypePartsPrimed, Zenon
  <1>7. AtHeaders'
    <2>1. InOrder'
      BY <1>1, <1>3, Zenon DEF InOrder
    <2>2. QED
      BY <1>1, <1>3, <1>4, <1>5, <2>1 DEF AtHeaders
  <1>8. BeforeHead' /\ AtLine' /\ AtRespond' /\ AtError' /\ AtFile' /\ StatusGiven'
        /\ KeepRight' /\ FilesClosed'
    BY <1>1, <1>3 DEF BeforeHead, AtLine, AtRespond, AtError, AtFile, StatusGiven,
       KeepRight, FilesClosed
  <1>9. QED
    BY <1>6, <1>7, <1>8 DEF RInv

LEMMA HeadersEndKeeps ==
  ASSUME RInv, NEW e \in {"crlf", "cut", "bad"}, HeadersEnd(e) PROVE RInv'
  <1>1. /\ pc = "headers" /\ ending' = e
        /\ UNCHANGED <<line, headers, body, keep, length, ext>>
    BY Zenon DEF HeadersEnd
  <1>2. UNCHANGED fileVars /\ UNCHANGED <<head, sent, lost>> /\ UNCHANGED <<overdue, linkVars>>
    BY Zenon DEF HeadersEnd
  <1>3. InOrder /\ (keep <=> Wanted) /\ LengthIs /\ body = 0 /\ head = NoHead
    BY <1>1, Zenon DEF RInv, AtHeaders, BeforeHead
  <1>4. InOrder' /\ (keep' <=> Wanted') /\ LengthIs' /\ body' = 0 /\ head' = NoHead
    <2>1. UNCHANGED <<line, headers>> /\ length' = length
      BY <1>1, Zenon
    <2>2. (Wanted' <=> Wanted) /\ (LengthIs' <=> LengthIs) /\ (InOrder' <=> InOrder)
      BY <2>1, LinesFix
    <2>3. QED
      BY <1>1, <1>2, <1>3, <2>2, Zenon
  <1>5. \/ e = "crlf" /\ pc' = "body" /\ status' = status
        \/ e = "cut" /\ pc' = "error" /\ status' = AGAIN
        \/ e = "bad" /\ pc' = "error" /\ status' = 400
    BY Zenon DEF HeadersEnd, Fail
  <1>6. TypeOK'
    <2>1. /\ TypeRequest /\ TypePar /\ TypeFile /\ TypeAnswer /\ TypeLink
      BY TypeParts, Zenon DEF RInv
    <2>2. TypeRequest'
      BY <1>1, <2>1, Zenon DEF TypeRequest
    <2>3. status' \in {0, AGAIN, 400, 404, 500}
      BY <1>5, <2>1 DEF TypePar
    <2>4. TypePar'
      BY <1>1, <2>1, <2>3, Zenon DEF TypePar
    <2>5. pc' \in Stages
      BY <1>5 DEF Stages
    <2>6. QED
      BY <1>2, <2>1, <2>2, <2>4, <2>5, TypeSame, TypePartsPrimed, Zenon
  <1>7. AtError'
    <2>1. pc' = "error" => Given' = status' /\ status' \in {AGAIN, 400}
      <3>1. line'.verdict = "OK"
        BY <1>4 DEF InOrder
      <3>2. QED
        BY <1>1, <1>5, <3>1 DEF Given
    <2>2. QED
      BY <2>1 DEF AtError
  <1>8. AtHeaders'
    BY <1>1, <1>4, <1>5 DEF AtHeaders
  <1>9. BeforeHead' /\ AtLine' /\ AtRespond' /\ AtFile' /\ StatusGiven' /\ KeepRight'
        /\ FilesClosed'
    BY <1>4, <1>5 DEF BeforeHead, AtLine, AtRespond, AtFile, StatusGiven, KeepRight,
       FilesClosed
  <1>10. QED
    BY <1>6, <1>7, <1>8, <1>9 DEF RInv

LEMMA BodyKeeps == ASSUME RInv, NEW n \in 0..MaxBody, Body(n) PROVE RInv'
  <1>1. /\ pc = "body" /\ body' = n
        /\ UNCHANGED <<line, headers, ending, keep, length, ext>>
    BY Zenon DEF Body
  <1>2. UNCHANGED fileVars /\ UNCHANGED <<head, sent, lost>> /\ UNCHANGED <<overdue, linkVars>>
    BY Zenon DEF Body
  <1>3. InOrder /\ (keep <=> Wanted) /\ LengthIs /\ ending = "crlf" /\ head = NoHead
    BY <1>1, Zenon DEF RInv, AtHeaders, BeforeHead
  <1>4. /\ InOrder' /\ (keep' <=> Wanted') /\ LengthIs' /\ ending' = "crlf"
        /\ head' = NoHead
    <2>1. UNCHANGED <<line, headers>> /\ length' = length
      BY <1>1, Zenon
    <2>2. (Wanted' <=> Wanted) /\ (LengthIs' <=> LengthIs) /\ (InOrder' <=> InOrder)
      BY <2>1, LinesFix
    <2>3. QED
      BY <1>1, <1>2, <1>3, <2>2, Zenon
  <1>5. \/ pc' = "respond" /\ status' = status /\ (length <= 0 \/ Received(n) >= length)
        \/ pc' = "error" /\ status' = AGAIN /\ length > 0 /\ Received(n) < length
    BY Zenon DEF Body, Fail
  <1>6. TypeRequest /\ TypePar /\ TypeFile /\ TypeAnswer /\ TypeLink
    BY TypeParts, Zenon DEF RInv
  <1>7. TypeOK'
    <2>1. TypeRequest'
      BY <1>1, <1>6, Zenon DEF TypeRequest
    <2>2. status' \in {0, AGAIN, 400, 404, 500}
      BY <1>5, <1>6 DEF TypePar
    <2>3. TypePar'
      BY <1>1, <1>6, <2>2, Zenon DEF TypePar
    <2>4. pc' \in Stages
      BY <1>5 DEF Stages
    <2>5. QED
      BY <1>2, <1>6, <2>1, <2>3, <2>4, TypeSame, TypePartsPrimed, Zenon
  <1>8. Given' = IF Received(n) < Declared' THEN AGAIN ELSE 200
    <2>1. /\ line'.verdict = "OK" /\ ending' # "cut" /\ ending' # "bad"
          /\ ~(line'.version[1] > 1) /\ ~(line'.version[2] > 1)
          /\ line'.file.kind # "none" /\ line'.file.kind # "bare"
      BY <1>4 DEF InOrder
    <2>2. Received(body)' = Received(n)
      BY <1>1, Zenon DEF Received
    <2>3. QED
      BY <2>1, <2>2 DEF Given
  <1>9. Received(n) \in Nat
    <2>1. Len(headers) \in Nat
      <3>1. headers \in Seq(HeaderLines)
        BY <1>6, Zenon DEF TypeRequest
      <3>2. QED
        BY <3>1
    <2>2. n \in Nat
      BY RequestAssumption
    <2>3. QED
      BY <2>1, <2>2 DEF Received
  <1>10. \/ length = -1 /\ Declared' = 0
         \/ length \in Nat \ {0} /\ Declared' = length
    BY <1>1, <1>4, Zenon DEF LengthIs, Declared
  <1>11. /\ pc' = "respond" => Given' = 200
         /\ pc' = "error" => Given' = AGAIN
    BY <1>5, <1>8, <1>9, <1>10
  <1>12. AtError' /\ AtRespond'
    BY <1>4, <1>5, <1>11 DEF AtError, AtRespond, Good
  <1>13. BeforeHead' /\ AtLine' /\ AtHeaders' /\ AtFile' /\ StatusGiven' /\ KeepRight'
         /\ FilesClosed'
    BY <1>4, <1>5 DEF BeforeHead, AtLine, AtHeaders, AtFile, StatusGiven, KeepRight,
       FilesClosed
  <1>14. QED
    BY <1>7, <1>12, <1>13 DEF RInv

LEMMA RespondKeeps == RInv /\ Respond => RInv'
  <1> SUFFICES ASSUME RInv, Respond PROVE RInv'
    OBVIOUS
  <1>1. /\ pc = "respond" /\ pc' \in {"file", "finish"} /\ pending' \in BOOLEAN
        /\ link' = link /\ sent' = sent /\ lost' = lost /\ overdue' = overdue /\ fd' = fd
    BY DEF Respond, fileVars
  <1>2. UNCHANGED requestVars /\ UNCHANGED parVars /\ UNCHANGED fileVars
    BY Zenon DEF Respond
  <1>3. UNCHANGED <<line, headers>> /\ UNCHANGED <<ending, body>> /\ keep' = keep
    BY <1>2, Zenon DEF requestVars, parVars
  <1>4. head' = [status |-> 200, type |-> ContentType(ext), length |-> size,
                 close |-> SaysClose(keep)]
    BY Zenon DEF Respond
  <1>5. head'.status = 200 /\ head'.close = SaysClose(keep)
    BY <1>4
  <1>6. TypeRequest /\ TypePar /\ TypeFile /\ TypeAnswer /\ TypeLink
    BY TypeParts, Zenon DEF RInv
  <1>7. keep \in BOOLEAN /\ overdue \in BOOLEAN
    BY <1>6, Zenon DEF TypePar, TypeLink
  <1>8. head'.close \in BOOLEAN /\ (head'.close <=> ~keep \/ overdue)
    BY <1>5 DEF SaysClose
  <1>9. TypeOK'
    <2>1. TypeAnswer' /\ TypeLink'
      BY <1>1, <1>6, <1>7, <1>8, Zenon DEF TypeAnswer, TypeLink
    <2>2. pc' \in Stages
      BY <1>1 DEF Stages
    <2>3. QED
      BY <1>2, <1>6, <2>1, <2>2, TypeSame, TypePartsPrimed, Zenon
  <1>10. (keep <=> Wanted) /\ Given = 200 /\ Good
    BY <1>1, Zenon DEF RInv, AtRespond
  <1>11. (keep' <=> Wanted') /\ Given' = 200 /\ Good'
    <2>1. (Wanted' <=> Wanted) /\ Given' = Given /\ (Good' <=> Good)
      BY <1>3, LinesFix, GivenSame
    <2>2. QED
      BY <1>3, <1>10, <2>1, Zenon
  <1>12. KeepRight' /\ StatusGiven' /\ AtFile'
    BY <1>1, <1>3, <1>5, <1>8, <1>11 DEF KeepRight, StatusGiven, AtFile
  <1>13. BeforeHead' /\ AtLine' /\ AtHeaders' /\ AtRespond' /\ AtError' /\ FilesClosed'
    BY <1>1 DEF BeforeHead, AtLine, AtHeaders, AtRespond, AtError, FilesClosed
  <1>14. QED
    BY <1>9, <1>12, <1>13 DEF RInv

LEMMA SendFileKeeps == RInv /\ SendFile => RInv'
  <1> SUFFICES ASSUME RInv, SendFile PROVE RInv'
    OBVIOUS
  <1>1. pc = "file" /\ pc' = "finish" /\ sent' \in 0..size /\ UNCHANGED <<head, lost, overdue>>
    BY Zenon DEF SendFile
  <1>2. UNCHANGED requestVars /\ UNCHANGED parVars /\ UNCHANGED fileVars /\ UNCHANGED linkVars
    BY Zenon DEF SendFile
  <1>3. UNCHANGED <<line, headers>> /\ UNCHANGED <<ending, body>> /\ keep' = keep
    BY <1>2, Zenon DEF requestVars, parVars
  <1>4. TypeRequest /\ TypePar /\ TypeFile /\ TypeAnswer /\ TypeLink
    BY TypeParts, Zenon DEF RInv
  <1>5. TypeOK'
    <2>1. sent' \in Nat
      BY <1>1, <1>4 DEF TypeFile
    <2>2. TypeAnswer'
      BY <1>1, <1>4, <2>1, Zenon DEF TypeAnswer
    <2>3. pc' \in Stages
      BY <1>1 DEF Stages
    <2>4. UNCHANGED <<overdue, linkVars>>
      BY <1>1, <1>2, Zenon
    <2>5. QED
      BY <1>2, <1>4, <2>2, <2>3, <2>4, TypeSame, TypePartsPrimed, Zenon
  <1>6. /\ (keep <=> Wanted) /\ head.status = 200 /\ Given = 200 /\ Good
        /\ (~keep => head.close) /\ (head.close => ~keep \/ overdue)
    <2>1. head # NoHead
      BY <1>1 DEF RInv, AtFile, NoHead
    <2>2. QED
      BY <1>1, <2>1, Zenon DEF RInv, AtFile, StatusGiven
  <1>7. /\ (keep' <=> Wanted') /\ head'.status = 200 /\ Given' = 200 /\ Good'
        /\ (~keep' => head'.close) /\ (head'.close => ~keep' \/ overdue')
    <2>1. (Wanted' <=> Wanted) /\ Given' = Given /\ (Good' <=> Good)
      BY <1>3, LinesFix, GivenSame
    <2>2. QED
      BY <1>1, <1>3, <1>6, <2>1, Zenon
  <1>8. KeepRight' /\ StatusGiven' /\ AtFile'
    BY <1>1, <1>7 DEF KeepRight, StatusGiven, AtFile
  <1>9. BeforeHead' /\ AtLine' /\ AtHeaders' /\ AtRespond' /\ AtError' /\ FilesClosed'
    BY <1>1 DEF BeforeHead, AtLine, AtHeaders, AtRespond, AtError, FilesClosed
  <1>10. QED
    BY <1>5, <1>8, <1>9 DEF RInv

(* A call starts below the bound, and only its error page can lose one.    *)
Below == pc \notin {"idle", "finish"} => lost < MaxLeaks

LEMMA AssembleErrorKeeps == RInv /\ Below /\ AssembleError => RInv'
  <1> SUFFICES ASSUME RInv, Below, AssembleError PROVE RInv'
    OBVIOUS
  <1>1. /\ pc = "error" /\ pc' = "finish" /\ keep' = FALSE /\ pending' = TRUE
        /\ UNCHANGED <<length, ext, status, sent, overdue, link>>
    BY Zenon DEF AssembleError
  <1>2. UNCHANGED requestVars /\ UNCHANGED fileVars
    BY Zenon DEF AssembleError
  <1>3. UNCHANGED <<line, headers>> /\ UNCHANGED <<ending, body>>
    BY <1>2, Zenon DEF requestVars
  <1>4. lost' \in {lost, lost + 1}
    BY DEF AssembleError
  <1>5. head' = [status |-> status, type |-> Html, length |-> size,
                 close |-> SaysClose(FALSE)]
    BY Zenon DEF AssembleError
  <1>6. head'.status = status /\ head'.close = TRUE
    BY <1>5 DEF SaysClose
  <1>7. TypeRequest /\ TypePar /\ TypeFile /\ TypeAnswer /\ TypeLink
    BY TypeParts, Zenon DEF RInv
  <1>8. TypeOK'
    <2>1. lost' \in 0..MaxLeaks
      BY <1>1, <1>4, <1>7, RequestAssumption DEF TypeAnswer, Below
    <2>2. TypeAnswer'
      BY <1>1, <1>6, <1>7, <2>1 DEF TypeAnswer
    <2>3. TypePar'
      BY <1>1, <1>7 DEF TypePar
    <2>4. TypeLink'
      BY <1>1, <1>7 DEF TypeLink
    <2>5. pc' \in Stages
      BY <1>1 DEF Stages
    <2>6. QED
      BY <1>2, <1>7, <2>2, <2>3, <2>4, <2>5, TypeSame, TypePartsPrimed, Zenon
  <1>9. status = Given /\ status \in {AGAIN, 400, 404, 500} /\ Given' = Given
    <2>1. status = Given /\ status \in {AGAIN, 400, 404, 500}
      BY <1>1, Zenon DEF RInv, AtError
    <2>2. QED
      BY <1>3, <2>1, GivenSame, Zenon
  <1>10. KeepRight' /\ StatusGiven' /\ AtFile'
    BY <1>1, <1>6, <1>9 DEF KeepRight, StatusGiven, AtFile, AGAIN
  <1>11. BeforeHead' /\ AtLine' /\ AtHeaders' /\ AtRespond' /\ AtError' /\ FilesClosed'
    BY <1>1 DEF BeforeHead, AtLine, AtHeaders, AtRespond, AtError, FilesClosed
  <1>12. QED
    BY <1>8, <1>10, <1>11 DEF RInv

LEMMA FinishKeeps == RInv /\ Finish => RInv'
  <1> SUFFICES ASSUME RInv, Finish PROVE RInv'
    OBVIOUS
  <1>1. /\ pc = "finish" /\ pc' = "idle"
        /\ UNCHANGED <<head, sent, lost, overdue, pending, size>>
    BY Zenon DEF Finish
  <1>2. UNCHANGED requestVars /\ UNCHANGED parVars
    BY Zenon DEF Finish
  <1>3. UNCHANGED <<line, headers>> /\ UNCHANGED <<ending, body>>
    BY <1>2, Zenon DEF requestVars
  <1>4. TypeRequest /\ TypePar /\ TypeFile /\ TypeAnswer /\ TypeLink
    BY TypeParts, Zenon DEF RInv
  <1>5. TypeOK'
    <2>1. link' \in {link, "closing", "closed"}
      BY DEF Finish, Disconnect
    <2>2. TypeLink'
      BY <1>1, <1>4, <2>1 DEF TypeLink
    <2>3. fd' = FALSE \/ fd' = fd
      BY Zenon DEF Finish, Unint
    <2>4. TypeFile'
      BY <1>1, <1>4, <2>3 DEF TypeFile
    <2>5. pc' \in Stages
      BY <1>1 DEF Stages
    <2>6. UNCHANGED <<head, sent, lost>>
      BY <1>1, Zenon
    <2>7. QED
      BY <1>2, <1>4, <2>2, <2>4, <2>5, <2>6, TypeSame, TypePartsPrimed, Zenon
  <1>6. FilesClosed'
    BY Zenon DEF Finish, Unint, FilesClosed
  <1>7. StatusGiven'
    <2>1. Given' = Given /\ (Good' <=> Good) /\ StatusGiven
      BY <1>3, GivenSame, Zenon DEF RInv
    <2>2. QED
      BY <1>1, <2>1, Zenon DEF StatusGiven, NoHead
  <1>8. BeforeHead' /\ AtLine' /\ AtHeaders' /\ AtRespond' /\ AtError' /\ AtFile' /\ KeepRight'
    BY <1>1 DEF BeforeHead, AtLine, AtHeaders, AtRespond, AtError, AtFile, KeepRight
  <1>9. QED
    BY <1>5, <1>6, <1>7, <1>8 DEF RInv

LEMMA BetweenKeeps == RInv /\ (Flush \/ PassiveClose \/ TimePasses) => RInv'
  <1> SUFFICES ASSUME RInv, Flush \/ PassiveClose \/ TimePasses PROVE RInv'
    OBVIOUS
  <1>1. UNCHANGED requestVars /\ UNCHANGED parVars /\ UNCHANGED fileVars
        /\ UNCHANGED <<head, sent, lost>> /\ pc' = pc
    BY Zenon DEF Flush, PassiveClose, TimePasses
  <1>2. TypeRequest /\ TypePar /\ TypeFile /\ TypeAnswer /\ TypeLink
    BY TypeParts, Zenon DEF RInv
  <1>3. TypeLink' /\ (link = "closed" => link' = "closed") /\ (overdue => overdue')
    BY <1>2 DEF Flush, PassiveClose, TimePasses, Disconnect, TypeLink, linkVars
  <1>4. TypeOK'
    <2>1. pc' \in Stages
      BY <1>1, TypeParts, Zenon DEF RInv
    <2>2. QED
      BY <1>1, <1>2, <1>3, <2>1, TypeSame, TypePartsPrimed, Zenon
  <1>5. /\ UNCHANGED <<line, headers>> /\ UNCHANGED <<ending, body, keep, status, fd, head>>
        /\ length' = length
    BY <1>1, Zenon DEF requestVars, parVars, fileVars
  <1>6. (Wanted' <=> Wanted) /\ Given' = Given /\ (LengthIs' <=> LengthIs)
        /\ (InOrder' <=> InOrder) /\ (Good' <=> Good)
    <2>1. UNCHANGED <<ending, body>>
      BY <1>5, Zenon
    <2>2. Given' = Given /\ (Good' <=> Good)
      BY <1>5, <2>1, GivenSame, Zenon
    <2>3. QED
      BY <1>5, <2>2, LinesFix
  <1>7. BeforeHead' /\ AtLine' /\ AtHeaders'
    BY <1>1, <1>5, <1>6, Zenon DEF RInv, BeforeHead, AtLine, AtHeaders, NoHead
  <1>8. AtRespond' /\ AtError'
    BY <1>1, <1>5, <1>6, Zenon DEF RInv, AtRespond, AtError
  <1>9. AtFile' /\ StatusGiven' /\ KeepRight' /\ FilesClosed'
    BY <1>1, <1>3, <1>5, <1>6 DEF RInv, AtFile, StatusGiven, KeepRight, FilesClosed, NoHead
  <1>10. QED
    BY <1>4, <1>7, <1>8, <1>9 DEF RInv

LEMMA NextKeeps == RInv /\ Below /\ [Next]_vars => RInv'
  <1> SUFFICES ASSUME RInv, Below, [Next]_vars PROVE RInv'
    OBVIOUS
  <1>1. CASE UNCHANGED vars
    <2>1. UNCHANGED requestVars /\ UNCHANGED parVars /\ UNCHANGED fileVars
          /\ UNCHANGED <<head, sent, lost>> /\ UNCHANGED <<overdue, linkVars>> /\ pc' = pc
      BY <1>1, Zenon DEF vars
    <2>2. TypeOK'
      BY <2>1, TypeParts, TypePartsPrimed, TypeSame, Zenon DEF RInv
    <2>3. /\ UNCHANGED <<line, headers>> /\ UNCHANGED <<ending, body>> /\ length' = length
          /\ UNCHANGED <<keep, status, fd, head, overdue, link>>
      BY <2>1, Zenon DEF requestVars, parVars, fileVars, linkVars
    <2>4. Given' = Given /\ (Good' <=> Good)
      BY <2>3, GivenSame, Zenon
    <2>5. (Wanted' <=> Wanted) /\ (LengthIs' <=> LengthIs) /\ (InOrder' <=> InOrder)
      BY <2>3, LinesFix
    <2>6. BeforeHead' /\ AtLine' /\ AtHeaders'
      BY <2>1, <2>3, <2>5, Zenon DEF RInv, BeforeHead, AtLine, AtHeaders, NoHead
    <2>7. AtRespond' /\ AtError'
      BY <2>1, <2>3, <2>4, <2>5, Zenon DEF RInv, AtRespond, AtError
    <2>8. AtFile' /\ StatusGiven' /\ KeepRight' /\ FilesClosed'
      BY <2>1, <2>3, <2>4, <2>5 DEF RInv, AtFile, StatusGiven, KeepRight, FilesClosed, NoHead
    <2>9. QED
      BY <2>2, <2>6, <2>7, <2>8 DEF RInv
  <1>2. CASE Receive
    BY <1>2, ReceiveKeeps
  <1>3. CASE Call
    <2>1. ASSUME NEW l \in Lines, RequestLine(l) PROVE RInv'
      BY <2>1, RequestLineKeeps
    <2>2. ASSUME NEW h \in HeaderLines, HeaderLine(h) PROVE RInv'
      BY <2>2, HeaderLineKeeps
    <2>3. ASSUME NEW e \in {"crlf", "cut", "bad"}, HeadersEnd(e) PROVE RInv'
      BY <2>3, HeadersEndKeeps
    <2>4. ASSUME NEW n \in 0..MaxBody, Body(n) PROVE RInv'
      BY <2>4, BodyKeeps
    <2>5. QED
      BY <1>3, <2>1, <2>2, <2>3, <2>4, RespondKeeps, SendFileKeeps, AssembleErrorKeeps,
         FinishKeeps, Zenon DEF Call
  <1>4. CASE Flush \/ PassiveClose \/ TimePasses
    BY <1>4, BetweenKeeps
  <1>5. QED
    BY <1>1, <1>2, <1>3, <1>4, Zenon DEF Next

LEMMA BelowKept == Below /\ [Next]_vars => Below'
  <1> SUFFICES ASSUME Below, [Next]_vars PROVE Below'
    OBVIOUS
  <1>1. CASE UNCHANGED vars
    BY <1>1, Zenon DEF vars, Below
  <1>2. CASE Receive
    BY <1>2, Zenon DEF Receive, Below
  <1>3. CASE Call
    <2>1. CASE pc' \in {"idle", "finish"}
      BY <2>1, Zenon DEF Below
    <2>2. CASE pc' \notin {"idle", "finish"}
      <3>1. ~AssembleError /\ ~Finish /\ ~SendFile
        BY <2>2 DEF AssembleError, Finish, SendFile
      <3>2. lost' = lost /\ pc \notin {"idle", "finish"}
        <4>1. ASSUME NEW l \in Lines, RequestLine(l)
              PROVE  lost' = lost /\ pc \notin {"idle", "finish"}
          BY <4>1 DEF RequestLine
        <4>2. ASSUME NEW h \in HeaderLines, HeaderLine(h)
              PROVE  lost' = lost /\ pc \notin {"idle", "finish"}
          BY <4>2 DEF HeaderLine
        <4>3. ASSUME NEW e \in {"crlf", "cut", "bad"}, HeadersEnd(e)
              PROVE  lost' = lost /\ pc \notin {"idle", "finish"}
          BY <4>3 DEF HeadersEnd
        <4>4. ASSUME NEW n \in 0..MaxBody, Body(n)
              PROVE  lost' = lost /\ pc \notin {"idle", "finish"}
          BY <4>4 DEF Body
        <4>5. ASSUME Respond PROVE lost' = lost /\ pc \notin {"idle", "finish"}
          BY <4>5 DEF Respond
        <4>6. QED
          BY <1>3, <3>1, <4>1, <4>2, <4>3, <4>4, <4>5, Zenon DEF Call
      <3>3. QED
        BY <3>2, Zenon DEF Below
    <2>3. QED
      BY <2>1, <2>2, Zenon
  <1>4. CASE Flush \/ PassiveClose \/ TimePasses
    BY <1>4, Zenon DEF Flush, PassiveClose, TimePasses, Below
  <1>5. QED
    BY <1>1, <1>2, <1>3, <1>4, Zenon DEF Next

LEMMA Invariant == Spec => [](RInv /\ Below)
  <1>1. Init => RInv /\ Below
    BY RInvInit DEF Init, Below
  <1>2. RInv /\ Below /\ [Next]_vars => (RInv /\ Below)'
    BY NextKeeps, BelowKept
  <1>3. QED
    BY <1>1, <1>2, PTL DEF Spec

(* All the state of a call stays within its types, whatever is refused.    *)
THEOREM TypeCorrect == Spec => []TypeOK
  <1>1. RInv => TypeOK
    BY DEF RInv
  <1>2. QED
    BY <1>1, Invariant, PTL

(* The headers of a request end only behind a good request line.           *)
Ended == ending # "" => InOrder

LEMMA EndedInvariant == Spec => []Ended
  <1>1. Init => Ended
    BY DEF Init, Ended
  <1>2. RInv /\ Ended /\ [Next]_vars => Ended'
    <2> SUFFICES ASSUME RInv, Ended, [Next]_vars PROVE Ended'
      OBVIOUS
    <2>1. ASSUME UNCHANGED <<line, ending>> PROVE Ended'
      BY <2>1, Zenon DEF Ended, InOrder
    <2>2. CASE UNCHANGED vars
      BY <2>1, <2>2, Zenon DEF vars, requestVars
    <2>3. CASE Receive
      BY <2>3, Zenon DEF Receive, Ended
    <2>4. ASSUME NEW l \in Lines, RequestLine(l) PROVE Ended'
      BY <2>4, Zenon DEF RequestLine, RInv, AtLine, Ended
    <2>5. ASSUME NEW h \in HeaderLines, HeaderLine(h) PROVE Ended'
      BY <2>1, <2>5, Zenon DEF HeaderLine
    <2>6. ASSUME NEW e \in {"crlf", "cut", "bad"}, HeadersEnd(e) PROVE Ended'
      <3>1. InOrder /\ line' = line
        BY <2>6, Zenon DEF HeadersEnd, RInv, AtHeaders
      <3>2. QED
        BY <3>1, Zenon DEF Ended, InOrder
    <2>7. ASSUME NEW n \in 0..MaxBody, Body(n) PROVE Ended'
      BY <2>1, <2>7, Zenon DEF Body
    <2>8. CASE Respond \/ SendFile \/ AssembleError \/ Finish
      BY <2>1, <2>8, Zenon DEF Respond, SendFile, AssembleError, Finish, requestVars
    <2>9. CASE Flush \/ PassiveClose \/ TimePasses
      BY <2>1, <2>9, Zenon DEF Flush, PassiveClose, TimePasses, requestVars
    <2>10. QED
      BY <2>2, <2>3, <2>4, <2>5, <2>6, <2>7, <2>8, <2>9, Zenon DEF Next, Call
  <1>3. QED
    BY <1>1, <1>2, Invariant, PTL DEF Spec

LEMMA DeclaredType == ASSUME headers \in Seq(HeaderLines) PROVE Declared \in Nat
  <1>1. CASE Lengths = {}
    BY <1>1 DEF Declared
  <1>2. CASE Lengths # {}
    <2>1. Len(headers) \in Nat /\ Lengths \in SUBSET (1..Len(headers))
      BY DEF Lengths, Lined
    <2>2. Max(Lengths) \in Lengths
      BY <1>2, <2>1, GreatestIn
    <2>3. headers[Max(Lengths)].value \in Nat
      BY <2>2 DEF Lengths, Lined
    <2>4. QED
      BY <1>2, <2>3 DEF Declared
  <1>3. QED
    BY <1>1, <1>2

(* What a request in order, without its head or a file, invalid, of a     *)
(* later version or for a missing file is answered: its own status, for    *)
(* all requests, in every order, over a table of handlers with any         *)
(* collisions.                                                             *)
THEOREM StatusIsRight == Spec => []StatusRight
  <1>1. RInv /\ Ended => StatusRight
    <2>1. SUFFICES ASSUME RInv, Ended, head # NoHead PROVE StatusRight
      BY Zenon DEF StatusRight
    <2>2. head.status = Given /\ (head.status = 200 => Good)
      BY <2>1, Zenon DEF RInv, StatusGiven
    <2>3. /\ line \in Lines \cup {NoLine} /\ headers \in Seq(HeaderLines)
          /\ body \in 0..MaxBody
      BY <2>1, Zenon DEF RInv, TypeOK
    <2>4. line.version[1] \in Nat /\ line.version[2] \in Nat
      BY <2>3, RequestAssumption DEF Lines, NoLine
    <2>5. Whole => Given = 200
      <3>1. Declared \in Nat
        BY <2>3, DeclaredType
      <3>2. body \in Nat /\ Len(headers) \in Nat
        BY <2>3, RequestAssumption
      <3>3. Whole => ~(Received(body) < Declared)
        BY <3>1, <3>2 DEF Whole, Received
      <3>4. Whole => /\ line.verdict = "OK" /\ ending = "crlf"
                     /\ ~(line.version[1] > 1) /\ ~(line.version[2] > 1)
                     /\ line.file.kind \in {"file", "index"}
        BY <2>4 DEF Whole, Named, Current, Known
      <3>5. QED
        BY <3>3, <3>4 DEF Given
    <2>6. head.status = 200 => Named /\ ending = "crlf"
      BY <2>2, <2>4 DEF Good, InOrder, Named, Current, Known
    <2>7. line.verdict = "INVALID_REQUEST" => head.status = 400
      BY <2>1, <2>2 DEF Ended, InOrder, Given
    <2>8. Named /\ ending = "bad" => head.status = 400
      BY <2>2 DEF Named, Current, Known, Given
    <2>9. Known /\ ~Current => head.status = 500
      <3>1. Known /\ ~Current => (line.version[1] > 1 \/ line.version[2] > 1)
        BY <2>4 DEF Known, Current
      <3>2. Known /\ ~Current => ending = "" /\ line.verdict = "OK"
        BY <2>1, <3>1 DEF Known, Ended, InOrder
      <3>3. QED
        BY <2>2, <3>1, <3>2 DEF Given
    <2>10. ASSUME Current, line.file.kind \in {"none", "bare"} PROVE head.status = 404
      <3>1. ~(line.version[1] > 1) /\ ~(line.version[2] > 1)
        BY <2>4, <2>10 DEF Current
      <3>2. ending = "" /\ line.verdict = "OK"
        <4>1. line.verdict = "OK"
          BY <2>10 DEF Current, Known
        <4>2. ~InOrder
          BY <2>10 DEF InOrder
        <4>3. QED
          BY <2>1, <4>1, <4>2, Zenon DEF Ended
      <3>3. QED
        BY <2>2, <2>10, <3>1, <3>2 DEF Given
    <2>11. QED
      BY <2>2, <2>5, <2>6, <2>7, <2>8, <2>9, <2>10, Zenon DEF StatusRight
  <1>2. QED
    BY <1>1, Invariant, EndedInvariant, PTL

(* A connection is kept if and only if the client wants it and the request *)
(* was answered in order, and the head agrees.                             *)
THEOREM KeepIsRight == Spec => []KeepRight
  <1>1. RInv => KeepRight
    BY DEF RInv
  <1>2. QED
    BY <1>1, Invariant, PTL

(* No file is open between two calls, except behind a close.               *)
THEOREM FilesAreClosed == Spec => []FilesClosed
  <1>1. RInv => FilesClosed
    BY DEF RInv
  <1>2. QED
    BY <1>1, Invariant, PTL

-----------------------------------------------------------------------------
(* The file of an answer.                                                  *)

Suffix == IF line.file.kind = "index" THEN "html" ELSE line.file.ext
Bytes == IF line.file.kind = "index" THEN IndexSize ELSE line.file.size

(* What OpenResource found is still there when the head is made, and       *)
(* nothing of the file was sent before.                                    *)
FileFound ==
    /\ pc \in {"headers", "body", "respond"} => size = Bytes /\ ext = Suffix
    /\ pc = "file" => size = head.length
    /\ head = NoHead => sent = 0

HeadOfFile ==
    head.status = 200 =>
        /\ head.length = Bytes
        /\ head.type = ContentType(Suffix)
        /\ sent <= head.length

FileInv == FileFound /\ HeadOfFile

(* The type announced is that of the list.                                 *)
LEMMA TypeOfList ==
  ASSUME NEW e \in Keys
  PROVE  LET types == {x.v : x \in {y \in ToSet(MimeList) : y.k = e}} IN
         IF types = {} THEN ContentType(e) = Html ELSE ContentType(e) \in types
  <1> DEFINE n == Len(MimeList)
             types == {x.v : x \in {y \in ToSet(MimeList) : y.k = e}}
  <1>1. /\ MimeList \in Seq([k : Keys, v : STRING])
        /\ \A i \in DOMAIN MimeList : MimeList[i].v # Null
    BY RequestAssumption
  <1>2. DOMAIN MimeList = 1..n
    BY <1>1
  <1>3. types = Values(MimeList, n, e)
    BY <1>2, Zenon DEF Values, ToSet
  <1>4. \A v \in types : v # Null
    BY <1>1, <1>2, <1>3 DEF Values
  <1>5. IF types = {} THEN Get(MimeDict, e) = Null ELSE Get(MimeDict, e) \in types
    BY <1>1, <1>3, PutAllFinds DEF MimeDict
  <1> HIDE DEF types
  <1>6. IF types = {} THEN ContentType(e) = Html ELSE ContentType(e) \in types
    BY <1>4, <1>5 DEF ContentType
  <1>7. QED
    BY <1>6 DEF types

LEMMA FileInvKept == RInv /\ FileInv /\ [Next]_vars => FileInv'
  <1> SUFFICES ASSUME RInv, FileInv, [Next]_vars PROVE FileInv'
    OBVIOUS
  <1>1. ASSUME UNCHANGED <<line, size, ext, head, sent>>,
               pc' \in {"headers", "body", "respond"} => pc \in {"headers", "body", "respond"},
               pc' = "file" => pc = "file"
        PROVE  FileInv'
    BY <1>1 DEF FileInv, FileFound, HeadOfFile, Suffix, Bytes
  <1>2. CASE UNCHANGED vars
    BY <1>1, <1>2 DEF vars, requestVars, parVars, fileVars
  <1>3. CASE Receive
    <2>1. pc' = "line" /\ head' = NoHead /\ sent' = 0
      BY <1>3, Zenon DEF Receive
    <2>2. NoHead.status # 200
      BY DEF NoHead
    <2>3. QED
      BY <2>1, <2>2 DEF FileInv, FileFound, HeadOfFile
  <1>4. ASSUME NEW l \in Lines, RequestLine(l) PROVE FileInv'
    <2>1. /\ pc = "line" /\ line' = l /\ head' = head /\ sent' = sent /\ head = NoHead
          /\ pc' \in {"error", "headers", "down"}
      BY <1>4 DEF RequestLine, RInv, BeforeHead, Fail
    <2>2. pc' = "headers" => OpenResource(l.file)
      BY <1>4 DEF RequestLine, Fail
    <2>3. pc' = "headers" => size' = Bytes' /\ ext' = Suffix'
      BY <2>1, <2>2 DEF OpenResource, Bytes, Suffix
    <2>4. QED
      BY <2>1, <2>3 DEF FileInv, FileFound, HeadOfFile, NoHead
  <1>5. ASSUME NEW h \in HeaderLines, HeaderLine(h) PROVE FileInv'
    BY <1>1, <1>5 DEF HeaderLine, fileVars
  <1>6. ASSUME NEW e \in {"crlf", "cut", "bad"}, HeadersEnd(e) PROVE FileInv'
    BY <1>1, <1>6 DEF HeadersEnd, Fail, fileVars
  <1>7. ASSUME NEW n \in 0..MaxBody, Body(n) PROVE FileInv'
    BY <1>1, <1>7 DEF Body, Fail, fileVars
  <1>8. CASE Respond
    <2>1. /\ pc = "respond" /\ head = NoHead /\ sent = 0 /\ size = Bytes /\ ext = Suffix
          /\ size \in Nat
      BY <1>8 DEF Respond, RInv, BeforeHead, FileInv, FileFound, TypeOK
    <2>2. /\ head'.status = 200 /\ head'.type = ContentType(ext) /\ head'.length = size
          /\ UNCHANGED <<line, ext, size, sent>> /\ pc' \in {"file", "finish"}
      BY <1>8 DEF Respond, requestVars, parVars, fileVars
    <2>3. Bytes' = Bytes /\ Suffix' = Suffix
      BY <2>2 DEF Bytes, Suffix
    <2>4. HeadOfFile'
      BY <2>1, <2>2, <2>3 DEF HeadOfFile
    <2>5. QED
      BY <2>1, <2>2, <2>4 DEF FileInv, FileFound, NoHead
  <1>9. CASE SendFile
    <2>1. /\ pc = "file" /\ head.status = 200 /\ size = head.length /\ size \in Nat
      BY <1>9 DEF SendFile, RInv, AtFile, FileInv, FileFound, TypeOK
    <2>2. /\ sent' \in 0..size /\ pc' = "finish" /\ UNCHANGED <<line, head>>
      BY <1>9 DEF SendFile, requestVars
    <2>3. Bytes' = Bytes /\ Suffix' = Suffix
      BY <2>2 DEF Bytes, Suffix
    <2>4. QED
      BY <2>1, <2>2, <2>3 DEF FileInv, FileFound, HeadOfFile, NoHead
  <1>10. CASE AssembleError
    <2>1. head'.status # 200 /\ head' # NoHead /\ pc' = "finish"
      <3>1. head'.status = status /\ pc' = "finish"
        BY <1>10 DEF AssembleError
      <3>2. status # 200 /\ status # 0
        BY <1>10 DEF AssembleError, RInv, AtError, AGAIN
      <3>3. QED
        BY <3>1, <3>2 DEF NoHead
    <2>2. QED
      BY <2>1 DEF FileInv, FileFound, HeadOfFile
  <1>11. CASE Finish \/ Flush \/ PassiveClose \/ TimePasses
    BY <1>1, <1>11 DEF Finish, Flush, PassiveClose, TimePasses, requestVars, parVars, fileVars
  <1>12. QED
    BY <1>2, <1>3, <1>4, <1>5, <1>6, <1>7, <1>8, <1>9, <1>10, <1>11, Zenon DEF Next, Call

LEMMA FileInvariant == Spec => [](RInv /\ FileInv)
  <1>1. Init => FileInv
    <2>1. SUFFICES ASSUME Init PROVE FileInv
      OBVIOUS
    <2>2. pc = "idle" /\ head = NoHead /\ sent = 0
      BY <2>1, Zenon DEF Init
    <2>3. NoHead.status # 200
      BY DEF NoHead
    <2>4. QED
      BY <2>2, <2>3 DEF FileInv, FileFound, HeadOfFile
  <1>2. RInv /\ FileInv /\ [Next]_vars => FileInv'
    BY FileInvKept
  <1>3. QED
    BY <1>1, <1>2, Invariant, PTL DEF Spec

(* An answer in order announces the size and the type of the file that its *)
(* own request line named, for any list of types and any hash function.    *)
THEOREM FileIsRight == Spec => []FileRight
  <1>1. RInv /\ FileInv => FileRight
    <2>1. SUFFICES ASSUME RInv, FileInv, head.status = 200
                   PROVE  LET types == {e.v : e \in {x \in ToSet(MimeList) : x.k = Suffix}} IN
                          /\ head.length = Bytes
                          /\ types = {} => head.type = Html
                          /\ types # {} => head.type \in types
                          /\ sent <= head.length
      BY Zenon DEF FileRight, Suffix, Bytes
    <2>2. line \in Lines \cup {NoLine}
      BY <2>1 DEF RInv, TypeOK
    <2>3. Suffix \in Keys
      BY <2>2, RequestAssumption DEF Lines, NoLine, NoFile, Suffix
    <2>4. head.length = Bytes /\ head.type = ContentType(Suffix) /\ sent <= head.length
      BY <2>1 DEF FileInv, HeadOfFile
    <2>5. QED
      BY <2>3, <2>4, TypeOfList, Zenon
  <1>2. QED
    BY <1>1, FileInvariant, PTL

-----------------------------------------------------------------------------
(* The calls implement what Persistence promises.                          *)

LEMMA PersistentInit == Init => Persistent!PInit
  <1> SUFFICES ASSUME Init PROVE Persistent!PInit
    OBVIOUS
  <1>1. pc = "idle" /\ link = "open" /\ head = NoHead
    BY Zenon DEF Init
  <1>2. head.close = FALSE
    BY <1>1 DEF NoHead
  <1>3. QED
    BY <1>1, <1>2 DEF Persistent!PInit

LEMMA PersistentStep ==
  ASSUME RInv, RInv', [Next]_vars
  PROVE  [Persistent!PNext]_(Persistent!PVars)
  <1>1. CASE UNCHANGED vars
    <2>1. pc' = pc /\ head' = head /\ link' = link
      BY <1>1, Zenon DEF vars, linkVars
    <2>2. QED
      BY <2>1 DEF Persistent!PVars
  <1>2. CASE Receive
    <2>1. pc = "idle" /\ link # "closed" /\ pc' = "line" /\ head' = NoHead /\ link' = link
      BY <1>2 DEF Receive, linkVars
    <2>2. Persistent!Take
      BY <2>1 DEF Persistent!Take, NoHead
    <2>3. QED
      BY <2>2 DEF Persistent!PNext
  <1>3. ASSUME pc \in {"line", "headers", "body"}, pc' \in {"headers", "body", "respond", "error", "down"},
               head' = head, link' = link
        PROVE  UNCHANGED Persistent!PVars
    <2>1. head = NoHead
      BY <1>3 DEF RInv, BeforeHead
    <2>2. QED
      BY <1>3, <2>1 DEF Persistent!PVars
  <1>4. ASSUME NEW l \in Lines, RequestLine(l) PROVE UNCHANGED Persistent!PVars
    <2>1. pc = "line" /\ pc' \in {"headers", "error", "down"} /\ head' = head /\ link' = link
      BY <1>4 DEF RequestLine, Fail, linkVars
    <2>2. QED
      BY <1>3, <2>1
  <1>5. ASSUME NEW h \in HeaderLines, HeaderLine(h) PROVE UNCHANGED Persistent!PVars
    <2>1. pc = "headers" /\ pc' = "headers" /\ head' = head /\ link' = link
      BY <1>5 DEF HeaderLine, linkVars
    <2>2. QED
      BY <1>3, <2>1
  <1>6. ASSUME NEW e \in {"crlf", "cut", "bad"}, HeadersEnd(e) PROVE UNCHANGED Persistent!PVars
    <2>1. pc = "headers" /\ pc' \in {"body", "error"} /\ head' = head /\ link' = link
      BY <1>6 DEF HeadersEnd, Fail, linkVars
    <2>2. QED
      BY <1>3, <2>1
  <1>7. ASSUME NEW n \in 0..MaxBody, Body(n) PROVE UNCHANGED Persistent!PVars
    <2>1. pc = "body" /\ pc' \in {"respond", "error"} /\ head' = head /\ link' = link
      BY <1>7 DEF Body, Fail, linkVars
    <2>2. QED
      BY <1>3, <2>1
  <1>8. CASE Respond \/ AssembleError
    <2>1. pc \in {"respond", "error"} /\ pc' \in {"file", "finish"} /\ link' = link
      BY <1>8 DEF Respond, AssembleError
    <2>2. head = NoHead
      BY <2>1 DEF RInv, BeforeHead
    <2>3. head'.close \in BOOLEAN
      BY DEF RInv, TypeOK
    <2>4. head' # NoHead
      BY <2>1 DEF RInv, AtFile, NoHead
    <2>5. Persistent!Tell
      BY <2>1, <2>2, <2>3, <2>4 DEF Persistent!Tell
    <2>6. QED
      BY <2>5 DEF Persistent!PNext
  <1>9. CASE SendFile
    <2>1. pc = "file" /\ pc' = "finish" /\ head' = head /\ link' = link
      BY <1>9 DEF SendFile, linkVars
    <2>2. QED
      BY <2>1 DEF Persistent!PVars
  <1>10. CASE Finish
    <2>1. pc = "finish" /\ pc' = "idle" /\ head' = head
      BY <1>10 DEF Finish
    <2>2. head # NoHead
      BY <2>1 DEF RInv, AtFile, NoHead
    <2>3. link' = link \/ (~keep /\ link' \in {"closing", "closed"})
      BY <1>10 DEF Finish, Disconnect
    <2>4. ~keep => head.close
      BY <2>1, Zenon DEF RInv, KeepRight
    <2>5. Persistent!Release
      BY <2>1, <2>2, <2>3, <2>4 DEF Persistent!Release
    <2>6. QED
      BY <2>5 DEF Persistent!PNext
  <1>11. CASE Flush
    <2>1. pc = "idle" /\ pc' = "idle" /\ head' = head
          /\ link' = IF link = "closing" THEN "closed" ELSE link
      BY <1>11 DEF Flush
    <2>2. CASE link = "closing"
      BY <2>1, <2>2 DEF Persistent!Close, Persistent!PNext
    <2>3. CASE link # "closing"
      BY <2>1, <2>3 DEF Persistent!PVars
    <2>4. QED
      BY <2>2, <2>3
  <1>12. CASE PassiveClose
    <2>1. pc = "idle" /\ pc' = "idle" /\ head' = head /\ link # "closed"
          /\ link' \in {"closing", "closed"}
      BY <1>12 DEF PassiveClose, Disconnect
    <2>2. QED
      BY <2>1 DEF Persistent!ClientEnds, Persistent!PNext
  <1>13. CASE TimePasses
    <2>1. pc' = pc /\ head' = head /\ link' = link
      BY <1>13 DEF TimePasses, linkVars
    <2>2. QED
      BY <2>1 DEF Persistent!PVars
  <1>14. QED
    BY <1>1, <1>2, <1>4, <1>5, <1>6, <1>7, <1>8, <1>9, <1>10, <1>11, <1>12, <1>13, Zenon
       DEF Next, Call

(* Every request gets one head, and the server ends a connection only      *)
(* behind a head that says so or when the client has ended its side.       *)
THEOREM PersistenceImplemented == Spec => Persists
  <1>1. RInv /\ RInv' /\ [Next]_vars => [Persistent!PNext]_(Persistent!PVars)
    BY PersistentStep
  <1>2. QED
    BY <1>1, PersistentInit, Invariant, PTL DEF Spec, Persists, Persistent!PSpec
=============================================================================
