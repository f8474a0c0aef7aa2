--------------------------- MODULE HttpParserProofs ---------------------------
(***************************************************************************)
(* Proofs about the line automata, for lines of every length and over any  *)
(* alphabet: their types, with the range of the version numbers, the       *)
(* asserts of the parser, that header lines and request lines are accepted *)
(* exactly when they are such lines, and that a URL is cut into its parts. *)
(***************************************************************************)
EXTENDS HttpParser, WellFoundedInduction, TLAPS

LEMMA DigitRange == \A d \in Digits : DigitValue[d] \in 0..9
  BY DEF Digits, DigitValue

LEMMA AlphabetSymbols == Alphabet \subseteq Symbols
  BY ParserAssumption DEF Alphabet

(* An automaton stays among its own states.                                *)
LEMMA MovesKind ==
  ASSUME NEW from \in States \ {Done}, NEW ch, NEW to, Moves(from, ch, to)
  PROVE  /\ from \in RequestStates => to \in RequestStates \cup {Done}
         /\ from \in HeaderStates => to \in HeaderStates \cup {Done}
  <1>1. CASE RequestMoves(from, ch, to)
    BY <1>1 DEF RequestMoves, RequestStates, HeaderStates, Done
  <1>2. CASE HeaderMoves(from, ch, to)
    BY <1>2 DEF HeaderMoves, RequestStates, HeaderStates, Done
  <1>3. QED
    BY <1>1, <1>2 DEF Moves

(* The version numbers are zero until their first digit, which is taken    *)
(* without a check; and every mark that HEADER_SET pairs with a later one  *)
(* is behind it only while the line is between the two.                    *)
VersionFresh ==
    /\ state \in RequestStates \ {"S_RL_VERSION_MAJOR", "S_RL_VERSION_DOT",
                                  "S_RL_VERSION_MINOR", "S_RL_CR_AFTER_VERSION"}
        => version.major = 0
    /\ state \in RequestStates \ {"S_RL_VERSION_MINOR", "S_RL_CR_AFTER_VERSION"}
        => version.minor = 0

MarksOrdered ==
    /\ state # "S_HD_NAME" => mark["header_line_begin"] <= mark["header_colon_pos"]
    /\ state \notin {"S_HD_VAL", "S_HD_LF_AFTER_VAL"}
        => mark["header_val_begin"] <= mark["header_val_end"]
    /\ state = "S_RL_METHOD" => mark["method_begin"] \in 1..Len(text)
    /\ state = "S_RL_URL" => mark["url_begin"] \in 1..Len(text)

LineDone == verdict \in {"OK", "CRLF_LINE"} => state = "S_HD_BEGIN"

PInv == TypeOK /\ VersionFresh /\ MarksOrdered /\ LineDone

LEMMA PInvInit == Init => PInv
  <1>1. Init => TypeOK
    BY ParserAssumption DEF Init, TypeOK, RequestStates, HeaderStates, Verdicts
  <1>2. Init => VersionFresh /\ MarksOrdered /\ LineDone
    BY DEF Init, VersionFresh, MarksOrdered, Marks, LineDone
  <1>3. QED
    BY <1>1, <1>2 DEF PInv

(* The symbol read goes to the end of the text.                            *)
LEMMA ReadText ==
  ASSUME PInv, NEW ch \in Alphabet, Read(ch)
  PROVE  /\ text' \in Seq(Symbols)
         /\ Len(text') = Len(text) + 1
         /\ Len(text) \in Nat
         /\ slack' \in 0..MaxSlack[fn]
         /\ fn' = fn
         /\ verdict = "none"
  <1>1. ch \in Symbols
    BY AlphabetSymbols
  <1>2. MaxSlack[fn] \in Nat
    BY ParserAssumption DEF PInv, TypeOK
  <1>3. slack' \in 0..MaxSlack[fn]
    BY <1>2 DEF Read, PInv, TypeOK
  <1>4. QED
    BY <1>1, <1>3 DEF Read, PInv, TypeOK

LEMMA AdvanceKeeps ==
  ASSUME PInv, NEW ch \in Alphabet, Read(ch), NEW to \in States, Advance(ch, to)
  PROVE  PInv'
  <1> USE DEF PInv
  <1>0. /\ text' \in Seq(Symbols)
        /\ Len(text') = Len(text) + 1
        /\ Len(text) \in Nat
        /\ slack' \in 0..MaxSlack[fn]
        /\ fn' = fn
        /\ verdict = "none" /\ verdict' = "none"
    BY ReadText DEF Advance
  <1>1. state' = to /\ to # Done /\ Moves(state, ch, to) /\ ~Refused(ch, to)
    BY DEF Advance
  <1>2. state \in RequestStates <=> fn = "request"
    BY <1>0 DEF TypeOK, RequestStates, HeaderStates
  <1>3. state \in States \ {Done}
    BY DEF TypeOK, States, RequestStates, HeaderStates, Done
  <1>4. state' \in (IF fn' = "request" /\ verdict' # "OK" THEN RequestStates
                    ELSE HeaderStates)
    BY <1>0, <1>1, <1>2, <1>3, MovesKind DEF TypeOK, RequestStates, HeaderStates, Done
  <1>5. mark' \in [Marks -> 0..Len(text')]
    BY <1>0 DEF TypeOK, Advance
  <1>6. /\ version' \in [major : 0..9, minor : 0..9]
        /\ VersionFresh'
    <2>1. version' = Versioned(ch, to)
      BY DEF Advance
    <2>2. ASSUME to = "S_RL_VERSION_MAJOR"
          PROVE  /\ ch \in Digits
                 /\ state \in {"S_RL_VERSION_HTTP_SLASH", "S_RL_VERSION_MAJOR"}
                 /\ NextNumber(version.major, ch) \in 0..9
      <3>1. /\ ch \in Digits
            /\ state \in {"S_RL_VERSION_HTTP_SLASH", "S_RL_VERSION_MAJOR"}
        BY <1>1, <1>3, <2>2 DEF Moves, RequestMoves, HeaderMoves, States, RequestStates,
           HeaderStates, Done
      <3>2. DigitValue[ch] \in 0..9
        BY <3>1, DigitRange
      <3>3. CASE state = "S_RL_VERSION_HTTP_SLASH"
        <4>1. version.major = 0
          BY <3>3 DEF VersionFresh, RequestStates
        <4>2. QED
          BY <3>1, <3>2, <4>1 DEF NextNumber
      <3>4. CASE state = "S_RL_VERSION_MAJOR"
        <4>1. NextNumber(version.major, ch) \in Nat
          <5>1. version.major \in 0..9 /\ DigitValue[ch] \in 0..9
            BY <3>2 DEF TypeOK
          <5>2. QED
            BY <5>1 DEF NextNumber
        <4>2. ~(NextNumber(version.major, ch) > 1)
          BY <1>1, <2>2, <3>4 DEF Refused
        <4>3. QED
          BY <3>1, <4>1, <4>2
      <3>5. QED
        BY <3>1, <3>3, <3>4
    <2>3. ASSUME to = "S_RL_VERSION_MINOR"
          PROVE  /\ ch \in Digits
                 /\ state \in {"S_RL_VERSION_DOT", "S_RL_VERSION_MINOR"}
                 /\ NextNumber(version.minor, ch) \in 0..9
      <3>1. /\ ch \in Digits
            /\ state \in {"S_RL_VERSION_DOT", "S_RL_VERSION_MINOR"}
        BY <1>1, <1>3, <2>3 DEF Moves, RequestMoves, HeaderMoves, States, RequestStates,
           HeaderStates, Done
      <3>2. DigitValue[ch] \in 0..9
        BY <3>1, DigitRange
      <3>3. CASE state = "S_RL_VERSION_DOT"
        <4>1. version.minor = 0
          BY <3>3 DEF VersionFresh, RequestStates
        <4>2. QED
          BY <3>1, <3>2, <4>1 DEF NextNumber
      <3>4. CASE state = "S_RL_VERSION_MINOR"
        <4>1. NextNumber(version.minor, ch) \in Nat
          <5>1. version.minor \in 0..9 /\ DigitValue[ch] \in 0..9
            BY <3>2 DEF TypeOK
          <5>2. QED
            BY <5>1 DEF NextNumber
        <4>2. ~(NextNumber(version.minor, ch) > 1)
          BY <1>1, <2>3, <3>4 DEF Refused
        <4>3. QED
          BY <3>1, <4>1, <4>2
      <3>5. QED
        BY <3>1, <3>3, <3>4
    <2>4. version' \in [major : 0..9, minor : 0..9]
      BY <2>1, <2>2, <2>3 DEF Versioned, TypeOK
    <2>5. state' \in RequestStates \ {"S_RL_VERSION_MAJOR", "S_RL_VERSION_DOT",
                                      "S_RL_VERSION_MINOR", "S_RL_CR_AFTER_VERSION"}
          => /\ version.major = 0
             /\ to # "S_RL_VERSION_MAJOR"
      BY <1>1, <1>3 DEF Moves, RequestMoves, HeaderMoves, States, RequestStates,
         HeaderStates, Done, VersionFresh
    <2>6. state' \in RequestStates \ {"S_RL_VERSION_MINOR", "S_RL_CR_AFTER_VERSION"}
          => /\ version.minor = 0
             /\ to # "S_RL_VERSION_MINOR"
      BY <1>1, <1>3 DEF Moves, RequestMoves, HeaderMoves, States, RequestStates,
         HeaderStates, Done, VersionFresh
    <2>7. VersionFresh'
      BY <2>1, <2>5, <2>6 DEF VersionFresh, Versioned
    <2>8. QED
      BY <2>4, <2>7
  <1>7. MarksOrdered'
    <2>1. \A k \in Marks : mark'[k] = IF Sets(k, state, to) THEN Len(text) + 1 ELSE mark[k]
      BY DEF Advance
    <2>2. \A k \in Marks : mark[k] \in 0..Len(text)
      BY DEF TypeOK
    <2>3. to # "S_HD_NAME" => mark'["header_line_begin"] <= mark'["header_colon_pos"]
      <3>1. to # "S_HD_NAME" => ~Sets("header_line_begin", state, to)
        BY DEF Sets
      <3>2. state = "S_HD_NAME" /\ to # "S_HD_NAME" => Sets("header_colon_pos", state, to)
        BY <1>1 DEF Moves, RequestMoves, HeaderMoves, Sets, Done
      <3>3. QED
        BY <1>0, <2>1, <2>2, <3>1, <3>2 DEF Marks, MarksOrdered
    <2>4. to \notin {"S_HD_VAL", "S_HD_LF_AFTER_VAL"}
          => mark'["header_val_begin"] <= mark'["header_val_end"]
      <3>1. to # "S_HD_VAL" => ~Sets("header_val_begin", state, to)
        BY DEF Sets
      <3>2. state = "S_HD_VAL" /\ to \notin {"S_HD_VAL", "S_HD_LF_AFTER_VAL"}
            => Sets("header_val_end", state, to)
        BY <1>1 DEF Moves, RequestMoves, HeaderMoves, Sets, Done
      <3>3. state = "S_HD_LF_AFTER_VAL" => to = "S_HD_LF_AFTER_VAL"
        BY <1>1 DEF Moves, RequestMoves, HeaderMoves, Done
      <3>4. QED
        BY <1>0, <2>1, <2>2, <3>1, <3>2, <3>3 DEF Marks, MarksOrdered
    <2>5. to = "S_RL_METHOD" => mark'["method_begin"] \in 1..Len(text')
      <3>1. to = "S_RL_METHOD" => state \in {"S_RL_BEGIN", "S_RL_METHOD"}
        BY <1>1, <1>3 DEF Moves, RequestMoves, HeaderMoves, States, RequestStates,
           HeaderStates, Done
      <3>2. QED
        BY <1>0, <2>1, <2>2, <3>1 DEF Marks, MarksOrdered, Sets
    <2>6. to = "S_RL_URL" => mark'["url_begin"] \in 1..Len(text')
      <3>1. to = "S_RL_URL" => state \in {"S_RL_SP_BEFORE_URL", "S_RL_URL"}
        BY <1>1, <1>3 DEF Moves, RequestMoves, HeaderMoves, States, RequestStates,
           HeaderStates, Done
      <3>2. QED
        BY <1>0, <2>1, <2>2, <3>1 DEF Marks, MarksOrdered, Sets
    <2>7. QED
      BY <1>1, <2>3, <2>4, <2>5, <2>6 DEF MarksOrdered
  <1>8. isCRLF' \in BOOLEAN
    BY DEF TypeOK, Advance
  <1>9. QED
    BY <1>0, <1>4, <1>5, <1>6, <1>7, <1>8 DEF TypeOK, Verdicts, LineDone

LEMMA CompleteKeeps ==
  ASSUME PInv, NEW ch \in Alphabet, Read(ch), Complete(ch)
  PROVE  PInv'
  <1> USE DEF PInv
  <1>1. state' = "S_HD_BEGIN" /\ verdict' \in {"OK", "CRLF_LINE"}
        /\ UNCHANGED <<mark, version, url, isCRLF>>
    BY DEF Complete
  <1>2. fn = "request" => verdict' = "OK"
    BY DEF Complete
  <1>3. state \in {"S_RL_CR_AFTER_VERSION", "S_HD_CR_AFTER_VAL"}
    BY DEF Complete, Moves, RequestMoves, HeaderMoves, Done, TypeOK, RequestStates, HeaderStates
  <1>4. TypeOK'
    BY <1>1, <1>2, ReadText DEF TypeOK, Verdicts, RequestStates, HeaderStates
  <1>5. VersionFresh' /\ MarksOrdered'
    BY <1>1, <1>3 DEF VersionFresh, MarksOrdered, RequestStates
  <1>6. QED
    BY <1>1, <1>4, <1>5 DEF LineDone

LEMMA RejectKeeps ==
  ASSUME PInv, NEW ch \in Alphabet, Read(ch), Reject(ch)
  PROVE  PInv'
  <1> USE DEF PInv
  <1>1. UNCHANGED <<state, mark, version, isCRLF>> /\ verdict' = "INVALID_REQUEST"
    BY DEF Reject
  <1>2. TypeOK'
    <2>1. mark' \in [Marks -> 0..Len(text')]
      BY <1>1, ReadText DEF TypeOK
    <2>2. QED
      BY <1>1, <2>1, ReadText DEF TypeOK, Verdicts
  <1>3. VersionFresh' /\ MarksOrdered'
    BY <1>1, ReadText DEF VersionFresh, MarksOrdered
  <1>4. QED
    BY <1>1, <1>2, <1>3 DEF LineDone

LEMMA PInvNext == PInv /\ [Next]_vars => PInv'
  <1> SUFFICES ASSUME PInv, [Next]_vars PROVE PInv'
    OBVIOUS
  <1>1. ASSUME NEW ch \in Alphabet, Read(ch) PROVE PInv'
    BY <1>1, AdvanceKeeps, CompleteKeeps, RejectKeeps DEF Read
  <1>2. CASE BufferEnd
    BY <1>2 DEF BufferEnd, PInv, TypeOK, VersionFresh, MarksOrdered, LineDone, Verdicts
  <1>3. CASE NextHeader
    <2>1. state = "S_HD_BEGIN" \/ state \in HeaderStates
      BY <1>3 DEF NextHeader, PInv, TypeOK
    <2>2. TypeOK'
      BY <1>3, ParserAssumption DEF NextHeader, PInv, TypeOK, Verdicts
    <2>3. VersionFresh'
      BY <1>3 DEF NextHeader, PInv, VersionFresh
    <2>4. MarksOrdered'
      BY <1>3, <2>1 DEF NextHeader, MarksOrdered, Marks, HeaderStates
    <2>5. QED
      BY <1>3, <2>2, <2>3, <2>4 DEF PInv, LineDone, NextHeader
  <1>4. CASE UNCHANGED vars
    BY <1>4 DEF vars, PInv, TypeOK, VersionFresh, MarksOrdered, LineDone
  <1>5. QED
    BY <1>1, <1>2, <1>3, <1>4 DEF Next

(* The parser's variables keep their types, in lines of every length; in   *)
(* particular the version numbers stay one digit and cannot overflow the   *)
(* short integers they are kept in.                                        *)
THEOREM TypeCorrect == Spec => []TypeOK
  <1>1. PInv => TypeOK
    BY DEF PInv
  <1>2. QED
    BY <1>1, PInvInit, PInvNext, PTL DEF Spec

(* No assert of the parser can fail, whatever lines were read before.      *)
THEOREM AssertsNeverFail == Spec => []AssertsHold
  <1>1. PInv => AssertsHold
    BY DEF PInv, AssertsHold, MarksOrdered, LineDone
  <1>2. QED
    BY <1>1, PInvInit, PInvNext, PTL DEF Spec
-----------------------------------------------------------------------------
(* What has been read of a header line, by the state it has led to.        *)
NameRead(s, n, b) ==
    b \in 1..n /\ AllIn(s, 1, b - 1, Blanks) /\ AllIn(s, b, n, NameSymbols)

ColonRead(s, n, b, c) ==
    c \in 1..n /\ NameRead(s, c - 1, b) /\ s[c] = ":" /\ AllIn(s, c + 1, n, Blanks)

ValueRead(s, n, b, c, v) ==
    /\ v \in 1..n /\ c < v /\ ColonRead(s, v - 1, b, c)
    /\ s[v] \notin Blanks
    /\ \A k \in v..n : s[k] \notin Breaks

LineShape ==
    LET n == Len(text)
        b == mark["header_line_begin"]
        c == mark["header_colon_pos"]
        v == mark["header_val_begin"]
    IN
    /\ state = "S_HD_BEGIN" => AllIn(text, 1, n, Blanks)
    /\ state \in {"S_HD_NAME", "S_HD_COLON", "S_HD_SP_BEFORE_VAL", "S_HD_VAL"} => ~isCRLF
    /\ state = "S_HD_NAME" => NameRead(text, n, b)
    /\ state \in {"S_HD_COLON", "S_HD_SP_BEFORE_VAL"} => ColonRead(text, n, b, c)
    /\ state = "S_HD_VAL" => ValueRead(text, n, b, c, v)
    /\ state = "S_HD_CR_AFTER_VAL" =>
        /\ n >= 1 /\ text[n] = "\r"
        /\ IF isCRLF THEN AllIn(text, 1, n - 1, Blanks)
           ELSE ValueRead(text, n - 1, b, c, v) /\ mark["header_val_end"] = n

HInv ==
    /\ PInv
    /\ HeaderSound
    /\ fn = "header" /\ verdict = "none" => LineShape

(* A shape concerns what it has read, whatever is read behind it.          *)
LEMMA ShapeKept ==
  ASSUME NEW s \in Seq(Symbols), NEW ch \in Symbols, NEW n \in 0..Len(s),
         NEW b \in Nat, NEW c \in Nat, NEW v \in Nat
  PROVE  LET t == Append(s, ch) IN
         /\ AllIn(s, 1, n, Blanks) => AllIn(t, 1, n, Blanks)
         /\ NameRead(s, n, b) => NameRead(t, n, b)
         /\ ColonRead(s, n, b, c) => ColonRead(t, n, b, c)
         /\ ValueRead(s, n, b, c, v) => ValueRead(t, n, b, c, v)
  <1> DEFINE t == Append(s, ch)
  <1>1. \A k \in 1..n : t[k] = s[k]
    OBVIOUS
  <1> HIDE DEF t
  <1>2. AllIn(s, 1, n, Blanks) => AllIn(t, 1, n, Blanks)
    BY <1>1 DEF AllIn
  <1>3. ASSUME NEW m \in 0..n, NameRead(s, m, b) PROVE NameRead(t, m, b)
    BY <1>1, <1>3 DEF NameRead, AllIn
  <1>4. ASSUME NEW m \in 0..n, ColonRead(s, m, b, c) PROVE ColonRead(t, m, b, c)
    <2>1. c \in 1..m /\ c - 1 \in 0..n
      BY <1>4 DEF ColonRead
    <2>2. NameRead(t, c - 1, b)
      BY <1>3, <1>4, <2>1 DEF ColonRead
    <2>3. QED
      BY <1>1, <1>4, <2>1, <2>2 DEF ColonRead, AllIn
  <1>5. ASSUME ValueRead(s, n, b, c, v) PROVE ValueRead(t, n, b, c, v)
    <2>1. v \in 1..n /\ v - 1 \in 0..n
      BY <1>5 DEF ValueRead
    <2>2. ColonRead(t, v - 1, b, c)
      BY <1>4, <1>5, <2>1 DEF ValueRead
    <2>3. QED
      BY <1>1, <1>5, <2>1, <2>2 DEF ValueRead
  <1>6. NameRead(s, n, b) => NameRead(t, n, b)
    BY <1>3
  <1>7. ColonRead(s, n, b, c) => ColonRead(t, n, b, c)
    BY <1>4
  <1>8. QED
    BY <1>2, <1>5, <1>6, <1>7 DEF t

LEMMA HInvAdvance ==
  ASSUME HInv, NEW ch \in Alphabet, Read(ch), NEW to \in States, Advance(ch, to),
         fn = "header"
  PROVE  LineShape'
  <1> DEFINE n == Len(text)
             b == mark["header_line_begin"]
             c == mark["header_colon_pos"]
             v == mark["header_val_begin"]
  <1>0. /\ n \in Nat /\ text \in Seq(Symbols) /\ ch \in Symbols
        /\ b \in 0..n /\ c \in 0..n /\ v \in 0..n
        /\ text' = Append(text, ch) /\ Len(text') = n + 1 /\ text'[n + 1] = ch
        /\ state \in HeaderStates
    BY AlphabetSymbols DEF HInv, PInv, TypeOK, Read, Marks
  <1>1. /\ AllIn(text, 1, n, Blanks) => AllIn(text', 1, n, Blanks)
        /\ NameRead(text, n, b) => NameRead(text', n, b)
        /\ ColonRead(text, n, b, c) => ColonRead(text', n, b, c)
        /\ ValueRead(text, n, b, c, v) => ValueRead(text', n, b, c, v)
    BY <1>0, ShapeKept
  <1>2. LineShape
    BY DEF HInv, Read
  <1>3. /\ mark' = [k \in Marks |-> IF Sets(k, state, to) THEN n + 1 ELSE mark[k]]
        /\ state' = to
        /\ isCRLF' = IF state = "S_HD_BEGIN" /\ to # state THEN ch = "\r" ELSE isCRLF
        /\ HeaderMoves(state, ch, to)
        /\ to # Done
    BY <1>0 DEF Advance, Moves, RequestMoves, HeaderStates
  <1>4. /\ mark'["header_line_begin"]
              = IF Sets("header_line_begin", state, to) THEN n + 1 ELSE b
        /\ mark'["header_colon_pos"]
              = IF Sets("header_colon_pos", state, to) THEN n + 1 ELSE c
        /\ mark'["header_val_begin"]
              = IF Sets("header_val_begin", state, to) THEN n + 1 ELSE v
        /\ mark'["header_val_end"]
              = IF Sets("header_val_end", state, to) THEN n + 1 ELSE mark["header_val_end"]
    BY <1>3 DEF Marks
  <1> HIDE DEF n, b, c, v
  <1>5. CASE to = "S_HD_BEGIN"
    <2>1. state = "S_HD_BEGIN" /\ ch \in Blanks
      BY <1>3, <1>5 DEF HeaderMoves
    <2>2. QED
      BY <1>0, <1>1, <1>2, <1>3, <1>5, <2>1 DEF LineShape, AllIn, n
  <1>6. CASE to = "S_HD_NAME"
    <2>1. state \in {"S_HD_BEGIN", "S_HD_NAME"} /\ ch \in NameSymbols
      BY <1>3, <1>6 DEF HeaderMoves
    <2>2. ~isCRLF'
      BY <1>2, <1>3, <1>6, <2>1 DEF LineShape, NameSymbols, Letters, Digits, DigitValue
    <2>3. CASE state = "S_HD_BEGIN"
      <3>1. mark'["header_line_begin"] = n + 1
        BY <1>4, <1>6, <2>3 DEF Sets
      <3>2. AllIn(text', 1, n, Blanks)
        BY <1>1, <1>2, <2>3 DEF LineShape, n
      <3>3. NameRead(text', n + 1, n + 1)
        BY <1>0, <2>1, <3>2 DEF NameRead, AllIn
      <3>4. QED
        BY <1>0, <1>3, <1>6, <2>2, <3>1, <3>3 DEF LineShape
    <2>4. CASE state = "S_HD_NAME"
      <3>1. mark'["header_line_begin"] = b
        BY <1>4, <1>6, <2>4 DEF Sets
      <3>2. NameRead(text', n, b)
        BY <1>1, <1>2, <2>4 DEF LineShape, n, b
      <3>3. NameRead(text', n + 1, b)
        BY <1>0, <2>1, <3>2 DEF NameRead, AllIn
      <3>4. QED
        BY <1>0, <1>3, <1>6, <2>2, <3>1, <3>3 DEF LineShape
    <2>5. QED
      BY <2>1, <2>3, <2>4
  <1>7. CASE to = "S_HD_COLON"
    <2>1. state = "S_HD_NAME" /\ ch = ":"
      BY <1>3, <1>7 DEF HeaderMoves
    <2>2. mark'["header_line_begin"] = b /\ mark'["header_colon_pos"] = n + 1
      BY <1>4, <1>7, <2>1 DEF Sets
    <2>3. NameRead(text', n, b) /\ ~isCRLF'
      BY <1>1, <1>2, <1>3, <2>1 DEF LineShape, n, b
    <2>4. ColonRead(text', n + 1, b, n + 1)
      BY <1>0, <2>1, <2>3 DEF ColonRead, AllIn
    <2>5. QED
      BY <1>0, <1>3, <1>7, <2>2, <2>3, <2>4 DEF LineShape
  <1>8. CASE to = "S_HD_SP_BEFORE_VAL"
    <2>1. state \in {"S_HD_COLON", "S_HD_SP_BEFORE_VAL"} /\ ch \in Blanks
      BY <1>3, <1>8 DEF HeaderMoves
    <2>2. mark'["header_line_begin"] = b /\ mark'["header_colon_pos"] = c
      BY <1>4, <1>8, <2>1 DEF Sets
    <2>3. ColonRead(text', n, b, c) /\ ~isCRLF'
      BY <1>1, <1>2, <1>3, <2>1 DEF LineShape, n, b, c
    <2>4. ColonRead(text', n + 1, b, c)
      BY <1>0, <2>1, <2>3 DEF ColonRead, AllIn
    <2>5. QED
      BY <1>0, <1>3, <1>8, <2>2, <2>3, <2>4 DEF LineShape
  <1>9. CASE to = "S_HD_VAL"
    <2>1. /\ state \in {"S_HD_COLON", "S_HD_SP_BEFORE_VAL", "S_HD_VAL"}
          /\ ch \notin Breaks
          /\ state # "S_HD_VAL" => ch \notin Blanks
      BY <1>3, <1>9 DEF HeaderMoves
    <2>2. mark'["header_line_begin"] = b /\ mark'["header_colon_pos"] = c
      BY <1>4, <1>9, <2>1 DEF Sets
    <2>3. ~isCRLF'
      BY <1>2, <1>3, <2>1 DEF LineShape
    <2>4. CASE state # "S_HD_VAL"
      <3>1. mark'["header_val_begin"] = n + 1
        BY <1>4, <1>9, <2>4 DEF Sets
      <3>2. ColonRead(text', n, b, c)
        BY <1>1, <1>2, <2>1, <2>4 DEF LineShape, n, b, c
      <3>3. ValueRead(text', n + 1, b, c, n + 1)
        BY <1>0, <2>1, <2>4, <3>2 DEF ValueRead, ColonRead
      <3>4. QED
        BY <1>0, <1>3, <1>9, <2>2, <2>3, <3>1, <3>3 DEF LineShape
    <2>5. CASE state = "S_HD_VAL"
      <3>1. mark'["header_val_begin"] = v
        BY <1>4, <1>9, <2>5 DEF Sets
      <3>2. ValueRead(text', n, b, c, v)
        BY <1>1, <1>2, <2>5 DEF LineShape, n, b, c, v
      <3>3. ValueRead(text', n + 1, b, c, v)
        BY <1>0, <2>1, <3>2 DEF ValueRead
      <3>4. QED
        BY <1>0, <1>3, <1>9, <2>2, <2>3, <3>1, <3>3 DEF LineShape
    <2>6. QED
      BY <2>4, <2>5
  <1>10. CASE to = "S_HD_CR_AFTER_VAL"
    <2>1. state \in {"S_HD_BEGIN", "S_HD_VAL"} /\ ch = "\r"
      BY <1>3, <1>10 DEF HeaderMoves
    <2>2. CASE state = "S_HD_BEGIN"
      <3>1. AllIn(text', 1, n, Blanks) /\ isCRLF'
        BY <1>1, <1>2, <1>3, <1>10, <2>1, <2>2 DEF LineShape, n
      <3>2. /\ Len(text') >= 1 /\ text'[Len(text')] = "\r"
            /\ AllIn(text', 1, Len(text') - 1, Blanks)
            /\ state' = "S_HD_CR_AFTER_VAL"
        <4>1. Len(text') - 1 = n
          BY <1>0
        <4>2. QED
          BY <1>0, <1>3, <1>10, <2>1, <3>1, <4>1
      <3>3. QED
        BY <3>1, <3>2 DEF LineShape
    <2>3. CASE state = "S_HD_VAL"
      <3>1. /\ mark'["header_line_begin"] = b /\ mark'["header_colon_pos"] = c
            /\ mark'["header_val_begin"] = v /\ mark'["header_val_end"] = n + 1
        BY <1>4, <1>10, <2>3 DEF Sets
      <3>2. ValueRead(text', n, b, c, v) /\ ~isCRLF'
        BY <1>1, <1>2, <1>3, <2>3 DEF LineShape, n, b, c, v
      <3>3. QED
        BY <1>0, <1>3, <1>10, <2>1, <3>1, <3>2 DEF LineShape
    <2>4. QED
      BY <2>1, <2>2, <2>3
  <1>11. CASE to = "S_HD_LF_AFTER_VAL"
    BY <1>3, <1>11 DEF LineShape
  <1>12. to \in HeaderStates
    BY <1>3, <1>0 DEF HeaderMoves, HeaderStates
  <1>13. QED
    BY <1>5, <1>6, <1>7, <1>8, <1>9, <1>10, <1>11, <1>12 DEF HeaderStates

LEMMA HInvComplete ==
  ASSUME HInv, NEW ch \in Alphabet, Read(ch), Complete(ch), fn = "header"
  PROVE  HeaderSound'
  <1> DEFINE n == Len(text)
             b == mark["header_line_begin"]
             c == mark["header_colon_pos"]
             v == mark["header_val_begin"]
  <1>0. /\ n \in Nat /\ text \in Seq(Symbols) /\ ch \in Symbols
        /\ b \in 0..n /\ c \in 0..n /\ v \in 0..n
        /\ text' = Append(text, ch) /\ Len(text') = n + 1 /\ text'[n + 1] = ch
        /\ state \in HeaderStates
    BY AlphabetSymbols DEF HInv, PInv, TypeOK, Read, Marks
  <1>1. LineShape
    BY DEF HInv, Read
  <1>2. state = "S_HD_CR_AFTER_VAL" /\ ch = "\n"
    BY <1>0 DEF Complete, Moves, RequestMoves, HeaderMoves, HeaderStates, Done
  <1>3. mark' = mark /\ verdict' = IF isCRLF THEN "CRLF_LINE" ELSE "OK"
    BY DEF Complete
  <1>4. n >= 1 /\ text'[n] = "\r"
    BY <1>0, <1>1, <1>2 DEF LineShape
  <1>5. CASE isCRLF
    <2>1. AllIn(text, 1, n - 1, Blanks)
      BY <1>1, <1>2, <1>5 DEF LineShape
    <2>2. IsEmptyLine(text')
      BY <1>0, <1>2, <1>4, <2>1 DEF IsEmptyLine, AllIn
    <2>3. QED
      BY <1>3, <1>5, <2>2 DEF HeaderSound
  <1>6. CASE ~isCRLF
    <2>1. ValueRead(text, n - 1, b, c, v) /\ mark["header_val_end"] = n
      BY <1>1, <1>2, <1>6 DEF LineShape
    <2>2. ValueRead(text', n - 1, b, c, v)
      <3>1. n - 1 \in 0..Len(text) /\ b \in Nat /\ c \in Nat /\ v \in Nat
        BY <1>0, <1>4
      <3> HIDE DEF n, b, c, v
      <3>2. ValueRead(text, n - 1, b, c, v) => ValueRead(Append(text, ch), n - 1, b, c, v)
        BY ONLY <1>0, <3>1, ShapeKept
      <3>3. QED
        BY ONLY <1>0, <2>1, <3>2
    <2>3. IsHeaderAt(text', b, c, v)
      <3>1. /\ v \in 1..n - 1 /\ c < v /\ text'[v] \notin Blanks
            /\ \A k \in v..n - 1 : text'[k] \notin Breaks
            /\ ColonRead(text', v - 1, b, c)
        BY <2>2 DEF ValueRead
      <3>2. /\ c \in 1..v - 1 /\ text'[c] = ":" /\ AllIn(text', c + 1, v - 1, Blanks)
            /\ NameRead(text', c - 1, b)
        BY <3>1 DEF ColonRead
      <3>3. /\ b \in 1..c - 1 /\ AllIn(text', 1, b - 1, Blanks)
            /\ AllIn(text', b, c - 1, NameSymbols)
        BY <3>2 DEF NameRead
      <3>4. /\ Len(text') - 1 = n /\ Len(text') - 2 = n - 1
            /\ text'[n] = "\r" /\ text'[Len(text')] = "\n"
        BY <1>0, <1>2, <1>4
      <3>5. b < c /\ v <= Len(text') - 2
        BY <1>0, <3>1, <3>2, <3>3
      <3>6. QED
        BY <3>1, <3>2, <3>3, <3>4, <3>5 DEF IsHeaderAt
    <2>4. QED
      BY <1>0, <1>3, <1>6, <2>1, <2>3 DEF HeaderSound
  <1>7. QED
    BY <1>5, <1>6

LEMMA HInvNext == HInv /\ [Next]_vars => HInv'
  <1> SUFFICES ASSUME HInv, [Next]_vars PROVE HInv'
    OBVIOUS
  <1>0. PInv'
    BY PInvNext DEF HInv
  <1>1. CASE fn # "header"
    <2>1. fn' = fn
      BY DEF Next, Read, BufferEnd, NextHeader, vars
    <2>2. QED
      BY <1>0, <1>1, <2>1 DEF HInv, HeaderSound
  <1>2. CASE fn = "header"
    <2>1. ASSUME NEW ch \in Alphabet, Read(ch) PROVE HInv'
      <3>1. ASSUME NEW to \in States, Advance(ch, to) PROVE HInv'
        <4>1. LineShape' /\ verdict' = "none"
          BY <1>2, <2>1, <3>1, HInvAdvance DEF Advance, Read
        <4>2. QED
          BY <1>0, <4>1 DEF HInv, HeaderSound
      <3>2. CASE Complete(ch)
        <4>1. HeaderSound' /\ verdict' # "none"
          BY <1>2, <2>1, <3>2, HInvComplete DEF Complete
        <4>2. QED
          BY <1>0, <4>1 DEF HInv
      <3>3. CASE Reject(ch)
        BY <1>0, <3>3 DEF HInv, HeaderSound, Reject
      <3>4. QED
        BY <2>1, <3>1, <3>2, <3>3 DEF Read
    <2>2. CASE BufferEnd
      BY <1>0, <2>2 DEF HInv, HeaderSound, BufferEnd
    <2>3. CASE NextHeader
      <3>1. state' = "S_HD_BEGIN" /\ verdict' = "none" /\ text' = <<>>
        BY <2>3 DEF NextHeader, HInv, PInv, LineDone
      <3>2. LineShape'
        BY <3>1 DEF LineShape, AllIn
      <3>3. QED
        BY <1>0, <3>1, <3>2 DEF HInv, HeaderSound
    <2>4. CASE UNCHANGED vars
      <3>1. LineShape' <=> LineShape
        BY <2>4 DEF vars, LineShape
      <3>2. HeaderSound' <=> HeaderSound
        BY <2>4 DEF vars, HeaderSound
      <3>3. QED
        BY <1>0, <2>4, <3>1, <3>2 DEF HInv, vars
    <2>5. QED
      BY <2>1, <2>2, <2>3, <2>4 DEF Next
  <1>3. QED
    BY <1>1, <1>2

(* A line handed over as a header is a header line, cut at its own colon   *)
(* and value, however long it is and whatever lines came before it; the    *)
(* headers end at an empty line only.                                      *)
THEOREM HeadersAreHeaders == Spec => []HeaderSound
  <1>1. Init => HInv
    <2>1. Init => LineShape /\ HeaderSound
      BY DEF Init, LineShape, HeaderSound, AllIn
    <2>2. QED
      BY <2>1, PInvInit DEF HInv
  <1>2. HInv => HeaderSound
    BY DEF HInv
  <1>3. QED
    BY <1>1, <1>2, HInvNext, PTL DEF Spec
-----------------------------------------------------------------------------
(* A line that the text begins leads the automaton: after as many symbols  *)
(* as have been read, the state is the one of the place reached in the     *)
(* line. This is said for every line at once, so that it holds as well of  *)
(* the lines that the buffer does not turn out to hold.                    *)
Begins(s, t) == Len(s) <= Len(t) /\ \A k \in 1..Len(s) : t[k] = s[k]

Reading == verdict \in {"none", "AGAIN"}

OnHeader(t, i, c, v) ==
    LET n == Len(t)
        p == Len(text)
    IN
    \/ verdict = "OK" /\ p = n
    \/ /\ Reading /\ p < n
       /\ p < i => state = "S_HD_BEGIN"
       /\ i <= p /\ p < c => state = "S_HD_NAME"
       /\ p = c => state = "S_HD_COLON"
       /\ c < p /\ p < v => state = "S_HD_SP_BEFORE_VAL"
       /\ v <= p /\ p < n - 1 => state = "S_HD_VAL"
       /\ p = n - 1 => state = "S_HD_CR_AFTER_VAL"
       /\ i <= p => ~isCRLF

OnEmptyLine(t) ==
    LET n == Len(t)
        p == Len(text)
    IN
    \/ verdict = "CRLF_LINE" /\ p = n
    \/ /\ Reading /\ p < n
       /\ p < n - 1 => state = "S_HD_BEGIN"
       /\ p = n - 1 => state = "S_HD_CR_AFTER_VAL" /\ isCRLF

HeaderLed ==
    fn = "header" =>
        \A t \in Seq(Symbols) : Begins(text, t) =>
            /\ \A i, c, v \in DOMAIN t : IsHeaderAt(t, i, c, v) => OnHeader(t, i, c, v)
            /\ IsEmptyLine(t) => OnEmptyLine(t)

(* What tells the kinds of symbols apart.                                  *)
LEMMA SymbolKinds ==
  /\ Blanks \cap Breaks = {} /\ Blanks \cap NameSymbols = {}
  /\ Breaks \cap NameSymbols = {}
  /\ ":" \notin Blanks \cup Breaks \cup NameSymbols
  /\ "\r" \in Breaks /\ "\n" \in Breaks /\ "\r" # "\n"
  BY DEF NameSymbols, Letters, Digits, DigitValue, Blanks, Breaks

(* The symbols on the way through a header line.                           *)
LEMMA HeaderSymbols ==
  ASSUME NEW t \in Seq(Symbols), NEW i \in DOMAIN t, NEW c \in DOMAIN t,
         NEW v \in DOMAIN t, IsHeaderAt(t, i, c, v), NEW q \in DOMAIN t
  PROVE  /\ i < c /\ c < v /\ v < Len(t) - 1
         /\ q < i => t[q] \in Blanks
         /\ i <= q /\ q < c => t[q] \in NameSymbols
         /\ q = c => t[q] = ":"
         /\ c < q /\ q < v => t[q] \in Blanks
         /\ v <= q /\ q < Len(t) - 1 => t[q] \notin Breaks
         /\ q = v => t[q] \notin Blanks
         /\ q = Len(t) - 1 => t[q] = "\r"
         /\ q = Len(t) => t[q] = "\n"
  BY DEF IsHeaderAt, AllIn

LEMMA EmptySymbols ==
  ASSUME NEW t \in Seq(Symbols), IsEmptyLine(t), NEW q \in DOMAIN t
  PROVE  /\ Len(t) >= 2
         /\ q < Len(t) - 1 => t[q] \in Blanks
         /\ q = Len(t) - 1 => t[q] = "\r"
         /\ q = Len(t) => t[q] = "\n"
  BY DEF IsEmptyLine, AllIn

(* A line that begins with one symbol more.                                *)
LEMMA BeginsLess ==
  ASSUME NEW s \in Seq(Symbols), NEW ch \in Symbols, NEW t \in Seq(Symbols),
         Begins(Append(s, ch), t)
  PROVE  Begins(s, t) /\ Len(s) + 1 \in DOMAIN t /\ t[Len(s) + 1] = ch
  <1> DEFINE a == Append(s, ch)
  <1>1. Len(a) = Len(s) + 1 /\ a[Len(s) + 1] = ch /\ \A k \in 1..Len(s) : a[k] = s[k]
    OBVIOUS
  <1>2. Len(a) <= Len(t) /\ \A k \in 1..Len(a) : t[k] = a[k]
    BY DEF Begins
  <1> HIDE DEF a
  <1>3. QED
    BY <1>1, <1>2 DEF Begins

(* The one move of the automaton of a header line.                         *)
OnlyMove(from, ch, to) ==
    HeaderMoves(from, ch, to) /\ \A other : HeaderMoves(from, ch, other) => other = to

(* No symbol is refused that the automaton of a header line would take.    *)
LEMMA HeaderStep ==
  ASSUME PInv, fn = "header", verdict = "none", NEW ch \in Alphabet, Read(ch),
         NEW to \in HeaderStates \cup {Done}, OnlyMove(state, ch, to)
  PROVE  /\ to = Done => Complete(ch)
         /\ to # Done => /\ state' = to /\ verdict' = "none"
                         /\ IF state = "S_HD_BEGIN" /\ to # state THEN isCRLF' <=> ch = "\r"
                            ELSE isCRLF' <=> isCRLF
  <1> USE DEF OnlyMove
  <1>1. state \in HeaderStates
    BY DEF PInv, TypeOK
  <1>2. \A other : Moves(state, ch, other) <=> HeaderMoves(state, ch, other)
    BY <1>1 DEF Moves, RequestMoves, HeaderStates
  <1>3. ~Refused(ch, to)
    BY <1>1 DEF Refused, HeaderStates
  <1>4. ~Reject(ch)
    BY <1>2, <1>3 DEF Reject, States
  <1>5. CASE Complete(ch)
    BY <1>2, <1>5 DEF Complete
  <1>6. ASSUME NEW other \in States, Advance(ch, other)
        PROVE  /\ to # Done /\ state' = to /\ verdict' = "none"
               /\ IF state = "S_HD_BEGIN" /\ to # state THEN isCRLF' <=> ch = "\r"
                  ELSE isCRLF' <=> isCRLF
    BY <1>2, <1>6 DEF Advance
  <1>7. QED
    BY <1>4, <1>5, <1>6 DEF Read

LEMMA LedOnHeader ==
  ASSUME PInv, fn = "header", verdict = "none", NEW ch \in Alphabet, Read(ch),
         NEW t \in Seq(Symbols), Begins(text', t),
         NEW i \in DOMAIN t, NEW c \in DOMAIN t, NEW v \in DOMAIN t,
         IsHeaderAt(t, i, c, v), OnHeader(t, i, c, v)
  PROVE  OnHeader(t, i, c, v)'
  <1> DEFINE n == Len(t)
             p == Len(text)
  <1>0. /\ p \in Nat /\ n \in Nat /\ text \in Seq(Symbols) /\ ch \in Symbols
        /\ text' = Append(text, ch) /\ Len(text') = p + 1
    BY AlphabetSymbols DEF PInv, TypeOK, Read
  <1>1. p + 1 \in DOMAIN t /\ t[p + 1] = ch /\ p + 1 <= n
    BY <1>0, BeginsLess
  <1>2. /\ i < c /\ c < v /\ v < n - 1
        /\ p + 1 < i => ch \in Blanks
        /\ i <= p + 1 /\ p + 1 < c => ch \in NameSymbols
        /\ p + 1 = c => ch = ":"
        /\ c < p + 1 /\ p + 1 < v => ch \in Blanks
        /\ v <= p + 1 /\ p + 1 < n - 1 => ch \notin Breaks
        /\ p + 1 = v => ch \notin Blanks
        /\ p + 1 = n - 1 => ch = "\r"
        /\ p + 1 = n => ch = "\n"
    BY <1>1, HeaderSymbols
  <1>3. /\ p < n
        /\ p < i => state = "S_HD_BEGIN"
        /\ i <= p /\ p < c => state = "S_HD_NAME"
        /\ p = c => state = "S_HD_COLON"
        /\ c < p /\ p < v => state = "S_HD_SP_BEFORE_VAL"
        /\ v <= p /\ p < n - 1 => state = "S_HD_VAL"
        /\ p = n - 1 => state = "S_HD_CR_AFTER_VAL"
        /\ i <= p => ~isCRLF
    BY DEF OnHeader, Reading
  <1>4. i \in Nat /\ c \in Nat /\ v \in Nat /\ i >= 1
    OBVIOUS
  <1> HIDE DEF n, p
  <1> DEFINE On(st) ==
               /\ p + 1 < i => st = "S_HD_BEGIN"
               /\ i <= p + 1 /\ p + 1 < c => st = "S_HD_NAME"
               /\ p + 1 = c => st = "S_HD_COLON"
               /\ c < p + 1 /\ p + 1 < v => st = "S_HD_SP_BEFORE_VAL"
               /\ v <= p + 1 /\ p + 1 < n - 1 => st = "S_HD_VAL"
               /\ p + 1 = n - 1 => st = "S_HD_CR_AFTER_VAL"
  <1>5. ASSUME NEW to \in HeaderStates, OnlyMove(state, ch, to), On(to), p + 1 < n,
               i <= p + 1 /\ state = "S_HD_BEGIN" => ch # "\r" /\ to # "S_HD_BEGIN"
        PROVE  OnHeader(t, i, c, v)'
    <2>0. to \in HeaderStates \cup {Done} /\ to # Done
      BY <1>5 DEF HeaderStates, Done
    <2>1. /\ state' = to /\ verdict' = "none"
          /\ IF state = "S_HD_BEGIN" /\ to # state THEN isCRLF' <=> ch = "\r"
             ELSE isCRLF' <=> isCRLF
      BY <1>5, <2>0, HeaderStep
    <2>2. i <= p + 1 => ~isCRLF'
      BY <1>0, <1>2, <1>3, <1>4, <1>5, <2>1
    <2>3. QED
      BY <1>0, <1>5, <2>1, <2>2 DEF OnHeader, Reading, n
  <1> HIDE DEF On
  <1> USE SymbolKinds
  <1>6. CASE p + 1 < i
    <2>1. OnlyMove(state, ch, "S_HD_BEGIN")
      BY <1>0, <1>2, <1>3, <1>4, <1>6 DEF OnlyMove, HeaderMoves
    <2>2. On("S_HD_BEGIN") /\ p + 1 < n
      BY <1>0, <1>2, <1>4, <1>6 DEF On
    <2>3. QED
      BY <1>0, <1>4, <1>5, <1>6, <2>1, <2>2 DEF HeaderStates
  <1>7. CASE i <= p + 1 /\ p + 1 < c
    <2>1. state \in {"S_HD_BEGIN", "S_HD_NAME"} /\ ch \in NameSymbols
      BY <1>0, <1>2, <1>3, <1>4, <1>7
    <2>2. OnlyMove(state, ch, "S_HD_NAME")
      BY <2>1 DEF OnlyMove, HeaderMoves
    <2>3. On("S_HD_NAME") /\ p + 1 < n
      BY <1>0, <1>2, <1>4, <1>7 DEF On
    <2>4. QED
      BY <1>5, <2>1, <2>2, <2>3 DEF HeaderStates
  <1>8. CASE p + 1 = c
    <2>1. state = "S_HD_NAME" /\ ch = ":"
      BY <1>0, <1>2, <1>3, <1>4, <1>8
    <2>2. OnlyMove(state, ch, "S_HD_COLON")
      BY <2>1 DEF OnlyMove, HeaderMoves
    <2>3. On("S_HD_COLON") /\ p + 1 < n
      BY <1>0, <1>2, <1>4, <1>8 DEF On
    <2>4. QED
      BY <1>5, <2>1, <2>2, <2>3 DEF HeaderStates
  <1>9. CASE c < p + 1 /\ p + 1 < v
    <2>1. state \in {"S_HD_COLON", "S_HD_SP_BEFORE_VAL"} /\ ch \in Blanks
      BY <1>0, <1>2, <1>3, <1>4, <1>9
    <2>2. OnlyMove(state, ch, "S_HD_SP_BEFORE_VAL")
      BY <2>1 DEF OnlyMove, HeaderMoves
    <2>3. On("S_HD_SP_BEFORE_VAL") /\ p + 1 < n
      BY <1>0, <1>2, <1>4, <1>9 DEF On
    <2>4. QED
      BY <1>5, <2>1, <2>2, <2>3 DEF HeaderStates
  <1>10. CASE v <= p + 1 /\ p + 1 < n - 1
    <2>1. /\ state \in {"S_HD_COLON", "S_HD_SP_BEFORE_VAL", "S_HD_VAL"} /\ ch \notin Breaks
          /\ state # "S_HD_VAL" => ch \notin Blanks
      BY <1>0, <1>2, <1>3, <1>4, <1>10
    <2>2. OnlyMove(state, ch, "S_HD_VAL")
      BY <2>1 DEF OnlyMove, HeaderMoves
    <2>3. On("S_HD_VAL") /\ p + 1 < n
      BY <1>0, <1>2, <1>4, <1>10 DEF On
    <2>4. QED
      BY <1>5, <2>1, <2>2, <2>3 DEF HeaderStates
  <1>11. CASE p + 1 = n - 1
    <2>1. state = "S_HD_VAL" /\ ch = "\r"
      BY <1>0, <1>2, <1>3, <1>4, <1>11
    <2>2. OnlyMove(state, ch, "S_HD_CR_AFTER_VAL")
      BY <2>1 DEF OnlyMove, HeaderMoves
    <2>3. On("S_HD_CR_AFTER_VAL") /\ p + 1 < n
      BY <1>0, <1>2, <1>4, <1>11 DEF On
    <2>4. QED
      BY <1>5, <2>1, <2>2, <2>3 DEF HeaderStates
  <1>12. CASE p + 1 = n
    <2>1. state = "S_HD_CR_AFTER_VAL" /\ ch = "\n" /\ ~isCRLF
      BY <1>0, <1>2, <1>3, <1>4, <1>12
    <2>2. OnlyMove(state, ch, Done)
      BY <2>1 DEF OnlyMove, HeaderMoves
    <2>3. Complete(ch)
      BY <2>2, HeaderStep
    <2>4. verdict' = "OK"
      BY <2>1, <2>3 DEF Complete
    <2>5. QED
      BY <1>0, <1>12, <2>4 DEF OnHeader, n
  <1>13. QED
    BY <1>0, <1>1, <1>2, <1>4, <1>6, <1>7, <1>8, <1>9, <1>10, <1>11, <1>12

LEMMA LedOnEmptyLine ==
  ASSUME PInv, fn = "header", verdict = "none", NEW ch \in Alphabet, Read(ch),
         NEW t \in Seq(Symbols), Begins(text', t), IsEmptyLine(t), OnEmptyLine(t)
  PROVE  OnEmptyLine(t)'
  <1> DEFINE n == Len(t)
             p == Len(text)
  <1>0. /\ p \in Nat /\ n \in Nat /\ text \in Seq(Symbols) /\ ch \in Symbols
        /\ text' = Append(text, ch) /\ Len(text') = p + 1
    BY AlphabetSymbols DEF PInv, TypeOK, Read
  <1>1. p + 1 \in DOMAIN t /\ t[p + 1] = ch /\ p + 1 <= n
    BY <1>0, BeginsLess
  <1>2. /\ n >= 2
        /\ p + 1 < n - 1 => ch \in Blanks
        /\ p + 1 = n - 1 => ch = "\r"
        /\ p + 1 = n => ch = "\n"
    BY <1>1, EmptySymbols
  <1>3. /\ p < n - 1 => state = "S_HD_BEGIN"
        /\ p = n - 1 => state = "S_HD_CR_AFTER_VAL" /\ isCRLF
    BY DEF OnEmptyLine, Reading
  <1> HIDE DEF n, p
  <1> USE SymbolKinds
  <1>4. CASE p + 1 < n - 1
    <2>1. OnlyMove(state, ch, "S_HD_BEGIN")
      BY <1>0, <1>2, <1>3, <1>4 DEF OnlyMove, HeaderMoves
    <2>2. state' = "S_HD_BEGIN" /\ verdict' = "none"
      BY <2>1, HeaderStep DEF HeaderStates, Done
    <2>3. QED
      BY <1>0, <1>4, <2>2 DEF OnEmptyLine, Reading, n
  <1>5. CASE p + 1 = n - 1
    <2>1. state = "S_HD_BEGIN" /\ ch = "\r"
      BY <1>0, <1>2, <1>3, <1>5
    <2>2. OnlyMove(state, ch, "S_HD_CR_AFTER_VAL")
      BY <2>1 DEF OnlyMove, HeaderMoves
    <2>3. state' = "S_HD_CR_AFTER_VAL" /\ verdict' = "none" /\ isCRLF'
      BY <2>1, <2>2, HeaderStep DEF HeaderStates, Done
    <2>4. QED
      BY <1>0, <1>5, <2>3 DEF OnEmptyLine, Reading, n
  <1>6. CASE p + 1 = n
    <2>1. state = "S_HD_CR_AFTER_VAL" /\ ch = "\n" /\ isCRLF
      BY <1>0, <1>2, <1>3, <1>6
    <2>2. OnlyMove(state, ch, Done)
      BY <2>1 DEF OnlyMove, HeaderMoves
    <2>3. verdict' = "CRLF_LINE"
      BY <2>1, <2>2, HeaderStep DEF Complete
    <2>4. QED
      BY <1>0, <1>6, <2>3 DEF OnEmptyLine, n
  <1>7. QED
    BY <1>0, <1>1, <1>2, <1>4, <1>5, <1>6

HLed == HInv /\ HeaderLed

LEMMA HLedNext == HLed /\ [Next]_vars => HLed'
  <1> SUFFICES ASSUME HLed, [Next]_vars PROVE HLed'
    OBVIOUS
  <1>0. HInv' /\ PInv
    BY HInvNext DEF HLed, HInv
  <1>1. fn' = fn
    BY DEF Next, Read, BufferEnd, NextHeader, vars
  <1>2. CASE fn # "header"
    BY <1>0, <1>1, <1>2 DEF HLed, HeaderLed
  <1>3. CASE fn = "header"
    <2> SUFFICES ASSUME NEW t \in Seq(Symbols), Begins(text', t)
                 PROVE  /\ \A i, c, v \in DOMAIN t :
                              IsHeaderAt(t, i, c, v) => OnHeader(t, i, c, v)'
                        /\ IsEmptyLine(t) => OnEmptyLine(t)'
      BY <1>0 DEF HLed, HeaderLed
    <2>1. ASSUME Begins(text, t)
          PROVE  /\ \A i, c, v \in DOMAIN t : IsHeaderAt(t, i, c, v) => OnHeader(t, i, c, v)
                 /\ IsEmptyLine(t) => OnEmptyLine(t)
      BY <1>3, <2>1 DEF HLed, HeaderLed
    <2>2. ASSUME NEW ch \in Alphabet, Read(ch)
          PROVE  /\ \A i, c, v \in DOMAIN t :
                       IsHeaderAt(t, i, c, v) => OnHeader(t, i, c, v)'
                 /\ IsEmptyLine(t) => OnEmptyLine(t)'
      <3>1. text \in Seq(Symbols) /\ ch \in Symbols /\ text' = Append(text, ch)
            /\ verdict = "none"
        BY <1>0, <2>2, AlphabetSymbols DEF PInv, TypeOK, Read
      <3>2. Begins(text, t)
        BY <3>1, BeginsLess
      <3>3. QED
        BY <1>0, <1>3, <2>1, <2>2, <3>1, <3>2, LedOnHeader, LedOnEmptyLine
    <2>3. CASE BufferEnd
      <3>1. text' = text /\ state' = state /\ isCRLF' = isCRLF
            /\ verdict = "none" /\ verdict' = "AGAIN"
        BY <2>3 DEF BufferEnd
      <3>2. QED
        BY <2>1, <3>1 DEF OnHeader, OnEmptyLine, Reading
    <2>4. CASE NextHeader
      <3>1. Len(text') = 0 /\ state' = "S_HD_BEGIN" /\ verdict' = "none"
        BY <1>0, <2>4 DEF NextHeader, PInv, LineDone
      <3>2. ASSUME NEW i \in DOMAIN t, NEW c \in DOMAIN t, NEW v \in DOMAIN t,
                   IsHeaderAt(t, i, c, v)
            PROVE  OnHeader(t, i, c, v)'
        <4>1. 0 < i /\ i < c /\ c < v /\ v < Len(t) - 1 /\ Len(t) \in Nat
              /\ i \in Nat /\ c \in Nat /\ v \in Nat
          BY <3>2 DEF IsHeaderAt
        <4>2. QED
          BY <3>1, <4>1 DEF OnHeader, Reading
      <3>3. ASSUME IsEmptyLine(t) PROVE OnEmptyLine(t)'
        <4>1. Len(t) >= 2 /\ Len(t) \in Nat
          BY <3>3 DEF IsEmptyLine
        <4>2. QED
          BY <3>1, <4>1 DEF OnEmptyLine, Reading
      <3>4. QED
        BY <3>2, <3>3
    <2>5. CASE UNCHANGED vars
      <3>1. text' = text /\ state' = state /\ isCRLF' = isCRLF /\ verdict' = verdict
        BY <2>5 DEF vars
      <3>2. QED
        BY <2>1, <3>1 DEF OnHeader, OnEmptyLine, Reading
    <2>6. QED
      BY <2>2, <2>3, <2>4, <2>5 DEF Next
  <1>4. QED
    BY <1>2, <1>3

LEMMA HLedInit == Init => HLed
  <1> SUFFICES ASSUME Init PROVE HLed
    OBVIOUS
  <1>1. HInv
    BY PInvInit DEF Init, LineShape, HeaderSound, AllIn, HInv
  <1>2. ASSUME fn = "header", NEW t \in Seq(Symbols)
        PROVE  /\ \A i, c, v \in DOMAIN t : IsHeaderAt(t, i, c, v) => OnHeader(t, i, c, v)
               /\ IsEmptyLine(t) => OnEmptyLine(t)
    <2>1. Len(text) = 0 /\ state = "S_HD_BEGIN" /\ verdict = "none"
      BY <1>2 DEF Init
    <2>2. ASSUME NEW i \in DOMAIN t, NEW c \in DOMAIN t, NEW v \in DOMAIN t,
                 IsHeaderAt(t, i, c, v)
          PROVE  OnHeader(t, i, c, v)
      <3>1. 0 < i /\ i < c /\ c < v /\ v < Len(t) - 1 /\ Len(t) \in Nat
            /\ i \in Nat /\ c \in Nat /\ v \in Nat
        BY <2>2 DEF IsHeaderAt
      <3>2. QED
        BY <2>1, <3>1 DEF OnHeader, Reading
    <2>3. ASSUME IsEmptyLine(t) PROVE OnEmptyLine(t)
      <3>1. Len(t) >= 2 /\ Len(t) \in Nat
        BY <2>3 DEF IsEmptyLine
      <3>2. Len(text) < Len(t) /\ Len(text) < Len(t) - 1 /\ Len(text) # Len(t) - 1
        <4>1. \A n \in Nat : n >= 2 => 0 < n /\ 0 < n - 1 /\ 0 # n - 1
          OBVIOUS
        <4>2. QED
          BY <2>1, <3>1, <4>1, Zenon
      <3>3. QED
        BY <2>1, <3>2 DEF OnEmptyLine, Reading
    <2>4. QED
      BY <2>2, <2>3
  <1>3. QED
    BY <1>1, <1>2 DEF HLed, HeaderLed

(* A text begins itself, and whatever is written behind it.                *)
LEMMA BeginsMore ==
  ASSUME NEW s \in Seq(Symbols), NEW e \in Seq(Symbols)
  PROVE  s \o e \in Seq(Symbols) /\ Begins(s, s \o e) /\ Begins(s, s)
  BY DEF Begins

LEMMA HeaderEndsAre == \A e \in HeaderEnds : e \in Seq(Symbols)
  <1> DEFINE line == <<"word", ":", "word", "\r", "\n">>
  <1>1. line \in Seq(Symbols) /\ Len(line) = 5
    BY DEF Symbols, NameSymbols, Letters, Breaks
  <1> HIDE DEF line
  <1>2. \A k \in 1..Len(line) + 1 : SubSeq(line, k, Len(line)) \in Seq(Symbols)
    BY <1>1
  <1>3. HeaderEnds = {SubSeq(line, k, Len(line)) : k \in 1..Len(line) + 1}
    BY DEF HeaderEnds, Suffixes, line
  <1>4. QED
    BY <1>2, <1>3

(* parse_header_line recognises the header lines and the empty line: it    *)
(* hands over the name and the value of every header line at its last      *)
(* symbol, ends the headers at every empty line and at no other, and       *)
(* refuses only what no end could have made a line of either kind - in     *)
(* lines of every length, and whatever lines were read before.             *)
THEOREM HeaderLinesExact == Spec => []HeaderExact
  <1>1. HLed => HeaderExact
    <2> SUFFICES ASSUME HLed, fn = "header"
                 PROVE  /\ IsHeader(text) => verdict = "OK"
                        /\ IsEmptyLine(text) => verdict = "CRLF_LINE"
                        /\ verdict = "INVALID_REQUEST" =>
                            \A e \in HeaderEnds :
                                ~IsHeader(text \o e) /\ ~IsEmptyLine(text \o e)
      BY DEF HLed, HInv, HeaderExact, HeaderSound
    <2>1. text \in Seq(Symbols)
      BY DEF HLed, HInv, PInv, TypeOK
    <2>2. Begins(text, text)
      BY <2>1 DEF Begins
    <2>3. ASSUME IsHeader(text) PROVE verdict = "OK"
      <3>1. PICK i \in DOMAIN text, c \in DOMAIN text, v \in DOMAIN text :
                IsHeaderAt(text, i, c, v)
        BY <2>3 DEF IsHeader
      <3>2. OnHeader(text, i, c, v)
        BY <2>1, <2>2, <3>1 DEF HLed, HeaderLed
      <3>3. QED
        BY <2>1, <3>2 DEF OnHeader
    <2>4. ASSUME IsEmptyLine(text) PROVE verdict = "CRLF_LINE"
      <3>1. OnEmptyLine(text)
        BY <2>1, <2>2, <2>4 DEF HLed, HeaderLed
      <3>2. QED
        BY <2>1, <3>1 DEF OnEmptyLine
    <2>5. ASSUME verdict = "INVALID_REQUEST", NEW e \in HeaderEnds
          PROVE  ~IsHeader(text \o e) /\ ~IsEmptyLine(text \o e)
      <3>1. text \o e \in Seq(Symbols) /\ Begins(text, text \o e)
        BY <2>1, HeaderEndsAre, BeginsMore
      <3>2. \A i, c, v : ~OnHeader(text \o e, i, c, v)
        BY <2>5 DEF OnHeader, Reading
      <3>3. ~OnEmptyLine(text \o e)
        BY <2>5 DEF OnEmptyLine, Reading
      <3>4. QED
        BY <3>1, <3>2, <3>3 DEF HLed, HeaderLed, IsHeader
    <2>6. QED
      BY <2>3, <2>4, <2>5
  <1>2. QED
    BY <1>1, HLedInit, HLedNext, PTL DEF Spec

-----------------------------------------------------------------------------
(* The same of request lines. A request line with its URL at i..j, its     *)
(* version at v and the dot of the version at d:                           *)
Space == " "

RequestAt(s, i, j, v, d) ==
    LET n == Len(s) IN
    /\ v \in 5..n /\ i \in 3..v - 2 /\ j \in i..v - 2 /\ d \in v + 3..n - 3
    /\ s[1] = "method" /\ s[2] = Space
    /\ AllIn(s, 3, i - 1, Blanks)
    /\ IsUrlAt(s, i, j)
    /\ AllIn(s, j + 1, v - 1, Blanks)
    /\ s[v] = "proto" /\ s[v + 1] = "/"
    /\ IsNumber(s, v + 2, d - 1)
    /\ s[d] = "."
    /\ IsNumber(s, d + 1, n - 2)
    /\ s[n - 1] = "\r" /\ s[n] = "\n"

LEMMA RequestSplit ==
  ASSUME NEW s
  PROVE  IsRequestLine(s) => \E i, j, v, d : RequestAt(s, i, j, v, d)
  <1> SUFFICES ASSUME IsRequestLine(s) PROVE \E i, j, v, d : RequestAt(s, i, j, v, d)
    OBVIOUS
  <1>1. PICK v \in 5..Len(s) :
          /\ s[1] = "method" /\ s[2] = Space
          /\ IsVersion(s, v)
          /\ \E i \in 3..v - 2 :
              /\ AllIn(s, 3, i - 1, Blanks)
              /\ \E j \in i..v - 2 : IsUrlAt(s, i, j) /\ AllIn(s, j + 1, v - 1, Blanks)
    BY Zenon DEF IsRequestLine, Space
  <1>2. PICK i \in 3..v - 2 :
          /\ AllIn(s, 3, i - 1, Blanks)
          /\ \E j \in i..v - 2 : IsUrlAt(s, i, j) /\ AllIn(s, j + 1, v - 1, Blanks)
    BY <1>1, Zenon
  <1>3. PICK j \in i..v - 2 : IsUrlAt(s, i, j) /\ AllIn(s, j + 1, v - 1, Blanks)
    BY <1>2, Zenon
  <1>4. PICK d \in v + 3..Len(s) - 3 :
          s[d] = "." /\ IsNumber(s, v + 2, d - 1) /\ IsNumber(s, d + 1, Len(s) - 2)
    BY <1>1, Zenon DEF IsVersion
  <1>5. s[v] = "proto" /\ s[v + 1] = "/" /\ s[Len(s) - 1] = "\r" /\ s[Len(s)] = "\n"
    BY <1>1, Zenon DEF IsVersion
  <1>6. RequestAt(s, i, j, v, d)
    BY <1>1, <1>2, <1>3, <1>4, <1>5, Zenon DEF RequestAt
  <1>7. QED
    BY <1>6

LEMMA RequestKinds ==
  /\ Space \in Blanks
  /\ "method" \in Letters /\ "proto" \in Letters
  /\ "0" \in Digits /\ "1" \in Digits
  /\ DigitValue["0"] = 0 /\ DigitValue["1"] = 1
  /\ "/" \notin Blanks \cup Breaks
  /\ Space \notin Letters /\ "/" \notin Letters \cup Digits
  /\ "." \notin Digits /\ "\r" \notin Digits /\ "." # "\r"
  /\ Letters \cap Blanks = {} /\ Digits \cap (Blanks \cup Breaks) = {}
  <1>1. DigitValue["0"] = 0 /\ DigitValue["1"] = 1
    BY DEF DigitValue
  <1>2. QED
    BY <1>1, Zenon DEF Space, Blanks, Breaks, Letters, Digits, DigitValue

LEMMA NumberSymbols ==
  ASSUME NEW s, NEW a \in Int, NEW b \in Int, IsNumber(s, a, b), NEW q \in a..b
  PROVE  /\ s[q] \in Digits
         /\ q < b => s[q] = "0"
         /\ a < q => s[q] \in {"0", "1"}
  BY RequestKinds DEF IsNumber, AllIn

(* The symbols on the way through a request line.                          *)
SymbolAt(t, i, j, v, d, q, ch) ==
    /\ i \in Int /\ j \in Int /\ v \in Int /\ d \in Int
    /\ 2 < i /\ i <= j /\ j < v - 1 /\ v + 2 < d /\ d < Len(t) - 2
    /\ q = 1 => ch = "method"
    /\ q = 2 => ch = Space
    /\ 2 < q /\ q < i => ch \in Blanks
    /\ q = i => ch = "/"
    /\ i <= q /\ q <= j => ch \notin Blanks \cup Breaks
    /\ j < q /\ q < v => ch \in Blanks
    /\ q = v => ch = "proto"
    /\ q = v + 1 => ch = "/"
    /\ v + 1 < q /\ q < d => ch \in Digits
    /\ v + 1 < q /\ q < d - 1 => ch = "0"
    /\ v + 2 < q /\ q < d => ch \in {"0", "1"}
    /\ q = d => ch = "."
    /\ d < q /\ q < Len(t) - 1 => ch \in Digits
    /\ d < q /\ q < Len(t) - 2 => ch = "0"
    /\ d + 1 < q /\ q < Len(t) - 1 => ch \in {"0", "1"}
    /\ q = Len(t) - 1 => ch = "\r"
    /\ q = Len(t) => ch = "\n"

LEMMA RequestSymbols ==
  ASSUME NEW t \in Seq(Symbols), NEW i, NEW j, NEW v, NEW d, RequestAt(t, i, j, v, d),
         NEW q \in DOMAIN t, NEW ch, ch = t[q]
  PROVE  SymbolAt(t, i, j, v, d, q, ch)
  <1>1. /\ i \in Int /\ j \in Int /\ v \in Int /\ d \in Int
        /\ 2 < i /\ i <= j /\ j < v - 1 /\ v + 2 < d /\ d < Len(t) - 2
        /\ q \in Nat /\ Len(t) \in Nat
    <2>1. /\ v \in 5..Len(t) /\ i \in 3..v - 2 /\ j \in i..v - 2
          /\ d \in v + 3..Len(t) - 3
      BY Zenon DEF RequestAt
    <2>2. QED
      BY <2>1
  <1>2. IsNumber(t, v + 2, d - 1) /\ IsNumber(t, d + 1, Len(t) - 2)
    BY DEF RequestAt
  <1>3. /\ v + 1 < q /\ q < d => t[q] \in Digits
        /\ v + 1 < q /\ q < d - 1 => t[q] = "0"
        /\ v + 2 < q /\ q < d => t[q] \in {"0", "1"}
    <2>1. CASE q \in v + 2..d - 1
      BY <1>1, <1>2, <2>1, NumberSymbols
    <2>2. QED
      BY <1>1, <2>1
  <1>4. /\ d < q /\ q < Len(t) - 1 => t[q] \in Digits
        /\ d < q /\ q < Len(t) - 2 => t[q] = "0"
        /\ d + 1 < q /\ q < Len(t) - 1 => t[q] \in {"0", "1"}
    <2>1. CASE q \in d + 1..Len(t) - 2
      BY <1>1, <1>2, <2>1, NumberSymbols
    <2>2. QED
      BY <1>1, <2>1
  <1>5. /\ q = 1 => t[q] = "method"
        /\ q = 2 => t[q] = Space
        /\ q = v => t[q] = "proto"
        /\ q = v + 1 => t[q] = "/"
        /\ q = d => t[q] = "."
        /\ q = Len(t) - 1 => t[q] = "\r"
        /\ q = Len(t) => t[q] = "\n"
    BY DEF RequestAt
  <1>6. /\ 2 < q /\ q < i => t[q] \in Blanks
        /\ q = i => t[q] = "/"
        /\ i <= q /\ q <= j => t[q] \notin Blanks \cup Breaks
        /\ j < q /\ q < v => t[q] \in Blanks
    BY <1>1 DEF RequestAt, AllIn, IsUrlAt
  <1>7. QED
    BY <1>1, <1>3, <1>4, <1>5, <1>6 DEF SymbolAt

OnRequest(t, i, j, v, d) ==
    LET n == Len(t)
        p == Len(text)
    IN
    \/ verdict = "OK" /\ p = n
    \/ /\ Reading /\ p < n
       /\ p = 0 => state = "S_RL_BEGIN"
       /\ p = 1 => state = "S_RL_METHOD" /\ mark["method_begin"] = 1
       /\ 2 <= p /\ p < i => state = "S_RL_SP_BEFORE_URL"
       /\ i <= p /\ p <= j => state = "S_RL_URL" /\ mark["url_begin"] = i
       /\ j < p /\ p < v => state = "S_RL_SP_BEFORE_VERSION"
       /\ p = v => state = "S_RL_VERSION_HTTP"
       /\ p = v + 1 => state = "S_RL_VERSION_HTTP_SLASH"
       /\ v + 1 < p /\ p < d => state = "S_RL_VERSION_MAJOR"
       /\ v + 1 < p /\ p < d - 1 => version.major = 0
       /\ p = d => state = "S_RL_VERSION_DOT"
       /\ d < p /\ p < n - 1 => state = "S_RL_VERSION_MINOR"
       /\ d < p /\ p < n - 2 => version.minor = 0
       /\ p = n - 1 => state = "S_RL_CR_AFTER_VERSION"

RequestLed ==
    fn = "request" =>
        \A t \in Seq(Symbols) : Begins(text, t) =>
            \A i, j, v, d : RequestAt(t, i, j, v, d) => OnRequest(t, i, j, v, d)

OnlyRequestMove(from, ch, to) ==
    RequestMoves(from, ch, to) /\ \A other : RequestMoves(from, ch, other) => other = to

(* A symbol that the automaton of a request line takes, and that is not    *)
(* refused, is read.                                                       *)
LEMMA RequestStep ==
  ASSUME PInv, fn = "request", verdict = "none", NEW ch \in Alphabet, Read(ch),
         NEW to \in RequestStates \cup {Done}, OnlyRequestMove(state, ch, to),
         ~Refused(ch, to)
  PROVE  /\ to = Done => Complete(ch)
         /\ to # Done => Advance(ch, to)
  <1> USE DEF OnlyRequestMove
  <1>1. state \in RequestStates
    BY DEF PInv, TypeOK
  <1>2. \A other : Moves(state, ch, other) <=> RequestMoves(state, ch, other)
    BY <1>1 DEF Moves, HeaderMoves, RequestStates
  <1>3. ~Reject(ch)
    BY <1>2 DEF Reject, States
  <1>4. CASE Complete(ch)
    BY <1>2, <1>4 DEF Complete
  <1>5. ASSUME NEW other \in States, Advance(ch, other)
        PROVE  to # Done /\ Advance(ch, to)
    BY <1>2, <1>5 DEF Advance
  <1>6. QED
    BY <1>3, <1>4, <1>5 DEF Read

(* What a step does to the data that a later symbol is judged by.          *)
LEMMA AdvanceData ==
  ASSUME PInv, NEW ch, NEW to, Advance(ch, to)
  PROVE  /\ state' = to /\ verdict' = verdict
         /\ mark'["method_begin"] = IF state = "S_RL_BEGIN" THEN Len(text) + 1
                                    ELSE mark["method_begin"]
         /\ mark'["url_begin"] = IF state = "S_RL_SP_BEFORE_URL" /\ to = "S_RL_URL"
                                 THEN Len(text) + 1 ELSE mark["url_begin"]
         /\ version'.major = IF to = "S_RL_VERSION_MAJOR"
                             THEN NextNumber(version.major, ch) ELSE version.major
         /\ version'.minor = IF to = "S_RL_VERSION_MINOR"
                             THEN NextNumber(version.minor, ch) ELSE version.minor
  <1>1. /\ Sets("method_begin", state, to) <=> state = "S_RL_BEGIN"
        /\ Sets("url_begin", state, to) <=> state = "S_RL_SP_BEFORE_URL" /\ to = "S_RL_URL"
    BY DEF Sets
  <1>2. \A k \in Marks : mark'[k] = IF Sets(k, state, to) THEN Len(text) + 1 ELSE mark[k]
    BY DEF Advance
  <1>3. "method_begin" \in Marks /\ "url_begin" \in Marks
    BY DEF Marks
  <1>4. state' = to /\ verdict' = verdict /\ version' = Versioned(ch, to)
    BY DEF Advance
  <1>5. QED
    BY <1>1, <1>2, <1>3, <1>4 DEF Versioned

(* The moves of the automaton of a request line, one per kind of symbol.   *)
LEMMA RequestTurns ==
  ASSUME NEW ch
  PROVE  /\ ch = "method" => OnlyRequestMove("S_RL_BEGIN", ch, "S_RL_METHOD")
         /\ ch = Space => OnlyRequestMove("S_RL_METHOD", ch, "S_RL_SP_BEFORE_URL")
         /\ ch \in Blanks =>
              /\ OnlyRequestMove("S_RL_SP_BEFORE_URL", ch, "S_RL_SP_BEFORE_URL")
              /\ OnlyRequestMove("S_RL_URL", ch, "S_RL_SP_BEFORE_VERSION")
              /\ OnlyRequestMove("S_RL_SP_BEFORE_VERSION", ch, "S_RL_SP_BEFORE_VERSION")
         /\ ch \notin Blanks \cup Breaks =>
              /\ OnlyRequestMove("S_RL_SP_BEFORE_URL", ch, "S_RL_URL")
              /\ OnlyRequestMove("S_RL_URL", ch, "S_RL_URL")
         /\ ch = "proto" =>
              OnlyRequestMove("S_RL_SP_BEFORE_VERSION", ch, "S_RL_VERSION_HTTP")
         /\ ch = "/" => OnlyRequestMove("S_RL_VERSION_HTTP", ch, "S_RL_VERSION_HTTP_SLASH")
         /\ ch \in Digits =>
              /\ OnlyRequestMove("S_RL_VERSION_HTTP_SLASH", ch, "S_RL_VERSION_MAJOR")
              /\ OnlyRequestMove("S_RL_VERSION_MAJOR", ch, "S_RL_VERSION_MAJOR")
              /\ OnlyRequestMove("S_RL_VERSION_DOT", ch, "S_RL_VERSION_MINOR")
              /\ OnlyRequestMove("S_RL_VERSION_MINOR", ch, "S_RL_VERSION_MINOR")
         /\ ch = "." => OnlyRequestMove("S_RL_VERSION_MAJOR", ch, "S_RL_VERSION_DOT")
         /\ ch = "\r" => OnlyRequestMove("S_RL_VERSION_MINOR", ch, "S_RL_CR_AFTER_VERSION")
         /\ ch = "\n" => OnlyRequestMove("S_RL_CR_AFTER_VERSION", ch, Done)
  <1> USE DEF OnlyRequestMove, RequestMoves
  <1>1. ch = "method" => OnlyRequestMove("S_RL_BEGIN", ch, "S_RL_METHOD")
    BY RequestKinds, Zenon
  <1>2. ch = Space => OnlyRequestMove("S_RL_METHOD", ch, "S_RL_SP_BEFORE_URL")
    BY RequestKinds, Zenon DEF Space
  <1>3. ch \in Blanks =>
          /\ OnlyRequestMove("S_RL_SP_BEFORE_URL", ch, "S_RL_SP_BEFORE_URL")
          /\ OnlyRequestMove("S_RL_URL", ch, "S_RL_SP_BEFORE_VERSION")
    BY Zenon
  <1>4. ch \in Blanks =>
          OnlyRequestMove("S_RL_SP_BEFORE_VERSION", ch, "S_RL_SP_BEFORE_VERSION")
    <2>1. ch \in Blanks => ch # "proto"
      BY Zenon DEF Blanks
    <2>2. QED
      BY <2>1, Zenon
  <1>5. ch \notin Blanks \cup Breaks =>
          /\ OnlyRequestMove("S_RL_SP_BEFORE_URL", ch, "S_RL_URL")
          /\ OnlyRequestMove("S_RL_URL", ch, "S_RL_URL")
    BY Zenon
  <1>6. ch = "proto" => OnlyRequestMove("S_RL_SP_BEFORE_VERSION", ch, "S_RL_VERSION_HTTP")
    BY RequestKinds, Zenon DEF Blanks
  <1>7. ch = "/" => OnlyRequestMove("S_RL_VERSION_HTTP", ch, "S_RL_VERSION_HTTP_SLASH")
    BY Zenon
  <1>8. ch \in Digits =>
          /\ OnlyRequestMove("S_RL_VERSION_HTTP_SLASH", ch, "S_RL_VERSION_MAJOR")
          /\ OnlyRequestMove("S_RL_VERSION_DOT", ch, "S_RL_VERSION_MINOR")
    BY Zenon
  <1>9. ch \in Digits =>
          /\ OnlyRequestMove("S_RL_VERSION_MAJOR", ch, "S_RL_VERSION_MAJOR")
          /\ OnlyRequestMove("S_RL_VERSION_MINOR", ch, "S_RL_VERSION_MINOR")
    BY RequestKinds, Zenon
  <1>10. ch = "." => OnlyRequestMove("S_RL_VERSION_MAJOR", ch, "S_RL_VERSION_DOT")
    BY RequestKinds, Zenon
  <1>11. ch = "\r" => OnlyRequestMove("S_RL_VERSION_MINOR", ch, "S_RL_CR_AFTER_VERSION")
    BY RequestKinds, Zenon
  <1>12. ch = "\n" => OnlyRequestMove("S_RL_CR_AFTER_VERSION", ch, Done)
    BY Zenon
  <1>13. QED
    BY <1>1, <1>2, <1>3, <1>4, <1>5, <1>6, <1>7, <1>8, <1>9, <1>10, <1>11, <1>12, Zenon

(* What has been read of a line that leads on is not refused: the method   *)
(* is known, the URL begins with a slash, the numbers stay at most 1.      *)
LEMMA MethodKnown ==
  ASSUME PInv, NEW t \in Seq(Symbols), Begins(text, t), Len(text) = 1,
         mark["method_begin"] = 1, t[1] = "method"
  PROVE  KnownMethod
  <1>1. text \in Seq(Symbols) /\ text[1] = "method"
    BY DEF PInv, TypeOK, Begins
  <1> DEFINE u == SubSeq(text, 1, 1)
  <1>a. u \in Seq(Symbols) /\ Len(u) = 1 /\ u[1] = "method"
    BY <1>1
  <1> HIDE DEF u
  <1>b. u = <<"method">>
    BY <1>a
  <1>2. SubSeq(text, 1, Len(text)) = <<"method">>
    BY <1>b DEF u
  <1>3. QED
    BY <1>2 DEF KnownMethod

LEMMA UrlFirst ==
  ASSUME PInv, mark["url_begin"] \in 1..Len(text)
  PROVE  UrlText[1] = text[mark["url_begin"]]
  <1>1. text \in Seq(Symbols) /\ Len(text) \in Nat
    BY DEF PInv, TypeOK
  <1> DEFINE b == mark["url_begin"]
             m == Len(text)
  <1>2. b \in 1..m /\ m \in Nat
    BY <1>1
  <1>3. UrlText = SubSeq(text, b, m)
    BY DEF UrlText
  <1> HIDE DEF b, m
  <1>4. SubSeq(text, b, m)[1] = text[b]
    BY <1>1, <1>2
  <1>5. QED
    BY <1>3, <1>4 DEF b

LEMMA NumberKept ==
  ASSUME NEW n \in Int, NEW ch
  PROVE  /\ n = 0 /\ ch = "0" => NextNumber(n, ch) = 0
         /\ n = 0 /\ ch \in {"0", "1"} => ~(NextNumber(n, ch) > 1)
  BY RequestKinds DEF NextNumber

LEMMA LedOnRequest ==
  ASSUME PInv, fn = "request", verdict = "none", NEW ch \in Alphabet, Read(ch),
         NEW t \in Seq(Symbols), Begins(text', t), NEW i, NEW j, NEW v, NEW d,
         RequestAt(t, i, j, v, d), OnRequest(t, i, j, v, d)
  PROVE  OnRequest(t, i, j, v, d)'
  <1> DEFINE n == Len(t)
             p == Len(text)
  <1>0. /\ p \in Nat /\ n \in Nat /\ text \in Seq(Symbols) /\ ch \in Symbols
        /\ text' = Append(text, ch) /\ Len(text') = p + 1
        /\ version.major \in Int /\ version.minor \in Int
    BY AlphabetSymbols DEF PInv, TypeOK, Read
  <1>1. p + 1 \in DOMAIN t /\ t[p + 1] = ch /\ p + 1 <= n /\ Begins(text, t)
    BY <1>0, BeginsLess
  <1>2. /\ i \in Int /\ j \in Int /\ v \in Int /\ d \in Int
        /\ 2 < i /\ i <= j /\ j < v - 1 /\ v + 2 < d /\ d < n - 2
        /\ p + 1 = 1 => ch = "method"
        /\ p + 1 = 2 => ch = Space
        /\ 2 < p + 1 /\ p + 1 < i => ch \in Blanks
        /\ i <= p + 1 /\ p + 1 <= j => ch \notin Blanks \cup Breaks
        /\ j < p + 1 /\ p + 1 < v => ch \in Blanks
        /\ p + 1 = v => ch = "proto"
        /\ p + 1 = v + 1 => ch = "/"
        /\ v + 1 < p + 1 /\ p + 1 < d => ch \in Digits
        /\ v + 1 < p + 1 /\ p + 1 < d - 1 => ch = "0"
        /\ v + 2 < p + 1 /\ p + 1 < d => ch \in {"0", "1"}
        /\ p + 1 = d => ch = "."
        /\ d < p + 1 /\ p + 1 < n - 1 => ch \in Digits
        /\ d < p + 1 /\ p + 1 < n - 2 => ch = "0"
        /\ d + 1 < p + 1 /\ p + 1 < n - 1 => ch \in {"0", "1"}
        /\ p + 1 = n - 1 => ch = "\r"
        /\ p + 1 = n => ch = "\n"
    <2>1. ch = t[p + 1]
      BY <1>1
    <2>2. SymbolAt(t, i, j, v, d, p + 1, ch)
      BY <1>1, <2>1, RequestSymbols
    <2>3. QED
      BY <2>2, Zenon DEF SymbolAt
  <1>3. /\ p < n
        /\ p = 0 => state = "S_RL_BEGIN"
        /\ p = 1 => state = "S_RL_METHOD" /\ mark["method_begin"] = 1
        /\ 2 <= p /\ p < i => state = "S_RL_SP_BEFORE_URL"
        /\ i <= p /\ p <= j => state = "S_RL_URL" /\ mark["url_begin"] = i
        /\ j < p /\ p < v => state = "S_RL_SP_BEFORE_VERSION"
        /\ p = v => state = "S_RL_VERSION_HTTP"
        /\ p = v + 1 => state = "S_RL_VERSION_HTTP_SLASH"
        /\ v + 1 < p /\ p < d => state = "S_RL_VERSION_MAJOR"
        /\ v + 1 < p /\ p < d - 1 => version.major = 0
        /\ p = d => state = "S_RL_VERSION_DOT"
        /\ d < p /\ p < n - 1 => state = "S_RL_VERSION_MINOR"
        /\ d < p /\ p < n - 2 => version.minor = 0
        /\ p = n - 1 => state = "S_RL_CR_AFTER_VERSION"
    BY DEF OnRequest, Reading
  <1>4. /\ p >= 1 => t[1] = "method" /\ t[1] = text[1]
        /\ p >= i => t[i] = "/" /\ t[i] = text[i]
    <2>1. \A q \in 1..p : t[q] = text[q] /\ q \in DOMAIN t
      BY <1>0, <1>1 DEF Begins
    <2>2. p >= 1 => t[1] = "method" /\ t[1] = text[1]
      BY <1>0, <2>1, RequestSymbols DEF SymbolAt
    <2>3. p >= i => t[i] = "/" /\ t[i] = text[i]
      <3>1. p >= i => i \in 1..p
        BY <1>0, <1>2
      <3>2. QED
        BY <2>1, <3>1, RequestSymbols DEF SymbolAt
    <2>4. QED
      BY <2>2, <2>3
  <1>5. /\ state \in {"S_RL_BEGIN", "S_RL_SP_BEFORE_URL", "S_RL_SP_BEFORE_VERSION",
                      "S_RL_VERSION_HTTP", "S_RL_VERSION_HTTP_SLASH", "S_RL_VERSION_DOT",
                      "S_RL_CR_AFTER_VERSION"}
          => \A to : ~Refused(ch, to)
        /\ state = "S_RL_METHOD" /\ KnownMethod => \A to : ~Refused(ch, to)
        /\ state = "S_RL_URL" => /\ UrlText[1] = "/" => \A to : ~Refused(ch, to)
                                 /\ ~Refused(ch, "S_RL_URL")
        /\ state = "S_RL_VERSION_MAJOR" =>
            /\ ~Refused(ch, "S_RL_VERSION_DOT")
            /\ ~(NextNumber(version.major, ch) > 1) => \A to : ~Refused(ch, to)
        /\ state = "S_RL_VERSION_MINOR" =>
            /\ ~Refused(ch, "S_RL_CR_AFTER_VERSION")
            /\ ~(NextNumber(version.minor, ch) > 1) => \A to : ~Refused(ch, to)
    BY Zenon DEF Refused
  <1>6. p = 1 => KnownMethod
    BY <1>1, <1>3, <1>4, MethodKnown
  <1>7. i <= p /\ p <= j => UrlText[1] = "/"
    <2>1. i <= p /\ p <= j => mark["url_begin"] \in 1..Len(text) /\ mark["url_begin"] = i
      BY <1>0, <1>2, <1>3
    <2>2. QED
      BY <1>4, <2>1, UrlFirst, <1>0, <1>2
  <1>8. /\ state = "S_RL_VERSION_HTTP_SLASH" => version.major = 0
        /\ state = "S_RL_VERSION_DOT" => version.minor = 0
    BY DEF PInv, VersionFresh, RequestStates
  <1>9. ASSUME NEW to \in RequestStates, OnlyRequestMove(state, ch, to), ~Refused(ch, to)
        PROVE  /\ state' = to /\ verdict' = "none"
               /\ mark'["method_begin"] = IF state = "S_RL_BEGIN" THEN p + 1
                                          ELSE mark["method_begin"]
               /\ mark'["url_begin"] = IF state = "S_RL_SP_BEFORE_URL" /\ to = "S_RL_URL"
                                       THEN p + 1 ELSE mark["url_begin"]
               /\ version'.major = IF to = "S_RL_VERSION_MAJOR"
                                   THEN NextNumber(version.major, ch) ELSE version.major
               /\ version'.minor = IF to = "S_RL_VERSION_MINOR"
                                   THEN NextNumber(version.minor, ch) ELSE version.minor
    <2>1. to \in RequestStates \cup {Done} /\ to # Done
      BY <1>9 DEF RequestStates, Done
    <2>2. Advance(ch, to)
      BY <1>9, <2>1, RequestStep
    <2>3. QED
      BY <2>2, AdvanceData
  <1> DEFINE On ==
        /\ Reading' /\ p + 1 < n
        /\ p + 1 = 1 => state' = "S_RL_METHOD" /\ mark'["method_begin"] = 1
        /\ 2 <= p + 1 /\ p + 1 < i => state' = "S_RL_SP_BEFORE_URL"
        /\ i <= p + 1 /\ p + 1 <= j => state' = "S_RL_URL" /\ mark'["url_begin"] = i
        /\ j < p + 1 /\ p + 1 < v => state' = "S_RL_SP_BEFORE_VERSION"
        /\ p + 1 = v => state' = "S_RL_VERSION_HTTP"
        /\ p + 1 = v + 1 => state' = "S_RL_VERSION_HTTP_SLASH"
        /\ v + 1 < p + 1 /\ p + 1 < d => state' = "S_RL_VERSION_MAJOR"
        /\ v + 1 < p + 1 /\ p + 1 < d - 1 => version'.major = 0
        /\ p + 1 = d => state' = "S_RL_VERSION_DOT"
        /\ d < p + 1 /\ p + 1 < n - 1 => state' = "S_RL_VERSION_MINOR"
        /\ d < p + 1 /\ p + 1 < n - 2 => version'.minor = 0
        /\ p + 1 = n - 1 => state' = "S_RL_CR_AFTER_VERSION"
  <1>10. On => OnRequest(t, i, j, v, d)'
    BY <1>0 DEF OnRequest
  <1> HIDE DEF n, p
  <1>11. CASE p + 1 = 1
    <2>1. state = "S_RL_BEGIN" /\ OnlyRequestMove(state, ch, "S_RL_METHOD")
      BY <1>0, <1>2, <1>3, <1>11, RequestTurns
    <2>2. state' = "S_RL_METHOD" /\ verdict' = "none" /\ mark'["method_begin"] = p + 1
      BY <1>5, <1>9, <2>1 DEF RequestStates
    <2>3. On
      BY <1>0, <1>2, <1>11, <2>2 DEF Reading
    <2>4. QED
      BY <1>10, <2>3
  <1>12. CASE p + 1 = 2
    <2>1. /\ state = "S_RL_METHOD" /\ OnlyRequestMove(state, ch, "S_RL_SP_BEFORE_URL")
          /\ KnownMethod
      BY <1>0, <1>2, <1>3, <1>6, <1>12, RequestTurns
    <2>2. state' = "S_RL_SP_BEFORE_URL" /\ verdict' = "none"
      BY <1>5, <1>9, <2>1 DEF RequestStates
    <2>3. On
      BY <1>0, <1>2, <1>12, <2>2 DEF Reading
    <2>4. QED
      BY <1>10, <2>3
  <1>13. CASE 2 < p + 1 /\ p + 1 < i
    <2>1. state = "S_RL_SP_BEFORE_URL" /\ ch \in Blanks
      BY <1>0, <1>2, <1>3, <1>13
    <2>2. state' = "S_RL_SP_BEFORE_URL" /\ verdict' = "none"
      BY <1>5, <1>9, <2>1, RequestTurns DEF RequestStates
    <2>3. On
      BY <1>0, <1>2, <1>13, <2>2 DEF Reading
    <2>4. QED
      BY <1>10, <2>3
  <1>14. CASE i <= p + 1 /\ p + 1 <= j
    <2>1. /\ state \in {"S_RL_SP_BEFORE_URL", "S_RL_URL"} /\ ch \notin Blanks \cup Breaks
          /\ state = "S_RL_SP_BEFORE_URL" => p + 1 = i
          /\ state = "S_RL_URL" => mark["url_begin"] = i
      BY <1>0, <1>2, <1>3, <1>14
    <2>2. OnlyRequestMove(state, ch, "S_RL_URL") /\ ~Refused(ch, "S_RL_URL")
      BY <1>5, <2>1, RequestTurns
    <2>3. state' = "S_RL_URL" /\ verdict' = "none" /\ mark'["url_begin"] = i
      BY <1>9, <2>1, <2>2 DEF RequestStates
    <2>4. On
      BY <1>0, <1>2, <1>14, <2>3 DEF Reading
    <2>5. QED
      BY <1>10, <2>4
  <1>15. CASE j < p + 1 /\ p + 1 < v
    <2>1. /\ state \in {"S_RL_URL", "S_RL_SP_BEFORE_VERSION"} /\ ch \in Blanks
          /\ state = "S_RL_URL" => UrlText[1] = "/"
      BY <1>0, <1>2, <1>3, <1>7, <1>15
    <2>2. /\ OnlyRequestMove(state, ch, "S_RL_SP_BEFORE_VERSION")
          /\ ~Refused(ch, "S_RL_SP_BEFORE_VERSION")
      BY <1>5, <2>1, RequestTurns
    <2>3. state' = "S_RL_SP_BEFORE_VERSION" /\ verdict' = "none"
      BY <1>9, <2>1, <2>2 DEF RequestStates
    <2>4. On
      BY <1>0, <1>2, <1>15, <2>3 DEF Reading
    <2>5. QED
      BY <1>10, <2>4
  <1>16. CASE p + 1 = v
    <2>1. state = "S_RL_SP_BEFORE_VERSION" /\ ch = "proto"
      BY <1>0, <1>2, <1>3, <1>16
    <2>2. state' = "S_RL_VERSION_HTTP" /\ verdict' = "none"
      BY <1>5, <1>9, <2>1, RequestTurns DEF RequestStates
    <2>3. On
      BY <1>0, <1>2, <1>16, <2>2 DEF Reading
    <2>4. QED
      BY <1>10, <2>3
  <1>17. CASE p + 1 = v + 1
    <2>1. state = "S_RL_VERSION_HTTP" /\ ch = "/"
      BY <1>0, <1>2, <1>3, <1>17
    <2>2. state' = "S_RL_VERSION_HTTP_SLASH" /\ verdict' = "none"
      BY <1>5, <1>9, <2>1, RequestTurns DEF RequestStates
    <2>3. On
      BY <1>0, <1>2, <1>17, <2>2 DEF Reading
    <2>4. QED
      BY <1>10, <2>3
  <1>18. CASE v + 1 < p + 1 /\ p + 1 < d
    <2>1. /\ state \in {"S_RL_VERSION_HTTP_SLASH", "S_RL_VERSION_MAJOR"} /\ ch \in Digits
          /\ version.major = 0
          /\ state = "S_RL_VERSION_MAJOR" => ch \in {"0", "1"}
          /\ p + 1 < d - 1 => ch = "0"
      BY <1>0, <1>2, <1>3, <1>8, <1>18
    <2>2. /\ state = "S_RL_VERSION_MAJOR" => ~(NextNumber(version.major, ch) > 1)
          /\ p + 1 < d - 1 => NextNumber(version.major, ch) = 0
      BY <1>0, <2>1, NumberKept
    <2>3. /\ OnlyRequestMove(state, ch, "S_RL_VERSION_MAJOR")
          /\ ~Refused(ch, "S_RL_VERSION_MAJOR")
      BY <1>5, <2>1, <2>2, RequestTurns
    <2>4. /\ state' = "S_RL_VERSION_MAJOR" /\ verdict' = "none"
          /\ version'.major = NextNumber(version.major, ch)
      BY <1>9, <2>1, <2>3 DEF RequestStates
    <2>5. On
      BY <1>0, <1>2, <1>18, <2>2, <2>4 DEF Reading
    <2>6. QED
      BY <1>10, <2>5
  <1>19. CASE p + 1 = d
    <2>1. state = "S_RL_VERSION_MAJOR" /\ ch = "."
      BY <1>0, <1>2, <1>3, <1>19
    <2>2. state' = "S_RL_VERSION_DOT" /\ verdict' = "none"
      BY <1>5, <1>9, <2>1, RequestTurns DEF RequestStates
    <2>3. On
      BY <1>0, <1>2, <1>19, <2>2 DEF Reading
    <2>4. QED
      BY <1>10, <2>3
  <1>20. CASE d < p + 1 /\ p + 1 < n - 1
    <2>1. /\ state \in {"S_RL_VERSION_DOT", "S_RL_VERSION_MINOR"} /\ ch \in Digits
          /\ version.minor = 0
          /\ state = "S_RL_VERSION_MINOR" => ch \in {"0", "1"}
          /\ p + 1 < n - 2 => ch = "0"
      BY <1>0, <1>2, <1>3, <1>8, <1>20
    <2>2. /\ state = "S_RL_VERSION_MINOR" => ~(NextNumber(version.minor, ch) > 1)
          /\ p + 1 < n - 2 => NextNumber(version.minor, ch) = 0
      BY <1>0, <2>1, NumberKept
    <2>3. /\ OnlyRequestMove(state, ch, "S_RL_VERSION_MINOR")
          /\ ~Refused(ch, "S_RL_VERSION_MINOR")
      BY <1>5, <2>1, <2>2, RequestTurns
    <2>4. /\ state' = "S_RL_VERSION_MINOR" /\ verdict' = "none"
          /\ version'.minor = NextNumber(version.minor, ch)
      BY <1>9, <2>1, <2>3 DEF RequestStates
    <2>5. On
      BY <1>0, <1>2, <1>20, <2>2, <2>4 DEF Reading
    <2>6. QED
      BY <1>10, <2>5
  <1>21. CASE p + 1 = n - 1
    <2>1. state = "S_RL_VERSION_MINOR" /\ ch = "\r"
      BY <1>0, <1>2, <1>3, <1>21
    <2>2. state' = "S_RL_CR_AFTER_VERSION" /\ verdict' = "none"
      BY <1>5, <1>9, <2>1, RequestTurns DEF RequestStates
    <2>3. On
      BY <1>0, <1>2, <1>21, <2>2 DEF Reading
    <2>4. QED
      BY <1>10, <2>3
  <1>22. CASE p + 1 = n
    <2>1. state = "S_RL_CR_AFTER_VERSION" /\ ch = "\n"
      BY <1>0, <1>2, <1>3, <1>22
    <2>2. Complete(ch)
      BY <1>5, <2>1, RequestTurns, RequestStep
    <2>3. verdict' = "OK"
      BY <2>2 DEF Complete
    <2>4. QED
      BY <1>0, <1>22, <2>3 DEF OnRequest, n
  <1>23. QED
    BY <1>0, <1>1, <1>2, <1>11, <1>12, <1>13, <1>14, <1>15, <1>16, <1>17, <1>18, <1>19,
       <1>20, <1>21, <1>22

LEMMA RequestLedInit == Init => RequestLed
  <1> SUFFICES ASSUME Init, fn = "request", NEW t \in Seq(Symbols), NEW i, NEW j, NEW v,
                      NEW d, RequestAt(t, i, j, v, d)
               PROVE  OnRequest(t, i, j, v, d)
    BY DEF RequestLed
  <1>1. Len(text) = 0 /\ state = "S_RL_BEGIN" /\ verdict = "none"
    BY DEF Init
  <1>2. /\ v \in 5..Len(t) /\ i \in 3..v - 2 /\ j \in i..v - 2
        /\ d \in v + 3..Len(t) - 3
    BY Zenon DEF RequestAt
  <1>3. 0 < i /\ 0 < v /\ 0 < d /\ 0 < Len(t) - 1 /\ v + 1 > 0
        /\ i \in Int /\ j \in Int /\ v \in Int /\ d \in Int /\ i <= j /\ j < v
        /\ Len(t) \in Int
    BY <1>2
  <1> DEFINE p == Len(text)
             n == Len(t)
  <1>4. p = 0 /\ n \in Int /\ 0 < n - 1
    BY <1>1, <1>3
  <1> HIDE DEF p, n
  <1>5. /\ p < n /\ p # 1 /\ ~(2 <= p) /\ ~(i <= p) /\ ~(j < p) /\ p # v /\ p # v + 1
        /\ ~(v + 1 < p) /\ p # d /\ ~(d < p) /\ p # n - 1
    BY <1>3, <1>4
  <1>6. QED
    BY <1>1, <1>5, Zenon DEF OnRequest, Reading, p, n

LEMMA RequestLedNext == PInv /\ RequestLed /\ [Next]_vars => RequestLed'
  <1>1. ASSUME [Next]_vars PROVE fn' = fn
    BY <1>1 DEF Next, Read, BufferEnd, NextHeader, vars
  <1> SUFFICES ASSUME PInv, RequestLed, [Next]_vars, fn = "request",
                      NEW t \in Seq(Symbols), Begins(text', t), NEW i, NEW j, NEW v,
                      NEW d, RequestAt(t, i, j, v, d)
               PROVE  OnRequest(t, i, j, v, d)'
    BY <1>1 DEF RequestLed
  <1>2. Begins(text, t) => OnRequest(t, i, j, v, d)
    BY DEF RequestLed
  <1>3. ASSUME NEW ch \in Alphabet, Read(ch) PROVE OnRequest(t, i, j, v, d)'
    <2>1. text \in Seq(Symbols) /\ ch \in Symbols /\ text' = Append(text, ch)
          /\ verdict = "none"
      BY <1>3, AlphabetSymbols DEF PInv, TypeOK, Read
    <2>2. Begins(text, t)
      BY <2>1, BeginsLess
    <2>3. QED
      BY <1>2, <1>3, <2>1, <2>2, LedOnRequest
  <1>4. CASE BufferEnd
    <2>1. /\ text' = text /\ state' = state /\ mark' = mark /\ version' = version
          /\ verdict = "none" /\ verdict' = "AGAIN"
      BY <1>4 DEF BufferEnd
    <2>2. QED
      BY <1>2, <2>1 DEF OnRequest, Reading
  <1>5. ~NextHeader
    BY DEF NextHeader
  <1>6. CASE UNCHANGED vars
    <2>1. /\ text' = text /\ state' = state /\ mark' = mark /\ version' = version
          /\ verdict' = verdict
      BY <1>6 DEF vars
    <2>2. QED
      BY <1>2, <2>1 DEF OnRequest, Reading
  <1>7. QED
    BY <1>3, <1>4, <1>5, <1>6 DEF Next

-----------------------------------------------------------------------------
(* And what has been read of a request line, by the state it has led to:   *)
(* the URL is at i..j, the version at v, its dot at d.                     *)
MethodRead(s) == s[1] = "method" /\ s[2] = Space

UrlRead(s, i, n) ==
    /\ MethodRead(s) /\ 2 < i /\ i <= n
    /\ AllIn(s, 3, i - 1, Blanks)
    /\ \A k \in i..n : s[k] \notin Blanks \cup Breaks

UrlBehind(s, i, j, n) ==
    UrlRead(s, i, j) /\ s[i] = "/" /\ j < n /\ AllIn(s, j + 1, n, Blanks)

HttpRead(s, i, j, v) == UrlBehind(s, i, j, v - 1) /\ s[v] = "proto"

MajorRead(s, i, j, v, n) ==
    HttpRead(s, i, j, v) /\ s[v + 1] = "/" /\ v + 2 <= n /\ IsNumber(s, v + 2, n)

MinorRead(s, i, j, v, d, n) ==
    MajorRead(s, i, j, v, d - 1) /\ s[d] = "." /\ d < n /\ IsNumber(s, d + 1, n)

BehindUrl ==
    {"S_RL_SP_BEFORE_VERSION", "S_RL_VERSION_HTTP", "S_RL_VERSION_HTTP_SLASH",
     "S_RL_VERSION_MAJOR", "S_RL_VERSION_DOT", "S_RL_VERSION_MINOR",
     "S_RL_CR_AFTER_VERSION"}

(* The URL was split when the blank behind it was read.                    *)
UrlCut(s, i, j) == s[j + 1] \in Blanks /\ url = SplitUrl(SubSeq(s, i, j), s[j + 1])

BehindUrlShape(i, j, v, d) ==
    LET n == Len(text) IN
    /\ UrlCut(text, i, j)
    /\ state = "S_RL_SP_BEFORE_VERSION" => UrlBehind(text, i, j, n)
    /\ state = "S_RL_VERSION_HTTP" => HttpRead(text, i, j, n)
    /\ state = "S_RL_VERSION_HTTP_SLASH" => HttpRead(text, i, j, n - 1) /\ text[n] = "/"
    /\ state = "S_RL_VERSION_MAJOR" =>
        /\ MajorRead(text, i, j, v, n)
        /\ version.major = 0 => AllIn(text, v + 2, n, {"0"})
    /\ state = "S_RL_VERSION_DOT" => MajorRead(text, i, j, v, n - 1) /\ text[n] = "."
    /\ state = "S_RL_VERSION_MINOR" =>
        /\ MinorRead(text, i, j, v, d, n)
        /\ version.minor = 0 => AllIn(text, d + 1, n, {"0"})
    /\ state = "S_RL_CR_AFTER_VERSION" =>
        MinorRead(text, i, j, v, d, n - 1) /\ text[n] = "\r"

RequestShape ==
    LET n == Len(text) IN
    /\ state = "S_RL_BEGIN" => n = 0
    /\ state = "S_RL_METHOD" => n >= 1 /\ mark["method_begin"] = 1
    /\ state = "S_RL_SP_BEFORE_URL" =>
        n >= 2 /\ MethodRead(text) /\ AllIn(text, 3, n, Blanks)
    /\ state = "S_RL_URL" => UrlRead(text, mark["url_begin"], n)
    /\ state \in BehindUrl => \E i, j, v, d \in Int : BehindUrlShape(i, j, v, d)

RequestSound ==
    verdict = "OK" => \E i, j, v, d \in Int : RequestAt(text, i, j, v, d) /\ UrlCut(text, i, j)

RInv ==
    fn = "request" =>
        /\ verdict = "none" => RequestShape
        /\ RequestSound

(* These, too, concern what has been read, whatever is read behind it.     *)
LEMMA NumberStays ==
  ASSUME NEW s, NEW t, NEW a \in Int, NEW b \in Int, IsNumber(s, a, b),
         \A k \in a..b : t[k] = s[k]
  PROVE  IsNumber(t, a, b)
  BY DEF IsNumber, AllIn

LEMMA UrlReadStays ==
  ASSUME NEW s \in Seq(Symbols), NEW t, NEW m \in 0..Len(s),
         \A k \in 1..Len(s) : t[k] = s[k], NEW i \in Int, UrlRead(s, i, m)
  PROVE  UrlRead(t, i, m)
  <1>0. Len(s) \in Nat /\ m \in Int /\ m <= Len(s)
    OBVIOUS
  <1>1. 2 < i /\ i <= m
    BY DEF UrlRead
  <1>2. MethodRead(t)
    <2>1. 1 \in 1..Len(s) /\ 2 \in 1..Len(s)
      BY <1>0, <1>1
    <2>2. QED
      BY <2>1 DEF UrlRead, MethodRead
  <1>3. AllIn(t, 3, i - 1, Blanks) /\ \A k \in i..m : t[k] \notin Blanks \cup Breaks
    BY <1>0, <1>1 DEF UrlRead, AllIn
  <1>4. QED
    BY <1>1, <1>2, <1>3 DEF UrlRead

LEMMA PartsStay ==
  ASSUME NEW s \in Seq(Symbols), NEW t, NEW n \in 0..Len(s),
         \A k \in 1..Len(s) : t[k] = s[k],
         NEW i \in Int, NEW j \in Int, NEW v \in Int, NEW d \in Int
  PROVE  /\ UrlRead(s, i, n) => UrlRead(t, i, n)
         /\ UrlBehind(s, i, j, n) => UrlBehind(t, i, j, n)
         /\ HttpRead(s, i, j, n) => HttpRead(t, i, j, n)
         /\ MajorRead(s, i, j, v, n) => MajorRead(t, i, j, v, n)
         /\ MinorRead(s, i, j, v, d, n) => MinorRead(t, i, j, v, d, n)
  <1>0. Len(s) \in Nat /\ n \in Int /\ n <= Len(s)
    OBVIOUS
  <1>1. ASSUME NEW m \in Int, m <= n, UrlRead(s, i, m) PROVE UrlRead(t, i, m)
    <2>1. m \in 0..Len(s)
      BY <1>0, <1>1 DEF UrlRead
    <2>2. QED
      BY <1>1, <2>1, UrlReadStays
  <1>2. ASSUME NEW m \in Int, m <= n, UrlBehind(s, i, j, m) PROVE UrlBehind(t, i, j, m)
    <2>1. UrlRead(s, i, j) /\ s[i] = "/" /\ j < m /\ AllIn(s, j + 1, m, Blanks)
          /\ 2 < i /\ i <= j
      BY <1>2 DEF UrlBehind, UrlRead
    <2>2. UrlRead(t, i, j)
      BY <1>0, <1>1, <1>2, <2>1
    <2>3. t[i] = "/" /\ AllIn(t, j + 1, m, Blanks)
      BY <1>0, <1>2, <2>1 DEF AllIn
    <2>4. QED
      BY <2>1, <2>2, <2>3 DEF UrlBehind
  <1>3. ASSUME NEW m \in Int, m <= n, HttpRead(s, i, j, m) PROVE HttpRead(t, i, j, m)
    <2>1. UrlBehind(s, i, j, m - 1) /\ s[m] = "proto" /\ 2 < i /\ i <= j /\ j < m - 1
      BY <1>3 DEF HttpRead, UrlBehind, UrlRead
    <2>2. UrlBehind(t, i, j, m - 1)
      BY <1>0, <1>2, <1>3, <2>1
    <2>3. t[m] = "proto"
      BY <1>0, <1>3, <2>1
    <2>4. QED
      BY <2>2, <2>3 DEF HttpRead
  <1>4. ASSUME NEW m \in Int, m <= n, MajorRead(s, i, j, v, m) PROVE MajorRead(t, i, j, v, m)
    <2>1. /\ HttpRead(s, i, j, v) /\ s[v + 1] = "/" /\ v + 2 <= m /\ IsNumber(s, v + 2, m)
          /\ 2 < i /\ i <= j /\ j < v - 1
      BY <1>4 DEF MajorRead, HttpRead, UrlBehind, UrlRead
    <2>2. HttpRead(t, i, j, v)
      BY <1>0, <1>3, <1>4, <2>1
    <2>3. t[v + 1] = "/" /\ \A k \in v + 2..m : t[k] = s[k]
      BY <1>0, <1>4, <2>1
    <2>4. IsNumber(t, v + 2, m)
      BY <1>4, <2>1, <2>3, NumberStays
    <2>5. QED
      BY <2>1, <2>2, <2>3, <2>4 DEF MajorRead
  <1>5. ASSUME MinorRead(s, i, j, v, d, n) PROVE MinorRead(t, i, j, v, d, n)
    <2>1. /\ MajorRead(s, i, j, v, d - 1) /\ s[d] = "." /\ d < n /\ IsNumber(s, d + 1, n)
          /\ 2 < i /\ i <= j /\ j < v - 1 /\ v + 2 <= d - 1
      BY <1>5 DEF MinorRead, MajorRead, HttpRead, UrlBehind, UrlRead
    <2>2. MajorRead(t, i, j, v, d - 1)
      BY <1>0, <1>4, <1>5, <2>1
    <2>3. t[d] = "." /\ \A k \in d + 1..n : t[k] = s[k]
      BY <1>0, <1>5, <2>1
    <2>4. IsNumber(t, d + 1, n)
      BY <1>0, <1>5, <2>1, <2>3, NumberStays
    <2>5. QED
      BY <2>1, <2>2, <2>3, <2>4 DEF MinorRead
  <1>6. QED
    BY <1>0, <1>1, <1>2, <1>3, <1>4, <1>5

LEMMA CutStays ==
  ASSUME NEW s \in Seq(Symbols), NEW ch \in Symbols, NEW i \in Int, NEW j \in Int,
         1 <= i, i <= j, j < Len(s), UrlCut(s, i, j)
  PROVE  LET t == Append(s, ch) IN
         t[j + 1] \in Blanks /\ url = SplitUrl(SubSeq(t, i, j), t[j + 1])
  <1> DEFINE t == Append(s, ch)
  <1>1. t[j + 1] = s[j + 1]
    OBVIOUS
  <1>2. SubSeq(t, i, j) = SubSeq(s, i, j)
    OBVIOUS
  <1> HIDE DEF t
  <1>3. t[j + 1] \in Blanks /\ url = SplitUrl(SubSeq(t, i, j), t[j + 1])
    BY <1>1, <1>2 DEF UrlCut
  <1>4. QED
    BY <1>3 DEF t

(* Where a move to a state of a request line comes from.                   *)
LEMMA RequestSources ==
  ASSUME NEW from, NEW ch, NEW to, RequestMoves(from, ch, to)
  PROVE  /\ to # "S_RL_BEGIN"
         /\ to = "S_RL_METHOD" => from \in {"S_RL_BEGIN", "S_RL_METHOD"}
         /\ to = "S_RL_SP_BEFORE_URL" =>
              \/ from = "S_RL_METHOD" /\ ch = Space
              \/ from = to /\ ch \in Blanks
         /\ to = "S_RL_URL" =>
              from \in {"S_RL_SP_BEFORE_URL", "S_RL_URL"} /\ ch \notin Blanks \cup Breaks
         /\ to = "S_RL_SP_BEFORE_VERSION" => from \in {"S_RL_URL", to} /\ ch \in Blanks
         /\ to = "S_RL_VERSION_HTTP" => from = "S_RL_SP_BEFORE_VERSION" /\ ch = "proto"
         /\ to = "S_RL_VERSION_HTTP_SLASH" => from = "S_RL_VERSION_HTTP" /\ ch = "/"
         /\ to = "S_RL_VERSION_MAJOR" =>
              from \in {"S_RL_VERSION_HTTP_SLASH", to} /\ ch \in Digits
         /\ to = "S_RL_VERSION_DOT" => from = "S_RL_VERSION_MAJOR" /\ ch = "."
         /\ to = "S_RL_VERSION_MINOR" => from \in {"S_RL_VERSION_DOT", to} /\ ch \in Digits
         /\ to = "S_RL_CR_AFTER_VERSION" => from = "S_RL_VERSION_MINOR" /\ ch = "\r"
         /\ to = Done => from = "S_RL_CR_AFTER_VERSION" /\ ch = "\n"
  BY Zenon DEF RequestMoves, Space, Done

(* A version number goes on only from zero, with a digit that keeps it at  *)
(* most 1.                                                                 *)
LEMMA NumberGoesOn ==
  ASSUME NEW n \in 0..9, NEW ch \in Digits
  PROVE  /\ NextNumber(n, ch) \in Int
         /\ ~(NextNumber(n, ch) > 1) => n = 0 /\ ch \in {"0", "1"}
         /\ n = 0 /\ NextNumber(n, ch) = 0 => ch = "0"
  <1>1. DigitValue[ch] \in 0..9 /\ (DigitValue[ch] = 0 => ch = "0")
        /\ (DigitValue[ch] = 1 => ch = "1")
    BY DEF Digits, DigitValue
  <1>2. QED
    BY <1>1 DEF NextNumber

LEMMA ReadSymbol ==
  ASSUME PInv, NEW ch \in Alphabet, Read(ch)
  PROVE  /\ text \in Seq(Symbols) /\ ch \in Symbols /\ text' = Append(text, ch)
         /\ Len(text) \in Nat /\ Len(text') = Len(text) + 1
         /\ text'[Len(text) + 1] = ch
         /\ \A k \in 1..Len(text) : text'[k] = text[k]
         /\ verdict = "none" /\ fn' = fn
  BY AlphabetSymbols DEF PInv, TypeOK, Read

LEMMA ShapeBeforeUrl ==
  ASSUME PInv, fn = "request", RequestShape, NEW ch \in Alphabet, Read(ch),
         NEW to \in RequestStates \ BehindUrl, Advance(ch, to), RequestMoves(state, ch, to)
  PROVE  RequestShape'
  <1> DEFINE n == Len(text)
             b == mark["url_begin"]
  <1>0. /\ n \in Nat /\ Len(text') = n + 1 /\ text'[n + 1] = ch
        /\ \A k \in 1..n : text'[k] = text[k]
        /\ text \in Seq(Symbols) /\ text' = Append(text, ch)
    BY ReadSymbol
  <1>1. /\ state' = to
        /\ mark'["method_begin"] = IF state = "S_RL_BEGIN" THEN n + 1
                                   ELSE mark["method_begin"]
        /\ mark'["url_begin"] = IF state = "S_RL_SP_BEFORE_URL" /\ to = "S_RL_URL"
                                THEN n + 1 ELSE b
    BY AdvanceData
  <1>2. to \notin BehindUrl /\ to # "S_RL_BEGIN"
    BY RequestSources
  <1> HIDE DEF b
  <1>3. CASE to = "S_RL_METHOD"
    <2>1. state \in {"S_RL_BEGIN", "S_RL_METHOD"}
      BY <1>3, RequestSources
    <2>2. mark'["method_begin"] = 1
      BY <1>0, <1>1, <2>1 DEF RequestShape
    <2>3. QED
      BY <1>0, <1>1, <1>2, <1>3, <2>2 DEF RequestShape
  <1>4. CASE to = "S_RL_SP_BEFORE_URL"
    <2>1. n + 1 >= 2 /\ MethodRead(text') /\ AllIn(text', 3, n + 1, Blanks)
      <3>1. CASE state = "S_RL_METHOD"
        <4>1. ch = Space
          BY <1>4, <3>1, RequestSources
        <4>2. KnownMethod
          BY <1>4, <3>1 DEF Advance, Refused
        <4>3. mark["method_begin"] = 1 /\ n >= 1
          BY <3>1 DEF RequestShape
        <4>4. SubSeq(text, 1, n) = <<"method">>
          BY <4>2, <4>3 DEF KnownMethod
        <4>5. SubSeq(text, 1, n) = text
          BY <1>0
        <4>6. n = 1 /\ text[1] = "method"
          <5>1. text = <<"method">>
            BY <4>4, <4>5
          <5>2. Len(<<"method">>) = 1 /\ <<"method">>[1] = "method"
            OBVIOUS
          <5>3. QED
            BY <5>1, <5>2, Zenon
        <4>7. QED
          BY <1>0, <4>1, <4>6 DEF MethodRead, AllIn
      <3>2. CASE state = "S_RL_SP_BEFORE_URL"
        <4>1. ch \in Blanks
          BY <1>4, <3>2, RequestSources
        <4>2. n >= 2 /\ MethodRead(text) /\ AllIn(text, 3, n, Blanks)
          BY <3>2 DEF RequestShape
        <4>3. QED
          BY <1>0, <4>1, <4>2 DEF MethodRead, AllIn
      <3>3. QED
        BY <1>4, <3>1, <3>2, RequestSources
    <2>2. QED
      BY <1>0, <1>1, <1>2, <1>4, <2>1 DEF RequestShape
  <1>5. CASE to = "S_RL_URL"
    <2>1. state \in {"S_RL_SP_BEFORE_URL", "S_RL_URL"} /\ ch \notin Blanks \cup Breaks
      BY <1>5, RequestSources
    <2>2. UrlRead(text', mark'["url_begin"], n + 1)
      <3>1. CASE state = "S_RL_SP_BEFORE_URL"
        <4>1. n >= 2 /\ MethodRead(text) /\ AllIn(text, 3, n, Blanks)
          BY <3>1 DEF RequestShape
        <4>2. mark'["url_begin"] = n + 1
          BY <1>1, <1>5, <3>1
        <4>3. MethodRead(text') /\ AllIn(text', 3, (n + 1) - 1, Blanks)
          BY <1>0, <4>1 DEF MethodRead, AllIn
        <4>4. \A k \in n + 1..n + 1 : text'[k] \notin Blanks \cup Breaks
          BY <1>0, <2>1
        <4>5. QED
          BY <1>0, <4>1, <4>2, <4>3, <4>4 DEF UrlRead
      <3>2. CASE state = "S_RL_URL"
        <4>1. UrlRead(text, b, n) /\ b \in Int
          BY <1>0, <3>2 DEF RequestShape, b, PInv, MarksOrdered
        <4>2. UrlRead(text', b, n)
          <5>1. n \in 0..Len(text)
            BY <1>0
          <5>2. QED
            BY <1>0, <4>1, <5>1, UrlReadStays, Zenon
        <4>3. mark'["url_begin"] = b
          BY <1>1, <3>2
        <4>4. UrlRead(text', b, n + 1)
          BY <1>0, <2>1, <4>1, <4>2 DEF UrlRead
        <4>5. QED
          BY <4>3, <4>4
      <3>3. QED
        BY <2>1, <3>1, <3>2
    <2>3. QED
      BY <1>0, <1>1, <1>2, <1>5, <2>2 DEF RequestShape
  <1>6. to \in {"S_RL_METHOD", "S_RL_SP_BEFORE_URL", "S_RL_URL"}
    BY <1>2 DEF RequestStates, BehindUrl
  <1>7. QED
    BY <1>3, <1>4, <1>5, <1>6

(* The blank behind the URL.                                               *)
LEMMA ShapeUrlEnd ==
  ASSUME PInv, fn = "request", RequestShape, NEW ch \in Alphabet, Read(ch),
         state = "S_RL_URL", Advance(ch, "S_RL_SP_BEFORE_VERSION"), ch \in Blanks
  PROVE  \E i, j, v, d \in Int : BehindUrlShape(i, j, v, d)'
  <1>a. PICK n \in Nat : n = Len(text)
    BY ReadSymbol
  <1>b. PICK b \in Int : b = mark["url_begin"]
    BY <1>a DEF PInv, MarksOrdered
  <1>0. /\ Len(text') = n + 1 /\ text'[n + 1] = ch
        /\ \A k \in 1..n : text'[k] = text[k]
        /\ text \in Seq(Symbols) /\ text' = Append(text, ch) /\ ch \in Symbols
    BY <1>a, ReadSymbol
  <1>1. b \in 1..n /\ UrlRead(text, b, n)
    BY <1>a, <1>b DEF RequestShape, PInv, MarksOrdered
  <1>2. UrlRead(text', b, n)
    <2>1. n \in 0..Len(text)
      BY <1>a
    <2>2. QED
      BY <1>a, <1>0, <1>1, <2>1, UrlReadStays, Zenon
  <1>3. text'[b] = "/"
    <2>1. UrlText[1] = "/"
      BY Zenon DEF Advance, Refused
    <2>2. QED
      BY <1>a, <1>b, <1>0, <1>1, <2>1, UrlFirst
  <1>4. state' = "S_RL_SP_BEFORE_VERSION" /\ url' = SplitUrl(UrlText, ch)
    BY DEF Advance
  <1>5. SubSeq(text', b, n) = SubSeq(text, b, n)
    BY <1>a, <1>0, <1>1
  <1>6. UrlCut(text, b, n)'
    <2>1. UrlText = SubSeq(text', b, n)
      BY <1>a, <1>b, <1>5 DEF UrlText
    <2>2. url' = SplitUrl(SubSeq(text', b, n), text'[n + 1]) /\ text'[n + 1] \in Blanks
      BY <1>0, <1>4, <2>1
    <2>3. QED
      BY <2>2 DEF UrlCut
  <1>7. UrlBehind(text', b, n, n + 1)
    BY <1>0, <1>2, <1>3 DEF UrlBehind, AllIn
  <1>8. BehindUrlShape(b, n, 0, 0)'
    BY <1>0, <1>4, <1>6, <1>7 DEF BehindUrlShape
  <1>9. QED
    BY <1>8

(* Where the URL ends in what has been read.                               *)
LEMMA UrlWithin ==
  ASSUME NEW s, NEW i \in Int, NEW j \in Int, NEW v \in Int, NEW d \in Int, NEW n \in Int
  PROVE  /\ UrlBehind(s, i, j, n) => 2 < i /\ i <= j /\ j < n
         /\ HttpRead(s, i, j, n) => 2 < i /\ i <= j /\ j < n - 1
         /\ MajorRead(s, i, j, v, n) => 2 < i /\ i <= j /\ j < v - 1 /\ v + 2 <= n
         /\ MinorRead(s, i, j, v, d, n) =>
              2 < i /\ i <= j /\ j < v - 1 /\ v + 2 <= d - 1 /\ d < n
  <1>1. \A m \in Int : UrlBehind(s, i, j, m) => 2 < i /\ i <= j /\ j < m
    BY DEF UrlBehind, UrlRead
  <1>2. \A m \in Int : HttpRead(s, i, j, m) => 2 < i /\ i <= j /\ j < m - 1
    BY <1>1 DEF HttpRead
  <1>3. \A m \in Int : MajorRead(s, i, j, v, m) =>
            2 < i /\ i <= j /\ j < v - 1 /\ v + 2 <= m
    BY <1>2 DEF MajorRead
  <1>4. MinorRead(s, i, j, v, d, n) =>
            2 < i /\ i <= j /\ j < v - 1 /\ v + 2 <= d - 1 /\ d < n
    BY <1>3 DEF MinorRead
  <1>5. QED
    BY <1>1, <1>2, <1>3, <1>4

LEMMA AllInMore ==
  ASSUME NEW s, NEW a \in Int, NEW b \in Int, NEW S, AllIn(s, a, b, S), s[b + 1] \in S
  PROVE  AllIn(s, a, b + 1, S)
  BY DEF AllIn

(* A symbol of the version.                                                *)
LEMMA ShapeBehindUrl ==
  ASSUME PInv, fn = "request", NEW ch \in Alphabet, Read(ch), state \in BehindUrl,
         NEW to \in RequestStates, Advance(ch, to), RequestMoves(state, ch, to),
         NEW i \in Int, NEW j \in Int, NEW v \in Int, NEW d \in Int,
         BehindUrlShape(i, j, v, d)
  PROVE  \E v1, d1 \in Int : BehindUrlShape(i, j, v1, d1)'
  <1>a. PICK n \in Nat : n = Len(text)
    BY ReadSymbol
  <1>0. /\ Len(text') = n + 1 /\ text'[n + 1] = ch
        /\ \A k \in 1..Len(text) : text'[k] = text[k]
        /\ text \in Seq(Symbols) /\ text' = Append(text, ch) /\ ch \in Symbols
        /\ n \in 0..Len(text)
    BY <1>a, ReadSymbol
  <1>1. /\ UrlBehind(text, i, j, n) => UrlBehind(text', i, j, n)
        /\ HttpRead(text, i, j, n) => HttpRead(text', i, j, n)
        /\ MajorRead(text, i, j, v, n) => MajorRead(text', i, j, v, n)
        /\ MinorRead(text, i, j, v, d, n) => MinorRead(text', i, j, v, d, n)
    BY <1>0, PartsStay, Zenon
  <1>2. state' = to /\ url' = url
    BY DEF Advance, BehindUrl
  <1>3. /\ version'.major = IF to = "S_RL_VERSION_MAJOR" THEN NextNumber(version.major, ch)
                            ELSE version.major
        /\ version'.minor = IF to = "S_RL_VERSION_MINOR" THEN NextNumber(version.minor, ch)
                            ELSE version.minor
        /\ version.major \in 0..9 /\ version.minor \in 0..9
    BY AdvanceData DEF PInv, TypeOK
  <1>4. /\ UrlCut(text, i, j)
        /\ state = "S_RL_SP_BEFORE_VERSION" => UrlBehind(text, i, j, n)
        /\ state = "S_RL_VERSION_HTTP" => HttpRead(text, i, j, n)
        /\ state = "S_RL_VERSION_HTTP_SLASH" => HttpRead(text, i, j, n - 1) /\ text[n] = "/"
        /\ state = "S_RL_VERSION_MAJOR" =>
            /\ MajorRead(text, i, j, v, n)
            /\ version.major = 0 => AllIn(text, v + 2, n, {"0"})
        /\ state = "S_RL_VERSION_DOT" => MajorRead(text, i, j, v, n - 1) /\ text[n] = "."
        /\ state = "S_RL_VERSION_MINOR" =>
            /\ MinorRead(text, i, j, v, d, n)
            /\ version.minor = 0 => AllIn(text, d + 1, n, {"0"})
        /\ state = "S_RL_CR_AFTER_VERSION" =>
            MinorRead(text, i, j, v, d, n - 1) /\ text[n] = "\r"
    BY <1>a DEF BehindUrlShape
  <1>5. 2 < i /\ i <= j /\ j < n
    <2>1. ASSUME NEW m \in Int
          PROVE  /\ UrlBehind(text, i, j, m) => 2 < i /\ i <= j /\ j < m
                 /\ HttpRead(text, i, j, m) => 2 < i /\ i <= j /\ j < m - 1
                 /\ MajorRead(text, i, j, v, m) =>
                      2 < i /\ i <= j /\ j < v - 1 /\ v + 2 <= m
                 /\ MinorRead(text, i, j, v, d, m) =>
                      2 < i /\ i <= j /\ j < v - 1 /\ v + 2 <= d - 1 /\ d < m
      BY UrlWithin, Zenon
    <2>2. QED
      BY <1>4, <2>1 DEF BehindUrl
  <1>6. UrlCut(text, i, j)'
    <2>1. 1 <= i /\ j < Len(text)
      BY <1>a, <1>5
    <2>2. text'[j + 1] \in Blanks /\ url = SplitUrl(SubSeq(text', i, j), text'[j + 1])
      BY <1>0, <1>4, <1>5, <2>1, CutStays
    <2>3. QED
      BY <1>2, <2>2 DEF UrlCut
  <1>7. CASE to = "S_RL_SP_BEFORE_VERSION"
    <2>1. state = "S_RL_SP_BEFORE_VERSION" /\ ch \in Blanks
      BY <1>7, RequestSources DEF BehindUrl
    <2>2. UrlBehind(text', i, j, n)
      BY <1>1, <1>4, <2>1
    <2>3. UrlBehind(text', i, j, n + 1)
      <3>1. UrlRead(text', i, j) /\ text'[i] = "/" /\ j < n /\ AllIn(text', j + 1, n, Blanks)
        BY <2>2 DEF UrlBehind
      <3>2. text'[n + 1] \in Blanks /\ j + 1 \in Int /\ n \in Int
        BY <1>0, <2>1
      <3>3. AllIn(text', j + 1, n + 1, Blanks)
        BY <3>1, <3>2, AllInMore, Zenon
      <3>4. QED
        BY <3>1, <3>3 DEF UrlBehind
    <2>4. BehindUrlShape(i, j, v, d)'
      BY <1>0, <1>2, <1>6, <1>7, <2>3 DEF BehindUrlShape
    <2>5. QED
      BY <2>4
  <1>8. CASE to = "S_RL_VERSION_HTTP"
    <2>1. state = "S_RL_SP_BEFORE_VERSION" /\ ch = "proto"
      BY <1>8, RequestSources
    <2>2. UrlBehind(text', i, j, n)
      BY <1>1, <1>4, <2>1
    <2>3. HttpRead(text', i, j, n + 1)
      BY <1>0, <2>1, <2>2 DEF HttpRead
    <2>4. BehindUrlShape(i, j, v, d)'
      BY <1>0, <1>2, <1>6, <1>8, <2>3 DEF BehindUrlShape
    <2>5. QED
      BY <2>4
  <1>9. CASE to = "S_RL_VERSION_HTTP_SLASH"
    <2>1. state = "S_RL_VERSION_HTTP" /\ ch = "/"
      BY <1>9, RequestSources
    <2>2. HttpRead(text', i, j, (n + 1) - 1) /\ text'[n + 1] = "/"
      BY <1>0, <1>1, <1>4, <2>1
    <2>3. BehindUrlShape(i, j, v, d)'
      BY <1>0, <1>2, <1>6, <1>9, <2>2 DEF BehindUrlShape
    <2>4. QED
      BY <2>3
  <1>10. CASE to = "S_RL_VERSION_MAJOR"
    <2>1. state \in {"S_RL_VERSION_HTTP_SLASH", "S_RL_VERSION_MAJOR"} /\ ch \in Digits
      BY <1>10, RequestSources
    <2>2. CASE state = "S_RL_VERSION_HTTP_SLASH"
      <3>1. HttpRead(text, i, j, n - 1) /\ text[n] = "/" /\ n >= 1
        BY <1>4, <1>5, <2>2
      <3>2. HttpRead(text', i, j, n - 1)
        <4>1. n - 1 \in 0..Len(text)
          BY <1>a, <3>1
        <4>2. QED
          BY <1>0, <3>1, <4>1, PartsStay, Zenon
      <3>3. text'[n] = "/"
        BY <1>a, <1>0, <3>1
      <3>4. IsNumber(text', n + 1, n + 1)
        BY <1>0, <2>1 DEF IsNumber
      <3>5. MajorRead(text', i, j, n - 1, n + 1)
        <4>1. (n - 1) + 1 = n /\ (n - 1) + 2 = n + 1 /\ n + 1 <= n + 1
          OBVIOUS
        <4>2. QED
          BY <3>2, <3>3, <3>4, <4>1, Zenon DEF MajorRead
      <3>6. version.major = 0
        BY <2>2 DEF PInv, VersionFresh, RequestStates
      <3>7. version'.major = 0 => ch = "0"
        BY <1>3, <1>10, <2>1, <3>6, NumberGoesOn
      <3>8. version'.major = 0 => AllIn(text', (n - 1) + 2, n + 1, {"0"})
        BY <1>0, <3>7 DEF AllIn
      <3>9. BehindUrlShape(i, j, n - 1, d)'
        BY <1>0, <1>2, <1>6, <1>10, <3>5, <3>8 DEF BehindUrlShape
      <3>10. QED
        BY <3>9
    <2>3. CASE state = "S_RL_VERSION_MAJOR"
      <3>1. /\ MajorRead(text', i, j, v, n)
            /\ version.major = 0 => AllIn(text, v + 2, n, {"0"})
            /\ v + 2 <= n /\ 2 < v
        BY <1>1, <1>4, <2>3, UrlWithin
      <3>2. ~(NextNumber(version.major, ch) > 1)
        BY <1>10, <2>3 DEF Advance, Refused
      <3>3. version.major = 0 /\ ch \in {"0", "1"} /\ (version'.major = 0 => ch = "0")
        BY <1>3, <1>10, <2>1, <3>2, NumberGoesOn
      <3>4. AllIn(text', v + 2, n, {"0"})
        BY <1>a, <1>0, <3>1, <3>3 DEF AllIn
      <3>5. IsNumber(text', v + 2, n + 1)
        BY <1>0, <3>1, <3>3, <3>4 DEF IsNumber, AllIn
      <3>6. MajorRead(text', i, j, v, n + 1)
        BY <3>1, <3>5 DEF MajorRead
      <3>7. ASSUME version'.major = 0 PROVE AllIn(text', v + 2, n + 1, {"0"})
        <4>1. text'[n + 1] \in {"0"} /\ v + 2 \in Int /\ n \in Int
          BY <1>0, <3>3, <3>7
        <4>2. QED
          BY <3>4, <4>1, AllInMore, Zenon
      <3>8. BehindUrlShape(i, j, v, d)'
        BY <1>0, <1>2, <1>6, <1>10, <3>6, <3>7 DEF BehindUrlShape
      <3>9. QED
        BY <3>8
    <2>4. QED
      BY <2>1, <2>2, <2>3
  <1>11. CASE to = "S_RL_VERSION_DOT"
    <2>1. state = "S_RL_VERSION_MAJOR" /\ ch = "."
      BY <1>11, RequestSources
    <2>2. MajorRead(text', i, j, v, (n + 1) - 1) /\ text'[n + 1] = "."
      BY <1>0, <1>1, <1>4, <2>1
    <2>3. BehindUrlShape(i, j, v, d)'
      BY <1>0, <1>2, <1>6, <1>11, <2>2 DEF BehindUrlShape
    <2>4. QED
      BY <2>3
  <1>12. CASE to = "S_RL_VERSION_MINOR"
    <2>1. state \in {"S_RL_VERSION_DOT", "S_RL_VERSION_MINOR"} /\ ch \in Digits
      BY <1>12, RequestSources
    <2>2. CASE state = "S_RL_VERSION_DOT"
      <3>1. MajorRead(text, i, j, v, n - 1) /\ text[n] = "." /\ n >= 1
        BY <1>4, <1>5, <2>2
      <3>2. MajorRead(text', i, j, v, n - 1)
        <4>1. n - 1 \in 0..Len(text)
          BY <1>a, <3>1
        <4>2. QED
          BY <1>0, <3>1, <4>1, PartsStay, Zenon
      <3>3. text'[n] = "."
        BY <1>a, <1>0, <3>1
      <3>4. IsNumber(text', n + 1, n + 1)
        BY <1>0, <2>1 DEF IsNumber
      <3>5. MinorRead(text', i, j, v, n, n + 1)
        BY <1>0, <3>2, <3>3, <3>4 DEF MinorRead
      <3>6. version.minor = 0
        BY <2>2 DEF PInv, VersionFresh, RequestStates
      <3>7. version'.minor = 0 => ch = "0"
        BY <1>3, <1>12, <2>1, <3>6, NumberGoesOn
      <3>8. version'.minor = 0 => AllIn(text', n + 1, n + 1, {"0"})
        BY <1>0, <3>7 DEF AllIn
      <3>9. BehindUrlShape(i, j, v, n)'
        BY <1>0, <1>2, <1>6, <1>12, <3>5, <3>8 DEF BehindUrlShape
      <3>10. QED
        BY <3>9
    <2>3. CASE state = "S_RL_VERSION_MINOR"
      <3>1. /\ MinorRead(text', i, j, v, d, n)
            /\ version.minor = 0 => AllIn(text, d + 1, n, {"0"})
            /\ d < n /\ 2 < d
        BY <1>1, <1>4, <2>3, UrlWithin
      <3>2. ~(NextNumber(version.minor, ch) > 1)
        BY <1>12, <2>3 DEF Advance, Refused
      <3>3. version.minor = 0 /\ ch \in {"0", "1"} /\ (version'.minor = 0 => ch = "0")
        BY <1>3, <1>12, <2>1, <3>2, NumberGoesOn
      <3>4. AllIn(text', d + 1, n, {"0"})
        BY <1>a, <1>0, <3>1, <3>3 DEF AllIn
      <3>5. IsNumber(text', d + 1, n + 1)
        BY <1>0, <3>1, <3>3, <3>4 DEF IsNumber, AllIn
      <3>6. MinorRead(text', i, j, v, d, n + 1)
        BY <3>1, <3>5 DEF MinorRead
      <3>7. ASSUME version'.minor = 0 PROVE AllIn(text', d + 1, n + 1, {"0"})
        <4>1. text'[n + 1] \in {"0"} /\ d + 1 \in Int /\ n \in Int
          BY <1>0, <3>3, <3>7
        <4>2. QED
          BY <3>4, <4>1, AllInMore, Zenon
      <3>8. BehindUrlShape(i, j, v, d)'
        BY <1>0, <1>2, <1>6, <1>12, <3>6, <3>7 DEF BehindUrlShape
      <3>9. QED
        BY <3>8
    <2>4. QED
      BY <2>1, <2>2, <2>3
  <1>13. CASE to = "S_RL_CR_AFTER_VERSION"
    <2>1. state = "S_RL_VERSION_MINOR" /\ ch = "\r"
      BY <1>13, RequestSources
    <2>2. MinorRead(text', i, j, v, d, (n + 1) - 1) /\ text'[n + 1] = "\r"
      BY <1>0, <1>1, <1>4, <2>1
    <2>3. BehindUrlShape(i, j, v, d)'
      BY <1>0, <1>2, <1>6, <1>13, <2>2 DEF BehindUrlShape
    <2>4. QED
      BY <2>3
  <1>14. to \in BehindUrl
    <2>1. to \notin {"S_RL_BEGIN", "S_RL_METHOD", "S_RL_SP_BEFORE_URL", "S_RL_URL"}
      BY RequestSources DEF BehindUrl
    <2>2. QED
      BY <2>1 DEF RequestStates, BehindUrl
  <1>15. QED
    BY <1>7, <1>8, <1>9, <1>10, <1>11, <1>12, <1>13, <1>14 DEF BehindUrl

(* The line feed that completes the line.                                  *)
LEMMA RequestComplete ==
  ASSUME PInv, fn = "request", RequestShape, NEW ch \in Alphabet, Read(ch), Complete(ch)
  PROVE  \E i, j, v, d \in Int : RequestAt(text', i, j, v, d) /\ UrlCut(text, i, j)'
  <1>a. PICK n \in Nat : n = Len(text)
    BY ReadSymbol
  <1>0. /\ Len(text') = n + 1 /\ text'[n + 1] = ch
        /\ \A k \in 1..Len(text) : text'[k] = text[k]
        /\ text \in Seq(Symbols) /\ text' = Append(text, ch) /\ ch \in Symbols
        /\ n \in 0..Len(text)
    BY <1>a, ReadSymbol
  <1>1. state = "S_RL_CR_AFTER_VERSION" /\ ch = "\n"
    <2>1. state \in RequestStates
      BY DEF PInv, TypeOK, Read
    <2>2. RequestMoves(state, ch, Done)
      BY <2>1 DEF Complete, Moves, HeaderMoves, RequestStates, Done
    <2>3. QED
      BY <2>2, RequestSources
  <1>2. PICK i \in Int, j \in Int, v \in Int, d \in Int : BehindUrlShape(i, j, v, d)
    BY <1>1 DEF RequestShape, BehindUrl
  <1>3. MinorRead(text, i, j, v, d, n - 1) /\ text[n] = "\r" /\ UrlCut(text, i, j)
    BY <1>a, <1>1, <1>2 DEF BehindUrlShape
  <1>4. 2 < i /\ i <= j /\ j < v - 1 /\ v + 2 <= d - 1 /\ d < n - 1
    BY <1>3, UrlWithin
  <1>5. MinorRead(text', i, j, v, d, n - 1)
    <2>1. n - 1 \in 0..Len(text)
      BY <1>a, <1>4
    <2>2. QED
      BY <1>0, <1>3, <2>1, PartsStay, Zenon
  <1>6. /\ MajorRead(text', i, j, v, d - 1) /\ text'[d] = "."
        /\ IsNumber(text', d + 1, n - 1)
    BY <1>5 DEF MinorRead
  <1>7. HttpRead(text', i, j, v) /\ text'[v + 1] = "/" /\ IsNumber(text', v + 2, d - 1)
    BY <1>6 DEF MajorRead
  <1>8. UrlBehind(text', i, j, v - 1) /\ text'[v] = "proto"
    BY <1>7 DEF HttpRead
  <1>9. /\ UrlRead(text', i, j) /\ text'[i] = "/"
        /\ AllIn(text', j + 1, v - 1, Blanks)
    BY <1>8 DEF UrlBehind
  <1>10. /\ text'[1] = "method" /\ text'[2] = Space
         /\ AllIn(text', 3, i - 1, Blanks)
         /\ IsUrlAt(text', i, j)
    BY <1>4, <1>9 DEF UrlRead, MethodRead, IsUrlAt
  <1>11. text'[n] = "\r" /\ text'[n + 1] = "\n"
    BY <1>a, <1>0, <1>1, <1>3, <1>4
  <1>12. RequestAt(text', i, j, v, d)
    <2>1. /\ v \in 5..n + 1 /\ i \in 3..v - 2 /\ j \in i..v - 2
          /\ d \in v + 3..(n + 1) - 3 /\ (n + 1) - 2 = n - 1 /\ (n + 1) - 1 = n
      BY <1>4
    <2>2. QED
      BY <1>0, <1>6, <1>7, <1>8, <1>9, <1>10, <1>11, <2>1, Zenon DEF RequestAt
  <1>13. UrlCut(text, i, j)'
    <2>1. 1 <= i /\ j < Len(text)
      BY <1>a, <1>4
    <2>2. text'[j + 1] \in Blanks /\ url = SplitUrl(SubSeq(text', i, j), text'[j + 1])
      BY <1>0, <1>3, <1>4, <2>1, CutStays
    <2>3. url' = url
      BY DEF Complete
    <2>4. QED
      BY <2>2, <2>3 DEF UrlCut
  <1>14. QED
    BY <1>12, <1>13

LEMMA RInvNext == PInv /\ RInv /\ [Next]_vars => RInv'
  <1>1. ASSUME [Next]_vars PROVE fn' = fn
    BY <1>1 DEF Next, Read, BufferEnd, NextHeader, vars
  <1> SUFFICES ASSUME PInv, RInv, [Next]_vars, fn = "request"
               PROVE  (verdict' = "none" => RequestShape') /\ RequestSound'
    BY <1>1 DEF RInv
  <1>2. ASSUME NEW ch \in Alphabet, Read(ch)
        PROVE  (verdict' = "none" => RequestShape') /\ RequestSound'
    <2>1. RequestShape /\ verdict = "none" /\ state \in RequestStates
      BY <1>2 DEF RInv, Read, PInv, TypeOK
    <2>2. ASSUME NEW to \in States, Advance(ch, to)
          PROVE  RequestShape' /\ verdict' = "none"
      <3>1. RequestMoves(state, ch, to) /\ to # Done
        BY <2>1, <2>2 DEF Advance, Moves, HeaderMoves, RequestStates
      <3>2. to \in RequestStates
        BY <2>1, <2>2, <3>1, MovesKind DEF States, RequestStates, Done, Moves
      <3>3. verdict' = "none" /\ state' = to
        BY <2>1, <2>2 DEF Advance
      <3>4. CASE to \notin BehindUrl
        BY <1>2, <2>1, <2>2, <3>1, <3>2, <3>3, <3>4, ShapeBeforeUrl
      <3>5. CASE to \in BehindUrl
        <4>1. \E i, j, v, d \in Int : BehindUrlShape(i, j, v, d)'
          <5>1. CASE state \in BehindUrl
            <6>1. PICK i \in Int, j \in Int, v \in Int, d \in Int : BehindUrlShape(i, j, v, d)
              BY <2>1, <5>1 DEF RequestShape
            <6>2. QED
              BY <1>2, <2>2, <3>1, <3>2, <5>1, <6>1, ShapeBehindUrl
          <5>2. CASE state \notin BehindUrl
            <6>1. state = "S_RL_URL" /\ to = "S_RL_SP_BEFORE_VERSION" /\ ch \in Blanks
              BY <3>1, <3>5, <5>2, RequestSources DEF BehindUrl
            <6>2. QED
              BY <1>2, <2>1, <2>2, <6>1, ShapeUrlEnd
          <5>3. QED
            BY <5>1, <5>2
        <4>2. state' \notin {"S_RL_BEGIN", "S_RL_METHOD", "S_RL_SP_BEFORE_URL", "S_RL_URL"}
          BY <3>3, <3>5 DEF BehindUrl
        <4>3. QED
          BY <3>3, <4>1, <4>2 DEF RequestShape
      <3>6. QED
        BY <3>4, <3>5
    <2>3. CASE Complete(ch)
      <3>1. verdict' = "OK"
        BY <2>3 DEF Complete
      <3>2. RequestSound'
        BY <1>2, <2>1, <2>3, RequestComplete DEF RequestSound
      <3>3. QED
        BY <3>1, <3>2
    <2>4. CASE Reject(ch)
      BY <2>4 DEF Reject, RequestSound
    <2>5. QED
      BY <1>2, <2>2, <2>3, <2>4 DEF Read, RequestSound
  <1>3. CASE BufferEnd
    BY <1>3 DEF BufferEnd, RequestSound
  <1>4. ~NextHeader
    BY DEF NextHeader
  <1>5. CASE UNCHANGED vars
    <2>1. \A i, j, v, d \in Int : BehindUrlShape(i, j, v, d)' <=> BehindUrlShape(i, j, v, d)
      BY <1>5 DEF vars, BehindUrlShape, UrlCut
    <2>2. RequestShape' <=> RequestShape
      BY <1>5, <2>1 DEF vars, RequestShape
    <2>3. RequestSound' <=> RequestSound
      BY <1>5 DEF vars, RequestSound, UrlCut
    <2>4. verdict' = verdict
      BY <1>5 DEF vars
    <2>5. QED
      BY <2>2, <2>3, <2>4 DEF RInv
  <1>6. QED
    BY <1>2, <1>3, <1>4, <1>5 DEF Next

RequestInv == PInv /\ RequestLed /\ RInv

LEMMA RequestInvariance == Spec => []RequestInv
  <1>1. Init => RequestInv
    <2>1. Init => RInv
      BY DEF Init, RInv, RequestShape, RequestSound, BehindUrl
    <2>2. QED
      BY <2>1, PInvInit, RequestLedInit DEF RequestInv
  <1>2. RequestInv /\ [Next]_vars => RequestInv'
    BY PInvNext, RequestLedNext, RInvNext DEF RequestInv
  <1>3. QED
    BY <1>1, <1>2, PTL DEF Spec

LEMMA RequestJoin ==
  ASSUME NEW s, NEW i, NEW j, NEW v, NEW d, RequestAt(s, i, j, v, d)
  PROVE  IsRequestLine(s)
  <1>1. /\ v \in 5..Len(s) /\ i \in 3..v - 2 /\ j \in i..v - 2 /\ d \in v + 3..Len(s) - 3
        /\ s[1] = "method" /\ s[2] = Space
        /\ AllIn(s, 3, i - 1, Blanks) /\ IsUrlAt(s, i, j) /\ AllIn(s, j + 1, v - 1, Blanks)
        /\ s[v] = "proto" /\ s[v + 1] = "/" /\ s[d] = "."
        /\ IsNumber(s, v + 2, d - 1) /\ IsNumber(s, d + 1, Len(s) - 2)
        /\ s[Len(s) - 1] = "\r" /\ s[Len(s)] = "\n"
    BY Zenon DEF RequestAt
  <1>2. v + 6 <= Len(s)
    BY <1>1
  <1>3. IsVersion(s, v)
    BY <1>1, <1>2, Zenon DEF IsVersion
  <1>4. QED
    BY <1>1, <1>3, Zenon DEF IsRequestLine, Space

LEMMA RequestEndsAre == \A e \in RequestEnds : e \in Seq(Symbols)
  <1> DEFINE line == <<"method", Space, "/", Space, "proto", "/", "1", ".", "1", "\r", "\n">>
  <1>1. /\ "method" \in Symbols /\ Space \in Symbols /\ "/" \in Symbols
        /\ "proto" \in Symbols /\ "1" \in Symbols /\ "." \in Symbols
        /\ "\r" \in Symbols /\ "\n" \in Symbols
    BY RequestKinds, SymbolKinds, Zenon DEF Symbols, NameSymbols
  <1>2. line \in Seq(Symbols)
    BY <1>1
  <1>3. RequestEnds = Suffixes(line)
    BY Zenon DEF RequestEnds, Space
  <1> HIDE DEF line
  <1>4. \A k \in 1..Len(line) + 1 : SubSeq(line, k, Len(line)) \in Seq(Symbols)
    BY <1>2
  <1>5. QED
    BY <1>3, <1>4 DEF Suffixes

(* parse_request_line recognises the request lines: it accepts every one   *)
(* at its last symbol and nothing else, with version numbers of any length,*)
(* and refuses only what no end could have made a request line.            *)
THEOREM RequestLinesExact == Spec => []RequestLineExact
  <1>1. RequestInv => RequestLineExact
    <2> SUFFICES ASSUME RequestInv, fn = "request"
                 PROVE  /\ verdict = "OK" <=> IsRequestLine(text)
                        /\ verdict = "INVALID_REQUEST" =>
                            \A e \in RequestEnds : ~IsRequestLine(text \o e)
      BY DEF RequestLineExact
    <2>1. text \in Seq(Symbols)
      BY DEF RequestInv, PInv, TypeOK
    <2>2. Begins(text, text)
      BY <2>1 DEF Begins
    <2>3. ASSUME verdict = "OK" PROVE IsRequestLine(text)
      BY <2>3, RequestJoin DEF RequestInv, RInv, RequestSound
    <2>4. ASSUME IsRequestLine(text) PROVE verdict = "OK"
      <3>1. PICK i, j, v, d : RequestAt(text, i, j, v, d)
        BY <2>4, RequestSplit
      <3>2. OnRequest(text, i, j, v, d)
        BY <2>1, <2>2, <3>1 DEF RequestInv, RequestLed
      <3>3. ~(Len(text) < Len(text))
        BY <2>1
      <3>4. QED
        BY <3>2, <3>3, Zenon DEF OnRequest
    <2>5. ASSUME verdict = "INVALID_REQUEST", NEW e \in RequestEnds
          PROVE  ~IsRequestLine(text \o e)
      <3>1. text \o e \in Seq(Symbols) /\ Begins(text, text \o e)
        BY <2>1, RequestEndsAre, BeginsMore
      <3>2. \A i, j, v, d : ~OnRequest(text \o e, i, j, v, d)
        BY <2>5, Zenon DEF OnRequest, Reading
      <3>3. \A i, j, v, d : ~RequestAt(text \o e, i, j, v, d)
        BY <3>1, <3>2, Zenon DEF RequestInv, RequestLed
      <3>4. QED
        BY <3>3, RequestSplit
    <2>6. QED
      BY <2>3, <2>4, <2>5
  <1>2. QED
    BY <1>1, RequestInvariance, PTL

-----------------------------------------------------------------------------
(* How parse_url splits a URL.                                             *)
LessThan == {p \in Nat \X Nat : p[1] < p[2]}

LEMMA LeastNat ==
  ASSUME NEW T \in SUBSET Nat, T # {}
  PROVE  \E m \in T : \A n \in T : m <= n
  <1>1. OpToRel(<, Nat) = LessThan
    BY DEF OpToRel, LessThan
  <1>2. IsWellFoundedOn(LessThan, Nat)
    BY <1>1, NatLessThanWellFounded
  <1>3. PICK m \in T : \A n \in T : ~(<<n, m>> \in LessThan)
    BY <1>2, WFMin
  <1>4. \A a, b \in Nat : a < b => <<a, b>> \in LessThan
    BY DEF LessThan
  <1>5. \A n \in T : m <= n
    <2>1. SUFFICES ASSUME NEW n \in T PROVE m <= n
      OBVIOUS
    <2>2. n \in Nat /\ m \in Nat
      OBVIOUS
    <2>3. ~(<<n, m>> \in LessThan)
      BY <1>3
    <2>4. QED
      BY <1>4, <2>2, <2>3
  <1>6. QED
    BY <1>5

LEMMA MaxIs ==
  ASSUME NEW T \in SUBSET Int, NEW m \in T, \A n \in T : n <= m
  PROVE  Max(T) = m
  <1>1. \E x \in T : \A y \in T : x >= y
    OBVIOUS
  <1>2. Max(T) \in T /\ \A y \in T : Max(T) >= y
    BY <1>1 DEF Max
  <1>3. \A x \in T : (\A y \in T : x >= y) => x = m
    OBVIOUS
  <1>4. QED
    BY <1>2, <1>3, Zenon

LEMMA GreatestIn ==
  ASSUME NEW n \in Nat, NEW T \in SUBSET (1..n), T # {}
  PROVE  Max(T) \in T /\ \A x \in T : x <= Max(T)
  <1> DEFINE D == {n - x : x \in T}
  <1>0. \A x \in T : x \in 1..n /\ n - x \in Nat
    OBVIOUS
  <1>1. D \in SUBSET Nat /\ D # {}
    <2>1. D \in SUBSET Nat
      BY <1>0
    <2>2. PICK x \in T : TRUE
      OBVIOUS
    <2>3. n - x \in D
      BY <2>2
    <2>4. QED
      BY <2>1, <2>3
  <1>2. PICK m \in D : \A d \in D : m <= d
    BY <1>1, LeastNat
  <1>3. PICK t \in T : m = n - t
    BY <1>2
  <1>4. \A x \in T : x <= t
    <2>1. SUFFICES ASSUME NEW x \in T PROVE x <= t
      OBVIOUS
    <2>2. n - x \in D
      OBVIOUS
    <2>3. n - t <= n - x
      BY <1>2, <1>3, <2>2
    <2>4. QED
      BY <2>3
  <1>5. Max(T) = t
    <2>1. T \in SUBSET Int
      BY <1>0
    <2>2. QED
      BY <1>4, <2>1, MaxIs
  <1>6. QED
    BY <1>4, <1>5

LEMMA LeastIn ==
  ASSUME NEW n \in Nat, NEW T \in SUBSET (1..n), T # {}
  PROVE  Min(T) \in T /\ \A x \in T : Min(T) <= x
  <1>1. T \in SUBSET Nat
    OBVIOUS
  <1>2. \E m \in T : \A x \in T : m <= x
    BY <1>1, LeastNat
  <1>3. QED
    BY <1>2 DEF Min

LEMMA JoinIs ==
  ASSUME NEW a \in Seq(Symbols), NEW b \in Seq(Symbols)
  PROVE  /\ a \o b \in Seq(Symbols) /\ Len(a \o b) = Len(a) + Len(b)
         /\ \A k \in 1..Len(a) : (a \o b)[k] = a[k]
         /\ \A k \in Len(a) + 1..Len(a) + Len(b) : (a \o b)[k] = b[k - Len(a)]
  OBVIOUS

LEMMA SplitAround ==
  ASSUME NEW s \in Seq(Symbols), NEW c \in 1..Len(s)
  PROVE  /\ s = SubSeq(s, 1, c - 1) \o <<s[c]>> \o SubSeq(s, c + 1, Len(s))
         /\ Len(SubSeq(s, 1, c - 1)) = c - 1
         /\ Len(SubSeq(s, c + 1, Len(s))) = Len(s) - c
  <1> DEFINE a == SubSeq(s, 1, c - 1)
             b == SubSeq(s, c + 1, Len(s))
             m == <<s[c]>>
  <1>1. /\ a \in Seq(Symbols) /\ Len(a) = c - 1 /\ \A k \in 1..c - 1 : a[k] = s[k]
        /\ b \in Seq(Symbols) /\ Len(b) = Len(s) - c
        /\ \A k \in 1..Len(s) - c : b[k] = s[c + k]
        /\ m \in Seq(Symbols) /\ Len(m) = 1 /\ m[1] = s[c]
        /\ Len(s) \in Nat /\ c \in Nat /\ c >= 1 /\ c <= Len(s)
    OBVIOUS
  <1> DEFINE w == (a \o m) \o b
  <1> HIDE DEF a, b, m
  <1>2. /\ a \o m \in Seq(Symbols) /\ Len(a \o m) = c
        /\ \A k \in 1..c : (a \o m)[k] = s[k]
    <2>1. /\ a \o m \in Seq(Symbols) /\ Len(a \o m) = Len(a) + Len(m)
          /\ \A k \in 1..Len(a) : (a \o m)[k] = a[k]
          /\ \A k \in Len(a) + 1..Len(a) + Len(m) : (a \o m)[k] = m[k - Len(a)]
      BY <1>1, JoinIs
    <2> DEFINE h == a \o m
    <2> HIDE DEF h
    <2>2. /\ h \in Seq(Symbols) /\ Len(h) = c /\ (\A k \in 1..c - 1 : h[k] = a[k])
          /\ \A k \in c..c : h[k] = m[k - (c - 1)]
      <3>1. /\ h \in Seq(Symbols) /\ Len(h) = Len(a) + Len(m)
            /\ \A k \in 1..Len(a) : h[k] = a[k]
            /\ \A k \in Len(a) + 1..Len(a) + Len(m) : h[k] = m[k - Len(a)]
        BY ONLY <2>1 DEF h
      <3>2. Len(a) = c - 1 /\ Len(a) + Len(m) = c /\ Len(a) + 1 = c
        BY <1>1
      <3>3. QED
        BY ONLY <3>1, <3>2
    <2>3. h[c] = s[c]
      BY <1>1, <2>2
    <2>4. \A k \in 1..c : h[k] = s[k]
      BY <1>1, <2>2, <2>3
    <2>5. QED
      BY <2>2, <2>4 DEF h
  <1>3. w \in Seq(Symbols) /\ Len(w) = Len(s) /\ \A k \in 1..Len(s) : w[k] = s[k]
    <2> DEFINE h == a \o m
    <2> HIDE DEF h
    <2>1. /\ h \in Seq(Symbols) /\ Len(h) = c /\ \A k \in 1..c : h[k] = s[k]
      BY <1>2 DEF h
    <2>2. w = h \o b
      BY DEF h, w
    <2>3. /\ w \in Seq(Symbols) /\ Len(w) = Len(h) + Len(b)
          /\ \A k \in 1..Len(h) : w[k] = h[k]
          /\ \A k \in Len(h) + 1..Len(h) + Len(b) : w[k] = b[k - Len(h)]
      <3>1. h \in Seq(Symbols) /\ b \in Seq(Symbols)
        BY <1>1, <2>1
      <3>2. /\ h \o b \in Seq(Symbols) /\ Len(h \o b) = Len(h) + Len(b)
            /\ \A k \in 1..Len(h) : (h \o b)[k] = h[k]
            /\ \A k \in Len(h) + 1..Len(h) + Len(b) : (h \o b)[k] = b[k - Len(h)]
        BY <3>1, JoinIs
      <3> DEFINE x == h \o b
      <3> HIDE DEF x
      <3>3. /\ x \in Seq(Symbols) /\ Len(x) = Len(h) + Len(b)
            /\ \A k \in 1..Len(h) : x[k] = h[k]
            /\ \A k \in Len(h) + 1..Len(h) + Len(b) : x[k] = b[k - Len(h)]
        BY ONLY <3>2 DEF x
      <3>4. w = x
        BY <2>2 DEF x
      <3>5. QED
        BY ONLY <3>3, <3>4
    <2>4. /\ w \in Seq(Symbols) /\ Len(w) = Len(s) /\ (\A k \in 1..c : w[k] = s[k])
          /\ \A k \in c + 1..Len(s) : w[k] = b[k - c]
      <3>1. Len(h) = c /\ Len(h) + Len(b) = Len(s)
        BY <1>1, <2>1
      <3>2. QED
        BY <2>1, <2>3, <3>1
    <2>5. \A k \in c + 1..Len(s) : w[k] = s[k]
      <3>1. \A k \in c + 1..Len(s) : k - c \in 1..Len(s) - c /\ c + (k - c) = k
        BY <1>1
      <3>2. QED
        BY <1>1, <2>4, <3>1
    <2>6. QED
      BY <1>1, <2>4, <2>5
  <1> HIDE DEF w
  <1>4. w = s
    BY <1>3
  <1>5. QED
    BY <1>1, <1>4 DEF w, a, b, m

(* No part of a line looks like a string that was never stored.            *)
LEMMA NotUnset == \A s \in Seq(Symbols) : s # Unset
  <1>1. "unset" \notin Symbols
    BY Zenon DEF Symbols, NameSymbols, Letters, Digits, DigitValue, Blanks, Breaks
  <1>2. Len(Unset) = 1 /\ Unset[1] = "unset"
    BY DEF Unset
  <1>3. \A s \in Seq(Symbols) : Len(s) = 1 => s[1] \in Symbols
    OBVIOUS
  <1>4. QED
    BY <1>1, <1>2, <1>3, Zenon

(* What follows the last dot of the last component of a path.              *)
LEMMA ExtensionIs ==
  ASSUME NEW path \in Seq(Symbols), Len(path) >= 1, path[1] = "/",
         NEW ext, ext = Extension(path)
  PROVE  /\ ext # Unset =>
             /\ AllIn(ext, 1, Len(ext), Symbols \ {".", "/"})
             /\ path = SubSeq(path, 1, Len(path) - Len(ext) - 1) \o <<".">> \o ext
         /\ ext = Unset =>
             \E k \in DOMAIN path :
                 path[k] = "/" /\ AllIn(path, k + 1, Len(path), Symbols \ {".", "/"})
  <1> DEFINE n == Len(path)
             stops == {i \in 2..n : path[i] \in {".", "/"}}
             last == Max(stops)
  <1>0. n \in Nat /\ stops \in SUBSET (1..n)
    OBVIOUS
  <1>1. CASE stops = {}
    <2>1. ext = Unset
      BY <1>1 DEF Extension
    <2>2. \A k \in 2..n : path[k] \notin {".", "/"} /\ path[k] \in Symbols
      BY <1>1
    <2>3. AllIn(path, 2, n, Symbols \ {".", "/"}) /\ 1 \in DOMAIN path
      BY <2>2 DEF AllIn
    <2>4. QED
      BY <2>1, <2>3
  <1>2. CASE stops # {}
    <2>1. last \in stops /\ \A x \in stops : x <= last
      BY <1>0, <1>2, GreatestIn
    <2>2. \A k \in last + 1..n : path[k] \notin {".", "/"} /\ path[k] \in Symbols
      <3>1. last \in 2..n
        BY <2>1
      <3>2. ASSUME NEW k \in last + 1..n PROVE k \in 2..n /\ ~(k <= last)
        BY <3>1
      <3>3. QED
        BY <2>1, <3>2
    <2>3. last \in 2..n /\ path[last] \in {".", "/"}
      BY <2>1
    <2>4. CASE path[last] = "/"
      <3>1. ext = Unset
        BY <2>4 DEF Extension
      <3>2. AllIn(path, last + 1, n, Symbols \ {".", "/"}) /\ last \in DOMAIN path
        BY <2>2, <2>3 DEF AllIn
      <3>3. QED
        BY <2>4, <3>1, <3>2
    <2>5. CASE path[last] = "."
      <3>1. ext = SubSeq(path, last + 1, n)
        BY <1>2, <2>5 DEF Extension
      <3> HIDE DEF last, stops
      <3>2. ext # Unset
        <4>1. ext \in Seq(Symbols)
          BY <1>0, <2>3, <3>1
        <4>2. QED
          BY <4>1, NotUnset
      <3>3. /\ path = SubSeq(path, 1, last - 1) \o <<".">> \o ext
            /\ Len(ext) = n - last
        BY <2>3, <2>5, <3>1, SplitAround
      <3>4. last - 1 = n - Len(ext) - 1
        BY <2>3, <3>3
      <3>5. AllIn(ext, 1, Len(ext), Symbols \ {".", "/"})
        <4>1. \A k \in 1..n - last : ext[k] = path[last + k] /\ last + k \in last + 1..n
          BY <2>3, <3>1
        <4>2. QED
          BY <2>2, <3>3, <4>1 DEF AllIn
      <3>6. QED
        BY <3>2, <3>3, <3>4, <3>5
    <2>6. QED
      BY <2>3, <2>4, <2>5
  <1>3. QED
    BY <1>1, <1>2

(* The parts of a URL u that is followed by a blank.                       *)
LEMMA PartsAre ==
  ASSUME NEW u \in Seq(Symbols), Len(u) >= 1, u[1] = "/", NEW blank \in Blanks,
         NEW r, r = SplitUrl(u, blank)
  PROVE  LET query == {k \in DOMAIN u : u[k] = "?"}
             path == r.abs_path
             ext == r.mime_extension
         IN
         /\ blank # Space => r.query_string = Unset /\ (path = Unset <=> query = {})
         /\ blank = Space => path # Unset /\ r.query_string # Unset
         /\ path # Unset => AllIn(path, 1, Len(path), Symbols \ {"?"})
         /\ path # Unset /\ r.query_string # Unset =>
             u = path \o (IF query = {} THEN <<>> ELSE <<"?">>) \o r.query_string
         /\ path # Unset => path = SubSeq(u, 1, Len(path))
         /\ ext # Unset =>
             /\ AllIn(ext, 1, Len(ext), Symbols \ {".", "/"})
             /\ path = SubSeq(path, 1, Len(path) - Len(ext) - 1) \o <<".">> \o ext
         /\ path # Unset /\ ext = Unset =>
             \E k \in DOMAIN path :
                 path[k] = "/" /\ AllIn(path, k + 1, Len(path), Symbols \ {".", "/"})
  <1> DEFINE query == {k \in DOMAIN u : u[k] = "?"}
             cut == IF query = {} THEN Len(u) + 1 ELSE Min(query)
             whole == SubSeq(u, 1, cut - 1)
             rest == SubSeq(u, cut + 1, Len(u))
             path == r.abs_path
             ext == r.mime_extension
  <1>0. Len(u) \in Nat /\ query \in SUBSET (1..Len(u))
    OBVIOUS
  <1>1. /\ path = IF query # {} \/ blank = Space THEN whole ELSE Unset
        /\ r.query_string = IF blank = Space THEN rest ELSE Unset
        /\ ext = IF path = Unset THEN Unset ELSE Extension(path)
    BY Zenon DEF SplitUrl, Space
  <1>2. /\ cut \in 2..Len(u) + 1
        /\ \A k \in 1..cut - 1 : u[k] # "?"
        /\ query # {} => cut \in query
        /\ query = {} => cut = Len(u) + 1
    <2>1. CASE query = {}
      <3>1. cut = Len(u) + 1
        BY <2>1
      <3> HIDE DEF cut
      <3>2. QED
        BY <2>1, <3>1
    <2>2. CASE query # {}
      <3>1. cut \in query /\ \A x \in query : cut <= x
        BY <1>0, <2>2, LeastIn
      <3>2. 1 \notin query
        OBVIOUS
      <3> HIDE DEF cut
      <3>3. cut \in 2..Len(u)
        BY <1>0, <3>1, <3>2
      <3>4. ASSUME NEW k \in 1..cut - 1 PROVE u[k] # "?"
        BY <1>0, <3>1, <3>3
      <3>5. QED
        BY <1>0, <2>2, <3>1, <3>3, <3>4
    <2>3. QED
      BY <2>1, <2>2
  <1> HIDE DEF cut
  <1>3. /\ whole \in Seq(Symbols) /\ Len(whole) = cut - 1 /\ whole[1] = "/"
        /\ \A k \in 1..cut - 1 : whole[k] = u[k]
        /\ rest \in Seq(Symbols)
    BY <1>0, <1>2
  <1>4. whole # Unset /\ rest # Unset
    BY <1>3, NotUnset
  <1>5. AllIn(whole, 1, Len(whole), Symbols \ {"?"})
    BY <1>0, <1>2, <1>3 DEF AllIn
  <1>6. u = whole \o (IF query = {} THEN <<>> ELSE <<"?">>) \o rest
    <2>1. CASE query = {}
      <3>1. whole = u /\ rest = <<>>
        BY <1>0, <1>2, <2>1
      <3>2. u \o <<>> \o <<>> = u
        OBVIOUS
      <3>3. QED
        BY <2>1, <3>1, <3>2, Zenon
    <2>2. CASE query # {}
      <3>1. cut \in 1..Len(u) /\ u[cut] = "?"
        BY <1>2, <2>2
      <3>2. u = whole \o <<u[cut]>> \o rest
        BY <3>1, SplitAround
      <3>3. QED
        BY <2>2, <3>1, <3>2, Zenon
    <2>3. QED
      BY <2>1, <2>2
  <1>7. whole = SubSeq(u, 1, Len(whole))
    BY <1>3
  <1> HIDE DEF whole, rest
  <1>8. CASE path = Unset
    <2>1. query = {} /\ blank # Space
      BY <1>1, <1>4, <1>8
    <2>2. ext = Unset /\ r.query_string = Unset
      BY <1>1, <1>8, <2>1
    <2>3. QED
      BY <1>8, <2>1, <2>2
  <1>9. CASE path # Unset
    <2>1. path = whole /\ (query # {} \/ blank = Space) /\ ext = Extension(whole)
      BY <1>1, <1>9
    <2>2. /\ ext # Unset =>
              /\ AllIn(ext, 1, Len(ext), Symbols \ {".", "/"})
              /\ path = SubSeq(path, 1, Len(path) - Len(ext) - 1) \o <<".">> \o ext
          /\ ext = Unset =>
              \E k \in DOMAIN path :
                  path[k] = "/" /\ AllIn(path, k + 1, Len(path), Symbols \ {".", "/"})
      <3>1. Len(path) >= 1
        BY <1>2, <1>3, <2>1
      <3>2. path \in Seq(Symbols) /\ path[1] = "/" /\ ext = Extension(path)
        BY <1>3, <2>1
      <3>3. QED
        BY <3>1, <3>2, ExtensionIs, Zenon
    <2>3. /\ r.query_string # Unset => r.query_string = rest
          /\ blank = Space => r.query_string # Unset
          /\ blank # Space => r.query_string = Unset
      BY <1>1, <1>4
    <2>4. QED
      BY <1>5, <1>6, <1>7, <1>9, <2>1, <2>2, <2>3, Zenon
  <1>10. QED
    BY <1>8, <1>9

(* parse_url cuts the URL of every accepted request line at its first      *)
(* question mark, and the extension off behind the last dot of the last    *)
(* component; behind a tab it leaves the string it was reading unset - in  *)
(* URLs of every length.                                                   *)
THEOREM UrlSplitCorrect == Spec => []UrlSplit
  <1>1. RequestInv => UrlSplit
    <2> SUFFICES ASSUME RequestInv, fn = "request", verdict = "OK"
                 PROVE  UrlSplit
      BY DEF UrlSplit
    <2>1. text \in Seq(Symbols)
      BY DEF RequestInv, PInv, TypeOK
    <2>2. PICK i \in Int, j \in Int, v \in Int, d \in Int :
              RequestAt(text, i, j, v, d) /\ UrlCut(text, i, j)
      BY DEF RequestInv, RInv, RequestSound
    <2>3. /\ IsUrlAt(text, i, j) /\ AllIn(text, 3, i - 1, Blanks)
          /\ i \in DOMAIN text /\ j \in DOMAIN text /\ i <= j /\ text[i] = "/"
      <3>1. /\ v \in 5..Len(text) /\ i \in 3..v - 2 /\ j \in i..v - 2
            /\ IsUrlAt(text, i, j) /\ AllIn(text, 3, i - 1, Blanks)
        BY <2>2, Zenon DEF RequestAt
      <3>2. QED
        BY <2>1, <3>1 DEF IsUrlAt
    <2>4. text[j + 1] \in Blanks /\ url = SplitUrl(SubSeq(text, i, j), text[j + 1])
      BY <2>2 DEF UrlCut
    <2> DEFINE u == SubSeq(text, i, j)
    <2>5. u \in Seq(Symbols) /\ Len(u) >= 1 /\ u[1] = "/"
      BY <2>1, <2>3
    <2>6. text[j + 1] = "\t" => text[j + 1] # Space
      BY Zenon DEF Space
    <2> HIDE DEF u
    <2>7. url = SplitUrl(u, text[j + 1])
      BY <2>4 DEF u
    <2> DEFINE query == {k \in DOMAIN u : u[k] = "?"}
               path == url.abs_path
               ext == url.mime_extension
    <2>8. /\ text[j + 1] # Space => url.query_string = Unset /\ (path = Unset <=> query = {})
          /\ text[j + 1] = Space => path # Unset /\ url.query_string # Unset
          /\ path # Unset => AllIn(path, 1, Len(path), Symbols \ {"?"})
          /\ path # Unset /\ url.query_string # Unset =>
              u = path \o (IF query = {} THEN <<>> ELSE <<"?">>) \o url.query_string
          /\ path # Unset => path = SubSeq(u, 1, Len(path))
          /\ ext # Unset =>
              /\ AllIn(ext, 1, Len(ext), Symbols \ {".", "/"})
              /\ path = SubSeq(path, 1, Len(path) - Len(ext) - 1) \o <<".">> \o ext
          /\ path # Unset /\ ext = Unset =>
              \E k \in DOMAIN path :
                  path[k] = "/" /\ AllIn(path, k + 1, Len(path), Symbols \ {".", "/"})
      BY <2>4, <2>5, <2>7, PartsAre, Zenon
    <2>9. QED
      BY <2>3, <2>4, <2>6, <2>8, Zenon DEF UrlSplit, Space, u
  <1>2. QED
    BY <1>1, RequestInvariance, PTL
=============================================================================
