------------------------------ MODULE HttpParser ------------------------------
(***************************************************************************)
(* The line automata of web/http_parser.c. One step is one iteration of    *)
(* the for loop of parse_request_line or parse_header_line: the next       *)
(* symbol of the buffer is read, or there is none and the call returns     *)
(* AGAIN. The buffer is chosen symbol by symbol, as the loop comes to it.  *)
(*                                                                         *)
(* A symbol is a character, or a run of letters that the automata cannot   *)
(* tell from a single letter: "method" is a run that parse_method knows,   *)
(* "proto" is HTTP in any case, "word" any other run that does not begin   *)
(* like HTTP. A mark (a char* of parse_archive) is a position in the line  *)
(* being read, 0 if it was set in an earlier line or never.                *)
(***************************************************************************)
EXTENDS Integers, Sequences, FiniteSetsExt

CONSTANTS
    RequestAlphabet,    \* symbols that request lines are made of
    UrlAlphabet,        \* symbols that a URL is made of, and what bounds it
    HeaderAlphabet,     \* symbols that header lines are made of
    MaxUrl,             \* bound: symbols of a URL
    MaxSlack            \* bound: other symbols of a line that leave the state as it
                        \* is, by function

Letters == {"method", "proto", "word"}
DigitValue == [d \in {"0", "1", "2", "3", "4", "5", "6", "7", "8", "9"} |->
    CASE d = "0" -> 0 [] d = "1" -> 1 [] d = "2" -> 2 [] d = "3" -> 3 [] d = "4" -> 4
      [] d = "5" -> 5 [] d = "6" -> 6 [] d = "7" -> 7 [] d = "8" -> 8 [] d = "9" -> 9]
Digits == DOMAIN DigitValue
Blanks == {" ", "\t"}
Breaks == {"\r", "\n"}
NameSymbols == Letters \cup Digits \cup {"-"}
Symbols == NameSymbols \cup Blanks \cup Breaks \cup {"/", ".", "?", ":", "*"}

ASSUME ParserAssumption ==
    /\ RequestAlphabet \subseteq Symbols
    /\ UrlAlphabet \subseteq Symbols
    /\ HeaderAlphabet \subseteq Symbols
    /\ MaxUrl \in Nat
    /\ MaxSlack \in [{"request", "header"} -> Nat]

VARIABLES
    fn,         \* the function at work: "request" or "header"
    state,      \* ar->state
    text,       \* what has been read of the line
    mark,       \* the positions kept in the archive
    version,    \* ar->version
    url,        \* ar->url
    isCRLF,     \* ar->isCRLF_LINE
    verdict,    \* what the call returned, "none" while it runs
    slack       \* symbols of the line, outside a URL, that did not change the state

vars == <<fn, state, text, mark, version, url, isCRLF, verdict, slack>>

RequestStates ==
    {"S_RL_BEGIN", "S_RL_METHOD", "S_RL_SP_BEFORE_URL", "S_RL_URL",
     "S_RL_SP_BEFORE_VERSION", "S_RL_VERSION_HTTP", "S_RL_VERSION_HTTP_SLASH",
     "S_RL_VERSION_MAJOR", "S_RL_VERSION_DOT", "S_RL_VERSION_MINOR",
     "S_RL_CR_AFTER_VERSION"}
HeaderStates ==
    {"S_HD_BEGIN", "S_HD_NAME", "S_HD_COLON", "S_HD_SP_BEFORE_VAL", "S_HD_VAL",
     "S_HD_CR_AFTER_VAL", "S_HD_LF_AFTER_VAL"}
Done == "done"
States == RequestStates \cup HeaderStates \cup {Done}

Marks == {"method_begin", "url_begin", "header_line_begin", "header_colon_pos",
          "header_val_begin", "header_val_end"}
Verdicts == {"none", "OK", "AGAIN", "INVALID_REQUEST", "CRLF_LINE"}

(* A string of the archive that no code has set: its pointer is null.      *)
Unset == <<"unset">>
NoUrl == [abs_path |-> Unset, query_string |-> Unset, mime_extension |-> Unset]

Alphabet ==
    CASE fn = "header" -> HeaderAlphabet
      [] state \in {"S_RL_SP_BEFORE_URL", "S_RL_URL"} -> UrlAlphabet
      [] OTHER -> RequestAlphabet

(* A call of parse_request_line on a reset archive; or the first call of   *)
(* parse_header_line, which does not look at the request line's results.   *)
Init ==
    /\ fn \in {"request", "header"}
    /\ state = IF fn = "request" THEN "S_RL_BEGIN" ELSE "S_HD_BEGIN"
    /\ text = <<>>
    /\ mark = [k \in Marks |-> 0]
    /\ version = [major |-> 0, minor |-> 0]
    /\ url = NoUrl
    /\ isCRLF = TRUE
    /\ verdict = "none"
    /\ slack = 0

-----------------------------------------------------------------------------
(* The automata.                                                           *)

RequestMoves(from, ch, to) ==
    \/ from = "S_RL_BEGIN" /\ ch \in Letters /\ to = "S_RL_METHOD"
    \/ from = "S_RL_METHOD" /\ ch \in Letters /\ to = from
    \/ from = "S_RL_METHOD" /\ ch = " " /\ to = "S_RL_SP_BEFORE_URL"
    \/ from = "S_RL_SP_BEFORE_URL" /\ ch \in Blanks /\ to = from
    \/ from = "S_RL_SP_BEFORE_URL" /\ ch \notin Blanks \cup Breaks /\ to = "S_RL_URL"
    \/ from = "S_RL_URL" /\ ch \notin Blanks \cup Breaks /\ to = from
    \/ from = "S_RL_URL" /\ ch \in Blanks /\ to = "S_RL_SP_BEFORE_VERSION"
    \/ from = "S_RL_SP_BEFORE_VERSION" /\ ch \in Blanks /\ to = from
    \/ from = "S_RL_SP_BEFORE_VERSION" /\ ch = "proto" /\ to = "S_RL_VERSION_HTTP"
    \/ from = "S_RL_VERSION_HTTP" /\ ch = "/" /\ to = "S_RL_VERSION_HTTP_SLASH"
    \/ from = "S_RL_VERSION_HTTP_SLASH" /\ ch \in Digits /\ to = "S_RL_VERSION_MAJOR"
    \/ from = "S_RL_VERSION_MAJOR" /\ ch \in Digits /\ to = from
    \/ from = "S_RL_VERSION_MAJOR" /\ ch = "." /\ to = "S_RL_VERSION_DOT"
    \/ from = "S_RL_VERSION_DOT" /\ ch \in Digits /\ to = "S_RL_VERSION_MINOR"
    \/ from = "S_RL_VERSION_MINOR" /\ ch \in Digits /\ to = from
    \/ from = "S_RL_VERSION_MINOR" /\ ch = "\r" /\ to = "S_RL_CR_AFTER_VERSION"
    \/ from = "S_RL_CR_AFTER_VERSION" /\ ch = "\n" /\ to = Done

(* After a bare line feed in a value no case of the switch applies: every  *)
(* symbol is passed over.                                                  *)
HeaderMoves(from, ch, to) ==
    \/ from = "S_HD_BEGIN" /\ ch \in NameSymbols /\ to = "S_HD_NAME"
    \/ from = "S_HD_BEGIN" /\ ch = "\r" /\ to = "S_HD_CR_AFTER_VAL"
    \/ from = "S_HD_BEGIN" /\ ch \in Blanks /\ to = from
    \/ from = "S_HD_NAME" /\ ch \in NameSymbols /\ to = from
    \/ from = "S_HD_NAME" /\ ch = ":" /\ to = "S_HD_COLON"
    \/ /\ from \in {"S_HD_COLON", "S_HD_SP_BEFORE_VAL"}
       /\ \/ ch \in Blanks /\ to = "S_HD_SP_BEFORE_VAL"
          \/ ch \notin Blanks \cup Breaks /\ to = "S_HD_VAL"
    \/ from = "S_HD_VAL" /\ ch \notin Breaks /\ to = from
    \/ from = "S_HD_VAL" /\ ch = "\r" /\ to = "S_HD_CR_AFTER_VAL"
    \/ from = "S_HD_VAL" /\ ch = "\n" /\ to = "S_HD_LF_AFTER_VAL"
    \/ from = "S_HD_CR_AFTER_VAL" /\ ch = "\n" /\ to = Done
    \/ from = "S_HD_LF_AFTER_VAL" /\ to = from

Moves(from, ch, to) == RequestMoves(from, ch, to) \/ HeaderMoves(from, ch, to)

(* Mutant of Sets: the end of a value is not kept.                         *)
SetsNoEnd(k, from, to) ==
    \/ k = "method_begin" /\ from = "S_RL_BEGIN"
    \/ k = "url_begin" /\ from = "S_RL_SP_BEFORE_URL" /\ to = "S_RL_URL"
    \/ k = "header_line_begin" /\ from = "S_HD_BEGIN" /\ to = "S_HD_NAME"
    \/ k = "header_colon_pos" /\ from = "S_HD_NAME" /\ to = "S_HD_COLON"
    \/ k = "header_val_begin" /\ from # "S_HD_VAL" /\ to = "S_HD_VAL"

(* The marks a step sets to the symbol that it reads.                      *)
Sets(k, from, to) ==
    \/ k = "method_begin" /\ from = "S_RL_BEGIN"
    \/ k = "url_begin" /\ from = "S_RL_SP_BEFORE_URL" /\ to = "S_RL_URL"
    \/ k = "header_line_begin" /\ from = "S_HD_BEGIN" /\ to = "S_HD_NAME"
    \/ k = "header_colon_pos" /\ from = "S_HD_NAME" /\ to = "S_HD_COLON"
    \/ k = "header_val_begin" /\ from # "S_HD_VAL" /\ to = "S_HD_VAL"
    \/ k = "header_val_end" /\ from = "S_HD_VAL" /\ to = "S_HD_CR_AFTER_VAL"

-----------------------------------------------------------------------------
(* parse_method and parse_url                                              *)

KnownMethod == SubSeq(text, mark["method_begin"], Len(text)) = <<"method">>

UrlText == SubSeq(text, mark["url_begin"], Len(text))

(* Mutant of Extension: the first dot of the path.                         *)
ExtensionFirst(path) ==
    LET dots == {i \in DOMAIN path : path[i] = "."} IN
    IF dots = {} THEN Unset ELSE SubSeq(path, Min(dots) + 1, Len(path))

(* The scan from the end of the path stops at its last dot or slash.       *)
Extension(path) ==
    LET stops == {i \in 2..Len(path) : path[i] \in {".", "/"}} IN
    IF stops = {} \/ path[Max(stops)] = "/"
    THEN Unset
    ELSE SubSeq(path, Max(stops) + 1, Len(path))

(* The path ends at a question mark, or at the blank behind the URL when   *)
(* that is a space. Behind a tab the loop ends with the string it was in   *)
(* not stored.                                                             *)
SplitUrl(u, blank) ==
    LET marks == {i \in DOMAIN u : u[i] = "?"}
        cut == IF marks = {} THEN Len(u) + 1 ELSE Min(marks)
        path == IF marks # {} \/ blank = " " THEN SubSeq(u, 1, cut - 1) ELSE Unset
    IN [abs_path |-> path,
        query_string |-> IF blank = " " THEN SubSeq(u, cut + 1, Len(u)) ELSE Unset,
        mime_extension |-> IF path = Unset THEN Unset ELSE Extension(path)]

-----------------------------------------------------------------------------
(* parse_request_line and parse_header_line                                *)

NextNumber(n, ch) == 10 * n + DigitValue[ch]

(* Mutant of Refused: a version number of two digits is let through.       *)
RefusedNot(ch, to) ==
    \/ state = "S_RL_METHOD" /\ to # state /\ ~KnownMethod
    \/ state = "S_RL_URL" /\ to # state /\ UrlText[1] # "/"

(* A symbol that the automaton would take and that is refused all the same.*)
Refused(ch, to) ==
    \/ state = "S_RL_METHOD" /\ to # state /\ ~KnownMethod
    \/ state = "S_RL_URL" /\ to # state /\ UrlText[1] # "/"
    \/ state = "S_RL_VERSION_MAJOR" /\ to = state /\ NextNumber(version.major, ch) > 1
    \/ state = "S_RL_VERSION_MINOR" /\ to = state /\ NextNumber(version.minor, ch) > 1

Versioned(ch, to) ==
    [major |-> IF to = "S_RL_VERSION_MAJOR" THEN NextNumber(version.major, ch)
               ELSE version.major,
     minor |-> IF to = "S_RL_VERSION_MINOR" THEN NextNumber(version.minor, ch)
               ELSE version.minor]

(* Mutant of Advance: a header line leaves isCRLF_LINE as it was.          *)
AdvanceKeepsFlag(ch, to) ==
    /\ Moves(state, ch, to)
    /\ ~Refused(ch, to)
    /\ to # Done
    /\ state' = to
    /\ mark' = [k \in Marks |-> IF Sets(k, state, to) THEN Len(text) + 1 ELSE mark[k]]
    /\ version' = Versioned(ch, to)
    /\ url' = IF state = "S_RL_URL" /\ to # state THEN SplitUrl(UrlText, ch) ELSE url
    /\ UNCHANGED <<isCRLF, verdict>>

(* One symbol that does not end the line.                                  *)
Advance(ch, to) ==
    /\ Moves(state, ch, to)
    /\ ~Refused(ch, to)
    /\ to # Done
    /\ state' = to
    /\ mark' = [k \in Marks |-> IF Sets(k, state, to) THEN Len(text) + 1 ELSE mark[k]]
    /\ version' = Versioned(ch, to)
    /\ url' = IF state = "S_RL_URL" /\ to # state THEN SplitUrl(UrlText, ch) ELSE url
    /\ isCRLF' = IF state = "S_HD_BEGIN" /\ to # state THEN ch = "\r" ELSE isCRLF
    /\ UNCHANGED verdict

Reject(ch) ==
    /\ \A to \in States : Moves(state, ch, to) => Refused(ch, to)
    /\ verdict' = "INVALID_REQUEST"
    /\ UNCHANGED <<state, mark, version, url, isCRLF>>

(* The line is complete; the next one is a header line.                    *)
Complete(ch) ==
    /\ Moves(state, ch, Done)
    /\ state' = "S_HD_BEGIN"
    /\ verdict' = IF fn = "header" /\ isCRLF THEN "CRLF_LINE" ELSE "OK"
    /\ UNCHANGED <<mark, version, url, isCRLF>>

(* One iteration of the loop.                                              *)
Read(ch) ==
    /\ verdict = "none"
    /\ UNCHANGED fn
    /\ text' = Append(text, ch)
    /\ \/ \E to \in States : Advance(ch, to)
       \/ Complete(ch)
       \/ Reject(ch)
    /\ IF state' = state /\ verdict' = "none"
       THEN IF state = "S_RL_URL"
            THEN Len(UrlText) < MaxUrl /\ UNCHANGED slack
            ELSE slack < MaxSlack[fn] /\ slack' = slack + 1
       ELSE UNCHANGED slack

(* The loop has come to the end of the buffer.                             *)
BufferEnd ==
    /\ verdict = "none"
    /\ verdict' = "AGAIN"
    /\ UNCHANGED <<fn, state, text, mark, version, url, isCRLF, slack>>

(* request_handle_headers goes on to the next line. The code keeps the     *)
(* marks of the line before, all of which lie in front of this one and are *)
(* in their order: 0 stands for any such place, as for a null pointer.     *)
NextHeader ==
    /\ verdict = "OK"
    /\ fn = "header"
    /\ text' = <<>>
    /\ mark' = [k \in Marks |-> 0]
    /\ verdict' = "none"
    /\ slack' = 0
    /\ UNCHANGED <<fn, state, version, url, isCRLF>>

Next == (\E ch \in Alphabet : Read(ch)) \/ BufferEnd \/ NextHeader

Spec == Init /\ [][Next]_vars

-----------------------------------------------------------------------------
(* What a line is, said without the automata.                              *)

AllIn(s, i, j, set) == \A k \in i..j : s[k] \in set

(* A version number: one digit; or zeros and a last digit that is 0 or 1.  *)
IsNumber(s, i, j) ==
    /\ i <= j
    /\ IF i = j THEN s[i] \in Digits
       ELSE AllIn(s, i, j - 1, {"0"}) /\ s[j] \in {"0", "1"}

IsVersion(s, v) ==
    LET n == Len(s) IN
    /\ v + 6 <= n
    /\ s[v] = "proto" /\ s[v + 1] = "/" /\ s[n - 1] = "\r" /\ s[n] = "\n"
    /\ \E dot \in v + 3..n - 3 :
        s[dot] = "." /\ IsNumber(s, v + 2, dot - 1) /\ IsNumber(s, dot + 1, n - 2)

(* The URL occupies i..j of a request line.                                *)
IsUrlAt(s, i, j) ==
    /\ i <= j
    /\ s[i] = "/"
    /\ \A k \in i..j : s[k] \notin Blanks \cup Breaks

(* Method, space, URL, blanks, version, CRLF.                              *)
IsRequestLine(s) ==
    \E v \in 5..Len(s) :
        /\ s[1] = "method" /\ s[2] = " "
        /\ IsVersion(s, v)
        /\ \E i \in 3..v - 2 :
            /\ AllIn(s, 3, i - 1, Blanks)
            /\ \E j \in i..v - 2 : IsUrlAt(s, i, j) /\ AllIn(s, j + 1, v - 1, Blanks)

(* Name, colon, blanks, value, CRLF: the name is at i..c-1 and the value   *)
(* at v..Len-2. A value holds no line break.                               *)
IsHeaderAt(s, i, c, v) ==
    LET n == Len(s) IN
    /\ i < c /\ c < v /\ v <= n - 2
    /\ s[c] = ":" /\ s[n - 1] = "\r" /\ s[n] = "\n"
    /\ AllIn(s, 1, i - 1, Blanks)
    /\ AllIn(s, i, c - 1, NameSymbols)
    /\ AllIn(s, c + 1, v - 1, Blanks)
    /\ s[v] \notin Blanks
    /\ \A k \in v..n - 2 : s[k] \notin Breaks

IsHeader(s) == \E i, c, v \in DOMAIN s : IsHeaderAt(s, i, c, v)

IsEmptyLine(s) ==
    LET n == Len(s) IN
    n >= 2 /\ AllIn(s, 1, n - 2, Blanks) /\ s[n - 1] = "\r" /\ s[n] = "\n"

(* The ends of a canonical line, of which one completes whatever can be.   *)
Suffixes(s) == {SubSeq(s, k, Len(s)) : k \in 1..Len(s) + 1}
RequestEnds ==
    Suffixes(<<"method", " ", "/", " ", "proto", "/", "1", ".", "1", "\r", "\n">>)
HeaderEnds == Suffixes(<<"word", ":", "word", "\r", "\n">>)

-----------------------------------------------------------------------------
(* Properties                                                              *)

TypeOK ==
    /\ fn \in {"request", "header"}
    /\ state \in (IF fn = "request" /\ verdict # "OK" THEN RequestStates ELSE HeaderStates)
    /\ text \in Seq(Symbols)
    /\ mark \in [Marks -> 0..Len(text)]
    /\ version \in [major : 0..9, minor : 0..9]
    /\ isCRLF \in BOOLEAN
    /\ verdict \in Verdicts
    /\ slack \in 0..MaxSlack[fn]

(* The asserts of HEADER_SET, which run at the end of every header line,   *)
(* the empty one included, on marks that may be an earlier line's; and     *)
(* the assert of parse_url: a failing one would stop the whole server.     *)
AssertsHold ==
    /\ verdict \in {"OK", "CRLF_LINE"} /\ fn = "header" =>
        /\ mark["header_line_begin"] <= mark["header_colon_pos"]
        /\ mark["header_val_begin"] <= mark["header_val_end"]
    /\ state = "S_RL_METHOD" => mark["method_begin"] \in 1..Len(text)
    /\ state = "S_RL_URL" => mark["url_begin"] \in 1..Len(text)

(* parse_request_line accepts a line when it is a request line, at its     *)
(* last symbol and not before; it refuses a line as soon as no end can     *)
(* make it one, and none that some end still would.                        *)
RequestLineExact ==
    fn = "request" =>
        /\ verdict = "OK" <=> IsRequestLine(text)
        /\ verdict = "INVALID_REQUEST" =>
            \A e \in RequestEnds : ~IsRequestLine(text \o e)

(* The URL of an accepted line is cut at its first question mark; the      *)
(* extension is what follows the last dot of the last component. Behind a  *)
(* tab the string that was being read is not stored: the query, or without *)
(* a question mark the whole path.                                         *)
UrlSplit ==
    fn = "request" /\ verdict = "OK" =>
        \E i, j \in DOMAIN text :
            LET u == SubSeq(text, i, j)
                query == {k \in DOMAIN u : u[k] = "?"}
                path == url.abs_path
                ext == url.mime_extension
            IN
            /\ IsUrlAt(text, i, j)
            /\ AllIn(text, 3, i - 1, Blanks)
            /\ text[j + 1] \in Blanks
            /\ text[j + 1] = "\t" =>
                url.query_string = Unset /\ (path = Unset <=> query = {})
            /\ text[j + 1] = " " => path # Unset /\ url.query_string # Unset
            /\ path # Unset => AllIn(path, 1, Len(path), Symbols \ {"?"})
            /\ path # Unset /\ url.query_string # Unset =>
                u = path \o (IF query = {} THEN <<>> ELSE <<"?">>) \o url.query_string
            /\ path # Unset => path = SubSeq(u, 1, Len(path))
            /\ ext # Unset =>
                /\ AllIn(ext, 1, Len(ext), Symbols \ {".", "/"})
                /\ path = SubSeq(path, 1, Len(path) - Len(ext) - 1) \o <<".">> \o ext
            /\ path # Unset /\ ext = Unset =>
                \E k \in DOMAIN path :
                    path[k] = "/" /\ AllIn(path, k + 1, Len(path), Symbols \ {".", "/"})

(* The name and the value that parse_header_line hands over are the ones   *)
(* of the line it has read, whatever the lines before were; and it ends    *)
(* the headers at an empty line only.                                      *)
HeaderSound ==
    fn = "header" =>
        /\ verdict = "OK" =>
            /\ mark["header_val_end"] = Len(text) - 1
            /\ IsHeaderAt(text, mark["header_line_begin"], mark["header_colon_pos"],
                          mark["header_val_begin"])
        /\ verdict = "CRLF_LINE" => IsEmptyLine(text)

(* HeaderSound; and parse_header_line misses no header line and no empty   *)
(* line, and refuses a line only when no end can make it one. A value that *)
(* holds a bare line feed is never accepted nor refused.                   *)
HeaderExact ==
    /\ HeaderSound
    /\ fn = "header" =>
        /\ IsHeader(text) => verdict = "OK"
        /\ IsEmptyLine(text) => verdict = "CRLF_LINE"
        /\ verdict = "INVALID_REQUEST" =>
            \A e \in HeaderEnds : ~IsHeader(text \o e) /\ ~IsEmptyLine(text \o e)

=============================================================================
