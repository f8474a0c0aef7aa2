----------------------------- MODULE HttpRequest -----------------------------
(***************************************************************************)
(* The calls of http_request on one connection, line by line               *)
(* (web/http_request.c), and the head it answers with                      *)
(* (web/http_response.c). Every call reads the same request_t, of which    *)
(* http_request_handle_reset clears only a part.                           *)
(*                                                                         *)
(* The read buffer is chosen as the handlers come to it: a request line as *)
(* parse_request_line judges it, header lines, what ends them, and the     *)
(* bytes behind. A line and a unit of body count one in its length.        *)
(* HttpConnection has the socket and the event loop around these calls.    *)
(***************************************************************************)
EXTENDS Dict

CONSTANTS
    Files,          \* what a URL may name: records of kind, extension and size
    Versions,       \* the versions of request lines, <<major, minor>>
    HeaderLines,    \* header lines: records of name and value
    Lower,          \* ssstr_tolower on the names of HeaderLines
    MimeList,       \* Mime_List: records of key and content type
    IndexSize,      \* size of an index.html
    MaxHeaders,     \* bound: header lines of a request
    MaxBody,        \* bound: units behind the headers
    MaxLeaks        \* bound: descriptors lost

(* A URL may name nothing, a file, a directory with an index.html or a     *)
(* bare one; or, when a tab ends it, its path is not even stored.          *)
Kinds == {"none", "file", "index", "bare", "nopath"}
Html == "text/html"

ASSUME RequestAssumption ==
    /\ Files \subseteq [kind : Kinds, ext : Keys, size : Nat]
    /\ Versions \subseteq Nat \X Nat
    /\ MimeList \in Seq([k : Keys, v : STRING])
    /\ \A i \in DOMAIN MimeList : MimeList[i].v # Null
    /\ Lower \in [{h.name : h \in HeaderLines} -> Keys]
    /\ {"html", "content-length", "connection", "host", "transfer-encoding"} \subseteq Keys
    /\ \A h \in HeaderLines : Lower[h.name] = "content-length" => h.value \in Int
    /\ Null \notin {"content-length", "connection", "base", "transfer-encoding"}
    /\ IndexSize \in Nat
    /\ MaxHeaders \in Nat /\ MaxBody \in Nat /\ MaxLeaks \in Nat

VARIABLES
    pc,         \* the request or response handler to run next, or "down"
    line,       \* the request line of this call: its verdict, version and file
    headers,    \* the header lines of this call
    ending,     \* what came behind them: "crlf", "cut" or "bad"; "" before
    body,       \* units of the buffer behind the headers
    keep,       \* par.keep_alive
    length,     \* par.content_length
    ext,        \* par.url.mime_extension
    status,     \* what the request handlers returned, 0 for OK
    fd,         \* resource_fd is open
    size,       \* resource_size
    head,       \* the head appended to the write buffer in this call
    sent,       \* units of the file sent in this call
    lost,       \* descriptors that nothing refers to any more
    overdue,    \* the connection is older than connect_time_limit
    pending,    \* the write buffer is not empty
    link        \* "open", "closing" or "closed", when conn and r are freed

requestVars == <<line, headers, ending, body>>
parVars == <<keep, length, ext, status>>
fileVars == <<fd, size>>
linkVars == <<pending, link>>
vars == <<pc, requestVars, parVars, fileVars, head, sent, lost, overdue, linkVars>>

Stages == {"idle", "line", "headers", "body", "respond", "file", "error", "finish",
           "down"}
Verdicts == {"OK", "AGAIN", "INVALID_REQUEST"}
AGAIN == 1
NoFile == [kind |-> "none", ext |-> "html", size |-> 0]
NoLine == [verdict |-> "AGAIN", version |-> <<0, 0>>, file |-> NoFile]
NoHead == [status |-> 0, type |-> Html, length |-> 0, close |-> FALSE]
Lines == {[verdict |-> "OK", version |-> v, file |-> f] : v \in Versions, f \in Files}
         \cup {[NoLine EXCEPT !.verdict = v] : v \in {"AGAIN", "INVALID_REQUEST"}}

(* header_handler_dict_init: the handler of each name of hf_list, of whose *)
(* fourteen plain names host stands for all.                               *)
HeaderDict ==
    LET d1 == Put(DictInit, "content-length", "content-length")
        d2 == Put(d1, "connection", "connection")
        d3 == Put(d2, "host", "base")
    IN Put(d3, "transfer-encoding", "transfer-encoding")

MimeDict == PutAll(MimeList)

(* http_request_handle_init on a new connection.                           *)
Init ==
    /\ pc = "idle"
    /\ line = NoLine /\ headers = <<>> /\ ending = "" /\ body = 0
    /\ keep = FALSE /\ length = -1 /\ ext = "html" /\ status = 0
    /\ fd = FALSE /\ size = 0
    /\ head = NoHead /\ sent = 0 /\ lost = 0
    /\ overdue = FALSE /\ pending = FALSE /\ link = "open"

-----------------------------------------------------------------------------
(* The call and its reset.                                                 *)

(* Mutant of Reset: the length of the last body is still there.            *)
ResetKeepsLength ==
    /\ keep' = FALSE /\ ext' = "html" /\ status' = 0 /\ UNCHANGED length
    /\ fd' = FALSE /\ UNCHANGED size

(* http_request_handle_reset: the parse archive and resource_fd start      *)
(* anew, resource_size does not. An extension that is not set is looked up *)
(* in vain, which gives the same type as html.                             *)
Reset ==
    /\ keep' = FALSE /\ length' = -1 /\ ext' = "html" /\ status' = 0
    /\ fd' = FALSE /\ UNCHANGED size

Receive ==
    /\ pc = "idle" /\ link # "closed"
    /\ lost < MaxLeaks
    /\ pc' = "line"
    /\ Reset
    /\ line' = NoLine /\ headers' = <<>> /\ ending' = "" /\ body' = 0
    /\ head' = NoHead /\ sent' = 0
    /\ UNCHANGED <<lost, overdue, linkVars>>

Fail(code) == pc' = "error" /\ status' = code

(* Mutant of OpenResource: the size of a directory's index is not taken.   *)
OpenResourceKeepsSize(f) ==
    /\ fd' = TRUE
    /\ size' = IF f.kind = "file" THEN f.size ELSE size
    /\ ext' = IF f.kind = "index" THEN "html" ELSE f.ext

(* A directory stands for its index.html.                                  *)
OpenResource(f) ==
    /\ fd' = TRUE
    /\ size' = IF f.kind = "index" THEN IndexSize ELSE f.size
    /\ ext' = IF f.kind = "index" THEN "html" ELSE f.ext

(* request_handle_request_line. A path that is not stored is a null        *)
(* pointer, which the search for its end reads: the process dies.          *)
RequestLine(l) ==
    /\ pc = "line"
    /\ line' = l
    /\ \/ l.verdict = "AGAIN" /\ Fail(AGAIN) /\ UNCHANGED <<keep, ext, fileVars>>
       \/ l.verdict = "INVALID_REQUEST" /\ Fail(400) /\ UNCHANGED <<keep, ext, fileVars>>
       \/ /\ l.verdict = "OK"
          /\ l.version[1] > 1 \/ l.version[2] > 1
          /\ Fail(500)
          /\ ext' = l.file.ext
          /\ UNCHANGED <<keep, fileVars>>
       \/ /\ l.verdict = "OK"
          /\ l.version[1] <= 1 /\ l.version[2] <= 1
          /\ keep' = (l.version = <<1, 1>>)
          /\ \/ /\ l.file.kind = "nopath"
                /\ pc' = "down"
                /\ ext' = l.file.ext
                /\ UNCHANGED <<status, fileVars>>
             \/ /\ l.file.kind \in {"none", "bare"}
                /\ Fail(404)
                /\ ext' = l.file.ext
                /\ UNCHANGED fileVars
             \/ /\ l.file.kind \in {"file", "index"}
                /\ OpenResource(l.file)
                /\ pc' = "headers"
                /\ UNCHANGED status
    /\ UNCHANGED <<headers, ending, body, length, head, sent, lost, overdue, linkVars>>

Handler(h) == Get(HeaderDict, Lower[h.name])

(* Mutant of Connection: any value but close keeps the connection.         *)
ConnectionLax(h) == keep' = (h.value # "close")

(* request_handle_hd_connection. ssstr_caseequal compares with the start   *)
(* of a value, so that "close" stands for all that begin with it.          *)
Connection(h) ==
    keep' = IF h.value = "keep-alive" THEN TRUE ELSE IF h.value = "close" THEN FALSE ELSE keep

(* Mutants of HeaderLine: a length is taken unchecked; or a refusal makes  *)
(* the call start over.                                                    *)
HeaderLineUnchecked(h) ==
    /\ pc = "headers"
    /\ Len(headers) < MaxHeaders
    /\ headers' = Append(headers, h)
    /\ \/ Handler(h) = "connection" /\ Connection(h) /\ UNCHANGED length
       \/ Handler(h) = "content-length" /\ length' = h.value /\ UNCHANGED keep
       \/ /\ Handler(h) \in {"base", "transfer-encoding", Null}
          /\ UNCHANGED <<keep, length>>
    /\ UNCHANGED <<pc, line, ending, body, ext, status, fileVars, head, sent, lost,
                   overdue, linkVars>>

HeaderLineRestarts(h) ==
    /\ pc = "headers"
    /\ Len(headers) < MaxHeaders
    /\ IF Handler(h) = "transfer-encoding"
       THEN pc' = "line" /\ headers' = <<>>
       ELSE pc' = pc /\ headers' = Append(headers, h)
    /\ UNCHANGED <<line, ending, body, parVars, fileVars, head, sent, lost,
                   overdue, linkVars>>

(* request_handle_headers on one header line. When a handler refuses a     *)
(* value, request_handle_headers returns OK and http_request calls it      *)
(* again: it goes on to the next line, and the refusal is forgotten. That  *)
(* is all that the transfer-encoding handler, which always refuses, does.  *)
HeaderLine(h) ==
    /\ pc = "headers"
    /\ Len(headers) < MaxHeaders
    /\ headers' = Append(headers, h)
    /\ \/ Handler(h) = "connection" /\ Connection(h) /\ UNCHANGED length
       \/ /\ Handler(h) = "content-length"
          /\ length' = IF h.value > 0 THEN h.value ELSE length
          /\ UNCHANGED keep
       \/ /\ Handler(h) \in {"base", "transfer-encoding", Null}
          /\ UNCHANGED <<keep, length>>
    /\ UNCHANGED <<pc, line, ending, body, ext, status, fileVars, head, sent, lost,
                   overdue, linkVars>>

(* request_handle_headers at the empty line, at the end of the buffer or   *)
(* at a line that is none.                                                 *)
HeadersEnd(e) ==
    /\ pc = "headers"
    /\ ending' = e
    /\ \/ e = "crlf" /\ pc' = "body" /\ UNCHANGED status
       \/ e = "cut" /\ Fail(AGAIN)
       \/ e = "bad" /\ Fail(400)
    /\ UNCHANGED <<line, headers, body, keep, length, ext, fileVars, head, sent, lost,
                   overdue, linkVars>>

(* What the buffer holds: request line, headers, empty line and the rest.  *)
Received(n) == Len(headers) + 2 + n

(* request_handle_body with parse_header_body_identity, for which all of   *)
(* the buffer counts as body; transfer_encoding is never set.              *)
Body(n) ==
    /\ pc = "body"
    /\ body' = n
    /\ \/ /\ length <= 0 \/ Received(n) >= length
          /\ pc' = "respond"
          /\ UNCHANGED status
       \/ length > 0 /\ Received(n) < length /\ Fail(AGAIN)
    /\ UNCHANGED <<line, headers, ending, keep, length, ext, fileVars, head, sent, lost,
                   overdue, linkVars>>

-----------------------------------------------------------------------------
(* The answer.                                                             *)

(* response_append_connection: an old connection is told to close.         *)
SaysClose(k) == ~k \/ overdue

ContentType(e) ==
    IF Get(MimeDict, e) = Null THEN Html ELSE Get(MimeDict, e)

(* response_handle_send_line_and_header. The file follows when the write   *)
(* buffer has gone out whole.                                              *)
Respond ==
    /\ pc = "respond"
    /\ head' = [status |-> 200, type |-> ContentType(ext), length |-> size,
                close |-> SaysClose(keep)]
    /\ \/ pc' = "file" /\ pending' = FALSE
       \/ pc' = "finish" /\ pending' = TRUE
    /\ UNCHANGED <<requestVars, parVars, fileVars, sent, lost, overdue, link>>

(* response_handle_send_file: one sendfile, however much of it is taken.   *)
SendFile ==
    /\ pc = "file"
    /\ sent' \in 0..size
    /\ pc' = "finish"
    /\ UNCHANGED <<requestVars, parVars, fileVars, head, lost, overdue, linkVars>>

(* Mutant of AssembleError: keep_alive is dropped behind its header.       *)
AssembleErrorLate ==
    /\ pc = "error"
    /\ keep' = FALSE
    /\ head' = [status |-> status, type |-> Html, length |-> size, close |-> SaysClose(keep)]
    /\ pending' = TRUE
    /\ \E page \in {"missing", "empty", "full"} :
          lost' = IF page = "empty" THEN lost + 1 ELSE lost
    /\ pc' = "finish"
    /\ UNCHANGED <<requestVars, length, ext, status, fileVars, sent, overdue, link>>

(* response_assemble_err_buffer. The head has resource_size for a length,  *)
(* whatever file or earlier call it is from. An error.html that is empty   *)
(* is opened and not closed.                                               *)
AssembleError ==
    /\ pc = "error"
    /\ keep' = FALSE
    /\ head' = [status |-> status, type |-> Html, length |-> size,
                close |-> SaysClose(FALSE)]
    /\ pending' = TRUE
    /\ \E page \in {"missing", "empty", "full"} :
          lost' = IF page = "empty" THEN lost + 1 ELSE lost
    /\ pc' = "finish"
    /\ UNCHANGED <<requestVars, length, ext, status, fileVars, sent, overdue, link>>

(* Mutant of Unint: the file is closed behind a short connection only.     *)
UnintShort ==
    fd' = (fd /\ keep)

(* http_request_handle_unint reads a request_t that the close may just     *)
(* have freed: the descriptor may then be missed.                          *)
Unint ==
    \/ fd' = FALSE
    \/ link' = "closed" /\ UNCHANGED fd

(* connection_disconnect                                                   *)
Disconnect == link' = IF pending THEN "closing" ELSE "closed"

Finish ==
    /\ pc = "finish"
    /\ IF keep THEN UNCHANGED link ELSE Disconnect
    /\ Unint
    /\ pc' = "idle"
    /\ UNCHANGED <<requestVars, parVars, size, head, sent, lost, overdue, pending>>

-----------------------------------------------------------------------------
(* What happens on the connection between two calls.                       *)

(* event_writable_callback has sent the rest of the write buffer.          *)
Flush ==
    /\ pc = "idle" /\ link # "closed"
    /\ pending
    /\ pending' = FALSE
    /\ link' = IF link = "closing" THEN "closed" ELSE link
    /\ UNCHANGED <<pc, requestVars, parVars, fileVars, head, sent, lost, overdue>>

(* connection_passive_close                                                *)
PassiveClose ==
    /\ pc = "idle" /\ link # "closed"
    /\ Disconnect
    /\ UNCHANGED <<pc, requestVars, parVars, fileVars, head, sent, lost, overdue, pending>>

TimePasses ==
    /\ ~overdue
    /\ overdue' = TRUE
    /\ UNCHANGED <<pc, requestVars, parVars, fileVars, head, sent, lost, linkVars>>

Call ==
    \/ \E l \in Lines : RequestLine(l)
    \/ \E h \in HeaderLines : HeaderLine(h)
    \/ \E e \in {"crlf", "cut", "bad"} : HeadersEnd(e)
    \/ \E n \in 0..MaxBody : Body(n)
    \/ Respond \/ SendFile \/ AssembleError \/ Finish

Next == Receive \/ Call \/ Flush \/ PassiveClose \/ TimePasses

Spec == Init /\ [][Next]_vars

(* A handler that has begun runs to its end: nothing in it waits.          *)
FairSpec == Spec /\ WF_vars(Call)

-----------------------------------------------------------------------------
(* Properties                                                              *)

TypeOK ==
    /\ pc \in Stages
    /\ line \in Lines \cup {NoLine}
    /\ headers \in Seq(HeaderLines)
    /\ ending \in {"", "crlf", "cut", "bad"}
    /\ body \in 0..MaxBody
    /\ keep \in BOOLEAN
    /\ length = -1 \/ length \in Nat \ {0}
    /\ ext \in Keys
    /\ status \in {0, AGAIN, 400, 404, 500}
    /\ fd \in BOOLEAN
    /\ size \in Nat
    /\ head.close \in BOOLEAN
    /\ sent \in Nat
    /\ lost \in 0..MaxLeaks
    /\ overdue \in BOOLEAN
    /\ pending \in BOOLEAN
    /\ link \in {"open", "closing", "closed"}

(* The header lines of this call that have a name and one of some values.  *)
Lined(name, values) ==
    {i \in DOMAIN headers : Lower[headers[i].name] = name /\ headers[i].value \in values}

(* The body length that the request declares: its last positive one.       *)
Lengths == Lined("content-length", Nat \ {0})
Declared == IF Lengths = {} THEN 0 ELSE headers[Max(Lengths)].value

(* The client's wish: its last connection header, or else its version.     *)
Wishes == Lined("connection", {"keep-alive", "close"})
Wanted ==
    IF Wishes = {} THEN line.version = <<1, 1>>
    ELSE headers[Max(Wishes)].value = "keep-alive"

(* Values that their handlers refuse. What an answer to them should be,    *)
(* the code leaves open: it loses the 400 or 501 that they return.         *)
Refused(h) ==
    \/ Lower[h.name] = "transfer-encoding"
    \/ Lower[h.name] = "content-length" /\ h.value <= 0
    \/ Lower[h.name] = "connection" /\ h.value \notin {"keep-alive", "close"}

(* How far the request line is good: it is one, of a version that is       *)
(* served, with the name of a file that is there.                          *)
Known == line.verdict = "OK"
Current == Known /\ line.version[1] <= 1 /\ line.version[2] <= 1
Named == Current /\ line.file.kind \in {"file", "index"}

(* A request in order: all of it is there, and no header is refused.       *)
Whole ==
    /\ Named /\ ending = "crlf" /\ body >= Declared
    /\ \A i \in DOMAIN headers : ~Refused(headers[i])

(* The answer's status is that of its own request, whatever the calls      *)
(* before it left in the request_t: a request in order is answered with    *)
(* 200, and 200 is for no request without its whole head or a file; an     *)
(* invalid line gives 400, a later version 500, a missing file 404         *)
(* (http_request.c:106-121, 174-214, 239-246). Nothing but "no 200" is     *)
(* said of requests that have not come whole, which the code answers too,  *)
(* and nothing of a body that is missing: see BodyComplete.                *)
StatusRight ==
    head # NoHead =>
        /\ Whole => head.status = 200
        /\ head.status = 200 => Named /\ ending = "crlf"
        /\ line.verdict = "INVALID_REQUEST" => head.status = 400
        /\ Named /\ ending = "bad" => head.status = 400
        /\ Known /\ ~Current => head.status = 500
        /\ Current /\ line.file.kind \in {"none", "bare"} => head.status = 404

(* A connection is kept exactly when the request was answered in order and *)
(* its client wants it kept; the head says so, except that an old          *)
(* connection is told to close, and no connection is closed that was told  *)
(* it stays (http_request.c:123, 188, 309-321, 428).                       *)
KeepRight ==
    pc = "finish" =>
        /\ keep <=> head.status = 200 /\ Wanted
        /\ ~keep => head.close
        /\ head.close => ~keep \/ overdue

(* The answer to a request for a file announces the size and the type of   *)
(* that file, or of the index.html that stands for a directory, and no     *)
(* more than its size is sent; also when an earlier call was about another *)
(* file, and whatever keys share a bucket of the table of types.           *)
FileRight ==
    head.status = 200 =>
        LET f == line.file
            suffix == IF f.kind = "index" THEN "html" ELSE f.ext
            types == {e.v : e \in {x \in ToSet(MimeList) : x.k = suffix}}
        IN
        /\ head.length = IF f.kind = "index" THEN IndexSize ELSE f.size
        /\ types = {} => head.type = Html
        /\ types # {} => head.type \in types
        /\ sent <= head.length

(* Between two calls the file of the last one is closed, on every path     *)
(* through the handlers that opened it: the reset of the next call forgets *)
(* its descriptor. Only a close that has freed the request may miss it.    *)
FilesClosed == pc = "idle" /\ fd => link = "closed"

(* All of the body that a request declares has come before the request is  *)
(* answered in order: "full data recv" (http_parser.c:480).                *)
BodyComplete == head.status = 200 => body >= Declared

(* Every call comes to its end, whatever headers it reads and whichever of *)
(* them are refused; the process dies in a call only when its URL had no   *)
(* path (http_request.c:106-108, 191-192, 259-261).                        *)
CallEnds ==
    pc = "line" ~> \/ pc = "idle"
                   \/ pc = "down" /\ line.file.kind = "nopath"

(* The calls keep what Persistence promises to a client.                   *)
Persistent == INSTANCE Persistence WITH
    phase <- IF pc = "idle" THEN "idle" ELSE IF head = NoHead THEN "asked" ELSE "told",
    close <- head.close

Persists == Persistent!PSpec
=============================================================================
