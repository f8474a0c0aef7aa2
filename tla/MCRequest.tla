------------------------------ MODULE MCRequest ------------------------------
EXTENDS HttpRequest

File(kind, suffix, bytes) == [kind |-> kind, ext |-> suffix, size |-> bytes]
MCFiles ==
    {File("none", "html", 0), File("bare", "other", 0), File("index", "other", 0),
     File("file", "pdf", 1), File("file", "html", 2), File("nopath", "html", 0)}
MCVersions == {<<1, 1>>, <<1, 0>>, <<1, 2>>}

Header(name, value) == [name |-> name, value |-> value]
MCHeaderLines ==
    {Header("Connection", "keep-alive"), Header("connection", "close"),
     Header("connection", "other"), Header("content-length", 0),
     Header("content-length", 4), Header("content-length", 6),
     Header("Transfer-Encoding", "chunked"), Header("x-other", "other")}
MCLower ==
    [name \in {h.name : h \in MCHeaderLines} |->
        CASE name = "Connection" -> "connection"
          [] name = "Transfer-Encoding" -> "transfer-encoding"
          [] OTHER -> name]

(* All the keys that are looked up with success share a bucket.            *)
MCHash ==
    [k \in {"connection", "content-length", "transfer-encoding", "host", "x-other",
            "html", "pdf", "other"} |->
        IF k \in {"host", "x-other"} THEN 1 ELSE 0]
MCMimeList ==
    <<[k |-> "pdf", v |-> "application/pdf"], [k |-> "html", v |-> "text/html"]>>
=============================================================================
