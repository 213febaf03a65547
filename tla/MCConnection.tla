---------------------------- MODULE MCConnection ----------------------------
(* Requests for the model-checking runs of Connection. *)
EXTENDS Connection

R(line, conn, target) ==
    [line |-> line, method |-> "known", conn |-> conn, host |-> FALSE,
     target |-> target, size |-> 3, mime |-> TRUE, access |-> TRUE]

\* What one peer may ask when it asks once: every way the code can answer.
AllRequests ==
    {R("1.0", "none", "file"), R("1.1", "none", "file"), R("1.1", "keep", "file"),
     R("1.1", "none", "dir"), R("1.1", "none", "special"), R("1.0", "none", "outside"),
     R("1.0", "none", "missing"), R("1.1", "keep", "missing"), R("1.0", "none", "cgiroot"),
     R("1.1", "none", "script"),
     R("other", "none", "file"), R("nohttp", "none", "file"), R("short", "none", "file"),
     [R("1.1", "none", "file") EXCEPT !.host = TRUE],
     [R("1.0", "none", "file") EXCEPT !.method = "unknown"],
     [R("1.0", "none", "file") EXCEPT !.mime = FALSE],
     [R("1.0", "none", "file") EXCEPT !.access = FALSE],
     [R("1.1", "unmatched", "file") EXCEPT !.size = 0]}

\* Requests that follow each other on one connection: every way it can go on or end, and a
\* file longer than a listing, so that a repeated Content-Length can be too small or too large.
KeptRequests ==
    {[R("1.1", "keep", "file") EXCEPT !.size = 4], R("1.1", "keep", "dir"),
     R("1.1", "close", "missing"), R("short", "none", "file"), R("1.1", "none", "file"),
     R("1.1", "keep", "special"),
     [R("1.1", "keep", "file") EXCEPT !.access = FALSE],
     [R("1.1", "unmatched", "file") EXCEPT !.size = 0]}
=============================================================================
