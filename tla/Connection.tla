----------------------------- MODULE Connection -----------------------------
(***************************************************************************)
(* One accepted connection: the peer, the client_t, and the service thread *)
(* that reads requests, parses and dispatches them, pumps the file behind  *)
(* the response into the socket and ends or recycles the connection        *)
(* (main.c 274-719, client.c, transfer.c, buffer.c, headers.c).            *)
(*                                                                         *)
(* A request is a record that says what the code can tell apart: the shape *)
(* of its first line, whether its method is in METHOD_HANDLERS, its        *)
(* Connection and Host headers, and what its decoded path resolves to.     *)
(* Lengths are counted in units of which a network block holds NBS.        *)
(*                                                                         *)
(* A call that ends the process (a wild pointer, SIGPIPE) sets `crash`,    *)
(* and nothing of the server runs after it.                                *)
(***************************************************************************)
EXTENDS Integers, Sequences, FiniteSets

CONSTANTS
    Requests,     \* the requests a peer may send, see Request
    MaxRequests,  \* bound: how many it sends on the connection
    NBS,          \* NETWORK_BLOCK_SIZE, in units
    ListLen,      \* length of a directory listing, in units
    Manners,      \* what the peer may do, a subset of PeerManners
    Behind        \* what may lie in memory behind an input buffer, a subset of Leftovers

\* What a path is, below the document root ("script": a regular file below cgi_bin_root,
\* which lies there too; "cgiroot": a directory that cgi_bin_root lies in, or is), or not.
Targets == {"file", "script", "dir", "cgiroot", "special", "outside", "missing"}

Request ==
    [line   : {"1.0", "1.1", "other", "nohttp", "short"},
     method : {"known", "unknown"},
     conn   : {"none", "keep", "close", "unmatched"},
     host   : BOOLEAN,
     target : Targets,
     size   : Nat,          \* of the file
     mime   : BOOLEAN,      \* its extension is in MIME_LIST
     access : BOOLEAN]      \* it can be opened for reading and writing

PeerManners ==
    {"eager",    \* sends a request before the last response has arrived
     "persist",  \* sends on a connection it was told would close
     "split",    \* a request arrives in two pieces, the first line in the first
     "fin",      \* shuts down its sending side
     "reset"}    \* goes away: the connection is reset

\* The buffers are not terminated, and strstr and strsep read on: "nul" ends the string,
\* "blank" is a blank line, "keep" a Connection header of an earlier request.
Leftovers == {"nul", "blank", "keep"}

ASSUME ConnectionAssumption ==
    /\ Requests \subseteq Request
    /\ MaxRequests \in Nat /\ NBS \in Nat \ {0} /\ ListLen \in Nat
    /\ Manners \subseteq PeerManners
    /\ Behind \subseteq Leftovers /\ "nul" \in Behind

VARIABLES
    client,   \* the client_t and what the server wrote to its socket
    sent,     \* the requests the peer has sent
    half,     \* the second piece of the last one is still to come
    net,      \* pieces that wait in the socket's receive queue
    fin,      \* the peer has shut down its side
    reset,    \* the connection was reset by the peer
    pc,       \* where the service thread is in service_clients
    revents   \* what poll reported

peerVars == <<sent, half, net, fin, reset>>
vars     == <<client, sent, half, net, fin, reset, pc, revents>>

\* create_new_client: calloc leaves every other field zero.
NewClient ==
    [active |-> TRUE, open |-> TRUE, flags |-> {},
     in |-> <<>>,           \* inputbuffer: pieces of requests
     cut |-> FALSE,         \*   strsep has put a NUL behind its first line
     out |-> <<>>,          \* outputbuffer
     conn |-> "none",       \* inbound_headers: the first Connection header
     host |-> FALSE,        \*   and whether there is a Host header
     outh |-> <<>>,         \* outbound_headers: Content-Length and Connection
     method |-> FALSE,      \* method is set
     req |-> 0,             \* the request being answered; cleanlocalpath is its target
     cgi |-> FALSE, result |-> 0,
     pump |-> 0,            \* pump_fd, by the request whose file it is
     pos |-> 0,             \*   and its offset
     progress |-> FALSE, completed |-> FALSE,
     short |-> FALSE,       \* history: the last block went out only in part
     wire |-> <<>>,         \* history: what was written to the socket
     crash |-> FALSE]

Init ==
    /\ client = NewClient
    /\ sent = <<>> /\ half = FALSE /\ net = <<>>
    /\ fin = FALSE /\ reset = FALSE
    /\ pc = "build" /\ revents = {}

Least(a, b) == IF a < b THEN a ELSE b

\* flags ^= flag
Toggle(flags, flag) == IF flag \in flags THEN flags \ {flag} ELSE flags \cup {flag}

-----------------------------------------------------------------------------
(* What the peer sees, and does. *)

IsHead(x) == x[1] = "head"

\* Where the heads are on the wire, and the last of them (0: there is none).
Heads(wire) == {i \in 1..Len(wire) : IsHead(wire[i])}

LastHead(wire) ==
    IF Heads(wire) = {} THEN 0 ELSE CHOOSE i \in Heads(wire) : \A j \in Heads(wire) : j <= i

\* The first header of a kind that a response carries, the one its reader goes by.
FirstHeader(outh, kind, default) ==
    LET at == {i \in 1..Len(outh) : outh[i][1] = kind}
    IN  IF at = {} THEN default ELSE outh[CHOOSE i \in at : \A j \in at : i <= j][2]

Announced(head) == FirstHeader(head[4], "length", 0)

\* Every request has its response, and the last one as many units as it announced: all that
\* a peer can know.  The server may still have the file open.
Answered ==
    \/ sent = <<>>
    \/ LET w == client.wire
           h == LastHead(w)
       IN  /\ h # 0 /\ Cardinality(Heads(w)) = Len(sent) /\ ~half
           /\ Len(w) - h >= Announced(w[h])

ToldToClose ==
    LET h == LastHead(client.wire)
    IN  h # 0 /\ FirstHeader(client.wire[h][4], "connection", "Close") = "Close"

PeerSend(r, whole) ==
    /\ ~fin /\ ~reset /\ ~half /\ Len(sent) < MaxRequests
    /\ "eager" \in Manners \/ Answered
    /\ "persist" \in Manners \/ ~ToldToClose
    /\ whole \/ "split" \in Manners
    /\ sent' = Append(sent, r)
    /\ half' = ~whole
    /\ net' = Append(net, [req |-> Len(sent) + 1, part |-> IF whole THEN "whole" ELSE "begin"])
    /\ UNCHANGED <<client, fin, reset, pc, revents>>

PeerSendRest ==
    /\ half /\ ~fin /\ ~reset
    /\ half' = FALSE
    /\ net' = Append(net, [req |-> Len(sent), part |-> "rest"])
    /\ UNCHANGED <<client, sent, fin, reset, pc, revents>>

PeerFin ==
    /\ "fin" \in Manners /\ ~fin /\ ~reset
    /\ fin' = TRUE
    /\ UNCHANGED <<client, sent, half, net, reset, pc, revents>>

PeerReset ==
    /\ "reset" \in Manners /\ ~reset
    /\ reset' = TRUE
    /\ UNCHANGED <<client, sent, half, net, fin, pc, revents>>

Peer ==
    \/ \E r \in Requests, whole \in BOOLEAN : PeerSend(r, whole)
    \/ PeerSendRest \/ PeerFin \/ PeerReset

-----------------------------------------------------------------------------
(* The functions that work on a client_t. *)

\* clear_client: what it does not name (result_code, method, is_cgi_request, the transfer
\* flags) outlives the request.
ClearClient(c) ==
    [c EXCEPT !.flags = {}, !.in = <<>>, !.cut = FALSE, !.out = <<>>, !.pump = 0,
              !.conn = "none", !.host = FALSE, !.outh = <<>>]

\* The transport's close and active = 0.
EndConnection(c) == [c EXCEPT !.active = FALSE, !.open = FALSE]

\* Variant: a closed pump_fd is -1.
PlainTransferCloseMinusOne(c) == [c EXCEPT !.pump = -1, !.progress = FALSE, !.completed = FALSE]

PlainTransferClose(c) == [c EXCEPT !.pump = 0, !.progress = FALSE, !.completed = FALSE]

\* Variant: one unit too few is removed.
LtrimBufferShort(buffer, n) ==
    IF n \in 1..Len(buffer) THEN SubSeq(buffer, n, Len(buffer)) ELSE <<>>

\* ltrim_buffer; a length of -1 is a huge size_t and clears the buffer.
LtrimBuffer(buffer, n) ==
    IF n \in 0..Len(buffer) THEN SubSeq(buffer, n + 1, Len(buffer)) ELSE <<>>

\* Variant: the search does not stop at the NUL that strsep wrote.
RequestCompletePastNul(c, behind) ==
    /\ c.in # <<>>
    /\ (\E i \in 1..Len(c.in) : c.in[i].part \in {"whole", "rest"}) \/ behind = "blank"

\* is_client_request_complete: a blank line is in the buffer or behind it.
RequestComplete(c, behind) ==
    /\ c.in # <<>> /\ ~c.cut
    /\ \/ \E i \in 1..Len(c.in) : c.in[i].part \in {"whole", "rest"}
       \/ behind = "blank"

\* parse_request's header loop reads every line there is, those of a second request in the
\* buffer included; get_header_value returns the first header of a name, an old one first.
Connections(c, behind) ==
    <<c.conn>>
    \o [i \in 1..Len(c.in) |-> IF c.in[i].part = "begin" THEN "none" ELSE sent[c.in[i].req].conn]
    \o <<IF behind = "keep" THEN "keep" ELSE "none">>

FirstConnection(c, behind) ==
    LET all   == Connections(c, behind)
        given == {i \in 1..Len(all) : all[i] # "none"}
    IN  IF given = {} THEN "none" ELSE all[CHOOSE i \in given : \A j \in given : i <= j]

HostGiven(c) ==
    c.host \/ \E i \in 1..Len(c.in) : c.in[i].part # "begin" /\ sent[c.in[i].req].host

\* The HTTP version and keep-alive flags after the first line, and after the headers.
VersionFlags(flags, line) ==
    LET f == flags \cup {"close", "1.0"}
    IN  CASE line = "1.0" -> Toggle(f, "1.1") \cup {"1.0", "close"}
          [] line = "1.1" -> Toggle(f, "1.0") \cup {"1.1"}
          [] OTHER -> f

KeepAliveFlags(flags, connection) ==
    CASE "1.1" \in flags /\ connection = "keep" -> Toggle(flags, "close")
      [] "1.1" \in flags /\ connection \in {"close", "none"} -> flags \cup {"close"}
      [] OTHER -> flags

Crash(c) == [c EXCEPT !.crash = TRUE]

\* result_code after parse_request has looked the vhost and the path up: a code left by an
\* earlier request is kept.
LookupResult(result, novhost, target) ==
    IF novhost \/ target = "missing" THEN 404
    ELSE IF result = 0 THEN 200 ELSE result

\* is_cgi_request, which nothing resets: strstr looks for the whole path in cgi_bin_root,
\* so it is the directories that cgi_bin_root lies in that are taken for CGIs.
CgiRequest(cgi, target) == cgi \/ target = "cgiroot"

\* What the first line in the buffer is.  A second piece that has lost the first (clear_client
\* threw it away) begins with a header, of three words ("nohttp") or not ("short").
FirstLine(c, header) == IF Head(c.in).part = "rest" THEN header ELSE sent[Head(c.in).req].line

\* strsep cuts the first line off.
CutFirstLine(c) == [c EXCEPT !.req = Head(c.in).req, !.cut = TRUE]

\* The version and the method, which keeps an earlier request's value if it is unknown.
ReadFirstLine(c, header) ==
    [CutFirstLine(c) EXCEPT !.flags = VersionFlags(@, FirstLine(c, header)),
                            !.method = @ \/ sent[Head(c.in).req].method = "known"]

ReadHeaders(c, behind, header) ==
    [ReadFirstLine(c, header) EXCEPT !.conn = FirstConnection(c, behind), !.host = HostGiven(c),
                                     !.flags = KeepAliveFlags(@, FirstConnection(c, behind))]

\* A Host header of an HTTP/1.1 request is looked up.
LooksUpHost(c) == c.host /\ "1.1" \in c.flags

\* clear_buffer takes the request out of the input buffer.
LookUp(c) ==
    LET target == sent[c.req].target
    IN  [c EXCEPT !.result = LookupResult(@, LooksUpHost(c), target),
                  !.cgi = CgiRequest(@, target), !.in = <<>>, !.cut = FALSE]

\* parse_request.  `wild` is what get_vhost, which has no return statement, gives its
\* caller: NULL, or a pointer that is no vhost.
Parse(c, behind, header, wild) ==
    LET line == FirstLine(c, header)
        begun == CutFirstLine(c)
        known == ReadFirstLine(c, header)
        read  == ReadHeaders(c, behind, header)
    IN  CASE line = "short" -> [begun EXCEPT !.result = 400, !.flags = @ \cup {"close"}]
          [] line = "nohttp" -> [begun EXCEPT !.result = 400, !.flags = VersionFlags(@, line)]
          [] line = "other" -> [begun EXCEPT !.result = 505, !.flags = VersionFlags(@, line)]
          [] line \in {"1.0", "1.1"} /\ ~known.method -> [known EXCEPT !.result = 501]
          [] line \in {"1.0", "1.1"} /\ known.method /\ LooksUpHost(read) /\ wild -> Crash(read)
          [] OTHER -> LookUp(read)

\* client_send_response_code and client_send_headers: several writes, the second of which
\* raises SIGPIPE when the peer is gone.  outbound_headers is sent with all it has gathered.
SendHead(c) ==
    LET outh == Append(c.outh, <<"connection", IF "close" \in c.flags THEN "Close" ELSE "Keep-Alive">>)
    IN  IF reset THEN Crash(c)
        ELSE [c EXCEPT !.outh = outh, !.wire = Append(@, <<"head", c.req, c.result, outh>>)]

\* Variant: the length announced is one unit too small.
PlainTransferOpenShort(c) ==
    LET r == sent[c.req]
    IN  IF r.access
          THEN [c EXCEPT !.outh = Append(@, <<"length", IF r.size = 0 THEN 0 ELSE r.size - 1>>),
                         !.pump = c.req, !.pos = 0, !.progress = TRUE, !.completed = FALSE]
          ELSE [c EXCEPT !.pump = 0, !.progress = FALSE, !.completed = FALSE]

\* plain_transfer_open, which overwrites the pump_fd of a file that is still open.
PlainTransferOpen(c) ==
    LET r == sent[c.req]
    IN  IF r.access
          THEN [c EXCEPT !.outh = Append(@, <<"length", r.size>>),
                         !.pump = c.req, !.pos = 0, !.progress = TRUE, !.completed = FALSE]
          ELSE [c EXCEPT !.pump = 0, !.progress = FALSE, !.completed = FALSE]

\* generate_dir_listing: the Content-Length is that of all the output buffer holds.
GenerateDirListing(c) ==
    LET out == c.out \o [k \in 1..ListLen |-> <<"list", c.req, k>>]
    IN  [c EXCEPT !.out = out, !.outh = Append(@, <<"length", Len(out)>>)]

IsFile(r) == r.target \in {"file", "script"}

\* Variant: a file that cannot be opened is no error.
TargetResultIgnoresOpen(r) ==
    CASE IsFile(r) \/ r.target = "dir" -> 200
      [] r.target = "special" -> 404
      [] OTHER -> 403

\* The code dispatch_request settles on for a path that was found.
TargetResult(r) ==
    CASE r.target = "dir" \/ (IsFile(r) /\ r.access) -> 200
      [] IsFile(r) /\ ~r.access -> 500
      [] r.target = "special" -> 404
      [] OTHER -> 403

\* dispatch_request when parse_request found nothing wrong.  A request for a CGI crashes
\* (the argument vector has no initialized index), and so may a file without a MIME type.
DispatchFound(c, wild) ==
    LET r == sent[c.req]
        body == CASE IsFile(r) -> PlainTransferOpen(c)
                  [] r.target = "dir" -> GenerateDirListing(c)
                  [] OTHER -> c
    IN  IF c.cgi \/ (IsFile(r) /\ r.access /\ ~r.mime /\ wild)
          THEN Crash(c)
          ELSE SendHead([body EXCEPT !.result = TargetResult(r)])

\* dispatch_request when it did.  The log line at its end reads the method's name, which
\* there is none of before the first good request line.
DispatchRefused(c) ==
    LET told  == SendHead(c)
        body  == [told EXCEPT !.out = Append(@, <<"html", c.req, 1>>)]
        ended == CASE "1.1" \in c.flags -> ClearClient(body)
                   [] "1.1" \notin c.flags /\ "1.0" \in c.flags -> EndConnection(body)
                   [] OTHER -> body
    IN  IF told.crash \/ c.method THEN ended ELSE Crash(ended)

Dispatch(c, wild) ==
    IF c.crash THEN c
    ELSE IF c.result = 200 THEN DispatchFound(c, wild)
    ELSE DispatchRefused(c)

\* Variant: a short read is taken for the end of the file.
FillFromFileShortRead(c) ==
    LET room == NBS - Len(c.out)
        n    == Least(room, sent[c.pump].size - c.pos)
    IN  CASE c.pump = 0 \/ ~c.progress \/ room <= 0 -> c
          [] c.pump # 0 /\ c.progress /\ room > 0 /\ n < room -> [c EXCEPT !.completed = TRUE]
          [] OTHER -> [c EXCEPT !.out = @ \o [k \in 1..n |-> <<"file", c.pump, c.pos + k>>],
                                !.pos = @ + n]

\* Variant: the end of the file stops the transfer without completing it.
FillFromFileNotInProgress(c) ==
    LET room == NBS - Len(c.out)
        n    == Least(room, sent[c.pump].size - c.pos)
    IN  CASE c.pump = 0 \/ ~c.progress \/ room <= 0 -> c
          [] c.pump # 0 /\ c.progress /\ room > 0 /\ n <= 0 -> [c EXCEPT !.progress = FALSE]
          [] OTHER -> [c EXCEPT !.out = @ \o [k \in 1..n |-> <<"file", c.pump, c.pos + k>>],
                                !.pos = @ + n]

\* Variant: a whole block is read whatever the buffer holds.
FillFromFileWholeBlock(c) ==
    LET n == Least(NBS, sent[c.pump].size - c.pos)
    IN  CASE c.pump = 0 \/ ~c.progress -> c
          [] c.pump # 0 /\ c.progress /\ n <= 0 -> [c EXCEPT !.completed = TRUE]
          [] OTHER -> [c EXCEPT !.out = @ \o [k \in 1..n |-> <<"file", c.pump, c.pos + k>>],
                                !.pos = @ + n]

\* plain_transfer_send: fill the output buffer to a block from the file, then write a block.
\* With more than a block already buffered the size of the read is negative.
FillFromFile(c) ==
    LET room == NBS - Len(c.out)
        size == sent[c.pump].size
        n    == Least(room, size - c.pos)
    IN  CASE c.pump = 0 \/ ~c.progress \/ room = 0 -> c
          [] c.pump # 0 /\ c.progress /\ room < 0 -> Crash(c)
          [] c.pump # 0 /\ c.progress /\ room > 0 /\ n <= 0 -> [c EXCEPT !.completed = TRUE]
          [] OTHER -> [c EXCEPT !.out = @ \o [k \in 1..n |-> <<"file", c.pump, c.pos + k>>],
                                !.pos = @ + n]

\* Writing to a connection that was reset fails, or raises SIGPIPE; else send takes all or,
\* when it is interrupted, only some of the block: `taken` units at most.
PlainTransferSend(c, killed, taken) ==
    LET filled == FillFromFile(c)
        block  == Least(Len(filled.out), NBS)
        n      == Least(block, taken)
    IN  CASE filled.crash \/ block = 0 -> filled
          [] ~filled.crash /\ block > 0 /\ reset ->
                 IF killed THEN Crash(filled) ELSE [filled EXCEPT !.out = LtrimBuffer(@, -1)]
          [] OTHER -> [filled EXCEPT !.wire = @ \o SubSeq(filled.out, 1, n),
                                     !.short = n < block, !.out = LtrimBuffer(@, n)]

\* plain_transfer_recv: what recv returned (pieces; nothing at the end of input; -1 after a
\* reset) goes to the input buffer, and while a file is served, a block of the memory that
\* holds the buffer's own header goes into the file.
PlainTransferRecv(c, pieces, failed) ==
    LET got  == CASE failed -> IF c.in = <<>> THEN c ELSE Crash(c)
                  [] ~failed /\ pieces = <<>> -> [c EXCEPT !.completed = TRUE]
                  [] OTHER -> [c EXCEPT !.in = @ \o pieces]
        n    == Least(Len(got.in), NBS)
    IN  CASE got.crash \/ got.pump = 0 \/ ~got.progress -> got
          [] ~got.crash /\ got.pump # 0 /\ got.progress /\ n = 0 -> [got EXCEPT !.completed = TRUE]
          [] OTHER -> [got EXCEPT !.pos = @ + n, !.out = LtrimBuffer(@, n)]

-----------------------------------------------------------------------------
(* The service thread: service_clients, with this client on its list. *)

Running == ~client.crash

\* Variant: only the version decides.
AfterTransferOldOnly(c) ==
    CASE "1.0" \in c.flags -> EndConnection(c)
      [] "1.0" \notin c.flags /\ "1.1" \in c.flags -> ClearClient(c)
      [] OTHER -> c

\* What becomes of the connection once its transfer is closed.
AfterTransfer(c) ==
    CASE c.flags \cap {"1.0", "close"} # {} -> EndConnection(c)
      [] c.flags = {"1.1"} -> ClearClient(c)
      [] OTHER -> c

\* A completed transfer ends the connection or makes it ready for another request; the
\* client is not on the service list of this pass.
FinishTransfer ==
    /\ Running /\ pc = "build" /\ client.active
    /\ client.progress /\ client.completed
    /\ client' = AfterTransfer(PlainTransferClose(client))
    /\ UNCHANGED <<peerVars, pc, revents>>

\* Otherwise it is listed, and a request that is complete is parsed and dispatched.
Service(behind, header, wild) ==
    /\ Running /\ pc = "build" /\ client.active
    /\ ~(client.progress /\ client.completed)
    /\ IF RequestComplete(client, behind)
         THEN \E parsed \in {Parse(client, behind, header, wild)} : client' = Dispatch(parsed, wild)
         ELSE UNCHANGED client
    /\ pc' = "poll"
    /\ UNCHANGED <<peerVars, revents>>

\* poll: a socket this side has closed is no descriptor; one that was not reset can be
\* written to if its peer has read enough of what it was sent.  With nothing to report it
\* times out.
Poll(writable) ==
    /\ Running /\ pc = "poll"
    /\ revents' = IF ~client.open \/ reset THEN {"hup"}
                  ELSE {e \in {"in", "out"} : IF e = "out" THEN writable ELSE net # <<>> \/ fin}
    /\ pc' = IF revents' = {} THEN "build" ELSE "handle"
    /\ UNCHANGED <<client, peerVars>>

\* What poll reported may be stale by now: the peer can have sent more, or reset.
HandleHup ==
    /\ Running /\ pc = "handle" /\ "hup" \in revents
    /\ client' = [client EXCEPT !.active = FALSE]
    /\ pc' = "build" /\ revents' = {}
    /\ UNCHANGED peerVars

HandleIn(n) ==
    /\ Running /\ pc = "handle" /\ "in" \in revents
    /\ n \in 1..Len(net) \/ (n = 0 /\ net = <<>>)
    /\ client' = PlainTransferRecv(client, SubSeq(net, 1, n), net = <<>> /\ reset)
    /\ net' = SubSeq(net, n + 1, Len(net))
    /\ pc' = "build" /\ revents' = {}
    /\ UNCHANGED <<sent, half, fin, reset>>

HandleOut(killed, taken) ==
    /\ Running /\ pc = "handle" /\ revents = {"out"}
    /\ client' = PlainTransferSend(client, killed, taken)
    /\ pc' = "build" /\ revents' = {}
    /\ UNCHANGED peerVars

\* The listening thread's delete_client, whenever it comes by.
DeleteClient ==
    /\ Running /\ ~client.active
    /\ client' = [ClearClient(client) EXCEPT !.open = FALSE]
    /\ client' # client
    /\ UNCHANGED <<peerVars, pc, revents>>

ServiceThread ==
    \/ FinishTransfer
    \/ \E behind \in Behind, header \in {"short", "nohttp"}, wild \in BOOLEAN :
          Service(behind, header, wild)
    \/ \E writable \in BOOLEAN : Poll(writable)
    \/ HandleHup
    \/ \E n \in 0..Len(net) : HandleIn(n)
    \/ \E killed \in BOOLEAN, taken \in 1..NBS : HandleOut(killed, taken)

Next == Peer \/ ServiceThread \/ DeleteClient

Spec == Init /\ [][Next]_vars

\* The service thread is scheduled by the kernel.  Nothing is asked of the peer, which need
\* not even read, nor of the listening thread, which cleans up only when nobody connects.
FairSpec == Spec /\ WF_vars(ServiceThread)

-----------------------------------------------------------------------------
(* Properties. *)

IsUnit(x) == x[1] \in {"file", "list", "html"} /\ x[2] \in 1..Len(sent) /\ x[3] \in Nat

\* Every field holds a value of its kind.
TypeOK ==
    /\ client.active \in BOOLEAN /\ client.open \in BOOLEAN
    /\ client.flags \subseteq {"1.0", "1.1", "close"}
    /\ client.conn \in {"none", "keep", "close", "unmatched"}
    /\ client.req \in 0..Len(sent) /\ client.pump \in 0..Len(sent) /\ client.pos \in Nat
    /\ client.result \in {0, 200, 400, 403, 404, 500, 501, 505}
    /\ \A i \in 1..Len(client.out) : IsUnit(client.out[i])
    /\ \A i \in 1..Len(client.wire) : IsHead(client.wire[i]) \/ IsUnit(client.wire[i])
    /\ Len(sent) <= MaxRequests /\ \A i \in 1..Len(sent) : sent[i] \in Requests
    /\ half \in BOOLEAN /\ fin \in BOOLEAN /\ reset \in BOOLEAN
    /\ pc \in {"build", "poll", "handle"} /\ revents \subseteq {"in", "out", "hup"}

\* A head without the headers of an earlier response, each of which has its Connection
\* header.  They are sent again after a listing, and after a file that the server still had
\* open when the next request came; its reader then goes by the earlier Content-Length.
OwnHeaders(head) ==
    \A i, j \in 1..Len(head[4]) : head[4][i][1] = "connection" /\ head[4][j][1] = "connection" => i = j

\* x at place i of the wire belongs to the response whose head is at place h.
BelongsTo(w, h, i) == IsHead(w[h]) /\ h < i /\ \A j \in h + 1 .. i : ~IsHead(w[j])

\* The units of a file go out behind their own response's head, in order and without a gap,
\* however little of a block send takes, and whatever arrives while the file is open.
BodyInOrder ==
    LET w == client.wire
    IN  \A i \in 1..Len(w) : w[i][1] = "file" =>
            \E h \in 1..Len(w) :
                /\ BelongsTo(w, h, i)
                /\ OwnHeaders(w[h]) => w[i] = <<"file", w[h][2], i - h>>

\* The server ends a connection it has answered on only after all that the response
\* announced is written, but for what send left of the last block, unless the peer has shut
\* down its side or is gone.
ClosedOnlyWhenDelivered ==
    LET w == client.wire
        h == LastHead(w)
    IN  ~client.active /\ ~client.crash /\ ~fin /\ ~reset /\ h # 0 /\ OwnHeaders(w[h]) =>
            Len(w) - h + (IF client.short THEN NBS - 1 ELSE 0) >= Announced(w[h])

\* plain_transfer_recv writes to the file being served whatever arrives while it is open.
\* From a peer that has all it was promised that is only when the file has been read to its
\* end: such a peer makes the file longer, and never overwrites what others are to read.
UploadsOnlyAppend ==
    LET h == LastHead(client.wire)
    IN  client.pump # 0 /\ client.progress /\ net # <<>> /\ h # 0 /\ OwnHeaders(client.wire[h]) =>
            client.pos >= sent[client.pump].size

\* The size that plain_transfer_send asks read for is negative only behind a listing: neither
\* files nor error pages, of however many requests, fill the buffer beyond a block.
OnlyListingsOverfill ==
    Len(client.out) > NBS => \E i \in 1..Len(client.out) : client.out[i][1] = "list"

\* No request is answered twice: an answered request does not stay in the input buffer in
\* a state in which the next pass finds it complete again.
AnsweredOnce ==
    LET w == client.wire
    IN  \A i, j \in Heads(w) : w[i][2] = w[j][2] => i = j

\* A response that says OK is to a request of a version the server speaks, for a file it
\* could open or a directory below the document root, whatever came before it.  The method,
\* which clear_client leaves alone, is one the server has, or an earlier request's was.
OkIsDeserved ==
    \A i \in 1..Len(client.wire) :
        IsHead(client.wire[i]) /\ client.wire[i][3] = 200 =>
            LET r == sent[client.wire[i][2]]
            IN  /\ r.line \in {"1.0", "1.1"}
                /\ r.target = "dir" \/ (IsFile(r) /\ r.access)
                /\ \E j \in 1..client.wire[i][2] : sent[j].method = "known"

\* "its a file, not a cgi" (main.c:289): what is sent as a file is no script of cgi_bin_root.
ScriptsAreNotServed ==
    \A i \in 1..Len(client.wire) :
        client.wire[i][1] = "file" => sent[client.wire[i][2]].target # "script"

\* The peer reads no more of what it is sent, and poll says so for ever.
StopsReading == <>[](client.active /\ "out" \notin revents)

\* A response for a file is followed by the end of its transfer, or by the end of the client,
\* whose file the clean-up closes: unless the peer stops reading, no file of a live client
\* stays open for ever.
TransferEnds ==
    StopsReading \/ (client.pump # 0 ~> client.pump = 0 \/ ~client.active \/ client.crash)

\* A connection whose file was announced with "Connection: Close" does get closed, unless
\* the peer stops reading, resets it, or asks again all the same.
ClosedAfterFile ==
    \/ StopsReading
    \/ client.pump # 0 /\ "close" \in client.flags /\ client.req = Len(sent) ~>
           ~client.open \/ reset \/ client.crash \/ client.req < Len(sent)
=============================================================================
