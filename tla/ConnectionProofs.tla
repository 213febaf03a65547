-------------------------- MODULE ConnectionProofs --------------------------
(***************************************************************************)
(* What a connection owes its peer whatever the peer does, for every set   *)
(* of requests, every number of them and every size of a network block.    *)
(***************************************************************************)
EXTENDS Connection, WellFoundedInduction, TLAPS

Flags      == {"1.0", "1.1", "close"}
ConnValues == {"none", "keep", "close", "unmatched"}
Codes   == {0, 200, 400, 403, 404, 500, 501, 505}
Header  == ({"length"} \X Nat) \cup ({"connection"} \X {"Close", "Keep-Alive"})

\* What refers to one of the first n requests.
Piece(n)  == [req : 1..n, part : {"whole", "begin", "rest"}]
Unit(n)   == {"file", "list", "html"} \X (1..n) \X Nat
HeadOf(n) == {"head"} \X (1..n) \X Codes \X Seq(Header)
Wire(n)   == Seq(Unit(n) \cup HeadOf(n))

Fields == {"active", "open", "flags", "in", "cut", "out", "conn", "host", "outh", "method", "req",
           "cgi", "result", "pump", "pos", "progress", "completed", "short", "wire", "crash"}

\* The fields of a client that decide what it says, and to what.
IsClient(c, n) ==
    /\ DOMAIN c = Fields
    /\ c.active \in BOOLEAN
    /\ c.open \in BOOLEAN
    /\ c.flags \in SUBSET Flags
    /\ c.conn \in ConnValues
    /\ c.in \in Seq(Piece(n))
    /\ c.out \in Seq(Unit(n))
    /\ c.outh \in Seq(Header)
    /\ c.wire \in Wire(n)
    /\ c.req \in 0..n
    /\ c.pump \in 0..n
    /\ c.pos \in Nat
    /\ c.result \in Codes

LEMMA EmptySeq == \A S : <<>> \in Seq(S)
OBVIOUS

\* A step that says nothing new.
Silent(c, d, n) ==
    /\ IsClient(d, n)
    /\ d.wire = c.wire
    /\ d.result = c.result
    /\ d.req = c.req
    /\ d.method = c.method
    /\ d.in \in {c.in, <<>>}

-----------------------------------------------------------------------------
(* The functions that work on a client_t. *)

LEMMA ClearClientSilent ==
    ASSUME NEW n \in Nat, NEW c, IsClient(c, n)
    PROVE  Silent(c, ClearClient(c), n)
BY EmptySeq DEF IsClient, ClearClient, Fields, Silent, ConnValues

LEMMA EndConnectionSilent ==
    ASSUME NEW n \in Nat, NEW c, IsClient(c, n)
    PROVE  Silent(c, EndConnection(c), n)
BY DEF IsClient, EndConnection, Fields, Silent

LEMMA CrashSilent ==
    ASSUME NEW n \in Nat, NEW c, IsClient(c, n)
    PROVE  Silent(c, Crash(c), n) /\ Crash(c).crash
BY DEF IsClient, Crash, Fields, Silent

LEMMA PlainTransferCloseSilent ==
    ASSUME NEW n \in Nat, NEW c, IsClient(c, n)
    PROVE  Silent(c, PlainTransferClose(c), n)
BY DEF IsClient, PlainTransferClose, Fields, Silent

LEMMA AfterTransferSilent ==
    ASSUME NEW n \in Nat, NEW c, IsClient(c, n)
    PROVE  Silent(c, AfterTransfer(c), n)
BY ClearClientSilent, EndConnectionSilent DEF AfterTransfer, Silent

\* Flags, and the first Connection header, are such.
LEMMA FlagTypes ==
    ASSUME NEW flags \in SUBSET Flags, NEW line, NEW connection
    PROVE  /\ VersionFlags(flags, line) \in SUBSET Flags
           /\ KeepAliveFlags(flags, connection) \in SUBSET Flags
BY DEF VersionFlags, KeepAliveFlags, Toggle, Flags

LEMMA VersionTypes ==
    ASSUME NEW flags \in SUBSET Flags, NEW line
    PROVE  VersionFlags(flags, line) \in SUBSET Flags
BY DEF VersionFlags, Toggle, Flags

LEMMA Oldest ==
    ASSUME NEW T \in SUBSET Nat, T # {}
    PROVE  \E i \in T : \A j \in T : i <= j
<1>1. PICK i \in T : \A j \in T : <<j, i>> \notin OpToRel(<, Nat)
  BY NatLessThanWellFounded, WFMin
<1>2. \A j \in T : ~(j < i)
  BY <1>1 DEF OpToRel
<1> QED BY <1>2

\* A piece in a buffer belongs to a request.
LEMMA PiecesReq ==
    ASSUME NEW n \in Nat, NEW s \in Seq(Piece(n)), NEW i \in 1..Len(s)
    PROVE  s[i].req \in 1..n /\ s[i].part \in {"whole", "begin", "rest"}
<1>1. s[i] \in Piece(n)
  OBVIOUS
<1> QED BY <1>1 DEF Piece

LEMMA FirstConnectionType ==
    ASSUME NEW n \in Nat, NEW c, IsClient(c, n), n = Len(sent), sent \in Seq(Requests), NEW behind
    PROVE  FirstConnection(c, behind) \in ConnValues
<1> DEFINE all   == Connections(c, behind)
           given == {i \in 1..Len(all) : all[i] # "none"}
<1>1. \A i \in 1..n : sent[i].conn \in ConnValues
  <2>1. \A r \in Requests : r.conn \in ConnValues
    BY ConnectionAssumption DEF Request, ConnValues
  <2> QED BY <2>1
<1>2. all \in Seq(ConnValues)
  <2> DEFINE arrived == [i \in 1..Len(c.in) |->
                            IF c.in[i].part = "begin" THEN "none" ELSE sent[c.in[i].req].conn]
  <2>1. Len(c.in) \in Nat /\ \A i \in 1..Len(c.in) : c.in[i].req \in 1..n
    BY PiecesReq DEF IsClient
  <2>2. arrived \in Seq(ConnValues)
    BY <1>1, <2>1 DEF ConnValues
  <2>3. <<c.conn>> \in Seq(ConnValues)
    BY DEF IsClient
  <2>4. <<IF behind = "keep" THEN "keep" ELSE "none">> \in Seq(ConnValues)
    BY DEF ConnValues
  <2> HIDE DEF arrived
  <2>5. <<c.conn>> \o arrived \o <<IF behind = "keep" THEN "keep" ELSE "none">> \in Seq(ConnValues)
    BY <2>2, <2>3, <2>4
  <2> QED BY <2>5 DEF Connections, arrived
<1>3. CASE given = {}
  BY <1>3 DEF FirstConnection, ConnValues
<1>4. CASE given # {}
  <2> DEFINE first == CHOOSE i \in given : \A j \in given : i <= j
  <2>1. given \in SUBSET Nat
    OBVIOUS
  <2>2. \E i \in given : \A j \in given : i <= j
    <3> HIDE DEF given
    <3> QED BY <1>4, <2>1, Oldest
  <2>3. first \in given
    <3> HIDE DEF given
    <3> QED BY <2>2
  <2>4. all[first] \in ConnValues
    <3> HIDE DEF all
    <3> QED BY <1>2, <2>3
  <2> QED BY <1>4, <2>4 DEF FirstConnection
<1> QED BY <1>3, <1>4

\* Reading the first line and the headers changes neither the code nor what was said.
LEMMA ReadingSilent ==
    ASSUME NEW n \in Nat, NEW c, IsClient(c, n), c.in # <<>>,
           n = Len(sent), sent \in Seq(Requests), NEW behind,
           NEW header, NEW d \in {CutFirstLine(c), ReadFirstLine(c, header), ReadHeaders(c, behind, header)}
    PROVE  /\ IsClient(d, n)
           /\ d.wire = c.wire
           /\ d.req = Head(c.in).req
           /\ d.req \in 1..n
           /\ d.crash = c.crash
           /\ d.in = c.in
           /\ d.method => c.method \/ sent[d.req].method = "known"
<1> DEFINE Good(e) == /\ IsClient(e, n)
                      /\ e.wire = c.wire
                      /\ e.req = Head(c.in).req
                      /\ e.crash = c.crash
                      /\ e.in = c.in
                      /\ e.method => c.method \/ sent[Head(c.in).req].method = "known"
<1>1. Head(c.in).req \in 1..n
  <2>1. c.in \in Seq(Piece(n)) /\ 1 \in 1..Len(c.in) /\ Head(c.in) = c.in[1]
    BY DEF IsClient
  <2> QED BY <2>1, PiecesReq
<1>2. Good(CutFirstLine(c))
  BY <1>1 DEF CutFirstLine, IsClient, Fields
<1>3. Good(ReadFirstLine(c, header))
  <2> DEFINE e == CutFirstLine(c)
             flags == VersionFlags(e.flags, FirstLine(c, header))
             method == e.method \/ sent[Head(c.in).req].method = "known"
  <2>1. flags \in SUBSET Flags
    BY <1>2, FlagTypes DEF IsClient
  <2>4. method => c.method \/ sent[Head(c.in).req].method = "known"
    BY <1>2
  <2>2. ReadFirstLine(c, header) = [e EXCEPT !.flags = flags, !.method = method]
    BY DEF ReadFirstLine
  <2> HIDE DEF e, flags, method
  <2>3. Good(e)
    BY <1>2 DEF e
  <2> QED BY <2>1, <2>2, <2>3, <2>4, SMTT(40) DEF IsClient, Fields
<1>4. Good(ReadHeaders(c, behind, header))
  <2> DEFINE e == ReadFirstLine(c, header)
             conn == FirstConnection(c, behind)
             flags == KeepAliveFlags(e.flags, conn)
             host == HostGiven(c)
  <2>1. flags \in SUBSET Flags
    BY <1>3, FlagTypes DEF IsClient
  <2>2. conn \in ConnValues
    BY FirstConnectionType
  <2>3. ReadHeaders(c, behind, header) = [e EXCEPT !.conn = conn, !.host = host, !.flags = flags]
    BY DEF ReadHeaders
  <2> HIDE DEF e, flags, conn, host
  <2>4. Good(e)
    BY <1>3 DEF e
  <2> QED BY <2>1, <2>2, <2>3, <2>4, SMTT(40) DEF IsClient, Fields
<1> QED BY <1>1, <1>2, <1>3, <1>4

\* Looking the path up says nothing yet.
LEMMA LookUpSilent ==
    ASSUME NEW n \in Nat, NEW c, IsClient(c, n)
    PROVE  /\ IsClient(LookUp(c), n)
           /\ LookUp(c).wire = c.wire
           /\ LookUp(c).req = c.req
           /\ LookUp(c).method = c.method
           /\ LookUp(c).in = <<>>
<1> DEFINE target == sent[c.req].target
           code == LookupResult(c.result, LooksUpHost(c), target)
           cgi == CgiRequest(c.cgi, target)
<1>1. LookUp(c) = [c EXCEPT !.result = code, !.cgi = cgi, !.in = <<>>, !.cut = FALSE]
  BY DEF LookUp
<1>2. code \in Codes
  BY DEF LookupResult, IsClient, Codes
<1> HIDE DEF target, code, cgi
<1> QED BY <1>1, <1>2, EmptySeq DEF IsClient, Fields

\* Setting a code says nothing yet.
LEMMA CodeSilent ==
    ASSUME NEW n \in Nat, NEW c, IsClient(c, n), NEW code \in Codes,
           NEW d, d = [c EXCEPT !.result = code]
    PROVE  /\ IsClient(d, n) /\ d.wire = c.wire /\ d.req = c.req /\ d.result = code
           /\ d.method = c.method /\ d.in = c.in
BY DEF IsClient, Fields

\* parse_request: what it finds is about a request the peer sent, and only a request line of
\* a version the server speaks, with a method, can be found good.
LEMMA ParseCode ==
    ASSUME NEW n \in Nat, NEW c, IsClient(c, n), c.in # <<>>,
           n = Len(sent), sent \in Seq(Requests), NEW behind, NEW header \in {"short", "nohttp"},
           NEW wild, NEW d, d = Parse(c, behind, header, wild)
    PROVE  /\ IsClient(d, n)
           /\ d.wire = c.wire
           /\ d.req = Head(c.in).req
           /\ d.req \in 1..n
           /\ d.in \in {c.in, <<>>}
           /\ d.method => c.method \/ sent[d.req].method = "known"
           /\ d.crash \/ d.result # 200 \/ (d.method /\ sent[d.req].line \in {"1.0", "1.1"})
<1> DEFINE line  == FirstLine(c, header)
           begun == CutFirstLine(c)
           known == ReadFirstLine(c, header)
           read  == ReadHeaders(c, behind, header)
           Good(e) == /\ IsClient(e, n)
                      /\ e.wire = c.wire
                      /\ e.req = Head(c.in).req
                      /\ e.req \in 1..n
                      /\ e.in = c.in
                      /\ e.method => c.method \/ sent[e.req].method = "known"
<1>1. Good(begun) /\ Good(known) /\ Good(read)
  BY ReadingSilent
<1>2. line \in {"short", "nohttp", "other", "1.0", "1.1"}
  <2>1. sent[Head(c.in).req] \in Request
    BY <1>1, ConnectionAssumption
  <2> QED BY <2>1 DEF FirstLine, Request
<1>3. CASE line = "short"
  <2>1. PICK flags : flags = begun.flags \cup {"close"}
    OBVIOUS
  <2>2. d = [begun EXCEPT !.result = 400, !.flags = flags]
    BY <1>3, <2>1 DEF Parse
  <2>3. flags \in SUBSET Flags /\ 400 \in Codes
    <3>1. begun.flags \in SUBSET Flags
      BY <1>1 DEF IsClient
    <3>2. "close" \in Flags
      BY DEF Flags
    <3>3. 400 \in Codes
      BY DEF Codes
    <3> QED BY <2>1, <3>1, <3>2, <3>3
  <2> HIDE DEF begun
  <2>4. IsClient(begun, n)
    BY <1>1
  <2>5. /\ IsClient(d, n) /\ d.wire = begun.wire /\ d.req = begun.req /\ d.result = 400
        /\ d.in = begun.in /\ d.method = begun.method
    BY <2>2, <2>3, <2>4 DEF IsClient, Fields
  <2> QED BY <1>1, <2>5
<1>4. CASE line \in {"nohttp", "other"}
  <2>1. PICK flags : flags = VersionFlags(begun.flags, line)
    OBVIOUS
  <2>2. PICK code \in {400, 505} : d = [begun EXCEPT !.result = code, !.flags = flags]
    BY <1>4, <2>1 DEF Parse
  <2>3. flags \in SUBSET Flags /\ code \in Codes
    <3>1. PICK before \in SUBSET Flags : before = begun.flags
      BY <1>1 DEF IsClient
    <3>2. flags \in SUBSET Flags
      <4>1. PICK first : first = line
        OBVIOUS
      <4>2. flags = VersionFlags(before, first)
        BY <2>1, <3>1, <4>1
      <4> HIDE DEF line, begun
      <4> QED BY <3>1, <4>2, VersionTypes
    <3> QED BY <2>2, <3>2 DEF Codes
  <2> HIDE DEF begun
  <2>4. IsClient(begun, n)
    BY <1>1
  <2>5. /\ IsClient(d, n) /\ d.wire = begun.wire /\ d.req = begun.req /\ d.result = code
        /\ d.in = begun.in /\ d.method = begun.method
    BY <2>2, <2>3, <2>4 DEF IsClient, Fields
  <2> QED BY <1>1, <2>2, <2>5
<1>5. CASE line \in {"1.0", "1.1"} /\ ~known.method
  <2>1. d = [known EXCEPT !.result = 501]
    BY <1>5 DEF Parse
  <2>2. 501 \in Codes
    BY DEF Codes
  <2> HIDE DEF known
  <2>3. /\ IsClient(d, n) /\ d.wire = known.wire /\ d.req = known.req /\ d.result = 501
        /\ d.in = known.in /\ d.method = known.method
    BY <1>1, <2>1, <2>2, CodeSilent
  <2> QED BY <1>1, <2>3
<1>6. CASE line \in {"1.0", "1.1"} /\ known.method /\ LooksUpHost(read) /\ wild
  <2>1. d = Crash(read)
    BY <1>6 DEF Parse
  <2> HIDE DEF read
  <2> QED BY <1>1, <2>1, CrashSilent DEF Silent
<1>7. CASE line \in {"1.0", "1.1"} /\ known.method /\ ~(LooksUpHost(read) /\ wild)
  <2>1. d = LookUp(read)
    BY <1>7 DEF Parse
  <2>2. sent[Head(c.in).req].line \in {"1.0", "1.1"}
    BY <1>7 DEF FirstLine
  <2>3. read.method = known.method
    <3>1. PICK e : e = known
      OBVIOUS
    <3>2. DOMAIN e = Fields
      BY <1>1, <3>1 DEF IsClient
    <3>3. PICK conn, host, flags : read = [e EXCEPT !.conn = conn, !.host = host, !.flags = flags]
      BY <3>1 DEF ReadHeaders
    <3> HIDE DEF read, known
    <3>4. read.method = e.method
      BY <3>2, <3>3 DEF Fields
    <3> QED BY <3>1, <3>4
  <2>4. sent[Head(c.in).req].line \in {"1.0", "1.1"} /\ known.method /\ Good(read)
    BY <1>1, <1>7, <2>2
  <2> HIDE DEF read, known, line
  <2>5. /\ IsClient(d, n) /\ d.wire = read.wire /\ d.req = read.req
        /\ d.method = read.method /\ d.in = <<>>
    BY <2>1, <2>4, LookUpSilent
  <2> QED BY <2>3, <2>4, <2>5
<1> QED BY <1>2, <1>3, <1>4, <1>5, <1>6, <1>7

-----------------------------------------------------------------------------
(* dispatch_request. *)

\* At most one head is added to what was said, about c's request and with d's code.
Says(c, d, n) ==
    /\ IsClient(d, n)
    /\ \/ d.wire = c.wire
       \/ \E h \in Seq(Header) : d.wire = Append(c.wire, <<"head", c.req, d.result, h>>)
    /\ d.req = c.req
    /\ d.method = c.method
    /\ d.in \in {c.in, <<>>}

LEMMA SendHeadSays ==
    ASSUME NEW n \in Nat, NEW c, IsClient(c, n), c.req \in 1..n
    PROVE  /\ Says(c, SendHead(c), n)
           /\ SendHead(c).result = c.result
<1>1. PICK value \in {"Close", "Keep-Alive"} :
         value = IF "close" \in c.flags THEN "Close" ELSE "Keep-Alive"
  OBVIOUS
<1>2. PICK outh : outh = Append(c.outh, <<"connection", value>>)
  OBVIOUS
<1>3. outh \in Seq(Header)
  <2>1. <<"connection", value>> \in Header
    BY DEF Header
  <2> QED BY <1>2, <2>1 DEF IsClient
<1>4. CASE reset
  BY <1>4, CrashSilent DEF SendHead, Says, Silent
<1>5. CASE ~reset
  <2>1. PICK head : head = <<"head", c.req, c.result, outh>>
    OBVIOUS
  <2>2. PICK wire : wire = Append(c.wire, head)
    OBVIOUS
  <2>3. SendHead(c) = [c EXCEPT !.outh = outh, !.wire = wire]
    BY <1>1, <1>2, <1>5, <2>1, <2>2 DEF SendHead
  <2>4. wire \in Wire(n)
    <3>1. head \in HeadOf(n)
      BY <1>3, <2>1 DEF HeadOf, IsClient
    <3>2. c.wire \in Seq(Unit(n) \cup HeadOf(n))
      BY DEF IsClient, Wire
    <3> QED BY <2>2, <3>1, <3>2 DEF Wire
  <2>5. /\ IsClient(SendHead(c), n)
        /\ SendHead(c).result = c.result
        /\ SendHead(c).req = c.req
        /\ SendHead(c).method = c.method
        /\ SendHead(c).in = c.in
        /\ SendHead(c).wire = wire
    BY <1>3, <2>3, <2>4 DEF IsClient, Fields
  <2> QED BY <1>3, <2>1, <2>2, <2>5 DEF Says
<1> QED BY <1>4, <1>5

LEMMA PlainTransferOpenSilent ==
    ASSUME NEW n \in Nat, NEW c, IsClient(c, n), c.req \in 1..n,
           n = Len(sent), sent \in Seq(Requests)
    PROVE  Silent(c, PlainTransferOpen(c), n)
<1>2. CASE sent[c.req].access
  <2>1. PICK outh : outh = Append(c.outh, <<"length", sent[c.req].size>>)
    OBVIOUS
  <2>2. outh \in Seq(Header)
    <3>1. sent[c.req].size \in Nat
      BY ConnectionAssumption DEF Request
    <3>2. <<"length", sent[c.req].size>> \in Header
      BY <3>1 DEF Header
    <3> QED BY <2>1, <3>2 DEF IsClient
  <2>3. PlainTransferOpen(c) =
           [c EXCEPT !.outh = outh,
                     !.pump = c.req, !.pos = 0, !.progress = TRUE, !.completed = FALSE]
    BY <1>2, <2>1 DEF PlainTransferOpen
  <2> QED BY <2>2, <2>3 DEF IsClient, Fields, Silent
<1>3. CASE ~sent[c.req].access
  <2>1. PlainTransferOpen(c) =
           [c EXCEPT !.pump = 0, !.progress = FALSE, !.completed = FALSE]
    BY <1>3 DEF PlainTransferOpen
  <2> QED BY <2>1 DEF IsClient, Fields, Silent
<1> QED BY <1>2, <1>3

LEMMA GenerateDirListingSilent ==
    ASSUME NEW n \in Nat, NEW c, IsClient(c, n), c.req \in 1..n
    PROVE  Silent(c, GenerateDirListing(c), n)
<1>1. PICK listing : listing = [k \in 1..ListLen |-> <<"list", c.req, k>>]
  OBVIOUS
<1>2. listing \in Seq(Unit(n))
  <2>1. \A k \in 1..ListLen : <<"list", c.req, k>> \in Unit(n)
    BY ConnectionAssumption DEF Unit
  <2> QED BY <1>1, <2>1, ConnectionAssumption
<1>3. PICK out : out = c.out \o listing
  OBVIOUS
<1>4. out \in Seq(Unit(n)) /\ Len(out) \in Nat
  BY <1>2, <1>3 DEF IsClient
<1>5. PICK outh : outh = Append(c.outh, <<"length", Len(out)>>)
  OBVIOUS
<1>6. outh \in Seq(Header)
  <2>1. <<"length", Len(out)>> \in Header
    BY <1>4 DEF Header
  <2> QED BY <1>5, <2>1 DEF IsClient
<1>7. GenerateDirListing(c) = [c EXCEPT !.out = out, !.outh = outh]
  BY <1>1, <1>3, <1>5 DEF GenerateDirListing
<1> QED BY <1>4, <1>6, <1>7 DEF IsClient, Fields, Silent

LEMMA TargetCodes ==
    ASSUME NEW r
    PROVE  TargetResult(r) \in {200, 403, 404, 500}
BY DEF TargetResult

\* A response to a request that was found good: a 200 if the target deserves it.
LEMMA DispatchFoundSays ==
    ASSUME NEW n \in Nat, NEW c, IsClient(c, n), c.req \in 1..n, c.result = 200,
           n = Len(sent), sent \in Seq(Requests), NEW wild,
           NEW d, d = DispatchFound(c, wild)
    PROVE  /\ Says(c, d, n)
           /\ d.result = TargetResult(sent[c.req]) \/ (d.result = 200 /\ d.wire = c.wire)
<1> DEFINE r == sent[c.req]
<1>1. CASE c.cgi \/ (IsFile(r) /\ r.access /\ ~r.mime /\ wild)
  <2>1. d = Crash(c)
    BY <1>1 DEF DispatchFound
  <2> QED BY <2>1, CrashSilent DEF Silent, Says
<1>2. CASE ~(c.cgi \/ (IsFile(r) /\ r.access /\ ~r.mime /\ wild))
  <2>1. PICK body \in {PlainTransferOpen(c), GenerateDirListing(c), c} :
           d = SendHead([body EXCEPT !.result = TargetResult(r)])
    <3>1. CASE IsFile(r)
      BY <1>2, <3>1 DEF DispatchFound, IsFile
    <3>2. CASE r.target = "dir"
      BY <1>2, <3>2 DEF DispatchFound, IsFile
    <3>3. CASE ~IsFile(r) /\ r.target # "dir"
      BY <1>2, <3>3 DEF DispatchFound
    <3> QED BY <3>1, <3>2, <3>3
  <2>2. /\ IsClient(body, n) /\ body.wire = c.wire /\ body.req = c.req
        /\ body.method = c.method /\ body.in \in {c.in, <<>>}
    BY <2>1, PlainTransferOpenSilent, GenerateDirListingSilent DEF Silent
  <2>3. PICK code \in Codes : code = TargetResult(r)
    BY TargetCodes DEF Codes
  <2>4. PICK coded : coded = [body EXCEPT !.result = code]
    OBVIOUS
  <2>5. /\ IsClient(coded, n) /\ coded.wire = c.wire /\ coded.req = c.req /\ coded.result = code
        /\ coded.method = c.method /\ coded.in \in {c.in, <<>>}
    BY <2>2, <2>4, CodeSilent
  <2>6. d = SendHead(coded)
    BY <2>1, <2>3, <2>4
  <2>7. Says(coded, d, n) /\ d.result = code
    BY <2>5, <2>6, SendHeadSays
  <2> QED BY <2>3, <2>5, <2>7 DEF Says
<1> QED BY <1>1, <1>2

\* A response to one that was not.
LEMMA DispatchRefusedSays ==
    ASSUME NEW n \in Nat, NEW c, IsClient(c, n), c.req \in 1..n,
           NEW d, d = DispatchRefused(c)
    PROVE  Says(c, d, n) /\ d.result = c.result
<1>1. PICK told : told = SendHead(c)
  OBVIOUS
<1>2. Says(c, told, n) /\ told.result = c.result
  BY <1>1, SendHeadSays
<1>3. PICK out : out = Append(told.out, <<"html", c.req, 1>>)
  OBVIOUS
<1>4. out \in Seq(Unit(n))
  <2>1. <<"html", c.req, 1>> \in Unit(n)
    BY DEF Unit
  <2> QED BY <1>2, <1>3, <2>1 DEF Says, IsClient
<1>5. PICK body : body = [told EXCEPT !.out = out]
  OBVIOUS
<1>6. /\ IsClient(body, n) /\ body.wire = told.wire /\ body.result = c.result
      /\ body.req = c.req /\ body.method = c.method /\ body.in \in {c.in, <<>>}
  BY <1>2, <1>4, <1>5 DEF Says, IsClient, Fields
<1>7. PICK ended \in {ClearClient(body), EndConnection(body), body} : d \in {ended, Crash(ended)}
  BY <1>1, <1>3, <1>5 DEF DispatchRefused
<1>8. /\ IsClient(ended, n) /\ ended.wire = told.wire /\ ended.result = c.result
      /\ ended.req = c.req /\ ended.method = c.method /\ ended.in \in {c.in, <<>>}
  BY <1>6, <1>7, ClearClientSilent, EndConnectionSilent DEF Silent
<1>9. /\ IsClient(d, n) /\ d.wire = told.wire /\ d.result = c.result
      /\ d.req = c.req /\ d.method = c.method /\ d.in \in {c.in, <<>>}
  BY <1>7, <1>8, CrashSilent DEF Silent
<1> QED BY <1>2, <1>9 DEF Says

-----------------------------------------------------------------------------
(* The transfer. *)

\* Units are added to what was said.
Sends(c, d, n) ==
    /\ IsClient(d, n)
    /\ d.req = c.req /\ d.method = c.method /\ d.in \in {c.in, <<>>}
    /\ \E u \in Seq(Unit(n)) : d.wire = c.wire \o u

\* Where there is room and the file has more, it reads as much as fits.
LEMMA FillReads ==
    ASSUME NEW c, c.pump # 0, c.progress, NBS - Len(c.out) \in Int, NBS - Len(c.out) > 0,
           NEW m \in Int, m > 0, m = Least(NBS - Len(c.out), sent[c.pump].size - c.pos)
    PROVE  FillFromFile(c) =
               [c EXCEPT !.out = c.out \o [k \in 1..m |-> <<"file", c.pump, c.pos + k>>],
                         !.pos = c.pos + m]
<1>1. ~(c.pump = 0 \/ ~c.progress \/ NBS - Len(c.out) = 0)
  OBVIOUS
<1>2. ~(NBS - Len(c.out) < 0)
  OBVIOUS
<1>3. ~(Least(NBS - Len(c.out), sent[c.pump].size - c.pos) <= 0)
  OBVIOUS
<1> QED
  BY <1>1, <1>2, <1>3, ZenonT(30) DEF FillFromFile

LEMMA FillFromFileSilent ==
    ASSUME NEW n \in Nat, NEW c, IsClient(c, n), n = Len(sent), sent \in Seq(Requests),
           NEW d, d = FillFromFile(c)
    PROVE  Silent(c, d, n)
<1> DEFINE room == NBS - Len(c.out)
           size == sent[c.pump].size
           least == Least(room, size - c.pos)
           units == [k \in 1..least |-> <<"file", c.pump, c.pos + k>>]
<1>1. CASE c.pump = 0 \/ ~c.progress \/ room = 0
  <2>1. d = c
    BY <1>1 DEF FillFromFile
  <2> QED BY <2>1 DEF Silent
<1>2. CASE c.pump # 0 /\ c.progress /\ room < 0
  <2>1. room \in Int
    BY ConnectionAssumption DEF IsClient
  <2>2. d = Crash(c)
    BY <1>2, <2>1 DEF FillFromFile
  <2> QED BY <2>2, CrashSilent
<1>3. CASE c.pump # 0 /\ c.progress /\ room > 0
  <2>1. size \in Nat /\ c.pump \in 1..n
    <3>1. c.pump \in 1..n
      BY <1>3 DEF IsClient
    <3>2. sent[c.pump] \in Request
      BY <3>1, ConnectionAssumption
    <3> QED BY <3>1, <3>2 DEF Request
  <2>2. room \in Int /\ c.pos \in Nat /\ least \in Int
    BY <2>1, ConnectionAssumption DEF IsClient, Least
  <2>3. CASE least <= 0
    <3>1. d = [c EXCEPT !.completed = TRUE]
      BY <1>3, <2>2, <2>3 DEF FillFromFile
    <3> QED BY <3>1 DEF IsClient, Fields, Silent
  <2>4. CASE least > 0
    <3>1. PICK out, pos : out = c.out \o units /\ pos = c.pos + least
      OBVIOUS
    <3>2. d = [c EXCEPT !.out = out, !.pos = pos]
      BY <1>3, <2>2, <2>4, <3>1, FillReads, Zenon
    <3>3. pos \in Nat
      <4> HIDE DEF least, units
      <4> QED BY <2>2, <2>4, <3>1
    <3>4. units \in Seq(Unit(n))
      <4>1. \A k \in 1..least : <<"file", c.pump, c.pos + k>> \in Unit(n)
        BY <2>1, <2>2 DEF Unit
      <4>2. least \in Nat
        BY <2>2, <2>4
      <4> HIDE DEF least
      <4> QED BY <4>1, <4>2
    <3>5. out \in Seq(Unit(n))
      <4>1. c.out \in Seq(Unit(n))
        BY DEF IsClient
      <4> HIDE DEF units
      <4> QED BY <3>1, <3>4, <4>1
    <3> QED BY <3>2, <3>3, <3>5 DEF IsClient, Fields, Silent
  <2> QED BY <2>2, <2>3, <2>4
<1> QED BY <1>1, <1>2, <1>3, ConnectionAssumption DEF IsClient

LEMMA LtrimClient ==
    ASSUME NEW n \in Nat, NEW c, IsClient(c, n), NEW k \in Int
    PROVE  LtrimBuffer(c.out, k) \in Seq(Unit(n))
<1>1. c.out \in Seq(Unit(n))
  BY DEF IsClient
<1> QED BY <1>1, EmptySeq DEF LtrimBuffer

LEMMA PlainTransferSendSends ==
    ASSUME NEW n \in Nat, NEW c, IsClient(c, n), n = Len(sent), sent \in Seq(Requests),
           NEW killed, NEW taken \in 1..NBS, NEW d, d = PlainTransferSend(c, killed, taken)
    PROVE  Sends(c, d, n)
<1>1. PICK filled : filled = FillFromFile(c)
  OBVIOUS
<1>2. Silent(c, filled, n)
  BY <1>1, FillFromFileSilent
<1>3. c.wire = c.wire \o <<>> /\ <<>> \in Seq(Unit(n))
  BY EmptySeq DEF IsClient, Wire
<1>4. PICK m : m = Least(Len(filled.out), NBS)
  OBVIOUS
<1>5. m \in Nat /\ m <= Len(filled.out) /\ Len(filled.out) \in Nat
  BY <1>2, <1>4, ConnectionAssumption DEF Least, IsClient, Silent
<1>6. CASE filled.crash \/ m = 0
  <2>1. d = filled
    BY <1>1, <1>4, <1>6 DEF PlainTransferSend
  <2> QED BY <1>2, <1>3, <2>1 DEF Sends, Silent
<1>7. CASE ~filled.crash /\ m # 0 /\ reset
  <2>1. PICK out : out = LtrimBuffer(filled.out, -1)
    OBVIOUS
  <2>2. out \in Seq(Unit(n))
    BY <1>2, <2>1, LtrimClient DEF Silent
  <2>3. d \in {Crash(filled), [filled EXCEPT !.out = out]}
    BY <1>1, <1>4, <1>5, <1>7, <2>1 DEF PlainTransferSend
  <2>4. Silent(c, d, n)
    <3>1. CASE d = Crash(filled)
      BY <1>2, <3>1, CrashSilent DEF Silent
    <3>2. CASE d = [filled EXCEPT !.out = out]
      BY <1>2, <2>2, <3>2 DEF IsClient, Fields, Silent
    <3> QED BY <2>3, <3>1, <3>2
  <2> QED BY <1>3, <2>4 DEF Sends, Silent
<1>8. CASE ~filled.crash /\ m # 0 /\ ~reset
  <2>1. PICK k : k = Least(m, taken)
    OBVIOUS
  <2>2. k \in Nat /\ k <= Len(filled.out)
    BY <1>5, <2>1, ConnectionAssumption DEF Least
  <2>3. PICK out, units, wire, short :
           /\ out = LtrimBuffer(filled.out, k)
           /\ units = SubSeq(filled.out, 1, k)
           /\ wire = filled.wire \o units
           /\ short = (k < m)
    OBVIOUS
  <2>4. d = [filled EXCEPT !.wire = wire, !.short = short, !.out = out]
    BY <1>1, <1>4, <1>5, <1>8, <2>1, <2>3 DEF PlainTransferSend
  <2>5. out \in Seq(Unit(n))
    <3>1. IsClient(filled, n) /\ k \in Int
      BY <1>2, <2>2 DEF Silent
    <3> QED BY <2>3, <3>1, LtrimClient
  <2>6. units \in Seq(Unit(n))
    <3>1. filled.out \in Seq(Unit(n))
      BY <1>2 DEF IsClient, Silent
    <3> QED BY <2>2, <2>3, <3>1
  <2>7. wire \in Wire(n)
    <3>1. filled.wire \in Seq(Unit(n) \cup HeadOf(n))
      BY <1>2 DEF IsClient, Wire, Silent
    <3>2. units \in Seq(Unit(n) \cup HeadOf(n))
      BY <2>6
    <3> QED BY <2>3, <3>1, <3>2 DEF Wire
  <2>8. /\ IsClient(d, n) /\ d.wire = wire
        /\ d.req = filled.req /\ d.method = filled.method /\ d.in = filled.in
    BY <1>2, <2>4, <2>5, <2>7 DEF IsClient, Fields, Silent
  <2> QED BY <1>2, <2>3, <2>6, <2>8 DEF Sends, Silent
<1> QED BY <1>6, <1>7, <1>8

\* What arrives is buffered, and goes into the file being served; nothing is said.
LEMMA PlainTransferRecvSilent ==
    ASSUME NEW n \in Nat, NEW c, IsClient(c, n), NEW pieces \in Seq(Piece(n)),
           NEW failed, NEW d, d = PlainTransferRecv(c, pieces, failed)
    PROVE  /\ IsClient(d, n) /\ d.wire = c.wire /\ d.req = c.req /\ d.method = c.method
           /\ d.in \in {c.in, c.in \o pieces}
<1>1. PICK in : in = c.in \o pieces
  OBVIOUS
<1> DEFINE Good(e) == /\ IsClient(e, n) /\ e.wire = c.wire /\ e.req = c.req /\ e.method = c.method
                      /\ e.in \in {c.in, in}
<1>2. in \in Seq(Piece(n))
  BY <1>1 DEF IsClient
<1>3. PICK got : got = CASE failed -> IF c.in = <<>> THEN c ELSE Crash(c)
                         [] ~failed /\ pieces = <<>> -> [c EXCEPT !.completed = TRUE]
                         [] OTHER -> [c EXCEPT !.in = in]
  OBVIOUS
<1>4. Good(got)
  <2>1. Good(Crash(c))
    BY DEF IsClient, Fields, Crash
  <2>2. Good([c EXCEPT !.completed = TRUE])
    BY DEF IsClient, Fields
  <2>3. Good([c EXCEPT !.in = in])
    BY <1>2 DEF IsClient, Fields
  <2>4. got \in {c, Crash(c), [c EXCEPT !.completed = TRUE], [c EXCEPT !.in = in]}
    BY <1>3
  <2> QED BY <2>1, <2>2, <2>3, <2>4
<1>5. PICK m : m = Least(Len(got.in), NBS)
  OBVIOUS
<1>6. m \in Nat
  BY <1>4, <1>5, ConnectionAssumption DEF IsClient, Least
<1>7. PICK out, pos : out = LtrimBuffer(got.out, m) /\ pos = got.pos + m
  OBVIOUS
<1>8. out \in Seq(Unit(n)) /\ pos \in Nat
  <2>1. out \in Seq(Unit(n))
    BY <1>4, <1>6, <1>7, LtrimClient
  <2>2. got.pos \in Nat
    BY <1>4 DEF IsClient
  <2> QED BY <1>6, <1>7, <2>1, <2>2
<1>9. d \in {got, [got EXCEPT !.completed = TRUE], [got EXCEPT !.pos = pos, !.out = out]}
  <2>1. d = CASE got.crash \/ got.pump = 0 \/ ~got.progress -> got
              [] ~got.crash /\ got.pump # 0 /\ got.progress /\ m = 0 ->
                     [got EXCEPT !.completed = TRUE]
              [] OTHER -> [got EXCEPT !.pos = pos, !.out = out]
    BY <1>1, <1>3, <1>5, <1>7 DEF PlainTransferRecv
  <2> QED BY <2>1
<1>10. CASE d = got
  BY <1>1, <1>4, <1>10
<1>11. CASE d = [got EXCEPT !.completed = TRUE]
  BY <1>1, <1>4, <1>11 DEF IsClient, Fields
<1>12. CASE d = [got EXCEPT !.pos = pos, !.out = out]
  BY <1>1, <1>4, <1>8, <1>12 DEF IsClient, Fields
<1> QED BY <1>9, <1>10, <1>11, <1>12

-----------------------------------------------------------------------------
(* What was said. *)

\* One of the first k requests has a method that the server has.
MethodKnown(k) == \E j \in 1..k : sent[j].method = "known"

Deserved(k) ==
    /\ sent[k].line \in {"1.0", "1.1"}
    /\ sent[k].target = "dir" \/ (IsFile(sent[k]) /\ sent[k].access)
    /\ MethodKnown(k)

Told(wire) == \A i \in 1..Len(wire) : IsHead(wire[i]) /\ wire[i][3] = 200 => Deserved(wire[i][2])

\* Requests are answered in the order in which they were sent: none that is still to be read
\* is older than the one being answered.
Order(req, in, queue) ==
    /\ \A i \in 1..Len(in) :
           /\ req <= in[i].req
           /\ \A j \in 1..Len(in) : i <= j => in[i].req <= in[j].req
           /\ \A j \in 1..Len(queue) : in[i].req <= queue[j].req
    /\ \A i \in 1..Len(queue) :
           /\ req <= queue[i].req
           /\ \A j \in 1..Len(queue) : i <= j => queue[i].req <= queue[j].req

\* A unit is no head.
LEMMA UnitsTold ==
    ASSUME NEW n \in Nat, NEW c, IsClient(c, n), Told(c.wire), NEW d, Sends(c, d, n)
    PROVE  Told(d.wire)
<1>1. PICK u \in Seq(Unit(n)) : d.wire = c.wire \o u
  BY DEF Sends
<1>2. c.wire \in Seq(Unit(n) \cup HeadOf(n))
  BY DEF IsClient, Wire
<1>3. \A i \in 1..Len(u) : ~IsHead(u[i])
  <2>1. \A x \in Unit(n) : ~IsHead(x)
    BY DEF Unit, IsHead
  <2> QED BY <2>1
<1>4. ASSUME NEW i \in 1..Len(d.wire), IsHead(d.wire[i])
      PROVE  i \in 1..Len(c.wire) /\ d.wire[i] = c.wire[i]
  <2>1. CASE i <= Len(c.wire)
    BY <1>1, <1>2, <2>1
  <2>2. CASE i > Len(c.wire)
    <3>1. i - Len(c.wire) \in 1..Len(u) /\ d.wire[i] = u[i - Len(c.wire)]
      BY <1>1, <1>2, <2>2
    <3> QED BY <1>3, <1>4, <3>1
  <2> QED BY <1>2, <2>1, <2>2
<1> QED BY <1>4 DEF Told

\* Another head: a 200 only if it is deserved.
LEMMA HeadTold ==
    ASSUME NEW n \in Nat, NEW c, IsClient(c, n), Told(c.wire),
           NEW r, NEW code, NEW h, NEW w, w = Append(c.wire, <<"head", r, code, h>>),
           code = 200 => Deserved(r)
    PROVE  Told(w)
<1>1. PICK x : x = <<"head", r, code, h>>
  OBVIOUS
<1>2. x[2] = r /\ x[3] = code
  BY <1>1
<1>3. c.wire \in Seq(Unit(n) \cup HeadOf(n))
  BY DEF IsClient, Wire
<1>4. PICK len \in Nat : len = Len(c.wire)
  BY <1>3
<1>5. /\ Len(w) = len + 1
      /\ w[len + 1] = x
      /\ \A i \in 1..len : w[i] = c.wire[i]
  BY <1>1, <1>3, <1>4
<1>6. ASSUME NEW i \in 1..Len(w), IsHead(w[i]), w[i][3] = 200
      PROVE  Deserved(w[i][2])
  <2>1. CASE i \in 1..len
    BY <1>4, <1>5, <1>6, <2>1 DEF Told
  <2>2. CASE i = len + 1
    BY <1>2, <1>5, <1>6, <2>2
  <2> QED BY <1>5, <2>1, <2>2
<1> QED BY <1>6 DEF Told

\* The request whose answer begins is the oldest that was read.
LEMMA HeadOrder ==
    ASSUME NEW n \in Nat, NEW in \in Seq(Piece(n)), in # <<>>, NEW queue, NEW req, Order(req, in, queue)
    PROVE  Order(Head(in).req, in, queue) /\ req <= Head(in).req
<1>1. Head(in) = in[1] /\ 1 \in 1..Len(in) /\ \A i \in 1..Len(in) : 1 <= i
  OBVIOUS
<1> QED BY <1>1 DEF Order

\* parse_request and dispatch_request together.
LEMMA AnswerTold ==
    ASSUME NEW n \in Nat, NEW c, IsClient(c, n), Told(c.wire), c.in # <<>>,
           Order(c.req, c.in, net), c.method => MethodKnown(c.req),
           n = Len(sent), sent \in Seq(Requests), NEW behind, NEW header \in {"short", "nohttp"},
           NEW wild, NEW d, d = Dispatch(Parse(c, behind, header, wild), wild)
    PROVE  /\ IsClient(d, n) /\ Told(d.wire)
           /\ Order(d.req, d.in, net)
           /\ d.method => MethodKnown(d.req)
<1>1. PICK p : p = Parse(c, behind, header, wild)
  OBVIOUS
<1>2. /\ IsClient(p, n)
      /\ p.wire = c.wire
      /\ p.req = Head(c.in).req
      /\ p.req \in 1..n
      /\ p.in \in {c.in, <<>>}
      /\ p.method => c.method \/ sent[p.req].method = "known"
      /\ p.crash \/ p.result # 200 \/ (p.method /\ sent[p.req].line \in {"1.0", "1.1"})
  BY <1>1, ParseCode
<1>3. Order(p.req, c.in, net) /\ c.req <= p.req
  BY <1>2, HeadOrder DEF IsClient
<1>4. p.method => MethodKnown(p.req)
  <2>1. CASE c.method
    BY <1>2, <1>3, <2>1 DEF MethodKnown, IsClient
  <2>2. CASE sent[p.req].method = "known"
    BY <1>2, <2>2 DEF MethodKnown
  <2> QED BY <1>2, <2>1, <2>2
<1>5. \A in \in {c.in, <<>>} : Order(p.req, in, net)
  BY <1>3 DEF Order
<1>6. ASSUME Says(p, d, n), d.wire = p.wire \/ d.result # 200 \/ Deserved(p.req)
      PROVE  /\ IsClient(d, n) /\ Told(d.wire)
             /\ Order(d.req, d.in, net)
             /\ d.method => MethodKnown(d.req)
  <2>1. Told(d.wire)
    <3>1. CASE d.wire = p.wire
      BY <1>2, <3>1
    <3>2. CASE d.wire # p.wire
      <4>1. PICK h \in Seq(Header) : d.wire = Append(p.wire, <<"head", p.req, d.result, h>>)
        BY <1>6, <3>2 DEF Says
      <4>2. d.result = 200 => Deserved(p.req)
        BY <1>6, <3>2
      <4>3. Told(p.wire)
        BY <1>2
      <4>4. PICK code, w : code = d.result /\ w = d.wire
        OBVIOUS
      <4>5. w = Append(p.wire, <<"head", p.req, code, h>>) /\ (code = 200 => Deserved(p.req))
        BY <4>1, <4>2, <4>4
      <4>6. Told(w)
        BY <1>2, <4>3, <4>5, HeadTold, ZenonT(60)
      <4> QED BY <4>4, <4>6
    <3> QED BY <3>1, <3>2
  <2>2. d.req = p.req /\ d.method = p.method /\ d.in \in {c.in, <<>>}
    BY <1>2, <1>6 DEF Says
  <2> QED BY <1>4, <1>5, <1>6, <2>1, <2>2 DEF Says
<1>7. CASE p.crash
  <2>1. d = p
    BY <1>1, <1>7 DEF Dispatch
  <2> QED BY <1>2, <1>6, <2>1 DEF Says
<1>8. CASE ~p.crash /\ p.result = 200
  <2>1. d = DispatchFound(p, wild)
    BY <1>1, <1>8 DEF Dispatch
  <2>2. /\ Says(p, d, n)
        /\ d.result = TargetResult(sent[p.req]) \/ (d.result = 200 /\ d.wire = p.wire)
    BY <1>2, <1>8, <2>1, DispatchFoundSays
  <2>3. TargetResult(sent[p.req]) = 200 => Deserved(p.req)
    BY <1>2, <1>4, <1>8 DEF TargetResult, Deserved
  <2> QED BY <1>6, <2>2, <2>3
<1>9. CASE ~p.crash /\ p.result # 200
  <2>1. d = DispatchRefused(p)
    BY <1>1, <1>9 DEF Dispatch
  <2>2. Says(p, d, n) /\ d.result = p.result
    BY <1>2, <2>1, DispatchRefusedSays
  <2> QED BY <1>6, <1>9, <2>2
<1> QED BY <1>7, <1>8, <1>9

-----------------------------------------------------------------------------
(* The connection. *)

IInv ==
    /\ sent \in Seq(Requests) /\ Len(sent) <= MaxRequests
    /\ net \in Seq(Piece(Len(sent)))
    /\ half \in BOOLEAN /\ fin \in BOOLEAN /\ reset \in BOOLEAN
    /\ half => sent # <<>>
    /\ pc \in {"build", "poll", "handle"}
    /\ revents \in SUBSET {"in", "out", "hup"}
    /\ IsClient(client, Len(sent))
    /\ Told(client.wire)
    /\ Order(client.req, client.in, net)
    /\ client.method => MethodKnown(client.req)

LEMMA InitIInv == Init => IInv
<1> SUFFICES ASSUME Init PROVE IInv
  OBVIOUS
<1>1. IsClient(client, 0)
  <2>1. client = NewClient
    BY DEF Init
  <2>2. \A S : <<>> \in Seq(S)
    BY EmptySeq
  <2> QED BY <2>1, <2>2 DEF NewClient, IsClient, Fields, ConnValues, Codes, Wire
<1>2. /\ Told(client.wire)
      /\ Order(client.req, client.in, net)
      /\ client.method => MethodKnown(client.req)
  BY DEF Init, NewClient, Told, Order
<1>3. sent = <<>> /\ net = <<>> /\ Len(sent) = 0 /\ half = FALSE /\ fin = FALSE /\ reset = FALSE
      /\ pc = "build" /\ revents = {}
  BY DEF Init
<1>4. sent \in Seq(Requests) /\ net \in Seq(Piece(Len(sent)))
  BY <1>3, EmptySeq
<1>5. IsClient(client, Len(sent))
  BY <1>1, <1>3
<1>6. Len(sent) <= MaxRequests
  BY <1>3, ConnectionAssumption
<1> QED BY <1>2, <1>3, <1>4, <1>5, <1>6 DEF IInv

\* What refers to one of n requests refers to one of n + 1.
LEMMA OneMore ==
    ASSUME NEW n \in Nat
    PROVE  /\ \A s \in Seq(Piece(n)) : s \in Seq(Piece(n + 1))
           /\ \A c : IsClient(c, n) => IsClient(c, n + 1)
<1>1. Piece(n) \subseteq Piece(n + 1)
  BY DEF Piece
<1>2. Unit(n) \subseteq Unit(n + 1)
  BY DEF Unit
<1>3. HeadOf(n) \subseteq HeadOf(n + 1)
  BY DEF HeadOf
<1>4. \A s \in Seq(Piece(n)) : s \in Seq(Piece(n + 1))
  BY <1>1
<1>5. \A s \in Seq(Unit(n)) : s \in Seq(Unit(n + 1))
  BY <1>2
<1>6. \A s \in Wire(n) : s \in Wire(n + 1)
  <2>1. Unit(n) \cup HeadOf(n) \subseteq Unit(n + 1) \cup HeadOf(n + 1)
    BY <1>2, <1>3
  <2> DEFINE A == Unit(n) \cup HeadOf(n)
             B == Unit(n + 1) \cup HeadOf(n + 1)
  <2>2. \A s \in Seq(A) : s \in Seq(B)
    <3>1. A \subseteq B
      BY <2>1
    <3> HIDE DEF A, B
    <3> QED BY <3>1
  <2> QED BY <2>2 DEF Wire
<1>7. \A i \in 0..n : i \in 0..(n + 1)
  OBVIOUS
<1> QED BY <1>4, <1>5, <1>6, <1>7 DEF IsClient

\* A piece that arrives behind the others is of the last request.
LEMMA LastInOrder ==
    ASSUME NEW n \in Nat, NEW c, IsClient(c, n), NEW queue \in Seq(Piece(n)), Order(c.req, c.in, queue),
           NEW x, x.req \in Nat, x.req >= n
    PROVE  Order(c.req, c.in, Append(queue, x))
<1>1. /\ c.req \in Int /\ c.req <= x.req
      /\ \A i \in 1..Len(c.in) : c.in[i].req \in Int /\ c.in[i].req <= x.req
      /\ \A i \in 1..Len(queue) : queue[i].req \in Int /\ queue[i].req <= x.req
  BY PiecesReq, SMTT(60) DEF IsClient
<1>2. PICK q : q = Append(queue, x)
  OBVIOUS
<1>3. PICK len \in Nat : len = Len(queue)
  OBVIOUS
<1>4. /\ Len(q) = len + 1 /\ q[len + 1] = x
      /\ \A i \in 1..len : q[i] = queue[i]
  BY <1>2, <1>3
<1>5. ASSUME NEW i \in 1..Len(c.in), NEW j \in 1..Len(q)
      PROVE  c.in[i].req <= q[j].req
  BY <1>1, <1>3, <1>4, SMTT(60) DEF Order
<1>6. ASSUME NEW i \in 1..Len(q)
      PROVE  c.req <= q[i].req /\ \A j \in 1..Len(q) : i <= j => q[i].req <= q[j].req
  <2>1. CASE i \in 1..len
    <3>1. c.req <= q[i].req
      BY <1>3, <1>4, <2>1 DEF Order
    <3>2. ASSUME NEW j \in 1..Len(q), i <= j
          PROVE  q[i].req <= q[j].req
      <4>1. CASE j \in 1..len
        BY <1>3, <1>4, <2>1, <3>2, <4>1 DEF Order
      <4>2. CASE j = len + 1
        BY <1>1, <1>3, <1>4, <2>1, <4>2
      <4> QED BY <1>4, <4>1, <4>2
    <3> QED BY <3>1, <3>2
  <2>2. CASE i = len + 1
    BY <1>1, <1>3, <1>4, <2>2
  <2> QED BY <1>4, <2>1, <2>2
<1>7. Order(c.req, c.in, q)
  BY <1>5, <1>6 DEF Order
<1> QED BY <1>2, <1>7

LEMMA PeerSendIInv ==
    ASSUME IInv, NEW r \in Requests, NEW whole \in BOOLEAN, PeerSend(r, whole)
    PROVE  IInv'
<1>1. PICK n \in Nat : n = Len(sent)
  BY DEF IInv
<1>2. /\ sent' \in Seq(Requests) /\ Len(sent') = n + 1 /\ sent' # <<>>
      /\ n + 1 <= MaxRequests
      /\ \A i \in 1..n : sent'[i] = sent[i]
  BY <1>1, ConnectionAssumption, SMTT(40) DEF IInv, PeerSend
<1>3. PICK piece : piece = [req |-> n + 1, part |-> IF whole THEN "whole" ELSE "begin"]
  OBVIOUS
<1>4. piece \in Piece(n + 1)
  BY <1>3 DEF Piece
<1>5. net' \in Seq(Piece(n + 1))
  <2>1. net \in Seq(Piece(n + 1))
    BY <1>1, OneMore DEF IInv
  <2>2. net' = Append(net, piece)
    BY <1>1, <1>3 DEF PeerSend
  <2> QED BY <1>4, <2>1, <2>2
<1>6. IsClient(client, n + 1) /\ client' = client
  BY <1>1, OneMore DEF IInv, PeerSend
<1>7. Told(client.wire)'
  <2>1. \A x \in Unit(n) \cup HeadOf(n) : IsHead(x) => x[2] \in 1..n
    BY DEF Unit, HeadOf, IsHead
  <2>2. client.wire \in Seq(Unit(n) \cup HeadOf(n))
    BY <1>1 DEF IInv, IsClient, Wire
  <2>3. \A i \in 1..Len(client.wire) : IsHead(client.wire[i]) => client.wire[i][2] \in 1..n
    BY <2>1, <2>2
  <2>4. Told(client.wire)
    BY DEF IInv
  <2>5. ASSUME NEW k \in 1..n, Deserved(k)
        PROVE  Deserved(k)'
    BY <1>2, <2>5 DEF Deserved, MethodKnown
  <2> QED BY <1>6, <2>3, <2>4, <2>5 DEF Told
<1>10. Order(client.req, client.in, net)'
  <2>1. net' = Append(net, piece) /\ piece.req = n + 1
    BY <1>1, <1>3 DEF PeerSend
  <2>2. IsClient(client, n) /\ net \in Seq(Piece(n)) /\ Order(client.req, client.in, net)
    BY <1>1 DEF IInv
  <2> QED BY <1>6, <2>1, <2>2, LastInOrder
<1>11. (client.method => MethodKnown(client.req))'
  <2>1. client.req \in 0..n /\ (client.method => MethodKnown(client.req))
    BY <1>1 DEF IInv, IsClient
  <2> QED BY <1>2, <1>6, <2>1 DEF MethodKnown
<1>8. half' \in BOOLEAN /\ UNCHANGED <<fin, reset, pc, revents>>
  BY DEF PeerSend
<1>9. net' \in Seq(Piece(Len(sent'))) /\ IsClient(client', Len(sent'))
  BY <1>2, <1>5, <1>6
<1> QED BY <1>2, <1>7, <1>8, <1>9, <1>10, <1>11 DEF IInv

LEMMA PeerIInv ==
    ASSUME IInv, Peer
    PROVE  IInv'
<1>1. CASE \E r \in Requests, whole \in BOOLEAN : PeerSend(r, whole)
  BY <1>1, PeerSendIInv
<1>2. CASE PeerSendRest
  <2>1. PICK n \in Nat : n = Len(sent)
    BY DEF IInv
  <2>2. n \in 1..n
    BY <1>2, <2>1 DEF IInv, PeerSendRest
  <2>3. [req |-> n, part |-> "rest"] \in Piece(n)
    BY <2>2 DEF Piece
  <2>4. net' \in Seq(Piece(n))
    BY <1>2, <2>1, <2>3 DEF IInv, PeerSendRest
  <2>5. UNCHANGED <<client, sent, fin, reset, pc, revents>> /\ half' = FALSE
    BY <1>2 DEF PeerSendRest
  <2>6. Told(client.wire)' /\ (client.method => MethodKnown(client.req))'
    BY <2>5 DEF IInv, Told, Deserved, MethodKnown
  <2>7. Order(client.req, client.in, net)'
    <3>1. PICK x : x = [req |-> n, part |-> "rest"]
      OBVIOUS
    <3>2. net' = Append(net, x) /\ x.req = n
      BY <1>2, <2>1, <3>1 DEF PeerSendRest
    <3>3. IsClient(client, n) /\ net \in Seq(Piece(n)) /\ Order(client.req, client.in, net)
      BY <2>1 DEF IInv
    <3> QED BY <2>5, <3>2, <3>3, LastInOrder
  <2> QED BY <2>1, <2>4, <2>5, <2>6, <2>7 DEF IInv
<1>3. CASE PeerFin \/ PeerReset
  <2>1. /\ UNCHANGED <<client, sent, half, net, pc, revents>>
        /\ fin' \in BOOLEAN /\ reset' \in BOOLEAN
    BY <1>3 DEF IInv, PeerFin, PeerReset
  <2>2. Told(client.wire)' /\ (client.method => MethodKnown(client.req))'
    BY <2>1 DEF IInv, Told, Deserved, MethodKnown
  <2>3. Order(client.req, client.in, net)'
    BY <2>1 DEF IInv, Order
  <2> QED BY <2>1, <2>2, <2>3 DEF IInv
<1> QED BY <1>1, <1>2, <1>3 DEF Peer

\* A step of the server keeps what the peer sent, and what its client says is in order.
LEMMA ServerKeeps ==
    ASSUME IInv, sent' = sent, net' \in Seq(Piece(Len(sent))), UNCHANGED <<half, fin, reset>>,
           pc' \in {"build", "poll", "handle"}, revents' \in SUBSET {"in", "out", "hup"},
           IsClient(client', Len(sent)), Told(client'.wire), Order(client'.req, client'.in, net'),
           client'.method => MethodKnown(client'.req)
    PROVE  IInv'
<1>1. Told(client.wire)' /\ (client.method => MethodKnown(client.req))'
  BY DEF Told, Deserved, MethodKnown
<1>2. Order(client.req, client.in, net)'
  BY DEF Order
<1> QED BY <1>1, <1>2 DEF IInv

\* One that says nothing has nothing to show for it.
LEMMA QuietServerKeeps ==
    ASSUME IInv, UNCHANGED <<sent, net, half, fin, reset>>,
           pc' \in {"build", "poll", "handle"}, revents' \in SUBSET {"in", "out", "hup"},
           IsClient(client', Len(sent)), client'.wire = client.wire,
           client'.req = client.req, client'.method = client.method, client'.in \in {client.in, <<>>}
    PROVE  IInv'
<1>1. Told(client'.wire) /\ (client'.method => MethodKnown(client'.req)) /\ net' \in Seq(Piece(Len(sent)))
  BY DEF IInv
<1>2. Order(client'.req, client'.in, net')
  BY DEF IInv, Order
<1> QED BY <1>1, <1>2, ServerKeeps

\* Pieces that are taken off the queue and put behind those in the buffer stay in order.
LEMMA TakenInOrder ==
    ASSUME NEW n \in Nat, NEW in \in Seq(Piece(n)), NEW queue \in Seq(Piece(n)), NEW req,
           Order(req, in, queue), NEW k \in 0..Len(queue), NEW new, new = SubSeq(queue, 1, k),
           NEW rest, rest = SubSeq(queue, k + 1, Len(queue))
    PROVE  Order(req, in, rest) /\ Order(req, in \o new, rest)
<1>1. /\ Len(rest) = Len(queue) - k /\ \A i \in 1..Len(rest) : rest[i] = queue[k + i] /\ k + i \in 1..Len(queue)
      /\ Len(new) = k /\ \A i \in 1..k : new[i] = queue[i] /\ i \in 1..Len(queue)
  OBVIOUS
<1>2. Len(in) \in Nat /\ Len(queue) \in Nat /\ k \in Nat
  OBVIOUS
<1>3. Order(req, in, rest)
  <2>1. ASSUME NEW i \in 1..Len(rest)
        PROVE  /\ req <= rest[i].req
               /\ \A j \in 1..Len(rest) : i <= j => rest[i].req <= rest[j].req
    <3>1. req <= rest[i].req
      BY <1>1 DEF Order
    <3>2. ASSUME NEW j \in 1..Len(rest), i <= j
          PROVE  rest[i].req <= rest[j].req
      <4>1. k + i <= k + j
        BY <1>2, <3>2
      <4> QED BY <1>1, <4>1 DEF Order
    <3> QED BY <3>1, <3>2
  <2>2. \A i \in 1..Len(in), j \in 1..Len(rest) : in[i].req <= rest[j].req
    BY <1>1 DEF Order
  <2> QED BY <2>1, <2>2 DEF Order
<1>4. PICK both : both = in \o new
  OBVIOUS
<1>5. /\ Len(both) = Len(in) + k
      /\ \A i \in 1..Len(both) : IF i <= Len(in) THEN i \in 1..Len(in) /\ both[i] = in[i]
                                  ELSE i - Len(in) \in 1..k /\ both[i] = new[i - Len(in)]
  BY <1>1, <1>2, <1>4, SMTT(60)
<1>6. ASSUME NEW i \in 1..Len(both)
      PROVE  /\ req <= both[i].req
             /\ \A j \in 1..Len(both) : i <= j => both[i].req <= both[j].req
             /\ \A j \in 1..Len(rest) : both[i].req <= rest[j].req
  <2>1. CASE i <= Len(in)
    <3>1. i \in 1..Len(in) /\ both[i] = in[i]
      BY <1>5, <2>1
    <3>2. ASSUME NEW j \in 1..Len(both), i <= j
          PROVE  both[i].req <= both[j].req
      BY <1>1, <1>2, <1>5, <3>1, <3>2, SMTT(60) DEF Order
    <3>3. ASSUME NEW j \in 1..Len(rest)
          PROVE  both[i].req <= rest[j].req
      BY <1>1, <3>1 DEF Order
    <3> QED BY <3>1, <3>2, <3>3 DEF Order
  <2>2. CASE ~(i <= Len(in))
    <3>1. PICK a \in 1..k : a = i - Len(in) /\ a \in 1..Len(queue) /\ both[i] = queue[a]
      BY <1>1, <1>5, <2>2
    <3>2. ASSUME NEW j \in 1..Len(both), i <= j
          PROVE  both[i].req <= both[j].req
      <4>1. PICK b \in 1..k : b = j - Len(in) /\ b \in 1..Len(queue) /\ both[j] = queue[b]
        BY <1>1, <1>2, <1>5, <2>2, <3>2
      <4>2. a <= b
        BY <1>2, <3>1, <3>2, <4>1
      <4> QED BY <3>1, <4>1, <4>2 DEF Order
    <3>3. ASSUME NEW j \in 1..Len(rest)
          PROVE  both[i].req <= rest[j].req
      <4>1. k + j \in 1..Len(queue) /\ rest[j] = queue[k + j]
        BY <1>1
      <4>2. a <= k + j
        BY <1>1, <1>2
      <4> QED BY <3>1, <4>1, <4>2 DEF Order
    <3> QED BY <3>1, <3>2, <3>3 DEF Order
  <2> QED BY <2>1, <2>2
<1>7. Order(req, both, rest)
  BY <1>3, <1>6 DEF Order
<1> QED BY <1>3, <1>4, <1>7

LEMMA ServiceThreadIInv ==
    ASSUME IInv, ServiceThread
    PROVE  IInv'
<1>1. PICK n \in Nat : n = Len(sent)
  BY DEF IInv
<1>2. /\ IsClient(client, n) /\ Told(client.wire)
      /\ Order(client.req, client.in, net) /\ (client.method => MethodKnown(client.req))
      /\ sent \in Seq(Requests) /\ net \in Seq(Piece(n))
      /\ pc \in {"build", "poll", "handle"} /\ revents \in SUBSET {"in", "out", "hup"}
  BY <1>1 DEF IInv
<1>3. CASE FinishTransfer
  <2>1. PICK closed : closed = PlainTransferClose(client)
    OBVIOUS
  <2>2. Silent(client, closed, n)
    BY <1>2, <2>1, PlainTransferCloseSilent
  <2>3. client' = AfterTransfer(closed) /\ UNCHANGED <<peerVars, pc, revents>>
    BY <1>3, <2>1 DEF FinishTransfer
  <2>4. Silent(closed, client', n)
    BY <2>2, <2>3, AfterTransferSilent DEF Silent
  <2> QED BY <1>1, <1>2, <2>2, <2>3, <2>4, QuietServerKeeps DEF Silent, peerVars
<1>4. ASSUME NEW behind \in Behind, NEW header \in {"short", "nohttp"}, NEW wild \in BOOLEAN,
             Service(behind, header, wild)
      PROVE  IInv'
  <2>1. UNCHANGED peerVars /\ revents' = revents /\ pc' = "poll"
    BY <1>4 DEF Service
  <2>2. CASE RequestComplete(client, behind)
    <3>1. client' = Dispatch(Parse(client, behind, header, wild), wild)
      BY <1>4, <2>2 DEF Service
    <3>2. client.in # <<>>
      BY <2>2 DEF RequestComplete
    <3>3. /\ IsClient(client', n) /\ Told(client'.wire)
          /\ Order(client'.req, client'.in, net)
          /\ client'.method => MethodKnown(client'.req)
      BY <1>1, <1>2, <3>1, <3>2, AnswerTold
    <3> QED BY <1>1, <1>2, <2>1, <3>3, ServerKeeps DEF peerVars
  <2>3. CASE ~RequestComplete(client, behind)
    <3>1. client' = client
      BY <1>4, <2>3 DEF Service
    <3> QED BY <1>1, <1>2, <2>1, <3>1, QuietServerKeeps DEF peerVars
  <2> QED BY <2>2, <2>3
<1>5. ASSUME NEW writable \in BOOLEAN, Poll(writable)
      PROVE  IInv'
  <2>1. UNCHANGED <<client, peerVars>> /\ pc' \in {"build", "handle"}
        /\ revents' \in SUBSET {"in", "out", "hup"}
    BY <1>5 DEF Poll
  <2> QED BY <1>1, <1>2, <2>1, QuietServerKeeps DEF peerVars
<1>6. CASE HandleHup
  <2>1. UNCHANGED peerVars /\ pc' = "build" /\ revents' = {}
        /\ client' = [client EXCEPT !.active = FALSE]
    BY <1>6 DEF HandleHup
  <2>2. Silent(client, client', n)
    BY <1>2, <2>1 DEF IsClient, Fields, Silent
  <2> QED BY <1>1, <1>2, <2>1, <2>2, QuietServerKeeps DEF peerVars, Silent
<1>7. ASSUME NEW k \in 0..Len(net), HandleIn(k)
      PROVE  IInv'
  <2>0. PICK failed \in BOOLEAN : failed = (net = <<>> /\ reset)
    BY DEF IInv
  <2>1. PICK pieces : pieces = SubSeq(net, 1, k)
    OBVIOUS
  <2>2. net' = SubSeq(net, k + 1, Len(net)) /\ UNCHANGED <<sent, half, fin, reset>>
        /\ pc' = "build" /\ revents' = {}
    BY <1>7 DEF HandleIn
  <2>3. pieces \in Seq(Piece(n)) /\ net' \in Seq(Piece(n))
    BY <1>2, <2>1, <2>2
  <2>4. client' = PlainTransferRecv(client, pieces, failed)
    BY <1>7, <2>0, <2>1 DEF HandleIn
  <2>5. /\ IsClient(client', n) /\ client'.wire = client.wire
        /\ client'.req = client.req /\ client'.method = client.method
        /\ client'.in \in {client.in, client.in \o pieces}
    <3>1. PICK d : d = client'
      OBVIOUS
    <3>2. d = PlainTransferRecv(client, pieces, failed)
      BY <2>4, <3>1
    <3>3. IsClient(client, n) /\ pieces \in Seq(Piece(n))
      BY <1>2, <2>3
    <3>4. /\ IsClient(d, n) /\ d.wire = client.wire /\ d.req = client.req /\ d.method = client.method
          /\ d.in \in {client.in, client.in \o pieces}
      BY <3>2, <3>3, PlainTransferRecvSilent, SMTT(60)
    <3> QED BY <3>1, <3>4
  <2>6. Order(client.req, client.in, net') /\ Order(client.req, client.in \o pieces, net')
    BY <1>2, <2>1, <2>2, TakenInOrder DEF IsClient
  <2> QED BY <1>1, <1>2, <2>2, <2>3, <2>5, <2>6, ServerKeeps
<1>8. ASSUME NEW killed \in BOOLEAN, NEW taken \in 1..NBS, HandleOut(killed, taken)
      PROVE  IInv'
  <2>1. client' = PlainTransferSend(client, killed, taken) /\ UNCHANGED peerVars
        /\ pc' = "build" /\ revents' = {}
    BY <1>8 DEF HandleOut
  <2>2. Sends(client, client', n)
    BY <1>1, <1>2, <2>1, PlainTransferSendSends
  <2>3. Told(client'.wire)
    BY <1>2, <2>2, UnitsTold
  <2>4. Order(client'.req, client'.in, net)
    BY <1>2, <2>2, SMTT(60) DEF Order, Sends
  <2> QED BY <1>1, <1>2, <2>1, <2>2, <2>3, <2>4, ServerKeeps DEF peerVars, Sends
<1> QED BY <1>3, <1>4, <1>5, <1>6, <1>7, <1>8 DEF ServiceThread

LEMMA DeleteClientIInv ==
    ASSUME IInv, DeleteClient
    PROVE  IInv'
<1>1. PICK n \in Nat : n = Len(sent)
  BY DEF IInv
<1>2. PICK cleared : cleared = ClearClient(client)
  OBVIOUS
<1>3. Silent(client, cleared, n)
  BY <1>1, <1>2, ClearClientSilent DEF IInv
<1>4. client' = [cleared EXCEPT !.open = FALSE] /\ UNCHANGED <<peerVars, pc, revents>>
  BY <1>2 DEF DeleteClient
<1>5. Silent(client, client', n)
  BY <1>3, <1>4 DEF Silent, IsClient, Fields
<1>6. net' \in Seq(Piece(Len(sent))) /\ pc' \in {"build", "poll", "handle"}
      /\ revents' \in SUBSET {"in", "out", "hup"}
  BY <1>4 DEF IInv, peerVars
<1> QED BY <1>1, <1>4, <1>5, <1>6, QuietServerKeeps DEF peerVars, Silent

THEOREM Inductive == Spec => []IInv
<1>1. IInv /\ [Next]_vars => IInv'
  <2> SUFFICES ASSUME IInv, [Next]_vars PROVE IInv'
    OBVIOUS
  <2>1. CASE Peer
    BY <2>1, PeerIInv
  <2>2. CASE ServiceThread
    BY <2>2, ServiceThreadIInv
  <2>3. CASE DeleteClient
    BY <2>3, DeleteClientIInv
  <2>4. CASE UNCHANGED vars
    BY <2>4 DEF vars, IInv, Told, Order, Deserved, MethodKnown
  <2> QED BY <2>1, <2>2, <2>3, <2>4 DEF Next
<1> QED BY InitIInv, <1>1, PTL DEF Spec

\* OkIsDeserved (main.c:274-434): a response that says OK is to a request of a version the
\* server speaks, for a file it could open or a directory below the document root, and its
\* method, or that of an earlier request on the connection, is one the server has.
THEOREM OkIsForTheDeserving == Spec => []OkIsDeserved
<1>1. IInv => OkIsDeserved
  BY DEF IInv, Told, Deserved, MethodKnown, OkIsDeserved
<1> QED BY <1>1, Inductive, PTL

-----------------------------------------------------------------------------
(* What is buffered. *)

Listing(x) == x[1] = "list"

\* Behind the last unit of a listing there is no more than a block, and less than one while
\* a request may still be answered.
Full(out)  == Len(out) > NBS => \E j \in 1..Len(out) : Len(out) - j <= NBS /\ Listing(out[j])
Room(out)  == Len(out) >= NBS => \E j \in 1..Len(out) : Len(out) - j < NBS /\ Listing(out[j])

Fits(c) ==
    /\ Full(c.out)
    /\ c.active /\ ~c.cut /\ ~c.crash => Room(c.out)

LEMMA EmptyFits == Full(<<>>) /\ Room(<<>>)
BY ConnectionAssumption DEF Full, Room

LEMMA TrimFits ==
    ASSUME NEW n \in Nat, NEW out \in Seq(Unit(n)), NEW k \in Int
    PROVE  /\ Full(out) => Full(LtrimBuffer(out, k))
           /\ Room(out) => Room(LtrimBuffer(out, k))
           /\ Len(out) <= NBS /\ k \in 1..Len(out) => Room(LtrimBuffer(out, k)) /\ Full(LtrimBuffer(out, k))
<1>1. CASE k \notin 0..Len(out)
  <2>1. LtrimBuffer(out, k) = <<>>
    BY <1>1 DEF LtrimBuffer
  <2> QED BY <2>1, EmptyFits
<1>2. CASE k \in 0..Len(out)
  <2>1. PICK rest : rest = LtrimBuffer(out, k)
    OBVIOUS
  <2>2. PICK len \in Nat : len = Len(out)
    OBVIOUS
  <2>3. Len(rest) = len - k /\ \A j \in 1..(len - k) : rest[j] = out[j + k]
    BY <1>2, <2>1, <2>2 DEF LtrimBuffer
  <2>4. ASSUME NEW bound \in Nat, len - k > bound, NEW j \in 1..len, len - j <= bound, Listing(out[j])
        PROVE  \E i \in 1..Len(rest) : Len(rest) - i <= bound /\ Listing(rest[i])
    <3>1. j - k \in 1..(len - k) /\ (len - k) - (j - k) <= bound /\ j - k + k = j
      BY <1>2, <2>2, <2>4
    <3>2. rest[j - k] = out[j]
      BY <2>3, <3>1
    <3> QED BY <2>3, <2>4, <3>1, <3>2
  <2>5. NBS \in Nat /\ NBS - 1 \in Nat
    BY ConnectionAssumption
  <2>6. ASSUME Full(out) PROVE Full(rest)
    <3> SUFFICES ASSUME len - k > NBS
                 PROVE  \E i \in 1..Len(rest) : Len(rest) - i <= NBS /\ Listing(rest[i])
      BY <2>3 DEF Full
    <3>1. PICK j \in 1..len : len - j <= NBS /\ Listing(out[j])
      BY <1>2, <2>2, <2>5, <2>6 DEF Full
    <3> QED BY <2>4, <2>5, <3>1
  <2>7. ASSUME Room(out) PROVE Room(rest)
    <3> SUFFICES ASSUME len - k >= NBS
                 PROVE  \E i \in 1..Len(rest) : Len(rest) - i < NBS /\ Listing(rest[i])
      BY <2>3 DEF Room
    <3>1. PICK j \in 1..len : len - j < NBS /\ Listing(out[j])
      BY <1>2, <2>2, <2>5, <2>7 DEF Room
    <3>2. PICK bound \in Nat : bound = NBS - 1
      BY <2>5
    <3>3. len - k > bound /\ len - j <= bound
      BY <1>2, <2>2, <2>5, <3>1, <3>2
    <3>4. PICK i \in 1..Len(rest) : Len(rest) - i <= bound /\ Listing(rest[i])
      BY <2>4, <3>1, <3>3
    <3> QED BY <1>2, <2>2, <2>3, <2>5, <3>2, <3>4
  <2>8. ASSUME len <= NBS, k \in 1..len PROVE Room(rest) /\ Full(rest)
    <3>1. Len(rest) < NBS /\ ~(Len(rest) > NBS) /\ ~(Len(rest) >= NBS)
      BY <2>2, <2>3, <2>5, <2>8
    <3> QED BY <3>1 DEF Room, Full
  <2> QED BY <2>1, <2>2, <2>6, <2>7, <2>8
<1> QED BY <1>1, <1>2

\* Where a block has room, another unit at the end is not too much.
LEMMA AppendFits ==
    ASSUME NEW n \in Nat, NEW out \in Seq(Unit(n)), Room(out), NEW x
    PROVE  Full(Append(out, x))
<1>1. PICK more : more = Append(out, x)
  OBVIOUS
<1>2. PICK len \in Nat : len = Len(out)
  OBVIOUS
<1>3. Len(more) = len + 1 /\ \A j \in 1..len : more[j] = out[j] /\ j \in 1..(len + 1)
  BY <1>1, <1>2
<1>4. ASSUME len + 1 > NBS
      PROVE  \E j \in 1..Len(more) : Len(more) - j <= NBS /\ Listing(more[j])
  <2>1. PICK j \in 1..len : len - j < NBS /\ Listing(out[j])
    BY <1>2, <1>4, ConnectionAssumption DEF Room
  <2>2. (len + 1) - j <= NBS
    BY <2>1, ConnectionAssumption
  <2> QED BY <1>3, <2>1, <2>2
<1> QED BY <1>1, <1>3, <1>4 DEF Full

\* A listing ends with a unit of its own.
LEMMA ListingFits ==
    ASSUME NEW n \in Nat, NEW c, IsClient(c, n), c.req \in 1..n, Room(c.out)
    PROVE  Room(GenerateDirListing(c).out)
<1>1. PICK listing : listing = [k \in 1..ListLen |-> <<"list", c.req, k>>]
  OBVIOUS
<1>2. PICK out : out = c.out \o listing
  OBVIOUS
<1>3. GenerateDirListing(c).out = out
  <2>1. PICK outh : outh = Append(c.outh, <<"length", Len(out)>>)
    OBVIOUS
  <2>2. GenerateDirListing(c) = [c EXCEPT !.out = out, !.outh = outh]
    BY <1>1, <1>2, <2>1 DEF GenerateDirListing
  <2> QED BY <2>2 DEF IsClient, Fields
<1>4. ListLen \in Nat /\ c.out \in Seq(Unit(n)) /\ Len(listing) = ListLen /\ listing \in Seq(Unit(n))
  <2>1. \A k \in 1..ListLen : <<"list", c.req, k>> \in Unit(n)
    BY ConnectionAssumption DEF Unit
  <2> QED BY <1>1, <2>1, ConnectionAssumption DEF IsClient
<1>5. CASE ListLen = 0
  <2>1. listing = <<>>
    BY <1>4, <1>5
  <2>2. out = c.out
    BY <1>2, <1>4, <2>1
  <2> QED BY <1>3, <2>2
<1>6. CASE ListLen > 0
  <2>1. PICK last : last = Len(c.out) + ListLen
    OBVIOUS
  <2>2. Len(out) = last /\ last \in 1..last /\ out[last] = listing[ListLen]
    <3> DEFINE Units == Seq(Unit(n))
    <3>0. \A a, b \in Units : Len(a \o b) = Len(a) + Len(b)
      OBVIOUS
    <3>1. Len(c.out) \in Nat /\ Len(out) = Len(c.out) + Len(listing)
      <4>1. PICK before : before = c.out
        OBVIOUS
      <4>2. before \in Units /\ listing \in Units /\ out = before \o listing
        BY <1>2, <1>4, <4>1
      <4> HIDE DEF Units
      <4>3. Len(out) = Len(before) + Len(listing)
        BY <3>0, <4>2
      <4> QED BY <1>4, <4>1, <4>3
    <3>2. last \in Len(c.out) + 1 .. Len(c.out) + Len(listing) /\ last - Len(c.out) = ListLen
      BY <1>4, <1>6, <2>1, <3>1
    <3>3. \A k \in Len(c.out) + 1 .. Len(c.out) + Len(listing) : out[k] = listing[k - Len(c.out)]
      BY <1>2, <1>4 DEF Units
    <3>4. out[last] = listing[ListLen]
      BY <3>2, <3>3
    <3> QED BY <1>4, <1>6, <2>1, <3>1, <3>4
  <2>3. Listing(out[last])
    BY <1>1, <1>4, <1>6, <2>2 DEF Listing
  <2>4. last - last < NBS
    BY <2>2, ConnectionAssumption
  <2> QED BY <1>3, <2>2, <2>3, <2>4 DEF Room
<1> QED BY <1>4, <1>5, <1>6

\* A response with the flags of the request's version, or a first line that was cut off: a
\* refused request is not looked at again while its page is buffered.
LEMMA ParseLeaves ==
    ASSUME NEW n \in Nat, NEW c, IsClient(c, n), c.in # <<>>,
           n = Len(sent), sent \in Seq(Requests), NEW behind, NEW header \in {"short", "nohttp"},
           NEW wild, NEW d, d = Parse(c, behind, header, wild)
    PROVE  /\ d.out = c.out
           /\ d.crash \/ d.cut \/ "1.0" \in d.flags \/ "1.1" \in d.flags
<1> DEFINE line  == FirstLine(c, header)
           Good(e) == IsClient(e, n) /\ e.out = c.out /\ e.cut
<1>1. PICK first : first = line
  OBVIOUS
<1> HIDE DEF line
<1>2. first \in {"short", "nohttp", "other", "1.0", "1.1"}
  <2>1. sent[Head(c.in).req] \in Request
    BY ReadingSilent, ConnectionAssumption, SMTT(60)
  <2> QED BY <1>1, <2>1 DEF line, FirstLine, Request
<1>3. PICK begun : begun = CutFirstLine(c)
  OBVIOUS
<1>4. Good(begun)
  <2>1. IsClient(begun, n)
    BY <1>3, ReadingSilent
  <2> QED BY <1>3, <2>1 DEF CutFirstLine, IsClient, Fields
<1>5. PICK known : known = ReadFirstLine(c, header)
  OBVIOUS
<1>6. Good(known) /\ known.flags = VersionFlags(begun.flags, first)
  <2>1. IsClient(known, n)
    BY <1>5, ReadingSilent
  <2>2. PICK flags, method : /\ flags = VersionFlags(begun.flags, first)
                            /\ known = [begun EXCEPT !.flags = flags, !.method = method]
    BY <1>1, <1>3, <1>5 DEF ReadFirstLine, line
  <2> QED BY <1>4, <2>1, <2>2 DEF IsClient, Fields
<1>7. PICK read : read = ReadHeaders(c, behind, header)
  OBVIOUS
<1>8. Good(read) /\ \E connection : read.flags = KeepAliveFlags(known.flags, connection)
  <2>1. IsClient(read, n)
    BY <1>7, ReadingSilent
  <2>2. PICK conn, host, flags : /\ flags = KeepAliveFlags(known.flags, conn)
                                /\ read = [known EXCEPT !.conn = conn, !.host = host, !.flags = flags]
    BY <1>5, <1>7 DEF ReadHeaders
  <2> QED BY <1>6, <2>1, <2>2 DEF IsClient, Fields
<1>9. CASE first = "short"
  <2>1. PICK flags : d = [begun EXCEPT !.result = 400, !.flags = flags]
    BY <1>1, <1>3, <1>9, ZenonT(60) DEF Parse, line
  <2> QED BY <1>4, <2>1 DEF IsClient, Fields
<1>10. CASE first \in {"nohttp", "other"}
  <2>1. PICK flags : flags = VersionFlags(begun.flags, first)
    OBVIOUS
  <2>2. d \in {[begun EXCEPT !.result = 400, !.flags = flags],
              [begun EXCEPT !.result = 505, !.flags = flags]}
    <3>2. CASE first = "nohttp"
      <4>1. d = [begun EXCEPT !.result = 400, !.flags = VersionFlags(@, first)]
        BY <1>1, <1>3, <3>2 DEF Parse, line
      <4> QED BY <2>1, <4>1
    <3>3. CASE first = "other"
      <4>1. d = [begun EXCEPT !.result = 505, !.flags = VersionFlags(@, first)]
        BY <1>1, <1>3, <3>3 DEF Parse, line
      <4> QED BY <2>1, <4>1
    <3> QED BY <1>10, <3>2, <3>3
  <2>3. CASE d = [begun EXCEPT !.result = 400, !.flags = flags]
    BY <1>4, <2>3 DEF IsClient, Fields
  <2>4. CASE d = [begun EXCEPT !.result = 505, !.flags = flags]
    BY <1>4, <2>4 DEF IsClient, Fields
  <2> QED BY <2>2, <2>3, <2>4
<1>11. CASE first \in {"1.0", "1.1"} /\ ~known.method
  <2>1. d = [known EXCEPT !.result = 501]
    BY <1>1, <1>5, <1>11 DEF Parse, line
  <2> QED BY <1>6, <2>1 DEF IsClient, Fields
<1>12. CASE first \in {"1.0", "1.1"} /\ known.method /\ LooksUpHost(read) /\ wild
  <2>1. d = Crash(read)
    BY <1>1, <1>5, <1>7, <1>12 DEF Parse, line
  <2> QED BY <1>8, <2>1 DEF IsClient, Fields, Crash
<1>13. CASE first \in {"1.0", "1.1"} /\ known.method /\ ~(LooksUpHost(read) /\ wild)
  <2>1. d = LookUp(read)
    BY <1>1, <1>5, <1>7, <1>13 DEF Parse, line
  <2>2. PICK code, cgi : d = [read EXCEPT !.result = code, !.cgi = cgi, !.in = <<>>, !.cut = FALSE]
    BY <2>1 DEF LookUp
  <2>3. d.out = c.out /\ d.flags = read.flags
    BY <1>8, <2>2 DEF IsClient, Fields
  <2>4. "1.0" \in read.flags \/ "1.1" \in read.flags
    <3>1. "1.0" \in known.flags \/ "1.1" \in known.flags
      BY <1>6, <1>13 DEF VersionFlags
    <3> QED BY <1>8, <3>1 DEF KeepAliveFlags, Toggle
  <2> QED BY <2>3, <2>4
<1> QED BY <1>2, <1>9, <1>10, <1>11, <1>12, <1>13

LEMMA SendHeadLeaves ==
    ASSUME NEW n \in Nat, NEW c, IsClient(c, n), NEW d, d = SendHead(c)
    PROVE  /\ d.out = c.out /\ d.cut = c.cut
           /\ d.active = c.active
           /\ c.crash => d.crash
<1>1. PICK outh, wire : d \in {Crash(c), [c EXCEPT !.outh = outh, !.wire = wire]}
  <2>1. CASE reset
    BY <2>1 DEF SendHead
  <2>2. CASE ~reset
    BY <2>2 DEF SendHead
  <2> QED BY <2>1, <2>2
<1> QED BY <1>1 DEF Crash, IsClient, Fields

\* parse_request and dispatch_request together.
LEMMA AnswerFits ==
    ASSUME NEW n \in Nat, NEW c, IsClient(c, n), Room(c.out), c.in # <<>>,
           n = Len(sent), sent \in Seq(Requests), NEW behind, NEW header \in {"short", "nohttp"},
           NEW wild, NEW d, d = Dispatch(Parse(c, behind, header, wild), wild)
    PROVE  Fits(d)
<1>1. PICK p : p = Parse(c, behind, header, wild)
  OBVIOUS
<1>2. IsClient(p, n) /\ p.req \in 1..n
  BY <1>1, ParseCode
<1>3. p.out = c.out /\ (p.crash \/ p.cut \/ "1.0" \in p.flags \/ "1.1" \in p.flags)
  BY <1>1, ParseLeaves
<1>4. \A out \in Seq(Unit(n)) : Room(out) => Full(out)
  <2> SUFFICES ASSUME NEW out \in Seq(Unit(n)), Room(out), Len(out) > NBS
               PROVE  \E j \in 1..Len(out) : Len(out) - j <= NBS /\ Listing(out[j])
    BY DEF Full
  <2>1. Len(out) \in Nat /\ NBS \in Nat
    BY ConnectionAssumption
  <2>2. PICK j \in 1..Len(out) : Len(out) - j < NBS /\ Listing(out[j])
    BY <2>1 DEF Room
  <2> QED BY <2>1, <2>2
<1>5. CASE p.crash
  <2>1. d = p
    BY <1>1, <1>5 DEF Dispatch
  <2> QED BY <1>2, <1>3, <1>4, <1>5, <2>1 DEF Fits, IsClient
<1>6. CASE ~p.crash /\ p.result = 200
  <2>1. d = DispatchFound(p, wild)
    BY <1>1, <1>6 DEF Dispatch
  <2>2. CASE d = Crash(p)
    BY <1>2, <1>3, <1>4, <2>2 DEF Fits, Crash, IsClient, Fields
  <2>3. CASE d # Crash(p)
    <3>1. PICK body \in {PlainTransferOpen(p), GenerateDirListing(p), p}, code \in Codes :
             d = SendHead([body EXCEPT !.result = code])
      <4>1. PICK r : r = sent[p.req]
        OBVIOUS
      <4>2. TargetResult(r) \in Codes
        BY TargetCodes DEF Codes
      <4>3. CASE IsFile(r)
        BY <2>1, <2>3, <4>1, <4>2, <4>3 DEF DispatchFound, IsFile
      <4>4. CASE r.target = "dir"
        BY <2>1, <2>3, <4>1, <4>2, <4>4 DEF DispatchFound, IsFile
      <4>5. CASE ~IsFile(r) /\ r.target # "dir"
        BY <2>1, <2>3, <4>1, <4>2, <4>5 DEF DispatchFound
      <4> QED BY <4>3, <4>4, <4>5
    <3>2. IsClient(body, n)
      BY <1>2, <3>1, PlainTransferOpenSilent, GenerateDirListingSilent DEF Silent
    <3>3. Room(body.out)
      <4>1. CASE body = PlainTransferOpen(p)
        <5>1. body.out = p.out
          BY <1>2, <4>1 DEF PlainTransferOpen, IsClient, Fields
        <5> QED BY <1>3, <5>1
      <4>2. CASE body = GenerateDirListing(p)
        BY <1>2, <1>3, <4>2, ListingFits
      <4> QED BY <1>3, <3>1, <4>1, <4>2
    <3>4. PICK coded : coded = [body EXCEPT !.result = code]
      OBVIOUS
    <3>5. IsClient(coded, n) /\ coded.out = body.out
      BY <3>2, <3>4 DEF IsClient, Fields
    <3>6. d.out = coded.out
      BY <3>1, <3>4, <3>5, SendHeadLeaves
    <3> QED BY <1>4, <3>2, <3>3, <3>5, <3>6 DEF Fits, IsClient
  <2> QED BY <2>2, <2>3
<1>7. CASE ~p.crash /\ p.result # 200
  <2>1. d = DispatchRefused(p)
    BY <1>1, <1>7 DEF Dispatch
  <2>2. PICK told : told = SendHead(p)
    OBVIOUS
  <2>3. Says(p, told, n) /\ told.out = p.out /\ told.cut = p.cut
    BY <1>2, <2>2, SendHeadSays, SendHeadLeaves
  <2>4. PICK out : out = Append(told.out, <<"html", p.req, 1>>)
    OBVIOUS
  <2>5. Full(out)
    <3>1. told.out \in Seq(Unit(n)) /\ Room(told.out)
      BY <1>2, <1>3, <2>3 DEF IsClient
    <3> QED BY <2>4, <3>1, AppendFits
  <2>6. PICK body : body = [told EXCEPT !.out = out]
    OBVIOUS
  <2>7. body.out = out /\ body.cut = p.cut /\ DOMAIN body = Fields
    BY <2>3, <2>6 DEF Says, IsClient, Fields
  <2>8. PICK ended : /\ d \in {ended, Crash(ended)}
                    /\ \/ ended = ClearClient(body)
                       \/ ended = EndConnection(body)
                       \/ ended = body /\ "1.0" \notin p.flags /\ "1.1" \notin p.flags
    <3>1. PICK ended : ended = CASE "1.1" \in p.flags -> ClearClient(body)
                              [] "1.1" \notin p.flags /\ "1.0" \in p.flags -> EndConnection(body)
                              [] OTHER -> body
      OBVIOUS
    <3>2. d = IF told.crash \/ p.method THEN ended ELSE Crash(ended)
      BY <2>1, <2>2, <2>4, <2>6, <3>1 DEF DispatchRefused
    <3>3. ended \in {ClearClient(body), EndConnection(body)}
             \/ (ended = body /\ "1.0" \notin p.flags /\ "1.1" \notin p.flags)
      BY <3>1
    <3>4. d \in {ended, Crash(ended)}
      BY <3>2
    <3> QED BY <3>3, <3>4
  <2>9. Fits(ended)
    <3>1. CASE ended = ClearClient(body)
      BY <2>7, <3>1, EmptyFits DEF ClearClient, Fits, Fields
    <3>2. CASE ended = EndConnection(body)
      BY <2>5, <2>7, <3>2 DEF EndConnection, Fits, Fields
    <3>3. CASE ended = body /\ "1.0" \notin p.flags /\ "1.1" \notin p.flags
      BY <1>3, <1>7, <2>5, <2>7, <3>3 DEF Fits
    <3> QED BY <2>8, <3>1, <3>2, <3>3
  <2>10. DOMAIN ended = Fields
    BY <2>7, <2>8 DEF ClearClient, EndConnection
  <2> QED BY <2>8, <2>9, <2>10 DEF Crash, Fits, Fields
<1> QED BY <1>5, <1>6, <1>7

\* A block is filled, and leaves at least in part.
LEMMA SendFits ==
    ASSUME NEW n \in Nat, NEW c, IsClient(c, n), Fits(c), ~c.crash, n = Len(sent), sent \in Seq(Requests),
           NEW killed, NEW taken \in 1..NBS, NEW d, d = PlainTransferSend(c, killed, taken)
    PROVE  Fits(d)
<1>1. PICK filled : filled = FillFromFile(c)
  OBVIOUS
<1>2. IsClient(filled, n) /\ filled.out \in Seq(Unit(n))
  BY <1>1, FillFromFileSilent DEF Silent, IsClient
<1>3. /\ filled.cut = c.cut /\ filled.active = c.active
      /\ \/ filled.out = c.out
         \/ Len(filled.out) <= NBS /\ ~filled.crash
  <2> DEFINE room == NBS - Len(c.out)
             least == Least(room, sent[c.pump].size - c.pos)
  <2>1. room \in Int /\ Len(c.out) \in Nat
    BY ConnectionAssumption DEF IsClient
  <2>2. CASE c.pump = 0 \/ ~c.progress \/ room = 0
    BY <1>1, <2>2 DEF FillFromFile
  <2>3. CASE c.pump # 0 /\ c.progress /\ room < 0
    <3>1. filled = Crash(c)
      BY <1>1, <2>1, <2>3 DEF FillFromFile
    <3> QED BY <3>1 DEF Crash, IsClient, Fields
  <2>4. CASE c.pump # 0 /\ c.progress /\ room > 0
    <3>1. c.pump \in 1..n /\ sent[c.pump].size \in Nat /\ c.pos \in Nat
      <4>1. c.pump \in 1..n /\ c.pos \in Nat
        BY <2>4 DEF IsClient
      <4>2. sent[c.pump] \in Request
        BY <4>1, ConnectionAssumption
      <4> QED BY <4>1, <4>2 DEF Request
    <3>2. least \in Int /\ least <= room
      BY <2>1, <3>1 DEF Least
    <3>3. CASE least <= 0
      <4>1. filled = [c EXCEPT !.completed = TRUE]
        BY <1>1, <2>4, <3>2, <3>3 DEF FillFromFile
      <4> QED BY <4>1 DEF IsClient, Fields
    <3>4. CASE least > 0
      <4>1. PICK m \in Int : m = least /\ m > 0
        BY <3>2, <3>4
      <4>2. PICK units, pos : /\ units = [k \in 1..m |-> <<"file", c.pump, c.pos + k>>]
                             /\ pos = c.pos + m
        OBVIOUS
      <4>3. PICK out : out = c.out \o units
        OBVIOUS
      <4>4. filled = [c EXCEPT !.out = out, !.pos = pos]
        BY <1>1, <2>1, <2>4, <4>1, <4>2, <4>3, FillReads
      <4>5. filled.out = out /\ filled.cut = c.cut /\ filled.active = c.active /\ filled.crash = c.crash
        BY <4>4 DEF IsClient, Fields
      <4>6. Len(out) = Len(c.out) + m
        <5>1. m \in Nat /\ DOMAIN units = 1..m
          BY <4>1, <4>2
        <5>2. \A k \in 1..m : units[k] \in Unit(n)
          BY <3>1, <4>1, <4>2, SMTT(60) DEF Unit
        <5>3. \A k \in 1..m : units[k] = <<"file", c.pump, c.pos + k>>
          BY <4>2
        <5>4. units = [k \in 1..m |-> units[k]]
          BY <4>2
        <5>5. units \in Seq(Unit(n)) /\ Len(units) = m
          BY <5>1, <5>2, <5>4
        <5>6. c.out \in Seq(Unit(n))
          BY DEF IsClient
        <5>7. \A a, b \in Seq(Unit(n)) : Len(a \o b) = Len(a) + Len(b)
          OBVIOUS
        <5> QED BY <4>3, <5>5, <5>6, <5>7
      <4>7. Len(out) <= NBS
        BY <2>1, <3>2, <4>1, <4>6, ConnectionAssumption
      <4> QED BY <4>5, <4>7
    <3> QED BY <3>2, <3>3, <3>4
  <2> QED BY <2>1, <2>2, <2>3, <2>4
<1>4. PICK len \in Nat : len = Len(filled.out)
  BY <1>2
<1>5. PICK m : m = Least(len, NBS)
  OBVIOUS
<1>6. m \in Nat /\ m <= len /\ NBS \in Nat /\ NBS > 0 /\ (m = 0 <=> len = 0)
  BY <1>4, <1>5, ConnectionAssumption DEF Least
<1>7. CASE filled.crash
  <2>1. d = filled
    BY <1>1, <1>7 DEF PlainTransferSend
  <2> QED BY <1>3, <1>7, <2>1 DEF Fits
<1>8. CASE ~filled.crash /\ m = 0
  <2>1. d = filled
    BY <1>1, <1>4, <1>5, <1>8 DEF PlainTransferSend
  <2>2. filled.out = <<>>
    BY <1>2, <1>4, <1>6, <1>8
  <2> QED BY <2>1, <2>2, EmptyFits DEF Fits
<1>9. CASE ~filled.crash /\ m # 0 /\ reset
  <2>1. d \in {Crash(filled), [filled EXCEPT !.out = <<>>]}
    <3>1. LtrimBuffer(filled.out, -1) = <<>>
      BY <1>2 DEF LtrimBuffer
    <3>2. ~(m = 0) /\ m > 0
      BY <1>6, <1>9
    <3> QED BY <1>1, <1>4, <1>5, <1>9, <3>1, <3>2 DEF PlainTransferSend
  <2>2. CASE d = [filled EXCEPT !.out = <<>>]
    <3>1. d.out = <<>>
      BY <1>2, <2>2 DEF IsClient, Fields
    <3> QED BY <3>1, EmptyFits DEF Fits
  <2>3. CASE d = Crash(filled)
    <3>1. d.crash /\ d.out = filled.out
      BY <1>2, <2>3 DEF Crash, IsClient, Fields
    <3>2. Full(filled.out)
      BY <1>2, <1>3, <1>4, <1>6 DEF Fits, Full
    <3> QED BY <3>1, <3>2 DEF Fits
  <2> QED BY <2>1, <2>2, <2>3
<1>10. CASE ~filled.crash /\ m # 0 /\ ~reset
  <2>1. PICK k \in 1..len : k = Least(m, taken)
    BY <1>6, <1>10 DEF Least
  <2>2. PICK out, wire, short : /\ out = LtrimBuffer(filled.out, k)
                               /\ wire = filled.wire \o SubSeq(filled.out, 1, k)
                               /\ short = (k < m)
    OBVIOUS
  <2>3. d = [filled EXCEPT !.wire = wire, !.short = short, !.out = out]
    <3>1. ~(m = 0) /\ m > 0
      BY <1>6, <1>10
    <3> QED BY <1>1, <1>4, <1>5, <1>10, <2>1, <2>2, <3>1 DEF PlainTransferSend
  <2>4. d.out = out /\ d.cut = c.cut /\ d.active = c.active /\ d.crash = filled.crash
    BY <1>2, <1>3, <2>3 DEF IsClient, Fields
  <2>5. CASE filled.out = c.out
    <3>1. Full(out) /\ (Room(c.out) => Room(out))
      BY <1>2, <2>1, <2>2, <2>5, TrimFits DEF Fits
    <3> QED BY <2>4, <3>1 DEF Fits
  <2>6. CASE len <= NBS
    <3>1. Full(out) /\ Room(out)
      BY <1>2, <1>4, <2>1, <2>2, <2>6, TrimFits
    <3> QED BY <2>4, <3>1 DEF Fits
  <2> QED BY <1>3, <1>4, <2>5, <2>6
<1> QED BY <1>7, <1>8, <1>9, <1>10

\* Receiving only takes from the buffer.
LEMMA RecvFits ==
    ASSUME NEW n \in Nat, NEW c, IsClient(c, n), Fits(c), NEW pieces \in Seq(Piece(n)),
           NEW failed, NEW d, d = PlainTransferRecv(c, pieces, failed)
    PROVE  Fits(d)
<1> DEFINE Good(e) == /\ e.out = c.out /\ e.cut = c.cut /\ e.active = c.active /\ (c.crash => e.crash)
                      /\ DOMAIN e = Fields
<1>1. PICK in \in Seq(Piece(n)) : in = c.in \o pieces
  <2>1. c.in \in Seq(Piece(n))
    BY DEF IsClient
  <2>2. c.in \o pieces \in Seq(Piece(n))
    BY <2>1
  <2> QED BY <2>2
<1>2. PICK got : got = CASE failed -> IF c.in = <<>> THEN c ELSE Crash(c)
                         [] ~failed /\ pieces = <<>> -> [c EXCEPT !.completed = TRUE]
                         [] OTHER -> [c EXCEPT !.in = in]
  OBVIOUS
<1>3. got \in {c, Crash(c), [c EXCEPT !.completed = TRUE], [c EXCEPT !.in = in]}
  BY <1>2
<1>4. Good(got) /\ got.in \in Seq(Piece(n))
  BY <1>1, <1>3 DEF IsClient, Fields, Crash
<1>5. PICK m : m = Least(Len(got.in), NBS)
  OBVIOUS
<1>6. m \in Int
  BY <1>4, <1>5, ConnectionAssumption DEF Least
<1>7. PICK out, pos : out = LtrimBuffer(got.out, m) /\ pos = got.pos + m
  OBVIOUS
<1>8. d \in {got, [got EXCEPT !.completed = TRUE], [got EXCEPT !.pos = pos, !.out = out]}
  <2>1. d = CASE got.crash \/ got.pump = 0 \/ ~got.progress -> got
              [] ~got.crash /\ got.pump # 0 /\ got.progress /\ m = 0 ->
                     [got EXCEPT !.completed = TRUE]
              [] OTHER -> [got EXCEPT !.pos = pos, !.out = out]
    BY <1>1, <1>2, <1>5, <1>7 DEF PlainTransferRecv
  <2> QED BY <2>1
<1>9. /\ d.out \in {c.out, out} /\ d.cut = c.cut /\ d.active = c.active
      /\ c.crash => d.crash
  BY <1>4, <1>8 DEF Fields
<1>10. /\ Full(c.out) => Full(out)
       /\ Room(c.out) => Room(out)
  BY <1>4, <1>6, <1>7, TrimFits DEF IsClient
<1> QED BY <1>9, <1>10 DEF Fits

\* OnlyListingsOverfill (transfer.c:43, main.c:619, 381): the size that is read is negative
\* only behind a listing, however the peer sends its requests and send cuts its blocks.
THEOREM OnlyBehindListings == Spec => []OnlyListingsOverfill
<1>1. Init => Fits(client)
  BY EmptyFits DEF Init, NewClient, Fits
<1>2. ASSUME IInv, Fits(client), [Next]_vars
      PROVE  Fits(client')
  <2>1. PICK n \in Nat : n = Len(sent)
    BY <1>2 DEF IInv
  <2>2. IsClient(client, n) /\ sent \in Seq(Requests) /\ net \in Seq(Piece(n))
    BY <1>2, <2>1 DEF IInv
  <2>3. PICK d : d = client'
    OBVIOUS
  <2>4. CASE FinishTransfer
    <3>1. PICK closed : closed = PlainTransferClose(client)
      OBVIOUS
    <3>2. Fits(closed) /\ DOMAIN closed = Fields
      BY <1>2, <2>2, <3>1 DEF PlainTransferClose, IsClient, Fields, Fits
    <3>3. d \in {EndConnection(closed), ClearClient(closed), closed}
      BY <2>3, <2>4, <3>1 DEF FinishTransfer, AfterTransfer
    <3>4. Fits(d)
      BY <3>2, <3>3, EmptyFits DEF EndConnection, ClearClient, Fits, Fields
    <3> QED BY <2>3, <3>4
  <2>5. ASSUME NEW behind \in Behind, NEW header \in {"short", "nohttp"}, NEW wild \in BOOLEAN,
               Service(behind, header, wild)
        PROVE  Fits(client')
    <3>1. CASE RequestComplete(client, behind)
      <4>1. d = Dispatch(Parse(client, behind, header, wild), wild)
        BY <2>3, <2>5, <3>1 DEF Service
      <4>2. client.in # <<>> /\ Room(client.out)
        BY <1>2, <2>5, <3>1 DEF RequestComplete, Service, Running, Fits
      <4>3. Fits(d)
        BY <2>1, <2>2, <4>1, <4>2, AnswerFits
      <4> QED BY <2>3, <4>3
    <3>2. CASE ~RequestComplete(client, behind)
      BY <1>2, <2>5, <3>2 DEF Service
    <3> QED BY <3>1, <3>2
  <2>6. CASE HandleHup
    BY <1>2, <2>2, <2>6 DEF HandleHup, IsClient, Fields, Fits
  <2>7. ASSUME NEW k \in 0..Len(net), HandleIn(k)
        PROVE  Fits(client')
    <3>1. PICK failed \in BOOLEAN : failed = (net = <<>> /\ reset)
      BY DEF IInv
    <3>2. PICK pieces : pieces = SubSeq(net, 1, k)
      OBVIOUS
    <3>3. pieces \in Seq(Piece(n))
      BY <2>2, <3>2
    <3>4. d = PlainTransferRecv(client, pieces, failed)
      BY <2>3, <2>7, <3>1, <3>2 DEF HandleIn
    <3>5. Fits(d)
      BY <1>2, <2>2, <3>3, <3>4, RecvFits
    <3> QED BY <2>3, <3>5
  <2>8. ASSUME NEW killed \in BOOLEAN, NEW taken \in 1..NBS, HandleOut(killed, taken)
        PROVE  Fits(client')
    <3>1. d = PlainTransferSend(client, killed, taken) /\ ~client.crash
      BY <2>3, <2>8 DEF HandleOut, Running
    <3>2. Fits(d)
      BY <1>2, <2>1, <2>2, <3>1, SendFits
    <3> QED BY <2>3, <3>2
  <2>9. CASE DeleteClient
    <3>1. PICK cleared : cleared = ClearClient(client)
      OBVIOUS
    <3>2. d = [cleared EXCEPT !.open = FALSE]
      BY <2>3, <2>9, <3>1 DEF DeleteClient
    <3>3. cleared.out = <<>> /\ DOMAIN cleared = Fields
      BY <2>2, <3>1 DEF ClearClient, IsClient, Fields
    <3>4. d.out = <<>>
      BY <3>2, <3>3 DEF Fields
    <3> QED BY <2>3, <3>4, EmptyFits DEF Fits
  <2>10. CASE Peer \/ (\E writable \in BOOLEAN : Poll(writable)) \/ UNCHANGED vars
    <3>1. client' = client
      BY <2>10 DEF Peer, PeerSend, PeerSendRest, PeerFin, PeerReset, Poll, vars
    <3> QED BY <1>2, <3>1
  <2> QED BY <1>2, <2>4, <2>5, <2>6, <2>7, <2>8, <2>9, <2>10 DEF Next, ServiceThread
<1>3. Fits(client) => OnlyListingsOverfill
  BY DEF Fits, Full, Listing, OnlyListingsOverfill
<1>4. Fits(client)' <=> Fits(client')
  BY DEF Fits, Full, Room
<1>5. IInv /\ Fits(client) /\ [Next]_vars => Fits(client)'
  BY <1>2, <1>4
<1> QED BY <1>1, <1>3, <1>5, Inductive, PTL DEF Spec

\* TypeOK: every field of a client holds a value of its kind, whatever arrives.
THEOREM ConnectionTypes == Spec => []TypeOK
<1>1. IInv => TypeOK
  <2> SUFFICES ASSUME IInv PROVE TypeOK
    OBVIOUS
  <2>1. PICK n \in Nat : n = Len(sent)
    BY DEF IInv
  <2>2. \A x \in Unit(n) : IsUnit(x)
    BY <2>1 DEF Unit, IsUnit
  <2>3. \A x \in HeadOf(n) : IsHead(x)
    BY DEF HeadOf, IsHead
  <2>4. client.out \in Seq(Unit(n)) /\ client.wire \in Seq(Unit(n) \cup HeadOf(n))
    BY <2>1 DEF IInv, IsClient, Wire
  <2>5. /\ \A i \in 1..Len(client.out) : IsUnit(client.out[i])
        /\ \A i \in 1..Len(client.wire) : IsHead(client.wire[i]) \/ IsUnit(client.wire[i])
    BY <2>2, <2>3, <2>4
  <2> QED BY <2>1, <2>5 DEF IInv, TypeOK, IsClient, Flags, ConnValues, Codes
<1> QED BY <1>1, Inductive, PTL
=============================================================================
