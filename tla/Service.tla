------------------------------- MODULE Service -------------------------------
(***************************************************************************)
(* Many connections at once: ClientList with the descriptors that its      *)
(* clients carry (main.c, client.c, transfer.c, transport.c).              *)
(*                                                                         *)
(* A client_t remembers its connection and its file by number.  A number   *)
(* means nothing once it is closed, and the next accept or open is given   *)
(* the lowest one that is free.  The code closes a connection when a       *)
(* transfer ends it, and again when the listening thread deletes the       *)
(* client, which it does once for every idle second that the client stays  *)
(* on the list; by then the number may be somebody else's.                 *)
(*                                                                         *)
(* Every step is a step of ClientList with what it does to descriptors, or *)
(* one that ClientList does not see.  Steps are as fine as the listening   *)
(* thread and one service thread can tell apart (NUM_CPUS is 1).  What a   *)
(* client asks for and when a transfer is complete is left to Connection.  *)
(***************************************************************************)
EXTENDS ClientList

CONSTANTS Servers,   \* number of ports listened to
          MaxFds,    \* how many descriptors the process may have beside the standard ones
          Logs       \* does the vhost have a log file

ASSUME DescriptorsAssumption == Servers \in Nat /\ MaxFds \in Nat /\ Servers < MaxFds /\ Logs \in BOOLEAN

Fds == 1..MaxFds

Free      == <<"free", 0>>
Server(k) == <<"server", k>>
Conn(c)   == <<"conn", c>>
File(c)   == <<"file", c>>
Log(t)    == <<"log", t>>    \* opened by thread t
Lost      == <<"lost", 0>>   \* open, but its number was overwritten: nobody can close it

\* The threads that log, the listening thread beside the service threads.
Listening == -1
Threads   == Pools \cup {Listening}
LogFiles  == {Log(t) : t \in Threads}

VARIABLES
    table,     \* what each descriptor number stands for
    sock,      \* client_t.sock
    pump_fd,   \* client_t.pump_fd
    logfilefd, \* vhost_t.logfilefd
    logging,   \* each thread: where it is in llog
    got,       \*   and what its open returned
    todo,      \* what delete_client has still to do before del_client_struct
    event,     \* each service thread: what poll said of clientfds[0]
    stale      \* history: what was given a number that a client in use still carried

logVars == <<logfilefd, logging, got>>
fdVars  == <<table, sock, pump_fd, logfilefd, logging, got, todo, event, stale>>
svcVars == <<clVars, fdVars>>

SInit ==
    /\ Init
    /\ table = [f \in Fds |-> IF f <= Servers THEN Server(f) ELSE Free]
    /\ sock = [c \in Clients |-> 0]
    /\ pump_fd = [c \in Clients |-> 0]
    /\ logfilefd = 0
    /\ logging = [t \in Threads |-> "out"] /\ got = [t \in Threads |-> 0]
    /\ todo = "done"
    /\ event = [p \in Pools |-> "none"]
    /\ stale = {}

Full == \A f \in Fds : table[f] # Free

LowestFree == CHOOSE f \in Fds : table[f] = Free /\ \A g \in Fds : table[g] = Free => f <= g

\* close: of a number that is not open it does nothing.
Closed(f) == [g \in Fds |-> IF g = f THEN Free ELSE table[g]]

\* The clients whose numbers somebody may still close: those on the list or on their way
\* to it, and those whose connection a thread is ending.
InHand == {c \in Clients : c <= allocated /\ unlinkedAt[c] = 0}
          \cup {sptr[p] : p \in {q \in Pools : spc[q] = "ended"}}

\* Where a search that stands on n can still come to.
Trail(n) == {c \in Clients : \A S \in SUBSET Clients :
                n \in S /\ (\A m \in S : next_client[m] # Nil => next_client[m] \in S) => c \in S}

\* The clients whose numbers somebody may still use.
InUse ==
    InHand \cup UNION {Trail(sptr[p]) : p \in {q \in Pools : spc[q] = "find" /\ sptr[q] # Nil}}

\* What was open as one of objs stays open, and its number is overwritten.
Losing(objs) == [g \in Fds |-> IF table[g] \in objs THEN Lost ELSE table[g]]

\* Number f becomes obj, and is written over the number that obj had.
Given(f, obj) ==
    /\ table' = [Losing({obj}) EXCEPT ![f] = obj]
    /\ stale' = IF \E n \in InUse : \/ sock[n] = f
                                    \/ pump_fd[n] = f /\ obj # File(n)
                  THEN stale \cup {obj} ELSE stale \ {obj}

-----------------------------------------------------------------------------
(* llog, with a client of the vhost: the first thread that finds no number stored opens the *)
(* log file.  No lock is held. *)

LogTests(t) ==
    /\ logging[t] = "out" /\ Logs /\ logfilefd <= 0
    /\ logging' = [logging EXCEPT ![t] = "opens"]
    /\ UNCHANGED <<clVars, table, sock, pump_fd, logfilefd, got, todo, event, stale>>

\* open, which fails when no descriptor is left, or the file may not be written.
LogOpens(t) ==
    /\ logging[t] = "opens"
    /\ logging' = [logging EXCEPT ![t] = "stores"]
    /\ \/ /\ ~Full
          /\ got' = [got EXCEPT ![t] = LowestFree] /\ Given(LowestFree, Log(t))
       \/ got' = [got EXCEPT ![t] = -1] /\ UNCHANGED <<table, stale>>
    /\ UNCHANGED <<clVars, sock, pump_fd, logfilefd, todo, event>>

\* Another thread may have stored a number meanwhile, which is overwritten: the file stays
\* open.
LogStores(t) ==
    /\ logging[t] = "stores"
    /\ logging' = [logging EXCEPT ![t] = "done"]
    /\ logfilefd' = got[t] /\ got' = [got EXCEPT ![t] = 0]
    /\ table' = [f \in Fds |->
                    IF f = logfilefd /\ \E u \in Threads : table[f] = Log(u) /\ logging[u] # "stores"
                      THEN Lost ELSE table[f]]
    /\ UNCHANGED <<clVars, sock, pump_fd, todo, event, stale>>

LogStep(t) == LogTests(t) \/ LogOpens(t) \/ LogStores(t)

\* The line is written: with what follows it in the thread.
Logged(t) ==
    /\ logging[t] = "done" \/ (logging[t] = "out" /\ (~Logs \/ logfilefd > 0))
    /\ logging' = [logging EXCEPT ![t] = "out"]
    /\ UNCHANGED <<logfilefd, got>>

-----------------------------------------------------------------------------
(* The listening thread. *)

\* Variant: the client is given the server's own socket.
AcceptConnectionServerSock(p) ==
    /\ Accept(p) /\ ~Full
    /\ sock' = [sock EXCEPT ![allocated'] = Servers]
    /\ Given(LowestFree, Conn(allocated'))
    /\ UNCHANGED <<pump_fd, logVars, todo, event>>

\* Variant: the client accepted before is given the number.
AcceptConnectionForLast(p) ==
    /\ Accept(p) /\ ~Full
    /\ sock' = [sock EXCEPT ![IF allocated = 0 THEN 1 ELSE allocated] = LowestFree]
    /\ Given(LowestFree, Conn(allocated'))
    /\ UNCHANGED <<pump_fd, logVars, todo, event>>

AcceptConnection(p) ==
    /\ Accept(p) /\ ~Full
    /\ sock' = [sock EXCEPT ![allocated'] = LowestFree]
    /\ Given(LowestFree, Conn(allocated'))
    /\ UNCHANGED <<pump_fd, logVars, todo, event>>

\* delete_client: a line is logged, and active is 0.
BeginDelete ==
    /\ DeleteClient /\ Logged(Listening)
    /\ todo' = "close"
    /\ UNCHANGED <<table, sock, pump_fd, event, stale>>

\* Variant: clear_client is taken to close everything.
DeleteClosesNothing ==
    /\ lpc = "remove" /\ todo = "close"
    /\ todo' = "clear" /\ UNCHANGED table
    /\ UNCHANGED <<clVars, sock, pump_fd, logVars, event, stale>>

\* delete_client: transport->close.
DeleteCloses ==
    /\ lpc = "remove" /\ todo = "close"
    /\ table' = Closed(sock[lptr]) /\ todo' = "clear"
    /\ UNCHANGED <<clVars, sock, pump_fd, logVars, event, stale>>

\* Variant: the file stays open.
DeleteClearsNoPump ==
    /\ lpc = "remove" /\ todo = "clear"
    /\ todo' = "done" /\ UNCHANGED <<table, pump_fd>>
    /\ UNCHANGED <<clVars, sock, logVars, event, stale>>

\* Variant: a client without a file is marked by -1, as open marks it.
DeleteClearsMinusOne ==
    /\ lpc = "remove" /\ todo = "clear"
    /\ table' = Closed(pump_fd[lptr]) /\ todo' = "done"
    /\ pump_fd' = [pump_fd EXCEPT ![lptr] = -1]
    /\ UNCHANGED <<clVars, sock, logVars, event, stale>>

\* delete_client: clear_client.
DeleteClears ==
    /\ lpc = "remove" /\ todo = "clear"
    /\ table' = Closed(pump_fd[lptr]) /\ todo' = "done"
    /\ pump_fd' = [pump_fd EXCEPT ![lptr] = 0]
    /\ UNCHANGED <<clVars, sock, logVars, event, stale>>

ListeningThread ==
    \/ \E p \in Pools : AcceptConnection(p)
    \/ lpc = "delete" /\ LogStep(Listening)
    \/ (PollReports \/ AcceptFails \/ PollTimeout) /\ UNCHANGED fdVars
    \/ (AppendFirst \/ AppendWalk \/ CleanupEnd \/ CleanupTest \/ RemoveWalk) /\ UNCHANGED fdVars
    \/ BeginDelete \/ DeleteCloses \/ DeleteClears
    \/ RemoveFirst /\ todo = "done" /\ UNCHANGED fdVars

-----------------------------------------------------------------------------
(* A service thread. *)

\* Inactive, or another thread's.
LeaveAlone(p) ==
    /\ Skip(p) /\ logging[p] = "out" /\ (~active[sptr[p]] \/ thread_pool_id[sptr[p]] # p)
    /\ UNCHANGED fdVars

\* The transfer is complete: plain_transfer_close, and the connection is kept.
FinishAndKeep(p) ==
    /\ Skip(p) /\ active[sptr[p]] /\ logging[p] = "out"
    /\ table' = Closed(pump_fd[sptr[p]])
    /\ pump_fd' = [pump_fd EXCEPT ![sptr[p]] = 0]
    /\ UNCHANGED <<sock, logVars, todo, event, stale>>

\* The same, and the connection is not kept.
FinishAndEnd(p) ==
    /\ Finish(p) /\ logging[p] = "out"
    /\ table' = Closed(pump_fd[sptr[p]])
    /\ pump_fd' = [pump_fd EXCEPT ![sptr[p]] = 0]
    /\ UNCHANGED <<sock, logVars, todo, event, stale>>

\* Variant: the next client's connection is closed.
EndConnectionOfNext(p) ==
    /\ AfterEnd(p)
    /\ table' = IF sptr'[p] = Nil THEN table ELSE Closed(sock[sptr'[p]])
    /\ UNCHANGED <<sock, pump_fd, logVars, todo, event, stale>>

\* active is 0 by now: transport->close.
EndConnection(p) ==
    /\ AfterEnd(p)
    /\ table' = Closed(sock[sptr[p]])
    /\ UNCHANGED <<sock, pump_fd, logVars, todo, event, stale>>

\* On the poll array, and no request is complete.
ListClient(p) == List(p) /\ logging[p] = "out" /\ UNCHANGED fdVars

\* A request is complete: dispatch_request begins with a line in the log.
LogsRequest(p) ==
    /\ spc[p] = "build" /\ sptr[p] # Nil
    /\ active[sptr[p]] /\ thread_pool_id[sptr[p]] = p
    /\ LogStep(p)

\* It opens no file and is answered, a file that is still open or not.
ListAndAnswer(p) ==
    /\ List(p) /\ Logged(p)
    /\ UNCHANGED <<table, sock, pump_fd, todo, event, stale>>

\* plain_transfer_open opens its file, and forgets one that is still open.
ListAndOpen(p) ==
    /\ List(p) /\ Logged(p) /\ ~Full
    /\ pump_fd' = [pump_fd EXCEPT ![sptr[p]] = LowestFree]
    /\ Given(LowestFree, File(sptr[p]))
    /\ UNCHANGED <<sock, todo, event>>

\* Its file cannot be opened.
ListAndFail(p) ==
    /\ List(p) /\ Logged(p)
    /\ pump_fd' = [pump_fd EXCEPT ![sptr[p]] = 0]
    /\ table' = Losing({File(sptr[p])})
    /\ UNCHANGED <<sock, todo, event, stale>>

\* It is refused, and clear_client makes the client ready for another.
ListAndClear(p) ==
    /\ List(p) /\ Logged(p)
    /\ table' = Closed(pump_fd[sptr[p]])
    /\ pump_fd' = [pump_fd EXCEPT ![sptr[p]] = 0]
    /\ UNCHANGED <<sock, todo, event, stale>>

\* It is refused, and the connection ends.
Refuse(p) ==
    /\ ListAndRefuse(p) /\ Logged(p)
    /\ UNCHANGED <<table, sock, pump_fd, todo, event, stale>>

Number(p, i) == sock[clientfds[p][i]]

\* A number that is closed is reported at once, and so is a file.
PollsNothing(p) ==
    /\ PassTimeout(p)
    /\ \A i \in 1..Len(clientfds[p]) : \E c \in Clients : table[Number(p, i)] = Conn(c)
    /\ UNCHANGED fdVars

PollsEvent(p, e) ==
    /\ PassPolled(p)
    /\ \/ e = "nval" /\ table[Number(p, 1)] = Free
       \/ e = "data" /\ table[Number(p, 1)] # Free
       \/ e = "hup"  /\ \E c \in Clients : table[Number(p, 1)] = Conn(c)
       \/ e = "none" /\ \E c \in Clients : table[Number(p, 1)] = Conn(c)
                      /\ Len(clientfds[p]) > 1
    /\ event' = [event EXCEPT ![p] = e]
    /\ UNCHANGED <<table, sock, pump_fd, logVars, todo, stale>>

\* The comparison of the search.
Matches(p) == sock[sptr[p]] = Number(p, 1)

SearchOn(p) == FindNext(p) /\ ~Matches(p) /\ UNCHANGED fdVars

\* close_connect on an error; else transfer->recv or transfer->send, which use the
\* client's numbers.
Handle(p) ==
    /\ spc[p] = "find" /\ sptr[p] # Nil /\ Matches(p)
    /\ FindMatch(p, event[p] \in {"hup", "nval"})
    /\ event' = [event EXCEPT ![p] = "none"]
    /\ UNCHANGED <<table, sock, pump_fd, logVars, todo, stale>>

\* No client on the list has the number.
HandleNobody(p) ==
    /\ FindNone(p)
    /\ event' = [event EXCEPT ![p] = "none"]
    /\ UNCHANGED <<table, sock, pump_fd, logVars, todo, stale>>

Unseen(p) ==
    /\ PassStart(p) \/ PassFirst(p) \/ PassBuilt(p) \/ PassSleep(p)
    /\ UNCHANGED fdVars

Serve(p) ==
    \/ Unseen(p)
    \/ LeaveAlone(p) \/ FinishAndKeep(p) \/ FinishAndEnd(p) \/ EndConnection(p)
    \/ ListClient(p) \/ LogsRequest(p)
    \/ ListAndAnswer(p) \/ ListAndOpen(p) \/ ListAndFail(p) \/ ListAndClear(p) \/ Refuse(p)
    \/ PollsNothing(p) \/ \E e \in {"none", "nval", "hup", "data"} : PollsEvent(p, e)
    \/ SearchOn(p) \/ Handle(p) \/ HandleNobody(p)

SNext == ListeningThread \/ \E p \in Pools : Serve(p)

ServiceSpec == SInit /\ [][SNext]_svcVars

FairServiceSpec ==
    /\ ServiceSpec
    /\ WF_svcVars(ListeningThread)
    /\ \A p \in Pools : WF_svcVars(Serve(p))

-----------------------------------------------------------------------------
(* Properties. *)

\* Every variable holds a value of its kind.
ServiceTypeOK ==
    /\ table \in [Fds -> {Free} \cup {Server(k) : k \in 1..Servers}
                         \cup {Conn(c) : c \in Clients} \cup {File(c) : c \in Clients}
                         \cup LogFiles \cup {Lost}]
    /\ sock \in [Clients -> 0..MaxFds] /\ pump_fd \in [Clients -> 0..MaxFds]
    /\ logfilefd \in -1..MaxFds
    /\ logging \in [Threads -> {"out", "opens", "stores", "done"}]
    /\ got \in [Threads -> -1..MaxFds]
    /\ todo \in {"close", "clear", "done"}
    /\ event \in [Pools -> {"none", "nval", "hup", "data"}]
    /\ stale \subseteq {Conn(c) : c \in Clients} \cup {File(c) : c \in Clients} \cup LogFiles

\* A number that is closed a second time is never one of the server's own sockets:
\* get_server_by_fd always finds what poll reported ("this should never happen, server fd
\* not found in server list", main.c:226).
ServersStayOpen == \A k \in 1..Servers : table[k] = Server(k)

\* Every connection and every file that is open is remembered by a client that is still
\* to be deleted, who will close it, and the log file by the process or by the thread that
\* opened it: but for what a later open was written over, the file of a client that asks
\* again before it has been closed, and a log file that two threads have opened at once.
NoDescriptorLost ==
    \A f \in Fds :
        /\ \A c \in Clients :
               table[f] \in {Conn(c), File(c)} =>
                   /\ c <= allocated /\ unlinkedAt[c] = 0
                   /\ f = IF table[f] = Conn(c) THEN sock[c] ELSE pump_fd[c]
        /\ \A t \in Threads :
               table[f] = Log(t) => f = IF logging[t] = "stores" THEN got[t] ELSE logfilefd

\* A connection or a file is closed under the client it belongs to, while the client is
\* alive, and the log file under the process, only if it was given a number that another
\* client in use carried.  Every other one is safe from all the numbers that are closed
\* twice.
OnlyStaleNumbersCut ==
    /\ \A c \in Clients : c <= allocated /\ active[c] =>
           /\ table[sock[c]] = Conn(c) \/ Conn(c) \in stale
           /\ pump_fd[c] # 0 => table[pump_fd[c]] = File(c) \/ File(c) \in stale
    /\ logfilefd > 0 => \E t \in Threads : table[logfilefd] = Log(t) \/ Log(t) \in stale

\* What arrives on a connection is put into another client's buffers, and what it is
\* sent comes out of them, only if its number was given while another client carried it,
\* even when the search stands on a client that is no longer on the list.
OnlyStaleNumbersMix ==
    \A p \in Pools, c \in Clients :
        spc[p] = "find" /\ sptr[p] # Nil /\ event[p] = "data" /\ Matches(p) =>
            (table[sock[sptr[p]]] \in {Conn(c), File(c)} =>
                c = sptr[p] \/ table[sock[sptr[p]]] \in stale)

ConnectionOpen(c) == \E f \in Fds : table[f] = Conn(c)

\* If quiet seconds come, the connection of a dead client is closed in the end.  On a busy
\* server they need not, and with no descriptor left and a connection waiting they do not:
\* accept fails, poll reports the connection again, and nothing is ever closed.
DeadIsClosed ==
    QuietSecondsCome =>
        \A c \in Clients : (~active[c] /\ ConnectionOpen(c)) ~> ~ConnectionOpen(c)
=============================================================================
