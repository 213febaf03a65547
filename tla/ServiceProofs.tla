---------------------------- MODULE ServiceProofs ----------------------------
(***************************************************************************)
(* Service, for every number of connections, service threads, ports and    *)
(* descriptors: what is proved of ClientList's links holds with them; no   *)
(* descriptor is lost but by a later open; and the numbers that are closed *)
(* twice hurt nobody but those who were given them while they were still   *)
(* carried by somebody else.                                               *)
(***************************************************************************)
EXTENDS Service, RosterProofs

-----------------------------------------------------------------------------
(* Each step is a step of ClientList, or none. *)

LEMMA LogStepFrame ==
    ASSUME NEW t, LogStep(t)
    PROVE  UNCHANGED <<clVars, sock, pump_fd, todo, event>>
  BY DEF LogStep, LogTests, LogOpens, LogStores

LEMMA ServeStep ==
    ASSUME NEW p \in Pools, Serve(p)
    PROVE  ServiceThread(p) \/ (LogsRequest(p) /\ UNCHANGED clVars)
<1>1. CASE Unseen(p)
  BY <1>1 DEF Unseen, ServiceThread
<1>2. CASE LeaveAlone(p) \/ FinishAndKeep(p) \/ FinishAndEnd(p) \/ EndConnection(p)
  BY <1>2 DEF LeaveAlone, FinishAndKeep, FinishAndEnd, EndConnection, ServiceThread
<1>3. CASE ListClient(p) \/ ListAndAnswer(p) \/ ListAndOpen(p) \/ ListAndFail(p) \/ ListAndClear(p)
  BY <1>3 DEF ListClient, ListAndAnswer, ListAndOpen, ListAndFail, ListAndClear, ServiceThread
<1>7. CASE Refuse(p) \/ PollsNothing(p) \/ HandleNobody(p)
  BY <1>7 DEF Refuse, PollsNothing, HandleNobody, ServiceThread
<1>4. ASSUME NEW e \in {"none", "nval", "hup", "data"}, PollsEvent(p, e)
      PROVE  ServiceThread(p)
  BY <1>4 DEF PollsEvent, ServiceThread
<1>5. CASE SearchOn(p)
  BY <1>5 DEF SearchOn, ServiceThread
<1>6. CASE Handle(p)
  <2>1. FindMatch(p, TRUE) \/ FindMatch(p, FALSE)
    BY <1>6 DEF Handle, FindMatch
  <2> QED
    BY <2>1 DEF ServiceThread
<1> QED
  BY <1>1, <1>2, <1>3, <1>4, <1>5, <1>6, <1>7, LogStepFrame DEF Serve, LogsRequest

LEMMA ListeningStep ==
    ASSUME ListeningThread
    PROVE  Listener \/ UNCHANGED clVars
  BY LogStepFrame DEF ListeningThread, AcceptConnection, BeginDelete, DeleteCloses, DeleteClears,
                      Listener

LEMMA StepImplements == [SNext]_svcVars => [Next]_clVars
  BY ServeStep, ListeningStep DEF SNext, svcVars, Next

-----------------------------------------------------------------------------
(* The inductive invariant on descriptors, in parts. *)

\* What a client's field can hold: no descriptor, or one above the server's sockets.
Mine == {0} \cup (Servers + 1)..MaxFds

FdTypes ==
    /\ table \in [Fds -> {Free, Lost} \cup {Server(k) : k \in 1..Servers} \cup LogFiles
                         \cup {Conn(c) : c \in Clients} \cup {File(c) : c \in Clients}]
    /\ sock \in [Clients -> Mine] /\ pump_fd \in [Clients -> Mine]
    /\ stale \subseteq {Conn(c) : c \in Clients} \cup {File(c) : c \in Clients} \cup LogFiles
    /\ \A c \in Clients : c <= allocated => sock[c] # 0
    /\ ServersStayOpen

\* Whose number a descriptor is.
Owners ==
    /\ \A f \in Fds, c \in Clients :
           /\ table[f] = Conn(c) => c <= allocated /\ unlinkedAt[c] = 0 /\ f = sock[c]
           /\ table[f] = File(c) => c <= allocated /\ unlinkedAt[c] = 0 /\ f = pump_fd[c]
    /\ \A c \in Clients : c > allocated => pump_fd[c] = 0

\* Between tests and stores of logfilefd a thread alone knows the log file it has opened;
\* whose log file is stored, that thread does not open another.
LogInv ==
    /\ logfilefd \in Mine \cup {-1} /\ got \in [Threads -> Mine \cup {-1}]
    /\ logging \in [Threads -> {"out", "opens", "stores", "done"}]
    /\ \A f \in Fds, t \in Threads : table[f] = Log(t) =>
           /\ logging[t] # "opens"
           /\ logging[t] = "stores" => f = got[t]
           /\ logging[t] # "stores" => f = logfilefd
    /\ \A t \in Threads : logging[t] = "stores" /\ got[t] > 0 =>
           table[got[t]] = Log(t) \/ Log(t) \in stale
    /\ logfilefd > 0 => \E t \in Threads : /\ logging[t] \in {"out", "done"}
                                           /\ table[logfilefd] = Log(t) \/ Log(t) \in stale

\* How far delete_client has come.
Deleting ==
    /\ todo \in {"close", "clear", "done"}
    /\ lpc = "removeWalk" => todo = "done"
    /\ lpc \in {"remove", "removeWalk"} =>
           /\ todo # "close" => \A f \in Fds : table[f] # Conn(lptr)
           /\ todo = "done" => pump_fd[lptr] = 0

\* A thread that ends a connection has made the client inactive before.
Ending == \A p \in Pools : spc[p] = "ended" =>
              sptr[p] \in Clients /\ sptr[p] <= allocated /\ ~active[sptr[p]]

\* Nobody in use but the owner carries what was given a fresh number.
Fresh ==
    \A f \in Fds, n \in InUse : table[f] \notin {Free, Lost} /\ table[f] \notin stale =>
        /\ f = sock[n] => table[f] = Conn(n)
        /\ f = pump_fd[n] => table[f] = File(n)

\* The clients' part of OnlyStaleNumbersCut.
Uncut ==
    \A c \in Clients : c <= allocated /\ active[c] =>
        /\ table[sock[c]] = Conn(c) \/ Conn(c) \in stale
        /\ pump_fd[c] # 0 => table[pump_fd[c]] = File(c) \/ File(c) \in stale

Held == FdTypes /\ Owners /\ LogInv /\ Fresh /\ Uncut

FdInv == Held /\ Deleting /\ Ending

\* What any step but Accept does to those whose numbers matter.
Frame ==
    /\ allocated' = allocated
    /\ \A c \in Clients : active'[c] => active[c]
    /\ InUse' \subseteq InUse
    /\ \A c \in Clients : unlinkedAt[c] = 0 /\ unlinkedAt'[c] # 0 =>
           \A f \in Fds : table[f] # Conn(c) /\ table[f] # File(c)

\* A line is logged, or none: no log file is opened.
LogQuiet ==
    /\ UNCHANGED <<logfilefd, got>>
    /\ logging' \in [Threads -> {"out", "opens", "stores", "done"}]
    /\ \A t \in Threads : \/ logging'[t] = logging[t]
                          \/ logging[t] \in {"out", "done"} /\ logging'[t] \in {"out", "done"}

-----------------------------------------------------------------------------
(* Where a search can still come to. *)

LEMMA TrailStart ==
    ASSUME NEW n \in Clients
    PROVE  n \in Trail(n)
  BY DEF Trail

LEMMA TrailInside ==
    ASSUME NEW n, NEW S, S \subseteq Clients, n \in S,
           \A m \in S : next_client[m] # Nil => next_client[m] \in S
    PROVE  Trail(n) \subseteq S
  BY DEF Trail

LEMMA TrailNext ==
    ASSUME NEW n \in Clients, next_client[n] # Nil
    PROVE  Trail(next_client[n]) \subseteq Trail(n)
  BY DEF Trail

\* New links that lead into a set which no link leaves open no way but into that set.
LEMMA TrailKept ==
    ASSUME NEW n, NEW K, K \subseteq Clients,
           \A m \in Clients : next_client'[m] \in {next_client[m], Nil} \cup K,
           \A m \in K : next_client'[m] # Nil => next_client'[m] \in K
    PROVE  Trail(n)' \subseteq Trail(n) \cup K
<1> SUFFICES ASSUME NEW c \in Clients, c \in Trail(n)', c \notin K,
                    NEW S \in SUBSET Clients, n \in S,
                    \A m \in S : next_client[m] # Nil => next_client[m] \in S
             PROVE  c \in S
  BY DEF Trail
<1>1. S \cup K \in SUBSET Clients /\ n \in S \cup K
  OBVIOUS
<1>2. \A m \in S \cup K : next_client'[m] # Nil => next_client'[m] \in S \cup K
  OBVIOUS
<1>3. c \in S \cup K
  BY <1>1, <1>2 DEF Trail
<1> QED
  BY <1>3

\* The listening thread rewrites links only to clients on the list or coming to it.
LEMMA InUseShrinks ==
    ASSUME UNCHANGED <<spc, sptr>>, InHand' \subseteq InHand,
           NEW K, K \subseteq Clients, K \subseteq InHand,
           \A m \in Clients : next_client'[m] \in {next_client[m], Nil} \cup K,
           \A m \in K : next_client'[m] # Nil => next_client'[m] \in K
    PROVE  InUse' \subseteq InUse
<1> SUFFICES ASSUME NEW q \in Pools, spc[q] = "find", sptr[q] # Nil
             PROVE  Trail(sptr[q])' \subseteq InUse
  BY DEF InUse
<1>1. PICK n : n = sptr[q] /\ n = sptr'[q]
  OBVIOUS
<1>2. Trail(n)' \subseteq Trail(n) \cup K
  BY TrailKept
<1>3. Trail(sptr[q])' = Trail(n)'
  BY <1>1 DEF Trail
<1> QED
  BY <1>1, <1>2, <1>3 DEF InUse

-----------------------------------------------------------------------------
(* Descriptors. *)

LEMMA Distinct ==
    /\ \A c, d \in Clients : /\ Conn(c) # File(d)
                             /\ Conn(c) = Conn(d) => c = d
                             /\ File(c) = File(d) => c = d
    /\ \A c \in Clients : Conn(c) \notin {Free, Lost} /\ File(c) \notin {Free, Lost}
    /\ \A k \in 1..Servers, c \in Clients : Server(k) # Conn(c) /\ Server(k) # File(c)
    /\ \A k \in 1..Servers : Server(k) \notin {Free, Lost}
    /\ \A t \in Threads, c \in Clients : Log(t) # Conn(c) /\ Log(t) # File(c)
    /\ \A t \in Threads, k \in 1..Servers : Log(t) # Server(k)
    /\ \A t \in Threads : Log(t) \notin {Free, Lost} /\ Log(t) \in LogFiles
    /\ \A t, u \in Threads : Log(t) = Log(u) => t = u
    /\ Lost # Free
  BY DEF Conn, File, Free, Log, Server, Lost, LogFiles

LEMMA Numbers ==
    /\ Fds \subseteq Nat /\ 0 \notin Fds /\ Mine \subseteq Nat
    /\ 0 \in Mine
    /\ \A x \in Mine : x # 0 => x \in Fds /\ x \notin 1..Servers
    /\ \A f \in Fds : f \notin 1..Servers => f \in Mine
    /\ 1..Servers \subseteq Fds
  BY DescriptorsAssumption DEF Fds, Mine

LEMMA LowestIsFree ==
    ASSUME FdTypes, ~Full
    PROVE  LowestFree \in Fds /\ LowestFree \in Mine /\ LowestFree # 0 /\ table[LowestFree] = Free
<1> DEFINE T == {f \in Fds : table[f] = Free}
<1>1. T \subseteq Nat /\ T # {}
  BY Numbers DEF Full
<1>2. PICK f \in T : \A g \in T : <<g, f>> \notin OpToRel(<, Nat)
  <2> HIDE DEF T
  <2> QED
    BY <1>1, NatLessThanWellFounded, WFMin
<1>3. f \in Nat /\ \A g \in T : ~(g < f)
  <2> HIDE DEF T
  <2> QED
    BY <1>1, <1>2 DEF OpToRel
<1>4. LowestFree \in Fds /\ table[LowestFree] = Free
  BY <1>1, <1>3 DEF LowestFree
<1>5. LowestFree \notin 1..Servers
  BY <1>4, Distinct DEF FdTypes, ServersStayOpen
<1> QED
  BY <1>4, <1>5, Numbers

\* A step that opens no log file, and closes none whose number was fresh.
LEMMA LogsKept ==
    ASSUME LogInv, LogQuiet,
           \A f \in Fds, t \in Threads :
               /\ table'[f] = Log(t) => table[f] = Log(t)
               /\ table[f] = Log(t) => table'[f] = Log(t) \/ Log(t) \in stale',
           \A t \in Threads : Log(t) \in stale => Log(t) \in stale'
    PROVE  LogInv'
<1>1. \A x \in Mine \cup {-1} : x > 0 => x \in Fds
  BY Numbers
<1>2. logfilefd' \in Mine \cup {-1} /\ got' \in [Threads -> Mine \cup {-1}]
  BY DEF LogInv, LogQuiet
<1>3. ASSUME NEW f \in Fds, NEW t \in Threads, table'[f] = Log(t)
      PROVE  /\ logging'[t] # "opens"
             /\ logging'[t] = "stores" => f = got'[t]
             /\ logging'[t] # "stores" => f = logfilefd'
  BY <1>3 DEF LogInv, LogQuiet
<1>4. ASSUME NEW t \in Threads, logging'[t] = "stores", got'[t] > 0
      PROVE  table'[got'[t]] = Log(t) \/ Log(t) \in stale'
  <2>1. PICK g \in Fds : g = got[t] /\ g = got'[t]
    BY <1>1, <1>4 DEF LogInv, LogQuiet
  <2>2. table[g] = Log(t) \/ Log(t) \in stale
    BY <1>4, <2>1 DEF LogInv, LogQuiet
  <2> QED
    BY <2>1, <2>2
<1>5. ASSUME logfilefd' > 0
      PROVE  \E t \in Threads : /\ logging'[t] \in {"out", "done"}
                                /\ table'[logfilefd'] = Log(t) \/ Log(t) \in stale'
  <2>1. PICK g \in Fds : g = logfilefd /\ g = logfilefd'
    BY <1>1, <1>5 DEF LogInv, LogQuiet
  <2>2. PICK t \in Threads : logging[t] \in {"out", "done"} /\ (table[g] = Log(t) \/ Log(t) \in stale)
    BY <1>5, <2>1 DEF LogInv
  <2>3. logging'[t] \in {"out", "done"}
    BY <2>2 DEF LogQuiet
  <2> QED
    BY <2>1, <2>2, <2>3
<1> QED
  BY <1>2, <1>3, <1>4, <1>5 DEF LogInv, LogQuiet

\* Descriptors are left alone.
LEMMA QuietKeeps ==
    ASSUME Held, Frame, LogQuiet, UNCHANGED <<table, sock, pump_fd, stale>>
    PROVE  Held'
<1>1. FdTypes'
  BY DEF Held, FdTypes, Frame, ServersStayOpen
<1>2. Owners'
  BY DEF Held, Owners, Frame
<1>3. Fresh'
  BY DEF Held, Fresh, Frame
<1>4. Uncut'
  BY DEF Held, Uncut, Frame
<1>5. LogInv'
  BY LogsKept DEF Held
<1> QED
  BY <1>1, <1>2, <1>3, <1>4, <1>5 DEF Held

\* A client in hand closes its connection, being inactive, or its file, forgetting it.
LEMMA CloseKeeps ==
    ASSUME Held, Frame, LogQuiet,
           InHand \subseteq Clients, NEW n \in InHand, NEW f, table' = Closed(f),
           \/ f = sock[n] /\ ~active'[n] /\ pump_fd' = pump_fd
           \/ f = pump_fd[n] /\ pump_fd' = [pump_fd EXCEPT ![n] = 0],
           UNCHANGED <<sock, stale>>
    PROVE  Held'
<1> FdTypes /\ Owners /\ LogInv /\ Fresh /\ Uncut
  BY DEF Held
<1>1. f \in Mine /\ f \notin 1..Servers
  BY Numbers DEF FdTypes
<1>2. \A g \in Fds : table'[g] = IF g = f THEN Free ELSE table[g]
  BY DEF Closed
<1>3. FdTypes'
  <2>1. table' \in [Fds -> {Free, Lost} \cup {Server(k) : k \in 1..Servers} \cup LogFiles
                         \cup {Conn(c) : c \in Clients} \cup {File(c) : c \in Clients}]
    BY DEF FdTypes, Closed
  <2>2. pump_fd' \in [Clients -> Mine]
    BY Numbers DEF FdTypes
  <2>3. ServersStayOpen'
    BY <1>1, <1>2, Numbers DEF FdTypes, ServersStayOpen
  <2> QED
    BY <2>1, <2>2, <2>3 DEF FdTypes, Frame
<1>0. n \in InUse
  BY DEF InUse
<1>4. \A c \in Clients : pump_fd'[c] = pump_fd[c] \/ (c = n /\ f = pump_fd[n] /\ pump_fd'[c] = 0)
  BY DEF FdTypes
<1>5. Owners'
  BY <1>2, <1>4, Distinct DEF Owners, Frame
<1>6. Fresh'
  <2> SUFFICES ASSUME NEW g \in Fds, NEW m \in InUse,
                      table'[g] \notin {Free, Lost}, table'[g] \notin stale
               PROVE  /\ g = sock[m] => table'[g] = Conn(m)
                      /\ g = pump_fd'[m] => table'[g] = File(m)
    BY DEF Fresh, Frame
  <2>1. m \in Clients
    BY DEF InUse, Trail
  <2> QED
    BY <1>2, <1>4, <2>1, Numbers DEF Fresh
<1>7. \A g \in Fds : table[g] \notin {Free, Lost} /\ table[g] \notin stale /\ g = f =>
          \/ table[g] = Conn(n) /\ ~active'[n]
          \/ table[g] = File(n) /\ pump_fd'[n] = 0
  <2> SUFFICES ASSUME f \in Fds, table[f] \notin {Free, Lost}, table[f] \notin stale
               PROVE  \/ table[f] = Conn(n) /\ ~active'[n]
                      \/ table[f] = File(n) /\ pump_fd'[n] = 0
    OBVIOUS
  <2>1. CASE f = sock[n] /\ ~active'[n]
    <3>1. table[f] = Conn(n)
      BY <1>0, <2>1 DEF Fresh
    <3> QED
      BY <2>1, <3>1, Zenon
  <2>2. CASE f = pump_fd[n] /\ pump_fd' = [pump_fd EXCEPT ![n] = 0]
    BY <1>0, <2>2 DEF Fresh, FdTypes
  <2> QED
    BY <2>1, <2>2
<1>8. Uncut'
  <2>1. ASSUME NEW c \in Clients, c <= allocated, active'[c], Conn(c) \notin stale
        PROVE  table'[sock[c]] = Conn(c)
    BY <1>2, <1>7, <2>1, Distinct, Numbers DEF Uncut, Frame, FdTypes
  <2>2. ASSUME NEW c \in Clients, c <= allocated, active'[c], pump_fd'[c] # 0, File(c) \notin stale
        PROVE  table'[pump_fd'[c]] = File(c)
    BY <1>2, <1>4, <1>7, <2>2, Distinct, Numbers DEF Uncut, Frame, FdTypes
  <2> QED
    BY <2>1, <2>2 DEF Uncut, Frame
<1>9. LogInv'
  <2>1. \A g \in Fds, t \in Threads :
            /\ table'[g] = Log(t) => table[g] = Log(t)
            /\ table[g] = Log(t) => table'[g] = Log(t) \/ Log(t) \in stale'
    <3> SUFFICES ASSUME NEW g \in Fds, NEW t \in Threads
                 PROVE  /\ table'[g] = Log(t) => table[g] = Log(t)
                        /\ table[g] = Log(t) => table'[g] = Log(t) \/ Log(t) \in stale
      OBVIOUS
    <3> QED
      BY <1>2, <1>7, Distinct
  <2> QED
    BY <2>1, LogsKept
<1> QED
  BY <1>3, <1>5, <1>6, <1>8, <1>9 DEF Held

\* A number is given to obj, and what was obj before is lost.
LEMMA GivenFacts ==
    ASSUME FdTypes, ~Full, NEW obj, obj \notin {Free, Lost}, Given(LowestFree, obj)
    PROVE  LET f == LowestFree IN
           /\ f \in Fds /\ f \in Mine /\ f # 0 /\ table[f] = Free /\ f \notin 1..Servers
           /\ \A g \in Fds : table'[g] = IF g = f THEN obj ELSE IF table[g] = obj THEN Lost ELSE table[g]
           /\ table' = [g \in Fds |-> table'[g]]
           /\ stale' \in {stale \cup {obj}, stale \ {obj}}
           /\ obj \notin stale' => \A n \in InUse : sock[n] # f /\ (pump_fd[n] = f => obj = File(n))
<1> DEFINE f == LowestFree
<1>1. f \in Fds /\ f \in Mine /\ f # 0 /\ table[f] = Free
  BY LowestIsFree
<1>2. f \notin 1..Servers
  BY <1>1, Numbers
<1>3. /\ \A g \in Fds : table'[g] = IF g = f THEN obj ELSE IF table[g] = obj THEN Lost ELSE table[g]
      /\ table' = [g \in Fds |-> table'[g]]
  BY <1>1 DEF Given, Losing
<1>4. CASE \E n \in InUse : sock[n] = f \/ (pump_fd[n] = f /\ obj # File(n))
  BY <1>1, <1>2, <1>3, <1>4 DEF Given
<1>5. CASE ~ \E n \in InUse : sock[n] = f \/ (pump_fd[n] = f /\ obj # File(n))
  BY <1>1, <1>2, <1>3, <1>5 DEF Given
<1> QED
  BY <1>4, <1>5

\* plain_transfer_open: the file of a live client, which may have another open.
LEMMA OpenKeeps ==
    ASSUME Held, Frame, LogQuiet, InHand \subseteq Clients,
           NEW n \in Clients, n <= allocated, unlinkedAt'[n] = 0,
           allocated \in Nat, Clients \subseteq Nat,
           ~Full, Given(LowestFree, File(n)),
           pump_fd' = [pump_fd EXCEPT ![n] = LowestFree], UNCHANGED sock
    PROVE  Held' /\ \A g \in Fds, c \in Clients : table'[g] = Conn(c) => table[g] = Conn(c)
<1> FdTypes /\ Owners /\ LogInv /\ Fresh /\ Uncut
  BY DEF Held
<1>1. PICK f \in Fds :
        /\ f = LowestFree /\ f \in Mine /\ f # 0 /\ table[f] = Free /\ f \notin 1..Servers
        /\ \A g \in Fds : table'[g] = IF g = f THEN File(n) ELSE IF table[g] = File(n) THEN Lost ELSE table[g]
        /\ table' = [g \in Fds |-> table'[g]]
        /\ stale' \in {stale \cup {File(n)}, stale \ {File(n)}}
        /\ File(n) \notin stale' =>
               \A m \in InUse : sock[m] # f /\ (pump_fd[m] = f => File(n) = File(m))
  BY GivenFacts, Distinct
<1>2. pump_fd' = [pump_fd EXCEPT ![n] = f]
  BY <1>1
<1>3. \A c \in Clients : pump_fd'[c] = IF c = n THEN f ELSE pump_fd[c]
  BY <1>2 DEF FdTypes
<1>4. FdTypes'
  <2>1. ServersStayOpen'
    BY <1>1, Numbers, Distinct DEF FdTypes, ServersStayOpen
  <2>2. table' \in [Fds -> {Free, Lost} \cup {Server(k) : k \in 1..Servers} \cup LogFiles
                         \cup {Conn(c) : c \in Clients} \cup {File(c) : c \in Clients}]
    BY <1>1 DEF FdTypes
  <2> QED
    BY <1>1, <1>2, <2>1, <2>2 DEF FdTypes, Frame
<1>5. Owners'
  <2>1. ASSUME NEW g \in Fds, NEW c \in Clients, table'[g] = Conn(c)
        PROVE  c <= allocated' /\ unlinkedAt'[c] = 0 /\ g = sock'[c]
    <3>1. table[g] = Conn(c)
      BY <1>1, <2>1, Distinct
    <3> QED
      BY <3>1 DEF Owners, Frame, FdTypes
  <2>2. ASSUME NEW g \in Fds, NEW c \in Clients, table'[g] = File(c)
        PROVE  c <= allocated' /\ unlinkedAt'[c] = 0 /\ g = pump_fd'[c]
    <3>1. CASE g = f
      BY <1>1, <1>3, <2>2, <3>1, Distinct DEF FdTypes, Frame
    <3>2. CASE g # f
      <4>1. table[g] = File(c) /\ c # n
        BY <1>1, <2>2, <3>2, Distinct
      <4> QED
        BY <1>3, <4>1 DEF Owners, Frame, FdTypes
    <3> QED
      BY <3>1, <3>2
  <2>4. \A c \in Clients : c > allocated' => pump_fd'[c] = 0
    BY <1>3 DEF Owners, Frame
  <2> QED
    BY <2>1, <2>2, <2>4 DEF Owners
<1>6. Fresh'
  <2> SUFFICES ASSUME NEW g \in Fds, NEW m \in InUse,
                      table'[g] \notin {Free, Lost}, table'[g] \notin stale'
               PROVE  /\ g = sock[m] => table'[g] = Conn(m)
                      /\ g = pump_fd'[m] => table'[g] = File(m)
    BY DEF Fresh, Frame
  <2>0. m \in Clients
    BY DEF InUse, Trail
  <2>1. CASE g = f
    BY <1>1, <1>3, <2>0, <2>1
  <2>2. CASE g # f
    <3>1. table'[g] = table[g] /\ table[g] # File(n) /\ table[g] \notin stale
      BY <1>1, <2>2
    <3> QED
      BY <1>3, <2>0, <2>2, <3>1 DEF Fresh
  <2> QED
    BY <2>1, <2>2
<1>7. Uncut'
  <2> SUFFICES ASSUME NEW c \in Clients, c <= allocated, active[c]
               PROVE  /\ table'[sock[c]] = Conn(c) \/ Conn(c) \in stale'
                      /\ pump_fd'[c] # 0 => table'[pump_fd'[c]] = File(c) \/ File(c) \in stale'
    BY DEF Uncut, Frame
  <2>1. table'[sock[c]] = Conn(c) \/ Conn(c) \in stale'
    BY <1>1, Distinct, Numbers DEF Uncut, FdTypes
  <2>2. ASSUME c # n, pump_fd[c] # 0
        PROVE  table'[pump_fd[c]] = File(c) \/ File(c) \in stale'
    BY <1>1, <2>2, Distinct, Numbers DEF Uncut, FdTypes
  <2> QED
    BY <1>1, <1>3, <2>1, <2>2
<1>8. LogInv'
  <2>1. \A g \in Fds, t \in Threads : table'[g] = Log(t) <=> table[g] = Log(t)
    BY <1>1, Distinct
  <2>2. \A t \in Threads : Log(t) \in stale => Log(t) \in stale'
    BY <1>1, Distinct
  <2> QED
    BY <2>1, <2>2, LogsKept
<1>9. \A g \in Fds, c \in Clients : table'[g] = Conn(c) => table[g] = Conn(c)
  BY <1>1, Distinct
<1> QED
  BY <1>4, <1>5, <1>6, <1>7, <1>8, <1>9 DEF Held

\* plain_transfer_open fails, and a file that is open is forgotten.
LEMMA LoseKeeps ==
    ASSUME Held, Frame, LogQuiet, InHand \subseteq Clients,
           NEW n \in Clients, table' = Losing({File(n)}),
           pump_fd' = [pump_fd EXCEPT ![n] = 0], UNCHANGED <<sock, stale>>
    PROVE  Held' /\ \A g \in Fds, c \in Clients : table'[g] = Conn(c) => table[g] = Conn(c)
<1> FdTypes /\ Owners /\ LogInv /\ Fresh /\ Uncut
  BY DEF Held
<1>1. \A g \in Fds : table'[g] = IF table[g] = File(n) THEN Lost ELSE table[g]
  BY DEF Losing
<1>2. \A c \in Clients : pump_fd'[c] = IF c = n THEN 0 ELSE pump_fd[c]
  BY DEF FdTypes
<1>3. FdTypes'
  <2>1. ServersStayOpen'
    BY <1>1, Numbers, Distinct DEF FdTypes, ServersStayOpen
  <2>2. table' \in [Fds -> {Free, Lost} \cup {Server(k) : k \in 1..Servers} \cup LogFiles
                         \cup {Conn(c) : c \in Clients} \cup {File(c) : c \in Clients}]
    BY <1>1 DEF FdTypes, Losing
  <2>3. pump_fd' \in [Clients -> Mine]
    BY Numbers DEF FdTypes
  <2> QED
    BY <2>1, <2>2, <2>3 DEF FdTypes, Frame
<1>4. Owners'
  <2>1. ASSUME NEW g \in Fds, NEW c \in Clients, table'[g] = Conn(c)
        PROVE  c <= allocated' /\ unlinkedAt'[c] = 0 /\ g = sock'[c]
    <3>1. table[g] = Conn(c)
      BY <1>1, <2>1, Distinct
    <3> QED
      BY <3>1 DEF Owners, Frame
  <2>2. ASSUME NEW g \in Fds, NEW c \in Clients, table'[g] = File(c)
        PROVE  c <= allocated' /\ unlinkedAt'[c] = 0 /\ g = pump_fd'[c]
    <3>1. table[g] = File(c) /\ c # n
      BY <1>1, <2>2, Distinct
    <3> QED
      BY <1>2, <3>1 DEF Owners, Frame
  <2>3. \A c \in Clients : c > allocated' => pump_fd'[c] = 0
    BY <1>2 DEF Owners, Frame
  <2> QED
    BY <2>1, <2>2, <2>3 DEF Owners
<1>5. Fresh'
  <2> SUFFICES ASSUME NEW g \in Fds, NEW m \in InUse,
                      table'[g] \notin {Free, Lost}, table'[g] \notin stale
               PROVE  /\ g = sock[m] => table'[g] = Conn(m)
                      /\ g = pump_fd'[m] => table'[g] = File(m)
    <3>1. Fresh' <=> \A g \in Fds, m \in InUse' :
                        table'[g] \notin {Free, Lost} /\ table'[g] \notin stale' =>
                            /\ g = sock'[m] => table'[g] = Conn(m)
                            /\ g = pump_fd'[m] => table'[g] = File(m)
      BY DEF Fresh
    <3> QED BY <3>1 DEF Frame
  <2>1. m \in Clients
    BY DEF InUse, Trail
  <2>2. table'[g] = table[g] /\ table[g] # File(n)
    BY <1>1
  <2>3. /\ g = sock[m] => table[g] = Conn(m)
        /\ g = pump_fd[m] => table[g] = File(m)
    BY <2>2 DEF Fresh
  <2> QED
    BY <1>2, <2>1, <2>2, <2>3, Numbers
<1>6. Uncut'
  <2> SUFFICES ASSUME NEW c \in Clients, c <= allocated, active[c]
               PROVE  /\ table'[sock[c]] = Conn(c) \/ Conn(c) \in stale
                      /\ pump_fd'[c] # 0 => table'[pump_fd'[c]] = File(c) \/ File(c) \in stale
    BY DEF Uncut, Frame
  <2>1. table'[sock[c]] = Conn(c) \/ Conn(c) \in stale
    BY <1>1, Distinct, Numbers DEF Uncut, FdTypes
  <2>2. ASSUME c # n, pump_fd[c] # 0
        PROVE  table'[pump_fd[c]] = File(c) \/ File(c) \in stale
    BY <1>1, <2>2, Distinct, Numbers DEF Uncut, FdTypes
  <2> QED
    BY <1>2, <2>1, <2>2
<1>7. LogInv'
  <2>1. \A g \in Fds, t \in Threads : table'[g] = Log(t) <=> table[g] = Log(t)
    BY <1>1, Distinct
  <2> QED
    BY <2>1, LogsKept
<1>8. \A g \in Fds, c \in Clients : table'[g] = Conn(c) => table[g] = Conn(c)
  BY <1>1, Distinct
<1> QED
  BY <1>3, <1>4, <1>5, <1>6, <1>7, <1>8 DEF Held

\* What llog does to the log files, the clients' numbers being left alone.
LEMMA ClientsKept ==
    ASSUME Held, Frame, UNCHANGED <<sock, pump_fd>>, FdTypes',
           \A g \in Fds, c \in Clients : /\ table'[g] = Conn(c) <=> table[g] = Conn(c)
                                         /\ table'[g] = File(c) <=> table[g] = File(c),
           \A c \in Clients : /\ Conn(c) \in stale <=> Conn(c) \in stale'
                              /\ File(c) \in stale <=> File(c) \in stale'
    PROVE  Owners' /\ Uncut'
<1>1. Owners'
  BY DEF Held, Owners, Frame
<1>2. Uncut'
  BY Numbers DEF Held, Uncut, Frame, FdTypes
<1> QED
  BY <1>1, <1>2

LEMMA LogOpensKeeps ==
    ASSUME Held, Frame, InHand \subseteq Clients, NEW t \in Threads, LogOpens(t)
    PROVE  Held'
<1> FdTypes /\ Owners /\ LogInv /\ Fresh /\ Uncut
  BY DEF Held
<1>0. /\ logging[t] = "opens" /\ logging' = [logging EXCEPT ![t] = "stores"]
      /\ UNCHANGED <<sock, pump_fd, logfilefd>>
  BY DEF LogOpens
<1>1. \A u \in Threads : logging'[u] = IF u = t THEN "stores" ELSE logging[u]
  BY <1>0 DEF LogInv
<1>9. \A x \in Mine \cup {-1} : x > 0 => x \in Fds
  BY Numbers
<1>2. CASE got' = [got EXCEPT ![t] = -1] /\ UNCHANGED <<table, stale>>
  <2>1. FdTypes'
    BY <1>0, <1>2 DEF FdTypes, Frame, ServersStayOpen
  <2>2. Fresh'
    BY <1>0, <1>2 DEF Fresh, Frame
  <2>3. \A u \in Threads : got'[u] = IF u = t THEN -1 ELSE got[u]
    BY <1>2 DEF LogInv
  <2>4. LogInv'
    <3>1. /\ got' \in [Threads -> Mine \cup {-1}]
          /\ logging' \in [Threads -> {"out", "opens", "stores", "done"}]
      BY <1>0, <1>2 DEF LogInv
    <3>2. \A f \in Fds, u \in Threads : table[f] = Log(u) => u # t
      BY <1>0 DEF LogInv
    <3>3. \A u \in Threads : logging[u] \in {"out", "done"} => u # t /\ logging'[u] = logging[u]
      BY <1>0, <1>1
    <3> QED
      BY <1>0, <1>1, <1>2, <2>3, <3>1, <3>2, <3>3 DEF LogInv
  <2> QED
    BY <1>0, <1>2, <2>1, <2>2, <2>4, ClientsKept DEF Held
<1>3. CASE ~Full /\ got' = [got EXCEPT ![t] = LowestFree] /\ Given(LowestFree, Log(t))
  <2>1. PICK f \in Fds :
          /\ f = LowestFree /\ f \in Mine /\ f # 0 /\ table[f] = Free /\ f \notin 1..Servers
          /\ \A g \in Fds : table'[g] = IF g = f THEN Log(t) ELSE IF table[g] = Log(t) THEN Lost ELSE table[g]
          /\ table' = [g \in Fds |-> table'[g]]
          /\ stale' \in {stale \cup {Log(t)}, stale \ {Log(t)}}
          /\ Log(t) \notin stale' =>
                 \A m \in InUse : sock[m] # f /\ (pump_fd[m] = f => Log(t) = File(m))
    BY <1>3, GivenFacts, Distinct
  <2>2. \A g \in Fds : table[g] # Log(t)
    BY <1>0 DEF LogInv
  <2>3. \A g \in Fds : table'[g] = IF g = f THEN Log(t) ELSE table[g]
    BY <2>1, <2>2
  <2>4. FdTypes'
    <3>1. ServersStayOpen'
      BY <2>1, <2>3, Numbers DEF FdTypes, ServersStayOpen
    <3>2. table' \in [Fds -> {Free, Lost} \cup {Server(k) : k \in 1..Servers} \cup LogFiles
                           \cup {Conn(c) : c \in Clients} \cup {File(c) : c \in Clients}]
      BY <2>1, <2>3, Distinct DEF FdTypes
    <3> QED
      BY <1>0, <2>1, <3>1, <3>2, Distinct DEF FdTypes, Frame
  <2>5. Fresh'
    <3> SUFFICES ASSUME NEW g \in Fds, NEW m \in InUse,
                        table'[g] \notin {Free, Lost}, table'[g] \notin stale'
                 PROVE  /\ g = sock[m] => table'[g] = Conn(m)
                        /\ g = pump_fd[m] => table'[g] = File(m)
      BY <1>0 DEF Fresh, Frame
    <3>0. m \in Clients
      BY DEF InUse, Trail
    <3>1. CASE g = f
      BY <2>1, <2>3, <3>0, <3>1, Distinct
    <3>2. CASE g # f
      BY <2>1, <2>2, <2>3, <3>0, <3>2 DEF Fresh
    <3> QED
      BY <3>1, <3>2
  <2>6. \A u \in Threads : got'[u] = IF u = t THEN f ELSE got[u]
    BY <1>3, <2>1 DEF LogInv
  <2>7. LogInv'
    <3>1. /\ got' \in [Threads -> Mine \cup {-1}]
          /\ logging' \in [Threads -> {"out", "opens", "stores", "done"}]
          /\ logfilefd' \in Mine \cup {-1}
      BY <1>0, <1>3, <2>1 DEF LogInv
    <3>2. ASSUME NEW g \in Fds, NEW u \in Threads, table'[g] = Log(u)
          PROVE  /\ logging'[u] # "opens"
                 /\ logging'[u] = "stores" => g = got'[u]
                 /\ logging'[u] # "stores" => g = logfilefd'
      <4>1. CASE g = f
        BY <1>1, <2>3, <2>6, <3>2, <4>1, Distinct
      <4>2. CASE g # f
        <5>1. table[g] = Log(u) /\ u # t
          BY <2>2, <2>3, <3>2, <4>2
        <5> QED
          BY <1>0, <1>1, <2>6, <5>1 DEF LogInv
      <4> QED
        BY <4>1, <4>2
    <3>3. \A u \in Threads : u # t /\ Log(u) \in stale => Log(u) \in stale'
      BY <2>1, Distinct
    <3>4. ASSUME NEW u \in Threads, logging'[u] = "stores", got'[u] > 0
          PROVE  table'[got'[u]] = Log(u) \/ Log(u) \in stale'
      <4>1. CASE u = t
        BY <2>3, <2>6, <4>1
      <4>2. CASE u # t
        <5>1. PICK g \in Fds : g = got[u] /\ g = got'[u]
          BY <1>9, <2>6, <3>4, <4>2 DEF LogInv
        <5>2. table[g] = Log(u) \/ Log(u) \in stale
          BY <1>1, <3>4, <4>2, <5>1 DEF LogInv
        <5> QED
          BY <2>1, <2>3, <3>3, <4>2, <5>1, <5>2, Distinct
      <4> QED
        BY <4>1, <4>2
    <3>5. ASSUME logfilefd' > 0
          PROVE  \E u \in Threads : /\ logging'[u] \in {"out", "done"}
                                    /\ table'[logfilefd'] = Log(u) \/ Log(u) \in stale'
      <4>1. PICK g \in Fds : g = logfilefd /\ g = logfilefd'
        BY <1>0, <1>9, <3>5 DEF LogInv
      <4>2. PICK u \in Threads : logging[u] \in {"out", "done"} /\ (table[g] = Log(u) \/ Log(u) \in stale)
        BY <3>5, <4>1 DEF LogInv
      <4>3. u # t /\ logging'[u] = logging[u]
        BY <1>0, <1>1, <4>2
      <4> QED
        BY <2>1, <2>3, <3>3, <4>1, <4>2, <4>3, Distinct
    <3> QED
      BY <3>1, <3>2, <3>4, <3>5 DEF LogInv
  <2>8. Owners' /\ Uncut'
    BY <1>0, <2>1, <2>3, <2>4, Distinct, ClientsKept
  <2> QED
    BY <2>4, <2>5, <2>7, <2>8 DEF Held
<1> QED
  BY <1>2, <1>3 DEF LogOpens

LEMMA LogStoresKeeps ==
    ASSUME Held, Frame, NEW t \in Threads, LogStores(t)
    PROVE  Held'
<1> FdTypes /\ Owners /\ LogInv /\ Fresh /\ Uncut
  BY DEF Held
<1>0. /\ logging[t] = "stores" /\ logging' = [logging EXCEPT ![t] = "done"]
      /\ logfilefd' = got[t] /\ got' = [got EXCEPT ![t] = 0]
      /\ UNCHANGED <<sock, pump_fd, stale>>
  BY DEF LogStores
<1>1. \A u \in Threads : /\ logging'[u] = IF u = t THEN "done" ELSE logging[u]
                         /\ got'[u] = IF u = t THEN 0 ELSE got[u]
  BY <1>0 DEF LogInv
<1>2. \A g \in Fds : table'[g] =
          IF g = logfilefd /\ \E u \in Threads : table[g] = Log(u) /\ logging[u] # "stores"
            THEN Lost ELSE table[g]
  BY DEF LogStores
<1>3. \A g \in Fds :
          \/ table'[g] = table[g]
          \/ table'[g] = Lost /\ \E u \in Threads : table[g] = Log(u) /\ logging[u] # "stores"
  BY <1>2
<1>4. FdTypes'
  <2>1. table' \in [Fds -> {Free, Lost} \cup {Server(k) : k \in 1..Servers} \cup LogFiles
                         \cup {Conn(c) : c \in Clients} \cup {File(c) : c \in Clients}]
    BY DEF FdTypes, LogStores
  <2>2. ServersStayOpen'
    BY <1>3, Numbers, Distinct DEF FdTypes, ServersStayOpen
  <2> QED
    BY <1>0, <2>1, <2>2 DEF FdTypes, Frame
<1>5. Fresh'
  BY <1>0, <1>3 DEF Fresh, Frame
<1>6. Owners' /\ Uncut'
  <2>1. \A g \in Fds, c \in Clients : /\ table'[g] = Conn(c) <=> table[g] = Conn(c)
                                      /\ table'[g] = File(c) <=> table[g] = File(c)
    BY <1>3, Distinct
  <2> QED
    BY <1>0, <1>4, <2>1, ClientsKept
<1>9. \A x \in Mine \cup {-1} : x > 0 => x \in Fds
  BY Numbers
<1>7. LogInv'
  <2>1. /\ got' \in [Threads -> Mine \cup {-1}]
        /\ logging' \in [Threads -> {"out", "opens", "stores", "done"}]
        /\ logfilefd' \in Mine \cup {-1}
    BY <1>0, Numbers DEF LogInv
  <2>2. ASSUME NEW g \in Fds, NEW u \in Threads, table'[g] = Log(u)
        PROVE  /\ logging'[u] # "opens"
               /\ logging'[u] = "stores" => g = got'[u]
               /\ logging'[u] # "stores" => g = logfilefd'
    <3>1. table[g] = Log(u)
      BY <1>3, <2>2, Distinct
    <3>2. logging[u] # "opens" /\ (logging[u] = "stores" => g = got[u]) /\ (logging[u] # "stores" => g = logfilefd)
      BY <3>1 DEF LogInv
    <3>3. logging[u] = "stores"
      BY <1>2, <2>2, <3>1, <3>2, Distinct
    <3> QED
      BY <1>0, <1>1, <3>2, <3>3
  <2>3. ASSUME NEW u \in Threads, logging[u] = "stores", got[u] > 0
        PROVE  table'[got[u]] = Log(u) \/ Log(u) \in stale
    <3>1. PICK g \in Fds : g = got[u]
      BY <1>9, <2>3 DEF LogInv
    <3>2. table[g] = Log(u) \/ Log(u) \in stale
      BY <2>3, <3>1 DEF LogInv
    <3>3. CASE table[g] = Log(u)
      <4>1. table'[g] = table[g]
        BY <1>3, <2>3, <3>3, Distinct
      <4> QED
        BY <3>1, <3>3, <4>1
    <3> QED
      BY <3>2, <3>3
  <2>4. \A u \in Threads : logging'[u] = "stores" /\ got'[u] > 0 =>
            table'[got'[u]] = Log(u) \/ Log(u) \in stale'
    BY <1>0, <1>1, <2>3
  <2>5. logfilefd' > 0 => \E u \in Threads : /\ logging'[u] \in {"out", "done"}
                                             /\ table'[logfilefd'] = Log(u) \/ Log(u) \in stale'
    BY <1>0, <1>1, <2>3
  <2> QED
    BY <2>1, <2>2, <2>4, <2>5 DEF LogInv
<1> QED
  BY <1>4, <1>5, <1>6, <1>7 DEF Held

LEMMA LogTestsKeeps ==
    ASSUME Held, Frame, NEW t \in Threads, LogTests(t)
    PROVE  Held'
<1> FdTypes /\ Owners /\ LogInv /\ Fresh /\ Uncut
  BY DEF Held
<1>0. /\ logging[t] = "out" /\ logfilefd <= 0 /\ logging' = [logging EXCEPT ![t] = "opens"]
      /\ UNCHANGED <<table, sock, pump_fd, logfilefd, got, stale>>
  BY DEF LogTests
<1>1. \A u \in Threads : logging'[u] = IF u = t THEN "opens" ELSE logging[u]
  BY <1>0 DEF LogInv
<1>2. FdTypes' /\ Fresh' /\ Owners' /\ Uncut'
  <2>1. FdTypes'
    BY <1>0 DEF FdTypes, Frame, ServersStayOpen
  <2>2. Fresh'
    BY <1>0 DEF Fresh, Frame
  <2> QED
    BY <1>0, <2>1, <2>2, ClientsKept
<1>3. logfilefd \notin Fds /\ ~(logfilefd > 0)
  BY <1>0, Numbers DEF Fds, LogInv
<1>4. \A f \in Fds : table[f] # Log(t)
  BY <1>0, <1>3 DEF LogInv
<1>5. LogInv'
  <2>1. logging' \in [Threads -> {"out", "opens", "stores", "done"}]
    BY <1>0 DEF LogInv
  <2> QED
    BY <1>0, <1>1, <1>3, <1>4, <2>1 DEF LogInv
<1> QED
  BY <1>2, <1>5 DEF Held

\* accept: a client that was not there before.
LEMMA AcceptKeeps ==
    ASSUME Held, IInv, InHand \subseteq Clients,
           NEW p \in Pools, AcceptConnection(p)
    PROVE  Held'
<1> FdTypes /\ Owners /\ LogInv /\ Fresh /\ Uncut
  BY DEF Held
<1> DEFINE new == allocated + 1
<1>1. /\ new \in Clients /\ allocated' = new /\ allocated \in Nat /\ Clients \subseteq Nat
      /\ active' = [active EXCEPT ![new] = TRUE] /\ active \in [Clients -> BOOLEAN]
      /\ UNCHANGED <<unlinkedAt, spc, sptr, pump_fd, logVars>>
  BY LinkedFacts, Cursors, ConstantsAssumption DEF AcceptConnection, Accept, Clients, sVars
<1>2. unlinkedAt[new] = 0 /\ pump_fd[new] = 0
  BY <1>1 DEF IInv, Lifecycle, Owners
<1>5. \A g \in Fds : table[g] # Conn(new) /\ table[g] # File(new)
  BY <1>1 DEF Owners
<1>3. PICK f \in Fds :
        /\ f = LowestFree /\ f \in Mine /\ f # 0 /\ table[f] = Free /\ f \notin 1..Servers
        /\ \A g \in Fds : table'[g] = IF g = f THEN Conn(new) ELSE table[g]
        /\ table' = [g \in Fds |-> table'[g]]
        /\ stale' \in {stale \cup {Conn(new)}, stale \ {Conn(new)}}
        /\ Conn(new) \notin stale' =>
               \A m \in InUse : sock[m] # f /\ (pump_fd[m] = f => Conn(new) = File(m))
  <2>1. ~Full /\ Given(LowestFree, Conn(new))
    BY <1>1 DEF AcceptConnection
  <2> HIDE DEF new
  <2>2. Conn(new) \notin {Free, Lost}
    BY <1>1, Distinct
  <2> QED
    BY <1>5, <2>1, <2>2, GivenFacts
<1>4. sock' = [sock EXCEPT ![new] = f]
  BY <1>1, <1>3 DEF AcceptConnection
<1> HIDE DEF new
<1>7. \A c \in Clients : c <= allocated' <=> (c <= allocated \/ c = new)
  BY <1>1 DEF new
<1>6. InUse' = InUse \cup {new}
  <2>1. {c \in Clients : c <= allocated' /\ unlinkedAt'[c] = 0}
        = {c \in Clients : c <= allocated /\ unlinkedAt[c] = 0} \cup {new}
    BY <1>1, <1>2, <1>7
  <2>2. UNCHANGED <<spc, sptr, next_client>>
    BY DEF AcceptConnection, Accept, sVars
  <2>3. InHand' = InHand \cup {new}
    BY <2>1, <2>2 DEF InHand
  <2>4. \A q \in Pools : Trail(sptr[q])' = Trail(sptr[q])
    BY <2>2 DEF Trail
  <2> QED
    BY <2>2, <2>3, <2>4 DEF InUse
<1>8. FdTypes'
  <2>1. ServersStayOpen'
    BY <1>3, Numbers DEF FdTypes, ServersStayOpen
  <2>2. table' \in [Fds -> {Free, Lost} \cup {Server(k) : k \in 1..Servers} \cup LogFiles
                         \cup {Conn(c) : c \in Clients} \cup {File(c) : c \in Clients}]
    BY <1>1, <1>3 DEF FdTypes
  <2> QED
    BY <1>1, <1>3, <1>4, <1>7, <2>1, <2>2 DEF FdTypes
<1>9. Owners'
  BY <1>1, <1>2, <1>3, <1>4, <1>5, <1>7, Distinct DEF Owners, FdTypes
<1>10. Fresh'
  <2> SUFFICES ASSUME NEW g \in Fds, NEW m \in InUse',
                      table'[g] \notin {Free, Lost}, table'[g] \notin stale'
               PROVE  /\ g = sock'[m] => table'[g] = Conn(m)
                      /\ g = pump_fd[m] => table'[g] = File(m)
    BY SMTT(60), <1>1 DEF Fresh
  <2>0. m \in Clients /\ InUse \subseteq Clients
    BY <1>1, <1>6, ZenonT(60) DEF InUse, Trail
  <2>1. CASE g = f
    BY <1>1, <1>2, <1>3, <1>4, <1>6, <2>0, <2>1, Distinct DEF FdTypes
  <2>2. CASE g # f
    <3>1. table'[g] = table[g] /\ table[g] \notin stale
      BY <1>3, <1>5, <2>2
    <3>2. sock'[m] = IF m = new THEN f ELSE sock[m]
      BY <1>4, <2>0 DEF FdTypes
    <3>3. m = new \/ (m \in InUse /\ m # new)
      BY <1>6
    <3>4. m \in InUse => /\ g = sock[m] => table[g] = Conn(m)
                         /\ g = pump_fd[m] => table[g] = File(m)
      BY <3>1 DEF Fresh
    <3> QED
      BY <1>2, <2>2, <3>1, <3>2, <3>3, <3>4, Numbers
  <2> QED
    BY <2>1, <2>2
<1>11. Uncut'
  BY <1>1, <1>2, <1>3, <1>4, <1>5, <1>7, Distinct, Numbers DEF Uncut, FdTypes
<1>12. LogInv'
  <2>1. LogQuiet
    BY <1>1 DEF LogQuiet, logVars, LogInv
  <2>2. \A g \in Fds, t \in Threads : table'[g] = Log(t) <=> table[g] = Log(t)
    BY <1>1, <1>3, Distinct
  <2>3. \A t \in Threads : Log(t) \in stale => Log(t) \in stale'
    BY <1>1, <1>3, Distinct
  <2> QED
    BY <2>1, <2>2, <2>3, LogsKept
<1> QED
  BY <1>8, <1>9, <1>10, <1>11, <1>12 DEF Held

LEMMA LoggedIsQuiet ==
    ASSUME LogInv, NEW t \in Threads, Logged(t)
    PROVE  LogQuiet
<1>1. logging' = [logging EXCEPT ![t] = "out"] /\ logging[t] \in {"out", "done"} /\ UNCHANGED <<logfilefd, got>>
  BY DEF Logged
<1> QED
  BY <1>1 DEF LogInv, LogQuiet

LEMMA InHandFacts ==
    ASSUME IInv, Ending
    PROVE  InHand \subseteq Clients /\ Linked \subseteq InHand /\ InHand \subseteq InUse
  BY LinkedFacts DEF InHand, Ending, InUse

\* A step that changes neither the rolls of clients nor the service threads.
LEMMA StillFrame ==
    ASSUME Ending, UNCHANGED <<next_client, allocated, unlinkedAt, spc, sptr>>,
           \A c \in Clients : active'[c] => active[c]
    PROVE  Frame /\ Ending'
<1>1. InHand' = InHand
  BY DEF InHand
<1>2. \A q \in Pools : Trail(sptr[q])' = Trail(sptr[q])
  BY DEF Trail
<1>3. InUse' = InUse
  BY <1>1, <1>2 DEF InUse
<1> QED
  BY <1>3 DEF Frame, Ending

\* add_new_client_struct links a client that is new to everybody.
LEMMA AppendFrame ==
    ASSUME IInv, Ending, AppendWalk
    PROVE  Frame /\ Ending'
<1>1. /\ UNCHANGED <<allocated, unlinkedAt, active, spc, sptr>> /\ lpc = "appendWalk"
      /\ allocated \in Clients /\ lwalk \in Linked
      /\ next_client' \in {next_client, [next_client EXCEPT ![lwalk] = allocated]}
  BY Cursors DEF AppendWalk, sVars, IInv, CursorInv
<1> DEFINE K == Linked \cup {allocated}
<1>2. InHand' = InHand
  BY <1>1 DEF InHand
<1>3. K \subseteq Clients /\ K \subseteq InHand
  <2>1. unlinkedAt[allocated] = 0 /\ allocated <= allocated
    BY <1>1, LinkedFacts DEF IInv, Lifecycle, Pending
  <2> QED
    BY <1>1, <2>1, InHandFacts DEF InHand
<1>4. \A m \in Clients : next_client'[m] \in {next_client[m], Nil} \cup K
  BY <1>1, LinkedFacts
<1>5. \A m \in K : next_client'[m] # Nil => next_client'[m] \in K
  <2>1. next_client[allocated] = Nil
    BY <1>1 DEF IInv, Lifecycle, Pending
  <2> QED
    BY <1>1, <2>1, LinkedFacts DEF IInv, ChainInv
<1>6. InUse' \subseteq InUse
  <2> HIDE DEF K
  <2> QED
    BY <1>1, <1>2, <1>3, <1>4, <1>5, InUseShrinks
<1> QED
  BY <1>1, <1>6 DEF Frame, Ending

\* del_client_struct takes off a client whose descriptors are closed.
LEMMA UnlinkFrame ==
    ASSUME IInv, FdTypes, Owners, Deleting, Ending, lpc \in {"remove", "removeWalk"}, todo = "done",
           RemoveFirst \/ RemoveWalk
    PROVE  Frame /\ Ending'
<1>1. lptr \in Clients /\ lptr \in Linked /\ unlinkedAt \in [Clients -> Nat] /\ unlinkedAt[lptr] = 0
  BY LinkedFacts DEF IInv, CursorInv
<1>2. \A f \in Fds : table[f] # Conn(lptr) /\ table[f] # File(lptr)
  BY <1>1, Numbers DEF Deleting, Owners
<1>0. /\ unlinkedAt' \in {unlinkedAt, [unlinkedAt EXCEPT ![lptr] = allocated]}
      /\ UNCHANGED <<allocated, active, spc, sptr>>
  BY DEF RemoveFirst, RemoveWalk, sVars
<1>3. \A c \in Clients : unlinkedAt'[c] = unlinkedAt[c] \/ c = lptr
  BY <1>0, <1>1
<1>4. InHand' \subseteq InHand
  <2>1. \A c \in Clients : unlinkedAt'[c] = 0 => unlinkedAt[c] = 0
    BY <1>1, <1>3
  <2> QED
    BY <1>0, <2>1 DEF InHand
<1>5. \/ next_client' = next_client
      \/ lprev \in Linked /\ next_client' = [next_client EXCEPT ![lprev] = next_client[lptr]]
  BY Cursors DEF RemoveFirst, RemoveWalk, IInv, CursorInv
<1>6. \A m \in Linked : next_client[m] \in Linked \cup {Nil}
  BY DEF IInv, ChainInv
<1>7. \A m \in Clients : next_client'[m] \in {next_client[m], Nil} \cup Linked
  BY <1>1, <1>5, <1>6, LinkedFacts
<1>8. \A m \in Linked : next_client'[m] # Nil => next_client'[m] \in Linked
  BY <1>1, <1>5, <1>6, LinkedFacts
<1>9. InUse' \subseteq InUse
  BY <1>0, <1>4, <1>7, <1>8, Cursors, InHandFacts, InUseShrinks
<1> QED
  BY <1>0, <1>2, <1>3, <1>9 DEF Frame, Ending

\* llog and what is logged leave the list and the threads where they are.
LEMMA LogStepKeeps ==
    ASSUME FdInv, InHand \subseteq Clients, lpc \notin {"remove", "removeWalk"} \/ lptr \in Clients,
           NEW t \in Threads, LogStep(t)
    PROVE  FdInv'
<1>1. UNCHANGED <<next_client, allocated, unlinkedAt, active, spc, sptr, lpc, lptr, pump_fd, todo>>
  BY LogStepFrame DEF clVars
<1>2. Frame /\ Ending'
  BY <1>1, StillFrame DEF FdInv
<1>3. Held'
  BY <1>2, LogTestsKeeps, LogOpensKeeps, LogStoresKeeps DEF FdInv, LogStep
<1>4. \A f \in Fds, c \in Clients : table'[f] = Conn(c) => table[f] = Conn(c)
  <2>1. CASE LogTests(t)
    BY <2>1 DEF LogTests
  <2>2. CASE LogStores(t)
    BY <2>2, Distinct DEF LogStores
  <2>3. CASE LogOpens(t)
    <3>1. CASE UNCHANGED table
      BY <3>1
    <3>2. CASE ~Full /\ Given(LowestFree, Log(t))
      <4>1. \A g \in Fds : table'[g] =
                IF g = LowestFree THEN Log(t) ELSE IF table[g] = Log(t) THEN Lost ELSE table[g]
        BY <3>2, GivenFacts, Distinct DEF FdInv, Held
      <4> QED
        BY <4>1, Distinct
    <3> QED
      BY <2>3, <3>1, <3>2 DEF LogOpens
  <2> QED
    BY <2>1, <2>2, <2>3 DEF LogStep
<1>5. Deleting'
  BY <1>1, <1>4 DEF FdInv, Deleting
<1> QED
  BY <1>2, <1>3, <1>5 DEF FdInv

LEMMA ListeningKeeps ==
    ASSUME IInv, FdInv, ListeningThread
    PROVE  FdInv'
<1>0. /\ Held /\ FdTypes /\ Owners /\ LogInv /\ Deleting /\ Ending
      /\ InHand \subseteq Clients /\ Linked \subseteq InHand
  BY InHandFacts DEF FdInv, Held
<1>q. ASSUME UNCHANGED logVars PROVE LogQuiet
  BY <1>0, <1>q DEF LogQuiet, LogInv, logVars
<1>1. ASSUME NEW p \in Pools, AcceptConnection(p) PROVE FdInv'
  <2>1. Held'
    BY <1>0, <1>1, AcceptKeeps
  <2>2. Deleting'
    BY <1>0, <1>1 DEF AcceptConnection, Accept, Deleting
  <2>3. /\ UNCHANGED <<spc, sptr>> /\ allocated' = allocated + 1
        /\ active' = [active EXCEPT ![allocated + 1] = TRUE]
    BY <1>1 DEF AcceptConnection, Accept, sVars
  <2>4. Ending'
    BY <1>0, <2>3, LinkedFacts, Cursors DEF Ending
  <2> QED
    BY <2>1, <2>2, <2>4 DEF FdInv
<1>2. CASE /\ UNCHANGED fdVars
           /\ \/ PollReports \/ AcceptFails \/ PollTimeout
              \/ AppendFirst \/ AppendWalk \/ CleanupEnd \/ CleanupTest
  <2>1. lpc' \notin {"remove", "removeWalk"}
    BY <1>2 DEF PollReports, AcceptFails, PollTimeout, AppendFirst, AppendWalk, CleanupEnd, CleanupTest
  <2>2. Frame /\ Ending'
    <3>1. CASE AppendWalk
      BY <1>0, <3>1, AppendFrame
    <3>2. CASE ~AppendWalk
      <4>1. UNCHANGED <<next_client, allocated, unlinkedAt, active, spc, sptr>>
        BY <1>2, <3>2 DEF PollReports, AcceptFails, PollTimeout, AppendFirst, CleanupEnd, CleanupTest,
                          listVars, sVars
      <4> QED
        BY <1>0, <4>1, StillFrame
    <3> QED
      BY <3>1, <3>2
  <2>3. UNCHANGED <<table, sock, pump_fd, todo, stale>> /\ LogQuiet
    BY <1>2, <1>q DEF fdVars, logVars
  <2>4. Deleting'
    BY <1>0, <2>1, <2>3 DEF Deleting
  <2> QED
    BY <1>0, <2>2, <2>3, <2>4, QuietKeeps DEF FdInv
<1>3. CASE BeginDelete
  <2>1. /\ UNCHANGED <<next_client, allocated, unlinkedAt, spc, sptr, table, sock, pump_fd, stale>>
        /\ active' = [active EXCEPT ![lptr] = FALSE] /\ lpc' = "remove" /\ todo' = "close"
    BY <1>3 DEF BeginDelete, DeleteClient, sVars
  <2>2. Frame /\ Ending'
    BY <1>0, <2>1, StillFrame, LinkedFacts
  <2>3. Deleting'
    BY <2>1 DEF Deleting
  <2>4. LogQuiet
    BY <1>0, <1>3, LoggedIsQuiet DEF BeginDelete, Threads
  <2> QED
    BY <1>0, <2>1, <2>2, <2>3, <2>4, QuietKeeps DEF FdInv
<1>4. CASE DeleteCloses \/ DeleteClears
  <2>1. /\ UNCHANGED <<next_client, allocated, unlinkedAt, active, spc, sptr, lpc, lptr>>
        /\ UNCHANGED <<sock, stale>> /\ LogQuiet
        /\ lpc = "remove" /\ lptr \in Linked /\ lptr \in InHand /\ lptr \in Clients /\ ~active[lptr]
    BY <1>0, <1>4, <1>q DEF DeleteCloses, DeleteClears, clVars, IInv, CursorInv
  <2>2. Frame /\ Ending'
    BY <1>0, <2>1, StillFrame
  <2>3. CASE DeleteCloses
    <3>1. table' = Closed(sock[lptr]) /\ todo' = "clear" /\ pump_fd' = pump_fd
      BY <2>3 DEF DeleteCloses
    <3>2. Held'
      BY <1>0, <2>1, <2>2, <3>1, CloseKeeps
    <3>3. \A f \in Fds : table'[f] # Conn(lptr)
      BY <1>0, <2>1, <3>1, Distinct DEF Closed, Owners
    <3>4. Deleting'
      BY <2>1, <3>1, <3>3 DEF Deleting
    <3> QED
      BY <2>2, <3>2, <3>4 DEF FdInv
  <2>4. CASE DeleteClears
    <3>1. /\ table' = Closed(pump_fd[lptr]) /\ todo = "clear" /\ todo' = "done"
          /\ pump_fd' = [pump_fd EXCEPT ![lptr] = 0]
      BY <2>4 DEF DeleteClears
    <3>2. Held'
      BY <1>0, <2>1, <2>2, <3>1, CloseKeeps
    <3>3. (\A f \in Fds : table'[f] # Conn(lptr)) /\ pump_fd'[lptr] = 0
      BY <1>0, <2>1, <3>1, Distinct DEF Closed, Deleting, FdTypes
    <3>4. Deleting'
      BY <2>1, <3>1, <3>3 DEF Deleting
    <3> QED
      BY <2>2, <3>2, <3>4 DEF FdInv
  <2> QED
    BY <1>4, <2>3, <2>4
<1>5. CASE (RemoveFirst \/ RemoveWalk) /\ (lpc = "remove" => todo = "done") /\ UNCHANGED fdVars
  <2>1. lpc \in {"remove", "removeWalk"} /\ todo = "done"
    BY <1>0, <1>5 DEF RemoveFirst, RemoveWalk, Deleting
  <2>2. lpc' = "cleanup" \/ (lpc' = "removeWalk" /\ lptr' = lptr)
    BY <1>5 DEF RemoveFirst, RemoveWalk
  <2>3. Frame /\ Ending'
    BY <1>0, <1>5, <2>1, UnlinkFrame
  <2>4. UNCHANGED <<table, sock, pump_fd, todo, stale>> /\ LogQuiet
    BY <1>5, <1>q DEF fdVars, logVars
  <2>5. Deleting'
    BY <1>0, <2>1, <2>2, <2>4 DEF Deleting
  <2> QED
    BY <1>0, <2>3, <2>4, <2>5, QuietKeeps DEF FdInv
<1>6. CASE lpc = "delete" /\ LogStep(Listening)
  BY <1>0, <1>6, LogStepKeeps DEF Threads
<1> QED
  BY <1>1, <1>2, <1>3, <1>4, <1>5, <1>6 DEF ListeningThread, RemoveFirst, RemoveWalk

\* A service thread makes clients inactive, one before it ends its connection.
LEMMA ServingFrame ==
    ASSUME IInv, VisibleInv, Ending, NEW p \in Pools, ServiceThread(p)
    PROVE  Frame /\ Ending'
<1> USE LinkedFacts DEF listVars, lVars, Goto
<1>1. /\ UNCHANGED <<next_client, allocated, unlinkedAt>>
      /\ \A c \in Clients : active'[c] => active[c]
      /\ \A q \in Pools : spc'[q] = "ended" =>
             \/ spc[q] = "ended" /\ sptr'[q] = sptr[q]
             \/ sptr'[q] = sptr[q] /\ sptr[q] # Nil /\ active[sptr[q]] /\ ~active'[sptr[q]]
      /\ \A q \in Pools : spc'[q] = "find" =>
             \/ spc[q] = "find" /\ sptr'[q] = sptr[q]
             \/ sptr'[q] = clienthead
             \/ spc[q] = "find" /\ sptr[q] # Nil /\ sptr'[q] = next_client[sptr[q]]
  <2>0. spc \in [Pools -> {"idle", "first", "build", "ended", "branch", "find"}]
    BY DEF IInv, TypeOK
  <2>1. CASE ListAndRefuse(p) \/ Finish(p)
    <3>1. /\ UNCHANGED <<next_client, allocated, unlinkedAt, sptr>>
          /\ spc' = [spc EXCEPT ![p] = "ended"]
          /\ sptr[p] # Nil /\ active[sptr[p]] /\ active' = [active EXCEPT ![sptr[p]] = FALSE]
      BY <2>1 DEF ListAndRefuse, Finish
    <3> QED
      BY <2>0, <3>1
  <2>2. CASE Skip(p) \/ List(p) \/ AfterEnd(p)
    <3>1. /\ UNCHANGED <<next_client, allocated, unlinkedAt, active>>
          /\ spc' = [spc EXCEPT ![p] = "build"]
          /\ \A q \in Pools : q # p => sptr'[q] = sptr[q]
      BY <2>2 DEF Skip, List, AfterEnd, Advance
    <3> QED
      BY <2>0, <3>1
  <2>3. ASSUME NEW dead \in BOOLEAN, FindMatch(p, dead)
        PROVE  <1>1!1 /\ <1>1!2 /\ <1>1!3 /\ <1>1!4
    BY <2>0, <2>3 DEF FindMatch
  <2>4. CASE PassStart(p) \/ PassFirst(p) \/ PassBuilt(p) \/ PassSleep(p) \/ PassTimeout(p)
    BY <2>0, <2>4 DEF PassStart, PassFirst, PassBuilt, PassSleep, PassTimeout
  <2>5. CASE PassPolled(p) \/ FindNext(p) \/ FindNone(p)
    BY <2>0, <2>5 DEF PassPolled, FindNext, FindNone
  <2> QED
    BY <2>1, <2>2, <2>3, <2>4, <2>5 DEF ServiceThread
<1>2. Ending'
  BY <1>1 DEF Ending, VisibleInv, Visible
<1>3. InHand' \subseteq InHand
  <2>1. \A q \in Pools : spc'[q] = "ended" => sptr'[q] \in InHand
    <3> SUFFICES ASSUME NEW q \in Pools, spc'[q] = "ended", spc[q] # "ended"
                 PROVE  sptr'[q] \in InHand
      BY <1>1 DEF InHand
    <3>1. PICK c \in Clients : c = sptr[q]
      BY <1>1
    <3>2. c <= allocated /\ unlinkedAt[c] = 0 /\ sptr'[q] = c
      BY <1>1, <3>1 DEF VisibleInv, Visible, IInv, Lifecycle
    <3> QED
      BY <3>2 DEF InHand
  <2> QED
    BY <1>1, <2>1 DEF InHand
<1>4. InUse' \subseteq InUse
  <2> SUFFICES ASSUME NEW q \in Pools, spc'[q] = "find", sptr'[q] # Nil
               PROVE  Trail(sptr'[q]) \subseteq InUse
    BY <1>1, <1>3 DEF InUse, Trail
  <2>1. CASE spc[q] = "find" /\ sptr'[q] = sptr[q]
    BY <2>1 DEF InUse
  <2>2. CASE sptr'[q] = clienthead
    <3>1. Trail(clienthead) \subseteq Linked
      BY <2>2, Cursors, TrailInside DEF IInv, ChainInv
    <3> QED
      BY <2>2, <3>1, InHandFacts
  <2>3. CASE spc[q] = "find" /\ sptr[q] # Nil /\ sptr'[q] = next_client[sptr[q]]
    <3>1. sptr[q] \in Clients
      BY <2>3
    <3>2. Trail(sptr'[q]) \subseteq Trail(sptr[q])
      BY <2>3, <3>1, TrailNext
    <3> QED
      BY <2>3, <3>2 DEF InUse
  <2> QED
    BY <1>1, <2>1, <2>2, <2>3
<1> QED
  BY <1>1, <1>2, <1>4 DEF Frame

\* What a service thread leaves to delete_client.
LEMMA ServingDeletes ==
    ASSUME FdTypes, Deleting, UNCHANGED <<lpc, lptr, todo>>,
           \A f \in Fds, c \in Clients : table'[f] = Conn(c) => table[f] = Conn(c),
           lptr \in Clients \/ lpc \notin {"remove", "removeWalk"},
           \A c \in Clients : pump_fd'[c] \in {0, pump_fd[c]}
                              \/ (lpc \in {"remove", "removeWalk"} => c # lptr)
    PROVE  Deleting'
  BY DEF Deleting

LEMMA ServingKeeps ==
    ASSUME IInv, VisibleInv, FdInv, NEW p \in Pools, Serve(p)
    PROVE  FdInv'
<1>0. /\ Held /\ FdTypes /\ Owners /\ LogInv /\ Deleting /\ Ending
      /\ InHand \subseteq Clients /\ Linked \subseteq InHand
  BY InHandFacts DEF FdInv, Held
<1>2. (lptr \in Clients /\ ~active[lptr]) \/ lpc \notin {"remove", "removeWalk"}
  BY Cursors DEF IInv, CursorInv
<1>9. CASE LogsRequest(p)
  BY <1>0, <1>2, <1>9, LogStepKeeps DEF LogsRequest, Threads
<1>s. ASSUME ~LogsRequest(p) PROVE FdInv'
  <2>1. Frame /\ Ending' /\ UNCHANGED <<lpc, lptr>>
    <3>1. ServiceThread(p)
      BY <1>s, ServeStep
    <3>2. UNCHANGED <<lpc, lptr>>
      BY <3>1 DEF ServiceThread, PassStart, PassFirst, Skip, List, ListAndRefuse, Finish, AfterEnd,
                  PassBuilt, PassSleep, PassTimeout, PassPolled, FindNext, FindMatch, FindNone,
                  Advance, lVars
    <3> QED
      BY <1>0, <3>1, <3>2, ServingFrame
  <2>q. ASSUME UNCHANGED logVars \/ Logged(p) PROVE LogQuiet
    <3>1. CASE UNCHANGED logVars
      BY <1>0, <3>1 DEF LogQuiet, LogInv, logVars
    <3>2. CASE Logged(p)
      BY <1>0, <3>2, LoggedIsQuiet DEF Threads
    <3> QED
      BY <2>q, <3>1, <3>2
  <2>d. ASSUME UNCHANGED todo,
               \A f \in Fds, c \in Clients : table'[f] = Conn(c) => table[f] = Conn(c),
               \A c \in Clients : pump_fd'[c] \in {0, pump_fd[c]}
                                  \/ (lpc \in {"remove", "removeWalk"} => c # lptr)
        PROVE  Deleting'
    BY <1>0, <1>2, <2>1, <2>d, ServingDeletes
  <2>3. ASSUME UNCHANGED <<table, sock, pump_fd, todo, stale>>, LogQuiet PROVE FdInv'
    <3>1. Deleting'
      BY <1>0, <2>1, <2>3 DEF Deleting
    <3> QED
      BY <1>0, <2>1, <2>3, <3>1, QuietKeeps DEF FdInv
  <2>4. ASSUME NEW n \in InHand, NEW f, table' = Closed(f),
               \/ f = sock[n] /\ ~active'[n] /\ pump_fd' = pump_fd
               \/ f = pump_fd[n] /\ pump_fd' = [pump_fd EXCEPT ![n] = 0],
               UNCHANGED <<sock, todo, stale>>, LogQuiet
        PROVE  FdInv'
    <3>1. Held'
      BY <1>0, <2>1, <2>4, CloseKeeps
    <3>2. \A g \in Fds, c \in Clients : table'[g] = Conn(c) => table[g] = Conn(c)
      BY <2>4, Distinct DEF Closed
    <3>3. \A c \in Clients : pump_fd'[c] \in {0, pump_fd[c]}
      BY <1>0, <2>4 DEF FdTypes
    <3>4. Deleting'
      BY <2>4, <2>d, <3>2, <3>3
    <3> QED
      BY <2>1, <3>1, <3>4 DEF FdInv
  \* The client that the thread stands on, and finds active.
  <2>a. ASSUME sptr[p] # Nil, active[sptr[p]]
        PROVE  /\ sptr[p] \in Clients /\ sptr[p] <= allocated /\ unlinkedAt[sptr[p]] = 0
               /\ sptr[p] \in InHand /\ (lpc \in {"remove", "removeWalk"} => sptr[p] # lptr)
    <3>1. sptr[p] \in Clients /\ sptr[p] <= allocated /\ unlinkedAt[sptr[p]] = 0
      BY <2>a, Cursors DEF VisibleInv, Visible, IInv, Lifecycle, TypeOK
    <3> QED
      BY <1>2, <2>a, <3>1 DEF InHand
  <2>5. CASE FinishAndKeep(p) \/ FinishAndEnd(p) \/ ListAndClear(p)
    <3>1. sptr[p] # Nil /\ active[sptr[p]]
      BY <2>5 DEF FinishAndKeep, FinishAndEnd, ListAndClear, Skip, Finish, List
    <3>2. /\ table' = Closed(pump_fd[sptr[p]])
          /\ pump_fd' = [pump_fd EXCEPT ![sptr[p]] = 0]
          /\ UNCHANGED <<sock, todo, stale>> /\ LogQuiet
      BY <2>5, <2>q DEF FinishAndKeep, FinishAndEnd, ListAndClear
    <3> QED
      BY <2>4, <2>a, <3>1, <3>2
  <2>6. CASE EndConnection(p)
    <3>1. /\ spc[p] = "ended" /\ table' = Closed(sock[sptr[p]]) /\ active' = active
          /\ UNCHANGED <<sock, pump_fd, todo, stale>> /\ LogQuiet
      BY <2>6, <2>q DEF EndConnection, AfterEnd, Advance, listVars
    <3>2. sptr[p] \in InHand /\ ~active'[sptr[p]]
      BY <1>0, <3>1 DEF InHand, Ending
    <3> QED
      BY <2>4, <3>1, <3>2
  <2>7. CASE ListAndOpen(p) \/ ListAndFail(p)
    <3>1. /\ sptr[p] # Nil /\ active[sptr[p]] /\ UNCHANGED <<sock, todo, unlinkedAt>> /\ LogQuiet
      BY <2>7, <2>q DEF ListAndOpen, ListAndFail, List, Advance, listVars
    <3>2. PICK n \in Clients : /\ n = sptr[p] /\ n <= allocated /\ unlinkedAt[n] = 0
                               /\ lpc \in {"remove", "removeWalk"} => n # lptr
      BY <2>a, <3>1
    <3>3. Held' /\ \A g \in Fds, c \in Clients : table'[g] = Conn(c) => table[g] = Conn(c)
      <4>1. CASE ListAndOpen(p)
        <5>1. /\ ~Full /\ Given(LowestFree, File(n)) /\ pump_fd' = [pump_fd EXCEPT ![n] = LowestFree]
              /\ unlinkedAt'[n] = 0 /\ allocated \in Nat /\ Clients \subseteq Nat
          BY <3>1, <3>2, <4>1, LinkedFacts, Cursors DEF ListAndOpen
        <5> QED
          BY <1>0, <2>1, <3>1, <3>2, <5>1, OpenKeeps
      <4>2. CASE ListAndFail(p)
        BY <1>0, <2>1, <3>1, <3>2, <4>2, LoseKeeps DEF ListAndFail
      <4> QED
        BY <2>7, <4>1, <4>2
    <3>4. \A c \in Clients : pump_fd'[c] = pump_fd[c] \/ c = n
      BY <1>0, <2>7, <3>2 DEF ListAndOpen, ListAndFail, FdTypes
    <3>5. Deleting'
      BY <2>d, <3>1, <3>2, <3>3, <3>4
    <3> QED
      BY <2>1, <3>3, <3>5 DEF FdInv
  <2>8. CASE \/ Unseen(p) \/ LeaveAlone(p) \/ ListClient(p) \/ ListAndAnswer(p) \/ Refuse(p)
             \/ PollsNothing(p) \/ SearchOn(p) \/ Handle(p) \/ HandleNobody(p)
             \/ \E e \in {"none", "nval", "hup", "data"} : PollsEvent(p, e)
    <3>1. UNCHANGED <<table, sock, pump_fd, todo, stale>> /\ (UNCHANGED logVars \/ Logged(p))
      BY <2>8 DEF Unseen, LeaveAlone, ListClient, ListAndAnswer, Refuse, PollsNothing, PollsEvent,
                  SearchOn, Handle, HandleNobody, fdVars, logVars
    <3> QED
      BY <2>3, <2>q, <3>1
  <2> QED
    BY <1>s, <2>5, <2>6, <2>7, <2>8 DEF Serve
<1> QED
  BY <1>9, <1>s

-----------------------------------------------------------------------------

LEMMA InitFdInv == SInit => FdInv
<1> SUFFICES ASSUME SInit PROVE FdInv
  OBVIOUS
<1>1. FdTypes
  BY DescriptorsAssumption, Numbers DEF SInit, FdTypes, ServersStayOpen, Init, Fds, Clients
<1>2. \A f \in Fds : table[f] = Free \/ \E k \in 1..Servers : table[f] = Server(k)
  BY DescriptorsAssumption DEF SInit, Fds
<1>3. Owners /\ LogInv
  <2>1. LogInv
    BY <1>2, Distinct, Numbers DEF SInit, LogInv
  <2> QED
    BY <1>2, <2>1, Distinct DEF SInit, Init, Owners
<1>4. Deleting /\ Ending
  BY DEF SInit, Init, Deleting, Ending
<1>5. InUse = {}
  BY DEF SInit, Init, InUse, InHand, Clients
<1>6. Fresh /\ Uncut
  BY <1>5 DEF SInit, Init, Fresh, Uncut
<1> QED
  BY <1>1, <1>3, <1>4, <1>6 DEF FdInv, Held

LEMMA SNextKeepsFdInv == IInv /\ VisibleInv /\ FdInv /\ [SNext]_svcVars => FdInv'
<1> SUFFICES ASSUME IInv, VisibleInv, FdInv, [SNext]_svcVars PROVE FdInv'
  OBVIOUS
<1>1. CASE UNCHANGED svcVars
  <2>1. UNCHANGED <<next_client, allocated, unlinkedAt, active, spc, sptr, lpc, lptr>>
    BY <1>1 DEF svcVars, clVars
  <2>2. UNCHANGED <<table, sock, pump_fd, todo, stale>> /\ LogQuiet
    BY <1>1 DEF svcVars, fdVars, LogQuiet, FdInv, Held, LogInv
  <2>3. Frame /\ Ending'
    BY <2>1, StillFrame DEF FdInv
  <2>4. Deleting'
    BY <2>1, <2>2 DEF FdInv, Deleting
  <2> QED
    BY <2>2, <2>3, <2>4, QuietKeeps DEF FdInv
<1> QED
  BY <1>1, ListeningKeeps, ServingKeeps DEF SNext

LEMMA FdInvHolds == ServiceSpec => [](IInv /\ VisibleInv /\ FdInv)
<1>1. SInit => IInv /\ VisibleInv /\ FdInv
  BY InitIInv, InitVisible, InitFdInv DEF SInit
<1>2. IInv /\ VisibleInv /\ FdInv /\ [SNext]_svcVars => (IInv /\ VisibleInv /\ FdInv)'
  BY StepImplements, NextKeepsIInv, NextKeepsVisible, SNextKeepsFdInv
<1> QED
  BY <1>1, <1>2, PTL DEF ServiceSpec

\* The variable that the invariant does not need.
LEMMA SNextKeepsPolling ==
    ASSUME event \in [Pools -> {"none", "nval", "hup", "data"}], [SNext]_svcVars
    PROVE  event' \in [Pools -> {"none", "nval", "hup", "data"}]
<1>1. CASE UNCHANGED svcVars
  BY <1>1 DEF svcVars, fdVars
<1>2. CASE ListeningThread
  BY <1>2, LogStepFrame DEF ListeningThread, AcceptConnection, BeginDelete, DeleteCloses, DeleteClears, fdVars
<1>3. ASSUME NEW p \in Pools, Serve(p)
      PROVE  event' \in [Pools -> {"none", "nval", "hup", "data"}]
  <2>1. CASE Handle(p) \/ HandleNobody(p) \/ \E e \in {"none", "nval", "hup", "data"} : PollsEvent(p, e)
    BY <2>1 DEF Handle, HandleNobody, PollsEvent
  <2>2. CASE ~(Handle(p) \/ HandleNobody(p) \/ \E e \in {"none", "nval", "hup", "data"} : PollsEvent(p, e))
    BY <1>3, <2>2, LogStepFrame
    DEF Serve, Unseen, LeaveAlone, FinishAndKeep, FinishAndEnd, EndConnection, ListClient, LogsRequest,
        ListAndAnswer, ListAndOpen, ListAndFail, ListAndClear, Refuse, PollsNothing, SearchOn, fdVars
  <2> QED
    BY <2>1, <2>2
<1> QED
  BY <1>1, <1>2, <1>3 DEF SNext

\* Every variable of Service holds a value of its kind: a field of a client_t that names a
\* descriptor is 0 or a number that the process can have.
THEOREM ServiceTypes == ServiceSpec => []ServiceTypeOK
<1> DEFINE Polling == event \in [Pools -> {"none", "nval", "hup", "data"}]
<1>1. SInit => Polling
  BY DEF SInit
<1>2. Polling /\ [SNext]_svcVars => Polling'
  BY SNextKeepsPolling
<1>3. Polling /\ FdInv => ServiceTypeOK
  <2> SUFFICES ASSUME Polling, FdInv
               PROVE  ServiceTypeOK
    OBVIOUS
  <2>1. Mine \subseteq 0..MaxFds /\ Mine \cup {-1} \subseteq -1..MaxFds
    BY DescriptorsAssumption DEF Mine
  <2>2. /\ table \in [Fds -> {Free} \cup {Server(k) : k \in 1..Servers}
                          \cup {Conn(c) : c \in Clients} \cup {File(c) : c \in Clients}
                          \cup LogFiles \cup {Lost}]
        /\ stale \subseteq {Conn(c) : c \in Clients} \cup {File(c) : c \in Clients} \cup LogFiles
    <3>1. {Free, Lost} \cup {Server(k) : k \in 1..Servers} \cup LogFiles
            \cup {Conn(c) : c \in Clients} \cup {File(c) : c \in Clients}
          = {Free} \cup {Server(k) : k \in 1..Servers}
            \cup {Conn(c) : c \in Clients} \cup {File(c) : c \in Clients} \cup LogFiles \cup {Lost}
      BY Zenon
    <3> QED
      BY <3>1 DEF FdInv, Held, FdTypes
  <2>3. sock \in [Clients -> 0..MaxFds] /\ pump_fd \in [Clients -> 0..MaxFds]
    BY <2>1 DEF FdInv, Held, FdTypes
  <2>4. /\ logfilefd \in -1..MaxFds /\ got \in [Threads -> -1..MaxFds]
        /\ logging \in [Threads -> {"out", "opens", "stores", "done"}]
    BY <2>1 DEF FdInv, Held, LogInv
  <2> QED
    BY <2>2, <2>3, <2>4 DEF FdInv, Deleting, ServiceTypeOK
<1> QED
  BY FdInvHolds, <1>1, <1>2, <1>3, PTL DEF ServiceSpec

\* The second close of a number (delete_client, client.c) is never of a socket the server
\* listens on, for any number of ports, clients, threads and descriptors.
THEOREM ServersKeepOpen == ServiceSpec => []ServersStayOpen
<1>1. FdInv => ServersStayOpen
  BY DEF FdInv, Held, FdTypes
<1> QED
  BY FdInvHolds, <1>1, PTL

\* Whatever is open is known to a client that delete_client (client.c) is still to close, or
\* is the log file of llog (log.c); but for what plain_transfer_open or llog wrote over.
THEOREM DescriptorsAreKept == ServiceSpec => []NoDescriptorLost
<1>1. FdInv => NoDescriptorLost
  BY Distinct DEF FdInv, Held, Owners, LogInv, NoDescriptorLost
<1> QED
  BY FdInvHolds, <1>1, PTL

\* A connection, a file or the log file whose number nobody carried when it was given is
\* never closed by any of the closes of client.c, transfer.c and main.c but its own.
THEOREM FreshNumbersAreSafe == ServiceSpec => []OnlyStaleNumbersCut
<1>1. FdInv => OnlyStaleNumbersCut
  BY DEF FdInv, Held, Uncut, LogInv, OnlyStaleNumbersCut
<1> QED
  BY FdInvHolds, <1>1, PTL

\* The search of service_clients (main.c 686) compares numbers: whoever it stands on, a
\* client that was unlinked while it came there included, what it reads or writes is that
\* client's own, or was given its number while somebody in use still carried it.
THEOREM FreshNumbersAreNotMixed == ServiceSpec => []OnlyStaleNumbersMix
<1>1. IInv /\ VisibleInv /\ FdInv => OnlyStaleNumbersMix
  <2> SUFFICES ASSUME IInv, VisibleInv, FdInv, NEW p \in Pools, NEW c \in Clients,
                      spc[p] = "find", sptr[p] # Nil,
                      table[sock[sptr[p]]] \in {Conn(c), File(c)}, table[sock[sptr[p]]] \notin stale
               PROVE  c = sptr[p]
    BY DEF OnlyStaleNumbersMix
  <2>1. sptr[p] \in Clients /\ sptr[p] \in InUse
    BY LinkedFacts, TrailStart DEF InUse
  <2>2. sock[sptr[p]] \in Fds
    BY <2>1, Numbers DEF VisibleInv, Visible, FdInv, Held, FdTypes
  <2>3. table[sock[sptr[p]]] = Conn(sptr[p])
    BY <2>1, <2>2, Distinct DEF FdInv, Held, Fresh
  <2> QED
    BY <2>1, <2>3, Distinct
<1> QED
  BY FdInvHolds, <1>1, PTL

\* What ClientList promises of the walks and the links is kept with descriptors.
THEOREM ServiceKeepsLiveClients ==
    ServiceSpec => [](LiveClientsReachable /\ WalkMissesNoLiveClient /\ PrevptrIsPredecessor)
<1>1. ServiceSpec => Spec
  <2>1. SInit => Init
    BY DEF SInit
  <2> QED
    BY <2>1, StepImplements, PTL DEF ServiceSpec, Spec
<1> QED
  BY <1>1, NoLiveClientIsLost, WalksAreComplete, PrevptrIsSafe, PTL
=============================================================================
