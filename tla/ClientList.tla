----------------------------- MODULE ClientList -----------------------------
(***************************************************************************)
(* SERVICE_DATA.clienthead, the singly linked list of connected clients,   *)
(* and the threads that walk it (client.c, main.c).                        *)
(*                                                                         *)
(* The listening thread is the only one that writes the links: it appends  *)
(* an accepted client and, when a second passes without a connection,      *)
(* walks the list and deletes the clients it finds inactive.  The service  *)
(* threads walk the same links without taking client_list_mutex (only the  *)
(* listening thread ever takes it, so it excludes nobody), and they are    *)
(* the ones that make a client inactive.  Each pointer read that can see   *)
(* another thread's write is a step of its own; what only one thread       *)
(* touches is done in the step that uses it.                               *)
(*                                                                         *)
(* A client_t is never freed, so a client is named by the order of its     *)
(* allocation: 1, 2, ...  What the handlers do to a client other than      *)
(* clearing its `active` flag is left to Service and Connection.           *)
(***************************************************************************)
EXTENDS Integers, Sequences

CONSTANTS MaxClients,   \* bound: how many connections are ever accepted
          NUM_CPUS      \* number of service threads (common.h)

ASSUME ConstantsAssumption ==
    /\ MaxClients \in Nat \ {0}
    /\ NUM_CPUS \in Nat \ {0}

Clients == 1..MaxClients
Nil     == 0
Pools   == 0..(NUM_CPUS - 1)

VARIABLES
    clienthead,   \* SERVICE_DATA.clienthead
    next_client,  \* client_t.next_client
    active,       \* client_t.active
    thread_pool_id, \* client_t.thread_pool_id
    allocated,    \* how many client_t have been allocated
    lpc,          \* the listening thread: where it is,
    lptr,         \*   the cursor of cleanup_dead_clients,
    lwalk,        \*   the cursor of add_new_client_struct / del_client_struct,
    lprev,        \*   and prevptr of del_client_struct
    spc,          \* each service thread: where it is in service_clients,
    sptr,         \*   its cursor,
    clientfds,    \*   the clients whose sockets are in clientfds,
    clientcount,  \*   and clientcount
    unlinkedAt,   \* history: how many clients were allocated when one was unlinked
    owed          \* history: live clients that a thread's walk still has to meet

listVars == <<clienthead, next_client, active, thread_pool_id, allocated, unlinkedAt>>
lVars    == <<lpc, lptr, lwalk, lprev>>
sVars    == <<spc, sptr, clientfds, clientcount, owed>>
clVars   == <<clienthead, next_client, active, thread_pool_id, allocated, unlinkedAt,
              lpc, lptr, lwalk, lprev, spc, sptr, clientfds, clientcount, owed>>

\* The client being appended: allocated, not yet visible to any other thread.
Pending(c) == lpc \in {"append", "appendWalk"} /\ c = allocated

\* The clients that were put on the list and have not been taken off it.
Linked == {c \in Clients : c <= allocated /\ ~Pending(c) /\ unlinkedAt[c] = 0}

Live == {c \in Linked : active[c]}

Init ==
    /\ clienthead = Nil
    /\ next_client = [c \in Clients |-> Nil]
    /\ active = [c \in Clients |-> FALSE]
    /\ thread_pool_id = [c \in Clients |-> 0]
    /\ allocated = 0
    /\ unlinkedAt = [c \in Clients |-> 0]
    /\ lpc = "poll" /\ lptr = Nil /\ lwalk = Nil /\ lprev = Nil
    /\ spc = [p \in Pools |-> "idle"]
    /\ sptr = [p \in Pools |-> Nil]
    /\ clientfds = [p \in Pools |-> <<>>]
    /\ clientcount \in [Pools -> 0..1]
    /\ owed = [p \in Pools |-> {}]

-----------------------------------------------------------------------------
(* The listening thread. *)

\* poll reports a connection.
PollReports ==
    /\ lpc = "poll"
    /\ lpc' = "accept"
    /\ UNCHANGED <<listVars, lptr, lwalk, lprev, sVars>>

\* accept fails: no descriptor is left, or the peer is gone.  Nothing is cleaned up.
AcceptFails ==
    /\ lpc = "accept"
    /\ lpc' = "poll"
    /\ UNCHANGED <<listVars, lptr, lwalk, lprev, sVars>>

\* accept; create_new_client fills a client_t and draws the service thread that is to
\* listen to it.
Accept(p) ==
    /\ lpc = "accept" /\ allocated < MaxClients
    /\ allocated' = allocated + 1
    /\ thread_pool_id' = [thread_pool_id EXCEPT ![allocated + 1] = p]
    /\ active' = [active EXCEPT ![allocated + 1] = TRUE]
    /\ lpc' = "append"
    /\ UNCHANGED <<clienthead, next_client, unlinkedAt, lptr, lwalk, lprev, sVars>>

\* Variant: the new client takes the head's place.
AppendFirstAlways ==
    /\ lpc = "append"
    /\ clienthead' = allocated /\ lpc' = "poll"
    /\ UNCHANGED <<next_client, active, thread_pool_id, allocated, unlinkedAt, lptr, lwalk, lprev, sVars>>

\* add_new_client_struct: an empty list gets a head, else walk to the last client.
AppendFirst ==
    /\ lpc = "append"
    /\ IF clienthead = Nil
         THEN clienthead' = allocated /\ lpc' = "poll" /\ UNCHANGED lwalk
         ELSE lwalk' = clienthead /\ lpc' = "appendWalk" /\ UNCHANGED clienthead
    /\ UNCHANGED <<next_client, active, thread_pool_id, allocated, unlinkedAt, lptr, lprev, sVars>>

AppendWalk ==
    /\ lpc = "appendWalk"
    /\ IF next_client[lwalk] = Nil
         THEN /\ next_client' = [next_client EXCEPT ![lwalk] = allocated]
              /\ lpc' = "poll" /\ UNCHANGED lwalk
         ELSE lwalk' = next_client[lwalk] /\ UNCHANGED <<next_client, lpc>>
    /\ UNCHANGED <<clienthead, active, thread_pool_id, allocated, unlinkedAt, lptr, lprev, sVars>>

\* A second without a connection, poll timed out: cleanup_dead_clients starts at the head.
PollTimeout ==
    /\ lpc = "poll"
    /\ lpc' = "cleanup" /\ lptr' = clienthead
    /\ UNCHANGED <<listVars, lwalk, lprev, sVars>>

CleanupEnd ==
    /\ lpc = "cleanup" /\ lptr = Nil
    /\ lpc' = "poll"
    /\ UNCHANGED <<listVars, lptr, lwalk, lprev, sVars>>

\* Variant: the next client allocated, not the next one linked.
CleanupTestByNumber ==
    /\ lpc = "cleanup" /\ lptr # Nil
    /\ IF active[lptr] THEN lptr' = lptr + 1 /\ UNCHANGED lpc
                       ELSE lpc' = "delete" /\ UNCHANGED lptr
    /\ UNCHANGED <<listVars, lwalk, lprev, sVars>>

\* Variant: every client is taken for a dead one.
CleanupTestNoFlag ==
    /\ lpc = "cleanup" /\ lptr # Nil
    /\ lpc' = "delete"
    /\ UNCHANGED <<listVars, lptr, lwalk, lprev, sVars>>

\* The loop of cleanup_dead_clients, one client.
CleanupTest ==
    /\ lpc = "cleanup" /\ lptr # Nil
    /\ IF active[lptr] THEN lptr' = next_client[lptr] /\ UNCHANGED lpc
                       ELSE lpc' = "delete" /\ UNCHANGED lptr
    /\ UNCHANGED <<listVars, lwalk, lprev, sVars>>

\* delete_client up to the call of del_client_struct.
DeleteClient ==
    /\ lpc = "delete"
    /\ active' = [active EXCEPT ![lptr] = FALSE]
    /\ lpc' = "remove"
    /\ UNCHANGED <<clienthead, next_client, thread_pool_id, allocated, unlinkedAt, lptr, lwalk, lprev, sVars>>

\* Variant: the link of the unlinked head is cleared.
RemoveFirstClearsLink ==
    /\ lpc = "remove"
    /\ IF clienthead = lptr
         THEN /\ clienthead' = next_client[clienthead]
              /\ next_client' = [next_client EXCEPT ![lptr] = Nil]
              /\ unlinkedAt' = [unlinkedAt EXCEPT ![lptr] = allocated]
              /\ lptr' = next_client[lptr] /\ lpc' = "cleanup"
              /\ UNCHANGED <<lwalk, lprev>>
         ELSE /\ lwalk' = clienthead /\ lprev' = Nil /\ lpc' = "removeWalk"
              /\ UNCHANGED <<clienthead, next_client, unlinkedAt, lptr>>
    /\ UNCHANGED <<active, thread_pool_id, allocated, sVars>>

\* Variant: the unlinked head is linked to itself.
RemoveFirstSelfLink ==
    /\ lpc = "remove"
    /\ IF clienthead = lptr
         THEN /\ clienthead' = next_client[clienthead]
              /\ next_client' = [next_client EXCEPT ![lptr] = lptr]
              /\ unlinkedAt' = [unlinkedAt EXCEPT ![lptr] = allocated]
              /\ lptr' = next_client[lptr] /\ lpc' = "cleanup"
              /\ UNCHANGED <<lwalk, lprev>>
         ELSE /\ lwalk' = clienthead /\ lprev' = Nil /\ lpc' = "removeWalk"
              /\ UNCHANGED <<clienthead, next_client, unlinkedAt, lptr>>
    /\ UNCHANGED <<active, thread_pool_id, allocated, sVars>>

\* Variant: the head is looked for like any other client.
RemoveFirstNoTest ==
    /\ lpc = "remove"
    /\ lwalk' = clienthead /\ lprev' = Nil /\ lpc' = "removeWalk"
    /\ UNCHANGED <<clienthead, next_client, active, thread_pool_id, allocated, unlinkedAt, lptr, sVars>>

\* del_client_struct, first test: the head is unlinked at once.  (The test that there is
\* a head holds: the client to be unlinked is on the list.)
RemoveFirst ==
    /\ lpc = "remove"
    /\ IF clienthead = lptr
         THEN /\ clienthead' = next_client[clienthead]
              /\ unlinkedAt' = [unlinkedAt EXCEPT ![lptr] = allocated]
              /\ lptr' = next_client[lptr] /\ lpc' = "cleanup"
              /\ UNCHANGED <<lwalk, lprev>>
         ELSE /\ lwalk' = clienthead /\ lprev' = Nil /\ lpc' = "removeWalk"
              /\ UNCHANGED <<clienthead, unlinkedAt, lptr>>
    /\ UNCHANGED <<next_client, active, thread_pool_id, allocated, sVars>>

\* Variant: the loop ends one client earlier.
RemoveWalkEarly ==
    /\ lpc = "removeWalk"
    /\ IF next_client[lwalk] = Nil \/ next_client[next_client[lwalk]] = Nil
         THEN /\ lptr' = next_client[lptr] /\ lpc' = "cleanup"
              /\ UNCHANGED <<next_client, unlinkedAt, lwalk, lprev>>
         ELSE IF lwalk = lptr
         THEN /\ next_client' = [next_client EXCEPT ![lprev] = next_client[lwalk]]
              /\ unlinkedAt' = [unlinkedAt EXCEPT ![lptr] = allocated]
              /\ lptr' = next_client[lptr] /\ lpc' = "cleanup"
              /\ UNCHANGED <<lwalk, lprev>>
         ELSE /\ lprev' = lwalk /\ lwalk' = next_client[lwalk]
              /\ UNCHANGED <<next_client, unlinkedAt, lptr, lpc>>
    /\ UNCHANGED <<clienthead, active, thread_pool_id, allocated, sVars>>

\* del_client_struct, the walk.  The loop condition is read before the client is
\* compared, so the last client of the list is never the one that is unlinked.
RemoveWalk ==
    /\ lpc = "removeWalk"
    /\ \/ /\ next_client[lwalk] = Nil
          /\ lptr' = next_client[lptr] /\ lpc' = "cleanup"
          /\ UNCHANGED <<next_client, unlinkedAt, lwalk, lprev>>
       \/ /\ next_client[lwalk] # Nil /\ lwalk = lptr
          /\ next_client' = [next_client EXCEPT ![lprev] = next_client[lwalk]]
          /\ unlinkedAt' = [unlinkedAt EXCEPT ![lptr] = allocated]
          /\ lptr' = next_client[lptr] /\ lpc' = "cleanup"
          /\ UNCHANGED <<lwalk, lprev>>
       \/ /\ next_client[lwalk] # Nil /\ lwalk # lptr
          /\ lprev' = lwalk /\ lwalk' = next_client[lwalk]
          /\ UNCHANGED <<next_client, unlinkedAt, lptr, lpc>>
    /\ UNCHANGED <<clienthead, active, thread_pool_id, allocated, sVars>>

Listener ==
    \/ PollReports \/ AcceptFails \/ \E p \in Pools : Accept(p)
    \/ AppendFirst \/ AppendWalk
    \/ PollTimeout \/ CleanupEnd \/ CleanupTest
    \/ DeleteClient \/ RemoveFirst \/ RemoveWalk

-----------------------------------------------------------------------------
(* A service thread: one call of service_clients after another. *)

Goto(p, label) == spc' = [spc EXCEPT ![p] = label]

\* The test of clienthead that guards the building of the list.  When there is no list
\* clientcount is not set: it is what this stack slot held, the count that the last pass
\* ended with or, in the first pass, anything.
PassStart(p) ==
    /\ spc[p] = "idle"
    /\ Goto(p, IF clienthead = Nil THEN "branch" ELSE "first")
    /\ clientfds' = [clientfds EXCEPT ![p] = <<>>]
    /\ UNCHANGED <<listVars, lVars, sptr, clientcount, owed>>

\* The loop's own read of clienthead, which may have changed since the test.
PassFirst(p) ==
    /\ spc[p] = "first"
    /\ Goto(p, "build")
    /\ sptr' = [sptr EXCEPT ![p] = clienthead]
    /\ clientcount' = [clientcount EXCEPT ![p] = 0]
    /\ owed' = [owed EXCEPT ![p] = Live]
    /\ UNCHANGED <<listVars, lVars, clientfds>>

\* The loop's step to the next client.
Advance(p, label) ==
    /\ Goto(p, label)
    /\ owed' = [owed EXCEPT ![p] = @ \ {sptr[p]}]
    /\ sptr' = [sptr EXCEPT ![p] = next_client[sptr[p]]]
    /\ UNCHANGED <<listVars, lVars>>

\* The client is inactive, is not this thread's, or has a completed transfer and is made
\* ready for another request.
Skip(p) ==
    /\ spc[p] = "build" /\ sptr[p] # Nil
    /\ Advance(p, "build")
    /\ UNCHANGED <<clientfds, clientcount>>

\* The client goes on the service list, and its request, if complete, is dispatched.
List(p) ==
    /\ spc[p] = "build" /\ sptr[p] # Nil
    /\ active[sptr[p]] /\ thread_pool_id[sptr[p]] = p
    /\ clientfds' = [clientfds EXCEPT ![p] = Append(@, sptr[p])]
    /\ clientcount' = [clientcount EXCEPT ![p] = @ + 1]
    /\ Advance(p, "build")

\* The same, and the request is refused in a way that ends the connection.
ListAndRefuse(p) ==
    /\ spc[p] = "build" /\ sptr[p] # Nil
    /\ active[sptr[p]] /\ thread_pool_id[sptr[p]] = p
    /\ active' = [active EXCEPT ![sptr[p]] = FALSE]
    /\ clientfds' = [clientfds EXCEPT ![p] = Append(@, sptr[p])]
    /\ clientcount' = [clientcount EXCEPT ![p] = @ + 1]
    /\ Goto(p, "ended")
    /\ UNCHANGED <<clienthead, next_client, thread_pool_id, allocated, unlinkedAt, lVars, sptr, owed>>

\* A completed transfer ends the connection, whichever thread's client it is.
Finish(p) ==
    /\ spc[p] = "build" /\ sptr[p] # Nil
    /\ active[sptr[p]]
    /\ active' = [active EXCEPT ![sptr[p]] = FALSE]
    /\ Goto(p, "ended")
    /\ UNCHANGED <<clienthead, next_client, thread_pool_id, allocated, unlinkedAt,
                   lVars, sptr, clientfds, clientcount, owed>>

\* What is left of the loop body after active = 0: the socket is closed, a line is logged.
AfterEnd(p) ==
    /\ spc[p] = "ended"
    /\ Advance(p, "build")
    /\ UNCHANGED <<clientfds, clientcount>>

PassBuilt(p) ==
    /\ spc[p] = "build" /\ sptr[p] = Nil
    /\ Goto(p, "branch")
    /\ UNCHANGED <<listVars, lVars, sptr, clientfds, clientcount, owed>>

\* Nobody to serve: sleep a second.
PassSleep(p) ==
    /\ spc[p] = "branch" /\ clientcount[p] = 0
    /\ Goto(p, "idle")
    /\ UNCHANGED <<listVars, lVars, sptr, clientfds, clientcount, owed>>

\* poll times out, or fails at once because there is no array behind a stale count.
PassTimeout(p) ==
    /\ spc[p] = "branch" /\ clientcount[p] # 0
    /\ Goto(p, "idle")
    /\ UNCHANGED <<listVars, lVars, sptr, clientfds, clientcount, owed>>

\* poll reported something: look for the client that owns clientfds[0].  The search
\* resets clientcount, the bound of the loop around it, so no other entry is looked at.
PassPolled(p) ==
    /\ spc[p] = "branch" /\ clientcount[p] # 0 /\ clientfds[p] # <<>>
    /\ Goto(p, "find")
    /\ sptr' = [sptr EXCEPT ![p] = clienthead]
    /\ clientcount' = [clientcount EXCEPT ![p] = 0]
    /\ owed' = [owed EXCEPT ![p] = {clientfds[p][1]} \cap Live]
    /\ UNCHANGED <<listVars, lVars, clientfds>>

\* The search goes on: this client's socket is not clientfds[0].
FindNext(p) ==
    /\ spc[p] = "find" /\ sptr[p] # Nil /\ sptr[p] # clientfds[p][1]
    /\ sptr' = [sptr EXCEPT ![p] = next_client[sptr[p]]]
    /\ UNCHANGED <<listVars, lVars, spc, clientfds, clientcount, owed>>

\* The search stops at the first client with that socket: the listed one, or an earlier
\* one that still carries the number of a descriptor closed under it.  close_connect
\* makes it inactive; recv and send leave the list alone.
FindMatch(p, dead) ==
    /\ spc[p] = "find" /\ sptr[p] # Nil
    /\ active' = IF dead THEN [active EXCEPT ![sptr[p]] = FALSE] ELSE active
    /\ Goto(p, "idle")
    /\ owed' = [owed EXCEPT ![p] = {}]
    /\ UNCHANGED <<clienthead, next_client, thread_pool_id, allocated, unlinkedAt,
                   lVars, sptr, clientfds, clientcount>>

FindNone(p) ==
    /\ spc[p] = "find" /\ sptr[p] = Nil
    /\ Goto(p, "idle")
    /\ UNCHANGED <<listVars, lVars, sptr, clientfds, clientcount, owed>>

ServiceThread(p) ==
    \/ PassStart(p) \/ PassFirst(p)
    \/ Skip(p) \/ List(p) \/ ListAndRefuse(p) \/ Finish(p) \/ AfterEnd(p)
    \/ PassBuilt(p) \/ PassSleep(p) \/ PassTimeout(p) \/ PassPolled(p)
    \/ FindNext(p)
    \/ \E dead \in BOOLEAN : FindMatch(p, dead)
    \/ FindNone(p)

Next == Listener \/ \E p \in Pools : ServiceThread(p)

Spec == Init /\ [][Next]_clVars

\* Both kinds of thread are scheduled by the kernel and poll returns within a second,
\* so neither stops for ever while it has a step to take.  Whether the listening thread's
\* poll times out or reports a connection is the peers' affair: nothing is asked of it.
FairSpec ==
    /\ Spec
    /\ WF_clVars(Listener)
    /\ \A p \in Pools : WF_clVars(ServiceThread(p))

-----------------------------------------------------------------------------
(* Properties. *)

\* Every variable holds a value of its kind.
TypeOK ==
    /\ clienthead \in 0..MaxClients
    /\ next_client \in [Clients -> 0..MaxClients]
    /\ active \in [Clients -> BOOLEAN]
    /\ thread_pool_id \in [Clients -> Pools]
    /\ allocated \in 0..MaxClients
    /\ unlinkedAt \in [Clients -> 0..MaxClients]
    /\ lpc \in {"poll", "accept", "append", "appendWalk", "cleanup", "delete", "remove", "removeWalk"}
    /\ lptr \in 0..MaxClients /\ lwalk \in 0..MaxClients /\ lprev \in 0..MaxClients
    /\ spc \in [Pools -> {"idle", "first", "build", "ended", "branch", "find"}]
    /\ sptr \in [Pools -> 0..MaxClients]
    /\ clientfds \in [Pools -> Seq(Clients)]
    /\ clientcount \in [Pools -> Nat]
    /\ owed \in [Pools -> SUBSET Clients]

\* A set of clients that the head leads into and that no link leaves.
HoldsChain(S) ==
    /\ clienthead # Nil => clienthead \in S
    /\ \A n \in S : next_client[n] # Nil => next_client[n] \in S

\* The clients the links lead to from the head.
Reachable == {c \in Clients : \A S \in SUBSET Clients : HoldsChain(S) => c \in S}

\* However the threads interleave, a client that is still active can be reached from
\* clienthead: unlinking others and appending never cut a live client off.
LiveClientsReachable ==
    \A c \in Clients : active[c] /\ c <= allocated /\ ~Pending(c) => c \in Reachable

\* A service thread that walks without the lock, while the listening thread unlinks
\* clients under it (the one it stands on included), meets every client that was on the
\* list when it began and is active when it ends; in the search for clientfds[0] it
\* does not run off the list while the listed client is alive.
WalkMissesNoLiveClient ==
    \A p \in Pools :
        spc[p] \in {"build", "find"} /\ sptr[p] = Nil => \A c \in owed[p] : ~active[c]

\* del_client_struct leaves prevptr uninitialized until its walk has moved: when it
\* comes to write through it, it has been set, to the client before the one unlinked.
PrevptrIsPredecessor ==
    lpc = "removeWalk" /\ lwalk = lptr /\ next_client[lwalk] # Nil =>
        lprev # Nil /\ next_client[lprev] = lptr

\* A second without a connection comes again and again: poll gets to time out.
QuietSecondsCome == []<>(lpc = "cleanup")

\* If quiet seconds come, a dead client that is the head or is not the last of the list is
\* taken off it.  (The last one, if it is not also the head, stays until another client
\* follows it.)  On a server that is never idle for a second, or whose accept fails with a
\* connection waiting, nobody is ever taken off.
DeadClientUnlinked ==
    QuietSecondsCome =>
        \A c \in Clients :
            (c \in Linked /\ ~active[c] /\ (clienthead = c \/ next_client[c] # Nil)) ~> c \notin Linked

\* What a thread is about, as Roster has it.
Walk(p) == IF spc[p] \in {"build", "ended"} THEN "all"
           ELSE IF spc[p] = "find" THEN "one" ELSE "none"

R == INSTANCE Roster WITH
        members <- Live,
        former  <- {c \in Clients : c <= allocated /\ ~Pending(c) /\ ~active[c]},
        walk    <- [p \in Pools |-> Walk(p)],
        due     <- [p \in Pools |-> IF Walk(p) = "none" THEN {} ELSE owed[p]]

\* The linked list, walked without a lock while it is appended to and unlinked from, is
\* to its users a set whose members join once, leave once and are missed by no walk; a
\* client leaves at the hands of a service thread, never of the listening thread.
ImplementsRoster == R!Spec

\* The links never send a service thread in a circle: each pass comes to its end.
PassEnds == \A p \in Pools : []<>(spc[p] = "idle")

\* "keeps us from an tight loop if there are no clients to service" (main.c:700): a pass
\* that found nobody sleeps.
EmptyListSleeps ==
    \A p \in Pools : spc[p] = "branch" /\ clientfds[p] = <<>> => clientcount[p] = 0

\* "add them to the service list" (main.c:666): a client that is on the list again and
\* again when poll reports something, and stays connected, is served again and again.
ListedIsServed ==
    \A p \in Pools, c \in Clients :
        []<>(spc[p] = "find" /\ \E i \in 1..Len(clientfds[p]) : clientfds[p][i] = c)
        => []<>(~active[c] \/ (spc[p] = "find" /\ sptr[p] = c))
=============================================================================
