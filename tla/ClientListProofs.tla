-------------------------- MODULE ClientListProofs --------------------------
(***************************************************************************)
(* For every number of connections and of service threads: the safety      *)
(* properties of ClientList hold, from the inductive invariant IInv.       *)
(***************************************************************************)
EXTENDS ClientList, WellFoundedInduction, TLAPS

-----------------------------------------------------------------------------
(* The inductive invariant, in parts. *)

\* A client is off the list before it is on it and after it was unlinked; only a
\* linked client can be active.
Lifecycle ==
    /\ \A c \in Clients : unlinkedAt[c] <= allocated
    /\ \A c \in Clients : c > allocated \/ Pending(c) =>
           next_client[c] = Nil /\ unlinkedAt[c] = 0
    /\ \A c \in Clients : active[c] => unlinkedAt[c] = 0

\* While a client is being appended nothing has been unlinked since its allocation.
AppendInv ==
    lpc \in {"append", "appendWalk"} =>
        allocated \in Clients /\ \A c \in Clients : unlinkedAt[c] < allocated

\* The head is the oldest linked client, and a linked client leads to the next linked one.
ChainInv ==
    /\ clienthead # Nil => clienthead \in Linked
    /\ \A c \in Linked : clienthead # Nil /\ clienthead <= c
    /\ \A n \in Linked : next_client[n] # Nil => next_client[n] \in Linked /\ next_client[n] > n
    /\ \A n \in Linked, c \in Linked : c > n => next_client[n] # Nil /\ next_client[n] <= c

\* An unlinked client still leads towards every client that was linked behind it when
\* it was unlinked, through clients that were unlinked no earlier than itself.
GhostInv ==
    \A n \in Clients : unlinkedAt[n] # 0 =>
        /\ next_client[n] # Nil => next_client[n] > n
        /\ \A c \in Linked : n < c /\ c <= unlinkedAt[n] =>
               /\ next_client[n] # Nil /\ next_client[n] <= c
               /\ next_client[n] \in Linked \/ unlinkedAt[next_client[n]] >= unlinkedAt[n]

\* What the listening thread's local pointers name.
CursorInv ==
    /\ lpc = "cleanup" /\ lptr # Nil => lptr \in Linked
    /\ lpc \in {"delete", "remove", "removeWalk"} => lptr \in Linked /\ ~active[lptr]
    /\ lpc = "appendWalk" => lwalk \in Linked
    /\ lpc = "removeWalk" =>
           /\ lptr # clienthead
           /\ lwalk \in Linked /\ lwalk <= lptr
           /\ \/ lwalk = clienthead
              \/ lprev \in Linked /\ next_client[lprev] = lwalk

\* A service thread's cursor is on the way to every live client it still has to meet.
WalkInv ==
    \A p \in Pools :
        /\ \A c \in owed[p] : c <= allocated /\ ~Pending(c)
        /\ spc[p] = "ended" => sptr[p] # Nil
        /\ spc[p] = "find" => clientfds[p] # <<>> /\ owed[p] \subseteq {clientfds[p][1]}
        /\ spc[p] \in {"build", "ended", "find"} =>
               \A c \in owed[p] : active[c] =>
                   /\ sptr[p] # Nil /\ sptr[p] <= c
                   /\ sptr[p] \in Linked \/ unlinkedAt[sptr[p]] >= c

IInv == TypeOK /\ Lifecycle /\ AppendInv /\ ChainInv /\ GhostInv /\ CursorInv /\ WalkInv
-----------------------------------------------------------------------------
(* Types. *)

LEMMA InitIInv == Init => IInv
<1> SUFFICES ASSUME Init PROVE IInv
  OBVIOUS
<1>1. /\ clienthead \in 0..MaxClients /\ next_client \in [Clients -> 0..MaxClients]
      /\ active \in [Clients -> BOOLEAN] /\ thread_pool_id \in [Clients -> Pools]
      /\ allocated \in 0..MaxClients /\ unlinkedAt \in [Clients -> 0..MaxClients]
      /\ lptr \in 0..MaxClients /\ lwalk \in 0..MaxClients /\ lprev \in 0..MaxClients
  BY ConstantsAssumption DEF Init, Clients, Nil, Pools
<1>2. /\ spc \in [Pools -> {"idle"}] /\ sptr \in [Pools -> 0..MaxClients]
      /\ clientfds \in [Pools -> Seq(Clients)] /\ owed \in [Pools -> SUBSET Clients]
  BY ConstantsAssumption DEF Init, Nil
<1>3. clientcount \in [Pools -> Nat]
  BY DEF Init
<1>4. TypeOK
  BY <1>1, <1>2, <1>3 DEF Init, TypeOK
<1>5. Linked = {}
  BY ConstantsAssumption DEF Init, Linked, Clients
<1>6. Lifecycle /\ AppendInv /\ ChainInv /\ GhostInv /\ CursorInv /\ WalkInv
  BY <1>5 DEF Init, Lifecycle, AppendInv, ChainInv, GhostInv, CursorInv, WalkInv, Nil
<1> QED
  BY <1>4, <1>6 DEF IInv

\* Where the listening thread follows a pointer, it points to a client.
LEMMA Cursors ==
    ASSUME IInv
    PROVE  /\ Clients \subseteq Nat /\ Nil \notin Clients /\ 0..MaxClients = Clients \cup {Nil}
           /\ Linked \subseteq Clients
           /\ lpc \in {"append", "appendWalk"} => allocated \in Clients
           /\ lpc = "cleanup" => lptr \in Clients \cup {Nil}
           /\ lpc \in {"delete", "remove", "removeWalk"} => lptr \in Clients /\ clienthead \in Clients
           /\ lpc \in {"appendWalk", "removeWalk"} => lwalk \in Clients
<1>1. Clients \subseteq Nat /\ Nil \notin Clients /\ 0..MaxClients = Clients \cup {Nil}
  BY ConstantsAssumption DEF Clients, Nil
<1>2. Linked \subseteq Clients
  BY DEF Linked
<1> QED
  BY <1>1, <1>2 DEF IInv, TypeOK, AppendInv, ChainInv, CursorInv

LEMMA TypeListener ==
    ASSUME IInv, Listener
    PROVE  TypeOK'
<1> USE ConstantsAssumption, Cursors DEF listVars, sVars
<1>0. TypeOK
  BY DEF IInv
<1>1. ASSUME NEW p \in Pools, Accept(p) PROVE TypeOK'
  <2>1. allocated' \in 0..MaxClients
    BY <1>0, <1>1 DEF Accept, TypeOK
  <2> QED
    BY <1>0, <1>1, <2>1 DEF Accept, TypeOK
<1>2. CASE AppendFirst
  BY <1>0, <1>2 DEF AppendFirst, TypeOK
<1>3. CASE AppendWalk
  BY <1>0, <1>3 DEF AppendWalk, TypeOK
<1>4. CASE PollReports \/ AcceptFails \/ PollTimeout
  BY <1>0, <1>4 DEF PollReports, AcceptFails, PollTimeout, TypeOK
<1>5. CASE CleanupEnd
  BY <1>0, <1>5 DEF CleanupEnd, TypeOK
<1>6. CASE CleanupTest
  BY <1>0, <1>6 DEF CleanupTest, TypeOK
<1>7. CASE DeleteClient
  BY <1>0, <1>7 DEF DeleteClient, TypeOK
<1>8. CASE RemoveFirst
  <2>1. CASE clienthead = lptr
    <3>1. /\ clienthead' = next_client[lptr] /\ lptr' = next_client[lptr]
          /\ unlinkedAt' = [unlinkedAt EXCEPT ![lptr] = allocated] /\ lpc' = "cleanup"
          /\ lptr \in Clients
      BY <1>8, <2>1 DEF RemoveFirst
    <3>2. UNCHANGED <<next_client, active, thread_pool_id, allocated, lwalk, lprev, sVars>>
      BY <1>8, <2>1 DEF RemoveFirst
    <3> QED
      BY <1>0, <3>1, <3>2 DEF TypeOK
  <2>2. CASE clienthead # lptr
    BY <1>0, <1>8, <2>2 DEF RemoveFirst, TypeOK
  <2> QED
    BY <2>1, <2>2
<1>9. CASE RemoveWalk
  <2>1. CASE next_client[lwalk] # Nil /\ lwalk = lptr
    <3>1. /\ next_client' = [next_client EXCEPT ![lprev] = next_client[lwalk]]
          /\ unlinkedAt' = [unlinkedAt EXCEPT ![lptr] = allocated]
          /\ lptr' = next_client[lptr] /\ lpc' = "cleanup"
          /\ lptr \in Clients /\ lwalk \in Clients
      BY <1>9, <2>1 DEF RemoveWalk
    <3>2. UNCHANGED <<clienthead, active, thread_pool_id, allocated, lwalk, lprev, sVars>>
      BY <1>9, <2>1 DEF RemoveWalk
    <3> QED
      BY <1>0, <3>1, <3>2 DEF TypeOK
  <2>2. CASE next_client[lwalk] = Nil \/ lwalk # lptr
    <3>1. /\ lptr' \in 0..MaxClients /\ lwalk' \in 0..MaxClients /\ lprev' \in 0..MaxClients
          /\ lpc' \in {"cleanup", "removeWalk"}
      BY <1>0, <1>9, <2>2 DEF RemoveWalk, TypeOK
    <3>2. UNCHANGED <<listVars, sVars>>
      BY <1>9, <2>2 DEF RemoveWalk
    <3> QED
      BY <1>0, <3>1, <3>2 DEF TypeOK
  <2> QED
    BY <2>1, <2>2
<1> QED
  BY <1>1, <1>2, <1>3, <1>4, <1>5, <1>6, <1>7, <1>8, <1>9 DEF Listener

LEMMA TypeService ==
    ASSUME IInv, NEW p \in Pools, ServiceThread(p)
    PROVE  TypeOK'
<1>0. /\ 0..MaxClients = Clients \cup {Nil} /\ Live \subseteq Clients /\ TypeOK
      /\ spc[p] = "ended" => sptr[p] # Nil
  BY ConstantsAssumption DEF Clients, Nil, Live, Linked, IInv, WalkInv
<1> USE <1>0 DEF listVars, lVars, Goto
<1>1. CASE PassStart(p)
  BY <1>1 DEF PassStart, TypeOK
<1>2. CASE PassFirst(p)
  BY <1>2 DEF PassFirst, TypeOK
<1>3. CASE Skip(p)
  BY <1>3 DEF Skip, Advance, TypeOK
<1>4. CASE List(p) \/ ListAndRefuse(p)
  <2>1. sptr[p] \in Clients /\ spc[p] = "build"
    BY <1>4 DEF List, ListAndRefuse, TypeOK
  <2>2. Append(clientfds[p], sptr[p]) \in Seq(Clients)
    BY <2>1 DEF TypeOK
  <2>3. clientcount[p] + 1 \in Nat
    BY DEF TypeOK
  <2>4. CASE List(p)
    BY <2>1, <2>2, <2>3, <2>4 DEF List, Advance, TypeOK
  <2>5. CASE ListAndRefuse(p)
    BY <2>1, <2>2, <2>3, <2>5 DEF ListAndRefuse, TypeOK
  <2> QED
    BY <1>4, <2>4, <2>5
<1>5. CASE Finish(p)
  BY <1>5 DEF Finish, TypeOK
<1>6. CASE AfterEnd(p)
  BY <1>6 DEF AfterEnd, Advance, TypeOK
<1>7. CASE PassBuilt(p) \/ PassSleep(p) \/ PassTimeout(p) \/ FindNone(p)
  BY <1>7 DEF PassBuilt, PassSleep, PassTimeout, FindNone, TypeOK
<1>8. CASE PassPolled(p)
  BY <1>8 DEF PassPolled, TypeOK
<1>9. CASE FindNext(p)
  BY <1>9 DEF FindNext, TypeOK
<1>10. ASSUME NEW dead \in BOOLEAN, FindMatch(p, dead) PROVE TypeOK'
  BY <1>10 DEF FindMatch, TypeOK
<1> QED
  BY <1>1, <1>2, <1>3, <1>4, <1>5, <1>6, <1>7, <1>8, <1>9, <1>10 DEF ServiceThread
-----------------------------------------------------------------------------
(* The steps that leave the links alone. *)

StructureInv == Lifecycle /\ AppendInv /\ ChainInv /\ GhostInv /\ CursorInv

\* Facts about the order of clients that every step below uses.
LEMMA LinkedFacts ==
    ASSUME IInv
    PROVE  /\ \A c \in Linked : c \in Clients /\ c <= allocated /\ unlinkedAt[c] = 0 /\ ~Pending(c)
           /\ \A c \in Clients : active[c] /\ c <= allocated /\ ~Pending(c) => c \in Linked
           /\ allocated \in Nat
           /\ unlinkedAt \in [Clients -> Nat]
           /\ next_client \in [Clients -> Clients \cup {Nil}]
           /\ active \in [Clients -> BOOLEAN]
           /\ sptr \in [Pools -> Clients \cup {Nil}]
<1>1. \A c \in Linked : c \in Clients /\ c <= allocated /\ unlinkedAt[c] = 0 /\ ~Pending(c)
  BY DEF Linked
<1>2. \A c \in Clients : active[c] /\ c <= allocated /\ ~Pending(c) => c \in Linked
  BY DEF IInv, Lifecycle, Linked
<1>3. 0..MaxClients \subseteq Nat
  BY ConstantsAssumption
<1> QED
  BY <1>1, <1>2, <1>3, Cursors DEF IInv, TypeOK

LEMMA SameLinks ==
    ASSUME IInv, UNCHANGED <<clienthead, next_client, unlinkedAt>>, Linked' = Linked
    PROVE  ChainInv' /\ GhostInv'
  BY DEF IInv, ChainInv, GhostInv

LEMMA ServiceKeepsStructure ==
    ASSUME IInv, NEW p \in Pools, ServiceThread(p)
    PROVE  StructureInv'
<1>1. /\ UNCHANGED <<clienthead, next_client, allocated, unlinkedAt, lpc, lptr, lwalk, lprev>>
      /\ \A c \in Clients : active'[c] => active[c]
  <2>1. active \in [Clients -> BOOLEAN]
    BY DEF IInv, TypeOK
  <2> USE DEF listVars, lVars
  <2>2. CASE ListAndRefuse(p) \/ Finish(p)
    BY <2>1, <2>2 DEF ListAndRefuse, Finish
  <2>3. ASSUME NEW dead \in BOOLEAN, FindMatch(p, dead)
        PROVE  <1>1!1 /\ <1>1!2
    BY <2>1, <2>3 DEF FindMatch
  <2>4. CASE Skip(p) \/ List(p) \/ AfterEnd(p)
    BY <2>4 DEF Skip, List, AfterEnd, Advance
  <2> QED
    BY <2>2, <2>3, <2>4
    DEF ServiceThread, PassStart, PassFirst, PassBuilt, PassSleep, PassTimeout, PassPolled,
        FindNext, FindNone
<1>2. Linked' = Linked /\ \A c \in Clients : Pending(c)' <=> Pending(c)
  BY <1>1 DEF Linked, Pending
<1>3. Lifecycle' /\ AppendInv'
  BY <1>1, <1>2 DEF IInv, Lifecycle, AppendInv
<1>4. ChainInv' /\ GhostInv'
  BY <1>1, <1>2, SameLinks
<1>5. CursorInv'
  BY <1>1, <1>2, Cursors DEF IInv, CursorInv
<1> QED
  BY <1>3, <1>4, <1>5 DEF StructureInv

LEMMA AcceptKeepsStructure ==
    ASSUME IInv, NEW p \in Pools, Accept(p)
    PROVE  StructureInv'
<1>1. allocated + 1 \in Clients /\ allocated \in Nat
  BY ConstantsAssumption DEF Accept, Clients, IInv, TypeOK
<1>2. \A c \in Clients : /\ Pending(c)' <=> c = allocated + 1
                         /\ ~Pending(c)
                         /\ c <= allocated + 1 <=> c <= allocated \/ c = allocated + 1
  BY <1>1, Cursors DEF Accept, Pending, Clients
<1>3. Linked' = Linked
  BY <1>1, <1>2, Cursors DEF Accept, Linked
<1>4. Lifecycle'
  BY <1>1, <1>2, Cursors, LinkedFacts DEF Accept, IInv, Lifecycle
<1>5. AppendInv'
  BY <1>1, Cursors, LinkedFacts DEF Accept, IInv, Lifecycle, AppendInv
<1>6. ChainInv' /\ GhostInv'
  BY <1>3, SameLinks DEF Accept
<1>7. CursorInv'
  BY DEF Accept, CursorInv
<1> QED
  BY <1>4, <1>5, <1>6, <1>7 DEF StructureInv

\* Steps of the clean-up that only move its cursors, and the flag that delete_client clears.
LEMMA CleanupKeepsStructure ==
    ASSUME IInv, PollReports \/ AcceptFails \/ PollTimeout \/ CleanupEnd \/ CleanupTest \/ DeleteClient
    PROVE  StructureInv'
<1>1. /\ UNCHANGED <<clienthead, next_client, allocated, unlinkedAt, lwalk, lprev>>
      /\ \A c \in Clients : active'[c] => active[c]
      /\ lpc \notin {"append", "appendWalk"} /\ lpc' \in {"poll", "accept", "cleanup", "delete", "remove"}
  BY LinkedFacts DEF PollReports, AcceptFails, PollTimeout, CleanupEnd, CleanupTest, DeleteClient, listVars
<1>2. Linked' = Linked /\ \A c \in Clients : ~Pending(c) /\ ~Pending(c)'
  BY <1>1 DEF Linked, Pending
<1>3. Lifecycle' /\ AppendInv'
  BY <1>1, <1>2 DEF IInv, Lifecycle, AppendInv
<1>4. ChainInv' /\ GhostInv'
  BY <1>1, <1>2, SameLinks
<1>5. CursorInv'
  <2>1. CASE PollReports \/ AcceptFails \/ PollTimeout
    BY <2>1, <1>2 DEF PollReports, AcceptFails, PollTimeout, CursorInv, IInv, ChainInv
  <2>2. CASE CleanupEnd
    BY <2>2, <1>2 DEF CleanupEnd, CursorInv
  <2>3. CASE CleanupTest
    BY <2>3, <1>2, LinkedFacts DEF CleanupTest, CursorInv, IInv, ChainInv, listVars
  <2>4. CASE DeleteClient
    BY <2>4, <1>2, LinkedFacts DEF DeleteClient, CursorInv, IInv
  <2> QED
    BY <2>1, <2>2, <2>3, <2>4
<1> QED
  BY <1>3, <1>4, <1>5 DEF StructureInv
-----------------------------------------------------------------------------
(* The steps that write the links. *)

LEMMA AppendFirstKeepsStructure ==
    ASSUME IInv, AppendFirst
    PROVE  StructureInv'
<1>1. UNCHANGED <<next_client, active, allocated, unlinkedAt, lptr, lprev>> /\ lpc = "append"
  BY DEF AppendFirst
<1>2. allocated \in Clients /\ Pending(allocated)
  BY <1>1, Cursors DEF Pending
<1>3. CASE clienthead = Nil
  <2>1. clienthead' = allocated /\ lpc' = "poll" /\ allocated # Nil
    BY <1>2, <1>3, Cursors DEF AppendFirst
  <2>2. Linked = {}
    BY <1>3 DEF IInv, ChainInv
  <2>3. Linked' = {allocated}
    <3>1. \A c \in Clients : (Pending(c) <=> c = allocated) /\ ~Pending(c)'
      BY <1>1, <2>1 DEF Pending
    <3>2. unlinkedAt[allocated] = 0 /\ allocated <= allocated
      BY <1>2, Cursors DEF IInv, Lifecycle
    <3>3. \A c \in Clients : c \in Linked' <=> c \in Linked \/ c = allocated
      BY <1>1, <3>1, <3>2 DEF Linked
    <3>4. Linked' \subseteq Clients /\ Linked \subseteq Clients
      BY DEF Linked
    <3> QED
      BY <1>2, <2>2, <3>3, <3>4
  <2>4. Lifecycle' /\ AppendInv'
    BY <1>1, <2>1 DEF IInv, Lifecycle, AppendInv, Pending
  <2>5. next_client[allocated] = Nil
    BY <1>2 DEF IInv, Lifecycle
  <2>6. ChainInv'
    BY <1>1, <1>2, <2>1, <2>3, <2>5, Cursors DEF ChainInv
  <2>7. GhostInv'
    BY <1>1, <1>2, <2>3, LinkedFacts DEF IInv, GhostInv, AppendInv
  <2>8. CursorInv'
    BY <2>1 DEF CursorInv
  <2> QED
    BY <2>4, <2>6, <2>7, <2>8 DEF StructureInv
<1>4. CASE clienthead # Nil
  <2>1. UNCHANGED clienthead /\ lwalk' = clienthead /\ lpc' = "appendWalk"
    BY <1>4 DEF AppendFirst
  <2>2. Linked' = Linked /\ \A c \in Clients : Pending(c)' <=> Pending(c)
    BY <1>1, <2>1 DEF Linked, Pending
  <2>3. Lifecycle' /\ AppendInv'
    BY <1>1, <2>1, <2>2 DEF IInv, Lifecycle, AppendInv
  <2>4. ChainInv' /\ GhostInv'
    BY <1>1, <2>1, <2>2, SameLinks
  <2>5. CursorInv'
    BY <1>4, <2>1, <2>2 DEF CursorInv, IInv, ChainInv
  <2> QED
    BY <2>3, <2>4, <2>5 DEF StructureInv
<1> QED
  BY <1>3, <1>4

LEMMA AppendWalkKeepsStructure ==
    ASSUME IInv, AppendWalk
    PROVE  StructureInv'
<1>1. UNCHANGED <<clienthead, active, allocated, unlinkedAt, lptr, lprev>> /\ lpc = "appendWalk"
  BY DEF AppendWalk
<1>2. allocated \in Clients /\ Pending(allocated) /\ lwalk \in Linked /\ lwalk \in Clients
  BY <1>1, Cursors DEF Pending, IInv, CursorInv
<1>3. CASE next_client[lwalk] = Nil
  <2>1. next_client' = [next_client EXCEPT ![lwalk] = allocated] /\ lpc' = "poll"
    BY <1>3 DEF AppendWalk
  <2>2. Linked' = Linked \cup {allocated}
    <3>1. \A c \in Clients : (Pending(c) <=> c = allocated) /\ ~Pending(c)'
      BY <1>1, <2>1 DEF Pending
    <3>2. unlinkedAt[allocated] = 0 /\ allocated <= allocated
      BY <1>2, Cursors DEF IInv, Lifecycle
    <3>3. \A c \in Clients : c \in Linked' <=> c \in Linked \/ c = allocated
      BY <1>1, <3>1, <3>2 DEF Linked
    <3>4. Linked' \subseteq Clients /\ Linked \subseteq Clients
      BY DEF Linked
    <3> QED
      BY <1>2, <3>3, <3>4
  <2>3. \A c \in Linked : c < allocated /\ c <= lwalk
    <3>1. \A c \in Linked : c < allocated
      BY <1>1, <1>2, Cursors, LinkedFacts DEF Pending
    <3>2. \A c \in Linked : c <= lwalk
      BY <1>2, <1>3, Cursors, LinkedFacts DEF IInv, ChainInv
    <3> QED
      BY <3>1, <3>2
  <2>4. /\ next_client[allocated] = Nil /\ unlinkedAt[allocated] = 0
        /\ \A c \in Clients : unlinkedAt[c] < allocated
    BY <1>1, <1>2 DEF IInv, Lifecycle, AppendInv
  <2>5. /\ next_client'[lwalk] = allocated
        /\ \A n \in Clients : n # lwalk => next_client'[n] = next_client[n]
    BY <1>2, <2>1, LinkedFacts
  <2>6. Lifecycle'
    BY <1>1, <1>2, <2>1, <2>3, <2>4, <2>5, Cursors, LinkedFacts DEF IInv, Lifecycle, Pending
  <2>7. AppendInv'
    BY <2>1 DEF AppendInv
  <2>8. ChainInv'
    <3>1. clienthead' # Nil => clienthead' \in Linked'
      BY <1>1, <2>2 DEF IInv, ChainInv
    <3>2. \A c \in Linked' : clienthead' # Nil /\ clienthead' <= c
      BY <1>1, <1>2, <2>2, <2>3, Cursors, LinkedFacts DEF IInv, ChainInv
    <3>3. ASSUME NEW n \in Linked', next_client'[n] # Nil
          PROVE  next_client'[n] \in Linked' /\ next_client'[n] > n
      BY <1>2, <2>2, <2>3, <2>4, <2>5, <3>3, Cursors, LinkedFacts DEF IInv, ChainInv
    <3>4. ASSUME NEW n \in Linked', NEW c \in Linked', c > n
          PROVE  next_client'[n] # Nil /\ next_client'[n] <= c
      <4>1. n \in Linked
        BY <1>2, <2>2, <2>3, <3>4, Cursors, LinkedFacts
      <4>2. CASE n = lwalk
        <5>1. c = allocated
          BY <2>2, <2>3, <3>4, <4>1, <4>2, Cursors, LinkedFacts
        <5> QED
          BY <1>2, <2>5, <4>2, <5>1, Cursors
      <4>3. CASE n # lwalk
        <5>1. n < lwalk /\ next_client[n] # Nil /\ next_client[n] <= lwalk
          BY <1>2, <2>3, <4>1, <4>3, Cursors, LinkedFacts DEF IInv, ChainInv
        <5>2. c \in Linked => next_client[n] <= c
          BY <3>4, <4>1 DEF IInv, ChainInv
        <5>3. c = allocated => next_client[n] <= c
          BY <1>2, <2>3, <4>1, <5>1, Cursors, LinkedFacts
        <5> QED
          BY <2>2, <2>5, <4>1, <4>3, <5>1, <5>2, <5>3, LinkedFacts
      <4> QED
        BY <4>2, <4>3
    <3> QED
      BY <3>1, <3>2, <3>3, <3>4 DEF ChainInv
  <2>9. GhostInv'
    BY <1>1, <1>2, <2>2, <2>4, <2>5, Cursors, LinkedFacts DEF IInv, GhostInv
  <2>10. CursorInv'
    BY <2>1 DEF CursorInv
  <2> QED
    BY <2>6, <2>7, <2>8, <2>9, <2>10 DEF StructureInv
<1>4. CASE next_client[lwalk] # Nil
  <2>1. UNCHANGED <<next_client, lpc>> /\ lwalk' = next_client[lwalk]
    BY <1>4 DEF AppendWalk
  <2>2. Linked' = Linked /\ \A c \in Clients : Pending(c)' <=> Pending(c)
    BY <1>1, <2>1 DEF Linked, Pending
  <2>3. Lifecycle' /\ AppendInv'
    BY <1>1, <2>1, <2>2 DEF IInv, Lifecycle, AppendInv
  <2>4. ChainInv' /\ GhostInv'
    BY <1>1, <2>1, <2>2, SameLinks
  <2>5. CursorInv'
    BY <1>1, <1>2, <1>4, <2>1, <2>2 DEF CursorInv, IInv, ChainInv
  <2> QED
    BY <2>3, <2>4, <2>5 DEF StructureInv
<1> QED
  BY <1>3, <1>4
\* What both ways of unlinking lptr do to the set of linked clients and to the histories.
LEMMA Unlinking ==
    ASSUME IInv, lpc \in {"remove", "removeWalk"}, lpc' = "cleanup",
           UNCHANGED <<active, allocated>>, unlinkedAt' = [unlinkedAt EXCEPT ![lptr] = allocated]
    PROVE  /\ lptr \in Linked /\ lptr \in Clients /\ ~active[lptr]
           /\ allocated > 0 /\ lptr <= allocated
           /\ Linked' = Linked \ {lptr}
           /\ unlinkedAt'[lptr] = allocated
           /\ \A c \in Clients : c # lptr => unlinkedAt'[c] = unlinkedAt[c]
           /\ \A c \in Clients : ~Pending(c) /\ ~Pending(c)'
<1>1. lptr \in Linked /\ lptr \in Clients /\ ~active[lptr]
  BY Cursors DEF IInv, CursorInv
<1>2. allocated > 0 /\ lptr <= allocated
  BY <1>1, Cursors, LinkedFacts DEF Nil
<1>3. unlinkedAt'[lptr] = allocated /\ \A c \in Clients : c # lptr => unlinkedAt'[c] = unlinkedAt[c]
  BY <1>1, LinkedFacts
<1>4. \A c \in Clients : ~Pending(c) /\ ~Pending(c)'
  BY DEF Pending
<1>5. \A c \in Clients : c \in Linked' <=> c \in Linked /\ c # lptr
  BY <1>1, <1>2, <1>3, <1>4 DEF Linked
<1>6. Linked' \subseteq Clients /\ Linked \subseteq Clients
  BY DEF Linked
<1> QED
  BY <1>1, <1>2, <1>3, <1>4, <1>5, <1>6

LEMMA UnlinkingLifecycle ==
    ASSUME IInv, lpc \in {"remove", "removeWalk"}, lpc' = "cleanup",
           UNCHANGED <<active, allocated>>, unlinkedAt' = [unlinkedAt EXCEPT ![lptr] = allocated]
    PROVE  /\ \A c \in Clients : unlinkedAt'[c] <= allocated'
           /\ \A c \in Clients : active'[c] => unlinkedAt'[c] = 0
<1>1. \A c \in Clients : unlinkedAt'[c] <= allocated'
  <2>1. \A c \in Clients : unlinkedAt[c] <= allocated
    BY DEF IInv, Lifecycle
  <2>2. allocated <= allocated
    BY LinkedFacts
  <2> QED
    BY <2>1, <2>2, Unlinking
<1>2. \A c \in Clients : active'[c] => unlinkedAt'[c] = 0
  <2>1. \A c \in Clients : active[c] => unlinkedAt[c] = 0
    BY DEF IInv, Lifecycle
  <2> QED
    BY <2>1, Unlinking
<1> QED
  BY <1>1, <1>2

\* Taking lptr off the list keeps every promise about the clients unlinked before it.
LEMMA UnlinkingKeepsGhosts ==
    ASSUME IInv, lpc \in {"remove", "removeWalk"}, lpc' = "cleanup",
           UNCHANGED <<active, allocated>>, unlinkedAt' = [unlinkedAt EXCEPT ![lptr] = allocated],
           \A n \in Clients : n \notin Linked \/ n = lptr => next_client'[n] = next_client[n]
    PROVE  GhostInv'
<1> SUFFICES ASSUME NEW n \in Clients, unlinkedAt'[n] # 0
             PROVE  /\ next_client'[n] # Nil => next_client'[n] > n
                    /\ \A c \in Linked' : n < c /\ c <= unlinkedAt'[n] =>
                           /\ next_client'[n] # Nil /\ next_client'[n] <= c
                           /\ \/ next_client'[n] \in Linked'
                              \/ unlinkedAt'[next_client'[n]] >= unlinkedAt'[n]
  BY DEF GhostInv
<1>1. CASE n = lptr
  BY <1>1, Unlinking, LinkedFacts, Cursors DEF IInv, ChainInv
<1>2. CASE n # lptr
  <2>1. unlinkedAt'[n] = unlinkedAt[n] /\ next_client'[n] = next_client[n] /\ unlinkedAt[n] <= allocated
    BY <1>2, Unlinking, LinkedFacts DEF IInv, Lifecycle
  <2>2. next_client'[n] # Nil => next_client'[n] > n
    BY <2>1 DEF IInv, GhostInv
  <2>3. ASSUME NEW c \in Linked', n < c, c <= unlinkedAt'[n]
        PROVE  /\ next_client'[n] # Nil /\ next_client'[n] <= c
               /\ next_client'[n] \in Linked' \/ unlinkedAt'[next_client'[n]] >= unlinkedAt'[n]
    <3>1. /\ next_client[n] # Nil /\ next_client[n] <= c
          /\ next_client[n] \in Linked \/ unlinkedAt[next_client[n]] >= unlinkedAt[n]
      BY <2>1, <2>3, Unlinking DEF IInv, GhostInv
    <3>2. next_client[n] \in Clients
      BY <3>1, LinkedFacts
    <3> QED
      BY <2>1, <3>1, <3>2, Unlinking, LinkedFacts
  <2> QED
    BY <2>2, <2>3
<1> QED
  BY <1>1, <1>2

LEMMA RemoveFirstKeepsStructure ==
    ASSUME IInv, RemoveFirst
    PROVE  StructureInv'
<1>1. UNCHANGED <<next_client, active, allocated>> /\ lpc = "remove"
  BY DEF RemoveFirst
<1>2. lptr \in Linked /\ lptr \in Clients /\ ~active[lptr]
  BY <1>1, Cursors DEF IInv, CursorInv
<1>3. CASE clienthead = lptr
  <2>1. /\ clienthead' = next_client[lptr] /\ lptr' = next_client[lptr] /\ lpc' = "cleanup"
        /\ unlinkedAt' = [unlinkedAt EXCEPT ![lptr] = allocated]
    BY <1>3 DEF RemoveFirst
  <2>2. Lifecycle' /\ AppendInv'
    <3>1. \A c \in Clients : c > allocated' \/ Pending(c)' =>
              next_client'[c] = Nil /\ unlinkedAt'[c] = 0
      BY <1>1, <1>2, <2>1, Unlinking, LinkedFacts, Cursors DEF IInv, Lifecycle
    <3> QED
      BY <1>1, <2>1, <3>1, UnlinkingLifecycle DEF Lifecycle, AppendInv
  <2>3. ChainInv'
    <3>1. \A c \in Linked' : c # lptr /\ c \in Linked /\ c > lptr
      BY <1>1, <1>2, <1>3, <2>1, Unlinking, Cursors DEF IInv, ChainInv
    <3>2. \A n \in Linked : next_client[n] # Nil /\ next_client[n] # lptr => next_client[n] \in Linked'
      BY <1>1, <2>1, Unlinking DEF IInv, ChainInv
    <3>3. \A n \in Linked : next_client[n] # lptr
      BY <1>2, <1>3, Cursors DEF IInv, ChainInv
    <3> QED
      BY <1>1, <1>2, <2>1, <3>1, <3>2, <3>3, Cursors DEF IInv, ChainInv
  <2>4. GhostInv'
    BY <1>1, <2>1, UnlinkingKeepsGhosts
  <2>5. CursorInv'
    BY <1>1, <1>2, <2>1, Unlinking, Cursors DEF CursorInv, IInv, ChainInv
  <2> QED
    BY <2>2, <2>3, <2>4, <2>5 DEF StructureInv
<1>4. CASE clienthead # lptr
  <2>1. /\ UNCHANGED <<clienthead, unlinkedAt, lptr>>
        /\ lwalk' = clienthead /\ lprev' = Nil /\ lpc' = "removeWalk"
    BY <1>4 DEF RemoveFirst
  <2>2. Linked' = Linked /\ \A c \in Clients : ~Pending(c) /\ ~Pending(c)'
    BY <1>1, <2>1 DEF Linked, Pending
  <2>3. Lifecycle' /\ AppendInv'
    BY <1>1, <2>1, <2>2 DEF IInv, Lifecycle, AppendInv
  <2>4. ChainInv' /\ GhostInv'
    BY <1>1, <2>1, <2>2, SameLinks
  <2>5. CursorInv'
    BY <1>1, <1>2, <1>4, <2>1, <2>2 DEF CursorInv, IInv, ChainInv
  <2> QED
    BY <2>3, <2>4, <2>5 DEF StructureInv
<1> QED
  BY <1>3, <1>4

LEMMA RemoveWalkKeepsStructure ==
    ASSUME IInv, RemoveWalk
    PROVE  StructureInv'
<1>1. UNCHANGED <<clienthead, active, allocated>> /\ lpc = "removeWalk"
  BY DEF RemoveWalk
<1>2. /\ lptr \in Linked /\ lptr \in Clients /\ ~active[lptr] /\ lptr # clienthead
      /\ lwalk \in Linked /\ lwalk \in Clients /\ lwalk <= lptr
      /\ lwalk = clienthead \/ (lprev \in Linked /\ next_client[lprev] = lwalk)
  <2>1. lptr \in Linked /\ ~active[lptr]
    BY <1>1 DEF IInv, CursorInv
  <2>2. /\ lptr # clienthead /\ lwalk \in Linked /\ lwalk <= lptr
        /\ lwalk = clienthead \/ (lprev \in Linked /\ next_client[lprev] = lwalk)
    BY <1>1 DEF IInv, CursorInv
  <2> QED
    BY <2>1, <2>2, LinkedFacts
<1>3. CASE next_client[lwalk] # Nil /\ lwalk = lptr
  <2>1. /\ next_client' = [next_client EXCEPT ![lprev] = next_client[lptr]]
        /\ unlinkedAt' = [unlinkedAt EXCEPT ![lptr] = allocated]
        /\ lptr' = next_client[lptr] /\ lpc' = "cleanup"
    BY <1>3 DEF RemoveWalk
  <2>2. lprev \in Linked /\ next_client[lprev] = lptr /\ lprev \in Clients /\ lprev < lptr
    BY <1>2, <1>3, Cursors DEF IInv, ChainInv
  <2>3. /\ next_client'[lprev] = next_client[lptr]
        /\ \A n \in Clients : n # lprev => next_client'[n] = next_client[n]
    BY <2>1, <2>2, LinkedFacts
  <2>4. /\ next_client[lptr] \in Linked /\ next_client[lptr] > lptr
        /\ next_client[lptr] \in Clients
    BY <1>2, <1>3, LinkedFacts DEF IInv, ChainInv
  <2>5. Lifecycle' /\ AppendInv'
    <3>1. \A c \in Clients : c > allocated' \/ Pending(c)' =>
              next_client'[c] = Nil /\ unlinkedAt'[c] = 0
      BY <1>1, <1>2, <2>1, <2>2, <2>3, Unlinking, LinkedFacts, Cursors DEF IInv, Lifecycle
    <3> QED
      BY <1>1, <2>1, <3>1, UnlinkingLifecycle DEF Lifecycle, AppendInv
  <2>6. ChainInv'
    <3>1. \A n \in Linked : n # lprev /\ next_client[n] # Nil => next_client[n] # lptr
      BY <1>2, <2>2, LinkedFacts, Cursors DEF IInv, ChainInv
    <3>2. clienthead' # Nil => clienthead' \in Linked'
      BY <1>1, <1>2, <2>1, Unlinking DEF IInv, ChainInv
    <3>3. \A c \in Linked' : clienthead' # Nil /\ clienthead' <= c
      BY <1>1, <2>1, Unlinking DEF IInv, ChainInv
    <3>4. ASSUME NEW n \in Linked', next_client'[n] # Nil
          PROVE  next_client'[n] \in Linked' /\ next_client'[n] > n
      BY <1>1, <1>2, <2>1, <2>2, <2>3, <2>4, <3>1, <3>4, Unlinking, LinkedFacts, Cursors
      DEF IInv, ChainInv
    <3>5. ASSUME NEW n \in Linked', NEW c \in Linked', c > n
          PROVE  next_client'[n] # Nil /\ next_client'[n] <= c
      <4>1. n \in Linked /\ c \in Linked /\ c # lptr /\ n # lptr /\ n \in Clients /\ c \in Clients
        BY <1>1, <2>1, Unlinking, LinkedFacts
      <4>2. CASE n = lprev
        <5>1. lptr <= c
          BY <2>2, <3>5, <4>1, <4>2 DEF IInv, ChainInv
        <5>2. c > lptr
          BY <1>2, <4>1, <5>1, Cursors
        <5>3. next_client[lptr] <= c
          BY <1>2, <4>1, <5>2 DEF IInv, ChainInv
        <5> QED
          BY <2>3, <2>4, <4>2, <5>3, Cursors
      <4>3. CASE n # lprev
        BY <2>3, <3>5, <4>1, <4>3 DEF IInv, ChainInv
      <4> QED
        BY <4>2, <4>3
    <3> QED
      BY <3>2, <3>3, <3>4, <3>5 DEF ChainInv
  <2>7. GhostInv'
    <3>1. \A n \in Clients : n \notin Linked \/ n = lptr => next_client'[n] = next_client[n]
      BY <1>2, <2>2, <2>3, Cursors
    <3> QED
      BY <1>1, <2>1, <3>1, UnlinkingKeepsGhosts
  <2>8. CursorInv'
    BY <1>1, <1>2, <2>1, <2>4, Unlinking, Cursors DEF CursorInv
  <2> QED
    BY <2>5, <2>6, <2>7, <2>8 DEF StructureInv
<1>4. CASE next_client[lwalk] = Nil \/ lwalk # lptr
  <2>1. /\ UNCHANGED <<next_client, unlinkedAt>>
        /\ \/ /\ next_client[lwalk] = Nil
              /\ lptr' = next_client[lptr] /\ lpc' = "cleanup"
           \/ /\ next_client[lwalk] # Nil /\ lwalk # lptr
              /\ lprev' = lwalk /\ lwalk' = next_client[lwalk]
              /\ UNCHANGED <<lptr, lpc>>
    BY <1>4 DEF RemoveWalk
  <2>2. Linked' = Linked /\ \A c \in Clients : ~Pending(c) /\ ~Pending(c)'
    BY <1>1, <2>1 DEF Linked, Pending
  <2>3. Lifecycle' /\ AppendInv'
    BY <1>1, <2>1, <2>2 DEF IInv, Lifecycle, AppendInv
  <2>4. ChainInv' /\ GhostInv'
    BY <1>1, <2>1, <2>2, SameLinks
  <2>5. CursorInv'
    <3>1. next_client[lwalk] # Nil /\ lwalk # lptr =>
              next_client[lwalk] \in Linked /\ next_client[lwalk] <= lptr
      BY <1>2, Cursors DEF IInv, ChainInv
    <3> QED
      BY <1>1, <1>2, <2>1, <2>2, <3>1 DEF CursorInv, IInv, ChainInv
  <2> QED
    BY <2>3, <2>4, <2>5 DEF StructureInv
<1> QED
  BY <1>3, <1>4
-----------------------------------------------------------------------------
(* The service threads' walks. *)

\* What any step of the listening thread means to a walk in progress.
LEMMA ListenerSeenByWalk ==
    ASSUME IInv, Listener
    PROVE  /\ UNCHANGED sVars
           /\ \A c \in Clients : c <= allocated /\ ~Pending(c) =>
                  c <= allocated' /\ ~Pending(c)' /\ (active'[c] => active[c])
           /\ \A n \in Clients : unlinkedAt[n] # 0 => unlinkedAt'[n] = unlinkedAt[n]
           /\ \A n \in Linked : n \in Linked' \/ unlinkedAt'[n] = allocated
<1>1. CASE \E p \in Pools : Accept(p)
  <2>1. \A c \in Clients : c <= allocated =>
            c <= allocated' /\ c # allocated' /\ (active'[c] => active[c])
    BY <1>1, LinkedFacts, Cursors DEF Accept
  <2>2. UNCHANGED <<sVars, unlinkedAt>> /\ lpc = "accept"
    BY <1>1 DEF Accept
  <2>3. \A n \in Linked : n \in Linked'
    BY <2>1, <2>2, LinkedFacts DEF Linked, Pending
  <2> QED
    BY <2>1, <2>2, <2>3 DEF Pending
<1>2. CASE AppendFirst
  BY <1>2, LinkedFacts DEF AppendFirst, Linked, Pending
<1>3. CASE AppendWalk
  BY <1>3, LinkedFacts DEF AppendWalk, Linked, Pending
<1>4. CASE PollReports \/ AcceptFails \/ PollTimeout \/ CleanupEnd \/ CleanupTest
  BY <1>4, LinkedFacts DEF PollReports, AcceptFails, PollTimeout, CleanupEnd, CleanupTest, Linked, Pending, listVars
<1>5. CASE DeleteClient
  BY <1>5, LinkedFacts DEF DeleteClient, Linked, Pending
<1>6. CASE RemoveFirst
  <2>1. lptr \in Linked /\ lptr \in Clients /\ unlinkedAt[lptr] = 0
    BY <1>6, LinkedFacts DEF RemoveFirst, IInv, CursorInv
  <2> QED
    BY <1>6, <2>1, LinkedFacts DEF RemoveFirst, Linked, Pending
<1>7. CASE RemoveWalk
  <2>1. lptr \in Linked /\ lptr \in Clients /\ unlinkedAt[lptr] = 0
    BY <1>7, LinkedFacts DEF RemoveWalk, IInv, CursorInv
  <2>2. CASE next_client[lwalk] # Nil /\ lwalk = lptr
    BY <1>7, <2>1, <2>2, LinkedFacts DEF RemoveWalk, Linked, Pending
  <2>3. CASE next_client[lwalk] = Nil \/ lwalk # lptr
    BY <1>7, <2>3, LinkedFacts DEF RemoveWalk, Linked, Pending
  <2> QED
    BY <2>2, <2>3
<1> QED
  BY <1>1, <1>2, <1>3, <1>4, <1>5, <1>6, <1>7 DEF Listener

LEMMA ListenerKeepsWalk ==
    ASSUME IInv, Listener
    PROVE  WalkInv'
<1> SUFFICES ASSUME NEW p \in Pools
             PROVE  /\ \A c \in owed[p] : c <= allocated' /\ ~Pending(c)'
                    /\ spc[p] = "ended" => sptr[p] # Nil
                    /\ spc[p] = "find" => clientfds[p] # <<>> /\ owed[p] \subseteq {clientfds[p][1]}
                    /\ spc[p] \in {"build", "ended", "find"} =>
                           \A c \in owed[p] : active'[c] =>
                               /\ sptr[p] # Nil /\ sptr[p] <= c
                               /\ sptr[p] \in Linked' \/ unlinkedAt'[sptr[p]] >= c
  BY ListenerSeenByWalk DEF WalkInv, sVars
<1>1. /\ \A c \in owed[p] : c \in Clients /\ c <= allocated /\ ~Pending(c)
      /\ spc[p] = "ended" => sptr[p] # Nil
      /\ spc[p] = "find" => clientfds[p] # <<>> /\ owed[p] \subseteq {clientfds[p][1]}
  BY DEF IInv, WalkInv, TypeOK
<1>2. \A c \in owed[p] : c <= allocated' /\ ~Pending(c)' /\ (active'[c] => active[c])
  BY <1>1, ListenerSeenByWalk
<1>3. ASSUME spc[p] \in {"build", "ended", "find"}, NEW c \in owed[p], active'[c]
      PROVE  /\ sptr[p] # Nil /\ sptr[p] <= c
             /\ sptr[p] \in Linked' \/ unlinkedAt'[sptr[p]] >= c
  <2>1. /\ sptr[p] # Nil /\ sptr[p] <= c
        /\ sptr[p] \in Linked \/ unlinkedAt[sptr[p]] >= c
    BY <1>2, <1>3 DEF IInv, WalkInv
  <2>2. sptr[p] \in Clients /\ c \in Clients /\ c <= allocated
    BY <1>1, <2>1, LinkedFacts
  <2>3. CASE sptr[p] \in Linked
    BY <2>1, <2>2, <2>3, ListenerSeenByWalk, Cursors, LinkedFacts
  <2>4. CASE unlinkedAt[sptr[p]] >= c
    <3>1. unlinkedAt[sptr[p]] # 0
      BY <2>2, <2>4, Cursors DEF Nil
    <3> QED
      BY <2>1, <2>2, <2>4, <3>1, ListenerSeenByWalk
  <2> QED
    BY <2>1, <2>3, <2>4
<1> QED
  BY <1>1, <1>2, <1>3

LEMMA ServiceKeepsWalk ==
    ASSUME IInv, NEW p \in Pools, ServiceThread(p)
    PROVE  WalkInv'
<1> DEFINE Owed(c) == c <= allocated /\ ~Pending(c)
           OnWay(n, c) == n # Nil /\ n <= c /\ (n \in Linked \/ unlinkedAt[n] >= c)
<1>0. /\ UNCHANGED <<clienthead, next_client, allocated, unlinkedAt, lpc>>
      /\ \A c \in Clients : active'[c] => active[c]
      /\ \A q \in Pools : q # p =>
             spc'[q] = spc[q] /\ sptr'[q] = sptr[q] /\ clientfds'[q] = clientfds[q] /\ owed'[q] = owed[q]
  <2> USE LinkedFacts DEF listVars, lVars, Goto, IInv, TypeOK
  <2>1. CASE PassStart(p) \/ PassFirst(p) \/ PassBuilt(p) \/ PassSleep(p) \/ PassTimeout(p)
    BY <2>1 DEF PassStart, PassFirst, PassBuilt, PassSleep, PassTimeout
  <2>2. CASE ListAndRefuse(p) \/ Finish(p)
    BY <2>2 DEF ListAndRefuse, Finish
  <2>3. CASE Skip(p) \/ List(p) \/ AfterEnd(p)
    BY <2>3 DEF Skip, List, AfterEnd, Advance
  <2>4. CASE PassPolled(p) \/ FindNext(p) \/ FindNone(p)
    BY <2>4 DEF PassPolled, FindNext, FindNone
  <2>5. ASSUME NEW dead \in BOOLEAN, FindMatch(p, dead)
        PROVE  <1>0!1 /\ <1>0!2 /\ <1>0!3
    BY <2>5 DEF FindMatch
  <2> QED
    BY <2>1, <2>2, <2>3, <2>4, <2>5 DEF ServiceThread
<1>1. Linked' = Linked /\ \A c \in Clients : Pending(c)' <=> Pending(c)
  BY <1>0 DEF Linked, Pending
<1>2. \A q \in Pools :
          /\ owed[q] \subseteq Clients
          /\ \A c \in owed[q] : Owed(c)
          /\ spc[q] = "ended" => sptr[q] # Nil
          /\ spc[q] = "find" => clientfds[q] # <<>> /\ owed[q] \subseteq {clientfds[q][1]}
          /\ spc[q] \in {"build", "ended", "find"} =>
                 \A c \in owed[q] : active[c] => OnWay(sptr[q], c)
  BY DEF IInv, WalkInv, TypeOK
<1>3. /\ owed'[p] \subseteq Clients
      /\ \A c \in owed'[p] : Owed(c)
      /\ spc'[p] = "ended" => sptr'[p] # Nil
      /\ spc'[p] = "find" => clientfds'[p] # <<>> /\ owed'[p] \subseteq {clientfds'[p][1]}
      /\ spc'[p] \in {"build", "ended", "find"} =>
             \A c \in owed'[p] : active'[c] => OnWay(sptr'[p], c)
  <2>1. \A c \in Live : c \in Clients /\ c \in Linked /\ Owed(c)
    BY LinkedFacts DEF Live
  <2>2. \A c \in Live : OnWay(clienthead, c)
    BY <2>1 DEF IInv, ChainInv
  <2>3. ASSUME NEW c \in Clients, active[c], Owed(c), OnWay(sptr[p], c), sptr[p] # c
        PROVE  OnWay(next_client[sptr[p]], c)
    <3>1. c \in Linked /\ sptr[p] \in Clients /\ c > sptr[p]
      BY <2>3, LinkedFacts, Cursors
    <3>2. CASE sptr[p] \in Linked
      BY <3>1, <3>2 DEF IInv, ChainInv
    <3>3. CASE unlinkedAt[sptr[p]] >= c
      <4>1. unlinkedAt[sptr[p]] # 0
        BY <3>1, <3>3, Cursors DEF Nil
      <4>2. /\ next_client[sptr[p]] # Nil /\ next_client[sptr[p]] <= c
            /\ \/ next_client[sptr[p]] \in Linked
               \/ unlinkedAt[next_client[sptr[p]]] >= unlinkedAt[sptr[p]]
        BY <3>1, <3>3, <4>1, Cursors DEF IInv, GhostInv
      <4> QED
        BY <3>1, <3>3, <4>2, LinkedFacts, Cursors
    <3> QED
      BY <2>3, <3>2, <3>3
  <2> HIDE DEF Owed, OnWay
  <2> USE DEF IInv, TypeOK, Goto, listVars, lVars
  <2>4. CASE PassStart(p) \/ PassBuilt(p) \/ PassSleep(p) \/ PassTimeout(p) \/ FindNone(p)
    BY <1>2, <2>4, ZenonT(60) DEF PassStart, PassBuilt, PassSleep, PassTimeout, FindNone
  <2>5. CASE PassFirst(p)
    BY <1>0, <2>1, <2>2, <2>5 DEF PassFirst, Live
  <2>6. CASE ListAndRefuse(p) \/ Finish(p)
    <3>1. /\ spc[p] = "build" /\ spc'[p] = "ended" /\ sptr[p] # Nil
          /\ owed'[p] = owed[p] /\ sptr'[p] = sptr[p]
      BY <2>6 DEF ListAndRefuse, Finish
    <3> QED
      BY <1>0, <1>2, <3>1
  <2>7. CASE Skip(p) \/ List(p) \/ AfterEnd(p)
    <3>1. /\ spc[p] \in {"build", "ended"} /\ spc'[p] = "build" /\ active' = active
          /\ owed'[p] = owed[p] \ {sptr[p]} /\ sptr'[p] = next_client[sptr[p]]
      BY <2>7 DEF Skip, List, AfterEnd, Advance
    <3> QED
      BY <1>2, <2>3, <3>1
  <2>8. CASE PassPolled(p)
    BY <1>0, <2>1, <2>2, <2>8 DEF PassPolled, Live
  <2>9. CASE FindNext(p)
    <3>1. /\ spc[p] = "find" /\ spc'[p] = "find" /\ active' = active /\ owed'[p] = owed[p]
          /\ clientfds' = clientfds /\ sptr[p] # clientfds[p][1]
          /\ sptr'[p] = next_client[sptr[p]]
      BY <2>9 DEF FindNext
    <3> QED
      BY <1>2, <2>3, <3>1
  <2>10. ASSUME NEW dead \in BOOLEAN, FindMatch(p, dead) PROVE <1>3
    BY <2>10 DEF FindMatch
  <2> QED
    BY <2>4, <2>5, <2>6, <2>7, <2>8, <2>9, <2>10 DEF ServiceThread
<1>4. ASSUME NEW q \in Pools
      PROVE  /\ \A c \in owed'[q] : c <= allocated' /\ ~Pending(c)'
             /\ spc'[q] = "ended" => sptr'[q] # Nil
             /\ spc'[q] = "find" => clientfds'[q] # <<>> /\ owed'[q] \subseteq {clientfds'[q][1]}
             /\ spc'[q] \in {"build", "ended", "find"} =>
                    \A c \in owed'[q] : active'[c] =>
                        /\ sptr'[q] # Nil /\ sptr'[q] <= c
                        /\ sptr'[q] \in Linked' \/ unlinkedAt'[sptr'[q]] >= c
  <2>1. CASE q = p
    BY <1>0, <1>1, <1>3, <2>1
  <2>2. CASE q # p
    BY <1>0, <1>1, <1>2, <2>2
  <2> QED
    BY <2>1, <2>2
<1> QED
  BY <1>4 DEF WalkInv
-----------------------------------------------------------------------------
(* The invariant holds, and with it the properties. *)

LEMMA NextKeepsIInv == IInv /\ [Next]_clVars => IInv'
<1>1. ASSUME IInv, Listener PROVE IInv'
  <2>1. StructureInv'
    BY <1>1, AcceptKeepsStructure, AppendFirstKeepsStructure, AppendWalkKeepsStructure,
       CleanupKeepsStructure, RemoveFirstKeepsStructure, RemoveWalkKeepsStructure
    DEF Listener
  <2> QED
    BY <1>1, <2>1, TypeListener, ListenerKeepsWalk DEF IInv, StructureInv
<1>2. ASSUME IInv, NEW p \in Pools, ServiceThread(p) PROVE IInv'
  <2>1. TypeOK'
    BY <1>2, TypeService
  <2> QED
    BY <1>2, <2>1, ServiceKeepsStructure, ServiceKeepsWalk DEF IInv, StructureInv
<1>3. ASSUME IInv, UNCHANGED clVars PROVE IInv'
  BY <1>3, SMTT(40) DEF clVars, IInv, TypeOK, Lifecycle, AppendInv, ChainInv, GhostInv, CursorInv, WalkInv,
              Linked, Pending
<1> QED
  BY <1>1, <1>2, <1>3 DEF Next

LEMMA IInvHolds == Spec => []IInv
  BY InitIInv, NextKeepsIInv, PTL DEF Spec

\* Every variable keeps its kind: no pointer of the list code ever holds anything but
\* Nil or an allocated slot (client.c, main.c), for any number of clients and threads.
THEOREM TypeCorrect == Spec => []TypeOK
<1>1. IInv => TypeOK
  BY DEF IInv
<1> QED
  BY IInvHolds, <1>1, PTL

\* The walks of service_clients (main.c), which take no lock, meet every client that
\* stays alive, however many clients the listening thread unlinks under them.
THEOREM WalksAreComplete == Spec => []WalkMissesNoLiveClient
<1>1. IInv => WalkMissesNoLiveClient
  BY DEF IInv, WalkInv, WalkMissesNoLiveClient
<1> QED
  BY IInvHolds, <1>1, PTL

\* del_client_struct (client.c) never writes through an uninitialized prevptr, and what
\* it writes to is the client before the one it unlinks.
THEOREM PrevptrIsSafe == Spec => []PrevptrIsPredecessor
<1>1. IInv => PrevptrIsPredecessor
  <2> SUFFICES ASSUME IInv, lpc = "removeWalk", lwalk = lptr
               PROVE  lprev # Nil /\ next_client[lprev] = lptr
    BY DEF PrevptrIsPredecessor
  <2>1. lprev \in Linked /\ next_client[lprev] = lptr
    BY DEF IInv, CursorInv
  <2> QED
    BY <2>1, LinkedFacts, Cursors
<1> QED
  BY IInvHolds, <1>1, PTL

\* A set of clients that is not empty has a newest member.
LEMMA Newest ==
    ASSUME NEW T \in SUBSET Clients, T # {}
    PROVE  \E n \in T : \A m \in T : m <= n
<1> DEFINE Age == {MaxClients - n : n \in T}
<1>1. Age \subseteq Nat /\ Age # {}
  BY ConstantsAssumption DEF Clients
<1>2. PICK a \in Age : \A b \in Age : <<b, a>> \notin OpToRel(<, Nat)
  <2> HIDE DEF Age
  <2> QED
    BY <1>1, NatLessThanWellFounded, WFMin
<1>3. \A b \in Age : ~(b < a)
  BY <1>1, <1>2 DEF OpToRel
<1>4. PICK n \in T : a = MaxClients - n
  OBVIOUS
<1>5. \A m \in T : m <= n
  BY <1>3, <1>4, ConstantsAssumption DEF Clients
<1> QED
  BY <1>5

\* Neither appending (add_new_client_struct) nor unlinking (del_client_struct) ever cuts
\* a live client off the list that starts at clienthead.
THEOREM NoLiveClientIsLost == Spec => []LiveClientsReachable
<1>1. IInv => LiveClientsReachable
  <2> SUFFICES ASSUME IInv, NEW c \in Clients, active[c], c <= allocated, ~Pending(c),
                      NEW S \in SUBSET Clients, HoldsChain(S)
               PROVE  c \in S
    BY DEF LiveClientsReachable, Reachable
  <2> DEFINE T == {n \in Linked : n \in S /\ n <= c}
  <2>1. c \in Linked
    BY LinkedFacts
  <2>2. clienthead \in T
    BY <2>1 DEF IInv, ChainInv, HoldsChain
  <2>3. PICK n \in T : \A m \in T : m <= n
    <3>1. T \in SUBSET Clients /\ T # {}
      BY <2>2, LinkedFacts
    <3> QED
      BY <3>1, Newest
  <2>4. CASE n = c
    BY <2>3, <2>4
  <2>5. CASE n # c
    <3>1. n \in Linked /\ n \in S /\ n < c
      BY <2>1, <2>3, <2>5, LinkedFacts, Cursors
    <3>2. /\ next_client[n] # Nil /\ next_client[n] <= c
          /\ next_client[n] \in Linked /\ next_client[n] > n
      BY <2>1, <3>1, LinkedFacts, Cursors DEF IInv, ChainInv
    <3>3. next_client[n] \in S
      BY <3>1, <3>2 DEF HoldsChain
    <3>4. next_client[n] \in T
      BY <3>2, <3>3
    <3> QED
      BY <2>3, <3>1, <3>2, <3>4, LinkedFacts, Cursors
  <2> QED
    BY <2>4, <2>5
<1> QED
  BY IInvHolds, <1>1, PTL
=============================================================================
