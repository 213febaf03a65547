---------------------------- MODULE RosterProofs ----------------------------
(***************************************************************************)
(* ClientList implements Roster, for every number of connections and of    *)
(* service threads: each step of a thread is a step of Roster, or none.    *)
(***************************************************************************)
EXTENDS ClientListProofs

\* The roster as ClientList has it.
Former == {c \in Clients : c <= allocated /\ ~Pending(c) /\ ~active[c]}
Walks  == [p \in Pools |-> Walk(p)]
Due    == [p \in Pools |-> IF Walk(p) = "none" THEN {} ELSE owed[p]]

\* A client that other threads may know of.
Visible(c) == c <= allocated /\ ~Pending(c)

\* No pointer leads to a client before it has been appended, so that nobody can have
\* made it inactive by then.
VisibleInv ==
    /\ \A n \in Clients : next_client[n] # Nil => Visible(next_client[n])
    /\ \A p \in Pools : sptr[p] # Nil => Visible(sptr[p])
    /\ lpc \in {"append", "appendWalk"} => active[allocated]

LEMMA InitVisible == Init => VisibleInv
  BY DEF Init, VisibleInv

LEMMA ListenerKeepsVisible ==
    ASSUME IInv, VisibleInv, Listener
    PROVE  VisibleInv'
<1> USE LinkedFacts, Cursors DEF VisibleInv, Visible, Pending
<1>1. CASE \E p \in Pools : Accept(p)
  <2>1. allocated + 1 \in Clients /\ lpc = "accept" /\ lpc' = "append" /\ allocated' = allocated + 1
    BY <1>1, ConstantsAssumption DEF Accept, Clients
  <2>2. UNCHANGED <<next_client, sptr>> /\ active'[allocated'] = TRUE
    BY <1>1, <2>1 DEF Accept, sVars
  <2> QED
    BY <2>1, <2>2
<1>2. CASE AppendFirst
  BY <1>2 DEF AppendFirst, sVars
<1>3. CASE AppendWalk
  BY <1>3 DEF AppendWalk, sVars
<1>4. CASE PollReports \/ AcceptFails \/ PollTimeout \/ CleanupEnd \/ CleanupTest \/ DeleteClient
  BY <1>4 DEF PollReports, AcceptFails, PollTimeout, CleanupEnd, CleanupTest, DeleteClient, listVars, sVars
<1>5. CASE RemoveFirst
  BY <1>5 DEF RemoveFirst, sVars
<1>6. CASE RemoveWalk
  <2>1. UNCHANGED <<allocated, sptr>> /\ lpc = "removeWalk" /\ lpc' \in {"removeWalk", "cleanup"}
    BY <1>6 DEF RemoveWalk, sVars
  <2>2. \A n \in Clients : next_client'[n] # Nil => Visible(next_client'[n])
    BY <1>6 DEF RemoveWalk
  <2> QED
    BY <2>1, <2>2
<1> QED
  BY <1>1, <1>2, <1>3, <1>4, <1>5, <1>6 DEF Listener

LEMMA ServiceKeepsVisible ==
    ASSUME IInv, VisibleInv, NEW p \in Pools, ServiceThread(p)
    PROVE  VisibleInv'
<1>1. /\ UNCHANGED <<next_client, allocated, lpc, clienthead>>
      /\ \A q \in Pools : q # p => sptr'[q] = sptr[q]
      /\ sptr'[p] \in {sptr[p], clienthead} \/ (sptr[p] \in Clients /\ sptr'[p] = next_client[sptr[p]])
      /\ \A c \in Clients : c # sptr[p] => active'[c] = active[c]
  <2> USE LinkedFacts DEF listVars, lVars, Goto
  <2>1. CASE ListAndRefuse(p) \/ Finish(p)
    BY <2>1 DEF ListAndRefuse, Finish
  <2>2. CASE Skip(p) \/ List(p) \/ AfterEnd(p)
    BY <2>2 DEF Skip, List, AfterEnd, Advance, IInv, WalkInv
  <2>3. ASSUME NEW dead \in BOOLEAN, FindMatch(p, dead)
        PROVE  <1>1!1 /\ <1>1!2 /\ <1>1!3 /\ <1>1!4
    BY <2>3 DEF FindMatch
  <2>4. CASE PassStart(p) \/ PassFirst(p) \/ PassBuilt(p) \/ PassSleep(p) \/ PassTimeout(p)
    BY <2>4 DEF PassStart, PassFirst, PassBuilt, PassSleep, PassTimeout
  <2>5. CASE PassPolled(p) \/ FindNext(p) \/ FindNone(p)
    BY <2>5 DEF PassPolled, FindNext, FindNone
  <2> QED
    BY <2>1, <2>2, <2>3, <2>4, <2>5 DEF ServiceThread
<1>2. clienthead # Nil => Visible(clienthead)
  BY LinkedFacts DEF IInv, ChainInv, Visible
<1>3. \A q \in Pools : sptr'[q] # Nil => Visible(sptr'[q])
  BY <1>1, <1>2 DEF VisibleInv
<1>4. lpc \in {"append", "appendWalk"} => active'[allocated]
  BY <1>1, Cursors DEF VisibleInv, Visible, Pending
<1> QED
  BY <1>1, <1>3, <1>4 DEF VisibleInv, Visible, Pending

LEMMA NextKeepsVisible == IInv /\ VisibleInv /\ [Next]_clVars => VisibleInv'
  BY ListenerKeepsVisible, ServiceKeepsVisible DEF Next, clVars, VisibleInv, Visible, Pending

-----------------------------------------------------------------------------
(* Each step maps to a step of Roster. *)

LEMMA InitImplements == Init => R!Init
<1> SUFFICES ASSUME Init PROVE R!Init
  OBVIOUS
<1>1. Live = {} /\ {c \in Clients : c <= allocated /\ ~Pending(c) /\ ~active[c]} = {}
  BY ConstantsAssumption DEF Init, Live, Linked, Clients
<1>2. \A p \in Pools : Walk(p) = "none"
  BY DEF Init, Walk
<1> QED
  BY <1>1, <1>2 DEF R!Init

\* The members, seen from the flags.
LEMMA Rolls ==
    ASSUME IInv
    PROVE  Live = {c \in Clients : Visible(c) /\ active[c]}
  BY LinkedFacts DEF Live, Visible

LEMMA RollsAfter ==
    ASSUME IInv'
    PROVE  Live' = {c \in Clients : Visible(c)' /\ active'[c]}
  BY DEF IInv, Lifecycle, Live, Linked, Visible

\* A step that neither lets anybody in nor changes a flag.
LEMMA SameRolls ==
    ASSUME IInv, IInv', \A c \in Clients : Visible(c)' <=> Visible(c),
           \A c \in Clients : Visible(c) => active'[c] = active[c]
    PROVE  Live' = Live /\ Former' = Former
  BY Rolls, RollsAfter DEF Former, Visible

\* The listening thread lets a client in when it has linked it, and nothing else that it
\* does is seen.
LEMMA ListenerImplements ==
    ASSUME IInv, IInv', VisibleInv, Listener
    PROVE  [R!Next]_(R!rosterVars)
<1>1. UNCHANGED <<Walks, Due>>
  BY ListenerSeenByWalk DEF Walks, Due, Walk, sVars
<1>2. ASSUME \A c \in Clients : Visible(c)' <=> Visible(c),
             \A c \in Clients : Visible(c) => active'[c] = active[c]
      PROVE  UNCHANGED R!rosterVars
  BY <1>1, <1>2, SameRolls DEF R!rosterVars, Former, Walks, Due
<1>3. ASSUME lpc \in {"append", "appendWalk"}, lpc' = "poll", UNCHANGED <<active, allocated>>
      PROVE  R!Next
  <2>1. allocated \in Clients /\ ~Visible(allocated) /\ Visible(allocated)' /\ active[allocated]
    BY <1>3, Cursors DEF Visible, Pending, VisibleInv
  <2>2. \A c \in Clients : c # allocated => (Visible(c)' <=> Visible(c))
    BY <1>3 DEF Visible, Pending
  <2>3. Live' = Live \cup {allocated} /\ Former' = Former /\ allocated \notin Live \cup Former
    BY <1>3, <2>1, <2>2, Rolls, RollsAfter DEF Former, Visible
  <2>4. R!Join(allocated)
    BY <1>1, <2>3 DEF R!Join, Former, Walks, Due
  <2> QED
    BY <2>1, <2>4 DEF R!Next
<1>4. CASE \E p \in Pools : Accept(p)
  <2>0. PICK p \in Pools : Accept(p)
    BY <1>4
  <2>1. \A c \in Clients : Visible(c)' <=> Visible(c)
    BY <2>0, LinkedFacts, Cursors DEF Accept, Visible, Pending
  <2>2. active' = [active EXCEPT ![allocated + 1] = TRUE]
    BY <2>0 DEF Accept
  <2>3. \A c \in Clients : Visible(c) => active'[c] = active[c]
    <3> SUFFICES ASSUME NEW c \in Clients, Visible(c) PROVE c # allocated + 1
      BY <2>2, LinkedFacts
    <3> QED
      BY LinkedFacts, Cursors DEF Visible
  <2> QED
    BY <1>2, <2>1, <2>3
<1>5. CASE AppendFirst
  <2>1. CASE clienthead = Nil
    BY <1>3, <1>5, <2>1 DEF AppendFirst
  <2>2. CASE clienthead # Nil
    BY <1>2, <1>5, <2>2 DEF AppendFirst, Visible, Pending
  <2> QED
    BY <2>1, <2>2
<1>6. CASE AppendWalk
  <2>1. CASE next_client[lwalk] = Nil
    BY <1>3, <1>6, <2>1 DEF AppendWalk
  <2>2. CASE next_client[lwalk] # Nil
    BY <1>2, <1>6, <2>2 DEF AppendWalk, Visible, Pending
  <2> QED
    BY <2>1, <2>2
<1>7. CASE DeleteClient
  <2>1. lptr \in Clients /\ active[lptr] = FALSE
    BY <1>7, LinkedFacts DEF DeleteClient, IInv, CursorInv
  <2>2. active' = active
    BY <1>7, <2>1, LinkedFacts DEF DeleteClient
  <2> QED
    BY <1>2, <1>7, <2>2 DEF DeleteClient, Visible, Pending
<1>8. CASE PollReports \/ AcceptFails \/ PollTimeout \/ CleanupEnd \/ CleanupTest
  BY <1>2, <1>8 DEF PollReports, AcceptFails, PollTimeout, CleanupEnd, CleanupTest, listVars, Visible, Pending
<1>9. CASE RemoveFirst \/ RemoveWalk
  <2>1. UNCHANGED <<active, allocated>> /\ lpc \in {"remove", "removeWalk"}
        /\ lpc' \in {"cleanup", "removeWalk"}
    BY <1>9 DEF RemoveFirst, RemoveWalk
  <2> QED
    BY <1>2, <2>1 DEF Visible, Pending
<1> QED
  BY <1>4, <1>5, <1>6, <1>7, <1>8, <1>9 DEF Listener

\* A client leaves at a service thread's hands, in its walk or at the end of its search.
LEMMA Departure ==
    ASSUME IInv, IInv', VisibleInv, UNCHANGED <<allocated, lpc>>, NEW n \in Clients, Visible(n),
           active' = [active EXCEPT ![n] = FALSE]
    PROVE  Live' = Live \ {n} /\ Former' = Former \cup ({n} \cap Live)
<1>1. \A c \in Clients : Visible(c)' <=> Visible(c)
  BY DEF Visible, Pending
<1>2. \A c \in Clients : active'[c] <=> active[c] /\ c # n
  BY LinkedFacts
<1> QED
  BY <1>1, <1>2, Rolls, RollsAfter DEF Former, Visible

LEMMA ServiceImplements ==
    ASSUME IInv, IInv', VisibleInv, NEW p \in Pools, ServiceThread(p)
    PROVE  [R!Next]_(R!rosterVars)
<1> USE DEF listVars, lVars, Goto
<1>0. /\ spc \in [Pools -> {"idle", "first", "build", "ended", "branch", "find"}]
      /\ owed \in [Pools -> SUBSET Clients] /\ clientfds \in [Pools -> Seq(Clients)]
      /\ sptr[p] # Nil => sptr[p] \in Clients /\ Visible(sptr[p])
  BY LinkedFacts DEF IInv, TypeOK, VisibleInv
<1>1. ASSUME UNCHANGED <<allocated, lpc, active>>
      PROVE  Live' = Live /\ Former' = Former
  BY <1>1, SameRolls DEF Visible, Pending
<1>2. CASE PassStart(p) \/ PassSleep(p) \/ PassTimeout(p)
  <2>1. Walks' = Walks /\ Due' = Due
    BY <1>0, <1>2 DEF PassStart, PassSleep, PassTimeout, Walks, Due, Walk
  <2> QED
    BY <1>1, <1>2, <2>1 DEF PassStart, PassSleep, PassTimeout, R!rosterVars, Former, Walks, Due
<1>3. CASE PassFirst(p)
  <2>1. /\ Walks[p] = "none"
        /\ Walks' = [Walks EXCEPT ![p] = "all"] /\ Due' = [Due EXCEPT ![p] = Live]
    BY <1>0, <1>3 DEF PassFirst, Walks, Due, Walk
  <2>2. R!BeginWalk(p)
    BY <1>1, <1>3, <2>1 DEF PassFirst, R!BeginWalk, Former, Walks, Due
  <2> QED
    BY <2>2 DEF R!Next
<1>4. CASE Skip(p) \/ List(p) \/ AfterEnd(p)
  <2>1. /\ spc[p] \in {"build", "ended"} /\ sptr[p] \in Clients
        /\ spc' = [spc EXCEPT ![p] = "build"]
        /\ owed' = [owed EXCEPT ![p] = @ \ {sptr[p]}]
        /\ UNCHANGED <<allocated, lpc, active>>
    BY <1>0, <1>4 DEF Skip, List, AfterEnd, Advance, IInv, WalkInv
  <2>2. /\ Walks' = Walks /\ Walks[p] = "all"
        /\ Due[p] = owed[p] /\ Due' = [Due EXCEPT ![p] = @ \ {sptr[p]}]
    BY <1>0, <2>1 DEF Walks, Due, Walk
  <2>3. CASE sptr[p] \in owed[p]
    <3>1. PICK c \in Clients : c = sptr[p]
      BY <2>1
    <3>2. R!Meet(p, c)
      BY <1>1, <2>1, <2>2, <2>3, <3>1 DEF R!Meet, Former, Walks, Due
    <3> QED
      BY <3>2 DEF R!Next
  <2>4. CASE sptr[p] \notin owed[p]
    <3>0. Due[p] \ {sptr[p]} = Due[p]
      BY <2>2, <2>4
    <3>1. Due' = Due
      BY <2>2, <3>0 DEF Due
    <3> QED
      BY <1>1, <2>1, <2>2, <3>1 DEF R!rosterVars, Former, Walks, Due
  <2> QED
    BY <2>3, <2>4
<1>5. CASE ListAndRefuse(p) \/ Finish(p)
  <2>1. /\ spc[p] = "build" /\ sptr[p] \in Clients /\ active[sptr[p]]
        /\ spc' = [spc EXCEPT ![p] = "ended"]
        /\ active' = [active EXCEPT ![sptr[p]] = FALSE]
        /\ UNCHANGED <<allocated, lpc, owed>>
    BY <1>0, <1>5 DEF ListAndRefuse, Finish, Nil
  <2>2. Walks' = Walks /\ Walks[p] = "all" /\ Due' = Due
    BY <1>0, <2>1 DEF Walks, Due, Walk
  <2>3. PICK c \in Clients : c = sptr[p]
    BY <2>1
  <2>4. active[c] /\ active' = [active EXCEPT ![c] = FALSE] /\ Visible(c)
    <3>1. Visible(c)
      BY <2>3, Cursors DEF VisibleInv
    <3> QED
      BY <2>1, <2>3, <3>1
  <2>5. c \in Live
    BY <2>4, Rolls
  <2>6. Live' = Live \ {c} /\ Former' = Former \cup {c}
    BY <2>1, <2>4, <2>5, Departure, ZenonT(60)
  <2>7. R!Leave(c)
    BY <2>2, <2>5, <2>6 DEF R!Leave, Former, Walks, Due
  <2> QED
    BY <2>7 DEF R!Next
<1>6. CASE PassBuilt(p) \/ FindNone(p)
  <2>1. /\ spc[p] \in {"build", "find"} /\ sptr[p] = Nil
        /\ spc' \in {[spc EXCEPT ![p] = "branch"], [spc EXCEPT ![p] = "idle"]}
        /\ UNCHANGED <<allocated, lpc, active, owed>>
    BY <1>6 DEF PassBuilt, FindNone
  <2>2. /\ Walks' = [Walks EXCEPT ![p] = "none"] /\ Walks[p] # "none"
        /\ Due[p] = owed[p] /\ Due' = [Due EXCEPT ![p] = {}]
    BY <1>0, <2>1 DEF Walks, Due, Walk
  <2>3. owed[p] \cap Live = {}
    BY <2>1 DEF IInv, WalkInv, Live
  <2>4. R!EndWalk(p)
    BY <1>1, <2>1, <2>2, <2>3 DEF R!EndWalk, Former, Walks, Due
  <2> QED
    BY <2>4 DEF R!Next
<1>7. CASE PassPolled(p)
  <2>1. PICK c \in Clients : c = clientfds[p][1]
    BY <1>0, <1>7 DEF PassPolled
  <2>2. /\ Walks[p] = "none" /\ Walks' = [Walks EXCEPT ![p] = "one"]
        /\ Due' = [Due EXCEPT ![p] = {c} \cap Live]
    BY <1>0, <1>7, <2>1 DEF PassPolled, Walks, Due, Walk
  <2>3. R!BeginSearch(p, c)
    BY <1>1, <1>7, <2>2 DEF PassPolled, R!BeginSearch, Former, Walks, Due
  <2> QED
    BY <2>3 DEF R!Next
<1>8. CASE FindNext(p)
  BY <1>1, <1>8 DEF FindNext, R!rosterVars, Former, Walks, Due, Walk
<1>9. ASSUME NEW dead \in BOOLEAN, FindMatch(p, dead) PROVE R!Next
  <2>1. /\ spc[p] = "find" /\ sptr[p] \in Clients /\ Visible(sptr[p])
        /\ spc' = [spc EXCEPT ![p] = "idle"] /\ owed' = [owed EXCEPT ![p] = {}]
        /\ UNCHANGED <<allocated, lpc>>
    BY <1>0, <1>9 DEF FindMatch
  <2>2. /\ Walks[p] = "one" /\ Walks' = [Walks EXCEPT ![p] = "none"]
        /\ Due' = [Due EXCEPT ![p] = {}]
    BY <1>0, <2>1 DEF Walks, Due, Walk
  <2>3. CASE dead
    <3>1. PICK c \in Clients : c = sptr[p]
      BY <2>1
    <3>2. active' = [active EXCEPT ![c] = FALSE] /\ Visible(c)
      BY <1>9, <2>1, <2>3, <3>1 DEF FindMatch
    <3>3. Live' = Live \ {c} /\ Former' = Former \cup ({c} \cap Live)
      BY <2>1, <3>2, Departure
    <3>4. R!EndSearch(p, {c})
      BY <2>2, <3>3 DEF R!EndSearch, Former, Walks, Due
    <3> QED
      BY <3>4 DEF R!Next
  <2>4. CASE ~dead
    <3>1. active' = active
      BY <1>9, <2>4 DEF FindMatch
    <3>2. R!EndSearch(p, {})
      BY <1>1, <2>1, <2>2, <3>1 DEF R!EndSearch, Former, Walks, Due
    <3> QED
      BY <3>2 DEF R!Next
  <2> QED
    BY <2>3, <2>4
<1> QED
  BY <1>2, <1>3, <1>4, <1>5, <1>6, <1>7, <1>8, <1>9 DEF ServiceThread

\* What the threads of client.c and main.c do to the linked list is, seen from outside, what
\* Roster allows: nobody joins or leaves twice, and no walk ends before it has met everybody
\* who stayed.
THEOREM ListImplementsRoster == Spec => ImplementsRoster
<1>1. IInv /\ IInv' /\ VisibleInv /\ [Next]_clVars => [R!Next]_(R!rosterVars)
  <2>1. ASSUME IInv, UNCHANGED clVars PROVE UNCHANGED R!rosterVars
    BY <2>1 DEF clVars, R!rosterVars, Live, Linked, Pending, Walk
  <2> QED
    BY <2>1, ListenerImplements, ServiceImplements DEF Next
<1> QED
  BY <1>1, IInvHolds, InitImplements, InitVisible, NextKeepsVisible, PTL
  DEF Spec, ImplementsRoster, R!Spec
=============================================================================
