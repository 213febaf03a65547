------------------------------- MODULE Roster -------------------------------
(***************************************************************************)
(* What the list of clients promises to those who use it, without links:   *)
(* who is on it, and that nobody who stays is missed.  ClientList          *)
(* implements it.                                                          *)
(*                                                                         *)
(* A client joins once and leaves once.  A walk is through all members or  *)
(* a search for one of them; it may come by anybody, in any order, but it  *)
(* cannot end while a client that was a member when it began, and still is *)
(* one, has not been met.                                                  *)
(***************************************************************************)
CONSTANTS Clients,  \* those who may ever join
          Pools     \* those who walk

VARIABLES members,  \* the clients on the list
          former,   \* those who have left it
          walk,     \* each walker: not walking, meeting all, or looking for one
          due       \*   and the clients it still has to meet

rosterVars == <<members, former, walk, due>>

Init ==
    /\ members = {} /\ former = {}
    /\ walk = [p \in Pools |-> "none"]
    /\ due = [p \in Pools |-> {}]

Join(c) ==
    /\ c \notin members \cup former
    /\ members' = members \cup {c}
    /\ UNCHANGED <<former, walk, due>>

\* A walker, and nobody else, makes a client leave: the one it has met.
Leave(c) ==
    /\ c \in members
    /\ \E p \in Pools : walk[p] = "all"
    /\ members' = members \ {c} /\ former' = former \cup {c}
    /\ UNCHANGED <<walk, due>>

BeginWalk(p) ==
    /\ walk[p] = "none"
    /\ walk' = [walk EXCEPT ![p] = "all"]
    /\ due' = [due EXCEPT ![p] = members]
    /\ UNCHANGED <<members, former>>

BeginSearch(p, c) ==
    /\ walk[p] = "none"
    /\ walk' = [walk EXCEPT ![p] = "one"]
    /\ due' = [due EXCEPT ![p] = {c} \cap members]
    /\ UNCHANGED <<members, former>>

Meet(p, c) ==
    /\ walk[p] = "all" /\ c \in due[p]
    /\ due' = [due EXCEPT ![p] = @ \ {c}]
    /\ UNCHANGED <<members, former, walk>>

\* The end of the list, at which nobody is missing.
EndWalk(p) ==
    /\ walk[p] # "none"
    /\ due[p] \cap members = {}
    /\ walk' = [walk EXCEPT ![p] = "none"]
    /\ due' = [due EXCEPT ![p] = {}]
    /\ UNCHANGED <<members, former>>

\* A search that has found somebody, who may have to leave.
EndSearch(p, gone) ==
    /\ walk[p] = "one"
    /\ members' = members \ gone /\ former' = former \cup (gone \cap members)
    /\ walk' = [walk EXCEPT ![p] = "none"]
    /\ due' = [due EXCEPT ![p] = {}]

Next ==
    \/ \E c \in Clients : Join(c) \/ Leave(c)
    \/ \E p \in Pools :
           \/ BeginWalk(p) \/ EndWalk(p) \/ EndSearch(p, {})
           \/ \E c \in Clients : BeginSearch(p, c) \/ Meet(p, c) \/ EndSearch(p, {c})

Spec == Init /\ [][Next]_rosterVars
=============================================================================
