---------------------------- MODULE StartupProofs ----------------------------
(***************************************************************************)
(* What is in effect when the first thread runs, for every server.cfg of   *)
(* any length and every number of service threads.                         *)
(***************************************************************************)
EXTENDS Startup, TLAPS

\* The servers of the list.
Servers == [file : PortFiles, bound : BOOLEAN]

Ended == pc \in {"exited", "crashed"}

\* The lists and ids are what the settings say, unless the program is about to end.
LoadedInv ==
    /\ ~Ended => /\ Len(serverhead) = Len(given.PORT)
                 /\ vhost_head = given.VHOST
                 /\ \A k \in 1..Len(vhost_head) : vhost_head[k] = "good"
    /\ LastKnown(given.UID) => servicesetuid = Service
    /\ LastKnown(given.GID) => servicesetgid = Service

\* The ports before index are bound; past the binding, all of them.
BoundInv ==
    /\ pc = "config" => index = 1
    /\ pc = "bind" => index >= 1
    /\ pc = "bind" => \A k \in 1..Len(serverhead) : k < index => serverhead[k].bound
    /\ pc \in {"setgid", "setuid", "listen", "serve", "run"} =>
          \A k \in 1..Len(serverhead) : serverhead[k].bound

\* The process has the ids it started with until each is set.
IdInv ==
    /\ pc \in {"config", "bind"} => uid = gid
    /\ pc = "setuid" => gid = servicesetgid
    /\ pc \in {"listen", "serve", "run"} =>
          \/ uid = Service /\ gid = Service
          \/ uid = servicesetuid /\ gid = servicesetgid

ThreadInv == ThreadsRun => pc \in {"serve", "run"}

IInv == TypeOK /\ LoadedInv /\ BoundInv /\ IdInv /\ ThreadInv

-----------------------------------------------------------------------------
LEMMA InitInv == Init => IInv
<1> SUFFICES ASSUME Init PROVE IInv
  OBVIOUS
<1>1. TypeOK
  <2>1. given \in [PORT : Seq(PortFiles), VHOST : Seq(VhostFiles), UID : Seq(Names), GID : Seq(Names)]
    BY DEF Init
  <2>2. /\ serverhead \in Seq([file : PortFiles, bound : BOOLEAN])
        /\ vhost_head \in Seq(VhostFiles)
    BY DEF Init
  <2>3. {servicesetuid, servicesetgid, uid, gid} \subseteq {Root, Service}
    BY DEF Init
  <2> QED BY <2>1, <2>2, <2>3 DEF Init, TypeOK
<1>2. LoadedInv
  BY DEF Init, LoadedInv, LastKnown, Ended
<1>3. BoundInv /\ IdInv /\ ThreadInv
  BY DEF Init, BoundInv, IdInv, ThreadInv, ThreadsRun
<1> QED BY <1>1, <1>2, <1>3 DEF IInv

\* The newest of the values of a variable is the last of them.
LEMMA LastOfAppend ==
    ASSUME NEW S, NEW s \in Seq(S), NEW e \in S
    PROVE  /\ Append(s, e) \in Seq(S)
           /\ Len(Append(s, e)) = Len(s) + 1
           /\ Append(s, e) # <<>>
           /\ \A k \in 1..Len(s) : Append(s, e)[k] = s[k]
           /\ Append(s, e)[Len(s) + 1] = e
OBVIOUS

LEMMA AddServerPortInv ==
    ASSUME NEW file \in PortFiles
    PROVE  IInv /\ AddServerPort(file) => IInv'
<1> SUFFICES ASSUME IInv, AddServerPort(file) PROVE IInv'
  OBVIOUS
<1>1. given.PORT \in Seq(PortFiles)
  BY DEF IInv, TypeOK
<1>2. /\ given' = [given EXCEPT !.PORT = Append(given.PORT, file)]
      /\ Append(given.PORT, file) \in Seq(PortFiles)
      /\ Len(Append(given.PORT, file)) = Len(given.PORT) + 1
  <2>1. given' = [given EXCEPT !.PORT = Append(given.PORT, file)]
    BY DEF AddServerPort, ReadSetting
  <2>2. /\ Append(given.PORT, file) \in Seq(PortFiles)
        /\ Len(Append(given.PORT, file)) = Len(given.PORT) + 1
    BY <1>1, LastOfAppend
  <2> QED BY <2>1, <2>2
<1>3. /\ given'.PORT = Append(given.PORT, file)
      /\ given'.VHOST = given.VHOST
      /\ given'.UID = given.UID
      /\ given'.GID = given.GID
      /\ given' \in [PORT : Seq(PortFiles), VHOST : Seq(VhostFiles), UID : Seq(Names), GID : Seq(Names)]
  BY <1>2 DEF IInv, TypeOK
<1>4. PICK server \in [file : PortFiles, bound : BOOLEAN] : server = [file |-> file, bound |-> FALSE]
  OBVIOUS
<1>5. /\ Append(serverhead, server) \in Seq([file : PortFiles, bound : BOOLEAN])
      /\ Len(Append(serverhead, server)) = Len(serverhead) + 1
  BY <1>4, LastOfAppend DEF IInv, TypeOK
<1>6. \/ pc' = "exited" /\ serverhead' = serverhead
      \/ pc' = pc /\ serverhead' = Append(serverhead, server)
  BY <1>4 DEF AddServerPort
<1>7. TypeOK'
  BY <1>3, <1>5, <1>6 DEF IInv, TypeOK, AddServerPort, ReadSetting
<1>8. LoadedInv'
  BY <1>2, <1>3, <1>5, <1>6 DEF IInv, LoadedInv, LastKnown, Ended, AddServerPort, ReadSetting
<1>9. BoundInv' /\ IdInv' /\ ThreadInv'
  BY <1>6 DEF IInv, BoundInv, IdInv, ThreadInv, ThreadsRun, AddServerPort, ReadSetting
<1> QED BY <1>7, <1>8, <1>9 DEF IInv

LEMMA AddVhostInv ==
    ASSUME NEW file \in VhostFiles
    PROVE  IInv /\ AddVhost(file) => IInv'
<1> SUFFICES ASSUME IInv, AddVhost(file) PROVE IInv'
  OBVIOUS
<1>1. given.VHOST \in Seq(VhostFiles) /\ vhost_head \in Seq(VhostFiles)
  BY DEF IInv, TypeOK
<1>2. /\ given' = [given EXCEPT !.VHOST = Append(given.VHOST, file)]
      /\ vhost_head' = Append(vhost_head, file)
      /\ Append(given.VHOST, file) \in Seq(VhostFiles)
      /\ vhost_head' \in Seq(VhostFiles)
      /\ Len(vhost_head') = Len(vhost_head) + 1
      /\ \A k \in 1..Len(vhost_head) : vhost_head'[k] = vhost_head[k]
      /\ vhost_head'[Len(vhost_head) + 1] = file
  BY <1>1, LastOfAppend, ZenonT(60) DEF AddVhost, ReadSetting
<1>3. /\ given'.VHOST = Append(given.VHOST, file)
      /\ given'.PORT = given.PORT
      /\ given'.UID = given.UID
      /\ given'.GID = given.GID
      /\ given' \in [PORT : Seq(PortFiles), VHOST : Seq(VhostFiles), UID : Seq(Names), GID : Seq(Names)]
  BY <1>2 DEF IInv, TypeOK
<1>4. \/ pc' = "exited"
      \/ pc' = pc /\ file = "good"
  BY DEF AddVhost
<1>5. TypeOK'
  BY <1>2, <1>3, <1>4 DEF IInv, TypeOK, AddVhost, ReadSetting
<1>6. LoadedInv'
  <2>1. ASSUME ~Ended' PROVE /\ Len(serverhead') = Len(given'.PORT)
                             /\ vhost_head' = given'.VHOST
                             /\ \A k \in 1..Len(vhost_head') : vhost_head'[k] = "good"
    <3>1. ~Ended /\ file = "good"
      BY <1>4, <2>1 DEF Ended
    <3>2. /\ Len(serverhead) = Len(given.PORT)
          /\ vhost_head = given.VHOST
          /\ \A k \in 1..Len(vhost_head) : vhost_head[k] = "good"
      BY <3>1 DEF IInv, LoadedInv
    <3>3. Len(serverhead') = Len(given'.PORT) /\ vhost_head' = given'.VHOST
      BY <1>2, <1>3, <3>2 DEF AddVhost
    <3>4. ASSUME NEW k \in 1..Len(vhost_head') PROVE vhost_head'[k] = "good"
      BY <1>1, <1>2, <3>1, <3>2
    <3> QED BY <3>3, <3>4
  <2> QED BY <1>3, <2>1 DEF IInv, LoadedInv, LastKnown, AddVhost
<1>7. BoundInv' /\ IdInv' /\ ThreadInv'
  BY <1>4 DEF IInv, BoundInv, IdInv, ThreadInv, ThreadsRun, AddVhost, ReadSetting
<1> QED BY <1>5, <1>6, <1>7 DEF IInv

LEMMA ConfigSetUidInv ==
    ASSUME NEW name \in Names
    PROVE  IInv /\ ConfigSetUid(name) => IInv'
<1> SUFFICES ASSUME IInv, ConfigSetUid(name) PROVE IInv'
  OBVIOUS
<1>1. given.UID \in Seq(Names)
  BY DEF IInv, TypeOK
<1>2. /\ given' = [given EXCEPT !.UID = Append(given.UID, name)]
      /\ Append(given.UID, name) \in Seq(Names)
      /\ Append(given.UID, name)[Len(Append(given.UID, name))] = name
  <2>1. given' = [given EXCEPT !.UID = Append(given.UID, name)]
    BY DEF ConfigSetUid, ReadSetting
  <2>2. /\ Append(given.UID, name) \in Seq(Names)
        /\ Append(given.UID, name)[Len(Append(given.UID, name))] = name
    BY <1>1, LastOfAppend
  <2> QED BY <2>1, <2>2
<1>3. /\ given'.UID = Append(given.UID, name)
      /\ given'.PORT = given.PORT
      /\ given'.VHOST = given.VHOST
      /\ given'.GID = given.GID
      /\ given' \in [PORT : Seq(PortFiles), VHOST : Seq(VhostFiles), UID : Seq(Names), GID : Seq(Names)]
  BY <1>2 DEF IInv, TypeOK
<1>4. TypeOK'
  BY <1>3 DEF IInv, TypeOK, ConfigSetUid, ReadSetting, Id, Root, Service
<1>5. LoadedInv'
  BY <1>2, <1>3 DEF IInv, LoadedInv, LastKnown, Ended, ConfigSetUid, Id
<1>6. BoundInv' /\ IdInv' /\ ThreadInv'
  BY DEF IInv, BoundInv, IdInv, ThreadInv, ThreadsRun, ConfigSetUid, ReadSetting
<1> QED BY <1>4, <1>5, <1>6 DEF IInv

LEMMA ConfigSetGidInv ==
    ASSUME NEW name \in Names
    PROVE  IInv /\ ConfigSetGid(name) => IInv'
<1> SUFFICES ASSUME IInv, ConfigSetGid(name) PROVE IInv'
  OBVIOUS
<1>1. given.GID \in Seq(Names)
  BY DEF IInv, TypeOK
<1>2. /\ given' = [given EXCEPT !.GID = Append(given.GID, name)]
      /\ Append(given.GID, name) \in Seq(Names)
      /\ Append(given.GID, name)[Len(Append(given.GID, name))] = name
  <2>1. given' = [given EXCEPT !.GID = Append(given.GID, name)]
    BY DEF ConfigSetGid, ReadSetting
  <2>2. /\ Append(given.GID, name) \in Seq(Names)
        /\ Append(given.GID, name)[Len(Append(given.GID, name))] = name
    BY <1>1, LastOfAppend
  <2> QED BY <2>1, <2>2
<1>3. /\ given'.GID = Append(given.GID, name)
      /\ given'.PORT = given.PORT
      /\ given'.VHOST = given.VHOST
      /\ given'.UID = given.UID
      /\ given' \in [PORT : Seq(PortFiles), VHOST : Seq(VhostFiles), UID : Seq(Names), GID : Seq(Names)]
  BY <1>2 DEF IInv, TypeOK
<1>4. TypeOK'
  BY <1>3 DEF IInv, TypeOK, ConfigSetGid, ReadSetting, Id, Root, Service
<1>5. LoadedInv'
  BY <1>2, <1>3 DEF IInv, LoadedInv, LastKnown, Ended, ConfigSetGid, Id
<1>6. BoundInv' /\ IdInv' /\ ThreadInv'
  BY DEF IInv, BoundInv, IdInv, ThreadInv, ThreadsRun, ConfigSetGid, ReadSetting
<1> QED BY <1>4, <1>5, <1>6 DEF IInv

\* One element of a sequence is exchanged.
LEMMA ExceptInSeq ==
    ASSUME NEW S, NEW s \in Seq(S), NEW n \in 1..Len(s), NEW e \in S
    PROVE  /\ s[n] \in S
           /\ [s EXCEPT ![n] = e] \in Seq(S)
           /\ Len([s EXCEPT ![n] = e]) = Len(s)
           /\ \A k \in 1..Len(s) : [s EXCEPT ![n] = e][k] = IF k = n THEN e ELSE s[k]
OBVIOUS

LEMMA BindServerInv == IInv /\ BindServer => IInv'
<1> SUFFICES ASSUME IInv, BindServer PROVE IInv'
  OBVIOUS
<1>1. /\ serverhead \in Seq(Servers)
      /\ index \in Nat
      /\ index <= Len(serverhead)
      /\ serverhead' = [serverhead EXCEPT ![index].bound = TRUE]
  BY DEF IInv, TypeOK, BindServer, Servers
<1>2. index \in 1..Len(serverhead)
  BY <1>1 DEF IInv, BoundInv, BindServer
<1>3. PICK server \in Servers :
         server = [serverhead[index] EXCEPT !.bound = TRUE]
  <2>1. \A r \in Servers :
           [r EXCEPT !.bound = TRUE] \in Servers
    BY DEF Servers
  <2>2. serverhead[index] \in Servers
    BY <1>1, <1>2, ExceptInSeq
  <2> QED BY <2>1, <2>2
<1>4. /\ server.bound = TRUE
      /\ serverhead' = [serverhead EXCEPT ![index] = server]
  BY <1>1, <1>3 DEF Servers
<1>5. /\ serverhead' \in Seq(Servers)
      /\ Len(serverhead') = Len(serverhead)
      /\ \A k \in 1..Len(serverhead) :
            serverhead'[k] = IF k = index THEN server ELSE serverhead[k]
  <2>1. /\ [serverhead EXCEPT ![index] = server] \in Seq(Servers)
        /\ Len([serverhead EXCEPT ![index] = server]) = Len(serverhead)
        /\ \A k \in 1..Len(serverhead) :
              [serverhead EXCEPT ![index] = server][k] = IF k = index THEN server ELSE serverhead[k]
    <3>1. serverhead \in Seq(Servers)
      BY <1>1
    <3> QED BY <1>2, <3>1, ExceptInSeq
  <2> QED BY <1>4, <2>1
<1>6. TypeOK'
  BY <1>5 DEF IInv, TypeOK, BindServer, Servers
<1>7. LoadedInv'
  BY <1>5 DEF IInv, LoadedInv, LastKnown, Ended, BindServer
<1>8. BoundInv'
  BY <1>1, <1>4, <1>5 DEF IInv, BoundInv, BindServer
<1>9. IdInv' /\ ThreadInv'
  BY DEF IInv, IdInv, ThreadInv, ThreadsRun, BindServer
<1> QED BY <1>6, <1>7, <1>8, <1>9 DEF IInv

\* The steps that leave the configuration as it was loaded.
LEMMA OtherStepsInv ==
    ASSUME IInv,
           \/ EndOfConfig \/ BindFails \/ BindCrashes \/ AllBound
           \/ \E ok \in BOOLEAN :
                 SetGid(ok) \/ SetUid(ok) \/ StartListening(ok) \/ StartService(ok)
           \/ Started
           \/ UNCHANGED startVars
    PROVE  IInv'
<1>1. CASE UNCHANGED startVars
  BY <1>1 DEF startVars, IInv, TypeOK, LoadedInv, LastKnown, Ended, BoundInv, IdInv, ThreadInv, ThreadsRun
<1>2. CASE EndOfConfig
  BY <1>2 DEF EndOfConfig, dataVars, IInv, TypeOK, LoadedInv, LastKnown, Ended, BoundInv, IdInv,
              ThreadInv, ThreadsRun
<1>3. CASE BindFails \/ BindCrashes
  BY <1>3, SMTT(60) DEF BindFails, BindCrashes, dataVars, IInv, TypeOK, LoadedInv, LastKnown, Ended, BoundInv,
              IdInv, ThreadInv, ThreadsRun
<1>4. CASE AllBound
  BY <1>4 DEF AllBound, dataVars, IInv, TypeOK, LoadedInv, LastKnown, Ended, BoundInv, IdInv,
              ThreadInv, ThreadsRun, Root, Service
<1>5. ASSUME NEW ok \in BOOLEAN, SetGid(ok) PROVE IInv'
  BY <1>5 DEF SetGid, dataVars, IInv, TypeOK, LoadedInv, LastKnown, Ended, BoundInv, IdInv,
              ThreadInv, ThreadsRun
<1>6. ASSUME NEW ok \in BOOLEAN, SetUid(ok) PROVE IInv'
  BY <1>6 DEF SetUid, dataVars, IInv, TypeOK, LoadedInv, LastKnown, Ended, BoundInv, IdInv,
              ThreadInv, ThreadsRun
<1>7. ASSUME NEW ok \in BOOLEAN, StartListening(ok) PROVE IInv'
  BY <1>7, StartupAssumption DEF StartListening, dataVars, IInv, TypeOK, LoadedInv, LastKnown, Ended,
              BoundInv, IdInv, ThreadInv, ThreadsRun
<1>8. ASSUME NEW ok \in BOOLEAN, StartService(ok) PROVE IInv'
  BY <1>8, StartupAssumption DEF StartService, dataVars, IInv, TypeOK, Pools, LoadedInv, LastKnown,
              Ended, BoundInv, IdInv, ThreadInv, ThreadsRun
<1>9. CASE Started
  BY <1>9 DEF Started, dataVars, IInv, TypeOK, LoadedInv, LastKnown, Ended, BoundInv, IdInv,
              ThreadInv, ThreadsRun
<1> QED BY <1>1, <1>2, <1>3, <1>4, <1>5, <1>6, <1>7, <1>8, <1>9

LEMMA StepInv == IInv /\ [Next]_startVars => IInv'
BY AddServerPortInv, AddVhostInv, ConfigSetUidInv, ConfigSetGidInv, BindServerInv, OtherStepsInv
   DEF Next

LEMMA Always == Spec => []IInv
BY InitInv, StepInv, PTL DEF Spec

-----------------------------------------------------------------------------
\* For every server.cfg, no thread runs before every port in it is bound.
THEOREM AllPortsAreServed == Spec => []ServesAllPorts
<1>1. IInv => ServesAllPorts
  BY DEF IInv, ThreadInv, LoadedInv, BoundInv, Ended, ServesAllPorts
<1> QED BY <1>1, Always, PTL

\* For every server.cfg whose last UID and GID exist, no thread runs as root.
THEOREM ThreadsAreUnprivileged == Spec => []PrivilegesDropped
<1>1. IInv => PrivilegesDropped
  BY DEF IInv, ThreadInv, LoadedInv, IdInv, PrivilegesDropped
<1> QED BY <1>1, Always, PTL

\* For every server.cfg, no thread serves a vhost that could not be loaded.
THEOREM NoBrokenVhostIsServed == Spec => []VhostsAreUsable
<1>1. IInv => VhostsAreUsable
  BY DEF IInv, ThreadInv, LoadedInv, Ended, VhostsAreUsable
<1> QED BY <1>1, Always, PTL

\* For every server.cfg, the lists, the ids and the set of threads are well formed.
THEOREM StartupTypes == Spec => []TypeOK
<1>1. IInv => TypeOK
  BY DEF IInv
<1> QED BY <1>1, Always, PTL
=============================================================================
