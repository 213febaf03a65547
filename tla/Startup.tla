------------------------------ MODULE Startup ------------------------------
(***************************************************************************)
(* main up to its idle loop (main.c 65-185, 723-838): the configuration is *)
(* loaded, the ports are bound, privileges dropped, the threads created.   *)
(*                                                                         *)
(* How the text of server.cfg becomes a sequence of callbacks is the       *)
(* subject of ConfigFile; here each setting is a step, chosen as it is     *)
(* read, and a port or vhost file is the one thing about it that decides   *)
(* what becomes of the server.                                             *)
(***************************************************************************)
EXTENDS Integers, Sequences

CONSTANTS MaxSettings,   \* bound: how many settings server.cfg has
          NUM_CPUS       \* number of service threads (common.h)

ASSUME StartupAssumption ==
    /\ MaxSettings \in Nat
    /\ NUM_CPUS \in Nat \ {0}

Pools == 0..(NUM_CPUS - 1)

\* A port file gives an IPv4 address, an IPv6 address, something else, or no address (or it
\* does not exist: the loader takes a missing file for an empty one), or has a line too long.
PortFiles == {"good", "ipv6", "noaddress", "badaddress", "toolong"}

\* In a vhost file both roots exist, one does not (or is not given), or a line is too long.
VhostFiles == {"good", "noroot", "nocgi", "toolong"}

Names == {"known", "unknown"}

Root    == 0   \* uid and gid of root
Service == 1   \* of a user or group that exists

VARIABLES
    pc,             \* where main is
    opened,         \* server.cfg could be opened
    given,          \* history: the values it gave each variable, in their order
    serverhead,     \* SERVICE_DATA.serverhead: a port file, and whether it is bound
    vhost_head,     \* SERVICE_DATA.vhost_head
    servicesetuid,  \* SERVICE_DATA.servicesetuid
    servicesetgid,  \* SERVICE_DATA.servicesetgid
    uid, gid,       \* of the process
    index,          \* the server to bind, or the thread to create, next
    listening,      \* the listening thread runs
    serving         \* the service threads that run

startVars == <<pc, opened, given, serverhead, vhost_head, servicesetuid, servicesetgid,
               uid, gid, index, listening, serving>>
dataVars  == <<opened, given, serverhead, vhost_head, servicesetuid, servicesetgid>>

Init ==
    /\ pc = "config" /\ opened \in BOOLEAN
    /\ given = [PORT |-> <<>>, VHOST |-> <<>>, UID |-> <<>>, GID |-> <<>>]
    /\ serverhead = <<>> /\ vhost_head = <<>>
    /\ servicesetuid = Root /\ servicesetgid = Root
    /\ uid \in {Root, Service} /\ gid = uid
    /\ index = 1 /\ listening = FALSE /\ serving = {}

-----------------------------------------------------------------------------
(* config_load_config and its callbacks. *)

SettingsRead == Len(given.PORT) + Len(given.VHOST) + Len(given.UID) + Len(given.GID)

ReadSetting(var, value) ==
    /\ pc = "config" /\ opened /\ SettingsRead < MaxSettings
    /\ given' = [given EXCEPT ![var] = Append(@, value)]
    /\ UNCHANGED <<opened, uid, gid, index, listening, serving>>

\* config_add_server_port: a file that the loader refuses is not added and ends the program.
AddServerPort(file) ==
    /\ ReadSetting("PORT", file)
    /\ IF file = "toolong"
         THEN pc' = "exited" /\ UNCHANGED serverhead
         ELSE /\ serverhead' = Append(serverhead, [file |-> file, bound |-> FALSE])
              /\ UNCHANGED pc
    /\ UNCHANGED <<vhost_head, servicesetuid, servicesetgid>>

\* Variant: what the CGI root resolves to does not decide.
AddVhostNoCgi(file) ==
    /\ ReadSetting("VHOST", file)
    /\ vhost_head' = Append(vhost_head, file)
    /\ pc' = IF file \in {"good", "nocgi"} THEN pc ELSE "exited"
    /\ UNCHANGED <<serverhead, servicesetuid, servicesetgid>>

\* config_add_vhost: a vhost is added whatever is wrong with it, and then refused.
AddVhost(file) ==
    /\ ReadSetting("VHOST", file)
    /\ vhost_head' = Append(vhost_head, file)
    /\ pc' = IF file = "good" THEN pc ELSE "exited"
    /\ UNCHANGED <<serverhead, servicesetuid, servicesetgid>>

\* config_set_uid, config_set_gid: a name nobody has is root's.
Id(name) == IF name = "known" THEN Service ELSE Root

ConfigSetUid(name) ==
    /\ ReadSetting("UID", name)
    /\ servicesetuid' = Id(name)
    /\ UNCHANGED <<pc, serverhead, vhost_head, servicesetgid>>

ConfigSetGid(name) ==
    /\ ReadSetting("GID", name)
    /\ servicesetgid' = Id(name)
    /\ UNCHANGED <<pc, serverhead, vhost_head, servicesetuid>>

EndOfConfig ==
    /\ pc = "config"
    /\ pc' = "bind"
    /\ UNCHANGED <<dataVars, uid, gid, index, listening, serving>>

-----------------------------------------------------------------------------
(* do_server_port_bindings and the rest of main. *)

\* An address that is neither kind is bound with family 0, which the kernel may accept.
BindServer ==
    /\ pc = "bind" /\ index <= Len(serverhead)
    /\ serverhead[index].file \in {"good", "badaddress"}
    /\ serverhead' = [serverhead EXCEPT ![index].bound = TRUE]
    /\ index' = index + 1
    /\ UNCHANGED <<pc, opened, given, vhost_head, servicesetuid, servicesetgid,
                   uid, gid, listening, serving>>

\* Variant: a port that cannot be bound is passed over.
BindFailsGoesOn ==
    /\ pc = "bind" /\ index <= Len(serverhead)
    /\ serverhead[index].file \in {"good", "ipv6", "badaddress"}
    /\ index' = index + 1
    /\ UNCHANGED <<dataVars, pc, uid, gid, listening, serving>>

\* The address is taken, IPv6, or none that the kernel accepts.  The log line that tells takes
\* the server_t for a client_t, and may not be survived.
BindFails ==
    /\ pc = "bind" /\ index <= Len(serverhead)
    /\ serverhead[index].file \in {"good", "ipv6", "badaddress"}
    /\ pc' \in {"exited", "crashed"}
    /\ UNCHANGED <<dataVars, uid, gid, index, listening, serving>>

\* inet_pton is given the NULL that no BINDADDRESS leaves.
BindCrashes ==
    /\ pc = "bind" /\ index <= Len(serverhead)
    /\ serverhead[index].file = "noaddress"
    /\ pc' = "crashed"
    /\ UNCHANGED <<dataVars, uid, gid, index, listening, serving>>

AllBound ==
    /\ pc = "bind" /\ index > Len(serverhead)
    /\ pc' = IF uid = Root THEN "setgid" ELSE "listen"
    /\ UNCHANGED <<dataVars, uid, gid, index, listening, serving>>

SetGid(ok) ==
    /\ pc = "setgid"
    /\ IF ok THEN gid' = servicesetgid /\ pc' = "setuid"
             ELSE pc' = "exited" /\ UNCHANGED gid
    /\ UNCHANGED <<dataVars, uid, index, listening, serving>>

\* Variant: the result of setuid is not looked at.
SetUidUnchecked(ok) ==
    /\ pc = "setuid"
    /\ uid' = IF ok THEN servicesetuid ELSE uid
    /\ pc' = "listen"
    /\ UNCHANGED <<dataVars, gid, index, listening, serving>>

SetUid(ok) ==
    /\ pc = "setuid"
    /\ IF ok THEN uid' = servicesetuid /\ pc' = "listen"
             ELSE pc' = "exited" /\ UNCHANGED uid
    /\ UNCHANGED <<dataVars, gid, index, listening, serving>>

\* pthread_create's result is not looked at: a thread that could not be created is missing.
StartListening(ok) ==
    /\ pc = "listen"
    /\ listening' = ok
    /\ index' = 0 /\ pc' = "serve"
    /\ UNCHANGED <<dataVars, uid, gid, serving>>

\* Variant: the loop runs once more.
StartServiceInclusive(ok) ==
    /\ pc = "serve" /\ index <= NUM_CPUS
    /\ serving' = IF ok THEN serving \cup {index} ELSE serving
    /\ index' = index + 1
    /\ UNCHANGED <<dataVars, pc, uid, gid, listening>>

StartService(ok) ==
    /\ pc = "serve" /\ index < NUM_CPUS
    /\ serving' = IF ok THEN serving \cup {index} ELSE serving
    /\ index' = index + 1
    /\ UNCHANGED <<dataVars, pc, uid, gid, listening>>

\* SERVICE_DATA.active = 1 and the idle loop, which nothing ends.
Started ==
    /\ pc = "serve" /\ index = NUM_CPUS
    /\ pc' = "run"
    /\ UNCHANGED <<dataVars, uid, gid, index, listening, serving>>

Next ==
    \/ \E file \in PortFiles : AddServerPort(file)
    \/ \E file \in VhostFiles : AddVhost(file)
    \/ \E name \in Names : ConfigSetUid(name) \/ ConfigSetGid(name)
    \/ EndOfConfig
    \/ BindServer \/ BindFails \/ BindCrashes \/ AllBound
    \/ \E ok \in BOOLEAN : SetGid(ok) \/ SetUid(ok) \/ StartListening(ok) \/ StartService(ok)
    \/ Started

Spec == Init /\ [][Next]_startVars

-----------------------------------------------------------------------------
(* Properties. *)

\* Every variable holds a value of its kind.
TypeOK ==
    /\ pc \in {"config", "bind", "setgid", "setuid", "listen", "serve", "run", "exited", "crashed"}
    /\ opened \in BOOLEAN
    /\ given \in [PORT : Seq(PortFiles), VHOST : Seq(VhostFiles), UID : Seq(Names), GID : Seq(Names)]
    /\ serverhead \in Seq([file : PortFiles, bound : BOOLEAN])
    /\ vhost_head \in Seq(VhostFiles)
    /\ {servicesetuid, servicesetgid, uid, gid} \subseteq {Root, Service}
    /\ index \in Nat /\ (pc \in {"serve", "run"} => index <= NUM_CPUS)
    /\ listening \in BOOLEAN /\ serving \subseteq Pools

LastKnown(names) == names # <<>> /\ names[Len(names)] = "known"

ThreadsRun == listening \/ serving # {}

\* No thread runs before every port of the configuration is bound: the listening thread
\* never polls the descriptor of a server that has none, and serves none of them alone.
ServesAllPorts ==
    ThreadsRun =>
        /\ Len(serverhead) = Len(given.PORT)
        /\ \A k \in 1..Len(serverhead) : serverhead[k].bound

\* Started by root, with a UID and a GID that exist (the last ones given count), the
\* threads that talk to the network run as that user and that group.
PrivilegesDropped ==
    ThreadsRun =>
        /\ LastKnown(given.UID) => uid = Service
        /\ LastKnown(given.GID) => gid = Service

\* A vhost that was put on the list in spite of an error is never served: when threads
\* run, the list is what the file names, in its order, and both roots of each exist.
VhostsAreUsable ==
    ThreadsRun =>
        /\ vhost_head = given.VHOST
        /\ \A k \in 1..Len(vhost_head) : vhost_head[k] = "good"

\* "server configuration is invalid, bailing" (main.c:147): no server starts from a
\* server.cfg that cannot be read.
UnreadableConfigBails == ~opened => pc # "run"
=============================================================================
