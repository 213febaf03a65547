# A verification project for sillyweb

sillyweb is a small HTTP server in C: one thread accepts connections, `NUM_CPUS` service
threads read requests, look the path up, and pump files into sockets. The modules here
model it in TLA+; TLC checks them on small instances, and TLAPS proves every safety property
that a passing run checks for every value of the constants, those of delivery for a peer
that asks again only when it has all it was promised.

## Inventory

| component | source | state | operations |
|---|---|---|---|
| client list | `client.c` 46-56, 98-181; `main.c` 194-235, 633-704 | `SERVICE_DATA.clienthead`, `next_client`, `active`, `thread_pool_id`; each thread's cursors, `clientfds`, `clientcount` | accept and append, clean up and unlink, the service threads' walks |
| connection | `main.c` 274-719, `client.c`, `transfer.c`, `buffer.c`, `headers.c` | `client_t`: buffers, headers, flags, `result_code`, `pump_fd`, the transfer flags | receive, recognise a complete request, parse, dispatch, list a directory, send, close, recycle |
| configuration file | `config.c` | file position, `varname`, `varval` | one character at a time; a callback per line |
| startup | `main.c` 65-185, 723-838 | server and vhost lists, ids, threads | load, bind, drop privileges, create threads |
| server and vhost lists | `server.c`, `vhost.c` | two lists written only at startup | append, count, look up |
| service of many connections | `main.c` 194-235, 643-704, `client.c`, `log.c`, `transport.c`, `transfer.c` 15-34, 95-109 | the process's descriptor table; each client's `sock` and `pump_fd`, the vhost's `logfilefd` | accept (which can fail), open (some over a number that is still open), close (some twice), poll, the search by number |
| percent coding | `percent.c` | `i`, `o`, `ll` and the buffer, for one call | decode in place; encode, which nothing calls |
| MIME types, response codes | `mime.c`, `http.c` | constant tables | look up |
| transports | `transport.c` | a socket | send, recv, close |
| chunked and gzip transfer, SSL, reputation, logging | `transfer.c` 113-210, `transport.c` 30-52, `client.c` 10-37, `log.c`, `util.c` | | stubs, or output |

How they interact. The listening thread appends a `client_t` to the list; every service
thread walks the whole list in each pass, puts the clients whose `thread_pool_id` is its
own on a poll array, parses and dispatches complete requests on the way, polls, and
handles one socket. All of it is shared memory; `client_list_mutex` is taken by the
listening thread alone, so it excludes nobody. The transfer is a table of functions called
with the client, of which only the plain one is ever used.

What is hard here: walks without a lock over a list that is being unlinked; a connection
that is closed once by the thread that serves it and again by the one that deletes it, when
its number may already be somebody else's; a file that is still open when the next request
comes, and a log file that two threads open; a client whose fields outlive one request and
change the next (`clear_client` names only some of them); the end of a file, the end of the
input and the end of the connection arriving in any order; a configuration loader whose buffers outlive a line; a startup of which any step
can fail.

What makes each component correct:

* client list: no live client is cut off or missed; dead clients are unlinked; no pointer
  without a value is used; a walk ends;
* many connections: a descriptor that is closed twice harms nobody else; nothing open is
  forgotten; what arrives for one client never goes to another. None of the three holds
  without exception, and the properties say when each does;
* connection: what is announced is delivered, in order and once; one request leaves
  nothing behind that spoils the next; a file being served is not damaged; a transfer ends;
* percent coding: decoding a URI into its own buffer overwrites nothing unread and stays in
  the buffer;
* configuration: the callbacks are exactly the file's lines;
* startup: threads run only when all of the configuration is in effect.

Every hazard of the code, with its line and the properties that watch it, is in
`PROJECT.json` under `hazards`.

## Modules

| module | models | extends or instantiates |
|---|---|---|
| `Roster` | what the list promises to its users: a set, joined and left once, walked completely | |
| `ClientList` | the list and the threads on it | `Roster` (refinement) |
| `ClientListProofs` | its inductive invariant and theorems | `ClientList` |
| `RosterProofs` | that it implements `Roster` | `ClientListProofs` |
| `Service` | the list with the descriptors of its clients | `ClientList` |
| `ServiceProofs` | its inductive invariant and theorems | `Service`, `RosterProofs` |
| `Connection` | one connection from accept to close, with its peer | |
| `MCConnection` | the requests its runs use | `Connection` |
| `ConnectionProofs` | its types, undeserved answers and the size of its buffer | `Connection` |
| `DeliveryProofs` | what it delivers to a patient peer | `ConnectionProofs` |
| `Percent` | `percent_decode`, turn by turn | |
| `MCPercent` | the characters of its run | `Percent` |
| `PercentProofs` | its theorems | `Percent` |
| `ConfigFile` | the loader for one file | |
| `MCConfigFile` | the names of its run | `ConfigFile` |
| `ConfigFileProofs` | the loader's theorems | `ConfigFile` |
| `Startup` | `main` up to its idle loop | |
| `StartupProofs` | its theorems | `Startup` |

They compose along the list: `Roster` is the abstract specification, `ClientList` the code's
links and cursors, which implement it, and `Service` the steps of `ClientList`, each with what
it does to descriptors, so that what is proved of the list holds there too.

### ClientList

A `client_t` is never freed, so a client is the number of its allocation. Each read or
write of a pointer that another thread can see or change is one action; what is local to a
thread is done in the action that uses it. The listening thread's program counter `lpc`
follows `server_listening_thread` (`poll`, `accept`, which can fail and then goes back to
`poll` without a clean-up), `add_new_client_struct` (`append`,
`appendWalk`), `cleanup_dead_clients` (`cleanup`), `delete_client` (`delete`) and
`del_client_struct` (`remove`, `removeWalk`); a service thread's `spc` follows
`service_clients`: `idle` before the test of `clienthead`, `first` before the loop's own
read of it, `build` in the loop, `ended` between `active = 0` and the end of the loop body,
`branch` at the test of `clientcount`, `find` in the search for `clientfds[0]`. What a
handler does to a client beyond `active` is left open here: `Skip`, `List`, `ListAndRefuse`
and `Finish` are the four things the loop body can mean for the list.

`clientcount` is modelled as the stack slot it is: any value (0 or 1 stand for zero and not
zero) at the first pass, later what the last pass left in it.

`unlinkedAt` and `owed` are history: when a client was unlinked, and which live clients a
walk that is under way still has to meet.

### Roster

The abstract specification: a set of members, those who have left, and for each walker whom
it still has to meet. `ClientList!R` maps the linked list to it: a client is a member once
it is appended and until it becomes inactive; the listening thread's unlinking is not seen
at all. The refinement is the promise that the unlocked list makes to `service_clients`:
`EndWalk` is possible only when nobody is missing.

### Service

A `client_t` remembers its connection and its file by number only. `table` says what each
number stands for, `sock`, `pump_fd` and `logfilefd` who remembers which number, and every
`accept` or `open` gives the lowest free one, as the kernel does. Each action is one of
`ClientList` with what it does to the table, or one that the list does not see.
`EndConnection` is `AfterEnd` and the transport's close; `BeginDelete`, `DeleteCloses` and
`DeleteClears` split `delete_client` at the places where the other thread can get between its
log line, its close and its `clear_client`. The branches of `dispatch_request` are
`ListAndAnswer`, `ListAndOpen`, `ListAndFail`, `ListAndClear` and `Refuse`; none looks at what
`pump_fd` holds before, so an open file that `plain_transfer_open` writes over becomes `Lost`. The
search of `service_clients` compares numbers (`Matches`), which in `ClientList` alone is a free
choice.

`llog` opens the vhost's log file in whichever thread logs with a client while no number is
stored: the listening thread in `delete_client`, a service thread at the start of
`dispatch_request`. Its test, its open, which may fail and then stores -1, and its store are
steps of their own (`LogTests`, `LogOpens`, `LogStores`), and no lock is held; `logging` is where a
thread is in them. `Logged` is that the line has been written.

`stale` is history: the objects that were given a number which a client in use carried at
that moment. Such an object can be cut off or mixed up with another client, and TLC finds
the states in which it is; the properties say that nothing else can be. `InUse` is as wide
as the code makes it: clients on the list or on their way to it, those whose connection a
thread is about to close, and those that a search on an already unlinked client still comes to.

### Connection

The state of one `client_t` and its socket is the record `client`; each function of the
source is an operator from record to record (`ClearClient`, `Parse`, `SendHead`,
`PlainTransferSend`, ...) and the steps of `service_clients` for this client are the
actions. A request is a record of what the code can tell apart: the shape of the first
line, whether the method is known, the Connection and Host headers, what the path
resolves to. Sizes are in units, of which a network block holds `NBS`; a file of three
units with `NBS = 2` takes two rounds, and a listing of three is longer than a block.
The network delivers pieces in order. `Parse` works on whatever pieces are in the buffer.

Undefined behaviour is a choice: what lies behind an unterminated input buffer
(`behind`), what functions without a return statement return (`wild`: `get_vhost`,
`get_mime_from_filename`), whether a write to a reset connection raises SIGPIPE at once
(`killed`). So is what the code cannot know: whether the peer has read enough for the socket to
be writable (`Poll`), and how much of a block `send` takes (`taken`). A wild pointer, a signal or
a read of a negative size ends the process and sets `crash`.

Only one connection is modelled, so the service thread always handles this client when
poll reports it. The listening thread's `delete_client` may come at any time after
`active` is cleared, or never.

`Manners` says what the peer may do, and none of it depends on anything but what it has sent and
received. Without "eager" it sends a request when the last one has been answered and as many
units have arrived as were announced (`Answered`). The server need not have noticed by then that
the file is at its end, so this peer, an ordinary keep-alive client, does find the file open:
its request is written behind the file's end, its descriptor is overwritten by the next file's,
headers are repeated, and what it has sent of a request is thrown away with the buffer. The
properties of `connection_lockstep` are promises to this peer that hold all the same.
`connection_eager` has the one that waits for nothing.

`Parse` is split where the code's blocks are (`CutFirstLine`, `ReadFirstLine`,
`ReadHeaders`, `LookUp`), so that a proof can follow it.

### Percent

One action is one turn of the loop of `percent_decode`, called as `parse_request` calls it,
with source and destination the same buffer. `Scanned` is what `sscanf("%02x")` stores for
two characters: one digit suffices, and a sign may come first. It stores an int through the
address of a `char`; where the other three bytes fall is the choice `build`: on nothing
that matters (`apart`), or on the low bytes of `ll`, as in the code that gcc makes with the
options of the Makefile (`beside`), where `ll` becomes zero with the first escape and huge
with a negative number; then a percent sign that ends the string is scanned too, sscanf says EOF,
which is true, and the byte stored last (`t`) is written once more (`Repeat`).

What a URI means is told by position, without the loop's variables, so that TLC and TLAPS
read the same definition: `Escapes` is where the escapes begin, `Begins` where anything
begins that stands for one character, `Meaning` that character, and the n-th of them is the
n-th character of the result (`DecodedAsMeant`).

### ConfigFile

One action per branch of the loader's switch. The file is chosen character by character as
it is read, so that TLC explores the tree of all files; a file that cannot be opened is an
empty one, for `open`'s -1 is true in C. Descriptor 0 (an `open` with standard input
closed) is left out.

What a file asks for is told by position too: `IsLine` where a line begins, has its first
equal sign and ends, `Name` and `Shown` what its name is and where the characters of its
value are, `Asking` which lines name a callback. The n-th call is the n-th of those
(`AreCallsOf`), and `SettingsAreLines` claims it for a file of proper lines: each with a name,
a value, and a line end.

### Startup

Settings of server.cfg are steps, and a port or vhost file is what decides about it (can it
be bound, what kind of address does it give, do its roots exist, is a line too long). `bind`, `setgid`, `setuid` and
`pthread_create` succeed or fail by choice. `given` is history: the values server.cfg gave
each variable, in their order. SSL is left out.

## Runs

| run | bounds | states | what it shows |
|---|---|---|---|
| `client_list` | 3 clients, 1 service thread | 39 347 | list safety, the refinement of `Roster`, walks end, dead clients go if quiet seconds come |
| `service` | 3 clients, 4 descriptors, 1 port, no log file | 3 430 408 | descriptors: what can be lost, cut off or mixed up |
| `service_live` | 2 clients, 3 descriptors, 1 port, a log file that two threads open | 93 288 | the log file among the numbers; a dead client's connection gets closed if quiet seconds come |
| `connection_lockstep` | 3 requests of 8 kinds; persist, split, fin, reset; behind the buffer a NUL or a header | 373 066 | delivery to a keep-alive peer, whose next request can find the file open; transfers end if the peer reads |
| `connection_eager` | 2 requests of 18 kinds, any timing, anything behind the buffer | 1 933 695 | what a 200 answers; what fills the buffer beyond a block |
| `percent` | URIs of up to 5 characters out of 6, both layouts | 116 628 | decoding in place |
| `config_file` | files of 8 characters, arrays of 3 | 185 404 | settings are the file's lines |
| `startup` | 5 settings, 2 pools | 154 670 | threads run only when all is in effect |
| `client_list_empty`, `client_list_starved`, `connection_script`, `startup_unreadable` | small | | disagreements, see Findings |

Why the bounds are enough. Three clients are a head, a tail and one between them: a walk can
stand on an unlinked client whose successor is unlinked too while another is appended to the
end; the safety properties and the refinement are theorems for every number. Four
descriptors for one port and three clients leave less than a connection and a file for
each: numbers are reused, run out, and come back to a client still carrying them. With
`Logs` two log files compete for them, in the smaller `service_live`. One service thread
is the program's own `NUM_CPUS`; `Service` splits its steps as finely as two threads can
tell apart. Three requests on a connection are one before and one after a disturbed one; files
of three and four units are longer than a block of two, so that they take two reads, and a
listing of three is longer than a block, so that what is read behind it has no room. Five characters hold an escape with two characters around it, or one that is cut
short behind another. A file of 8 characters holds two whole lines and every way to break
one; arrays of 3 hold two characters, so that all three sizes (fits, just fits, too long)
occur. Five settings are two of one kind among others, which is what "the last one counts"
and "some bound, one fails" need.

Fairness. `client_list`, `service_live` and `client_list_starved`: `WF` of each thread,
since the kernel schedules both and each poll and sleep returns within a second. The
listening thread's fairness is of all of its actions together: whether its poll reports a
connection, whether `accept` fails and whether poll times out is the environment's choice, every
time. That quiet seconds come is therefore not assumed of a run but stated where it is needed
(`QuietSecondsCome`, in `DeadClientUnlinked` and `DeadIsClosed`): on a server that is never idle
for a second, or has no descriptor left and a connection waiting, the clean-up never comes.
`connection_lockstep`: `WF` of the service thread only. The peer owes nothing, nor does the
clean-up; a peer that reads no more, so that poll times out for ever with the file open, is what
`StopsReading` exempts in `TransferEnds` and `ClosedAfterFile`.

Deadlock is not checked where the model really stops: a connection closed, a URI or a file
at its end, `main` idle. The runs of `ClientList` and `Service` check it.

## Findings

* `client_list_empty`: with no clients a pass reads `clientcount` uninitialised
  (`main.c` 648, 681) and may call `poll` on a null array instead of sleeping.
* `client_list_starved`: the search resets the bound of the loop it is in (`main.c` 684):
  only the first client on the poll array is served.
* `connection_script`: the CGI test has its operands exchanged (`main.c` 604): scripts are
  sent as files.
* `startup_unreadable`: a missing server.cfg is a valid empty one (`config.c` 13).

Observed while modelling, without a run of their own because a property states the
condition under which they happen:

* With the Makefile's options a path is cut off behind its first escape (`percent.c` 14);
  `DecodedAsMeant` says so for the layout `beside`.
* `%4z` and `%+5` become one character, although `percent.c` 17 says of a bad character
  "sink it and move on"; they are what `Clear` excludes.
* After a directory listing on a kept connection, or a file that was still open when the next
  request came, the next response repeats the earlier headers before its own, Content-Length
  first (`main.c` 440); `OwnHeaders` excludes it.
* A keep-alive peer that asks again as soon as it has the last byte is taken for an upload: its
  request is appended to the served file (`transfer.c` 85, `UploadsOnlyAppend`). One that asks
  earlier overwrites what is still to be read. The file's descriptor is then written over by the
  next file's and lost (`transfer.c` 19): `Lost` in `Service`, which `NoDescriptorLost` excludes.
* Two threads can both open the log file, one of which is lost (`log.c` 33); `Lost` too.
* A request with an unknown method on a kept connection is answered with the method of an earlier
  one (`main.c` 541), and a good one after a refusal with the refusal's code (`main.c` 611):
  nothing resets `method` and `result_code`. `OkIsDeserved` asks for the method of this or an
  earlier request.
* Behind a listing that is longer than a block the size of the next read is negative
  (`transfer.c` 43); `OnlyListingsOverfill` says that nothing else does that.
* When the last block is not taken whole by `send`, the rest is dropped with the connection
  (`transfer.c` 47, 59); `ClosedOnlyWhenDelivered` allows for it (`short`).
* When no descriptor is left, `accept` fails, the waiting connection is reported again at
  once, and the clean-up that would free a descriptor never comes (`main.c` 212, 230); it is
  what `QuietSecondsCome` excludes.
* Live connections, files and the log file can be cut off by a second close (`client.c` 51);
  they are the members of `stale`.

## Proofs

`ClientListProofs`, for every `MaxClients` and `NUM_CPUS`, from `ConstantsAssumption` (both
positive): `TypeCorrect`, `NoLiveClientIsLost`, `WalksAreComplete`, `PrevptrIsSafe`. None of
the properties is inductive. `IInv` adds

* `Lifecycle` and `AppendInv`: when a client's link and flag can be set, and that nothing
  is unlinked while a client is being appended;
* `ChainInv`: the linked clients are in the order of their allocation, the head is the
  oldest and each leads to the next one;
* `GhostInv`, the heart of it: an unlinked client still leads towards every client that was
  linked behind it when it was unlinked, through clients that are linked or were unlinked
  no earlier than itself. This is what a thread without the lock relies on;
* `CursorInv` and `WalkInv`: where the threads' pointers can be. A service thread's cursor
  is linked, or was unlinked after every live client it still has to meet was allocated.

There is one lemma per action that writes a link and one for all those that write none; the
service threads only clear flags, which none of the parts about links minds.
`NoLiveClientIsLost` takes the newest client not beyond the lost one in a set that holds the
chain, and needs that a finite set of clients has a newest member (`Newest`, by
well-foundedness).

`RosterProofs`, from the same: `ListImplementsRoster`, each step of a thread is a step of
`Roster` or none. It needs `IInv` and `VisibleInv`: no pointer leads to a client before it
has been appended, so nobody can have made it inactive, that is, made it leave, before it
joined.

`ServiceProofs`, for every number of ports, clients, service threads and descriptors, from
`DescriptorsAssumption` too: `ServersKeepOpen`, `DescriptorsAreKept`, `FreshNumbersAreSafe`,
`FreshNumbersAreNotMixed`, `ServiceTypes`; and `ServiceKeepsLiveClients`, the list's properties with
descriptors, for its steps are the list's. The inductive invariant `FdInv` is

* `FdTypes`: no client ever carries a number of the server's own sockets;
* `Owners`: an open connection or file that is not `Lost` is remembered, under the number it has,
  by the client it belongs to, which is not unlinked yet;
* `LogInv`: between its open and its store a thread alone knows its log file, and whose log file is
  stored has passed the store, so that a second store loses exactly what was stored before;
* `Deleting` and `Ending`: how far a close has come, and that the client is inactive by then;
* `Fresh`, the heart of it: a number that is not stale and that a client in `InUse` carries is
  that client's own, so no close but the owner's hits it and no search stops at it for
  another. `InUse` has those that a search can still come to (`Trail`, what a cursor leads to
  through the links); the lemmas about `Trail` say that the listening thread, which only links
  to clients on the list or coming to it, brings nobody else in a search's way;
* `Uncut`: what a live client remembers is still its own, or stale.

`ConnectionProofs`, for every set and number of requests, block size, listing length,
manners of the peer and leftovers behind the buffer, from `ConnectionAssumption`:
`OkIsForTheDeserving`, `OnlyBehindListings`, `ConnectionTypes`. For the first, requests are answered
in the order in which they came (`Order`), so that `client->method` was set by this request or an
earlier one. For the second, `Full` and `Room` say how much can stand behind the last unit of a
listing: a block, and less than one while an error page may still be added. `IsClient` gives the
fields their types. There is one lemma for each function of the code, which says what it does to
the wire (`Silent`, `Says` one head at most, `Sends` units), and the steps of the server follow
from those.

`DeliveryProofs`, from the same, for peers that are `Patient`: `FilesArriveInOrder`,
`NothingIsCutShort`, `FilesOnlyGrow`, `NoSecondAnswer`. A `Patient` peer sends a request only when
all that was announced to it has arrived, which is all it can know, and no blank line lies behind
the input buffer. Both are needed: what a quicker peer sends overwrites the file that is being
sent, and a blank line lets half a request pass for a whole one. It may split requests, ask
while the file is still open, persist, stop reading, shut down and go away. The invariant
`DeliveryInv` holds together with that of `ConnectionProofs`, and is

* `Exchange`: as many heads as requests and nothing under way (`Resting`), or one head less and
  everything under way is the last request, its last piece last (`Asking`);
* `Headed` and `Queued`: the headers gathered so far are those of the last head, and what waits in
  the output buffer goes on where the wire ends;
* `Reading`, the heart of it: the open file is the last response's, and as many units of it are
  on the wire and in the buffer as have been read; or its reader has all of it, and may have made
  it longer;
* `Completing`: a transfer is completed at the end of its file, with nothing left to write but
  what `send` left of a block;
* `Appends`: a file that is open when something arrives has been read to its end. It holds because
  the peer waits for as many units as were announced, and the file announced no more than it has;
* `Placed`, `Distinctly` and `Delivered`: on the wire each unit of a file is where it belongs,
  requests are answered in order, and a client that was given up, its peer still there, had
  all that was announced. The properties follow from these;
* `Events`: what poll reported, though stale, is still true of the peer.

All of it is about responses that go by their own headers (`Own`); one that repeats an earlier
Content-Length promises its reader something that nobody keeps. `Before` and `After` say what a
step that answers a request finds and leaves (`HeadAfter`), `Filled` and `Written` what a block
that is read or written does.

`PercentProofs`, for every alphabet of characters, URI and layout: `InPlaceDecodingIsSound`,
`DecodingStaysInside`, `ClearUrisAreDecoded`, `PercentTypes`. `LengthInv` says how far `ll` can
be from the length: it is right, zero, or the URI has an escape with a minus sign.
`MeaningInv` adds, for a clear URI, that the loop always stands between two things of the URI
and has written the meaning of everything behind it, and that `ll` is lost only behind the
first escape.

`ConfigFileProofs`, for every alphabet, set of names, array size and file: `BuffersFit`,
`RefusalEndsTheLoad`, `SettingsAreRead`. `i` never exceeds the length of the string in the array
it indexes, which makes `Put` write one character behind it. `SettingsInv` says of a file of
proper lines that its calls have been made and that the arrays hold the line that is still
open: its name as far as it has been read (`InName`), or all of it and the value so far
(`InValue`), but for an array that got no character of the line yet and holds what it held.
The rest is about a text that grows by a character (`More`): what an ended line is and asks
for stays, the position of the new character has the highest rank, and in a file of proper
lines a line end can only be read in a value.

`StartupProofs`, for every number of settings and of service threads: `AllPortsAreServed`,
`ThreadsAreUnprivileged`, `NoBrokenVhostIsServed`, `StartupTypes`. `LoadedInv` ties the lists
to what server.cfg gave, `BoundInv` the servers to `index`, `IdInv` the process's ids to the
configured ones, `ThreadInv` the threads to where `main` is.

Only model-checked: liveness (`DeadClientUnlinked`, `PassEnds`, `DeadIsClosed`,
`TransferEnds`, `ClosedAfterFile`), which is beyond the prover, and the four disagreements of
the runs that expect a violation. Every other property of a run is a theorem, those of
`connection_lockstep` under `Patient`, which its configuration satisfies.

## Plan

Done: the list, its abstract specification and its refinement, many connections with
descriptors and the log file, one connection with the peers that disturb a transfer, percent
decoding, the loader, the startup, and the proofs of their safety properties. Left:

1. what an eager peer's upload does to a file, as a relation between what was served and what is
   in the file afterwards;
2. the callbacks for numbers of `config.c`, with `strtol`, `errno` and the cut to a short.

## Not modelled

* The tables of `mime.c` and `http.c`: constants. A file without an entry is the `wild`
  outcome of `Connection`.
* `percent_encode` and `html_encode` (`percent.c`) and the buffer functions that only they
  or nobody uses: no code calls them.
* SSL (`client->service`, which its open dereferences, is never set), chunked and gzip
  transfer (stubs that `create_new_client` never selects), the reputation counters (written
  and never read).
* The environment and arguments of a CGI: the process does not survive building them,
  which `Connection` has as a crash.
* Failed allocations, the wording of responses and log lines, which of several ports a
  connection comes through, and `client_t` fields other than numbers and flags that both
  threads touch at once.
