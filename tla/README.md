# networks-oregontech in TLA+

A model of the network programs of the repository, TLC configurations that check
it on small instances, and proofs of its central results.

## The system

The repository holds the programs of a networks course. They are small C and C++
processes that talk over UDP and TCP; every one keeps its state in memory.

| Component | State | Operations | Interacts with |
|---|---|---|---|
| Name server (`lab2/oit_ns.cpp`, `ns_handler.cpp`) | `lookup_table`: name -> port and time-out; the clock it reads | DEFINE_PORT, LOOKUP_PORT, KEEP_ALIVE, CLOSE_PORT, STOP, the sweep of a full table | UDP datagrams, one at a time |
| Request codec (`lab2/encode.cpp`; an older one in `lab1/src/encode.c`; `Encode_request` of `Program.cs`; the bytes `getport.c` puts together itself) | none: caller's buffers | encode, is_invalid, decode | name server, its clients and tests |
| Client library (`lab4/getport.c`, `lab4_old/getport.c`) | one socket per process | define, request, lookup, release, do_request | name server |
| Line reader (`lab1/src/readline.c`, `readblocks.c`) | a block, an index and two flags per thread | readline, read_block | read(2) |
| File transfer server (`lab4/server.cpp`, `timedaccept.c`, `md5sum.c`) | descriptor table, client count, shutdown flag, one thread per client | get, exit, shutdown, accept loop | client library, TCP clients |
| File transfer client (`networks_lab4_zacharywentworth/.../Program.cs`) | its connection and the file it receives | get, exit, shutdown | file transfer server |
| Earlier transfer server and client (`lab4_old/server.cpp`, `client_folder/simple_client.cpp`) | one connection, the last command, sockets that listen | get, exit | name server, TCP clients one after the other |
| DNS resolver (`lab6/dns_resolver.cpp`, `Locked_*.cpp`) | two locked caches, thread count, shutdown flag | resolve, dump, verbose, shutdown; the decoding of DNS records | DNS over UDP, TCP clients |
| Others | | | see "Not modelled" |

What is hard about each, and what makes it correct:

* **Name server.** Sequential, but it reads `time(0)` anew in every comparison: the
  clock moves between the decision to sweep, the sweep and the insertion. It must
  not outgrow its table, refuse only when it is full of live services, tell only
  live ports, and take a live service out only when asked to.
* **Codec.** Off-by-ones between 49 and 50 bytes, in place or into a second buffer, and
  four implementations that must agree, of which only two look at what they take. What was
  asked for must arrive, and an answer that is made of it must be taken.
* **Client library.** Datagrams are lost and overtaken; nothing in an answer ties it
  to a request; threads share a socket. A call must return its own answer, or at
  least return.
* **Line reader.** State outlives the call. No byte may be lost wherever read(2)
  cuts its blocks, whichever thread runs.
* **File transfer server.** Threads share descriptors by number, ports are returned
  while in use, clients die, time-outs look like descriptors, a shutdown races the
  accept loop. It must stay within its limit, give each client its own files, and end.
* **File transfer client.** A read returns what has arrived, and it was written as if that
  were one message. It must not take a file for another, nor be told "done" early.
* **Earlier transfer server.** The command of a client that has left is executed once more,
  and no listening socket is ever closed. A client that leaves must not keep the server.
* **DNS resolver.** Records are read off by one byte. Caches are iterated after the lock is released; answers are
  neither matched nor checked after a time-out; referrals recurse; the accept loop takes
  a time-out for descriptor 0. A look-up must end whatever the servers say, a client be
  told what it asked, every place be given back, and a shutdown be seen.

## Modules

| Module | Models | Used by |
|---|---|---|
| `NameServerMessages` | `request_t`, message types and status values of `nameserver.h` | `NameServer`, `LeaseRegistry` |
| `NameServer` | `main` and `generate_response` of `oit_ns.cpp`, all of `ns_handler.cpp` | `PortClient`, proofs |
| `LeaseRegistry` | the abstract promise of the name server: a bounded map of leases, each request one atomic step | `NameService`; refinement target |
| `NameServer_proofs` | theorems of `NameServer` | |
| `Codec` | `request_t` byte by byte, with a short name field, between lab2, lab1, `getport.c` and `Program.cs`, and the answer the name server makes of it | `MCPortClient` |
| `Readline` | `readline.c` over `read_block` | |
| `PortClient` | `do_request`, and `GetPort` of `Program.cs`, composed with `NameServer` over a network | |
| `NameService` | the abstract promise of name server, library and network: a call takes effect on that map at one instant, or is lost | refinement target |
| `TransferClient` | `Main` of `Program.cs`: its conversation on the control connection | `TransferServer` |
| `TransferServer` | `lab4/server.cpp` with the descriptor table of its process, composed with `TransferClient` | |
| `TransferService` | the abstract promise of the transfer server: what a client is sent, in which order, and when a conversation may end | refinement target |
| `OldTransferServer` | `lab4_old/server.cpp` and `simple_client.cpp` | |
| `Resolver` | `lab6/dns_resolver.cpp` with its two caches, the name servers and clients around it | |
| `DnsMessage` | the bytes of its queries and of the replies it decodes | `MCResolver` |
| `Codec_proofs`, `Readline_proofs`, `OldTransferServer_proofs`, `PortClient_proofs`, `Resolver_proofs`, `TransferServer_proofs` | theorems of the module each is named after | |
| `TransferPlaces_proofs` | more theorems of `TransferServer`, on top of `TransferServer_proofs`: descriptors, connections, places, the server whose clients share no port, and the refinement of `TransferService` | |
| `MC*` | constants for TLC | |

**NameServer.** `pc` is the place in the loop of `main`. A datagram is decoded by
`Receive`, `ReceiveInvalid` or `ReceiveNothing`; `generate_response` is `BeginSweep`,
`SweepEntry` and the handlers; `sendto` is `SendReply`. Each reading of the clock is in
a step of its own and `Tick` may come between any two. `key` is the `std::string` a
handler builds from the name; for a name without terminator it is any of `Overread`.
`unordered_map::insert` (`Insert`) does not replace. `ReceiveNothing` deletes an
uninitialised or freed pointer in the code: the model takes both outcomes, an abort and
going on. `asked` and `since` are history for the properties.

**LeaseRegistry.** A lease ends at a time fixed when it is granted; a request takes
effect at one instant. Its state is the table itself, its answer the one the server is
about to send: the refinement mapping is the `INSTANCE` in `NameServer`.

**Codec.** One behaviour is one message, the variable `conveyed`: encoded by a host, or put
on the wire by a stranger, then decoded by a host, in place or through another buffer with
arbitrary old contents (`Encode`, `Arrive`, `Decode`). On the way it may reach the name
server, which decodes it in place, changes head and port and encodes the same bytes again
(`Serve`: which status and port is a matter of `NameServer`, here any will do). `Host` is
whose code it is. lab1's `encode` takes two buffers and only ever writes the first;
`getport.c` fills a zeroed `request_t` and checks nothing; `Program.cs` copies every char it
is given, also those behind a NUL, and swaps the port. Such chars are the one thing that
makes a host refuse what another sends (`Hides`). `MCPortClient` runs these behaviours beside
those of `PortClient`: a behaviour of the run is one or the other.

**Readline.** Every turn of the loop is a step, so the calls of threads interleave;
`Fetch` returns any number of bytes up to the block, `FetchNothing` is the end or a
failure.

**PortClient.** `EXTENDS NameServer`; requests and answers are sets, so they overtake one
another, and `MaxLost` of them vanish. Duplicates are not delivered: nothing in the code
looks for them, and one duplicate breaks `OwnAnswer` at once. REQUEST_PORT, which lab4's
header has and lab2's server does not, fails to decode there (the server of lab2 takes
type 7 for invalid).

A thread of `CSharp` is in `GetPort`, which takes the port of the answer without a look
at its status (`Value`). Left out are the returns -2 and -3 of `do_request`: a `recvfrom` that
fails, and a datagram of another size, which the server of lab2 never sends. `during` is
history: what the table held for the name a thread looks up, from its call on.

**NameService.** `EXTENDS LeaseRegistry`: its calls are `asked`, then decided by one step of the
registry (`TakeEffect`), or without it (`NoEffect`: a request that fails to decode, or is no question to the
registry), then they end with what was decided. A call may be lost before its effect or after it, which its
thread cannot tell apart. There are no sockets, datagrams, queues or places of a loop. `CallsSeen` and
`Results` in `PortClient` read its state off: what was decided of a call is the answer the server is about to send
for it, or that answer on its way back (`Outcomes`). This is linearizability with the effect at the
step of the server that fills in the answer.

**TransferClient.** `client[c].out` is what was sent to the client and not read. A read
(`MayRead`) takes any number of messages off it; `Word` is what the comparisons of `Main`
make of them: the first line with its newline, or the second without it when the first
was a checksum. What else came with them is dropped. `Checked` is the comparison of checksums,
`Fail` the exceptions nobody catches. The parts that need a socket of the server
(`TakeFile`, `DataLost`, `EndOfStream`) are in `TransferServer`.

**TransferServer.** `fds` maps descriptor numbers to what they are open on and is reused
lowest first; every call looks its number up, so a descriptor that was closed, leaked or
mistaken means whatever it means at that moment. Descriptors 0-2 stand for all that is
open before the loop. Actions of `main`: `Loop`, `Accept`, `AcceptTimesOut`, `Admit`,
`Spawn`; of a thread: the `Receive*` actions are the branches of `HandleTCPClient`,
`Announce` to `SendMd5` are `send_file_to_client`, `NextFile` is the rest of its loop,
`StopAccepting` the second store of a shutdown. A file is an index; its contents are the
thread's client and that index. Every early return of `send_file_to_client` leaves open what
it opened. The name server of lab4 is external: it grants any port it has not granted,
takes it back on release, and forgets it when the lease ends (`Expire`). `Faults` names
what may go wrong in a run. A peer that is gone breaks the connection with the first send
and raises SIGPIPE with a later one.

**TransferService.** A client is away, idle, waiting for what it asked, or has left; a file is
on its way to it, or none; it has files. The service sends a file behind all that it has
(`Lossy`) or the next one (not `Lossy`), and ends a conversation when nothing is on its way and,
where it is not lossy, all files have come, or none. It has no threads, ports, descriptors, messages
or checksums: `Stages`, `Coming` and `Got` in `TransferServer` read its state off the
client alone, and `Ordered` and `Whole` are its two instances. A file is on its way from the
"file:" line a client goes by to the end of its data connection; the announcements themselves, and
whatever the server's threads do in between, are no steps of the service.

**OldTransferServer.** `pc` is the place in `wait_for_client`, `HandleTCPClient` and
`send_file`; `echo_buff` is not cleared between two calls of `recv`, so a `recv` of 0 leads
to `Handles` with the last command. `bound` are the sockets that listen, which nothing
closes; `granted` is what the name server holds. The server sends no KEEP_ALIVE, so a lease
may run out at any time (`Expire`, noted in `lapsed`), and the port then be granted again
although something still listens on it. `Slow` clients take longer than the time-out or die anywhere.

**Resolver.** `main` is the place in `wait_for_client`; a thread is a record whose `pc`
is the place in `handle_message`, `where_to_start` ("start") or `send_dns_request`
("query", "answers", "records", "walk"). The recursion of `send_dns_request` is the stack
`calls`, of which only the label each level stopped at matters, and `contacted` is the
list all levels share; `where_to_start` works on a copy of it and leaves no mark. A
domain name is a value, `Trim` what is left without its first label, `Says` what servers
may answer. `GetNS` and the use of its iterators are two steps: an insertion of another
thread in between (`raced`) lets the walk miss servers, stray to those of other zones, or
wreck the process. `seen` are the answers that may still lie on a stack when none comes in
time, each with the length of the name it is about: `k`, where the records are read from, is
computed from the length of the name asked *now* (`dns_resolver.cpp:482`). With names of one
length an old reply is read in step (`QueryTimesOut`) and means what it meant; otherwise it
is read out of step (`QueryMisreads`), and the result is any of `Misread`, an external
constant: read one byte further on, the address belongs to the empty name; elsewhere, four bytes of
anything are the address of anybody. Or the pointers found there lead in circles
(`QueryGoesAstray`). `misread` is history: it has happened. `Label` is a name behind the dangling pointer that `convert_to_dns_format`
returns: itself or, when it was long enough to be on the heap, junk. Descriptor 0 is
kept apart (`zero`): a time-out of the accept starts a thread on it, which closes it, and
the next socket is number 0.

**DnsMessage.** One behaviour is one reply, decoded record by record as the loops of
`send_dns_request` do: `k` is the index they share. `Fields` reads what all three functions read
first, one byte past where a reader of RFC 1035 would: the type is the second byte of the
type and the first of the class, the length of the data its low byte, and a pointer its low
byte. `NameAt` is `read_name` with the recursion of `read_ptr_name`; `NameEnd` is where
`read_name` leaves the index. `found_ns` and `cached` are `temp_ns_cont_t` and what is
put into `ns_cache`; `Tried` are the keys that the walk after the records looks for. `Put`,
`PutRecord` and `Wire` are external: a server that compresses every name it can, and those
inside the data as it likes. `MCResolver` runs these behaviours beside those of `Resolver`,
where records are values.

## Runs

| Run | Checks | Shows |
|---|---|---|
| `name_server` | `Inv` (with `TypeOK`, `CapacityBound`), `BusyOnlyWhenLeased`, `LookupTellsLivePort`, `LeaseKept`, `ImplementsRegistry`, `EveryRequestAnswered` | safety under a moving clock, atomicity, and that each datagram is answered |
| `redefine` | `DefinedPortIsServed`, violated | `insert` keeps the old entry of a service defined anew |
| `readline` | `TypeOK`, `NoByteLost`, `LineShape`, `CallReturns` | no boundary loses a byte or hangs |
| `port_client` | `OwnAnswer`, `LookupWasHeld`, `ArrivesAsAsked`, `AnswerComesBack`, `ImplementsService`, `CallReturns` | a socket each: every call takes effect at one instant and gets its own answer, or lost a datagram; what a look-up returns was in the table while it was made; what arrives, from any host at any other, is what was asked for, and the answer comes back whole |
| `port_client_shared` | `LookupAnswersTheName`, violated | two threads, one socket: one takes the other's answer |
| `transfer` | `TypeOK`, `OwnFileOnly`, `DescriptorsApart`, `DeliversInOrder` | no client gets another's file, or one out of order or twice, no thread uses a descriptor of another, though ports are shared, slow clients and failing files are about, and reads run messages together |
| `transfer_serial` | `DescriptorsOwned`, `DoneMeansAll`, `HandlersWithinLimit`, `ConnectionKept`, `PlacesCounted`, `DeliversWhole` | the service that passes no file over; no leak, no gap, no lost connection or place and no second thread when one client is served at a time |
| `transfer_stop` | `ShutdownEnds`, `HandlerReturns` | a shutdown ends the server and a thread comes back for the next command, under every fault of the model; the name server refuses ports but always answers |
| `transfer_deaf` | `NoMutualWait`, violated | "done" that arrives alone is not known with its newline, and both sides wait |
| `transfer_regrant` | `DoneMeansAll`, violated | with two clients at once the port released after a file is granted to the other, and a file is passed over |
| `old_transfer` | `TypeOK`, `AnnouncedOnce`, `NoneLeftOut`, `ServerMovesOn` | the command executed twice announces nothing twice, a file is passed over only on a port whose lease ran out, and clients that die do not keep the server |
| `resolver` | `TypeOK`, `SlotsCounted`, `AnswerIsOwn`, `QueriesBounded`, `DecodedAsSent`, `ReferralFound`, `LookupAnswered`, `ShutdownEnds` | two threads that race over the caches end, with an answer about what was asked, given for that very name unless a stale reply was read out of step; the bytes of a reply are decoded to what was sent |

The violated properties are sentences of the code's own documentation, quoted under
"findings" of `PROJECT.json`. The models contain more behaviour of this kind, which no
run checks because it follows from one of these or because the sentence it contradicts is
about a single value:

* a KEEP_ALIVE that is answered SUCCESS does not move the time-out (`ns_handler.cpp:28`,
  the same `insert` as in `redefine`; `LeaseRegistry` says so in `Confirm`);
* `is_invalid` accepts a name without a terminator (`encode.cpp:78`), and `encode` leaves
  the last byte of another buffer as it was (`encode.cpp:45`, hence `LastByteClear`);
* `decode` writes to its first argument where `encode.h:51` names the second;
* lab1's `encode` leaves its second buffer as it was, whatever `lab1/src/encode.h` says of it;
* a newline that follows a full buffer is stored past its end, for it is looked at before the
  size is (`readline.c:49-51`): a line of `size` bytes and its terminator make `size + 1`;
* `readline` returns the rest of one descriptor's block to a call for another
  (`readline.c:13`), hence `Owner`: a thread per descriptor;
* `release_port` returns the port where `getport.h:40` promises 0;
* a time-out of the accept in `lab4/server.cpp:445` starts a thread on descriptor 0, although
  the loop says "wait for a client to connect" (`server.cpp:430`). With "idle" among the faults
  and two files `OwnFileOnly` fails: the thread of a first time-out closes descriptor 0, the
  socket that listens for file 1 gets the number, the thread of a second time-out closes that,
  and the client, which connects for file 1 only then, finds the listener of file 2 on the port. The same in
  `dns_resolver.cpp:323`, where after two time-outs (`MaxIdle = 2`) the second thread
  without a client answers "not found" to one that got descriptor 0, before its own thread
  does, and `AnswerIsOwn` fails;
* a stale reply that is read out of step puts addresses into the cache under names nobody
  gave them (`dns_resolver.cpp:482`), and they are told from then on: without `~misread`
  in `AnswerIsOwn` the run finds it;
* a client of lab4_old whose port was granted again over a lease that ran out gets "done" and
  no file, without a word (`lab4_old/server.cpp:119`): `NoneLeftOut` says when;
* a name that `Program.cs` is given with chars behind a NUL is refused by the name server, where the
  library's hosts would take it (`Program.cs:47`, `encode.cpp:71`);
* lab6 ignores no SIGPIPE: a client that resets its connection may end the resolver
  while it is answered. The model has no such step; `LookupAnswered` and `ShutdownEnds` would excuse it;
* a pointer beyond byte 255 of a DNS reply is read from elsewhere (`dns_resolver.cpp:872` and
  896, hence `DnsAssumption`), and a record whose owner ends in a zero and not in a pointer
  has its type and length taken from the other byte of each;
* in `lab4_old`, "shutdown" is not implemented and leaves client and server waiting for one
  another; a client that left before "done" can end the server with SIGPIPE; `simple_client`
  clears 2048 bytes of a buffer of 50 (`Abort`);
* in `TransferServer`, a client that leaves without "exit" keeps its place
  (`server.cpp:260`); SIGPIPE lowers the count once per send (`server.cpp:54`), so the
  limit does not hold with `crash`, nor with `ns`, where the thread starts all the same
  (`server.cpp:454`); a main thread that waits accepts one more client after a shutdown
  (`server.cpp:441`); a client that leaves without a get never gives its port back
  (`server.cpp:331`), so with one port the next is told port -1.

`DoneMeansAll` is in two runs: it holds when one client is served at a time, and fails
with two at once when a port passes from one to the other. The proofs below say that this is
what it takes.

### Bounds

* Name server: every request about one service, the requests of one that keeps to its
  port, and a definition with an unterminated name: the table of two places is full while a third
  wants in; a clock of three seconds with leases of one lets an entry expire, be swept and
  be granted again. Only distances between clock and time-outs matter. `KeepAliveTime = 1` makes
  before, at and after the time-out all reachable.
* Codec: every host with every other, a stranger as sender, and the name server between. Three bytes over two letters have every shape of a name (empty, terminated with
  and without rubbish behind, unterminated); the ports differ in both bytes (one is 255, one beyond 2^15); types and
  status values go one past each end.
* Readline: blocks of two bytes against lines of one to three put a newline at every
  place of a block, and sizes of two and three cut lines.
* Port client: a service, a client, a C# client, three calls, one datagram lost; one place in the table.
* Transfer server: two clients, two files; one port where it must be shared, two elsewhere. Two files make the port be used after its
  release. `Limit` is 1 where the limit itself is the question, 2 (never reached) elsewhere. Runs
  without `idle`, `crash` or `ns` say what holds while those do not happen; `transfer_stop`
  has them all. `MaxThreads` bounds only the time-outs of the accept, and
  `MaxCommands` the commands of a client.
* Old transfer server: three clients, two files of which one may be missing, two ports: the
  third client finds the pool empty, or the port of one that left, or one whose lease ran out
  while something listens on it; one client is slow. The other two are alike, and the second
  connects before the third (`InOrder`, which a permutation of the two brings about; the
  liveness property names no client but in a quantifier).
* DNS messages: questions of one to three labels; as answers nothing, an address, one
  behind an IPv6 address, or an alias with an address; up to two servers of any zone
  of the name, each with or without an address and an IPv6 address before it; names in the data
  compressed or not. All are below 256 bytes.
* Resolver: a host, an alias of it whose name is as long, and two servers that the
  look-up is sent along, so that two look-ups insert the same servers while the other
  walks; the first server may refer without an address, the root stay silent and a stale
  answer be read: in step for the other host, and out of step for the empty name of a client that left,
  as an address of the empty name, or as a wrong address and a referral nobody gave. Two addresses are told apart. Commands run beside a look-up. `Limit = 2` is reached by two clients, and the accept that
  times out after a shutdown starts a third thread. `MaxIdle = 0`: earlier
  time-outs are left out, they multiply the states by five, and no property of the run is
  claimed for them; `AnswersAreOwn` (below) covers one.
* `CHECK_DEADLOCK FALSE` everywhere: servers stop, clients finish, clocks end.

### Fairness

`WF` on the server's own steps, never on arrivals, clients that connect, ask or leave, or
the clock (`CFairness`, `Fairness` and the `FairSpec`s): `main` of the name server is a sequential loop; threads are run by the
scheduler; a blocked `recvfrom` returns when a datagram is there. In `transfer_stop`
connected clients keep reading, as the loop of `Program.cs` does. In `old_transfer` only the
server is fair: `ServerMovesOn` asks nothing of the clients. `AcceptTimesOut` is
part of the fair main thread after a shutdown: the 50 seconds (45 in the resolver) do
pass. In the resolver each thread is fair on its own: `timed_recvfrom` returns after
three seconds, and a client that connected has sent or leaves.

## Proofs

`NameServer_proofs` proves, for every set of names and requests, every table size and
keep-alive time (from `MessagesAssumption` and `ServerAssumption` alone):

* `InvHolds`, with `TypeCorrect`, `CapacityHolds`, `BusyIsTrue`, `LookupIsTrue`;
* `LeaseIsKept`: while its time has not run out, only its own CLOSE_PORT removes a service;
* `ServerImplementsRegistry`: the initial states and every step map to `LeaseRegistry`;
* `ServerAdvances`: once it has a datagram, each step of the server leaves it less to do (`Work`,
  `MaxPorts + 4` at most: `WorkIsBounded`) until it waits again, however the clock moves.

The properties are about the state that answers and are not inductive: `Inv` adds what is
known on the way there. `RequestKnown`: no handler overwrites the request before it answers.
`SweepDone`: what the sweep has passed had not run out at the arrival (`since`), which
stays true because a lease is never shortened and `now` only grows. `RoomFound` and
`UpdateChecked`: what was checked before `update_service` still holds when it inserts,
although the clock may have moved. Each action has a lemma; `NextInv` puts them together,
and the refinement uses `Inv` in the state before and after the step.

`Codec_proofs` proves, from `CodecAssumption` alone (any length of the name field, any
letters and ports), `ArrivalHolds` and `AnswerHolds`. The strengthening (`CodecInvHolds`) is
about the wire: a request that a host encoded and whose name is terminated is the canonical
request with the bytes of its port swapped, whichever host encoded it and whatever was in its
other buffer, except that a C# host sends along what stands behind the NUL; and an answer on
the wire has the name of the datagram it was made of, if that was taken, and else none. Nothing is asked of the
datagram in `AnswerHolds`: a name may fill all 50 bytes, and then the 50th, which `encode` does
not write, is the client's own, still there because request and answer share a buffer.

`Readline_proofs` proves `TypeHolds` and `ShapeHolds` for any number of threads, block size,
content and faults, and `BytesAreKept` where threads keep to a descriptor each
(`OneDescriptorEach`, which the code does not enforce: see `Owner` above). The invariant says of every
thread that its index lies inside its block while a call looks at it and that the flags agree
with the block. `NoByteLost` is then inductive: each step moves one byte, or one block, between
neighbours of the concatenation returned, in hand, in the statics, unread. `CallsAdvance`: every turn of a
call leaves it fewer (`Turns`: three for a byte of the file, one for a byte of the block), wherever
`read` cuts the blocks, and a thread that reads from the same file only lessens them.

`OldTransferServer_proofs` proves `TypeHolds`, `FilesAreAnnouncedOnce` and `NoneIsLeftOut`,
from `OldTransferAssumption`, for any clients, files and ports, leases that run out and deaths
anywhere. The argument: a file is announced only when nothing listens on the port of the
connection, and then something does for ever; so who was told of a file has a port that is
listened on and asked for it, and the command executed once more is no "exit" (`Serving`). A port that is listened
on when it is granted is one whose lease ran out: the only other way back into the pool is "exit", and
whoever says that was told nothing, so that nothing listens on its port, unless something did when it was granted.
Who waits at a port was told it, and where the client served was told one, nobody else
was or waits there (`Announced`). `Queued` says that nobody is served twice. `ServingAdvances`: a client costs the server
fourteen steps at most (`Left`), whoever dies. It needs that a client sends one command (`Heard`): what is
executed a second time is executed when the client has left, with `msg_size` 0, and the loop ends.

`PortClient_proofs` extends the theorems of the name server. `OneSocketEach` (no two threads
share a socket, which one `g_nameserver` per process gives a process of one thread) is enough
for `OwnAnswer`; `LookupWasHeld` (`LookupsAreTrue`) also takes that requests are cleared as
`do_request` clears them (`Cleared`: names terminated, status SUCCESS). `PortClientShared.cfg`
shows that the first hypothesis is needed. The argument: exactly one call waits for each
datagram on its way and for the one being served, and that call is on its way once
(`InFlight`, `OnlyOnce`): a thread sends again only after it took its answer, so nothing at
its socket is older than its call. What a datagram carries is then what its call asked, and the port it
answers with was read from the table in a step of the server between the call and its return, which
`during` has noted by then.

`CallsAreAtomic`: under `OneSocketEach` alone `PortClient` implements `NameService`. It puts the pieces
together: that each call is on its way once says that nothing was decided of it before the server takes it and
that nothing is afterwards (`NotYet`, `ToldOne`); `Conveyed` adds that the server works on the request of that very
call, also where its type failed to decode, and `Gone` that nothing is under way of a call that lost a datagram.
The step of the server is one of the registry by the theorem about `NameServer` (`SameNext`), and the only one that
decides (`Undecided`); each other action has a lemma that says which step of the service it is, or that it is hidden.

`Resolver_proofs` proves, from `ResolverAssumption`, `TypeHolds`, `SlotsHold` and
`QueriesAreBounded` for any limit, number of threads, names and servers, finitely many. For the places: `avail_threads` is
the limit less the threads that run, one more between the start of a thread and the
decrement of `main`, and at least one while `main` counts. For the queries:
each level of the recursion belongs to a server noted in `contacted`, which
grows with every query but the first, so the servers bound the calls although any
thread may disturb the walk of any other.

It also proves `AnswersAreOwn` where the accept times out once at most (`MaxIdle <= 1`; after
two time-outs it is false, see above). `DescriptorAssumption` only says that the model values for
clients are not those for what else descriptor 0 can be open on. The invariant has two
parts, `OwnInv` and `GivenInv`. Whose answer: no two threads serve the same client, nor one that still waits in the
backlog (`ServesInv`, `BacklogInv`), and descriptor 0 changes hands at most once (`ZeroInv`), so
that one thread without a client does no harm. What answer: as long as nothing
was read out of step, whatever is in the cache under a name, or in a reply that is being read, is in a
reply a server gave for this very name, with this address, so it does not matter
which thread put it there, nor that the thread reads the cache once more for the answer. What a
misread reply may be is left open but for its type (`Misread` is any set of replies), and the first part
does not depend on it.

`TransferServer_proofs` proves `TypeHolds` from `TransferAssumption` and `ClientAssumption`,
with every fault, and `OwnFileHolds` where main takes no time-out for a connection
(`"idle" \notin Faults`; see `server.cpp:445` above for what happens otherwise): for any
clients, files, ports, limit and descriptors, whatever the name server grants twice,
whichever files fail and whoever dies, a client that is in a transfer gets the file it was last
told, from the thread of its own connection, and a checksum of that file. The argument:
working threads share no descriptor and no client (`Apart`, `Peers`, `Passing`), although
every early return leaves its sockets open; for a number is free only when nobody uses it. A "file:" line that was
not read yet is the last thing its client has to read, its port is listened on, and a thread that
offers a file there offers that one, to that client (`Offers`): `bind` fails while anybody
listens, so nobody else can come between. Hence whoever waits in the queue of a thread
is the client it serves (`Serving`), which has read everything and holds no file (`Ready`) until
the thread sends, and that file until its checksum. `Polite` is the same seen by the client:
no checksum behind another announcement, nothing behind "done".

`TransfersAdvance`, with every fault: a thread takes five steps at most for each file of its directory
(`StepsLeft`), every step of its own lowers the number, and no step of main, of a client, of another thread
or of the name server touches the thread.

`TransferPlaces_proofs` goes on from that invariant, each theorem under the hypotheses it needs.

* *No time-out taken for a connection* (`"idle" \notin Faults`), every other fault included.
  `ApartHolds`: no two threads use a descriptor in common. `ConnectionsStay`: the server closes a
  connection only on a client that has said goodbye. With "idle" a thread closes descriptor 0, and then whatever gets that number.
* *Nobody dies in a conversation, and a port for each client* (`Mild`: only clients that hang up between
  commands, files that fail and leases that end). `LimitHolds`: no more than `Limit` threads, though main tests the count up to 50
  seconds before it raises it. `PlacesHold`: unless clients hang up, the count is exact. The argument
  (`PlacesInv`): only main raises the count, and while it accepts it has left room for one; a thread
  lowers it only when it ends. The second is where the hypotheses come in, for the handler of SIGPIPE and a refused
  port lower the count too: nobody that a thread sends to has left (`AliveInv`), because a client that is
  told of a file waits for its thread, which offers it (`AnnouncedInv`), and so throws no exception; and no
  thread is refused a port, since each has one at most and no client comes twice (`PortsInv`, by counting).
  `server.cpp:54` and `454` above say what happens without `Mild`.
* *No port shared besides* (`Calm`, `Unshared`). Any number of clients may be served at once, up to any
  limit; files can be read, nobody dies, leases may run out, and there are three descriptors for each place.
  What is taken for granted of the behaviour is that while a thread is in a transfer on a port, the name
  server grants that port to no other thread that starts one (`Unshared`, until a shutdown). It has to be: the port is released after every file
  (`server.cpp:324`), and once two share one, the next `bind` may fail, the file is passed over
  and its socket leaks, which is what `TransferServerRegrant.cfg` shows. Where the limit is 1 it is not an
  assumption but follows (`AloneUnshared`).
  `DescriptorsHold`: every descriptor in use is that of a thread or of the client just accepted.
  `DoneHolds`: "done" means every file. The second also takes that the client who shuts the server down
  is the last one (`Lasting`), for `main` ends the process under the others (`server.cpp:340`). The
  argument: a thread uses three descriptors at most, one that is about to open another has two, and `main` holds one only for a
  thread there is room for, so counting says that one is free (`Spared`); nobody else listens on the port, since
  who listens is in a transfer, so `bind` succeeds (`Spare`); hence
  no early return of `send_file_to_client` is taken (`Smooth`), and what is opened is closed (`OwnedInv`). Then
  what the client has is what its own thread has sent (`SentInv`), up to the file before the one it
  works on, whatever the threads beside it do (`OthersListen`), and "done" follows the last.

* *The refinement of `TransferService`.* `OrderHolds` (under `"idle" \notin Faults` again): the server
  implements the lossy service, whatever fails, whoever dies and however many are served. `WholeHolds`
  (in the case of `DoneHolds`): it implements the one that passes nothing over. The invariant (`OrderInv`) looks ahead:
  a client has nothing from the file on that its thread works on, nor from the one on that a line it has not read
  announces; a client that has a command under way, or a refusal to read, has nothing. It uses `Serving` at each send
  (when a thread has sent a file, its client has read everything and is in no other place of the directory), and for `WholeHolds`
  `SentInv`. `Turn` says what a step may make of one client; `ClientTurns` goes through the steps of
  clients, `ThreadGot` shows that threads take none, and `TurnServes` translates.

Only model-checked: liveness (`EveryRequestAnswered`, `CallReturns`, `HandlerReturns`,
`ServerMovesOn`, `LookupAnswered`, `ShutdownEnds`), which the prover does not do. Four of them
rest on a variant that is proved: `ServerAdvances`, `CallsAdvance`, `TransfersAdvance` and
`ServingAdvances` say that each step of the one that works brings it nearer to its end and that no step of others
takes it back. That a step is possible, and taken in the end, is the part for fairness and
`ENABLED`, and TLC's. Also only model-checked: the
properties of `DnsMessage` (what its recursive functions compute for every message is out of the prover's
reach). The properties of the violated runs are not theorems, of course.

## Not modelled

* Vendored test frameworks (`unity` in four directories, `munit`), the unit tests themselves,
  course samples and scratch files. They are two thirds of the lines of the repository.
* `lab5` lookup, `clearport`: one request and one answer, no state. The echo server of
  `lab4_old/old`: a course sample. `tscounter.c`: nothing calls it. `nameserver.cs`: nothing
  calls it either; its swap of a port through a 64-bit integer truncates to 0.
* `lab4_old/getport.c` and other copies of files modelled elsewhere, which differ in white space.
* In the resolver: the overflows of its fixed buffers (`read_address` writes up to four
  bytes into two), the wording `g_verbose` chooses, and descriptors other than 0, of which
  every query and every dump leaks one.
* Logging, options, directory listing (`get_file_names_in_dir`), file contents.
* Duplicated datagrams; memory unsafety other than the outcomes named above.
