------------------------------- MODULE Resolver -------------------------------
(***************************************************************************)
(* The DNS resolver of lab6: a main thread that accepts connections, a     *)
(* detached thread per connection, and two caches behind locks of their    *)
(* own.  A look-up asks one name server after the other, each found in the *)
(* cache under the name or what is left of it when labels are cut off, and *)
(* recurses for each; all calls share the list of servers contacted.       *)
(*                                                                         *)
(* A domain name is a value, Trim the name without its first label, Octets *)
(* its length: replies are read from behind the question that was asked,   *)
(* and nothing but the length of the name says where that is.              *)
(***************************************************************************)
EXTENDS Integers, Sequences, FiniteSets

CONSTANTS
  Name, EmptyName,
  NoName,       \* not a name: nothing to trim, nothing found
  Trim,         \* name -> the name without its first label, or NoName
  Octets,       \* name -> its length
  InAddr, NoAddress,  \* addresses of hosts
  Ns,           \* name servers, identified with their addresses
  root_server,
  Says,         \* external: <<server, name>> -> the answers it may give
  Misread,      \* external: what one may look like when it is read out of step
  Client,
  Requests,     \* client -> what it may ask for: names and commands
  Impatient,    \* clients that may leave before they are told
  Limit,        \* avail_threads at the start (100 in the code)
  MaxIdle,      \* bound on the accepts that time out before a shutdown
  Silent        \* servers that may fail to answer in time, or not at all

\* "output" is verbose or normal: the flag they set only chooses words
Command == {"dump", "output", "shutdown"}

\* what std::string allocates: with the count before it and the zero behind it,
\* more than 15 bytes
LongName == {n \in Name : Octets[n] + 2 > 15}

\* answers: names with their addresses; refers: both counts are positive; referral:
\* <<zone, server>> for each server that comes with an address
Reply == [answers : Seq(Name \X InAddr), refers : BOOLEAN, referral : Seq(Name \X Ns)]
Nothing == [answers |-> <<>>, refers |-> FALSE, referral |-> <<>>]

ASSUME ResolverAssumption ==
  /\ EmptyName \in Name /\ NoName \notin Name
  /\ Octets \in [Name -> Nat] /\ NoAddress \notin InAddr
  /\ Trim \in [Name -> Name \cup {NoName}] /\ Trim[EmptyName] = NoName
  /\ Says \in [(Ns \cup {root_server}) \X Name -> SUBSET Reply]
  /\ Misread \subseteq Reply
  /\ Requests \in [Client -> SUBSET (Name \cup Command)]
  /\ IsFiniteSet(Ns)
  /\ Limit \in Nat \ {0} /\ MaxIdle \in Nat

VARIABLES
  ns_cache,             \* zone -> its servers, in the order they were put there
  resolved_names_cache, \* name -> its address, or NoAddress
  avail_threads, g_shutdown,
  main,                 \* where the main thread is
  idle,                 \* accepts that have timed out
  threads,              \* handle_request, in order of start
  zero,                 \* what descriptor 0 is open on
  backlog,              \* connections not accepted yet
  client,               \* external: the peers
  seen,                 \* replies that may still lie on a stack, each with the
                        \* length of the name it is about
  misread               \* history: one has been read out of step

caches == <<ns_cache, resolved_names_cache>>
stack  == <<seen, misread>>
vars == <<caches, avail_threads, g_shutdown, main, idle, threads, zero, backlog, client, stack>>

Running(pc) == pc \notin {"ended", "wrecked"}

(***************************************************************************)
(* Descriptors: 0 is the input of the process until somebody closes it,    *)
(* and then the next socket; every other one belongs to one client.        *)
(***************************************************************************)
ZERO == "zero"
Peer(sock) == IF sock = ZERO THEN zero ELSE sock

\* what descriptor 0 is open on when it is no client's connection, and itself
ASSUME DescriptorAssumption == Client \cap {"stdin", "closed", "udp", ZERO} = {}

Init ==
  /\ ns_cache = [n \in Name |-> <<>>]
  /\ resolved_names_cache = [n \in Name |-> NoAddress]
  /\ avail_threads = Limit
  /\ g_shutdown = FALSE
  /\ main = "loop" /\ idle = 0
  /\ threads = <<>>
  /\ zero = "stdin"
  /\ backlog = <<>>
  /\ client = [c \in Client |-> [pc |-> "away", request |-> EmptyName, unread |-> FALSE, told |-> <<>>]]
  /\ seen = {} /\ misread = FALSE

(***************************************************************************)
(* wait_for_client.                                                        *)
(***************************************************************************)
Loop ==
  /\ main = "loop"
  /\ \/ g_shutdown /\ main' = "ended"
     \/ ~g_shutdown /\ avail_threads > 0 /\ main' = "accept"
  /\ UNCHANGED <<caches, avail_threads, g_shutdown, threads, zero, backlog, client, stack>>

Thread(sock) ==
  [pc |-> "recv", sock |-> sock, name |-> EmptyName, label |-> NoName, calls |-> <<>>,
   ns |-> root_server, contacted |-> {}, queries |-> 0, reply |-> Nothing, raced |-> FALSE]

Spawn(sock) ==
  /\ threads' = Append(threads, Thread(sock))
  /\ main' = "count"
  /\ UNCHANGED <<caches, avail_threads, g_shutdown, client, stack>>

Accept ==
  /\ main = "accept" /\ backlog # <<>>
  /\ backlog' = Tail(backlog)
  /\ zero' = IF zero = "closed" THEN Head(backlog) ELSE zero
  /\ Spawn(IF zero = "closed" THEN ZERO ELSE Head(backlog))

\* mutant: an accept without a time-out
AcceptForever ==
  /\ main = "accept" /\ backlog = <<>> /\ idle < MaxIdle
  /\ idle' = idle + 1
  /\ Spawn(ZERO)
  /\ UNCHANGED <<zero, backlog>>

\* 0 from select is no failure, and client_sock is unsigned
AcceptTimesOut ==
  /\ main = "accept" /\ backlog = <<>>
  /\ g_shutdown \/ idle < MaxIdle
  /\ idle' = IF g_shutdown THEN idle ELSE idle + 1
  /\ Spawn(ZERO)
  /\ UNCHANGED <<zero, backlog>>

CountOut ==
  /\ main = "count"
  /\ avail_threads' = avail_threads - 1
  /\ main' = "loop"
  /\ UNCHANGED <<caches, g_shutdown, threads, zero, backlog, client, stack>>

MainStep ==
  \/ AcceptTimesOut
  \/ (Loop \/ Accept \/ CountOut) /\ UNCHANGED idle

(***************************************************************************)
(* handle_request and handle_message.                                      *)
(***************************************************************************)
At(h, pc) == h \in DOMAIN threads /\ threads[h].pc = pc /\ Running(main)
Go(h, pc) == threads' = [threads EXCEPT ![h].pc = pc]

\* convert_to_dns_format returns the buffer of a string that is gone; that of a
\* long one has been given back and overwritten
Label(n) == IF n \in LongName THEN {n, EmptyName} ELSE {n}

\* GetNS for a label: the lock covers equal_range only, and the iterators are
\* used after it is released
GetNS(t, pc, n) == {[t EXCEPT !.pc = pc, !.label = l, !.raced = FALSE] : l \in Label(n)}
Becomes(h, T) == \E t \in T : threads' = [threads EXCEPT ![h] = t]

Begin(h, n) == Becomes(h, GetNS([threads[h] EXCEPT !.name = n], "start", n))

\* the message, or an empty name when recv fails or the peer has left; on the
\* socket of a query that is over there is nothing to receive
Receive(h) ==
  /\ At(h, "recv")
  /\ LET c == Peer(threads[h].sock) IN
       IF c \notin Client THEN c # "udp" /\ Begin(h, EmptyName) /\ UNCHANGED client
       ELSE /\ client[c].unread \/ client[c].pc = "gone"
            /\ client' = [client EXCEPT ![c].unread = FALSE]
            /\ IF ~client[c].unread THEN Begin(h, EmptyName)
               ELSE IF client[c].request \in Command THEN Go(h, client[c].request)
               ELSE Begin(h, client[c].request)
  /\ UNCHANGED <<caches, avail_threads, g_shutdown, main, zero, backlog, stack>>

Told(h, m) ==
  LET c == Peer(threads[h].sock) IN
    client' = IF c \in Client THEN [client EXCEPT ![c].told = Append(@, m)] ELSE client
Close(h) == zero' = IF threads[h].sock = ZERO THEN "closed" ELSE zero
Found(n) == [type |-> "found", name |-> n, address |-> resolved_names_cache[n]]
NotFound(n) == [type |-> "not found", name |-> n, address |-> NoAddress]
Done(cmd) == [type |-> cmd, name |-> NoName, address |-> NoAddress]

\* mutant: the place is not given back
FinishKeepsPlace(h, m) ==
  /\ Told(h, m)
  /\ threads' = [threads EXCEPT ![h] = [Thread(@.sock) EXCEPT !.pc = "ended"]]
  /\ UNCHANGED avail_threads

\* the end of handle_message and of handle_request
Finish(h, m) ==
  /\ Told(h, m)
  /\ avail_threads' = avail_threads + 1
  /\ threads' = [threads EXCEPT ![h] = [Thread(@.sock) EXCEPT !.pc = "ended"]]

SetOutput(h) ==
  /\ At(h, "output")
  /\ Finish(h, Done("output")) /\ Close(h)
  /\ UNCHANGED <<caches, g_shutdown, main, backlog, stack>>

SetShutdown(h) ==
  /\ At(h, "shutdown")
  /\ Finish(h, Done("shutdown")) /\ Close(h)
  /\ g_shutdown' = TRUE
  /\ UNCHANGED <<caches, main, backlog, stack>>

\* Serialize walks both tables without their locks; the connection stays open
Dump(h) ==
  /\ At(h, "dump")
  /\ \/ Finish(h, Done("dump")) /\ UNCHANGED main
     \/ threads[h].raced /\ main' = "wrecked" /\ UNCHANGED <<avail_threads, client, threads>>
  /\ UNCHANGED <<caches, g_shutdown, zero, backlog, stack>>

\* the answer to a look-up; the address is read from the cache once more
Respond(h) ==
  /\ \/ At(h, "found") /\ Finish(h, Found(threads[h].name))
     \/ At(h, "not found") /\ Finish(h, NotFound(threads[h].name))
  /\ Close(h)
  /\ UNCHANGED <<caches, g_shutdown, main, backlog, stack>>

(***************************************************************************)
(* The look-up: where_to_start walks the cache for the label and what it   *)
(* is trimmed to, then each call of send_dns_request asks its server, puts *)
(* what it says into the caches, and walks the cache for the next server.  *)
(* "calls" holds the labels of the calls that wait for an inner one.       *)
(***************************************************************************)
Entries(z)   == {ns_cache[z][i] : i \in DOMAIN ns_cache[z]}
NewIn(h, z)  == Entries(z) \ threads[h].contacted
FirstIn(h, z) ==
  {ns_cache[z][i] : i \in {j \in DOMAIN ns_cache[z] :
     ns_cache[z][j] \in NewIn(h, z) /\ \A k \in 1 .. j - 1 : ns_cache[z][k] \notin NewIn(h, z)}}

\* a walk that met an insertion may miss servers, or stray to other zones
Finds(h) ==
  IF threads[h].raced THEN UNION {NewIn(h, z) : z \in Name} ELSE FirstIn(h, threads[h].label)
MayFindNothing(h) == threads[h].raced \/ FirstIn(h, threads[h].label) = {}

\* where_to_start gets its copy of the list, so its server may be asked again
StartFinds(h) ==
  /\ At(h, "start")
  /\ \E n \in Finds(h) : threads' = [threads EXCEPT ![h].pc = "query", ![h].ns = n]
  /\ UNCHANGED <<caches, avail_threads, g_shutdown, main, zero, backlog, client, stack>>

\* mutant: trims a name of one label
StartTrimsAll(h) ==
  /\ At(h, "start") /\ MayFindNothing(h)
  /\ Becomes(h, GetNS(threads[h], "start", Trim[threads[h].label]))
  /\ UNCHANGED <<caches, avail_threads, g_shutdown, main, zero, backlog, client, stack>>

StartFindsNothing(h) ==
  /\ At(h, "start") /\ MayFindNothing(h)
  /\ LET n == Trim[threads[h].label] IN
       IF n # NoName THEN Becomes(h, GetNS(threads[h], "start", n))
       ELSE threads' = [threads EXCEPT ![h].pc = "query", ![h].ns = root_server]
  /\ UNCHANGED <<caches, avail_threads, g_shutdown, main, zero, backlog, client, stack>>

\* the look into the cache that comes before the first query
FindCached(h) ==
  /\ At(h, "query") /\ threads[h].queries = 0
  /\ resolved_names_cache[threads[h].name] # NoAddress
  /\ Go(h, "found")
  /\ UNCHANGED <<caches, avail_threads, g_shutdown, main, zero, backlog, client, stack>>

\* what the buffer may hold when nothing is received: nothing, a reply that is read
\* where its own records begin, and one whose records begin somewhere else
InStep(n)    == {Nothing} \cup {q[2] : q \in {s \in seen : s[1] = Octets[n]}}
OutOfStep(n) == {q[2] : q \in {s \in seen : s[1] # Octets[n] /\ s[2] # Nothing}}

Asks(h) ==
  /\ At(h, "query")
  /\ threads[h].queries = 0 => resolved_names_cache[threads[h].name] = NoAddress
Times(h) == Asks(h) /\ threads[h].ns \in Silent
Reads(h, r) ==
  /\ threads' = [threads EXCEPT ![h].pc = "answers", ![h].reply = r, ![h].queries = @ + 1]
  /\ zero' = IF zero = "closed" THEN "udp" ELSE zero
  /\ UNCHANGED <<caches, avail_threads, g_shutdown, main, backlog, client>>

\* sendto and recvfrom
Query(h) ==
  /\ Asks(h)
  /\ \E r \in Says[<<threads[h].ns, threads[h].name>>] :
       Reads(h, r) /\ seen' = seen \cup {<<Octets[threads[h].name], r>>}
  /\ UNCHANGED misread

\* without an answer in time the buffer is read as it is
QueryTimesOut(h) ==
  /\ Times(h)
  /\ \E r \in InStep(threads[h].name) : Reads(h, r)
  /\ UNCHANGED stack

\* the header counts as it is, and records are made of whatever comes
QueryMisreads(h) ==
  /\ Times(h)
  /\ \E r \in OutOfStep(threads[h].name), m \in Misread :
       Reads(h, [m EXCEPT !.refers = r.refers])
  /\ misread' = TRUE
  /\ UNCHANGED seen

\* or of pointers that go in circles
QueryGoesAstray(h) ==
  /\ Times(h) /\ OutOfStep(threads[h].name) # {}
  /\ main' = "wrecked"
  /\ UNCHANGED <<caches, avail_threads, g_shutdown, threads, zero, backlog, client, stack>>

\* an insertion while others iterate without the lock
Race(h, t, walking) ==
  threads' = [g \in DOMAIN threads |->
                IF g = h THEN t ELSE [threads[g] EXCEPT !.raced = @ \/ threads[g].pc \in walking]]

\* mutant: the address is kept under the name that was asked for
DecodeUnderQuestion(h) ==
  /\ At(h, "answers") /\ threads[h].reply.answers # <<>>
  /\ LET n == threads[h].name IN
       /\ resolved_names_cache' = [resolved_names_cache EXCEPT ![n] = Head(threads[h].reply.answers)[2]]
       /\ Race(h, [threads[h] EXCEPT !.reply.answers = Tail(@)],
               IF resolved_names_cache[n] = NoAddress THEN {"dump"} ELSE {})
  /\ UNCHANGED <<ns_cache, avail_threads, g_shutdown, main, zero, backlog, client, stack>>

DecodeAnswer(h) ==
  /\ At(h, "answers") /\ threads[h].reply.answers # <<>>
  /\ LET n == Head(threads[h].reply.answers)[1]
         a == Head(threads[h].reply.answers)[2] IN
       /\ resolved_names_cache' = [resolved_names_cache EXCEPT ![n] = a]
       /\ Race(h, [threads[h] EXCEPT !.reply.answers = Tail(@)],
               IF resolved_names_cache[n] = NoAddress THEN {"dump"} ELSE {})
  /\ UNCHANGED <<ns_cache, avail_threads, g_shutdown, main, zero, backlog, client, stack>>

\* send_dns_request returns false: to the loop of the call around it, or to
\* handle_message
ReturnFalse(h) ==
  LET calls == threads[h].calls IN
    threads' = IF calls = <<>> THEN [threads EXCEPT ![h].pc = "not found"]
               ELSE [threads EXCEPT ![h].pc = "walk", ![h].raced = FALSE, ![h].label = calls[Len(calls)],
                                    ![h].calls = SubSeq(calls, 1, Len(calls) - 1)]

\* true goes through all the calls at once
CheckAnswered(h) ==
  /\ At(h, "answers") /\ threads[h].reply.answers = <<>>
  /\ IF resolved_names_cache[threads[h].name] # NoAddress THEN Go(h, "found")
     ELSE IF ~threads[h].reply.refers THEN ReturnFalse(h)
     ELSE IF threads[h].reply.referral # <<>> THEN Go(h, "records")
     ELSE Becomes(h, GetNS(threads[h], "walk", threads[h].name))
  /\ UNCHANGED <<caches, avail_threads, g_shutdown, main, zero, backlog, client, stack>>

\* a server that is there already changes nothing: walks skip its second entry
DecodeReferral(h) ==
  /\ At(h, "records")
  /\ LET rest == Tail(threads[h].reply.referral)
         z == Head(threads[h].reply.referral)[1]
         n == Head(threads[h].reply.referral)[2]
         t == [threads[h] EXCEPT !.reply.referral = rest] IN
       /\ ns_cache' = [ns_cache EXCEPT ![z] = IF n \in Entries(z) THEN @ ELSE Append(@, n)]
       /\ \E u \in IF rest # <<>> THEN {t} ELSE GetNS(t, "walk", t.name) :
            Race(h, u, {"start", "walk", "dump"})
  /\ UNCHANGED <<resolved_names_cache, avail_threads, g_shutdown, main, zero, backlog, client, stack>>

\* mutant: the server is not noted
WalkForgets(h) ==
  /\ At(h, "walk")
  /\ \E n \in Finds(h) :
       threads' = [threads EXCEPT ![h].pc = "query", ![h].ns = n,
                     ![h].calls = Append(@, threads[h].label)]
  /\ UNCHANGED <<caches, avail_threads, g_shutdown, main, zero, backlog, client, stack>>

\* check_ns_cache_for_label notes the server before the inner call asks it
WalkFinds(h) ==
  /\ At(h, "walk")
  /\ \E n \in Finds(h) :
       threads' = [threads EXCEPT ![h].pc = "query", ![h].ns = n, ![h].contacted = @ \cup {n},
                     ![h].calls = Append(@, threads[h].label)]
  /\ UNCHANGED <<caches, avail_threads, g_shutdown, main, zero, backlog, client, stack>>

\* mutant: walks the cache for the same label again
WalkNeverTrims(h) ==
  /\ At(h, "walk") /\ MayFindNothing(h)
  /\ Becomes(h, GetNS(threads[h], "walk", threads[h].label))
  /\ UNCHANGED <<caches, avail_threads, g_shutdown, main, zero, backlog, client, stack>>

WalkFindsNothing(h) ==
  /\ At(h, "walk") /\ MayFindNothing(h)
  /\ LET n == Trim[threads[h].label] IN
       IF n # NoName THEN Becomes(h, GetNS(threads[h], "walk", n)) ELSE ReturnFalse(h)
  /\ UNCHANGED <<caches, avail_threads, g_shutdown, main, zero, backlog, client, stack>>

\* or it leaves the tree, or never ends
WalkGoesAstray(h) ==
  /\ At(h, "start") \/ At(h, "walk")
  /\ threads[h].raced
  /\ main' = "wrecked"
  /\ UNCHANGED <<caches, avail_threads, g_shutdown, threads, zero, backlog, client, stack>>

ThreadStep(h) ==
  /\ \/ Receive(h) \/ SetOutput(h) \/ SetShutdown(h) \/ Dump(h) \/ Respond(h)
     \/ StartFinds(h) \/ StartFindsNothing(h) \/ FindCached(h)
     \/ Query(h) \/ QueryTimesOut(h) \/ QueryMisreads(h) \/ QueryGoesAstray(h)
     \/ DecodeAnswer(h) \/ CheckAnswered(h) \/ DecodeReferral(h)
     \/ WalkFinds(h) \/ WalkFindsNothing(h) \/ WalkGoesAstray(h)
  /\ UNCHANGED idle

(***************************************************************************)
(* The peers.  dns_client connects, sends, and leaves with what it gets.   *)
(***************************************************************************)
Ask(c, r) ==
  /\ client[c].pc = "away" /\ Running(main)
  /\ client' = [client EXCEPT ![c].pc = "waiting", ![c].request = r, ![c].unread = TRUE]
  /\ backlog' = Append(backlog, c)
  /\ UNCHANGED <<caches, avail_threads, g_shutdown, main, threads, zero, stack>>

\* before its answer, and it may not have sent anything
Leave(c) ==
  /\ c \in Impatient
  /\ client[c].pc = "waiting" /\ client[c].told = <<>>
  /\ \E u \in {FALSE, client[c].unread} :
       client' = [client EXCEPT ![c].pc = "gone", ![c].unread = u]
  /\ UNCHANGED <<caches, avail_threads, g_shutdown, main, threads, zero, backlog, stack>>

Next ==
  \/ MainStep
  \/ \E h \in DOMAIN threads : ThreadStep(h)
  \/ (\E c \in Client : Leave(c) \/ \E r \in Requests[c] : Ask(c, r)) /\ UNCHANGED idle

Spec == Init /\ [][Next]_vars

\* main and the threads run; nobody has to ask
Fairness ==
  /\ WF_vars(MainStep)
  /\ \A h \in 1 .. (Cardinality(Client) + MaxIdle + 1) : WF_vars(ThreadStep(h))
-------------------------------------------------------------------------------
Busy == {h \in DOMAIN threads : threads[h].pc # "ended"}

\* The variables have their types; what a thread waits in, it has a label for.
TypeOK ==
  /\ ns_cache \in [Name -> Seq(Ns)]
  /\ resolved_names_cache \in [Name -> InAddr \cup {NoAddress}]
  /\ avail_threads \in Int /\ g_shutdown \in BOOLEAN
  /\ main \in {"loop", "accept", "count", "ended", "wrecked"}
  /\ zero \in {"stdin", "closed", "udp"} \cup Client
  /\ \A h \in DOMAIN threads :
       /\ threads[h].label \in Name \cup {NoName} /\ threads[h].calls \in Seq(Name)
       /\ threads[h].ns \in Ns \cup {root_server} /\ threads[h].contacted \subseteq Ns
       /\ threads[h].reply \in Reply
       /\ threads[h].pc \in {"start", "walk"} => threads[h].label \in Name

\* avail_threads counts the places, although a thread may raise it before
\* main, which has started it, lowers it (dns_resolver.cpp 311 and 330); so no
\* more threads than places run.
SlotsCounted ==
  LET busy == Cardinality(Busy) IN main # "wrecked" =>
    /\ busy <= Limit
    /\ avail_threads = Limit - busy + (IF main = "count" THEN 1 ELSE 0)

\* A client is told one thing, and it is about what it asked for: of a name, the
\* address that a server has given for this very name, whoever else put addresses
\* into the caches and whichever stale replies were read again, as long as none was
\* read out of step: k is where the records of a reply to the name asked now would
\* begin (dns_resolver.cpp 482).  A client that sent nothing is told of the empty
\* name.  Until a shutdown: the accept that times out after one starts a thread on
\* a descriptor that may be a client's.
Given == UNION {{q[2].answers[i] : i \in DOMAIN q[2].answers} : q \in seen}
AnswerIsOwn == ~g_shutdown =>
  \A c \in Client :
    /\ Len(client[c].told) <= 1
    /\ \A i \in DOMAIN client[c].told :
         LET m == client[c].told[i] IN
           \/ m.type = client[c].request
           \/ /\ m.type \in {"found", "not found"}
              /\ m.name = client[c].request \/ (client[c].pc = "gone" /\ m.name = EmptyName)
              /\ m.type = "found" /\ ~misread => <<m.name, m.address>> \in Given

\* A look-up asks every name server once at most, but for the one it starts at,
\* and its calls nest no deeper: referrals that go in circles end.
QueriesBounded ==
  \A h \in DOMAIN threads :
    /\ threads[h].queries <= Cardinality(Ns) + 1
    /\ Len(threads[h].calls) <= Cardinality(threads[h].contacted)

\* Every client that stays is answered, whatever the servers say or fail to
\* say, unless the resolver ends or is wrecked by an iterator.
LookupAnswered ==
  \A c \in Client :
    client[c].pc = "waiting" ~> client[c].told # <<>> \/ client[c].pc = "gone" \/ ~Running(main)

\* After a shutdown command the resolver ends.
ShutdownEnds == g_shutdown ~> ~Running(main)
===============================================================================
