---------------------------- MODULE TransferServer ----------------------------
(***************************************************************************)
(* The file transfer server of lab4/server.cpp: a main thread that accepts *)
(* control connections and one detached thread per connection, sharing a   *)
(* descriptor table, an atomic count of clients and a plain shutdown flag. *)
(* Descriptors are numbers, reused lowest first, and every call finds what *)
(* its number means in the table at the time of the call: that is what     *)
(* makes a leaked, closed or mistaken descriptor visible to other threads. *)
(***************************************************************************)
EXTENDS TransferClient, FiniteSets

CONSTANTS
  Files,        \* files in the directory a "get" names
  Limit,        \* clients served at once (5 in the code)
  Port,         \* ports the lab4 name server may grant
  Descriptors,  \* highest descriptor the process may open
  MaxThreads,   \* bound on the threads after which no accept times out
  Faults        \* what may go wrong, see FaultKinds

FaultKinds == {"idle",    \* no client connects for the 50 s of timed_accept
               "slow",    \* a client takes more than 50 s to fetch a file
               "file",    \* a listed file cannot be opened or summed
               "hangup",  \* a client leaves between two commands
               "crash",   \* a client dies while it waits for an answer
               "ns",      \* the name server grants no port
               "expire"}  \* the lease of a granted port runs out

ASSUME TransferAssumption ==
  /\ {Files, Limit, MaxThreads} \subseteq Nat \ {0}
  /\ Port \subseteq Nat \ {0}
  /\ Descriptors \in Nat /\ Descriptors >= 2
  /\ Faults \subseteq FaultKinds

VARIABLES
  fds,              \* descriptor -> what it is open on
  counter,          \* transfer_service_counter
  server_shutdown,
  main,             \* the main thread: where it is, *sock_fd
  threads,          \* HandleTCPClient, one per connection, in order of start
  pool,             \* external: port -> thread the name server granted it to
  backlog           \* connections on sock_desc not accepted yet

vars == <<fds, counter, server_shutdown, main, threads, pool, backlog, client>>

NoThread == 0

(***************************************************************************)
(* Descriptors.                                                            *)
(***************************************************************************)
Closed         == [kind |-> "closed"]
Other          == [kind |-> "other"]
Conn(c)        == [kind |-> "conn", peer |-> c]
Data(c)        == [kind |-> "data", peer |-> c]
Listening(p, q) == [kind |-> "listen", port |-> p, queue |-> q]

Is(d, kind) == d \in DOMAIN fds /\ fds[d].kind = kind
Free        == {d \in DOMAIN fds : Is(d, "closed")}
Lowest      == IF Free = {} THEN -1 ELSE CHOOSE d \in Free : \A e \in Free : d <= e
Listeners(p) == {d \in DOMAIN fds : Is(d, "listen") /\ fds[d].port = p}
Close(D)    == fds' = [d \in DOMAIN fds |-> IF d \in D THEN Closed ELSE fds[d]]

Serves(h)   == IF Is(threads[h].sock, "conn") THEN fds[threads[h].sock].peer ELSE NoClient

(***************************************************************************)
(* send on a control connection.  The first message to a peer that is gone *)
(* only breaks the connection; later ones may raise SIGPIPE, whose handler *)
(* counts a client out.                                                    *)
(***************************************************************************)
SendFrom(peers, h, m) ==
  LET c == Serves(h) IN
    /\ client' = IF c = NoClient THEN peers
                 ELSE IF Alive(c) THEN [peers EXCEPT ![c].out = Append(@, m)]
                 ELSE [peers EXCEPT ![c].broken = TRUE]
    /\ counter' \in IF c # NoClient /\ client[c].broken THEN {counter, counter - 1} ELSE {counter}

Send(h, m) == SendFrom(client, h, m)

(***************************************************************************)
(* The main thread.                                                        *)
(***************************************************************************)
Init ==
  /\ fds = [d \in 0..Descriptors |-> IF d <= 2 THEN Other ELSE Closed]
  /\ counter = 0
  /\ server_shutdown = FALSE
  /\ main = [pc |-> "loop", sock_fd |-> 0]
  /\ threads = <<>>
  /\ pool = [p \in Port |-> NoThread]
  /\ backlog = <<>>
  /\ ClientInit

MainAt(pc, sock) == main' = [pc |-> pc, sock_fd |-> sock]

\* mutants of Loop: one client too many; the flag is read under the count
LoopOneMore ==
  /\ main.pc = "loop"
  /\ \/ server_shutdown /\ MainAt("ended", 0)
     \/ ~server_shutdown /\ counter <= Limit /\ MainAt("accept", 0)
  /\ UNCHANGED <<fds, counter, server_shutdown, threads, pool, backlog, client>>
LoopCountFirst ==
  /\ main.pc = "loop" /\ counter < Limit
  /\ MainAt(IF server_shutdown THEN "ended" ELSE "accept", 0)
  /\ UNCHANGED <<fds, counter, server_shutdown, threads, pool, backlog, client>>

\* the loop condition, and the test of the count before the keep-alive
Loop ==
  /\ main.pc = "loop"
  /\ \/ server_shutdown /\ MainAt("ended", 0)
     \/ ~server_shutdown /\ counter < Limit /\ MainAt("accept", 0)
  /\ UNCHANGED <<fds, counter, server_shutdown, threads, pool, backlog, client>>

Accept ==
  /\ main.pc = "accept" /\ backlog # <<>>
  /\ \/ /\ Lowest = -1 /\ MainAt("loop", 0)
        /\ UNCHANGED <<fds, backlog>>
     \/ /\ Lowest # -1 /\ MainAt("accepted", Lowest)
        /\ fds' = [fds EXCEPT ![Lowest] = Conn(Head(backlog))]
        /\ backlog' = Tail(backlog)
  /\ UNCHANGED <<counter, server_shutdown, threads, pool, client>>

\* timed_accept returns 0 when the time is up, and only -1 counts as a failure
AcceptTimesOut ==
  /\ main.pc = "accept" /\ backlog = <<>>
  /\ server_shutdown \/ ("idle" \in Faults /\ Len(threads) < MaxThreads)
  /\ MainAt("accepted", 0)
  /\ UNCHANGED <<fds, counter, server_shutdown, threads, pool, backlog, client>>

Admit ==
  /\ main.pc = "accepted"
  /\ \/ server_shutdown /\ MainAt("loop", 0) /\ UNCHANGED counter
     \/ ~server_shutdown /\ MainAt("admitted", main.sock_fd) /\ counter' = counter + 1
  /\ UNCHANGED <<fds, server_shutdown, threads, pool, backlog, client>>

Thread(pc, sock, port) ==
  [pc |-> pc, sock |-> sock, port |-> port, file |-> 1, lsock |-> 0, tsock |-> 0]

\* get_port_from_ns, and the thread, which starts whatever came of it
Spawn ==
  /\ main.pc = "admitted"
  /\ LET h     == Len(threads) + 1
         Grant == {p \in Port : pool[p] = NoThread} IN
       \/ \E p \in Grant :
            /\ pool' = [pool EXCEPT ![p] = h]
            /\ threads' = Append(threads, Thread("recv", main.sock_fd, p))
            /\ UNCHANGED counter
       \/ /\ Grant = {} \/ "ns" \in Faults
          /\ threads' = Append(threads, Thread("recv", main.sock_fd, NoPort))
          /\ counter' = counter - 1
          /\ UNCHANGED pool
  /\ MainAt("loop", 0)
  /\ UNCHANGED <<fds, server_shutdown, backlog, client>>

MainStep == Loop \/ Accept \/ AcceptTimesOut \/ Admit \/ Spawn

(***************************************************************************)
(* HandleTCPClient.                                                        *)
(***************************************************************************)
At(h, pc)   == h \in DOMAIN threads /\ threads[h].pc = pc /\ main.pc # "ended"
Go(h, pc)   == threads' = [threads EXCEPT ![h].pc = pc]
Finish(h)   == threads' = [threads EXCEPT ![h] = Thread("ended", 0, NoPort)]

Receive(h, cmd) ==
  /\ At(h, "recv") /\ Serves(h) # NoClient
  /\ client[Serves(h)].inbox = <<cmd>>

Drained(d) == Is(d, "conn") => client[fds[d].peer].inbox = <<>>

Taken(h) == [client EXCEPT ![Serves(h)].inbox = <<>>]

\* mutant of ReceiveGet: goes on where the last transfer ended
ReceiveGetGoesOn(h) ==
  /\ Receive(h, "get")
  /\ client' = Taken(h)
  /\ Go(h, "listen")
  /\ UNCHANGED <<fds, counter, server_shutdown, main, pool, backlog>>

ReceiveGet(h) ==
  /\ Receive(h, "get")
  /\ client' = Taken(h)
  /\ threads' = [threads EXCEPT ![h].pc = "listen", ![h].file = 1]
  /\ UNCHANGED <<fds, counter, server_shutdown, main, pool, backlog>>

\* an empty or missing directory, or a request it does not know
ReceiveBad(h) ==
  /\ Receive(h, "bad")
  /\ SendFrom(Taken(h), h, Message("error:", 0, 0))
  /\ UNCHANGED <<fds, server_shutdown, main, threads, pool, backlog>>

\* mutant of ReceiveExit: the place is not given back
ReceiveExitUncounted(h) ==
  /\ Receive(h, "exit")
  /\ client' = Taken(h)
  /\ Close({threads[h].sock})
  /\ Finish(h)
  /\ UNCHANGED <<counter, server_shutdown, main, pool, backlog>>

ReceiveExit(h) ==
  /\ Receive(h, "exit")
  /\ client' = Taken(h)
  /\ Close({threads[h].sock})
  /\ counter' = counter - 1
  /\ Finish(h)
  /\ UNCHANGED <<server_shutdown, main, pool, backlog>>

ReceiveShutdown(h) ==
  /\ Receive(h, "shutdown")
  /\ client' = Taken(h)
  /\ Close({threads[h].sock})
  /\ server_shutdown' = TRUE
  /\ Go(h, "stop")
  /\ UNCHANGED <<counter, main, pool, backlog>>

StopAccepting(h) ==
  /\ At(h, "stop")
  /\ counter' = 100
  /\ Finish(h)
  /\ UNCHANGED <<fds, server_shutdown, main, pool, backlog, client>>

\* recv returns 0: the loop ends, the descriptor and the count stay
ReceiveNothing(h) ==
  /\ At(h, "recv")
  /\ LET d == threads[h].sock IN
       /\ Is(d, "conn") \/ Is(d, "data")
       /\ Drained(d) /\ ~Alive(fds[d].peer)
  /\ Finish(h)
  /\ UNCHANGED <<fds, counter, server_shutdown, main, pool, backlog, client>>

\* recv fails: the peer reset the connection, or the descriptor is no connection
ReceiveFails(h) ==
  /\ At(h, "recv")
  /\ LET d == threads[h].sock IN
       IF Is(d, "conn") \/ Is(d, "data")
         THEN LET c == fds[d].peer IN
                Drained(d) /\ ~Alive(c) /\ (client[c].broken \/ client[c].pc = "crashed")
         ELSE TRUE
  /\ Close({threads[h].sock})
  /\ counter' = counter - 1
  /\ Finish(h)
  /\ UNCHANGED <<server_shutdown, main, pool, backlog, client>>

(***************************************************************************)
(* send_file_to_client.  Every early return leaves open what it opened.    *)
(***************************************************************************)
\* mutant of Announce: the result of bind is not looked at
AnnounceUnbound(h) ==
  /\ At(h, "listen") /\ Lowest # -1
  /\ fds' = [fds EXCEPT ![Lowest] = Listening(threads[h].port, <<>>)]
  /\ threads' = [threads EXCEPT ![h].pc = "accept", ![h].lsock = Lowest]
  /\ Send(h, Message("file:", threads[h].file, threads[h].port))
  /\ UNCHANGED <<server_shutdown, main, pool, backlog>>

\* socket, bind, listen and the "file:" message; bind fails while another
\* socket listens on the port
Announce(h) ==
  /\ At(h, "listen") /\ Lowest # -1 /\ Listeners(threads[h].port) = {}
  /\ fds' = [fds EXCEPT ![Lowest] = Listening(threads[h].port, <<>>)]
  /\ threads' = [threads EXCEPT ![h].pc = "accept", ![h].lsock = Lowest]
  /\ Send(h, Message("file:", threads[h].file, threads[h].port))
  /\ UNCHANGED <<server_shutdown, main, pool, backlog>>

AnnounceFails(h) ==
  /\ At(h, "listen")
  /\ \/ Lowest = -1 /\ UNCHANGED fds
     \/ /\ Lowest # -1 /\ Listeners(threads[h].port) # {}
        /\ fds' = [fds EXCEPT ![Lowest] = Other]
  /\ Go(h, "next")
  /\ UNCHANGED <<counter, server_shutdown, main, pool, backlog, client>>

\* descriptor 0 is taken for a failure
AcceptData(h) ==
  /\ At(h, "accept")
  /\ LET l == threads[h].lsock IN
       /\ Is(l, "listen") /\ fds[l].queue # <<>>
       /\ IF Lowest = -1
            THEN Go(h, "next") /\ UNCHANGED fds
            ELSE /\ fds' = [fds EXCEPT ![l].queue = Tail(@),
                                       ![Lowest] = Data(Head(fds[l].queue))]
                 /\ threads' = [threads EXCEPT ![h].tsock = Lowest,
                                  ![h].pc = IF Lowest <= 0 THEN "next" ELSE "send"]
  /\ UNCHANGED <<counter, server_shutdown, main, pool, backlog, client>>

AcceptDataFails(h) ==
  /\ At(h, "accept")
  /\ LET l == threads[h].lsock IN
       \/ ~Is(l, "listen")
       \/ /\ Is(l, "listen") /\ fds[l].queue = <<>>
          /\ "slow" \in Faults \/ ~\E c \in Client : c = Serves(h) /\ Alive(c)
  /\ Go(h, "next")
  /\ UNCHANGED <<fds, counter, server_shutdown, main, pool, backlog, client>>

Reads(h) == IF Is(threads[h].tsock, "data") THEN fds[threads[h].tsock].peer ELSE NoClient

\* mutants of SendFile: the listening socket is not closed; the control connection
\* is closed in its place
SendFileClosesControl(h) ==
  /\ At(h, "send") /\ Reads(h) # NoClient
  /\ client' = [client EXCEPT ![Reads(h)].data =
                   IF Alive(Reads(h)) THEN [owner |-> Serves(h), file |-> threads[h].file]
                                      ELSE @]
  /\ Close({threads[h].tsock, threads[h].sock})
  /\ Go(h, "md5")
  /\ UNCHANGED <<counter, server_shutdown, main, pool, backlog>>
SendFileListening(h) ==
  /\ At(h, "send") /\ Reads(h) # NoClient
  /\ client' = [client EXCEPT ![Reads(h)].data =
                   IF Alive(Reads(h)) THEN [owner |-> Serves(h), file |-> threads[h].file]
                                      ELSE @]
  /\ Close({threads[h].tsock})
  /\ Go(h, "md5")
  /\ UNCHANGED <<counter, server_shutdown, main, pool, backlog>>

SendFile(h) ==
  /\ At(h, "send") /\ Reads(h) # NoClient
  /\ client' = [client EXCEPT ![Reads(h)].data =
                   IF Alive(Reads(h)) THEN [owner |-> Serves(h), file |-> threads[h].file]
                                      ELSE @]
  /\ Close({threads[h].tsock, threads[h].lsock})
  /\ Go(h, "md5")
  /\ UNCHANGED <<counter, server_shutdown, main, pool, backlog>>

\* fopen fails, or a send does, with the file still open
SendFileFails(h) ==
  /\ At(h, "send")
  /\ \/ "file" \in Faults /\ UNCHANGED <<fds, counter>>
     \/ /\ Reads(h) = NoClient \/ ~Alive(Reads(h))
        /\ fds' = IF Lowest = -1 THEN fds ELSE [fds EXCEPT ![Lowest] = Other]
        /\ counter' \in IF Reads(h) = NoClient THEN {counter} ELSE {counter, counter - 1}
  /\ Go(h, "next")
  /\ UNCHANGED <<server_shutdown, main, pool, backlog, client>>

SendMd5(h) ==
  /\ At(h, "md5")
  /\ \/ Send(h, Message("md5sum:", threads[h].file, 0))
     \/ "file" \in Faults /\ UNCHANGED <<counter, client>>
  /\ Go(h, "next")
  /\ UNCHANGED <<fds, server_shutdown, main, pool, backlog>>

\* release_port; the name server takes back only what it still has granted
Release(h) ==
  pool' = [p \in Port |-> IF p = threads[h].port /\ pool[p] = h THEN NoThread ELSE pool[p]]

\* mutants of NextFile: "done" one file early and one file late, the same file again
NextFileEarly(h) ==
  /\ At(h, "next")
  /\ IF threads[h].file + 1 >= Files
       THEN Send(h, Message("done", 0, 0)) /\ Go(h, "recv")
       ELSE /\ threads' = [threads EXCEPT ![h].pc = "listen", ![h].file = @ + 1]
            /\ UNCHANGED <<counter, client>>
  /\ Release(h)
  /\ UNCHANGED <<fds, server_shutdown, main, backlog>>
NextFileLate(h) ==
  /\ At(h, "next")
  /\ IF threads[h].file > Files
       THEN Send(h, Message("done", 0, 0)) /\ Go(h, "recv")
       ELSE /\ threads' = [threads EXCEPT ![h].pc = "listen", ![h].file = @ + 1]
            /\ UNCHANGED <<counter, client>>
  /\ Release(h)
  /\ UNCHANGED <<fds, server_shutdown, main, backlog>>
NextFileAgain(h) ==
  /\ At(h, "next")
  /\ IF threads[h].file = Files
       THEN Send(h, Message("done", 0, 0)) /\ Go(h, "recv")
       ELSE Go(h, "listen") /\ UNCHANGED <<counter, client>>
  /\ Release(h)
  /\ UNCHANGED <<fds, server_shutdown, main, backlog>>

\* back in HandleTCPClient: "done" after the last file, release_port after each
NextFile(h) ==
  /\ At(h, "next")
  /\ IF threads[h].file = Files
       THEN /\ Send(h, Message("done", 0, 0))
            /\ Go(h, "recv")
       ELSE /\ threads' = [threads EXCEPT ![h].pc = "listen", ![h].file = @ + 1]
            /\ UNCHANGED <<counter, client>>
  /\ Release(h)
  /\ UNCHANGED <<fds, server_shutdown, main, backlog>>

ThreadStep(h) ==
  \/ ReceiveGet(h) \/ ReceiveBad(h) \/ ReceiveExit(h) \/ ReceiveShutdown(h)
  \/ StopAccepting(h) \/ ReceiveNothing(h) \/ ReceiveFails(h)
  \/ Announce(h) \/ AnnounceFails(h) \/ AcceptData(h) \/ AcceptDataFails(h)
  \/ SendFile(h) \/ SendFileFails(h) \/ SendMd5(h) \/ NextFile(h)

(***************************************************************************)
(* The clients, where they meet the server's sockets.                      *)
(***************************************************************************)
Others == <<counter, server_shutdown, main, threads, pool>>

Connected(c) ==
  /\ main.pc # "ended"
  /\ \/ \E i \in DOMAIN backlog : backlog[i] = c
     \/ \E d \in DOMAIN fds : fds[d] = Conn(c)

Connect(c) ==
  /\ client[c].pc = "away" /\ main.pc # "ended"
  /\ client' = [client EXCEPT ![c].pc = "prompt"]
  /\ backlog' = Append(backlog, c)
  /\ UNCHANGED <<fds, Others>>

\* connect to the port of a "file:" line; a refusal is caught and forgotten
TakeFile(c) ==
  /\ \E r \in MayRead(c) :
       /\ Word(r) = "file:" /\ Line(r).port # NoPort
       /\ LET L == IF main.pc = "ended" THEN {} ELSE Listeners(Line(r).port)
              t == [Heard(c, r) EXCEPT !.told = Line(r).file] IN
            /\ client' = [client EXCEPT ![c] =
                 IF L = {} THEN t ELSE [t EXCEPT !.pc = "data", !.data = NoData]]
            /\ fds' = [d \in DOMAIN fds |->
                         IF d \in L THEN [fds[d] EXCEPT !.queue = Append(@, c)] ELSE fds[d]]
  /\ UNCHANGED <<backlog, Others>>

\* the server ended before the file: an IOException, or an empty file
DataLost(c) ==
  /\ client[c].pc = "data" /\ client[c].data = NoData /\ main.pc = "ended"
  /\ Die(c) \/ client' = [client EXCEPT ![c].pc = "waiting"]
  /\ UNCHANGED <<fds, backlog, Others>>

\* nobody is at the other end: Read throws, or returns 0 for ever
EndOfStream(c) ==
  /\ client[c].pc = "waiting" /\ client[c].out = <<>> /\ ~Connected(c)
  /\ Die(c) \/ client' = [client EXCEPT ![c].pc = "spins"]
  /\ UNCHANGED <<fds, backlog, Others>>

Reading(c) ==
  \/ TakeFile(c) \/ DataLost(c) \/ EndOfStream(c)
  \/ (Hear(c) \/ Fail(c) \/ EndOfData(c)) /\ UNCHANGED <<fds, backlog, Others>>

Leave(c) ==
  /\ \/ "hangup" \in Faults /\ client[c].pc = "prompt"
        /\ client' = [client EXCEPT ![c].pc = "gone"]
     \/ "crash" \in Faults /\ client[c].pc \in {"waiting", "data"}
        /\ Die(c)
  /\ UNCHANGED <<fds, backlog, Others>>

\* external: nobody keeps the ports of transfers alive
Expire(p) ==
  /\ "expire" \in Faults /\ pool[p] # NoThread
  /\ pool' = [pool EXCEPT ![p] = NoThread]
  /\ UNCHANGED <<fds, counter, server_shutdown, main, threads, backlog, client>>

Next ==
  \/ MainStep
  \/ \E h \in DOMAIN threads : ThreadStep(h)
  \/ \E c \in Client : Connect(c) \/ Reading(c) \/ Leave(c)
  \/ (\E c \in Client, cmd \in Commands : Ask(c, cmd)) /\ UNCHANGED <<fds, backlog, Others>>
  \/ \E p \in Port : Expire(p)

Spec == Init /\ [][Next]_vars

\* Threads run and connected clients keep reading; nobody has to connect or ask.
FairSpec ==
  /\ Spec
  /\ WF_vars(MainStep)
  /\ \A h \in 1..(MaxThreads + Cardinality(Client)) : WF_vars(ThreadStep(h))
  /\ \A c \in Client : WF_vars(Reading(c))

(***************************************************************************)
(* Properties.                                                             *)
(***************************************************************************)
Live       == {h \in DOMAIN threads : threads[h].pc # "ended"}

\* Every variable ranges over the values the code gives it; the flag, the
\* count of 100 and the end of the main thread come in this order.
TypeOK ==
  /\ \A d \in 0..Descriptors :
       \/ fds[d] \in {Closed, Other} \cup {Conn(c) : c \in Client} \cup {Data(c) : c \in Client}
       \/ /\ Is(d, "listen") /\ fds[d].port \in Port \cup {NoPort}
          /\ \A i \in DOMAIN fds[d].queue : fds[d].queue[i] \in Client
  /\ counter \in Int /\ server_shutdown \in BOOLEAN
  /\ main.pc \in {"loop", "accept", "accepted", "admitted", "ended"}
  /\ main.sock_fd \in 0..Descriptors
  /\ main.pc = "ended" => server_shutdown
  /\ \A h \in DOMAIN threads :
       /\ threads[h].pc \in {"recv", "listen", "accept", "send", "md5", "next", "stop", "ended"}
       /\ threads[h].file \in 1..Files /\ threads[h].port \in Port \cup {NoPort}
       /\ threads[h].pc = "stop" => server_shutdown
  /\ \A p \in Port : pool[p] \in {NoThread} \cup DOMAIN threads
  /\ \A c \in Client : client[c].got \subseteq 1..Files /\ Len(client[c].inbox) <= 1

\* The count is tested before timed_accept and raised after it, and threads
\* lower it at any time; still no more than Limit threads run at once.
HandlersWithinLimit == ~server_shutdown => Cardinality(Live) <= Limit

\* What a client gets over the data connection it was told to open is the
\* file it was told, sent by the thread that serves it, and the checksum that
\* follows is of that file, although ports go back to the pool while in use and
\* reads run messages together.
OwnFileOnly ==
  \A c \in Client :
    LET Told == [owner |-> c, file |-> client[c].told] IN
      /\ client[c].pc = "data" => client[c].data \in {NoData, Told}
      /\ \A r \in MayRead(c) : IsSum(r) => client[c].data = Told /\ r[1].file = client[c].told

Uses(h) ==
  CASE threads[h].pc \in {"stop", "ended"}            -> {}
    [] threads[h].pc \in {"recv", "listen", "md5", "next"} -> {threads[h].sock}
    [] threads[h].pc = "accept" -> {threads[h].sock, threads[h].lsock}
    [] threads[h].pc = "send"   -> {threads[h].sock, threads[h].lsock, threads[h].tsock}

\* No thread reads, writes or closes a descriptor of another, whatever numbers the
\* threads before it closed or left open (server.cpp 224-225, 254, 331, 339).
DescriptorsApart == \A h, g \in Live : h # g => Uses(h) \cap Uses(g) = {}

\* Until a shutdown every open descriptor has a user: it is the connection, the
\* listener or the data connection of a thread, or on its way to one.
DescriptorsOwned ==
  ~server_shutdown =>
    {d \in 3..Descriptors : ~Is(d, "closed")} =
      (UNION {Uses(h) : h \in Live}) \cup
        (IF main.pc \in {"accepted", "admitted"} THEN {main.sock_fd} ELSE {})

\* A client takes "done" (and prints "File transfer complete") only when it has
\* every file of the directory, each with a matching checksum, however the
\* messages before it were read.
DoneMeansAll ==
  \A c \in Client : \A r \in MayRead(c) : Word(r) = "done" => Checked(client[c], r) = 1..Files

\* Until a shutdown the server closes no connection on a client: Read does not
\* return 0 (Program.cs would spin), whichever descriptors threads close.
ConnectionKept ==
  ~server_shutdown =>
    \A c \in Client : client[c].pc \in {"prompt", "waiting", "data"} => Connected(c)

\* The count is what it stands for: the threads, and the client main has
\* counted for the thread it is about to start (server.cpp 452, 473, 331).
PlacesCounted ==
  ~server_shutdown => counter = Cardinality(Live) + (IF main.pc = "admitted" THEN 1 ELSE 0)

\* What a client makes of all this: its place in the conversation, the file it reads
\* from a data connection, and the files it has.
Stages ==
  [c \in Client |->
     CASE client[c].pc = "away"                -> "away"
       [] client[c].pc = "prompt"              -> "idle"
       [] client[c].pc \in {"waiting", "data"} -> "asked"
       [] OTHER                                -> "left"]
Coming == [c \in Client |-> IF client[c].pc = "data" THEN client[c].told ELSE 0]
Got    == [c \in Client |-> client[c].got]

Ordered == INSTANCE TransferService WITH Lossy <- TRUE, stage <- Stages, coming <- Coming, have <- Got
Whole   == INSTANCE TransferService WITH Lossy <- FALSE, stage <- Stages, coming <- Coming, have <- Got

\* Files reach a client only while it waits for them, in the order of the directory and
\* each once at most (server.cpp 301-324, Program.cs 203-262), whichever are passed over,
\* whoever shares its port, and however its reads cut the messages.
DeliversInOrder == Ordered!ServiceSpec

\* No file is left out, and a conversation ends with all of them or, when the
\* request was refused, with none (server.cpp 278-324).
DeliversWhole == Whole!ServiceSpec

\* A conversation comes to an end (Program.cs 188: "to kill get <file>
\* conversations"): no client waits for a message of a thread that waits for
\* a command of this client.
NoMutualWait ==
  \A c \in Client, h \in DOMAIN threads :
    ~ /\ client[c].pc = "waiting" /\ client[c].out = <<>> /\ client[c].inbox = <<>>
      /\ At(h, "recv") /\ Serves(h) = c

\* A thread that was asked for a directory comes back for the next command,
\* whichever files fail and whatever its client does, unless the server ends.
HandlerReturns ==
  \A h \in 1..(MaxThreads + Cardinality(Client)) :
    At(h, "listen") ~> At(h, "recv") \/ main.pc = "ended"

\* After a shutdown command the server ends, whatever its clients do and whichever ports
\* the name server refuses, as long as that one answers.
ShutdownEnds == server_shutdown ~> main.pc = "ended"
=============================================================================
