------------------------- MODULE TransferServer_proofs -------------------------
(***************************************************************************)
(* Type correctness of the file transfer server and, when main never gives *)
(* a thread the 0 of a time-out for a connection, that a client gets the   *)
(* file it was told and its checksum: for every number of clients, files,  *)
(* ports and descriptors, whatever fails and whoever dies.                 *)
(***************************************************************************)
EXTENDS TransferServer, SequenceTheorems, WellFoundedInduction, TLAPS

Kind == {"file:", "md5sum:", "done", "error:"}
Msg  == [type : Kind, file : Int, port : Int]
FileData == [owner : Client \cup {NoClient}, file : 1 .. Files]
ClientState ==
  [pc : {"away", "prompt", "waiting", "data", "spins", "gone", "crashed"}, sent : Int,
   inbox : {<<>>} \cup {<<x>> : x \in Commands}, out : Seq(Msg), broken : BOOLEAN,
   told : Int, data : {NoData} \cup FileData, got : SUBSET (1 .. Files)]
ThreadState ==
  [pc : {"recv", "listen", "accept", "send", "md5", "next", "stop", "ended"},
   sock : 0 .. Descriptors, port : Port \cup {NoPort}, file : 1 .. Files,
   lsock : 0 .. Descriptors, tsock : 0 .. Descriptors]
Fd ==
  {Closed, Other} \cup {Conn(c) : c \in Client} \cup {Data(c) : c \in Client}
    \cup {Listening(p, q) : p \in Port \cup {NoPort}, q \in Seq(Client)}

TableTypes  == fds \in [0 .. Descriptors -> Fd] /\ backlog \in Seq(Client)
MainTypes ==
  /\ counter \in Int /\ server_shutdown \in BOOLEAN
  /\ main \in [pc : {"loop", "accept", "accepted", "admitted", "ended"}, sock_fd : 0 .. Descriptors]
  /\ main.pc = "ended" => server_shutdown
ThreadTypes ==
  /\ threads \in Seq(ThreadState)
  /\ \A h \in DOMAIN threads : threads[h].pc = "stop" => server_shutdown
  /\ pool \in [Port -> {NoThread} \cup DOMAIN threads]
ClientTypes == client \in [Client -> ClientState]

Types == TableTypes /\ MainTypes /\ ThreadTypes /\ ClientTypes
-------------------------------------------------------------------------------
LEMMA Bounds ==
  /\ Descriptors \in Nat /\ 0 \in 0 .. Descriptors
  /\ Files \in Nat /\ Files >= 1 /\ 1 \in 1 .. Files
<1>1. Files \in Nat \ {0}
  BY TransferAssumption
<1> QED
  BY <1>1, TransferAssumption

\* What a descriptor is open on tells what it holds.
LEMMA FdFacts ==
  ASSUME NEW f \in Fd
  PROVE  /\ f.kind \in {"conn", "data"} => f.peer \in Client
         /\ f.kind = "conn" => f = Conn(f.peer)
         /\ f.kind = "data" => f = Data(f.peer)
         /\ f.kind = "closed" => f = Closed
         /\ f.kind = "listen" =>
              /\ f = Listening(f.port, f.queue)
              /\ f.port \in Port \cup {NoPort} /\ f.queue \in Seq(Client)
<1>1. CASE f \in {Closed, Other}
  BY <1>1 DEF Closed, Other
<1>2. ASSUME NEW c \in Client, f = Conn(c) \/ f = Data(c)
      PROVE  f.kind \in {"conn", "data"} /\ f.peer = c /\ (f.kind = "conn" <=> f = Conn(c))
             /\ (f.kind = "data" <=> f = Data(c))
  BY <1>2 DEF Conn, Data
<1>3. ASSUME NEW p \in Port \cup {NoPort}, NEW q \in Seq(Client), f = Listening(p, q)
      PROVE  f.kind = "listen" /\ f.port = p /\ f.queue = q
  BY <1>3 DEF Listening
<1> QED
  BY <1>1, <1>2, <1>3 DEF Fd

LEMMA FdMade ==
  /\ Closed \in Fd /\ Other \in Fd
  /\ \A c \in Client : Conn(c) \in Fd /\ Data(c) \in Fd
  /\ \A p \in Port \cup {NoPort}, q \in Seq(Client) : Listening(p, q) \in Fd
  BY DEF Fd

LEMMA SetQueue ==
  ASSUME NEW f \in Fd, f.kind = "listen", NEW r \in Seq(Client)
  PROVE  LET g == [f EXCEPT !.queue = r] IN
           g \in Fd /\ g.kind = "listen" /\ g.port = f.port /\ g.queue = r
<1>1. PICK p \in Port \cup {NoPort}, q \in Seq(Client) : f = Listening(p, q) /\ f.port = p
  BY FdFacts
<1>2. [f EXCEPT !.queue = r] = Listening(p, r)
  BY <1>1 DEF Listening
<1>3. Listening(p, r) \in Fd
  BY FdMade
<1>4. Listening(p, r).kind = "listen" /\ Listening(p, r).port = p /\ Listening(p, r).queue = r
  BY DEF Listening
<1> QED
  BY <1>1, <1>2, <1>3, <1>4

\* A number is free unless all are taken, and open sockets never get one again.
LEMMA LowestFacts ==
  ASSUME TableTypes
  PROVE  /\ Lowest # -1 => Lowest \in 0 .. Descriptors /\ fds[Lowest].kind = "closed"
         /\ \A d \in 0 .. Descriptors : IF fds[d].kind = "closed" THEN Lowest # -1 ELSE d # Lowest
<1>1. DOMAIN fds = 0 .. Descriptors
  BY DEF TableTypes
<1>2. Free \subseteq Nat
  BY <1>1, TransferAssumption DEF Free
<1>3. CASE Free = {}
  BY <1>1, <1>3 DEF Lowest, Free, Is
<1>4. CASE Free # {}
  <2> DEFINE R == {ss \in Nat \X Nat : ss[1] < ss[2]}
  <2>1. IsWellFoundedOn(R, Nat)
    BY NatLessThanWellFounded DEF OpToRel
  <2> SUFFICES ASSUME NEW x \in Free, \A y \in Free : ~(<<y, x>> \in R)
               PROVE  Lowest \in Free
    <3> HIDE DEF R
    <3>1. \E x \in Free : \A y \in Free : ~(<<y, x>> \in R)
      BY <1>2, <1>4, <2>1, WFMin
    <3>2. ASSUME Lowest \in Free
          PROVE  Lowest \in 0 .. Descriptors /\ Lowest # -1 /\ fds[Lowest].kind = "closed"
      BY <1>1, <3>2, TransferAssumption DEF Free, Is
    <3> QED
      BY <1>1, <3>1, <3>2
  <2>2. \A y \in Nat : y < x => <<y, x>> \in R
    BY <1>2
  <2> HIDE DEF R
  <2>3. ASSUME NEW y \in Free PROVE x <= y
    <3>1. x \in Nat /\ y \in Nat /\ ~(y < x)
      BY <1>2, <2>2
    <3> QED
      BY <3>1
  <2> QED
    BY <1>2, <1>4, <2>3 DEF Lowest
<1> QED
  BY <1>3, <1>4
-------------------------------------------------------------------------------
\* One descriptor, one client, one thread changes.
LEMMA SetFd ==
  ASSUME TableTypes, NEW d \in 0 .. Descriptors, NEW f \in Fd, fds' = [fds EXCEPT ![d] = f]
  PROVE  fds' \in [0 .. Descriptors -> Fd] /\ \A e \in 0 .. Descriptors : fds'[e] = IF e = d THEN f ELSE fds[e]
  BY DEF TableTypes

LEMMA ClosedFds ==
  ASSUME TableTypes, NEW D, Close(D)
  PROVE  fds' \in [0 .. Descriptors -> Fd] /\ \A e \in 0 .. Descriptors : fds'[e] = IF e \in D THEN Closed ELSE fds[e]
  BY FdMade DEF TableTypes, Close

LEMMA SetClient ==
  ASSUME ClientTypes, NEW c \in Client, NEW q \in ClientState, client' = [client EXCEPT ![c] = q]
  PROVE  ClientTypes' /\ \A b \in Client : client'[b] = IF b = c THEN q ELSE client[b]
  BY DEF ClientTypes

\* What a thread becomes.
Becomes(h, t) ==
  /\ t \in ThreadState /\ DOMAIN threads' = DOMAIN threads
  /\ \A g \in DOMAIN threads : threads'[g] = IF g = h THEN t ELSE threads[g]

LEMMA SetThread ==
  ASSUME ThreadTypes, NEW h \in DOMAIN threads, NEW t \in ThreadState, threads' = [threads EXCEPT ![h] = t]
  PROVE  threads' \in Seq(ThreadState) /\ Becomes(h, t)
<1>1. threads \in Seq(ThreadState) /\ h \in 1 .. Len(threads)
  BY LenProperties DEF ThreadTypes
<1>2. threads' \in Seq(ThreadState)
  BY <1>1, ExceptSeq
<1> QED
  BY <1>1, <1>2 DEF Becomes

LEMMA SetThreadTypes ==
  ASSUME ThreadTypes, NEW h \in DOMAIN threads, NEW t, threads' \in Seq(ThreadState), Becomes(h, t),
         server_shutdown => server_shutdown', t.pc = "stop" => server_shutdown',
         pool' \in [Port -> {NoThread} \cup DOMAIN threads]
  PROVE  ThreadTypes'
  BY DEF ThreadTypes, Becomes

\* A thread that goes on keeps what it holds.
Goes(t, u, pc) ==
  /\ u.pc = pc /\ u.sock = t.sock /\ u.port = t.port /\ u.file = t.file
  /\ u.lsock = t.lsock /\ u.tsock = t.tsock

ThreadPc == {"recv", "listen", "accept", "send", "md5", "next", "stop", "ended"}

LEMMA ThreadFacts ==
  ASSUME ThreadTypes, NEW h \in DOMAIN threads
  PROVE  threads[h] \in ThreadState /\ threads[h].sock \in 0 .. Descriptors /\ h \in Nat
<1>1. threads \in Seq(ThreadState) /\ h \in 1 .. Len(threads) /\ Len(threads) \in Nat
  BY LenProperties DEF ThreadTypes
<1>2. threads[h] \in ThreadState /\ h \in Nat
  BY <1>1, ElementOfSeq, LenProperties DEF ThreadTypes
<1> QED
  BY <1>2 DEF ThreadState

LEMMA GoFacts ==
  ASSUME ThreadTypes, NEW h \in DOMAIN threads, NEW pc \in ThreadPc, Go(h, pc)
  PROVE  threads' \in Seq(ThreadState) /\ \E t : Becomes(h, t) /\ Goes(threads[h], t, pc)
<1> DEFINE t == [threads[h] EXCEPT !.pc = pc]
<1>1. threads[h] \in ThreadState
  BY ThreadFacts
<1>2. t \in ThreadState /\ Goes(threads[h], t, pc)
  BY <1>1 DEF ThreadState, ThreadPc, Goes
<1>3. threads' = [threads EXCEPT ![h] = t]
  BY DEF Go
<1> HIDE DEF t
<1>4. threads' \in Seq(ThreadState) /\ Becomes(h, t)
  BY <1>2, <1>3, SetThread
<1> QED
  BY <1>2, <1>4

LEMMA FinishFacts ==
  ASSUME ThreadTypes, NEW h \in DOMAIN threads, Finish(h)
  PROVE  threads' \in Seq(ThreadState) /\ \E t : Becomes(h, t) /\ t.pc = "ended"
<1> DEFINE t == Thread("ended", 0, NoPort)
<1>1. t \in ThreadState /\ t.pc = "ended"
  BY TransferAssumption DEF Thread, ThreadState, NoPort
<1>2. threads' = [threads EXCEPT ![h] = t]
  BY DEF Finish
<1> HIDE DEF t
<1>3. threads' \in Seq(ThreadState) /\ Becomes(h, t)
  BY <1>1, <1>2, SetThread
<1> QED
  BY <1>1, <1>3

\* The client at the other end of the connection of a thread.
LEMMA ServesFacts ==
  ASSUME Types, NEW h \in DOMAIN threads
  PROVE  /\ Serves(h) \in Client \cup {NoClient}
         /\ Serves(h) # NoClient => fds[threads[h].sock] = Conn(Serves(h)) /\ Is(threads[h].sock, "conn")
         /\ Is(threads[h].sock, "conn") => Serves(h) \in Client /\ Serves(h) # NoClient
<1>1. threads[h].sock \in 0 .. Descriptors
  BY ThreadFacts DEF Types
<1>2. fds[threads[h].sock] \in Fd /\ DOMAIN fds = 0 .. Descriptors
  BY <1>1 DEF Types, TableTypes
<1> QED
  BY <1>1, <1>2, FdFacts, ClientAssumption DEF Serves, Is

\* A message for the client served reaches it when it is there, and moves nothing else.
Gets(p, q, s) ==
  /\ q.pc = p.pc /\ q.sent = p.sent /\ q.inbox = p.inbox /\ q.told = p.told /\ q.data = p.data
  /\ q.got = p.got /\ q.out = s

LEMMA SendFacts ==
  ASSUME Types, NEW h \in DOMAIN threads, NEW m \in Msg, NEW peers \in [Client -> ClientState],
         SendFrom(peers, h, m)
  PROVE  /\ client' \in [Client -> ClientState] /\ counter' \in Int
         /\ \A b \in Client : b # Serves(h) => client'[b] = peers[b]
         /\ \A c \in Client : c = Serves(h) =>
              Gets(peers[c], client'[c], IF Alive(c) THEN Append(peers[c].out, m) ELSE peers[c].out)
<1>1. counter' \in Int
  BY DEF SendFrom, Types, MainTypes
<1>2. CASE Serves(h) = NoClient
  BY <1>1, <1>2, ClientAssumption DEF SendFrom
<1>3. CASE Serves(h) # NoClient
  <2> DEFINE c == Serves(h)
             p == peers[c]
             q == IF Alive(c) THEN [p EXCEPT !.out = Append(p.out, m)] ELSE [p EXCEPT !.broken = TRUE]
  <2>1. c \in Client
    BY <1>3, ServesFacts
  <2>2. p \in ClientState /\ Append(p.out, m) \in Seq(Msg)
    BY <2>1, AppendProperties DEF ClientState
  <2>3. q \in ClientState /\ Gets(p, q, IF Alive(c) THEN Append(p.out, m) ELSE p.out)
    BY <2>2 DEF ClientState, Gets
  <2>4. client' = [peers EXCEPT ![c] = q]
    BY <1>3, <2>1 DEF SendFrom
  <2> HIDE DEF q
  <2>5. client' \in [Client -> ClientState] /\ \A b \in Client : client'[b] = IF b = c THEN q ELSE peers[b]
    BY <2>1, <2>3, <2>4
  <2> QED
    BY <1>1, <2>3, <2>5
<1> QED
  BY <1>2, <1>3

\* What a read leaves of a queue.
LEMMA LeftFacts ==
  ASSUME NEW s \in Seq(Msg), NEW n \in 0 .. Len(s)
  PROVE  LET r == SubSeq(s, n + 1, Len(s)) IN
           /\ r \in Seq(Msg) /\ Len(r) = Len(s) - n /\ DOMAIN r = 1 .. Len(s) - n
           /\ \A i \in DOMAIN r : n + i \in DOMAIN s /\ r[i] = s[n + i]
<1> DEFINE r == SubSeq(s, n + 1, Len(s))
<1>1. Len(s) \in Nat /\ DOMAIN s = 1 .. Len(s) /\ n \in Nat /\ n <= Len(s)
  BY LenProperties
<1>2. \A i \in n + 1 .. Len(s) : s[i] \in Msg
  BY <1>1, ElementOfSeq
<1>3. n + 1 \in Int /\ Len(s) \in Int
  BY <1>1
<1>4. /\ r \in Seq(Msg)
      /\ Len(r) = IF n + 1 <= Len(s) THEN Len(s) - (n + 1) + 1 ELSE 0
      /\ \A i \in 1 .. Len(s) - (n + 1) + 1 : r[i] = s[(n + 1) + i - 1]
  BY <1>2, <1>3, SubSeqProperties
<1>5. DOMAIN r = 1 .. Len(r)
  BY <1>4, LenProperties
<1> HIDE DEF r
<1>6. Len(r) = Len(s) - n
  <2>1. Len(r) = IF n + 1 <= Len(s) THEN Len(s) - (n + 1) + 1 ELSE 0
    BY <1>4
  <2> DEFINE l == Len(s)
             k == Len(r)
  <2>2. l \in Nat /\ n \in Nat /\ n <= l /\ k = IF n + 1 <= l THEN l - (n + 1) + 1 ELSE 0
    BY <1>1, <2>1
  <2> HIDE DEF l, k
  <2>3. k = l - n
    BY <2>2
  <2> QED
    BY <2>3 DEF l, k
<1>7. \A i \in 1 .. Len(s) - n : n + i \in 1 .. Len(s) /\ i \in 1 .. Len(s) - (n + 1) + 1 /\ (n + 1) + i - 1 = n + i
  BY <1>1
<1> QED
  BY <1>1, <1>4, <1>5, <1>6, <1>7 DEF r
-------------------------------------------------------------------------------
(***************************************************************************)
(* Type correctness.                                                       *)
(***************************************************************************)
LEMMA InitTypes == Init => Types
<1> SUFFICES ASSUME Init PROVE Types
  OBVIOUS
<1>1. TableTypes
  BY FdMade, EmptySeq DEF Init, TableTypes
<1>2. MainTypes
  <2>1. counter = 0 /\ server_shutdown = FALSE /\ main = [pc |-> "loop", sock_fd |-> 0]
    BY DEF Init
  <2>2. /\ main \in [pc : {"loop", "accept", "accepted", "admitted", "ended"}, sock_fd : 0 .. Descriptors]
        /\ main.pc # "ended" /\ counter \in Int
    BY <2>1, Bounds
  <2>3. server_shutdown \in BOOLEAN
    BY <2>1
  <2> QED
    BY <2>2, <2>3, Zenon DEF MainTypes
<1>3. ThreadTypes
  BY EmptySeq DEF Init, ThreadTypes
<1>4. ClientTypes
  <2>1. 0 \in Int /\ <<>> \in Seq(Msg) /\ {} \in SUBSET (1 .. Files)
    BY EmptySeq
  <2> QED
    BY <2>1 DEF Init, ClientInit, ClientTypes, ClientState
<1> QED
  BY <1>1, <1>2, <1>3, <1>4 DEF Types

LEMMA MainStepTypes ==
  ASSUME Types, MainStep
  PROVE  Types'
<1>1. CASE Loop \/ AcceptTimesOut \/ Admit
  <2>1. TableTypes' /\ ClientTypes' /\ ThreadTypes'
    BY <1>1 DEF Loop, AcceptTimesOut, Admit, Types, TableTypes, ClientTypes, ThreadTypes
  <2>2. MainTypes'
    BY <1>1, TransferAssumption DEF Loop, AcceptTimesOut, Admit, MainAt, Types, MainTypes
  <2> QED
    BY <2>1, <2>2 DEF Types
<1>2. CASE Accept
  <2>1. ClientTypes' /\ ThreadTypes'
    BY <1>2 DEF Accept, Types, ClientTypes, ThreadTypes
  <2>2. Lowest # -1 => Lowest \in 0 .. Descriptors
    BY LowestFacts DEF Types
  <2>3. MainTypes'
    BY <1>2, <2>2, TransferAssumption DEF Accept, MainAt, Types, MainTypes
  <2>4. backlog \in Seq(Client) /\ backlog # <<>> /\ Tail(backlog) \in Seq(Client) /\ Head(backlog) \in Client
    BY <1>2, HeadTailProperties DEF Accept, Types, TableTypes
  <2>5. TableTypes'
    BY <1>2, <2>2, <2>4, FdMade DEF Accept, Types, TableTypes
  <2> QED
    BY <2>1, <2>3, <2>5 DEF Types
<1>3. CASE Spawn
  <2>1. TableTypes' /\ ClientTypes'
    BY <1>3 DEF Spawn, Types, TableTypes, ClientTypes
  <2>2. MainTypes'
    BY <1>3, TransferAssumption DEF Spawn, MainAt, Types, MainTypes
  <2>3. PICK port \in Port \cup {NoPort} : threads' = Append(threads, Thread("recv", main.sock_fd, port))
    BY <1>3 DEF Spawn
  <2> DEFINE t == Thread("recv", main.sock_fd, port)
  <2>4. t \in ThreadState /\ t.pc = "recv"
    BY TransferAssumption DEF Thread, ThreadState, Types, MainTypes
  <2> HIDE DEF t
  <2>5. /\ threads \in Seq(ThreadState) /\ Len(threads) \in Nat /\ DOMAIN threads = 1 .. Len(threads)
        /\ threads' \in Seq(ThreadState) /\ DOMAIN threads' = 1 .. Len(threads) + 1
        /\ \A h \in DOMAIN threads : threads'[h] = threads[h]
        /\ threads'[Len(threads) + 1] = t
    BY <2>3, <2>4, AppendProperties, LenProperties DEF Types, ThreadTypes, t
  <2>6. DOMAIN threads \subseteq DOMAIN threads' /\ Len(threads) + 1 \in DOMAIN threads'
    BY <2>5
  <2>7. pool' \in [Port -> {NoThread} \cup DOMAIN threads']
    BY <1>3, <2>6 DEF Spawn, Types, ThreadTypes
  <2>8. \A h \in DOMAIN threads' : threads'[h].pc = "stop" => server_shutdown'
    <3>1. \A h \in DOMAIN threads' : h \in DOMAIN threads \/ h = Len(threads) + 1
      BY <2>5
    <3> QED
      BY <1>3, <2>4, <2>5, <3>1 DEF Spawn, Types, ThreadTypes
  <2>9. ThreadTypes'
    BY <2>5, <2>7, <2>8 DEF ThreadTypes
  <2> QED
    BY <2>1, <2>2, <2>9 DEF Types
<1> QED
  BY <1>1, <1>2, <1>3 DEF MainStep

\* The inbox of the client is emptied.
LEMMA TakenFacts ==
  ASSUME Types, NEW h \in DOMAIN threads, Serves(h) # NoClient
  PROVE  /\ Taken(h) \in [Client -> ClientState]
         /\ \A b \in Client : b # Serves(h) => Taken(h)[b] = client[b]
         /\ LET p == client[Serves(h)]
                q == Taken(h)[Serves(h)] IN
              /\ q.pc = p.pc /\ q.inbox = <<>> /\ q.out = p.out /\ q.told = p.told /\ q.data = p.data
              /\ q.got = p.got
<1> DEFINE c == Serves(h)
           q == [client[c] EXCEPT !.inbox = <<>>]
<1>1. c \in Client
  BY ServesFacts
<1>2. client \in [Client -> ClientState] /\ client[c] \in ClientState
  BY <1>1 DEF Types, ClientTypes
<1>3. /\ q \in ClientState /\ q.pc = client[c].pc /\ q.inbox = <<>> /\ q.out = client[c].out
      /\ q.told = client[c].told /\ q.data = client[c].data /\ q.got = client[c].got
  BY <1>2 DEF ClientState
<1>4. Taken(h) = [client EXCEPT ![c] = q]
  BY DEF Taken
<1> HIDE DEF q
<1> QED
  BY <1>1, <1>2, <1>3, <1>4

\* A thread that reads a command, or finds there is none.
LEMMA ReceiveTypes ==
  ASSUME Types, NEW h \in DOMAIN threads,
         \/ ReceiveGet(h) \/ ReceiveBad(h) \/ ReceiveExit(h) \/ ReceiveShutdown(h)
         \/ StopAccepting(h) \/ ReceiveNothing(h) \/ ReceiveFails(h)
  PROVE  Types'
<1> USE DEF Receive
<1>1. \/ client' = client
      \/ Serves(h) # NoClient /\ client' = Taken(h)
      \/ Serves(h) # NoClient /\ SendFrom(Taken(h), h, Message("error:", 0, 0))
  BY DEF ReceiveGet, ReceiveBad, ReceiveExit, ReceiveShutdown, StopAccepting, ReceiveNothing, ReceiveFails
<1>2. Message("error:", 0, 0) \in Msg
  BY DEF Message, Msg, Kind
<1>3. ClientTypes'
  BY <1>1, <1>2, TakenFacts, SendFacts DEF Types, ClientTypes
<1>4. /\ main' = main /\ server_shutdown' \in BOOLEAN /\ (server_shutdown => server_shutdown')
      /\ pool' = pool /\ backlog' = backlog
  BY DEF ReceiveGet, ReceiveBad, ReceiveExit, ReceiveShutdown, StopAccepting, ReceiveNothing, ReceiveFails,
     Types, MainTypes
<1>5. counter' \in Int
  <2>1. CASE ReceiveBad(h)
    BY <2>1, <1>2, TakenFacts, SendFacts DEF ReceiveBad
  <2>2. CASE ~ReceiveBad(h)
    BY <2>2 DEF ReceiveGet, ReceiveExit, ReceiveShutdown, StopAccepting, ReceiveNothing, ReceiveFails,
       Types, MainTypes
  <2> QED
    BY <2>1, <2>2
<1>6. MainTypes'
  BY <1>4, <1>5 DEF Types, MainTypes
<1>7. TableTypes'
  <2>1. fds' = fds \/ Close({threads[h].sock})
    BY DEF ReceiveGet, ReceiveBad, ReceiveExit, ReceiveShutdown, StopAccepting, ReceiveNothing, ReceiveFails
  <2> QED
    BY <1>4, <2>1, ClosedFds DEF Types, TableTypes
<1>8. ThreadTypes'
  <2>1. CASE ReceiveBad(h)
    BY <2>1 DEF ReceiveBad, Types, ThreadTypes
  <2>2. CASE ReceiveGet(h)
    <3> DEFINE t == [threads[h] EXCEPT !.pc = "listen", !.file = 1]
    <3>1. threads[h] \in ThreadState
      BY ThreadFacts DEF Types
    <3>2. t \in ThreadState /\ t.pc = "listen"
      BY <3>1, Bounds DEF ThreadState
    <3>3. threads' = [threads EXCEPT ![h] = t]
      BY <2>2 DEF ReceiveGet
    <3> HIDE DEF t
    <3>4. threads' \in Seq(ThreadState) /\ Becomes(h, t)
      BY <3>2, <3>3, SetThread DEF Types
    <3> QED
      BY <1>4, <3>2, <3>4, SetThreadTypes DEF Types, ThreadTypes
  <2>3. CASE ReceiveShutdown(h)
    <3>1. PICK t : threads' \in Seq(ThreadState) /\ Becomes(h, t)
      BY <2>3, GoFacts DEF ReceiveShutdown, Types, ThreadPc
    <3> QED
      BY <1>4, <2>3, <3>1, SetThreadTypes DEF ReceiveShutdown, Types, ThreadTypes
  <2>4. CASE Finish(h)
    <3>1. PICK t : threads' \in Seq(ThreadState) /\ Becomes(h, t) /\ t.pc = "ended"
      BY <2>4, FinishFacts DEF Types
    <3> QED
      BY <1>4, <3>1, SetThreadTypes DEF Types, ThreadTypes
  <2> QED
    BY <2>1, <2>2, <2>3, <2>4 DEF ReceiveExit, StopAccepting, ReceiveNothing, ReceiveFails
<1> QED
  BY <1>3, <1>6, <1>7, <1>8 DEF Types

LEMMA ReleaseTypes ==
  ASSUME Types, NEW h \in DOMAIN threads, Release(h)
  PROVE  pool' \in [Port -> {NoThread} \cup DOMAIN threads]
  BY DEF Release, Types, ThreadTypes

\* A thread that sends the files.
LEMMA SendingTypes ==
  ASSUME Types, NEW h \in DOMAIN threads,
         \/ Announce(h) \/ AnnounceFails(h) \/ AcceptData(h) \/ AcceptDataFails(h)
         \/ SendFile(h) \/ SendFileFails(h) \/ SendMd5(h) \/ NextFile(h)
  PROVE  Types'
<1>1. /\ main' = main /\ server_shutdown' = server_shutdown /\ backlog' = backlog
      /\ pool' = pool \/ Release(h)
  BY DEF Announce, AnnounceFails, AcceptData, AcceptDataFails, SendFile, SendFileFails, SendMd5, NextFile
<1>2. /\ threads[h] \in ThreadState /\ threads[h].sock \in 0 .. Descriptors
      /\ threads[h].file \in 1 .. Files /\ threads[h].port \in Port \cup {NoPort}
      /\ threads[h].lsock \in 0 .. Descriptors
  BY ThreadFacts DEF Types, ThreadState
<1>3. DOMAIN fds = 0 .. Descriptors /\ \A d \in 0 .. Descriptors : fds[d] \in Fd
  BY DEF Types, TableTypes
<1>4. Lowest # -1 => Lowest \in 0 .. Descriptors
  BY LowestFacts DEF Types
<1>5. /\ ClientTypes' /\ counter' \in Int
  <2>1. \A m \in Msg : Send(h, m) => ClientTypes' /\ counter' \in Int
    BY SendFacts DEF Send, Types, ClientTypes
  <2>2. CASE Announce(h) \/ SendMd5(h) \/ NextFile(h)
    <3>1. /\ Message("file:", threads[h].file, threads[h].port) \in Msg
          /\ Message("md5sum:", threads[h].file, 0) \in Msg
          /\ Message("done", 0, 0) \in Msg
      <4>1. threads[h].file \in Int /\ threads[h].port \in Int
        <5>1. Port \subseteq Int /\ NoPort \in Int
          BY TransferAssumption DEF NoPort
        <5>2. threads[h].port \in Int
          BY <1>2, <5>1
        <5>3. threads[h].file \in Int
          BY <1>2, Bounds
        <5> QED
          BY <5>2, <5>3
      <4> QED
        BY <4>1 DEF Message, Msg, Kind
    <3> QED
      BY <2>1, <2>2, <3>1 DEF Announce, SendMd5, NextFile, Types, ClientTypes, MainTypes
  <2>3. CASE AnnounceFails(h) \/ AcceptData(h) \/ AcceptDataFails(h) \/ SendFileFails(h)
    BY <2>3 DEF AnnounceFails, AcceptData, AcceptDataFails, SendFileFails, Types, ClientTypes, MainTypes
  <2>4. CASE SendFile(h)
    <3> DEFINE c == Reads(h)
               x == IF Alive(c) THEN [owner |-> Serves(h), file |-> threads[h].file] ELSE client[c].data
               q == [client[c] EXCEPT !.data = x]
    <3>1. c \in Client
      <4>1. threads[h].tsock \in 0 .. Descriptors
        BY <1>2 DEF ThreadState
      <4> QED
        BY <1>3, <2>4, <4>1, FdFacts DEF SendFile, Reads, Is
    <3>2. client[c] \in ClientState
      BY <3>1 DEF Types, ClientTypes
    <3>3. x \in {NoData} \cup FileData
      BY <1>2, <3>2, ServesFacts DEF ClientState, FileData
    <3> HIDE DEF x
    <3>4. q \in ClientState
      BY <3>2, <3>3 DEF ClientState
    <3>5. client' = [client EXCEPT ![c] = q] /\ counter' = counter
      BY <2>4 DEF SendFile, x
    <3> HIDE DEF q
    <3> QED
      BY <3>1, <3>4, <3>5, SetClient DEF Types, MainTypes
  <2> QED
    BY <2>2, <2>3, <2>4
<1>6. MainTypes'
  BY <1>1, <1>5 DEF Types, MainTypes
<1>7. TableTypes'
  <2>1. CASE fds' = fds
    BY <1>1, <2>1 DEF Types, TableTypes
  <2>2. CASE \E D : Close(D)
    BY <1>1, <2>2, ClosedFds DEF Types, TableTypes
  <2>3. CASE Lowest # -1 /\ \E f \in Fd : fds' = [fds EXCEPT ![Lowest] = f]
    BY <1>1, <1>4, <2>3, SetFd DEF Types, TableTypes
  <2>4. CASE AcceptData(h) /\ Lowest # -1
    <3> DEFINE l == threads[h].lsock
               f == [fds[l] EXCEPT !.queue = Tail(@)]
               g == Data(Head(fds[l].queue))
    <3>1. fds[l].kind = "listen" /\ fds[l].queue # <<>>
      BY <2>4 DEF AcceptData, Is
    <3>2. fds[l] \in Fd /\ fds[l].queue \in Seq(Client)
      BY <1>2, <1>3, <3>1, FdFacts
    <3>3. Tail(fds[l].queue) \in Seq(Client) /\ Head(fds[l].queue) \in Client
      BY <3>1, <3>2, HeadTailProperties
    <3>4. g \in Fd
      BY <3>3, FdMade
    <3>5. f \in Fd
      <4> DEFINE e == fds[l]
                 s == Tail(e.queue)
      <4>1. e \in Fd /\ e.kind = "listen" /\ s \in Seq(Client)
        BY <3>1, <3>2, <3>3
      <4>2. f = [e EXCEPT !.queue = s]
        OBVIOUS
      <4> HIDE DEF e, s, f
      <4> QED
        BY <4>1, <4>2, SetQueue
    <3>6. fds' = [[fds EXCEPT ![l] = f] EXCEPT ![Lowest] = g]
      BY <2>4 DEF AcceptData
    <3> HIDE DEF f, g
    <3> QED
      BY <1>1, <1>2, <1>4, <2>4, <3>4, <3>5, <3>6 DEF Types, TableTypes
  <2> QED
    BY <1>2, <2>1, <2>2, <2>3, <2>4, FdMade, EmptySeq
       DEF Announce, AnnounceFails, AcceptData, AcceptDataFails, SendFile, SendFileFails, SendMd5, NextFile
<1>8. ThreadTypes'
  <2>1. pool' \in [Port -> {NoThread} \cup DOMAIN threads]
    BY <1>1, ReleaseTypes DEF Types, ThreadTypes
  <2>2. ASSUME NEW t \in ThreadState, t.pc # "stop", threads' = [threads EXCEPT ![h] = t]
        PROVE  ThreadTypes'
    <3>1. threads' \in Seq(ThreadState) /\ Becomes(h, t)
      BY <2>2, SetThread DEF Types
    <3> QED
      BY <1>1, <2>1, <2>2, <3>1, SetThreadTypes DEF Types
  <2>3. CASE \E pc \in ThreadPc \ {"stop"} : Go(h, pc)
    <3>1. PICK pc \in ThreadPc \ {"stop"} : Go(h, pc)
      BY <2>3
    <3>2. PICK t : threads' \in Seq(ThreadState) /\ Becomes(h, t) /\ t.pc # "stop"
      BY <3>1, GoFacts DEF Types, Goes
    <3> QED
      BY <1>1, <2>1, <3>2, SetThreadTypes DEF Types
  <2>4. CASE Announce(h)
    <3> DEFINE t == [threads[h] EXCEPT !.pc = "accept", !.lsock = Lowest]
    <3>1. t \in ThreadState /\ t.pc # "stop"
      BY <1>2, <1>4, <2>4 DEF Announce, ThreadState
    <3>2. threads' = [threads EXCEPT ![h] = t]
      BY <2>4 DEF Announce
    <3> HIDE DEF t
    <3> QED
      BY <2>2, <3>1, <3>2
  <2>5. CASE AcceptData(h) /\ Lowest # -1
    <3> DEFINE t == [threads[h] EXCEPT !.tsock = Lowest, !.pc = IF Lowest <= 0 THEN "next" ELSE "send"]
    <3>1. t \in ThreadState /\ t.pc # "stop"
      BY <1>2, <1>4, <2>5 DEF ThreadState
    <3>2. threads' = [threads EXCEPT ![h] = t]
      BY <2>5 DEF AcceptData
    <3> HIDE DEF t
    <3> QED
      BY <2>2, <3>1, <3>2
  <2>6. CASE NextFile(h) /\ threads[h].file # Files
    <3> DEFINE t == [threads[h] EXCEPT !.pc = "listen", !.file = @ + 1]
    <3>1. threads[h].file + 1 \in 1 .. Files
      BY <1>2, <2>6, Bounds
    <3>2. t \in ThreadState /\ t.pc # "stop"
      BY <1>2, <3>1 DEF ThreadState
    <3>3. threads' = [threads EXCEPT ![h] = t]
      BY <2>6 DEF NextFile
    <3> HIDE DEF t
    <3> QED
      BY <2>2, <3>2, <3>3
  <2> QED
    BY <2>3, <2>4, <2>5, <2>6
       DEF AnnounceFails, AcceptData, AcceptDataFails, SendFile, SendFileFails, SendMd5, NextFile, ThreadPc
<1> QED
  BY <1>5, <1>6, <1>7, <1>8 DEF Types

\* What concerns one client, and the listeners it connects to.
LEMMA MayReadFacts ==
  ASSUME ClientTypes, NEW c \in Client, NEW r \in MayRead(c)
  PROVE  LET p == client[c] IN
         /\ p \in ClientState /\ p.pc = "waiting" /\ p.out \in Seq(Msg)
         /\ Len(r) \in 1 .. Len(p.out) /\ DOMAIN p.out = 1 .. Len(p.out)
         /\ \A i \in 1 .. Len(r) : i \in DOMAIN p.out /\ r[i] = p.out[i] /\ r[i] \in Msg
         /\ Left(p, r) \in Seq(Msg) /\ DOMAIN Left(p, r) = 1 .. Len(p.out) - Len(r)
         /\ \A i \in DOMAIN Left(p, r) : Len(r) + i \in DOMAIN p.out /\ Left(p, r)[i] = p.out[Len(r) + i]
<1> DEFINE s == client[c].out
<1>1. client[c] \in ClientState /\ client[c].pc = "waiting"
  BY DEF ClientTypes, MayRead
<1>2. s \in Seq(Msg)
  BY <1>1 DEF ClientState
<1>3. PICK n \in 1 .. Len(s) : r = SubSeq(s, 1, n)
  BY <1>1 DEF MayRead
<1>4. Left(client[c], r) = SubSeq(s, Len(r) + 1, Len(s))
  BY DEF Left
<1> HIDE DEF s
<1>5. Len(s) \in Nat /\ DOMAIN s = 1 .. Len(s)
  BY <1>2, LenProperties
<1>6. \A i \in 1 .. n : s[i] \in Msg
  BY <1>2, <1>3, <1>5, ElementOfSeq
<1>7. r \in Seq(Msg) /\ Len(r) = n /\ \A i \in 1 .. n : r[i] = s[i]
  <2>1. 1 \in Int /\ n \in Int
    BY <1>3, <1>5
  <2>2. /\ r \in Seq(Msg) /\ Len(r) = IF 1 <= n THEN n - 1 + 1 ELSE 0
        /\ \A i \in 1 .. n - 1 + 1 : r[i] = s[1 + i - 1]
    BY <1>3, <1>6, <2>1, SubSeqProperties
  <2>3. 1 <= n /\ n - 1 + 1 = n
    BY <1>3, <1>5
  <2>4. \A i \in 1 .. n : i \in 1 .. n - 1 + 1 /\ 1 + i - 1 = i
    BY <1>3, <1>5
  <2> QED
    BY <2>2, <2>3, <2>4
<1>8. Len(r) \in 1 .. Len(s) /\ Len(r) \in 0 .. Len(s)
  BY <1>3, <1>5, <1>7
<1>9. \A i \in 1 .. Len(r) : i \in 1 .. Len(s)
  BY <1>5, <1>8
<1> QED
  BY <1>1, <1>2, <1>4, <1>5, <1>6, <1>7, <1>8, <1>9, LeftFacts DEF s

\* A client after a read, and a client that dies.
LEMMA HeardFacts ==
  ASSUME ClientTypes, NEW c \in Client, NEW r \in MayRead(c)
  PROVE  LET q == Heard(c, r) IN
         /\ q \in ClientState /\ q.pc = "waiting" /\ q.inbox = client[c].inbox
         /\ q.out = Left(client[c], r) /\ q.told = client[c].told /\ q.data = client[c].data
<1> DEFINE p == client[c]
           o == Left(p, r)
           g == Checked(p, r)
           q == [p EXCEPT !.out = o, !.got = g]
<1>1. p \in ClientState /\ p.pc = "waiting" /\ o \in Seq(Msg)
  BY MayReadFacts
<1>2. g \in SUBSET (1 .. Files)
  BY <1>1 DEF Checked, ClientState
<1>3. Heard(c, r) = q
  BY DEF Heard
<1> HIDE DEF o, g, p
<1> QED
  BY <1>1, <1>2, <1>3 DEF ClientState, o, p

LEMMA DeadFacts ==
  ASSUME NEW p \in ClientState
  PROVE  /\ Dead(p) \in ClientState /\ Dead(p).pc \in {"gone", "crashed"}
         /\ Dead(p).inbox = p.inbox /\ Dead(p).out = <<>> /\ Dead(p).data = NoData
<1>1. <<>> \in Seq(Msg)
  BY EmptySeq
<1> QED
  BY <1>1 DEF Dead, ClientState

\* A client acts: the listeners on a port may get it in their queues.
LEMMA ClientStepTypes ==
  ASSUME Types, NEW c \in Client,
         \/ Connect(c) \/ Reading(c) \/ Leave(c)
         \/ (\E cmd \in Commands : Ask(c, cmd)) /\ UNCHANGED <<fds, backlog, Others>>
  PROVE  Types'
<1>1. MainTypes' /\ ThreadTypes'
  BY DEF Connect, Reading, TakeFile, DataLost, EndOfStream, Leave, Others, Types, MainTypes, ThreadTypes
<1>2. client[c] \in ClientState /\ client \in [Client -> ClientState]
  BY DEF Types, ClientTypes
<1>3. ClientTypes'
  <2>1. \A q \in ClientState : client' = [client EXCEPT ![c] = q] => ClientTypes'
    BY SetClient DEF Types
  <2>2. \A pc \in {"away", "prompt", "waiting", "data", "spins", "gone", "crashed"} :
          client' = [client EXCEPT ![c].pc = pc] => ClientTypes'
    <3> SUFFICES ASSUME NEW pc \in {"away", "prompt", "waiting", "data", "spins", "gone", "crashed"},
                        client' = [client EXCEPT ![c].pc = pc]
                 PROVE  ClientTypes'
      OBVIOUS
    <3> DEFINE q == [client[c] EXCEPT !.pc = pc]
    <3>1. q \in ClientState
      BY <1>2 DEF ClientState
    <3> HIDE DEF q
    <3> QED
      BY <2>1, <3>1 DEF q
  <2>3. Die(c) => ClientTypes'
    BY <1>2, <2>1, DeadFacts DEF Die
  <2>4. ASSUME NEW cmd \in Commands, Ask(c, cmd) PROVE ClientTypes'
    <3> DEFINE q == [client[c] EXCEPT !.inbox = <<cmd>>, !.sent = @ + 1, !.got = {}, !.told = 0, !.data = NoData,
                       !.pc = IF cmd \in {"exit", "shutdown"} THEN "gone" ELSE "waiting"]
    <3>1. q \in ClientState
      <4> DEFINE i == <<cmd>>
      <4>1. i \in {<<>>} \cup {<<x>> : x \in Commands}
        OBVIOUS
      <4> HIDE DEF i
      <4>2. client[c].sent + 1 \in Int /\ {} \in SUBSET (1 .. Files) /\ 0 \in Int
        BY <1>2 DEF ClientState
      <4>3. [client[c] EXCEPT !.inbox = i, !.sent = @ + 1, !.got = {}, !.told = 0, !.data = NoData,
               !.pc = IF cmd \in {"exit", "shutdown"} THEN "gone" ELSE "waiting"] \in ClientState
        BY <1>2, <4>1, <4>2 DEF ClientState
      <4> QED
        BY <4>3 DEF i
    <3>2. client' = [client EXCEPT ![c] = q]
      BY <2>4 DEF Ask
    <3> HIDE DEF q
    <3> QED
      BY <2>1, <3>1, <3>2
  <2>5. ASSUME TakeFile(c) PROVE ClientTypes'
    <3>1. PICK r \in MayRead(c) : \E L :
            LET t == [Heard(c, r) EXCEPT !.told = Line(r).file] IN
              /\ Word(r) = "file:"
              /\ client' = [client EXCEPT ![c] =
                   IF L = {} THEN t ELSE [t EXCEPT !.pc = "data", !.data = NoData]]
      BY <2>5 DEF TakeFile
    <3> DEFINE t == [Heard(c, r) EXCEPT !.told = Line(r).file]
               u == [t EXCEPT !.pc = "data", !.data = NoData]
    <3>2. Heard(c, r) \in ClientState
      BY HeardFacts DEF Types
    <3>3. Line(r).file \in Int
      <4>1. 1 \in 1 .. Len(r) /\ (Len(r) > 1 => 2 \in 1 .. Len(r))
        BY MayReadFacts, LenProperties DEF Types
      <4>2. Line(r) \in Msg
        BY <4>1, MayReadFacts DEF Types, Line
      <4> QED
        BY <4>2 DEF Msg
    <3>4. t \in ClientState
      BY <3>2, <3>3 DEF ClientState
    <3>5. u \in ClientState
      BY <3>4 DEF ClientState
    <3>6. client' = [client EXCEPT ![c] = t] \/ client' = [client EXCEPT ![c] = u]
      BY <3>1
    <3> HIDE DEF t, u
    <3> QED
      BY <2>1, <3>4, <3>5, <3>6
  <2>6. ASSUME Hear(c) \/ Fail(c) PROVE ClientTypes'
    <3>1. PICK r \in MayRead(c) :
            \/ \E pc \in {"prompt", "waiting"} : client' = [client EXCEPT ![c] = [Heard(c, r) EXCEPT !.pc = pc]]
            \/ client' = [client EXCEPT ![c] = Dead(Heard(c, r))]
      BY <2>6 DEF Hear, Fail
    <3>2. Heard(c, r) \in ClientState
      BY HeardFacts DEF Types
    <3>3. CASE client' = [client EXCEPT ![c] = Dead(Heard(c, r))]
      BY <2>1, <3>2, <3>3, DeadFacts
    <3>4. ASSUME NEW pc \in {"prompt", "waiting"}, client' = [client EXCEPT ![c] = [Heard(c, r) EXCEPT !.pc = pc]]
          PROVE  ClientTypes'
      <4> DEFINE q == [Heard(c, r) EXCEPT !.pc = pc]
      <4>1. q \in ClientState
        BY <3>2 DEF ClientState
      <4> HIDE DEF q
      <4> QED
        BY <2>1, <3>4, <4>1 DEF q
    <3> QED
      BY <3>1, <3>3, <3>4
  <2>7. ASSUME EndOfData(c) PROVE ClientTypes'
    <3> DEFINE q == [client[c] EXCEPT !.pc = "waiting", !.got = @ \cup {client[c].data.file}]
    <3>1. client[c].data.file \in 1 .. Files
      BY <1>2, <2>7 DEF EndOfData, ClientState, FileData
    <3>2. q \in ClientState
      BY <1>2, <3>1 DEF ClientState
    <3>3. client' = [client EXCEPT ![c] = q]
      BY <2>7 DEF EndOfData
    <3> HIDE DEF q
    <3> QED
      BY <2>1, <3>2, <3>3
  <2> QED
    BY <2>2, <2>3, <2>4, <2>5, <2>6, <2>7 DEF Connect, Reading, DataLost, EndOfStream, Leave
<1>4. TableTypes'
  <2>1. CASE UNCHANGED <<fds, backlog>>
    BY <2>1 DEF Types, TableTypes
  <2>2. CASE Connect(c)
    BY <2>2, AppendProperties DEF Connect, Types, TableTypes
  <2>3. CASE TakeFile(c)
    <3>1. PICK L : /\ \A d \in L \cap DOMAIN fds : Is(d, "listen")
                   /\ fds' = [d \in DOMAIN fds |->
                        IF d \in L THEN [fds[d] EXCEPT !.queue = Append(@, c)] ELSE fds[d]]
                   /\ UNCHANGED backlog
      <4>1. PICK r \in MayRead(c) : LET L == IF main.pc = "ended" THEN {} ELSE Listeners(Line(r).port) IN
              fds' = [d \in DOMAIN fds |-> IF d \in L THEN [fds[d] EXCEPT !.queue = Append(@, c)] ELSE fds[d]]
        BY <2>3 DEF TakeFile
      <4> DEFINE L == IF main.pc = "ended" THEN {} ELSE Listeners(Line(r).port)
      <4>2. \A d \in L \cap DOMAIN fds : Is(d, "listen")
        BY DEF Listeners
      <4>3. UNCHANGED backlog
        BY <2>3 DEF TakeFile
      <4> HIDE DEF L
      <4> QED
        BY <4>1, <4>2, <4>3 DEF L
    <3>2. ASSUME NEW d \in 0 .. Descriptors, fds[d].kind = "listen"
          PROVE  [fds[d] EXCEPT !.queue = Append(@, c)] \in Fd
      <4>1. fds[d] \in Fd
        BY DEF Types, TableTypes
      <4> DEFINE e == fds[d]
                 q == Append(e.queue, c)
      <4>2. e \in Fd /\ e.kind = "listen" /\ q \in Seq(Client)
        BY <3>2, <4>1, FdFacts, AppendProperties
      <4>3. [fds[d] EXCEPT !.queue = Append(@, c)] = [e EXCEPT !.queue = q]
        OBVIOUS
      <4> HIDE DEF e, q
      <4> QED
        BY <4>2, <4>3, SetQueue
    <3> QED
      BY <3>1, <3>2 DEF Types, TableTypes, Is
  <2> QED
    BY <2>1, <2>2, <2>3 DEF Reading, DataLost, EndOfStream, Leave
<1> QED
  BY <1>1, <1>3, <1>4 DEF Types

LEMMA ExpireTypes ==
  ASSUME Types, NEW p \in Port, Expire(p)
  PROVE  Types'
  BY DEF Expire, Types, TableTypes, MainTypes, ThreadTypes, ClientTypes

LEMMA NextTypes ==
  ASSUME Types, [Next]_vars
  PROVE  Types'
<1>1. CASE MainStep
  BY <1>1, MainStepTypes
<1>2. ASSUME NEW h \in DOMAIN threads, ThreadStep(h) PROVE Types'
  BY <1>2, ReceiveTypes, SendingTypes DEF ThreadStep
<1>3. ASSUME NEW c \in Client, Connect(c) \/ Reading(c) \/ Leave(c) PROVE Types'
  BY <1>3, ClientStepTypes
<1>4. CASE (\E c \in Client, cmd \in Commands : Ask(c, cmd)) /\ UNCHANGED <<fds, backlog, Others>>
  BY <1>4, ClientStepTypes
<1>5. ASSUME NEW p \in Port, Expire(p) PROVE Types'
  BY <1>5, ExpireTypes
<1>6. CASE UNCHANGED vars
  BY <1>6 DEF vars, Types, TableTypes, MainTypes, ThreadTypes, ClientTypes
<1> QED
  BY <1>1, <1>2, <1>3, <1>4, <1>5, <1>6 DEF Next

\* Every variable ranges over the values the code gives it (server.cpp).
THEOREM TypeHolds == Spec => []TypeOK
<1>1. Types => TypeOK
  <2> SUFFICES ASSUME Types PROVE TypeOK
    OBVIOUS
  <2>1. ASSUME NEW d \in 0 .. Descriptors
        PROVE  \/ fds[d] \in {Closed, Other} \cup {Conn(c) : c \in Client} \cup {Data(c) : c \in Client}
               \/ /\ Is(d, "listen") /\ fds[d].port \in Port \cup {NoPort}
                  /\ \A i \in DOMAIN fds[d].queue : fds[d].queue[i] \in Client
    <3>1. fds[d] \in Fd /\ d \in DOMAIN fds
      BY DEF Types, TableTypes
    <3>2. CASE \E p \in Port \cup {NoPort}, q \in Seq(Client) : fds[d] = Listening(p, q)
      <4>1. PICK p \in Port \cup {NoPort}, q \in Seq(Client) : fds[d] = Listening(p, q)
        BY <3>2
      <4>2. fds[d].kind = "listen" /\ fds[d].port = p /\ fds[d].queue = q
        BY <4>1 DEF Listening
      <4>3. \A i \in DOMAIN q : q[i] \in Client
        BY LenProperties, ElementOfSeq
      <4> QED
        BY <3>1, <4>2, <4>3 DEF Is
    <3> QED
      BY <3>1, <3>2 DEF Fd
  <2>2. /\ counter \in Int /\ server_shutdown \in BOOLEAN
        /\ main.pc \in {"loop", "accept", "accepted", "admitted", "ended"}
        /\ main.sock_fd \in 0 .. Descriptors
        /\ main.pc = "ended" => server_shutdown
    BY DEF Types, MainTypes
  <2>3. ASSUME NEW h \in DOMAIN threads
        PROVE  /\ threads[h].pc \in {"recv", "listen", "accept", "send", "md5", "next", "stop", "ended"}
               /\ threads[h].file \in 1 .. Files /\ threads[h].port \in Port \cup {NoPort}
               /\ threads[h].pc = "stop" => server_shutdown
    <3>1. threads[h] \in ThreadState
      BY ThreadFacts DEF Types
    <3>2. threads[h].pc = "stop" => server_shutdown
      BY DEF Types, ThreadTypes
    <3>3. /\ threads[h].pc \in {"recv", "listen", "accept", "send", "md5", "next", "stop", "ended"}
          /\ threads[h].file \in 1 .. Files /\ threads[h].port \in Port \cup {NoPort}
      BY <3>1 DEF ThreadState
    <3> QED
      BY <3>2, <3>3
  <2>4. \A p \in Port : pool[p] \in {NoThread} \cup DOMAIN threads
    BY DEF Types, ThreadTypes
  <2>5. ASSUME NEW c \in Client PROVE client[c].got \subseteq 1 .. Files /\ Len(client[c].inbox) <= 1
    <3>1. /\ client[c].got \in SUBSET (1 .. Files)
          /\ client[c].inbox = <<>> \/ \E x \in Commands : client[c].inbox = <<x>>
      BY DEF Types, ClientTypes, ClientState
    <3>2. Len(<<>>) <= 1 /\ \A x : Len(<<x>>) <= 1
      OBVIOUS
    <3> QED
      BY <3>1, <3>2
  <2> QED
    BY <2>1, <2>2, <2>3, <2>4, <2>5 DEF TypeOK
<1> QED
  BY <1>1, InitTypes, NextTypes, PTL DEF Spec
-------------------------------------------------------------------------------
(***************************************************************************)
(* A client gets its own file.  What is known of a thread t, the table f   *)
(* and the client p it serves:                                             *)
(***************************************************************************)
Working  == {h \in DOMAIN threads : threads[h].pc \notin {"stop", "ended"}}
Offering == {"accept", "send"}
Sending  == Offering \cup {"listen", "md5", "next"}
Ends     == {"done", "error:"}

Peer(t, f) == f[t.sock].peer

\* the descriptors it may touch are what it opened them for
Own(t) ==
  {t.sock} \cup (IF t.pc \in Offering THEN {t.lsock} ELSE {})
    \cup (IF t.pc = "send" THEN {t.tsock} ELSE {})
Holds(t, f) ==
  /\ f[t.sock].kind = "conn"
  /\ t.pc \in Offering => f[t.lsock].kind = "listen" /\ f[t.lsock].port = t.port
  /\ t.pc = "send" => f[t.tsock] = Data(Peer(t, f))

\* a client that read the announcement has read everything, and holds x
Ready(p, file, x) ==
  p.pc \notin {"gone", "crashed"} => p.out = <<>> /\ p.told = file /\ p.data = x
Talks(t, f, p) ==
  /\ t.pc \in Sending =>
       /\ p.pc \notin {"away", "prompt"} /\ p.inbox = <<>>
       /\ \A i \in DOMAIN p.out : p.out[i].type \notin Ends
  /\ t.pc = "accept" =>
       /\ f[t.lsock].queue # <<>> => Ready(p, t.file, NoData)
       /\ \A i \in DOMAIN f[t.lsock].queue : f[t.lsock].queue[i] = Peer(t, f)
  /\ t.pc = "send" => Ready(p, t.file, NoData)
  /\ t.pc = "md5"  => Ready(p, t.file, [owner |-> Peer(t, f), file |-> t.file])

Serving == \A h \in Working :
  Holds(threads[h], fds) /\ Talks(threads[h], fds, client[Peer(threads[h], fds)])

Apart ==
  /\ \A h, g \in Working : threads[h].sock = threads[g].sock => h = g
  /\ \A h, g \in Working : threads[h].pc \in Offering /\ threads[g].pc \in Offering
       /\ threads[h].lsock = threads[g].lsock => h = g

\* One connection each, once it was away no more.
Peers ==
  /\ \A d, e \in DOMAIN fds : fds[d].kind = "conn" /\ fds[d] = fds[e] => d = e
  /\ \A i, j \in DOMAIN backlog : backlog[i] = backlog[j] => i = j
  /\ \A d \in DOMAIN fds : fds[d].kind = "conn" =>
       client[fds[d].peer].pc # "away" /\ \A i \in DOMAIN backlog : backlog[i] # fds[d].peer
  /\ \A i \in DOMAIN backlog : client[backlog[i]].pc # "away"

\* What main passes on is a connection nobody uses.
Fresh(d) == fds[d].kind = "conn" /\ \A h \in Working : threads[h].sock # d
Passing ==
  /\ main.pc = "admitted" => Fresh(main.sock_fd)
  /\ main.pc = "accepted" => server_shutdown \/ Fresh(main.sock_fd)

\* A port somebody has still to read of is listened on, and the thread that offers
\* a file there announced it, to its client, last.
Offered(m, c, last, f, th) ==
  /\ \E d \in DOMAIN f : f[d].kind = "listen" /\ f[d].port = m.port
  /\ \A h \in DOMAIN th : th[h].pc \in Offering /\ th[h].port = m.port =>
       th[h].pc = "accept" /\ c = Peer(th[h], f) /\ m.file = th[h].file /\ last
Offers == \A c \in Client : \A i \in DOMAIN client[c].out : LET s == client[c].out IN
  s[i].type = "file:" => Offered(s[i], c, i = Len(s), fds, threads)

\* A conversation, from the client's side.
Polite(p, c) ==
  /\ p.inbox # <<>> => p.out = <<>> /\ p.pc \notin {"away", "prompt"}
  /\ p.pc \notin {"waiting", "data", "spins"} => p.out = <<>>
  /\ \A i \in DOMAIN p.out : p.out[i].type \in Ends => i = Len(p.out)
  /\ p.pc = "data" => p.data \in {NoData, [owner |-> c, file |-> p.told]}
  /\ \A i \in DOMAIN p.out : p.out[i].type = "md5sum:" =>
       /\ p.data = [owner |-> c, file |-> p.told] /\ p.out[i].file = p.told
       /\ \A j \in 1 .. i - 1 : p.out[j].type # "file:"
Conversations == \A c \in Client : Polite(client[c], c)

IInv == Types /\ Serving /\ Apart /\ Peers /\ Passing /\ Offers /\ Conversations
-------------------------------------------------------------------------------
LEMMA IInvInit == Init => IInv
<1> SUFFICES ASSUME Init PROVE IInv
  OBVIOUS
<1>1. Types
  BY InitTypes
<1>2. DOMAIN threads = {} /\ DOMAIN backlog = {}
  BY DEF Init
<1>3. \A d \in DOMAIN fds : fds[d].kind # "conn"
  BY DEF Init, Closed, Other
<1>4. Serving /\ Apart /\ Peers /\ Passing
  BY <1>2, <1>3 DEF Init, Serving, Apart, Peers, Passing, Working
<1>5. \A c \in Client : client[c].pc = "away" /\ client[c].out = <<>> /\ client[c].inbox = <<>>
  BY DEF Init, ClientInit
<1>6. Offers /\ Conversations
  BY <1>5 DEF Offers, Conversations, Polite
<1> QED
  BY <1>1, <1>4, <1>6 DEF IInv

\* Who serves whom, in the words of the specification.
LEMMA PeerFacts ==
  ASSUME IInv, NEW h \in Working
  PROVE  /\ h \in DOMAIN threads /\ threads[h] \in ThreadState
         /\ Serves(h) = Peer(threads[h], fds) /\ Serves(h) \in Client /\ Serves(h) # NoClient
         /\ Own(threads[h]) \subseteq 0 .. Descriptors
         /\ Holds(threads[h], fds) /\ Talks(threads[h], fds, client[Serves(h)])
<1>1. h \in DOMAIN threads /\ threads[h] \in ThreadState
  BY ThreadFacts DEF IInv, Types, Working
<1>2. threads[h].sock \in 0 .. Descriptors /\ Own(threads[h]) \subseteq 0 .. Descriptors
  BY <1>1 DEF ThreadState, Own
<1>3. Holds(threads[h], fds) /\ Talks(threads[h], fds, client[Peer(threads[h], fds)])
  BY DEF IInv, Serving
<1>4. Is(threads[h].sock, "conn")
  BY <1>2, <1>3 DEF Holds, Is, IInv, Types, TableTypes
<1>5. Serves(h) = Peer(threads[h], fds) /\ Serves(h) \in Client /\ Serves(h) # NoClient
  BY <1>1, <1>4, ServesFacts DEF Serves, Peer, IInv
<1> QED
  BY <1>1, <1>2, <1>3, <1>5

\* Two threads share no descriptor and no client.
LEMMA ApartFacts ==
  ASSUME IInv, NEW h \in Working, NEW g \in Working, g # h
  PROVE  Own(threads[h]) \cap Own(threads[g]) = {} /\ Serves(h) # Serves(g)
<1>1. /\ Holds(threads[h], fds) /\ Holds(threads[g], fds)
      /\ Serves(h) = Peer(threads[h], fds) /\ Serves(g) = Peer(threads[g], fds)
      /\ Own(threads[h]) \subseteq 0 .. Descriptors /\ Own(threads[g]) \subseteq 0 .. Descriptors
  BY PeerFacts
<1>2. threads[h].sock # threads[g].sock
  BY DEF IInv, Apart
<1>3. DOMAIN fds = 0 .. Descriptors /\ \A d \in 0 .. Descriptors : fds[d] \in Fd
  BY DEF IInv, Types, TableTypes
<1>4. threads[h].sock \in DOMAIN fds /\ threads[g].sock \in DOMAIN fds
  BY <1>1, <1>3 DEF Own
<1>5. Serves(h) # Serves(g)
  <2>1. fds[threads[h].sock] = Conn(Serves(h)) /\ fds[threads[g].sock] = Conn(Serves(g))
    BY <1>1, <1>3, <1>4, FdFacts DEF Holds, Peer
  <2> QED
    BY <1>1, <1>2, <1>4, <2>1 DEF IInv, Peers, Holds
<1>6. \A c, b : Data(c).kind = "data" /\ (Data(c) = Data(b) => c = b)
  BY DEF Data
<1>7. threads[h].pc \in Offering /\ threads[g].pc \in Offering => threads[h].lsock # threads[g].lsock
  BY DEF IInv, Apart
<1>8. Own(threads[h]) \cap Own(threads[g]) = {}
  BY <1>1, <1>2, <1>5, <1>6, <1>7 DEF Own, Holds, Offering
<1> QED
  BY <1>5, <1>8

\* A thread touches its own descriptors and free ones, and its client.
Table(h) ==
  /\ \A d \in 0 .. Descriptors :
       fds'[d] = fds[d] \/ d \in Own(threads[h]) \/ fds[d].kind = "closed"
  /\ \A d \in 0 .. Descriptors : fds'[d].kind = "conn" => fds'[d] = fds[d]
Turns(h, t) ==
  /\ Becomes(h, t)
  /\ t.pc \notin {"stop", "ended"} => t.sock = threads[h].sock /\ fds'[t.sock] = fds[t.sock]
  /\ t.pc \in Offering =>
       (threads[h].pc \in Offering /\ t.lsock = threads[h].lsock) \/ fds[t.lsock].kind = "closed"
Hears(c) ==
  /\ \A b \in Client : b # c => client'[b] = client[b]
  /\ client'[c].pc = client[c].pc /\ Polite(client'[c], c)

LEMMA HandlerKeeps ==
  ASSUME IInv, Types', NEW h \in Working, NEW t, Turns(h, t), Table(h), Hears(Serves(h)),
         t.pc \notin {"stop", "ended"} => Holds(t, fds') /\ Talks(t, fds', client'[Serves(h)]),
         main' = main, backlog' = backlog, server_shutdown => server_shutdown'
  PROVE  Serving' /\ Apart' /\ Peers' /\ Passing' /\ Conversations'
<1>1. /\ DOMAIN fds = 0 .. Descriptors /\ DOMAIN fds' = 0 .. Descriptors
      /\ \A d \in 0 .. Descriptors : fds[d] \in Fd
  BY DEF IInv, Types, TableTypes
<1>2. /\ Working \ {h} \subseteq Working' /\ Working' \subseteq Working
      /\ \A g \in Working \ {h} : threads'[g] = threads[g]
      /\ h \in Working' => threads'[h] = t /\ t.pc \notin {"stop", "ended"}
  BY PeerFacts DEF Turns, Becomes, Working
<1>3. \A g \in Working \ {h} : \A d \in Own(threads[g]) : fds'[d] = fds[d]
  <2> SUFFICES ASSUME NEW g \in Working \ {h}, NEW d \in Own(threads[g]) PROVE fds'[d] = fds[d]
    OBVIOUS
  <2>1. d \in 0 .. Descriptors /\ d \notin Own(threads[h])
    BY PeerFacts, ApartFacts
  <2>2. fds[d].kind # "closed"
    <3>1. Holds(threads[g], fds)
      BY PeerFacts
    <3> QED
      BY <3>1 DEF Holds, Own, Data
  <2> QED
    BY <2>1, <2>2 DEF Table
<1>4. \A g \in Working \ {h} :
        /\ Peer(threads'[g], fds') = Serves(g)
        /\ Holds(threads'[g], fds') /\ Talks(threads'[g], fds', client'[Serves(g)])
  <2> SUFFICES ASSUME NEW g \in Working \ {h}
               PROVE  /\ Peer(threads'[g], fds') = Serves(g)
                      /\ Holds(threads'[g], fds') /\ Talks(threads'[g], fds', client'[Serves(g)])
    OBVIOUS
  <2>1. /\ Serves(g) = Peer(threads[g], fds) /\ Serves(g) \in Client
        /\ Holds(threads[g], fds) /\ Talks(threads[g], fds, client[Serves(g)])
    BY PeerFacts
  <2>2. client'[Serves(g)] = client[Serves(g)]
    BY <2>1, ApartFacts DEF Hears
  <2>3. /\ fds'[threads[g].sock] = fds[threads[g].sock]
        /\ threads[g].pc \in Offering => fds'[threads[g].lsock] = fds[threads[g].lsock]
        /\ threads[g].pc = "send" => fds'[threads[g].tsock] = fds[threads[g].tsock]
    BY <1>3 DEF Own
  <2>4. threads'[g] = threads[g]
    BY <1>2
  <2>5. Peer(threads[g], fds') = Serves(g)
    BY <2>1, <2>3 DEF Peer
  <2>6. Holds(threads[g], fds')
    BY <2>1, <2>3, <2>5 DEF Holds
  <2>7. Talks(threads[g], fds', client[Serves(g)])
    BY <2>1, <2>3, <2>5 DEF Talks, Offering
  <2> QED
    BY <2>2, <2>4, <2>5, <2>6, <2>7
<1>5. h \in Working' =>
        /\ Peer(threads'[h], fds') = Serves(h)
        /\ Holds(threads'[h], fds') /\ Talks(threads'[h], fds', client'[Serves(h)])
  BY <1>2, PeerFacts DEF Turns, Peer
<1>6. Serving'
  <2>1. \A g \in Working' :
          Holds(threads'[g], fds') /\ Talks(threads'[g], fds', client'[Peer(threads'[g], fds')])
    BY <1>2, <1>4, <1>5
  <2> QED
    BY <2>1 DEF Serving
<1>7. Apart'
  <2>1. \A g \in Working' : threads'[g].sock = threads[g].sock
    BY <1>2 DEF Turns
  <2>2. \A g \in Working' \ {h} : threads'[g].pc \in Offering => g \in Working /\ threads[g].pc \in Offering
          /\ threads'[g].lsock = threads[g].lsock /\ fds[threads[g].lsock].kind = "listen"
    BY <1>2, PeerFacts DEF Holds
  <2>3. h \in Working' /\ threads'[h].pc \in Offering =>
          \/ threads[h].pc \in Offering /\ threads'[h].lsock = threads[h].lsock
          \/ fds[threads'[h].lsock].kind = "closed"
    BY <1>2 DEF Turns
  <2>4. \A g, k \in Working' : threads'[g].pc \in Offering /\ threads'[k].pc \in Offering
          /\ threads'[g].lsock = threads'[k].lsock => g = k
    <3> SUFFICES ASSUME NEW g \in Working', NEW k \in Working', threads'[g].pc \in Offering,
                        threads'[k].pc \in Offering, threads'[g].lsock = threads'[k].lsock, g # k
                 PROVE  FALSE
      OBVIOUS
    <3>1. g \in Working /\ k \in Working
      BY <1>2
    <3>2. CASE g # h /\ k # h
      BY <2>2, <3>1, <3>2 DEF IInv, Apart
    <3>3. CASE g = h
      BY <2>2, <2>3, <3>1, <3>3 DEF IInv, Apart
    <3>4. CASE k = h
      BY <2>2, <2>3, <3>1, <3>4 DEF IInv, Apart
    <3> QED
      BY <3>2, <3>3, <3>4
  <2>5. \A g, k \in Working' : threads'[g].sock = threads'[k].sock => g = k
    BY <1>2, <2>1 DEF IInv, Apart
  <2> QED
    BY <2>4, <2>5 DEF Apart
<1>8. \A b \in Client : client'[b].pc = client[b].pc
  BY DEF Hears
<1>9. Peers'
  <2>1. \A d \in 0 .. Descriptors : fds'[d].kind = "conn" => fds'[d] = fds[d] /\ fds[d].peer \in Client
    BY <1>1, FdFacts DEF Table
  <2>2. \A i \in DOMAIN backlog : backlog[i] \in Client
    BY LenProperties, ElementOfSeq DEF IInv, Types, TableTypes
  <2> QED
    BY <1>1, <1>8, <2>1, <2>2 DEF IInv, Peers
<1>10. Passing'
  <2>1. \A d \in 0 .. Descriptors : Fresh(d) => fds'[d].kind = "conn" /\ \A g \in Working' : threads'[g].sock # d
    <3> SUFFICES ASSUME NEW d \in 0 .. Descriptors, Fresh(d)
                 PROVE  fds'[d].kind = "conn" /\ \A g \in Working' : threads'[g].sock # d
      OBVIOUS
    <3>1. fds[d].kind = "conn" /\ threads[h].sock # d
      BY DEF Fresh
    <3>2. Holds(threads[h], fds)
      BY PeerFacts
    <3>3. fds'[d] = fds[d]
      BY <3>1, <3>2 DEF Table, Own, Holds, Data
    <3>4. \A g \in Working' : threads'[g].sock # d
      BY <1>2 DEF Fresh, Turns
    <3> QED
      BY <3>1, <3>3, <3>4
  <2>2. main.sock_fd \in 0 .. Descriptors
    BY DEF IInv, Types, MainTypes
  <2> QED
    BY <2>1, <2>2 DEF IInv, Passing, Fresh
<1>11. Conversations'
  BY DEF Hears, IInv, Conversations
<1> QED
  BY <1>6, <1>7, <1>9, <1>10, <1>11

\* One that offers nothing afterwards, and closes a listener only after it sent.
LEMMA OffersKept ==
  ASSUME IInv, Types', NEW h \in Working, NEW t, Turns(h, t), Table(h), Hears(Serves(h)),
         t.pc \notin Offering,
         \A i \in DOMAIN client'[Serves(h)].out : client'[Serves(h)].out[i].type = "file:" =>
           i \in DOMAIN client[Serves(h)].out /\ client'[Serves(h)].out[i] = client[Serves(h)].out[i],
         \A d \in 0 .. Descriptors : fds[d].kind = "listen" =>
           \/ fds'[d].kind = "listen" /\ fds'[d].port = fds[d].port
           \/ threads[h].pc = "send" /\ d = threads[h].lsock
  PROVE  Offers'
<1> SUFFICES ASSUME NEW c \in Client, NEW i \in DOMAIN client'[c].out, client'[c].out[i].type = "file:"
             PROVE  Offered(client'[c].out[i], c, i = Len(client'[c].out), fds', threads')
  BY DEF Offers
<1> DEFINE m == client[c].out[i]
<1>1. i \in DOMAIN client[c].out /\ client'[c].out[i] = m
  BY DEF Hears
<1>2. Offered(m, c, i = Len(client[c].out), fds, threads)
  BY <1>1 DEF IInv, Offers
<1>3. DOMAIN fds = 0 .. Descriptors /\ DOMAIN fds' = 0 .. Descriptors
  BY DEF IInv, Types, TableTypes
<1>4. \E d \in DOMAIN fds' : fds'[d].kind = "listen" /\ fds'[d].port = m.port
  <2>1. PICK d \in DOMAIN fds : fds[d].kind = "listen" /\ fds[d].port = m.port
    BY <1>2 DEF Offered
  <2>2. threads[h].pc = "send" => d # threads[h].lsock
    <3>1. threads[h].pc = "send" => threads[h].port # m.port /\ fds[threads[h].lsock].port = threads[h].port
      BY <1>2, PeerFacts DEF Offered, Offering, Holds, Working
    <3> QED
      BY <2>1, <3>1
  <2> QED
    BY <1>3, <2>1, <2>2
<1>5. ASSUME NEW g \in DOMAIN threads', threads'[g].pc \in Offering, threads'[g].port = m.port
      PROVE  /\ threads'[g].pc = "accept" /\ c = Peer(threads'[g], fds') /\ m.file = threads'[g].file
             /\ i = Len(client'[c].out)
  <2>1. g \in Working /\ g # h /\ threads'[g] = threads[g]
    BY <1>5, PeerFacts DEF Turns, Becomes, Working, Offering
  <2>2. threads[g].pc = "accept" /\ c = Serves(g) /\ m.file = threads[g].file /\ i = Len(client[c].out)
    BY <1>2, <1>5, <2>1, PeerFacts DEF Offered, Working
  <2>3. c # Serves(h) /\ client'[c] = client[c]
    BY <2>1, <2>2, ApartFacts DEF Hears
  <2>4. fds'[threads[g].sock] = fds[threads[g].sock]
    <3>1. threads[g].sock \notin Own(threads[h]) /\ threads[g].sock \in 0 .. Descriptors
      BY <2>1, ApartFacts, PeerFacts DEF Own
    <3>2. fds[threads[g].sock].kind = "conn"
      BY <2>1, PeerFacts DEF Holds
    <3> QED
      BY <3>1, <3>2 DEF Table
  <2> QED
    BY <2>1, <2>2, <2>3, <2>4, PeerFacts DEF Peer
<1> QED
  BY <1>1, <1>4, <1>5 DEF Offered

\* A client reads on: what is left to read is the end of what there was.
Ending(o, s) ==
  \E n \in Nat :
    /\ Len(o) = Len(s) - n /\ DOMAIN o = 1 .. Len(o)
    /\ \A i \in DOMAIN o : n + i \in DOMAIN s /\ o[i] = s[n + i] /\ (n + i = Len(s) => i = Len(o))
Reads2(p, q, c) ==
  /\ p.pc # "away" /\ q.pc # "away" /\ Ending(q.out, p.out) /\ Polite(q, c)
  /\ p.pc # "prompt" /\ p.inbox = <<>> /\ (\A i \in DOMAIN p.out : p.out[i].type \notin Ends)
       => q.pc # "prompt" /\ q.inbox = <<>>
  /\ p.out = <<>> /\ p.pc # "prompt" /\ q.pc \notin {"gone", "crashed"}
       => p.pc \notin {"gone", "crashed"} /\ q.told = p.told /\ q.data = p.data
Joins(d, c) ==
  /\ fds[d].kind = "listen" /\ fds'[d].kind = "listen" /\ fds'[d].port = fds[d].port
  /\ fds'[d].queue = Append(fds[d].queue, c)
  /\ \A h \in Working : threads[h].pc = "accept" /\ threads[h].lsock = d =>
       c = Serves(h) /\ Ready(client'[c], threads[h].file, NoData)

LEMMA ClientKeeps ==
  ASSUME IInv, Types', NEW c \in Client, Reads2(client[c], client'[c], c),
         \A b \in Client : b # c => client'[b] = client[b],
         \A d \in 0 .. Descriptors : fds'[d] = fds[d] \/ Joins(d, c),
         UNCHANGED <<threads, main, backlog, server_shutdown>>
  PROVE  IInv'
<1> DEFINE p == client[c]
           q == client'[c]
<1>1. /\ DOMAIN fds = 0 .. Descriptors /\ DOMAIN fds' = 0 .. Descriptors
      /\ \A d \in 0 .. Descriptors : fds[d] \in Fd /\ fds'[d] \in Fd
  BY DEF IInv, Types, TableTypes
<1>2. /\ \A d \in 0 .. Descriptors : fds[d].kind # "listen" => fds'[d] = fds[d]
      /\ \A d \in 0 .. Descriptors : fds'[d].kind = fds[d].kind /\ (fds[d].kind = "listen" => fds'[d].port = fds[d].port)
  BY DEF Joins
<1>3. Working' = Working
  BY DEF Working
<1>4. \A h \in Working :
        /\ Peer(threads[h], fds') = Serves(h)
        /\ Holds(threads[h], fds') /\ Talks(threads[h], fds', client'[Serves(h)])
  <2> SUFFICES ASSUME NEW h \in Working
               PROVE  /\ Peer(threads[h], fds') = Serves(h)
                      /\ Holds(threads[h], fds') /\ Talks(threads[h], fds', client'[Serves(h)])
    OBVIOUS
  <2> DEFINE t == threads[h]
  <2>1. /\ Serves(h) = Peer(t, fds) /\ Serves(h) \in Client /\ Own(t) \subseteq 0 .. Descriptors
        /\ Holds(t, fds) /\ Talks(t, fds, client[Serves(h)])
    BY PeerFacts
  <2>2. /\ t.sock \in 0 .. Descriptors
        /\ t.pc \in Offering => t.lsock \in 0 .. Descriptors
        /\ t.pc = "send" => t.tsock \in 0 .. Descriptors
    BY <2>1 DEF Own
  <2>3. fds'[t.sock] = fds[t.sock] /\ Peer(t, fds') = Serves(h)
    BY <1>2, <2>1, <2>2 DEF Holds, Peer
  <2>4. Holds(t, fds')
    <3>1. t.pc = "send" => fds'[t.tsock] = fds[t.tsock]
      BY <1>2, <2>1, <2>2 DEF Holds, Data
    <3> QED
      BY <1>2, <2>1, <2>2, <2>3, <3>1 DEF Holds
  <2>5. CASE Serves(h) # c
    <3>1. t.pc = "accept" => ~Joins(t.lsock, c)
      BY <2>5 DEF Joins
    <3>2. t.pc = "accept" => fds'[t.lsock] = fds[t.lsock]
      BY <2>2, <3>1 DEF Offering
    <3>3. client'[Serves(h)] = client[Serves(h)]
      BY <2>1, <2>5
    <3> QED
      BY <2>1, <2>3, <2>4, <3>2, <3>3 DEF Talks
  <2>6. CASE Serves(h) = c
    <3>1. \A x : t.pc \in Sending /\ Ready(p, t.file, x) => Ready(q, t.file, x)
      <4> SUFFICES ASSUME NEW x, t.pc \in Sending, Ready(p, t.file, x), q.pc \notin {"gone", "crashed"}
                   PROVE  q.out = <<>> /\ q.told = t.file /\ q.data = x
        BY DEF Ready
      <4>1. p.pc # "prompt"
        BY <2>1, <2>6 DEF Talks
      <4>2. p.pc = "gone" \/ p.pc = "crashed" => p.out = <<>>
        BY DEF IInv, Conversations, Polite
      <4>3. p.out = <<>>
        BY <4>2 DEF Ready
      <4>4. p.pc \notin {"gone", "crashed"} /\ q.told = p.told /\ q.data = p.data
        BY <4>1, <4>3 DEF Reads2
      <4>5. q.out = <<>>
        <5>1. q.out \in Seq(Msg) /\ DOMAIN q.out = {}
          BY <4>3 DEF Reads2, Ending, Types, ClientTypes, ClientState
        <5> QED
          <6> DEFINE o == q.out
          <6>1. o \in Seq(Msg) /\ DOMAIN o = {}
            BY <5>1
          <6> HIDE DEF o
          <6>2. Len(o) \in Nat /\ DOMAIN o = 1 .. Len(o)
            BY <6>1, LenProperties
          <6>3. Len(o) = 0
            <7>1. Len(o) >= 1 => 1 \in 1 .. Len(o)
              BY <6>2
            <7> QED
              BY <6>1, <6>2, <7>1
          <6>4. o = <<>>
            BY <6>1, <6>3, EmptySeq
          <6> QED
            BY <6>4 DEF o
      <4> QED
        BY <4>4, <4>5 DEF Ready
    <3>2. t.pc \in Sending =>
            /\ q.pc \notin {"away", "prompt"} /\ q.inbox = <<>>
            /\ \A i \in DOMAIN q.out : q.out[i].type \notin Ends
      <4>1. t.pc \in Sending =>
              p.pc # "prompt" /\ p.inbox = <<>> /\ \A i \in DOMAIN p.out : p.out[i].type \notin Ends
        BY <2>1, <2>6 DEF Talks
      <4> QED
        BY <4>1 DEF Reads2, Ending
    <3>3. t.pc = "accept" =>
            /\ fds'[t.lsock].queue # <<>> => Ready(q, t.file, NoData)
            /\ \A i \in DOMAIN fds'[t.lsock].queue : fds'[t.lsock].queue[i] = c
      <4> SUFFICES ASSUME t.pc = "accept"
                   PROVE  /\ fds'[t.lsock].queue # <<>> => Ready(q, t.file, NoData)
                          /\ \A i \in DOMAIN fds'[t.lsock].queue : fds'[t.lsock].queue[i] = c
        OBVIOUS
      <4>1. /\ fds[t.lsock].queue # <<>> => Ready(p, t.file, NoData)
            /\ \A i \in DOMAIN fds[t.lsock].queue : fds[t.lsock].queue[i] = c
        BY <2>1, <2>6 DEF Talks
      <4>2. CASE fds'[t.lsock] = fds[t.lsock]
        BY <3>1, <4>1, <4>2 DEF Sending, Offering
      <4>3. CASE Joins(t.lsock, c)
        <5> DEFINE s == fds[t.lsock].queue
        <5>1. s \in Seq(Client)
          BY <1>1, <2>2, <4>3, FdFacts DEF Joins, Offering
        <5>2. fds'[t.lsock].queue = Append(s, c) /\ Ready(q, t.file, NoData)
          BY <4>3 DEF Joins
        <5> HIDE DEF s
        <5>3. \A i \in DOMAIN Append(s, c) : (i \in DOMAIN s /\ Append(s, c)[i] = s[i]) \/ Append(s, c)[i] = c
          <6>1. /\ Append(s, c) \in Seq(Client) /\ Len(Append(s, c)) = Len(s) + 1
                /\ \A i \in 1 .. Len(s) : Append(s, c)[i] = s[i]
                /\ Append(s, c)[Len(s) + 1] = c
            BY <5>1, AppendProperties
          <6>2. Len(s) \in Nat /\ DOMAIN s = 1 .. Len(s) /\ DOMAIN Append(s, c) = 1 .. Len(s) + 1
            BY <5>1, <6>1, LenProperties
          <6>3. \A i \in DOMAIN Append(s, c) : i \in 1 .. Len(s) \/ i = Len(s) + 1
            BY <6>2
          <6> QED
            BY <6>1, <6>2, <6>3
        <5> QED
          BY <4>1, <5>2, <5>3 DEF s
      <4> QED
        BY <2>2, <4>2, <4>3 DEF Offering
    <3> QED
      BY <2>1, <2>3, <2>4, <2>6, <3>1, <3>2, <3>3 DEF Talks, Sending, Offering
  <2> QED
    BY <2>5, <2>6
<1>5. Serving'
  <2>1. \A h \in Working : Holds(threads[h], fds') /\ Talks(threads[h], fds', client'[Peer(threads[h], fds')])
    BY <1>4
  <2> QED
    BY <1>3, <2>1 DEF Serving
<1>6. Apart'
  BY <1>3 DEF IInv, Apart
<1>7. \A b \in Client : client[b].pc # "away" => client'[b].pc # "away"
  BY DEF Reads2
<1>8. Peers'
  <2>1. \A d \in 0 .. Descriptors : fds'[d].kind = "conn" => fds'[d] = fds[d] /\ fds[d].peer \in Client
    BY <1>1, <1>2, FdFacts
  <2>2. \A i \in DOMAIN backlog : backlog[i] \in Client
    BY LenProperties, ElementOfSeq DEF IInv, Types, TableTypes
  <2> QED
    BY <1>1, <1>7, <2>1, <2>2 DEF IInv, Peers
<1>9. Passing'
  <2>1. main.sock_fd \in 0 .. Descriptors
    BY DEF IInv, Types, MainTypes
  <2> QED
    BY <1>2, <1>3, <2>1 DEF IInv, Passing, Fresh
<1>10. Offers'
  <2> SUFFICES ASSUME NEW b \in Client, NEW i \in DOMAIN client'[b].out, client'[b].out[i].type = "file:"
               PROVE  Offered(client'[b].out[i], b, i = Len(client'[b].out), fds', threads')
    BY DEF Offers
  <2>1. PICK j \in DOMAIN client[b].out :
          client'[b].out[i] = client[b].out[j] /\ (j = Len(client[b].out) => i = Len(client'[b].out))
    <3>1. CASE b = c
      <4>1. Ending(client'[c].out, client[c].out)
        BY DEF Reads2
      <4>2. PICK n \in Nat : /\ n + i \in DOMAIN client[c].out /\ client'[c].out[i] = client[c].out[n + i]
                             /\ (n + i = Len(client[c].out) => i = Len(client'[c].out))
        BY <3>1, <4>1 DEF Ending
      <4> QED
        BY <3>1, <4>2
    <3>2. CASE b # c
      BY <3>2
    <3> QED
      BY <3>1, <3>2
  <2>2. Offered(client[b].out[j], b, j = Len(client[b].out), fds, threads)
    BY <2>1 DEF IInv, Offers
  <2>3. \A h \in DOMAIN threads : threads[h].pc \in Offering => Peer(threads[h], fds') = Peer(threads[h], fds)
    BY <1>4, PeerFacts DEF Working, Offering
  <2> HIDE DEF p, q
  <2> DEFINE m == client[b].out[j]
  <2>4. client'[b].out[i] = m
    BY <2>1
  <2> HIDE DEF m
  <2>5. Offered(m, b, j = Len(client[b].out), fds, threads)
    BY <2>2 DEF m
  <2> QED
    BY <1>1, <1>2, <2>1, <2>3, <2>4, <2>5 DEF Offered
<1>11. Conversations'
  BY DEF Reads2, IInv, Conversations
<1> QED
  BY <1>5, <1>6, <1>8, <1>9, <1>10, <1>11 DEF IInv

LEMMA EndingFacts ==
  ASSUME NEW s \in Seq(Msg)
  PROVE  Ending(s, s) /\ Ending(<<>>, s)
<1>1. Len(s) \in Nat /\ DOMAIN s = 1 .. Len(s)
  BY LenProperties
<1>2. Ending(s, s)
  <2>1. Len(s) = Len(s) - 0 /\ \A i \in DOMAIN s : 0 + i = i
    BY <1>1
  <2> QED
    BY <1>1, <2>1 DEF Ending
<1>3. Ending(<<>>, s)
  <2>1. Len(<<>>) = Len(s) - Len(s) /\ DOMAIN <<>> = 1 .. Len(<<>>) /\ DOMAIN <<>> = {}
    BY <1>1
  <2> QED
    BY <1>1, <2>1 DEF Ending
<1> QED
  BY <1>2, <1>3

\* What a read leaves.
LEMMA LeftEnding ==
  ASSUME ClientTypes, NEW c \in Client, NEW r \in MayRead(c)
  PROVE  /\ Ending(Left(client[c], r), client[c].out)
         /\ client[c].out # <<>> /\ 1 \in DOMAIN client[c].out /\ r[1] = client[c].out[1]
         /\ Len(r) \in Nat \ {0}
         /\ Len(r) # 1 => 2 \in DOMAIN client[c].out /\ r[2] = client[c].out[2]
         /\ \A k \in 1 .. Len(r) : k = Len(client[c].out) => Left(client[c], r) = <<>>
<1> DEFINE s == client[c].out
           o == Left(client[c], r)
<1>1. /\ s \in Seq(Msg) /\ o \in Seq(Msg) /\ Len(r) \in 1 .. Len(s) /\ DOMAIN s = 1 .. Len(s)
      /\ \A i \in 1 .. Len(r) : i \in DOMAIN s /\ r[i] = s[i]
      /\ DOMAIN o = 1 .. Len(s) - Len(r)
      /\ \A i \in DOMAIN o : Len(r) + i \in DOMAIN s /\ o[i] = s[Len(r) + i]
  BY MayReadFacts
<1> HIDE DEF s, o
<1> DEFINE m == Len(s)
           n == Len(r)
           k == Len(o)
<1>2. m \in Nat /\ n \in Nat /\ 1 <= n /\ n <= m /\ k \in Nat /\ DOMAIN o = 1 .. k
  <2>1. m \in Nat /\ k \in Nat /\ DOMAIN o = 1 .. k
    BY <1>1, LenProperties
  <2>2. n \in 1 .. m
    BY <1>1
  <2> HIDE DEF m, n, k
  <2> QED
    BY <2>1, <2>2
<1>3. k = m - n
  <2>1. 1 .. k = 1 .. m - n
    BY <1>1, <1>2
  <2> HIDE DEF m, n, k
  <2>2. k \in Nat /\ m - n \in Nat
    BY <1>2
  <2>3. \A a, b \in Nat : 1 .. a = 1 .. b => a = b
    <3> SUFFICES ASSUME NEW a \in Nat, NEW b \in Nat, 1 .. a = 1 .. b PROVE a = b
      OBVIOUS
    <3>1. \A i \in Nat : i \in 1 .. a <=> i \in 1 .. b
      OBVIOUS
    <3>2. a > 0 => a \in 1 .. a
      OBVIOUS
    <3>3. b > 0 => b \in 1 .. b
      OBVIOUS
    <3> QED
      BY <3>1, <3>2, <3>3
  <2> QED
    BY <2>1, <2>2, <2>3
<1>4. \A i \in DOMAIN o : n + i = m => i = k
  <2> HIDE DEF m, n, k
  <2> QED
    BY <1>2, <1>3
<1>5. Ending(o, s)
  BY <1>1, <1>2, <1>3, <1>4 DEF Ending
<1>6. s # <<>> /\ 1 \in 1 .. n /\ (n # 1 => 2 \in 1 .. n)
  <2>1. s # <<>>
    <3>1. DOMAIN s = 1 .. m /\ DOMAIN <<>> = {}
      BY <1>1
    <3>2. 1 \in 1 .. m
      BY <1>2
    <3> HIDE DEF m
    <3> QED
      BY <3>1, <3>2
  <2> HIDE DEF m, n, k
  <2>2. 1 \in 1 .. n /\ (n # 1 => 2 \in 1 .. n)
    BY <1>2
  <2> QED
    BY <2>1, <2>2
<1>7. m = n => o = <<>>
  BY <1>1, <1>3, EmptySeq
<1>8. \A i \in 1 .. n : i = m => m = n
  <2> HIDE DEF m, n, k
  <2> QED
    BY <1>2
<1> QED
  BY <1>1, <1>2, <1>5, <1>6, <1>7, <1>8 DEF s, o

\* One that goes on reading stays polite.
LEMMA PoliteEnding ==
  ASSUME NEW c \in Client, NEW p, NEW q, Polite(p, c), p.out \in Seq(Msg), p.out # <<>>, Ending(q.out, p.out),
         q.inbox = p.inbox, q.told = p.told, q.data = p.data,
         q.pc = "waiting" \/ (q.out = <<>> /\ q.pc # "data")
  PROVE  Polite(q, c)
<1> DEFINE s == p.out
           o == q.out
<1>1. PICK n \in Nat : /\ Len(o) = Len(s) - n /\ DOMAIN o = 1 .. Len(o)
                       /\ \A i \in DOMAIN o : n + i \in DOMAIN s /\ o[i] = s[n + i] /\ (n + i = Len(s) => i = Len(o))
  BY DEF Ending
<1>2. Len(s) \in Nat /\ DOMAIN s = 1 .. Len(s)
  BY LenProperties
<1>3. q.inbox = <<>>
  BY DEF Polite
<1>4. \A i \in DOMAIN o : o[i].type \in Ends => i = Len(o)
  BY <1>1 DEF Polite
<1>5. ASSUME NEW i \in DOMAIN o, o[i].type = "md5sum:"
      PROVE  /\ q.data = [owner |-> c, file |-> q.told] /\ o[i].file = q.told
             /\ \A j \in 1 .. i - 1 : o[j].type # "file:"
  <2>1. n + i \in DOMAIN s /\ s[n + i] = o[i]
    BY <1>1
  <2>2. /\ p.data = [owner |-> c, file |-> p.told] /\ s[n + i].file = p.told
        /\ \A j \in 1 .. (n + i) - 1 : s[j].type # "file:"
    BY <1>5, <2>1 DEF Polite
  <2>3. \A j \in 1 .. i - 1 : j \in DOMAIN o /\ n + j \in 1 .. (n + i) - 1
    BY <1>1, <1>2
  <2> QED
    BY <1>1, <2>1, <2>2, <2>3
<1> QED
  BY <1>3, <1>4, <1>5 DEF Polite

\* What the client read is an end of the conversation only when one was sent, last.
LEMMA EndWord ==
  ASSUME IInv, NEW c \in Client, NEW r \in MayRead(c), Word(r) \in Ends
  PROVE  /\ Left(client[c], r) = <<>>
         /\ \E i \in DOMAIN client[c].out : client[c].out[i].type \in Ends
<1>1. PICK k \in 1 .. Len(r) : k \in DOMAIN client[c].out /\ client[c].out[k].type \in Ends
  <2>1. /\ 1 \in DOMAIN client[c].out /\ r[1] = client[c].out[1] /\ Len(r) \in Nat \ {0}
        /\ Len(r) # 1 => 2 \in DOMAIN client[c].out /\ r[2] = client[c].out[2]
    BY LeftEnding DEF IInv, Types
  <2>2. 1 \in 1 .. Len(r) /\ (Len(r) # 1 => 2 \in 1 .. Len(r))
    <3> DEFINE n == Len(r)
    <3>1. n \in Nat \ {0}
      BY <2>1
    <3> HIDE DEF n
    <3>2. 1 \in 1 .. n /\ (n # 1 => 2 \in 1 .. n)
      BY <3>1
    <3> QED
      BY <3>2 DEF n
  <2>3. CASE IsSum(r)
    BY <2>1, <2>2, <2>3 DEF Word, Ends
  <2>4. CASE ~IsSum(r)
    BY <2>1, <2>2, <2>4 DEF Word, Ends
  <2> QED
    BY <2>3, <2>4
<1>2. k = Len(client[c].out)
  BY <1>1 DEF IInv, Conversations, Polite
<1> QED
  BY <1>1, <1>2, LeftEnding DEF IInv, Types

\* The steps of a client that touch no socket of the server.
LEMMA AloneKeeps ==
  ASSUME IInv, Types', NEW c \in Client, NEW q, client' = [client EXCEPT ![c] = q],
         Reads2(client[c], q, c), UNCHANGED <<fds, backlog, Others>>
  PROVE  IInv'
<1>1. \A b \in Client : client'[b] = IF b = c THEN q ELSE client[b]
  BY DEF IInv, Types, ClientTypes
<1> QED
  BY <1>1, ClientKeeps DEF Others

LEMMA DeadReads ==
  ASSUME IInv, NEW c \in Client, client[c].pc \notin {"away", "prompt"}, NEW p \in ClientState,
         p.inbox = client[c].inbox, client[c].inbox # <<>> => p.out = client[c].out
  PROVE  Reads2(client[c], Dead(p), c)
<1>1. /\ Dead(p).pc \in {"gone", "crashed"} /\ Dead(p).inbox = p.inbox /\ Dead(p).out = <<>>
  BY DeadFacts
<1>2. client[c].out \in Seq(Msg)
  BY DEF IInv, Types, ClientTypes, ClientState
<1>3. Polite(Dead(p), c)
  BY <1>1 DEF Polite
<1> QED
  BY <1>1, <1>2, <1>3, EndingFacts DEF Reads2

LEMMA HearKeeps ==
  ASSUME IInv, Types', NEW c \in Client, Hear(c) \/ Fail(c), UNCHANGED <<fds, backlog, Others>>
  PROVE  IInv'
<1>0. ClientTypes /\ Polite(client[c], c) /\ client[c].out \in Seq(Msg)
  BY DEF IInv, Types, Conversations, ClientTypes, ClientState
<1>1. CASE Fail(c)
  <2>1. PICK r \in MayRead(c) : client' = [client EXCEPT ![c] = Dead(Heard(c, r))]
    BY <1>1 DEF Fail
  <2>2. /\ Heard(c, r) \in ClientState /\ client[c].pc = "waiting" /\ Heard(c, r).inbox = client[c].inbox
        /\ client[c].out # <<>>
    BY <1>0, HeardFacts, LeftEnding, MayReadFacts
  <2>3. client[c].inbox = <<>>
    BY <1>0, <2>2 DEF Polite
  <2>4. Reads2(client[c], Dead(Heard(c, r)), c)
    BY <2>2, <2>3, DeadReads
  <2> QED
    BY <2>1, <2>4, AloneKeeps
<1>2. CASE Hear(c)
  <2>1. PICK r \in MayRead(c) : client' = [client EXCEPT ![c] =
          [Heard(c, r) EXCEPT !.pc = IF Word(r) \in {"done", "error:"} THEN "prompt" ELSE "waiting"]]
    BY <1>2 DEF Hear
  <2> DEFINE w == IF Word(r) \in {"done", "error:"} THEN "prompt" ELSE "waiting"
             u == Heard(c, r)
             q == [u EXCEPT !.pc = w]
  <2>2. /\ u \in ClientState /\ u.inbox = client[c].inbox /\ u.out = Left(client[c], r)
        /\ u.told = client[c].told /\ u.data = client[c].data
    BY <1>0, HeardFacts
  <2>3. /\ client[c].pc = "waiting" /\ client[c].out # <<>> /\ Ending(Left(client[c], r), client[c].out)
    BY <1>0, LeftEnding, MayReadFacts
  <2>4. /\ w \in {"prompt", "waiting"}
        /\ w = "prompt" => /\ Left(client[c], r) = <<>>
                           /\ \E i \in DOMAIN client[c].out : client[c].out[i].type \in Ends
    BY EndWord DEF Ends
  <2> HIDE DEF u, w
  <2>5. /\ q.pc = w /\ q.inbox = client[c].inbox /\ q.out = Left(client[c], r)
        /\ q.told = client[c].told /\ q.data = client[c].data
    BY <2>2 DEF ClientState
  <2>6. client' = [client EXCEPT ![c] = q]
    BY <2>1 DEF u, w
  <2> HIDE DEF q
  <2>7. Polite(q, c)
    BY <1>0, <2>3, <2>4, <2>5, PoliteEnding
  <2>8. Reads2(client[c], q, c)
    BY <2>3, <2>4, <2>5, <2>7 DEF Reads2
  <2> QED
    BY <2>6, <2>8, AloneKeeps
<1> QED
  BY <1>1, <1>2

\* A client asks, leaves, dies, or goes on with what it has.
LEMMA OtherClientKeeps ==
  ASSUME IInv, Types', NEW c \in Client, UNCHANGED <<fds, backlog, Others>>,
         \/ \E cmd \in Commands : Ask(c, cmd)
         \/ DataLost(c) \/ EndOfStream(c) \/ EndOfData(c) \/ Leave(c)
  PROVE  IInv'
<1> DEFINE p == client[c]
<1>1. p \in ClientState /\ Polite(p, c) /\ p.out \in Seq(Msg)
  BY DEF IInv, Types, Conversations, ClientTypes, ClientState
<1>2. Ending(p.out, p.out)
  BY <1>1, EndingFacts
<1> DEFINE Pc(pc) == client' = [client EXCEPT ![c].pc = pc]
<1> HIDE DEF Pc
<1>3. ASSUME NEW pc, Pc(pc), pc \notin {"away", "prompt", "data"}, p.pc # "away",
             \/ p.pc \in {"waiting", "data"} /\ pc \in {"waiting", "spins"}
             \/ p.pc = "prompt" /\ pc = "gone"
      PROVE  IInv'
  <2> DEFINE q == [p EXCEPT !.pc = pc]
  <2>1. q.pc = pc /\ q.inbox = p.inbox /\ q.out = p.out /\ q.told = p.told /\ q.data = p.data
    BY <1>1 DEF ClientState
  <2>2. client' = [client EXCEPT ![c] = q]
    BY <1>3 DEF Pc
  <2> HIDE DEF q, p
  <2>3. Polite(q, c)
    BY <1>1, <1>3, <2>1 DEF Polite
  <2>4. Reads2(p, q, c)
    BY <1>2, <1>3, <2>1, <2>3 DEF Reads2
  <2> QED
    BY <2>2, <2>4, AloneKeeps DEF p
<1>4. ASSUME Die(c), p.pc \notin {"away", "prompt"} PROVE IInv'
  BY <1>1, <1>4, DeadReads, AloneKeeps DEF Die
<1>5. ASSUME NEW cmd \in Commands, Ask(c, cmd) PROVE IInv'
  <2> DEFINE q == [p EXCEPT !.inbox = <<cmd>>, !.sent = @ + 1, !.got = {}, !.told = 0, !.data = NoData,
                     !.pc = IF cmd \in {"exit", "shutdown"} THEN "gone" ELSE "waiting"]
  <2>1. p.pc = "prompt" /\ client' = [client EXCEPT ![c] = q]
    BY <1>5 DEF Ask
  <2>2. q.pc \in {"gone", "waiting"} /\ q.out = p.out
    BY <1>1 DEF ClientState
  <2> HIDE DEF q, p
  <2>3. p.out = <<>>
    BY <1>1, <2>1 DEF Polite
  <2>4. Polite(q, c)
    BY <2>2, <2>3 DEF Polite
  <2>5. Reads2(p, q, c)
    BY <1>2, <2>1, <2>2, <2>4 DEF Reads2
  <2> QED
    BY <2>1, <2>5, AloneKeeps DEF p
<1>6. ASSUME EndOfData(c) PROVE IInv'
  <2> DEFINE q == [p EXCEPT !.pc = "waiting", !.got = @ \cup {p.data.file}]
  <2>1. p.pc = "data" /\ client' = [client EXCEPT ![c] = q]
    BY <1>6 DEF EndOfData
  <2>2. q.pc = "waiting" /\ q.inbox = p.inbox /\ q.out = p.out /\ q.told = p.told /\ q.data = p.data
    BY <1>1 DEF ClientState
  <2> HIDE DEF q, p
  <2>3. Polite(q, c)
    BY <1>1, <2>1, <2>2 DEF Polite
  <2>4. Reads2(p, q, c)
    BY <1>2, <2>1, <2>2, <2>3 DEF Reads2
  <2> QED
    BY <2>1, <2>4, AloneKeeps DEF p
<1>7. CASE DataLost(c)
  <2>1. p.pc = "data" /\ (Die(c) \/ Pc("waiting"))
    BY <1>7 DEF DataLost, Pc
  <2>2. ASSUME Pc("waiting") PROVE IInv'
    BY <1>3, <2>1, <2>2
  <2> QED
    BY <1>4, <2>1, <2>2
<1>8. CASE EndOfStream(c)
  <2>1. p.pc = "waiting" /\ (Die(c) \/ Pc("spins"))
    BY <1>8 DEF EndOfStream, Pc
  <2>2. ASSUME Pc("spins") PROVE IInv'
    BY <1>3, <2>1, <2>2
  <2> QED
    BY <1>4, <2>1, <2>2
<1>9. CASE Leave(c)
  <2>1. \/ p.pc = "prompt" /\ Pc("gone")
        \/ p.pc \in {"waiting", "data"} /\ Die(c)
    BY <1>9 DEF Leave, Pc
  <2>2. ASSUME p.pc = "prompt", Pc("gone") PROVE IInv'
    BY <1>3, <2>2
  <2> QED
    BY <1>4, <2>1, <2>2
<1> QED
  BY <1>5, <1>6, <1>7, <1>8, <1>9

\* A client that connects for its file joins the queue of the thread that offers it.
LEMMA TakeFileKeeps ==
  ASSUME IInv, Types', NEW c \in Client, TakeFile(c)
  PROVE  IInv'
<1> DEFINE p == client[c]
           s == p.out
<1>1. ClientTypes /\ p \in ClientState /\ Polite(p, c) /\ s \in Seq(Msg)
  BY DEF IInv, Types, Conversations, ClientTypes, ClientState
<1>2. PICK r \in MayRead(c) :
        /\ Word(r) = "file:"
        /\ LET L == IF main.pc = "ended" THEN {} ELSE Listeners(Line(r).port)
               t == [Heard(c, r) EXCEPT !.told = Line(r).file] IN
             /\ client' = [client EXCEPT ![c] =
                  IF L = {} THEN t ELSE [t EXCEPT !.pc = "data", !.data = NoData]]
             /\ fds' = [d \in DOMAIN fds |->
                          IF d \in L THEN [fds[d] EXCEPT !.queue = Append(@, c)] ELSE fds[d]]
        /\ UNCHANGED <<backlog, Others>>
  BY DEF TakeFile
<1> DEFINE m == Line(r)
           L == IF main.pc = "ended" THEN {} ELSE Listeners(m.port)
           u == Heard(c, r)
           t == [u EXCEPT !.told = m.file]
           v == [t EXCEPT !.pc = "data", !.data = NoData]
           q == IF L = {} THEN t ELSE v
<1>3. /\ u \in ClientState /\ u.pc = "waiting" /\ u.inbox = p.inbox /\ u.out = Left(p, r) /\ u.data = p.data
  BY <1>1, HeardFacts
<1>4. /\ p.pc = "waiting" /\ s # <<>> /\ Ending(Left(p, r), s)
      /\ DOMAIN s = 1 .. Len(s) /\ Len(r) \in 1 .. Len(s)
      /\ \A i \in DOMAIN Left(p, r) : Len(r) + i \in DOMAIN s /\ Left(p, r)[i] = s[Len(r) + i]
      /\ DOMAIN Left(p, r) = 1 .. Len(s) - Len(r)
  BY <1>1, LeftEnding, MayReadFacts
<1>5. PICK k \in 1 .. Len(r) : k \in DOMAIN s /\ m = s[k] /\ s[k].type = "file:"
  <2>1. /\ 1 \in DOMAIN s /\ r[1] = s[1] /\ Len(r) \in Nat \ {0}
        /\ Len(r) # 1 => 2 \in DOMAIN s /\ r[2] = s[2]
    BY <1>1, LeftEnding
  <2>2. 1 \in 1 .. Len(r) /\ (Len(r) # 1 => 2 \in 1 .. Len(r))
    <3> DEFINE n == Len(r)
    <3>1. n \in Nat \ {0}
      BY <2>1
    <3> HIDE DEF n
    <3>2. 1 \in 1 .. n /\ (n # 1 => 2 \in 1 .. n)
      BY <3>1
    <3> QED
      BY <3>2 DEF n
  <2>3. CASE IsSum(r)
    <3>1. Len(r) # 1 /\ r[2].type = "file:"
      BY <1>2, <2>3 DEF Word
    <3>2. Len(r) > 1
      <4> DEFINE n == Len(r)
      <4>1. n \in Nat \ {0} /\ n # 1
        BY <2>1, <3>1
      <4> HIDE DEF n
      <4>2. n > 1
        BY <4>1
      <4> QED
        BY <4>2 DEF n
    <3> QED
      BY <2>1, <2>2, <2>3, <3>1, <3>2 DEF Line
  <2>4. CASE ~IsSum(r)
    <3>1. r[1].type = "file:"
      BY <1>2, <2>4 DEF Word
    <3> QED
      BY <2>1, <2>2, <2>4, <3>1 DEF Line
  <2> QED
    BY <2>3, <2>4
<1>6. Offered(m, c, k = Len(s), fds, threads)
  BY <1>5 DEF IInv, Offers
<1>7. k = Len(s) => Left(p, r) = <<>>
  BY <1>1, <1>5, LeftEnding
<1> HIDE DEF u
<1>8. t.pc = "waiting" /\ t.inbox = p.inbox /\ t.out = Left(p, r) /\ t.told = m.file /\ t.data = p.data
      /\ v.pc = "data" /\ v.inbox = p.inbox /\ v.out = Left(p, r) /\ v.told = m.file /\ v.data = NoData
  BY <1>3 DEF ClientState
<1> HIDE DEF t, v
<1>9. /\ q.pc \in {"waiting", "data"} /\ q.inbox = p.inbox /\ q.out = Left(p, r) /\ q.told = m.file
      /\ q.pc = "data" => q.data = NoData
  BY <1>8
<1>10. client' = [client EXCEPT ![c] = q]
  BY <1>2 DEF t, u, v
<1>11. L # {} => q.pc = "data" /\ q.data = NoData
  BY <1>8
<1> HIDE DEF q
<1>12. Polite(q, c)
  <2>1. q.inbox = <<>>
    BY <1>1, <1>4, <1>9 DEF Polite
  <2>2. \A i \in DOMAIN q.out : q.out[i].type \in Ends => i = Len(q.out)
    BY <1>1, <1>4, <1>9 DEF Polite, Ending
  <2>3. ASSUME NEW i \in DOMAIN q.out, q.out[i].type = "md5sum:" PROVE FALSE
    <3> DEFINE n == Len(r)
    <3>1. n + i \in DOMAIN s /\ s[n + i].type = "md5sum:"
      BY <1>4, <1>9, <2>3
    <3>2. \A j \in 1 .. (n + i) - 1 : s[j].type # "file:"
      BY <1>1, <3>1 DEF Polite
    <3>3. k \in 1 .. (n + i) - 1
      <4>1. Len(s) \in Nat /\ n \in 1 .. Len(s) /\ i \in 1 .. Len(s) - n /\ k \in 1 .. n
        BY <1>1, <1>4, <1>5, <1>9, <2>3, LenProperties
      <4> HIDE DEF n, s
      <4> QED
        BY <4>1
    <3> QED
      BY <1>5, <3>2, <3>3
  <2> HIDE DEF p, s, m, L
  <2>4. q.pc \notin {"waiting", "data", "spins"} => q.out = <<>>
    BY <1>9
  <2> QED
    BY <1>9, <2>1, <2>2, <2>3, <2>4 DEF Polite
<1>13. Reads2(p, q, c)
  BY <1>4, <1>9, <1>12 DEF Reads2
<1>14. \A b \in Client : client'[b] = IF b = c THEN q ELSE client[b]
  BY <1>10 DEF IInv, Types, ClientTypes
<1>15. ASSUME NEW d \in 0 .. Descriptors, d \in L PROVE Joins(d, c)
  <2>1. fds[d].kind = "listen" /\ fds[d].port = m.port /\ fds[d] \in Fd
    BY <1>15 DEF Listeners, Is, IInv, Types, TableTypes
  <2>2. fds[d].queue \in Seq(Client) /\ Append(fds[d].queue, c) \in Seq(Client)
    BY <2>1, FdFacts, AppendProperties
  <2>3. fds'[d].kind = "listen" /\ fds'[d].port = fds[d].port /\ fds'[d].queue = Append(fds[d].queue, c)
    <3> DEFINE e == fds[d]
               a == Append(e.queue, c)
    <3>1. fds'[d] = [e EXCEPT !.queue = a]
      BY <1>2, <1>15 DEF IInv, Types, TableTypes
    <3>2. e \in Fd /\ e.kind = "listen" /\ a \in Seq(Client)
      BY <2>1, <2>2
    <3> HIDE DEF e, a
    <3>3. fds'[d].kind = "listen" /\ fds'[d].port = e.port /\ fds'[d].queue = a
      BY <3>1, <3>2, SetQueue
    <3> QED
      BY <3>3 DEF e, a
  <2>4. ASSUME NEW h \in Working, threads[h].pc = "accept", threads[h].lsock = d
        PROVE  c = Serves(h) /\ Ready(client'[c], threads[h].file, NoData)
    <3>1. threads[h].port = m.port /\ threads[h].pc \in Offering /\ h \in DOMAIN threads
      BY <2>1, <2>4, PeerFacts DEF Holds, Offering
    <3>2. c = Serves(h) /\ m.file = threads[h].file /\ k = Len(s)
      BY <1>6, <3>1, PeerFacts DEF Offered
    <3> QED
      BY <1>7, <1>9, <1>11, <1>14, <1>15, <3>2 DEF Ready
  <2> QED
    BY <2>1, <2>3, <2>4 DEF Joins
<1>16. \A d \in 0 .. Descriptors : fds'[d] = fds[d] \/ Joins(d, c)
  <2>1. \A d \in 0 .. Descriptors : d \notin L => fds'[d] = fds[d]
    BY <1>2 DEF IInv, Types, TableTypes
  <2> QED
    BY <1>15, <2>1
<1> QED
  BY <1>2, <1>13, <1>14, <1>16, ClientKeeps DEF Others

\* One that connects for the first time is in the queue of main, once.
LEMMA ConnectKeeps ==
  ASSUME IInv, Types', NEW c \in Client, Connect(c)
  PROVE  IInv'
<1> DEFINE q == [client[c] EXCEPT !.pc = "prompt"]
<1>1. /\ client[c].pc = "away" /\ client' = [client EXCEPT ![c] = q] /\ backlog' = Append(backlog, c)
      /\ UNCHANGED <<fds, threads, main, server_shutdown>>
  BY DEF Connect, Others
<1>2. client[c] \in ClientState /\ client \in [Client -> ClientState] /\ Polite(client[c], c)
  BY DEF IInv, Types, ClientTypes, Conversations
<1>3. q.pc = "prompt" /\ q.inbox = client[c].inbox /\ q.out = client[c].out
  BY <1>2 DEF ClientState
<1> HIDE DEF q
<1>4. \A b \in Client : client'[b] = IF b = c THEN q ELSE client[b]
  BY <1>1, <1>2
<1>5. q.out = <<>> /\ q.inbox = <<>> /\ Polite(q, c)
  BY <1>1, <1>2, <1>3 DEF Polite
<1>6. \A h \in Working : Serves(h) # c /\ Serves(h) = Peer(threads[h], fds) /\ Serves(h) \in Client
  <2> SUFFICES ASSUME NEW h \in Working
               PROVE  Serves(h) # c /\ Serves(h) = Peer(threads[h], fds) /\ Serves(h) \in Client
    OBVIOUS
  <2>1. fds[threads[h].sock].kind = "conn" /\ threads[h].sock \in DOMAIN fds
    BY PeerFacts DEF Holds, Own, IInv, Types, TableTypes
  <2>2. client[Serves(h)].pc # "away"
    BY <2>1, PeerFacts DEF IInv, Peers, Peer
  <2> QED
    BY <1>1, <2>2, PeerFacts
<1>7. Serving' /\ Apart' /\ Passing'
  BY <1>1, <1>4, <1>6 DEF IInv, Serving, Apart, Passing, Fresh, Working
<1>8. Offers' /\ Conversations'
  BY <1>1, <1>4, <1>5 DEF IInv, Offers, Conversations
<1>9. Peers'
  <2>1. /\ backlog \in Seq(Client) /\ Len(backlog) \in Nat /\ DOMAIN backlog = 1 .. Len(backlog)
        /\ DOMAIN backlog' = 1 .. Len(backlog) + 1 /\ backlog'[Len(backlog) + 1] = c
        /\ \A i \in DOMAIN backlog : backlog'[i] = backlog[i] /\ backlog[i] \in Client /\ backlog[i] # c
    <3>1. backlog \in Seq(Client)
      BY DEF IInv, Types, TableTypes
    <3>2. /\ Append(backlog, c) \in Seq(Client) /\ Len(Append(backlog, c)) = Len(backlog) + 1
          /\ \A i \in 1 .. Len(backlog) : Append(backlog, c)[i] = backlog[i]
          /\ Append(backlog, c)[Len(backlog) + 1] = c
      BY <3>1, AppendProperties
    <3>3. \A i \in DOMAIN backlog : backlog[i] \in Client /\ backlog[i] # c
      BY <1>1, <3>1, LenProperties, ElementOfSeq DEF IInv, Peers
    <3> QED
      BY <1>1, <3>1, <3>2, <3>3, LenProperties
  <2>2. \A i \in DOMAIN backlog' : i \in DOMAIN backlog \/ i = Len(backlog) + 1
    BY <2>1
  <2>3. \A i, j \in DOMAIN backlog' : backlog'[i] = backlog'[j] => i = j
    BY <2>1, <2>2 DEF IInv, Peers
  <2>4. \A d \in DOMAIN fds : fds[d].kind = "conn" =>
          fds[d].peer \in Client /\ fds[d].peer # c /\ client'[fds[d].peer].pc # "away"
    <3>1. \A d \in DOMAIN fds : fds[d].kind = "conn" => fds[d].peer \in Client
      BY FdFacts DEF IInv, Types, TableTypes
    <3> QED
      BY <1>1, <1>4, <3>1 DEF IInv, Peers
  <2>5. \A d \in DOMAIN fds : fds[d].kind = "conn" => \A i \in DOMAIN backlog' : backlog'[i] # fds[d].peer
    BY <2>1, <2>2, <2>4 DEF IInv, Peers
  <2>6. \A i \in DOMAIN backlog' : client'[backlog'[i]].pc # "away"
    BY <1>3, <1>4, <2>1, <2>2 DEF IInv, Peers
  <2> QED
    BY <1>1, <2>3, <2>4, <2>5, <2>6 DEF IInv, Peers
<1> QED
  BY <1>7, <1>8, <1>9 DEF IInv
-------------------------------------------------------------------------------
\* The main thread.
LEMMA SameKeeps ==
  ASSUME IInv, Types', Passing', UNCHANGED <<fds, threads, backlog, client>>
  PROVE  IInv'
<1>1. Working' = Working
  BY DEF Working
<1>2. Serving' /\ Apart' /\ Peers' /\ Conversations' /\ Offers'
  BY <1>1 DEF IInv, Serving, Apart, Peers, Conversations, Offers
<1> QED
  BY <1>2 DEF IInv

LEMMA AcceptKeeps ==
  ASSUME IInv, Types', Accept
  PROVE  IInv'
<1>1. CASE Lowest = -1
  <2>1. main'.pc = "loop" /\ UNCHANGED <<fds, threads, backlog, client>>
    BY <1>1 DEF Accept, MainAt
  <2> QED
    BY <2>1, SameKeeps DEF Passing
<1>2. CASE Lowest # -1
  <2> DEFINE l == Lowest
             b == Head(backlog)
             f == Conn(b)
  <2>1. /\ main'.pc = "accepted" /\ main'.sock_fd = l /\ fds' = [fds EXCEPT ![l] = f] /\ backlog # <<>>
        /\ backlog' = Tail(backlog) /\ UNCHANGED <<threads, client, server_shutdown>>
    BY <1>2 DEF Accept, MainAt
  <2>2. l \in 0 .. Descriptors /\ fds[l].kind = "closed"
    BY <1>2, LowestFacts DEF IInv, Types
  <2>3. /\ DOMAIN fds = 0 .. Descriptors /\ DOMAIN fds' = 0 .. Descriptors
        /\ \A d \in 0 .. Descriptors : fds[d] \in Fd
        /\ \A d \in 0 .. Descriptors : fds'[d] = IF d = l THEN f ELSE fds[d]
    BY <2>1 DEF IInv, Types, TableTypes
  <2>4. /\ backlog \in Seq(Client) /\ Len(backlog) \in Nat /\ DOMAIN backlog = 1 .. Len(backlog)
        /\ b \in Client /\ 1 \in DOMAIN backlog /\ backlog[1] = b
        /\ \A i \in DOMAIN backlog' : i + 1 \in DOMAIN backlog /\ i + 1 # 1 /\ backlog'[i] = backlog[i + 1]
        /\ \A i \in DOMAIN backlog : backlog[i] \in Client
        /\ DOMAIN backlog' \subseteq Nat
    <3>1. backlog \in Seq(Client) /\ backlog # <<>>
      BY <2>1 DEF IInv, Types, TableTypes
    <3>2. /\ Head(backlog) \in Client /\ Tail(backlog) \in Seq(Client) /\ backlog[1] = Head(backlog)
          /\ Len(Tail(backlog)) = Len(backlog) - 1
          /\ \A i \in 1 .. Len(Tail(backlog)) : Tail(backlog)[i] = backlog[i + 1]
      BY <3>1, HeadTailProperties
    <3>3. Len(backlog) \in Nat /\ DOMAIN backlog = 1 .. Len(backlog) /\ Len(backlog) # 0
      BY <3>1, LenProperties, EmptySeq
    <3>4. DOMAIN Tail(backlog) = 1 .. Len(backlog) - 1
      BY <3>2, LenProperties
    <3>5. \A i \in 1 .. Len(backlog) - 1 : i + 1 \in 1 .. Len(backlog) /\ i + 1 # 1 /\ i \in Nat
      BY <3>3
    <3>6. \A i \in DOMAIN backlog : backlog[i] \in Client
      BY <3>1, <3>3, ElementOfSeq
    <3>7. 1 \in 1 .. Len(backlog)
      BY <3>3
    <3>8. \A i \in 1 .. Len(backlog) - 1 : Tail(backlog)[i] = backlog[i + 1]
      BY <3>2
    <3> QED
      BY <2>1, <3>1, <3>2, <3>3, <3>4, <3>5, <3>6, <3>7, <3>8
  <2>5. f.kind = "conn" /\ f.peer = b /\ \A x : f = Conn(x) => x = b
    BY DEF Conn
  <2> HIDE DEF l, b, f
  <2>6. Working' = Working /\ \A h \in Working : \A d \in Own(threads[h]) : fds'[d] = fds[d]
    <3> SUFFICES ASSUME NEW h \in Working, NEW d \in Own(threads[h]) PROVE fds'[d] = fds[d]
      BY <2>1 DEF Working
    <3>1. Holds(threads[h], fds) /\ d \in 0 .. Descriptors
      BY PeerFacts
    <3>2. fds[d].kind # "closed"
      BY <3>1 DEF Holds, Own, Data
    <3> QED
      BY <2>2, <2>3, <3>1, <3>2
  <2>7. \A h \in Working : /\ Peer(threads[h], fds') = Peer(threads[h], fds)
                           /\ Holds(threads[h], fds')
                           /\ Talks(threads[h], fds', client[Peer(threads[h], fds)])
    <3> SUFFICES ASSUME NEW h \in Working
                 PROVE  /\ Peer(threads[h], fds') = Peer(threads[h], fds)
                        /\ Holds(threads[h], fds')
                        /\ Talks(threads[h], fds', client[Peer(threads[h], fds)])
      OBVIOUS
    <3>1. Holds(threads[h], fds) /\ Talks(threads[h], fds, client[Peer(threads[h], fds)])
      BY DEF IInv, Serving
    <3>2. /\ fds'[threads[h].sock] = fds[threads[h].sock]
          /\ threads[h].pc \in Offering => fds'[threads[h].lsock] = fds[threads[h].lsock]
          /\ threads[h].pc = "send" => fds'[threads[h].tsock] = fds[threads[h].tsock]
      BY <2>6 DEF Own
    <3>3. Peer(threads[h], fds') = Peer(threads[h], fds)
      BY <3>2 DEF Peer
    <3> QED
      BY <3>1, <3>2, <3>3 DEF Holds, Talks, Offering
  <2>8. Serving'
    <3>1. \A h \in Working : Holds(threads[h], fds') /\ Talks(threads[h], fds', client[Peer(threads[h], fds')])
      BY <2>7
    <3> QED
      BY <2>1, <2>6, <3>1 DEF Serving
  <2>9. Apart' /\ Conversations'
    BY <2>1, <2>6 DEF IInv, Apart, Conversations
  <2>10. Passing'
    <3>1. \A h \in Working : threads[h].sock # l
      <4>1. \A h \in Working : fds[threads[h].sock].kind = "conn"
        BY PeerFacts DEF Holds
      <4> QED
        BY <2>2, <4>1
    <3> QED
      BY <2>1, <2>2, <2>3, <2>5, <2>6, <3>1 DEF Passing, Fresh
  <2>11. Peers'
    <3>1. \A d \in DOMAIN fds : fds[d].kind = "conn" => fds[d] = Conn(fds[d].peer) /\ fds[d].peer # b
      BY <2>3, <2>4, FdFacts DEF IInv, Peers
    <3>2. \A d, e \in DOMAIN fds' : fds'[d].kind = "conn" /\ fds'[d] = fds'[e] => d = e
      BY <2>3, <2>5, <3>1 DEF IInv, Peers
    <3>3. \A i, j \in DOMAIN backlog' : backlog'[i] = backlog'[j] => i = j
      <4> SUFFICES ASSUME NEW i \in DOMAIN backlog', NEW j \in DOMAIN backlog', backlog'[i] = backlog'[j] PROVE i = j
        OBVIOUS
      <4>1. i + 1 \in DOMAIN backlog /\ j + 1 \in DOMAIN backlog /\ backlog[i + 1] = backlog[j + 1]
        BY <2>4
      <4>2. i + 1 = j + 1
        BY <4>1 DEF IInv, Peers
      <4> QED
        BY <2>4, <4>2
    <3>4. \A i \in DOMAIN backlog' : backlog'[i] # b /\ client[backlog'[i]].pc # "away"
      BY <2>4 DEF IInv, Peers
    <3>5. client[b].pc # "away"
      BY <2>4 DEF IInv, Peers
    <3>6. \A d \in DOMAIN fds' : fds'[d].kind = "conn" =>
            client[fds'[d].peer].pc # "away" /\ \A i \in DOMAIN backlog' : backlog'[i] # fds'[d].peer
      BY <2>3, <2>4, <2>5, <3>4, <3>5 DEF IInv, Peers
    <3> QED
      BY <2>1, <3>2, <3>3, <3>4, <3>6 DEF Peers
  <2>12. Offers'
    <3> SUFFICES ASSUME NEW c \in Client, NEW i \in DOMAIN client[c].out, client[c].out[i].type = "file:"
                 PROVE  Offered(client[c].out[i], c, i = Len(client[c].out), fds', threads)
      BY <2>1 DEF Offers
    <3>1. Offered(client[c].out[i], c, i = Len(client[c].out), fds, threads)
      BY DEF IInv, Offers
    <3>2. \A h \in DOMAIN threads : threads[h].pc \in Offering => Peer(threads[h], fds') = Peer(threads[h], fds)
      BY <2>7 DEF Working, Offering
    <3>3. \A d \in DOMAIN fds : fds[d].kind = "listen" => fds'[d] = fds[d]
      BY <2>2, <2>3
    <3> QED
      BY <2>3, <3>1, <3>2, <3>3 DEF Offered
  <2> QED
    BY <2>8, <2>9, <2>10, <2>11, <2>12 DEF IInv
<1> QED
  BY <1>1, <1>2

LEMMA SpawnKeeps ==
  ASSUME IInv, Types', Spawn
  PROVE  IInv'
<1>1. PICK port \in Port \cup {NoPort} : threads' = Append(threads, Thread("recv", main.sock_fd, port))
  BY DEF Spawn
<1>2. main.pc = "admitted" /\ main'.pc = "loop" /\ UNCHANGED <<fds, backlog, client>>
  BY DEF Spawn, MainAt
<1> DEFINE t == Thread("recv", main.sock_fd, port)
           n == Len(threads) + 1
<1>3. t.pc = "recv" /\ t.sock = main.sock_fd
  BY DEF Thread
<1> HIDE DEF t
<1>4. /\ DOMAIN threads' = DOMAIN threads \cup {n} /\ n \notin DOMAIN threads
      /\ \A h \in DOMAIN threads : threads'[h] = threads[h]
      /\ threads'[n] = t
  <2>1. threads \in Seq(ThreadState) /\ threads' \in Seq(ThreadState)
    BY DEF IInv, Types, ThreadTypes
  <2>2. /\ Len(threads) \in Nat /\ DOMAIN threads = 1 .. Len(threads) /\ DOMAIN threads' = 1 .. Len(threads')
    BY <2>1, LenProperties
  <2>3. t \in ThreadState
    <3>1. n \in DOMAIN threads' /\ threads'[n] = t
      BY <1>1, <2>1, <2>2 DEF t
    <3> QED
      BY <2>1, <2>2, <3>1, ElementOfSeq
  <2>4. /\ Len(threads') = n /\ threads'[n] = t
        /\ \A h \in 1 .. Len(threads) : threads'[h] = threads[h]
    BY <1>1, <2>1, <2>3, AppendProperties DEF t
  <2>5. 1 .. n = (1 .. Len(threads)) \cup {n} /\ n \notin 1 .. Len(threads)
    BY <2>2
  <2> QED
    BY <2>2, <2>4, <2>5
<1>5. Working' = Working \cup {n} /\ n \notin Working /\ \A h \in Working : threads'[h] = threads[h]
  BY <1>3, <1>4 DEF Working
<1>6. Fresh(main.sock_fd)
  BY <1>2 DEF IInv, Passing
<1> HIDE DEF n
<1>7. Serving'
  BY <1>2, <1>3, <1>4, <1>5, <1>6 DEF IInv, Serving, Fresh, Holds, Talks, Offering, Sending
<1>8. Apart'
  BY <1>3, <1>4, <1>5, <1>6 DEF IInv, Apart, Fresh, Offering
<1>9. Peers' /\ Passing' /\ Conversations'
  BY <1>2 DEF IInv, Peers, Passing, Conversations
<1>10. Offers'
  <2> SUFFICES ASSUME NEW c \in Client, NEW i \in DOMAIN client[c].out, client[c].out[i].type = "file:"
               PROVE  Offered(client[c].out[i], c, i = Len(client[c].out), fds, threads')
    BY <1>2 DEF Offers
  <2>1. Offered(client[c].out[i], c, i = Len(client[c].out), fds, threads)
    BY DEF IInv, Offers
  <2> QED
    BY <1>3, <1>4, <2>1 DEF Offered, Offering
<1> QED
  BY <1>7, <1>8, <1>9, <1>10 DEF IInv

\* Main passes a connection nobody uses, unless it takes a time-out for one.
LEMMA MainKeeps ==
  ASSUME "idle" \notin Faults, IInv, Types', MainStep
  PROVE  IInv'
<1>1. CASE Loop \/ AcceptTimesOut \/ Admit
  <2>1. UNCHANGED <<fds, threads, backlog, client, server_shutdown>>
    BY <1>1 DEF Loop, AcceptTimesOut, Admit
  <2>2. CASE Loop
    BY <2>1, <2>2, SameKeeps DEF Loop, MainAt, Passing
  <2>3. CASE AcceptTimesOut
    <3>1. main'.pc = "accepted" /\ server_shutdown
      BY <2>3 DEF AcceptTimesOut, MainAt
    <3> QED
      BY <2>1, <3>1, SameKeeps DEF Passing
  <2>4. CASE Admit
    <3>1. main.pc = "accepted" /\ (main'.pc = "loop" \/ (~server_shutdown /\ main' = [pc |-> "admitted", sock_fd |-> main.sock_fd]))
      BY <2>4 DEF Admit, MainAt
    <3>2. Working' = Working
      BY <2>1 DEF Working
    <3>3. Passing'
      BY <2>1, <3>1, <3>2 DEF IInv, Passing, Fresh
    <3> QED
      BY <2>1, <3>3, SameKeeps
  <2> QED
    BY <1>1, <2>2, <2>3, <2>4
<1> QED
  BY <1>1, AcceptKeeps, SpawnKeeps DEF MainStep
-------------------------------------------------------------------------------
\* The threads.
LEMMA TurnKeeps ==
  ASSUME IInv, Types', NEW h \in Working, NEW t, Turns(h, t), Table(h), Hears(Serves(h)),
         t.pc \notin {"stop", "ended"} => Holds(t, fds') /\ Talks(t, fds', client'[Serves(h)]),
         main' = main, backlog' = backlog, server_shutdown => server_shutdown',
         t.pc \notin Offering,
         \A i \in DOMAIN client'[Serves(h)].out : client'[Serves(h)].out[i].type = "file:" =>
           i \in DOMAIN client[Serves(h)].out /\ client'[Serves(h)].out[i] = client[Serves(h)].out[i],
         \A d \in 0 .. Descriptors : fds[d].kind = "listen" =>
           \/ fds'[d].kind = "listen" /\ fds'[d].port = fds[d].port
           \/ threads[h].pc = "send" /\ d = threads[h].lsock
  PROVE  IInv'
<1>1. Serving' /\ Apart' /\ Peers' /\ Passing' /\ Conversations'
  BY HandlerKeeps
<1>2. Offers'
  BY OffersKept
<1> QED
  BY <1>1, <1>2 DEF IInv

\* A thread between two calls.
LEMMA Stepped ==
  ASSUME Types', NEW h \in DOMAIN threads, NEW t, threads' = [threads EXCEPT ![h] = t]
  PROVE  Becomes(h, t)
<1>1. DOMAIN threads' = DOMAIN threads /\ threads'[h] = t
  OBVIOUS
<1>2. threads' \in Seq(ThreadState)
  BY DEF Types, ThreadTypes
<1>3. t \in ThreadState
  <2>1. h \in 1 .. Len(threads')
    BY <1>1, <1>2, LenProperties
  <2> QED
    BY <1>1, <1>2, <2>1, ElementOfSeq
<1> QED
  BY <1>1, <1>3 DEF Becomes

\* The table as a thread leaves it: its own descriptors closed, or a free one taken.
LEMMA TableFacts ==
  ASSUME IInv, NEW h \in Working, NEW D \in SUBSET Own(threads[h]), threads[h].sock \notin D,
         \/ fds' = fds \/ Close(D)
         \/ Lowest # -1 /\ fds' = [fds EXCEPT ![Lowest] = Other]
  PROVE  /\ Table(h) /\ fds'[threads[h].sock] = fds[threads[h].sock]
         /\ \A d \in 0 .. Descriptors : fds[d].kind = "listen" /\ d \notin D => fds'[d] = fds[d]
<1>1. DOMAIN fds = 0 .. Descriptors /\ \A d \in 0 .. Descriptors : fds[d] \in Fd
  BY DEF IInv, Types, TableTypes
<1>2. fds[threads[h].sock].kind = "conn" /\ threads[h].sock \in 0 .. Descriptors
  BY PeerFacts DEF Holds, Own
<1>3. Closed.kind = "closed" /\ Other.kind = "other"
  BY DEF Closed, Other
<1>4. CASE fds' = fds
  BY <1>4 DEF Table
<1>5. CASE Close(D)
  <2>1. \A d \in 0 .. Descriptors : fds'[d] = IF d \in D THEN Closed ELSE fds[d]
    BY <1>1, <1>5 DEF Close
  <2> QED
    BY <1>2, <1>3, <2>1 DEF Table
<1>6. CASE Lowest # -1 /\ fds' = [fds EXCEPT ![Lowest] = Other]
  <2>1. Lowest \in 0 .. Descriptors /\ fds[Lowest].kind = "closed"
    BY <1>6, LowestFacts DEF IInv, Types
  <2>2. \A d \in 0 .. Descriptors : fds'[d] = IF d = Lowest THEN Other ELSE fds[d]
    BY <1>1, <1>6
  <2> QED
    BY <1>2, <1>3, <2>1, <2>2 DEF Table
<1> QED
  BY <1>4, <1>5, <1>6

\* A client the thread does not turn to.
LEMMA SameHears ==
  ASSUME IInv, NEW c \in Client, client' = client
  PROVE  /\ Hears(c)
         /\ \A i \in DOMAIN client'[c].out : client'[c].out[i].type = "file:" =>
              i \in DOMAIN client[c].out /\ client'[c].out[i] = client[c].out[i]
  BY DEF Hears, IInv, Conversations

\* The last act of a shutdown.
LEMMA StopKeeps ==
  ASSUME IInv, Types', NEW h \in DOMAIN threads, StopAccepting(h)
  PROVE  IInv'
<1>1. PICK t : Becomes(h, t) /\ t.pc = "ended"
  BY FinishFacts DEF StopAccepting, IInv, Types
<1>2. threads[h].pc = "stop" /\ UNCHANGED <<fds, server_shutdown, main, backlog, client>>
  BY DEF StopAccepting, At
<1>3. Working' = Working /\ \A g \in Working : threads'[g] = threads[g]
  BY <1>1, <1>2 DEF Becomes, Working
<1>4. \A g \in DOMAIN threads' : threads'[g].pc \in Offering => g \in DOMAIN threads /\ threads'[g] = threads[g]
  BY <1>1 DEF Becomes, Offering
<1>5. Serving' /\ Apart' /\ Peers' /\ Passing' /\ Conversations'
  BY <1>2, <1>3 DEF IInv, Serving, Apart, Peers, Passing, Fresh, Conversations
<1>6. Offers'
  <2> SUFFICES ASSUME NEW c \in Client, NEW i \in DOMAIN client[c].out, client[c].out[i].type = "file:"
               PROVE  Offered(client[c].out[i], c, i = Len(client[c].out), fds, threads')
    BY <1>2 DEF Offers
  <2>1. Offered(client[c].out[i], c, i = Len(client[c].out), fds, threads)
    BY DEF IInv, Offers
  <2> QED
    BY <1>4, <2>1 DEF Offered
<1> QED
  BY <1>5, <1>6 DEF IInv

\* A thread takes a command.
LEMMA TakenFacts2 ==
  ASSUME IInv, NEW h \in Working, client' = Taken(h)
  PROVE  /\ \A b \in Client : b # Serves(h) => client'[b] = client[b]
         /\ LET q == client'[Serves(h)]  p == client[Serves(h)] IN
              /\ q.inbox = <<>> /\ q.pc = p.pc /\ q.out = p.out /\ q.told = p.told /\ q.data = p.data
              /\ q \in ClientState /\ Polite(q, Serves(h))
<1> DEFINE c == Serves(h)
           p == client[c]
           q == [p EXCEPT !.inbox = <<>>]
<1>1. c \in Client /\ client \in [Client -> ClientState] /\ Polite(p, c)
  BY PeerFacts DEF IInv, Types, ClientTypes, Conversations
<1>2. client' = [client EXCEPT ![c] = q]
  BY DEF Taken
<1>3. p \in ClientState
  BY <1>1
<1>4. q \in ClientState /\ q.inbox = <<>> /\ q.pc = p.pc /\ q.out = p.out /\ q.told = p.told /\ q.data = p.data
  BY <1>3 DEF ClientState
<1> HIDE DEF q
<1>5. Polite(q, c)
  BY <1>1, <1>4 DEF Polite
<1>6. \A b \in Client : client'[b] = IF b = c THEN q ELSE client[b]
  BY <1>1, <1>2
<1> QED
  BY <1>1, <1>4, <1>5, <1>6

\* One that ends closes nothing but its connection.
LEMMA EndKeeps ==
  ASSUME IInv, Types', NEW h \in DOMAIN threads,
         ReceiveExit(h) \/ ReceiveShutdown(h) \/ ReceiveNothing(h) \/ ReceiveFails(h)
  PROVE  IInv'
<1>1. /\ threads[h].pc = "recv" /\ main' = main /\ backlog' = backlog
      /\ server_shutdown => server_shutdown'
      /\ fds' = fds \/ Close({threads[h].sock})
      /\ client' = client \/ client' = Taken(h)
      /\ Finish(h) \/ Go(h, "stop")
  BY DEF ReceiveExit, ReceiveShutdown, ReceiveNothing, ReceiveFails, Receive, At
<1>2. h \in Working
  BY <1>1 DEF Working
<1>3. PICK t : Becomes(h, t) /\ t.pc \in {"stop", "ended"}
  <2>1. ThreadTypes /\ "stop" \in ThreadPc
    BY DEF IInv, Types, ThreadPc
  <2>2. CASE Finish(h)
    BY <2>1, <2>2, FinishFacts
  <2>3. CASE Go(h, "stop")
    BY <2>1, <2>3, GoFacts DEF Goes
  <2> QED
    BY <1>1, <2>2, <2>3
<1>4. /\ Serves(h) \in Client /\ fds[threads[h].sock].kind = "conn" /\ threads[h].sock \in 0 .. Descriptors
      /\ DOMAIN fds = 0 .. Descriptors
  BY <1>2, PeerFacts DEF Holds, Own, IInv, Types, TableTypes
<1>5. Turns(h, t) /\ t.pc \notin Offering
  BY <1>3 DEF Turns, Offering
<1>6. Table(h) /\ \A d \in 0 .. Descriptors : fds[d].kind = "listen" => fds'[d] = fds[d]
  <2>1. CASE fds' = fds
    BY <2>1 DEF Table
  <2>2. CASE Close({threads[h].sock})
    <3>1. \A d \in 0 .. Descriptors : fds'[d] = IF d = threads[h].sock THEN Closed ELSE fds[d]
      BY <1>4, <2>2 DEF Close
    <3>2. Closed.kind = "closed"
      BY DEF Closed
    <3> QED
      BY <1>4, <3>1, <3>2 DEF Table, Own
  <2> QED
    BY <1>1, <2>1, <2>2
<1>7. /\ Hears(Serves(h))
      /\ \A i \in DOMAIN client'[Serves(h)].out : client'[Serves(h)].out[i].type = "file:" =>
           i \in DOMAIN client[Serves(h)].out /\ client'[Serves(h)].out[i] = client[Serves(h)].out[i]
  <2>1. CASE client' = client
    BY <1>4, <2>1, SameHears
  <2>2. CASE client' = Taken(h)
    BY <1>2, <2>2, TakenFacts2 DEF Hears
  <2> QED
    BY <1>1, <2>1, <2>2
<1> QED
  BY <1>1, <1>2, <1>3, <1>5, <1>6, <1>7, TurnKeeps

\* A thread that sends keeps the conversation in order.
Adds(p, q, m) ==
  \A i \in DOMAIN q.out :
    (i \in DOMAIN p.out /\ q.out[i] = p.out[i]) \/ (q.out[i] = m /\ i = Len(q.out))

LEMMA SendPolite ==
  ASSUME NEW c \in Client, NEW p \in ClientState, NEW q, NEW m \in Msg,
         Polite(p, c), p.inbox = <<>>, p.pc \notin {"away", "prompt"},
         \A i \in DOMAIN p.out : p.out[i].type \notin Ends,
         Gets(p, q, IF p.pc \notin {"gone", "crashed"} THEN Append(p.out, m) ELSE p.out),
         p.pc \notin {"gone", "crashed"} /\ m.type = "md5sum:" =>
           p.out = <<>> /\ p.data = [owner |-> c, file |-> p.told] /\ m.file = p.told
  PROVE  Polite(q, c) /\ Adds(p, q, m)
<1>1. /\ q.pc = p.pc /\ q.inbox = <<>> /\ q.told = p.told /\ q.data = p.data
  BY DEF Gets
<1>2. CASE p.pc \in {"gone", "crashed"}
  <2>1. q.out = p.out
    BY <1>2 DEF Gets
  <2> QED
    BY <1>1, <2>1 DEF Polite, Adds
<1>3. CASE p.pc \notin {"gone", "crashed"}
  <2> DEFINE s == p.out
             o == q.out
  <2>1. o = Append(s, m) /\ s \in Seq(Msg) /\ p.pc \in {"waiting", "data", "spins"}
    BY <1>3 DEF Gets, ClientState
  <2> HIDE DEF s, o
  <2>2. /\ o \in Seq(Msg) /\ Len(o) = Len(s) + 1 /\ o[Len(s) + 1] = m
        /\ \A i \in 1 .. Len(s) : o[i] = s[i]
    BY <2>1, AppendProperties
  <2>3. Len(s) \in Nat /\ DOMAIN s = 1 .. Len(s) /\ DOMAIN o = 1 .. Len(s) + 1
    BY <2>1, <2>2, LenProperties
  <2>4. \A i \in DOMAIN o : (i \in DOMAIN s /\ o[i] = s[i]) \/ (o[i] = m /\ i = Len(o) /\ i = Len(s) + 1)
    <3>1. \A i \in DOMAIN o : i \in 1 .. Len(s) \/ i = Len(s) + 1
      BY <2>3
    <3> QED
      BY <2>2, <2>3, <3>1
  <2>5. Adds(p, q, m)
    BY <2>4 DEF Adds, s, o
  <2>6. \A i \in DOMAIN o : o[i].type \in Ends => i = Len(o)
    BY <2>4 DEF s
  <2>7. p.data = [owner |-> c, file |-> p.told] \/ p.data = NoData \/ p.pc # "data"
    BY DEF Polite
  <2>8. ASSUME NEW i \in DOMAIN o, o[i].type = "md5sum:"
        PROVE  /\ p.data = [owner |-> c, file |-> p.told] /\ o[i].file = p.told
               /\ \A j \in 1 .. i - 1 : o[j].type # "file:"
    <3>1. CASE i \in DOMAIN s /\ o[i] = s[i]
      <4>1. /\ p.data = [owner |-> c, file |-> p.told] /\ s[i].file = p.told
            /\ \A j \in 1 .. i - 1 : s[j].type # "file:"
        BY <2>8, <3>1 DEF Polite, s
      <4>2. \A j \in 1 .. i - 1 : j \in 1 .. Len(s)
        BY <2>3, <3>1
      <4> QED
        BY <2>2, <3>1, <4>1, <4>2
    <3>2. CASE o[i] = m /\ i = Len(s) + 1
      <4>1. s = <<>> /\ p.data = [owner |-> c, file |-> p.told] /\ m.file = p.told
        BY <1>3, <2>8, <3>2 DEF s
      <4>2. Len(s) = 0
        BY <4>1
      <4>3. \A j \in 1 .. i - 1 : FALSE
        BY <3>2, <4>2
      <4> QED
        BY <3>2, <4>1, <4>3
    <3> QED
      BY <2>4, <3>1, <3>2
  <2>9. Polite(q, c)
    BY <1>1, <2>1, <2>6, <2>7, <2>8 DEF Polite, o
  <2> QED
    BY <2>5, <2>9
<1> QED
  BY <1>2, <1>3

\* A thread that sends to the client it serves.
LEMMA SendHears ==
  ASSUME IInv, NEW h \in Working, NEW m \in Msg, Send(h, m),
         client[Serves(h)].inbox = <<>>, client[Serves(h)].pc \notin {"away", "prompt"},
         \A i \in DOMAIN client[Serves(h)].out : client[Serves(h)].out[i].type \notin Ends,
         client[Serves(h)].pc \notin {"gone", "crashed"} /\ m.type = "md5sum:" =>
           Ready(client[Serves(h)], m.file, [owner |-> Serves(h), file |-> m.file])
  PROVE  /\ Hears(Serves(h)) /\ Adds(client[Serves(h)], client'[Serves(h)], m)
         /\ client'[Serves(h)].pc = client[Serves(h)].pc /\ client'[Serves(h)].inbox = <<>>
<1> DEFINE c == Serves(h)
           p == client[c]
<1>1. c \in Client /\ client \in [Client -> ClientState] /\ p \in ClientState /\ Polite(p, c)
  BY PeerFacts DEF IInv, Types, ClientTypes, Conversations
<1>2. h \in DOMAIN threads /\ Types
  BY DEF Working, IInv
<1>3. /\ \A b \in Client : b # c => client'[b] = client[b]
      /\ Gets(p, client'[c], IF Alive(c) THEN Append(p.out, m) ELSE p.out)
  BY <1>1, <1>2, SendFacts DEF Send
<1>4. Gets(p, client'[c], IF p.pc \notin {"gone", "crashed"} THEN Append(p.out, m) ELSE p.out)
  BY <1>3 DEF Alive
<1>5. Polite(client'[c], c) /\ Adds(p, client'[c], m)
  BY <1>1, <1>4, SendPolite DEF Ready
<1>6. client'[c].pc = p.pc /\ client'[c].inbox = p.inbox
  BY <1>3 DEF Gets
<1> QED
  BY <1>3, <1>5, <1>6 DEF Hears

\* "get", and the commands it cannot do.
LEMMA ReceiveGetKeeps ==
  ASSUME IInv, Types', NEW h \in DOMAIN threads, ReceiveGet(h)
  PROVE  IInv'
<1> DEFINE t == [threads[h] EXCEPT !.pc = "listen", !.file = 1]
           p == client[Serves(h)]
           q == client'[Serves(h)]
<1>1. /\ threads[h].pc = "recv" /\ client' = Taken(h) /\ client[Serves(h)].inbox = <<"get">>
      /\ threads' = [threads EXCEPT ![h] = t]
      /\ UNCHANGED <<fds, server_shutdown, main, backlog>>
  BY DEF ReceiveGet, Receive, At
<1>2. h \in Working
  BY <1>1 DEF Working
<1>3. t.pc = "listen" /\ t.sock = threads[h].sock
  BY <1>2, PeerFacts DEF ThreadState
<1> HIDE DEF t
<1>4. Becomes(h, t)
  BY <1>1, Stepped
<1>5. /\ \A b \in Client : b # Serves(h) => client'[b] = client[b]
      /\ q.inbox = <<>> /\ q.pc = p.pc /\ q.out = p.out /\ Polite(q, Serves(h))
  BY <1>1, <1>2, TakenFacts2
<1>6. Hears(Serves(h))
  BY <1>5 DEF Hears
<1>7. p.out = <<>> /\ p.pc \notin {"away", "prompt"}
  <2>1. Polite(p, Serves(h)) /\ p.inbox # <<>>
    BY <1>1, <1>2, PeerFacts DEF IInv, Conversations
  <2> QED
    BY <2>1 DEF Polite
<1>8. fds[threads[h].sock].kind = "conn"
  BY <1>2, PeerFacts DEF Holds
<1>9. Holds(t, fds') /\ t.pc \notin Offering
  BY <1>1, <1>3, <1>8 DEF Holds, Offering
<1>10. Talks(t, fds', q)
  BY <1>3, <1>5, <1>7 DEF Talks
<1>11. Turns(h, t)
  BY <1>1, <1>3, <1>4, <1>9 DEF Turns
<1>12. Table(h)
  BY <1>1 DEF Table
<1> HIDE DEF p, q
<1>13. \A i \in DOMAIN client'[Serves(h)].out : client'[Serves(h)].out[i].type = "file:" =>
         i \in DOMAIN client[Serves(h)].out /\ client'[Serves(h)].out[i] = client[Serves(h)].out[i]
  BY <1>5 DEF p, q
<1> QED
  BY <1>1, <1>2, <1>6, <1>9, <1>10, <1>11, <1>12, <1>13, TurnKeeps DEF q

LEMMA ReceiveBadKeeps ==
  ASSUME IInv, Types', NEW h \in DOMAIN threads, ReceiveBad(h)
  PROVE  IInv'
<1> DEFINE t == threads[h]
           m == Message("error:", 0, 0)
           c == Serves(h)
           peers == Taken(h)
           p == peers[c]
           q == client'[c]
<1>1. /\ t.pc = "recv" /\ SendFrom(peers, h, m) /\ client[c].inbox = <<"bad">>
      /\ UNCHANGED <<fds, server_shutdown, main, threads, backlog>>
  BY DEF ReceiveBad, Receive, At
<1>2. h \in Working
  BY <1>1 DEF Working
<1>3. c \in Client /\ client \in [Client -> ClientState] /\ client[c] \in ClientState /\ Polite(client[c], c)
  BY <1>2, PeerFacts DEF IInv, Types, ClientTypes, Conversations
<1>4. client[c].out = <<>> /\ client[c].pc \notin {"away", "prompt"}
  BY <1>1, <1>3 DEF Polite
<1>5. /\ peers \in [Client -> ClientState] /\ p \in ClientState /\ p.inbox = <<>> /\ p.out = <<>> /\ p.pc = client[c].pc
      /\ p.data = client[c].data /\ p.told = client[c].told
      /\ \A b \in Client : b # c => peers[b] = client[b]
  <2> DEFINE u == [client[c] EXCEPT !.inbox = <<>>]
  <2>1. u \in ClientState /\ u.inbox = <<>> /\ u.out = <<>> /\ u.pc = client[c].pc
        /\ u.data = client[c].data /\ u.told = client[c].told
    BY <1>3, <1>4 DEF ClientState
  <2>2. peers = [client EXCEPT ![c] = u]
    BY DEF Taken
  <2> HIDE DEF u, peers
  <2>3. peers \in [Client -> ClientState] /\ \A b \in Client : peers[b] = IF b = c THEN u ELSE client[b]
    BY <1>3, <2>1, <2>2
  <2> QED
    BY <1>3, <2>1, <2>3
<1>6. m \in Msg /\ m.type = "error:"
  BY DEF Message, Msg, Kind
<1> HIDE DEF m, peers
<1>7. /\ \A b \in Client : b # c => client'[b] = peers[b]
      /\ Gets(p, q, IF Alive(c) THEN Append(p.out, m) ELSE p.out)
  BY <1>1, <1>3, <1>5, <1>6, SendFacts DEF IInv
<1>8. Gets(p, q, IF p.pc \notin {"gone", "crashed"} THEN Append(p.out, m) ELSE p.out)
  BY <1>5, <1>7 DEF Alive
<1>9. Polite(p, c)
  BY <1>3, <1>5 DEF Polite
<1>10. Polite(q, c) /\ Adds(p, q, m)
  <2>1. p.pc \notin {"away", "prompt"} /\ m.type # "md5sum:" /\ p.inbox = <<>>
        /\ \A i \in DOMAIN p.out : p.out[i].type \notin Ends
    BY <1>4, <1>5, <1>6
  <2>2. c \in Client /\ p \in ClientState /\ m \in Msg
    BY <1>3, <1>5, <1>6
  <2> HIDE DEF p, q, c
  <2> QED
    BY <1>8, <1>9, <2>1, <2>2, SendPolite
<1>11. Hears(c)
  BY <1>5, <1>7, <1>10 DEF Hears, Gets
<1>12. \A i \in DOMAIN q.out : q.out[i].type # "file:"
  BY <1>5, <1>6, <1>10 DEF Adds
<1>13. t \in ThreadState /\ Holds(t, fds) /\ Becomes(h, t)
  BY <1>1, <1>2, PeerFacts DEF Becomes
<1>14. Turns(h, t) /\ Table(h) /\ t.pc \notin Offering
  BY <1>1, <1>13 DEF Turns, Table, Offering
<1>15. Talks(t, fds', q)
  BY <1>1 DEF Talks, Sending, Offering
<1> HIDE DEF q, t, p
<1>16. Holds(t, fds')
  BY <1>1, <1>13
<1> QED
  BY <1>1, <1>2, <1>11, <1>12, <1>14, <1>15, <1>16, TurnKeeps DEF q

\* What may be said of a thread on its way through a directory.
LEMMA SendingFacts ==
  ASSUME IInv, NEW h \in Working, threads[h].pc \in Sending
  PROVE  /\ Serves(h) \in Client /\ Serves(h) = Peer(threads[h], fds) /\ fds[threads[h].sock].kind = "conn"
         /\ client[Serves(h)].inbox = <<>> /\ client[Serves(h)].pc \notin {"away", "prompt"}
         /\ \A i \in DOMAIN client[Serves(h)].out : client[Serves(h)].out[i].type \notin Ends
<1>1. /\ Serves(h) \in Client /\ Serves(h) = Peer(threads[h], fds) /\ Holds(threads[h], fds)
      /\ Talks(threads[h], fds, client[Serves(h)])
  BY PeerFacts
<1> QED
  BY <1>1 DEF Holds, Talks

\* A file that cannot be sent: the next one, with the descriptors left as they are.
LEMMA SkipKeeps ==
  ASSUME IInv, Types', NEW h \in DOMAIN threads,
         \/ AnnounceFails(h) \/ AcceptDataFails(h) \/ SendFileFails(h)
         \/ AcceptData(h) /\ Lowest = -1
  PROVE  IInv'
<1>1. /\ threads[h].pc \in Sending /\ Go(h, "next") /\ UNCHANGED <<server_shutdown, main, backlog, client>>
      /\ fds' = fds \/ (Lowest # -1 /\ fds' = [fds EXCEPT ![Lowest] = Other])
  BY DEF AnnounceFails, AcceptDataFails, SendFileFails, AcceptData, At, Sending, Offering
<1>2. h \in Working
  BY <1>1 DEF Working, Sending, Offering
<1>3. PICK t : Becomes(h, t) /\ Goes(threads[h], t, "next")
  BY <1>1, GoFacts DEF IInv, Types, ThreadPc
<1>4. t.pc = "next" /\ t.sock = threads[h].sock
  BY <1>3 DEF Goes
<1>5. /\ Table(h) /\ fds'[t.sock] = fds[t.sock]
      /\ \A d \in 0 .. Descriptors : fds[d].kind = "listen" => fds'[d] = fds[d]
  <2>1. {} \in SUBSET Own(threads[h]) /\ threads[h].sock \notin {}
    OBVIOUS
  <2>2. /\ Table(h) /\ fds'[threads[h].sock] = fds[threads[h].sock]
        /\ \A d \in 0 .. Descriptors : fds[d].kind = "listen" /\ d \notin {} => fds'[d] = fds[d]
    BY <1>1, <1>2, <2>1, TableFacts
  <2> QED
    BY <1>4, <2>2
<1>6. Turns(h, t) /\ t.pc \notin Offering
  BY <1>3, <1>4, <1>5 DEF Turns, Offering
<1>7. Holds(t, fds') /\ Talks(t, fds', client'[Serves(h)])
  BY <1>1, <1>2, <1>4, <1>5, <1>6, SendingFacts DEF Holds, Talks
<1> QED
  BY <1>1, <1>2, <1>5, <1>6, <1>7, SendingFacts, SameHears, TurnKeeps

\* The file, with everything closed that was opened for it.
LEMMA SendFileKeeps ==
  ASSUME IInv, Types', NEW h \in DOMAIN threads, SendFile(h)
  PROVE  IInv'
<1> DEFINE c == Serves(h)
           p == client[c]
           q == client'[c]
           told == [owner |-> c, file |-> threads[h].file]
           u == [p EXCEPT !.data = IF Alive(c) THEN told ELSE p.data]
<1>1. /\ threads[h].pc = "send" /\ Go(h, "md5") /\ UNCHANGED <<server_shutdown, main, backlog>>
      /\ Close({threads[h].tsock, threads[h].lsock})
      /\ Reads(h) # NoClient
      /\ client' = [client EXCEPT ![Reads(h)].data = IF Alive(Reads(h)) THEN [owner |-> Serves(h), file |-> threads[h].file] ELSE @]
  BY DEF SendFile, At
<1>2. h \in Working /\ threads[h].pc \in Sending
  BY <1>1 DEF Working, Sending, Offering
<1>3. /\ c \in Client /\ c = Peer(threads[h], fds) /\ fds[threads[h].sock].kind = "conn"
      /\ p.inbox = <<>> /\ p.pc \notin {"away", "prompt"}
      /\ \A i \in DOMAIN p.out : p.out[i].type \notin Ends
  BY <1>2, SendingFacts
<1>4. /\ fds[threads[h].tsock] = Data(c) /\ fds[threads[h].lsock].kind = "listen"
      /\ Own(threads[h]) = {threads[h].sock, threads[h].lsock, threads[h].tsock}
      /\ Own(threads[h]) \subseteq 0 .. Descriptors /\ Ready(p, threads[h].file, NoData)
  <2>1. Holds(threads[h], fds) /\ Talks(threads[h], fds, p) /\ Own(threads[h]) \subseteq 0 .. Descriptors
    BY <1>2, PeerFacts
  <2> QED
    BY <1>1, <1>3, <2>1 DEF Holds, Talks, Own, Offering
<1>5. Data(c).kind = "data" /\ Data(c).peer = c
  BY DEF Data
<1>6. Reads(h) = c
  BY <1>1, <1>4, <1>5 DEF Reads
<1>7. client \in [Client -> ClientState] /\ p \in ClientState /\ Polite(p, c)
  BY <1>3 DEF IInv, Types, ClientTypes, Conversations
<1>8. /\ u.pc = p.pc /\ u.inbox = p.inbox /\ u.out = p.out /\ u.told = p.told
      /\ u.data = IF Alive(c) THEN told ELSE p.data
  BY <1>7 DEF ClientState
<1>9. client' = [client EXCEPT ![c] = u]
  BY <1>1, <1>6
<1> HIDE DEF u
<1>10. q = u /\ \A b \in Client : b # c => client'[b] = client[b]
  BY <1>3, <1>7, <1>9
<1>11. Alive(c) => p.out = <<>> /\ p.told = threads[h].file
  BY <1>4 DEF Alive, Ready
<1> HIDE DEF p, q, c
<1>12. Polite(u, c)
  <2>1. CASE Alive(c)
    BY <1>3, <1>8, <1>11, <2>1 DEF Polite
  <2>2. CASE ~Alive(c)
    BY <1>7, <1>8, <2>2 DEF Polite
  <2> QED
    BY <2>1, <2>2
<1>13. Hears(c)
  BY <1>8, <1>10, <1>12 DEF Hears, p, q
<1>14. PICK t : Becomes(h, t) /\ Goes(threads[h], t, "md5")
  BY <1>1, GoFacts DEF IInv, Types, ThreadPc
<1>15. t.pc = "md5" /\ t.sock = threads[h].sock /\ t.file = threads[h].file
  BY <1>14 DEF Goes
<1>16. /\ Table(h) /\ fds'[t.sock] = fds[t.sock]
       /\ \A d \in 0 .. Descriptors : fds[d].kind = "listen" /\ d \notin {threads[h].tsock, threads[h].lsock} =>
            fds'[d] = fds[d]
  <2>1. threads[h].sock \notin {threads[h].tsock, threads[h].lsock}
    BY <1>3, <1>4, <1>5
  <2> QED
    BY <1>1, <1>2, <1>4, <1>15, <2>1, TableFacts
<1>17. Turns(h, t) /\ t.pc \notin Offering
  BY <1>14, <1>15, <1>16 DEF Turns, Offering
<1>18. Peer(t, fds') = c
  BY <1>3, <1>15, <1>16 DEF Peer
<1>19. Ready(u, t.file, told)
  BY <1>8, <1>11, <1>15 DEF Ready, Alive, p
<1>20. Holds(t, fds') /\ Talks(t, fds', u)
  BY <1>3, <1>8, <1>15, <1>16, <1>17, <1>18, <1>19 DEF Holds, Talks
<1>21. \A d \in 0 .. Descriptors : fds[d].kind = "listen" =>
         \/ fds'[d].kind = "listen" /\ fds'[d].port = fds[d].port
         \/ threads[h].pc = "send" /\ d = threads[h].lsock
  BY <1>1, <1>4, <1>5, <1>16
<1>22. \A i \in DOMAIN client'[Serves(h)].out : client'[Serves(h)].out[i].type = "file:" =>
         i \in DOMAIN client[Serves(h)].out /\ client'[Serves(h)].out[i] = client[Serves(h)].out[i]
  BY <1>8, <1>10 DEF p, q, c
<1> QED
  BY <1>1, <1>2, <1>10, <1>13, <1>16, <1>17, <1>20, <1>21, <1>22, TurnKeeps DEF q, c

\* The checksum, or none.
LEMMA SendMd5Keeps ==
  ASSUME IInv, Types', NEW h \in DOMAIN threads, SendMd5(h)
  PROVE  IInv'
<1> DEFINE m == Message("md5sum:", threads[h].file, 0)
           c == Serves(h)
           p == client[c]
           q == client'[c]
<1>1. /\ threads[h].pc = "md5" /\ Go(h, "next") /\ UNCHANGED <<fds, server_shutdown, main, backlog>>
      /\ Send(h, m) \/ client' = client
  BY DEF SendMd5, At
<1>2. h \in Working /\ threads[h].pc \in Sending
  BY <1>1 DEF Working, Sending, Offering
<1>3. /\ c \in Client /\ c = Peer(threads[h], fds) /\ fds[threads[h].sock].kind = "conn"
      /\ p.inbox = <<>> /\ p.pc \notin {"away", "prompt"}
      /\ \A i \in DOMAIN p.out : p.out[i].type \notin Ends
  BY <1>2, SendingFacts
<1>4. m \in Msg /\ m.type = "md5sum:" /\ m.file = threads[h].file
  <2>1. threads[h].file \in Int
    <3>1. threads[h].file \in 1 .. Files
      BY <1>2, PeerFacts DEF ThreadState
    <3> QED
      BY <3>1, Bounds
  <2> QED
    BY <2>1 DEF Message, Msg, Kind
<1> HIDE DEF m
<1>5. Ready(p, m.file, [owner |-> c, file |-> m.file])
  <2>1. Talks(threads[h], fds, p)
    BY <1>2, PeerFacts
  <2> QED
    BY <1>1, <1>3, <1>4, <2>1 DEF Talks
<1>6. PICK t : Becomes(h, t) /\ Goes(threads[h], t, "next")
  BY <1>1, GoFacts DEF IInv, Types, ThreadPc
<1>7. t.pc = "next" /\ t.sock = threads[h].sock
  BY <1>6 DEF Goes
<1>8. Table(h) /\ Turns(h, t) /\ t.pc \notin Offering /\ Holds(t, fds')
  BY <1>1, <1>3, <1>6, <1>7 DEF Table, Turns, Offering, Holds
<1>9. CASE Send(h, m)
  <2>1. Hears(c) /\ Adds(p, q, m) /\ q.pc = p.pc /\ q.inbox = <<>>
    BY <1>2, <1>3, <1>4, <1>5, <1>9, SendHears
  <2>2. \A i \in DOMAIN q.out : q.out[i].type \notin Ends
    BY <1>3, <1>4, <2>1 DEF Adds, Ends
  <2>3. Talks(t, fds', q)
    BY <1>3, <1>7, <2>1, <2>2 DEF Talks, Offering
  <2>4. \A i \in DOMAIN q.out : q.out[i].type = "file:" => i \in DOMAIN p.out /\ q.out[i] = p.out[i]
    BY <1>4, <2>1 DEF Adds
  <2> QED
    BY <1>1, <1>2, <1>8, <2>1, <2>3, <2>4, TurnKeeps
<1>10. CASE client' = client
  <2>1. Talks(t, fds', q)
    BY <1>3, <1>7, <1>10 DEF Talks, Offering
  <2> QED
    BY <1>1, <1>2, <1>3, <1>8, <1>10, <2>1, SameHears, TurnKeeps
<1> QED
  BY <1>1, <1>9, <1>10

\* The next file, or "done" after the last.
LEMMA NextFileKeeps ==
  ASSUME IInv, Types', NEW h \in DOMAIN threads, NextFile(h)
  PROVE  IInv'
<1> DEFINE m == Message("done", 0, 0)
           c == Serves(h)
           p == client[c]
           q == client'[c]
           t == [threads[h] EXCEPT !.pc = "listen", !.file = @ + 1]
<1>1. /\ threads[h].pc = "next" /\ UNCHANGED <<fds, server_shutdown, main, backlog>>
      /\ \/ Send(h, m) /\ Go(h, "recv")
         \/ threads' = [threads EXCEPT ![h] = t] /\ client' = client
  BY DEF NextFile, At
<1>2. h \in Working /\ threads[h].pc \in Sending
  BY <1>1 DEF Working, Sending, Offering
<1>3. /\ c \in Client /\ c = Peer(threads[h], fds) /\ fds[threads[h].sock].kind = "conn"
      /\ p.inbox = <<>> /\ p.pc \notin {"away", "prompt"}
      /\ \A i \in DOMAIN p.out : p.out[i].type \notin Ends
  BY <1>2, SendingFacts
<1>4. CASE Send(h, m) /\ Go(h, "recv")
  <2>1. m \in Msg /\ m.type = "done"
    BY DEF Message, Msg, Kind
  <2> HIDE DEF m
  <2>2. Hears(c) /\ Adds(p, q, m)
    BY <1>2, <1>3, <1>4, <2>1, SendHears
  <2>3. \A i \in DOMAIN q.out : q.out[i].type = "file:" => i \in DOMAIN p.out /\ q.out[i] = p.out[i]
    BY <2>1, <2>2 DEF Adds
  <2>4. PICK r : Becomes(h, r) /\ Goes(threads[h], r, "recv")
    BY <1>4, GoFacts DEF IInv, Types, ThreadPc
  <2>5. r.pc = "recv" /\ r.sock = threads[h].sock
    BY <2>4 DEF Goes
  <2>6. Table(h) /\ Turns(h, r) /\ r.pc \notin Offering /\ Holds(r, fds')
    BY <1>1, <1>3, <2>4, <2>5 DEF Table, Turns, Offering, Holds
  <2>7. Talks(r, fds', q)
    BY <2>5 DEF Talks, Sending, Offering
  <2> QED
    BY <1>1, <1>2, <2>2, <2>3, <2>6, <2>7, TurnKeeps
<1>5. CASE threads' = [threads EXCEPT ![h] = t] /\ client' = client
  <2>1. t.pc = "listen" /\ t.sock = threads[h].sock
    BY <1>2, PeerFacts DEF ThreadState
  <2> HIDE DEF t
  <2>2. Becomes(h, t)
    BY <1>5, Stepped
  <2>3. Table(h) /\ Turns(h, t) /\ t.pc \notin Offering /\ Holds(t, fds')
    BY <1>1, <1>3, <2>1, <2>2 DEF Table, Turns, Offering, Holds
  <2>4. Talks(t, fds', q)
    BY <1>3, <1>5, <2>1 DEF Talks, Offering
  <2> QED
    BY <1>1, <1>2, <1>3, <1>5, <2>3, <2>4, SameHears, TurnKeeps
<1> QED
  BY <1>1, <1>4, <1>5

\* An announcement is the last thing its client has to read, and no other client
\* has one for that port: another thread would be listening there.
LEMMA AnnounceKeeps ==
  ASSUME IInv, Types', NEW h \in DOMAIN threads, Announce(h)
  PROVE  IInv'
<1> DEFINE l == Lowest
           f == Listening(threads[h].port, <<>>)
           m == Message("file:", threads[h].file, threads[h].port)
           t == [threads[h] EXCEPT !.pc = "accept", !.lsock = l]
           c == Serves(h)
           p == client[c]
           q == client'[c]
<1>1. /\ threads[h].pc = "listen" /\ l # -1 /\ Listeners(threads[h].port) = {}
      /\ fds' = [fds EXCEPT ![l] = f] /\ threads' = [threads EXCEPT ![h] = t] /\ Send(h, m)
      /\ UNCHANGED <<server_shutdown, main, backlog>>
  BY DEF Announce, At
<1>2. h \in Working /\ threads[h].pc \in Sending
  BY <1>1 DEF Working, Sending, Offering
<1>3. /\ c \in Client /\ c = Peer(threads[h], fds) /\ fds[threads[h].sock].kind = "conn"
      /\ p.inbox = <<>> /\ p.pc \notin {"away", "prompt"}
      /\ \A i \in DOMAIN p.out : p.out[i].type \notin Ends
  BY <1>2, SendingFacts
<1>4. /\ threads[h] \in ThreadState /\ threads[h].sock \in 0 .. Descriptors
  BY <1>2, PeerFacts DEF ThreadState
<1>5. t.pc = "accept" /\ t.lsock = l /\ t.sock = threads[h].sock /\ t.port = threads[h].port /\ t.file = threads[h].file
  BY <1>4 DEF ThreadState
<1> HIDE DEF t
<1>6. l \in 0 .. Descriptors /\ fds[l].kind = "closed" /\ DOMAIN fds = 0 .. Descriptors /\ DOMAIN fds' = 0 .. Descriptors
  BY <1>1, LowestFacts DEF IInv, Types, TableTypes
<1>7. \A d \in 0 .. Descriptors : fds'[d] = IF d = l THEN f ELSE fds[d]
  BY <1>1, <1>6
<1>8. f.kind = "listen" /\ f.port = threads[h].port /\ f.queue = <<>>
  BY DEF Listening
<1>9. m \in Msg /\ m.type = "file:" /\ m.file = threads[h].file /\ m.port = threads[h].port
  <2>1. threads[h].file \in Int /\ threads[h].port \in Int
    <3>1. threads[h].file \in 1 .. Files /\ threads[h].port \in Port \cup {NoPort}
      BY <1>4 DEF ThreadState
    <3>2. Port \subseteq Nat /\ NoPort \in Int
      BY TransferAssumption DEF NoPort
    <3>3. threads[h].port \in Int
      <4> DEFINE k == threads[h].port
      <4>1. k \in Nat \/ k = NoPort
        BY <3>1, <3>2
      <4> HIDE DEF k
      <4>2. k \in Int
        BY <3>2, <4>1
      <4> QED
        BY <4>2 DEF k
    <3>4. threads[h].file \in Int
      BY <3>1, Bounds
    <3> QED
      BY <3>3, <3>4
  <2> QED
    BY <2>1 DEF Message, Msg, Kind
<1> HIDE DEF f, l, m
<1>10. Hears(c) /\ Adds(p, q, m) /\ q.pc = p.pc /\ q.inbox = <<>>
  BY <1>1, <1>2, <1>3, <1>9, SendHears
<1>11. \A i \in DOMAIN q.out : q.out[i].type \notin Ends
  BY <1>3, <1>9, <1>10 DEF Adds, Ends
<1>12. Becomes(h, t)
  BY <1>1, Stepped
<1>13. fds'[t.sock] = fds[threads[h].sock] /\ fds'[l] = f
  BY <1>3, <1>4, <1>5, <1>6, <1>7
<1>14. Turns(h, t) /\ Table(h)
  BY <1>5, <1>6, <1>7, <1>8, <1>12, <1>13 DEF Turns, Table
<1>15. Holds(t, fds')
  BY <1>3, <1>5, <1>8, <1>13 DEF Holds
<1>16. Talks(t, fds', q)
  BY <1>3, <1>5, <1>8, <1>10, <1>11, <1>13 DEF Talks
<1>17. Serving' /\ Apart' /\ Peers' /\ Passing' /\ Conversations'
  BY <1>1, <1>2, <1>10, <1>14, <1>15, <1>16, HandlerKeeps
<1>18. \A g \in Working \ {h} :
         /\ threads'[g] = threads[g] /\ Serves(g) # c /\ Serves(g) \in Client
         /\ Serves(g) = Peer(threads[g], fds) /\ Peer(threads[g], fds') = Serves(g)
         /\ threads[g].pc \in Offering => threads[g].port # threads[h].port
  <2> SUFFICES ASSUME NEW g \in Working \ {h}
               PROVE  /\ threads'[g] = threads[g] /\ Serves(g) # c /\ Serves(g) \in Client
                      /\ Serves(g) = Peer(threads[g], fds) /\ Peer(threads[g], fds') = Serves(g)
                      /\ threads[g].pc \in Offering => threads[g].port # threads[h].port
    OBVIOUS
  <2>1. /\ g \in DOMAIN threads /\ Serves(g) \in Client /\ Serves(g) = Peer(threads[g], fds)
        /\ Holds(threads[g], fds) /\ Own(threads[g]) \subseteq 0 .. Descriptors
    BY PeerFacts
  <2>2. Serves(g) # c /\ threads'[g] = threads[g]
    BY <1>2, <1>12, <2>1, ApartFacts DEF Becomes
  <2>3. Peer(threads[g], fds') = Serves(g)
    BY <1>6, <1>7, <2>1 DEF Holds, Own, Peer
  <2>4. threads[g].pc \in Offering => threads[g].lsock \in DOMAIN fds /\ threads[g].lsock \notin Listeners(threads[h].port)
    BY <1>1, <1>6, <2>1 DEF Own
  <2>5. threads[g].pc \in Offering => threads[g].port # threads[h].port
    BY <2>1, <2>4 DEF Listeners, Is, Holds
  <2> QED
    BY <2>1, <2>2, <2>3, <2>5
<1>19. Offers'
  <2> SUFFICES ASSUME NEW b \in Client, NEW i \in DOMAIN client'[b].out, client'[b].out[i].type = "file:"
               PROVE  Offered(client'[b].out[i], b, i = Len(client'[b].out), fds', threads')
    BY DEF Offers
  <2>1. DOMAIN threads' = DOMAIN threads /\ threads'[h] = t /\ \A g \in DOMAIN threads : g # h => threads'[g] = threads[g]
    BY <1>12 DEF Becomes
  <2>2. ASSUME NEW g \in DOMAIN threads', threads'[g].pc \in Offering, g # h
        PROVE  g \in Working \ {h} /\ threads'[g] = threads[g]
    BY <2>1, <2>2 DEF Working, Offering
  <2>3. CASE b = c /\ client'[b].out[i] = m /\ i = Len(client'[b].out)
    <3>1. \E d \in DOMAIN fds' : fds'[d].kind = "listen" /\ fds'[d].port = m.port
      BY <1>6, <1>8, <1>9, <1>13
    <3>2. ASSUME NEW g \in DOMAIN threads', threads'[g].pc \in Offering, threads'[g].port = m.port
          PROVE  threads'[g].pc = "accept" /\ b = Peer(threads'[g], fds') /\ m.file = threads'[g].file
      <4>1. g = h
        BY <1>9, <1>18, <2>2, <3>2
      <4>2. Peer(t, fds') = c
        BY <1>3, <1>13 DEF Peer
      <4> QED
        BY <1>5, <1>9, <2>1, <2>3, <4>1, <4>2
    <3> QED
      BY <2>3, <3>1, <3>2 DEF Offered
  <2>4. CASE i \in DOMAIN client[b].out /\ client'[b].out[i] = client[b].out[i]
    <3> DEFINE n == client[b].out[i]
    <3>1. Offered(n, b, i = Len(client[b].out), fds, threads)
      BY <2>4 DEF IInv, Offers
    <3>2. PICK d \in DOMAIN fds : fds[d].kind = "listen" /\ fds[d].port = n.port
      BY <3>1 DEF Offered
    <3>3. fds'[d] = fds[d] /\ n.port # threads[h].port
      BY <1>1, <1>6, <1>7, <3>2 DEF Listeners, Is
    <3>4. ASSUME NEW g \in DOMAIN threads', threads'[g].pc \in Offering, threads'[g].port = n.port
          PROVE  /\ threads'[g].pc = "accept" /\ b = Peer(threads'[g], fds') /\ n.file = threads'[g].file
                 /\ i = Len(client'[b].out)
      <4>1. g # h
        BY <1>5, <2>1, <3>3, <3>4
      <4>2. g \in Working \ {h} /\ threads'[g] = threads[g]
        BY <2>2, <3>4, <4>1
      <4>3. g \in DOMAIN threads /\ threads[g].pc = "accept" /\ b = Serves(g) /\ n.file = threads[g].file /\ i = Len(client[b].out)
        BY <1>18, <3>1, <3>4, <4>2 DEF Offered, Working
      <4>4. client'[b] = client[b]
        BY <1>10, <1>18, <4>2, <4>3 DEF Hears
      <4> QED
        BY <1>18, <4>2, <4>3, <4>4
    <3> QED
      BY <1>6, <2>4, <3>2, <3>3, <3>4 DEF Offered
  <2> QED
    <3>1. b # c => client'[b] = client[b]
      BY <1>10 DEF Hears
    <3> QED
      BY <1>10, <2>3, <2>4, <3>1 DEF Adds
<1> QED
  BY <1>17, <1>19 DEF IInv

\* Whoever connects to the port is the client the file was announced to.
LEMMA AcceptDataKeeps ==
  ASSUME IInv, Types', NEW h \in DOMAIN threads, AcceptData(h), Lowest # -1
  PROVE  IInv'
<1> DEFINE n == Lowest
           l == threads[h].lsock
           c == Serves(h)
           p == client[c]
           pc == IF n <= 0 THEN "next" ELSE "send"
           t == [threads[h] EXCEPT !.tsock = n, !.pc = pc]
           f == [fds[l] EXCEPT !.queue = Tail(fds[l].queue)]
           e == Data(Head(fds[l].queue))
<1>1. /\ threads[h].pc = "accept" /\ fds[l].kind = "listen" /\ fds[l].queue # <<>>
      /\ fds' = [fds EXCEPT ![l].queue = Tail(@), ![n] = e]
      /\ threads' = [threads EXCEPT ![h].tsock = n, ![h].pc = pc]
      /\ UNCHANGED <<server_shutdown, main, backlog, client>>
  BY DEF AcceptData, At, Is
<1>2. h \in Working /\ threads[h].pc \in Sending
  BY <1>1 DEF Working, Sending, Offering
<1>3. /\ c \in Client /\ c = Peer(threads[h], fds) /\ fds[threads[h].sock].kind = "conn"
      /\ p.inbox = <<>> /\ p.pc \notin {"away", "prompt"}
      /\ \A i \in DOMAIN p.out : p.out[i].type \notin Ends
  BY <1>2, SendingFacts
<1>4. /\ threads[h] \in ThreadState /\ threads[h].sock \in 0 .. Descriptors /\ l \in 0 .. Descriptors
  BY <1>2, PeerFacts DEF ThreadState
<1>5. pc \in {"next", "send"} /\ t.pc = pc /\ t.tsock = n /\ t.lsock = l /\ t.sock = threads[h].sock
      /\ t.port = threads[h].port /\ t.file = threads[h].file
  BY <1>4 DEF ThreadState
<1>6. threads' = [threads EXCEPT ![h] = t]
  BY <1>1
<1> HIDE DEF t, pc
<1>7. n \in 0 .. Descriptors /\ fds[n].kind = "closed" /\ n # l /\ DOMAIN fds = 0 .. Descriptors
      /\ fds[l] \in Fd /\ DOMAIN fds' = 0 .. Descriptors
  BY <1>1, <1>4, LowestFacts DEF IInv, Types, TableTypes
<1>8. fds[l].queue \in Seq(Client) /\ Tail(fds[l].queue) \in Seq(Client)
      /\ \A i \in DOMAIN Tail(fds[l].queue) : i + 1 \in DOMAIN fds[l].queue /\ Tail(fds[l].queue)[i] = fds[l].queue[i + 1]
      /\ 1 \in DOMAIN fds[l].queue /\ Head(fds[l].queue) = fds[l].queue[1]
  <2> DEFINE s == fds[l].queue
  <2>1. s \in Seq(Client) /\ s # <<>>
    BY <1>1, <1>7, FdFacts
  <2> HIDE DEF s
  <2>2. /\ Tail(s) \in Seq(Client) /\ Len(Tail(s)) = Len(s) - 1 /\ s[1] = Head(s)
        /\ \A i \in 1 .. Len(Tail(s)) : Tail(s)[i] = s[i + 1]
    BY <2>1, HeadTailProperties
  <2>3. Len(s) \in Nat /\ Len(s) # 0 /\ DOMAIN s = 1 .. Len(s) /\ DOMAIN Tail(s) = 1 .. Len(Tail(s))
    BY <2>1, <2>2, LenProperties, EmptySeq
  <2>4. \A i \in 1 .. Len(s) - 1 : i + 1 \in 1 .. Len(s)
    BY <2>3
  <2>5. 1 \in 1 .. Len(s)
    BY <2>3
  <2>6. /\ s \in Seq(Client) /\ Tail(s) \in Seq(Client)
        /\ \A i \in DOMAIN Tail(s) : i + 1 \in DOMAIN s /\ Tail(s)[i] = s[i + 1]
        /\ 1 \in DOMAIN s /\ Head(s) = s[1]
    BY <2>1, <2>2, <2>3, <2>4, <2>5
  <2> QED
    BY <2>6 DEF s
<1>9. f.kind = "listen" /\ f.port = fds[l].port /\ f.queue = Tail(fds[l].queue)
  <2> DEFINE g == fds[l]
             r == Tail(g.queue)
  <2>1. g \in Fd /\ g.kind = "listen" /\ r \in Seq(Client)
    BY <1>1, <1>7, <1>8
  <2>2. f = [g EXCEPT !.queue = r]
    OBVIOUS
  <2> HIDE DEF g, r, f
  <2>3. f.kind = "listen" /\ f.port = g.port /\ f.queue = r
    BY <2>1, <2>2, SetQueue
  <2> QED
    BY <2>3 DEF g, r
<1>10. /\ fds[l].port = threads[h].port /\ Ready(p, threads[h].file, NoData)
       /\ \A i \in DOMAIN fds[l].queue : fds[l].queue[i] = c
  <2>1. Holds(threads[h], fds) /\ Talks(threads[h], fds, p)
    BY <1>2, PeerFacts
  <2> QED
    BY <1>1, <1>3, <2>1 DEF Holds, Talks, Offering
<1>11. e = Data(c) /\ e.kind = "data"
  BY <1>8, <1>10 DEF Data
<1>12. \A d \in 0 .. Descriptors : fds'[d] = IF d = n THEN e ELSE IF d = l THEN f ELSE fds[d]
  BY <1>1, <1>4, <1>7
<1> HIDE DEF n, e, f, l
<1>13. Becomes(h, t)
  BY <1>6, Stepped
<1>14. fds'[t.sock] = fds[threads[h].sock] /\ fds'[l] = f /\ fds'[n] = e
  BY <1>1, <1>3, <1>4, <1>5, <1>7, <1>12
<1>15. Turns(h, t)
  BY <1>1, <1>5, <1>13, <1>14 DEF Turns, Offering, l
<1>16. Table(h)
  <2>1. l \in Own(threads[h])
    BY <1>1 DEF Own, Offering, l
  <2> QED
    BY <1>7, <1>9, <1>11, <1>12, <2>1 DEF Table
<1>17. Holds(t, fds')
  BY <1>3, <1>5, <1>9, <1>10, <1>11, <1>14 DEF Holds, Peer
<1>18. Talks(t, fds', client'[c])
  BY <1>1, <1>3, <1>5, <1>10 DEF Talks
<1>19. Hears(c) /\ client' = client
  BY <1>1, <1>3, SameHears
<1>20. CASE pc = "next"
  <2>1. \A d \in 0 .. Descriptors : fds[d].kind = "listen" => fds'[d].kind = "listen" /\ fds'[d].port = fds[d].port
    BY <1>7, <1>9, <1>12
  <2>2. t.pc \notin Offering
    BY <1>5, <1>20 DEF Offering
  <2> QED
    BY <1>1, <1>2, <1>3, <1>15, <1>16, <1>17, <1>18, <1>19, <2>1, <2>2, SameHears, TurnKeeps
<1>21. CASE pc = "send"
  <2>1. Serving' /\ Apart' /\ Peers' /\ Passing' /\ Conversations'
    BY <1>1, <1>2, <1>15, <1>16, <1>17, <1>18, <1>19, HandlerKeeps
  <2>2. Offers'
    <3> SUFFICES ASSUME NEW b \in Client, NEW i \in DOMAIN client[b].out, client[b].out[i].type = "file:"
                 PROVE  Offered(client[b].out[i], b, i = Len(client[b].out), fds', threads')
      BY <1>19 DEF Offers
    <3> DEFINE m == client[b].out[i]
    <3>1. Offered(m, b, i = Len(client[b].out), fds, threads)
      BY DEF IInv, Offers
    <3> HIDE DEF m
    <3>2. \E d \in DOMAIN fds' : fds'[d].kind = "listen" /\ fds'[d].port = m.port
      <4>1. PICK d \in DOMAIN fds : fds[d].kind = "listen" /\ fds[d].port = m.port
        BY <3>1 DEF Offered
      <4> QED
        BY <1>7, <1>9, <1>12, <4>1
    <3>3. ASSUME NEW g \in DOMAIN threads', threads'[g].pc \in Offering, threads'[g].port = m.port
          PROVE  /\ threads'[g].pc = "accept" /\ b = Peer(threads'[g], fds') /\ m.file = threads'[g].file
                 /\ i = Len(client[b].out)
      <4>1. DOMAIN threads' = DOMAIN threads /\ threads'[h] = t /\ \A k \in DOMAIN threads : k # h => threads'[k] = threads[k]
        BY <1>13 DEF Becomes
      <4>2. g # h
        <5> SUFFICES ASSUME g = h PROVE FALSE
          OBVIOUS
        <5>1. threads[h].pc \in Offering /\ threads[h].port = m.port /\ h \in DOMAIN threads
          BY <1>1, <1>5, <3>3, <4>1 DEF Offering
        <5>2. b = c
          BY <1>3, <3>1, <5>1 DEF Offered
        <5>3. p.pc \in {"gone", "crashed"} => p.out = <<>>
          BY <1>3 DEF IInv, Conversations, Polite
        <5>4. p.out = <<>>
          BY <1>10, <5>3 DEF Ready
        <5> QED
          BY <5>2, <5>4
      <4>3. g \in Working /\ threads'[g] = threads[g] /\ g \in DOMAIN threads
        BY <3>3, <4>1, <4>2 DEF Working, Offering
      <4>4. threads[g].pc = "accept" /\ b = Peer(threads[g], fds) /\ m.file = threads[g].file /\ i = Len(client[b].out)
        BY <3>1, <3>3, <4>3 DEF Offered
      <4>5. Peer(threads[g], fds') = Peer(threads[g], fds)
        <5>1. fds[threads[g].sock].kind = "conn" /\ threads[g].sock \in 0 .. Descriptors
          BY <4>3, PeerFacts DEF Holds, Own
        <5>2. fds'[threads[g].sock] = fds[threads[g].sock]
          BY <1>1, <1>7, <1>12, <5>1 DEF l
        <5> QED
          BY <5>2 DEF Peer
      <4> QED
        BY <4>3, <4>4, <4>5
    <3> QED
      BY <3>2, <3>3 DEF Offered, m
  <2> QED
    BY <2>1, <2>2 DEF IInv
<1> QED
  BY <1>5, <1>20, <1>21
-------------------------------------------------------------------------------
LEMMA ThreadStepKeeps ==
  ASSUME IInv, Types', NEW h \in DOMAIN threads, ThreadStep(h)
  PROVE  IInv'
<1>1. CASE AcceptData(h)
  BY <1>1, AcceptDataKeeps, SkipKeeps
<1>2. CASE ~AcceptData(h)
  BY <1>2, ReceiveGetKeeps, ReceiveBadKeeps, StopKeeps, EndKeeps, AnnounceKeeps, SkipKeeps, SendFileKeeps,
     SendMd5Keeps, NextFileKeeps DEF ThreadStep
<1> QED
  BY <1>1, <1>2

LEMMA ClientStepKeeps ==
  ASSUME IInv, Types', NEW c \in Client,
         \/ Connect(c) \/ Reading(c) \/ Leave(c)
         \/ (\E cmd \in Commands : Ask(c, cmd)) /\ UNCHANGED <<fds, backlog, Others>>
  PROVE  IInv'
<1>1. CASE Connect(c)
  BY <1>1, ConnectKeeps
<1>2. CASE Leave(c)
  <2>1. UNCHANGED <<fds, backlog, Others>>
    BY <1>2 DEF Leave
  <2> QED
    BY <1>2, <2>1, OtherClientKeeps
<1>3. CASE (\E cmd \in Commands : Ask(c, cmd)) /\ UNCHANGED <<fds, backlog, Others>>
  BY <1>3, OtherClientKeeps
<1>4. CASE Reading(c)
  <2>1. CASE TakeFile(c)
    BY <2>1, TakeFileKeeps
  <2>2. CASE DataLost(c) \/ EndOfStream(c) \/ (EndOfData(c) /\ UNCHANGED <<fds, backlog, Others>>)
    <3>1. UNCHANGED <<fds, backlog, Others>>
      BY <2>2 DEF DataLost, EndOfStream
    <3> QED
      BY <2>2, <3>1, OtherClientKeeps
  <2>3. CASE (Hear(c) \/ Fail(c)) /\ UNCHANGED <<fds, backlog, Others>>
    BY <2>3, HearKeeps
  <2> QED
    BY <1>4, <2>1, <2>2, <2>3 DEF Reading
<1> QED
  BY <1>1, <1>2, <1>3, <1>4

LEMMA NextKeeps ==
  ASSUME "idle" \notin Faults, IInv, [Next]_vars
  PROVE  IInv'
<1>1. Types'
  BY NextTypes DEF IInv
<1>2. CASE MainStep
  BY <1>1, <1>2, MainKeeps
<1>3. CASE \E h \in DOMAIN threads : ThreadStep(h)
  BY <1>1, <1>3, ThreadStepKeeps
<1>4. CASE \/ \E c \in Client : Connect(c) \/ Reading(c) \/ Leave(c)
           \/ (\E c \in Client, cmd \in Commands : Ask(c, cmd)) /\ UNCHANGED <<fds, backlog, Others>>
  BY <1>1, <1>4, ClientStepKeeps
<1>5. CASE UNCHANGED vars \/ \E p \in Port : Expire(p)
  <2>1. UNCHANGED <<fds, server_shutdown, main, threads, backlog, client>>
    BY <1>5 DEF vars, Expire
  <2>2. Passing'
    BY <2>1 DEF IInv, Passing, Fresh, Working
  <2> QED
    BY <1>1, <2>1, <2>2, SameKeeps
<1> QED
  BY <1>2, <1>3, <1>4, <1>5 DEF Next

\* A client that is sent a file or a checksum has been told of that file last,
\* by the thread that serves it, and reads nothing in between.
LEMMA IInvOwn == IInv => OwnFileOnly
<1> SUFFICES ASSUME IInv, NEW c \in Client
             PROVE  LET Told == [owner |-> c, file |-> client[c].told] IN
                      /\ client[c].pc = "data" => client[c].data \in {NoData, Told}
                      /\ \A r \in MayRead(c) : IsSum(r) => client[c].data = Told /\ r[1].file = client[c].told
  BY DEF OwnFileOnly
<1>1. Polite(client[c], c) /\ ClientTypes
  BY DEF IInv, Conversations, Types
<1>2. ASSUME NEW r \in MayRead(c), IsSum(r)
      PROVE  client[c].data = [owner |-> c, file |-> client[c].told] /\ r[1].file = client[c].told
  <2>1. 1 \in DOMAIN client[c].out /\ r[1] = client[c].out[1]
    BY <1>1, LeftEnding
  <2> QED
    BY <1>1, <1>2, <2>1 DEF Polite, IsSum
<1> QED
  BY <1>1, <1>2 DEF Polite

\* OwnFileOnly of the runs, for every number of clients, files, ports and
\* descriptors: whatever a thread sends on a data connection goes to the client
\* of its own connection, is the file of its last "file:" line, and the checksum
\* that follows is of that file (server.cpp 129-262, Program.cs 203-262). It holds
\* when ports are granted twice, bind fails, files cannot be sent and clients die,
\* as long as main passes no thread the 0 of a time-out (server.cpp 445) for a
\* connection: descriptor 0 is closed with it, and a data connection that is
\* given the number is taken for a failure.
THEOREM OwnFileHolds == "idle" \notin Faults => (Spec => []OwnFileOnly)
<1> SUFFICES ASSUME "idle" \notin Faults PROVE Spec => []OwnFileOnly
  OBVIOUS
<1>1. Init => IInv
  BY IInvInit
<1>2. IInv /\ [Next]_vars => IInv'
  BY NextKeeps
<1>3. IInv => OwnFileOnly
  BY IInvOwn
<1> QED
  BY <1>1, <1>2, <1>3, PTL DEF Spec
-------------------------------------------------------------------------------
\* How many steps a thread still takes in a transfer: five at most for each file, from the
\* socket it listens on to the release of the port, fewer where send_file_to_client returns early.
Passage == {"listen", "accept", "send", "md5", "next"}
Steps(pc) ==
  IF pc = "listen" THEN 5 ELSE IF pc = "accept" THEN 4 ELSE IF pc = "send" THEN 3
  ELSE IF pc = "md5" THEN 2 ELSE 1
StepsLeft(t) == IF t.pc \in Passage THEN 5 * (Files - t.file) + Steps(t.pc) ELSE 0

LEMMA StepsFall ==
  ASSUME NEW t \in ThreadState, NEW u \in ThreadState, t.pc \in Passage,
         \/ u.pc \notin Passage
         \/ u.file = t.file /\ u.pc \in Passage /\ Steps(u.pc) < Steps(t.pc)
         \/ u.file = t.file + 1 /\ u.pc \in Passage /\ t.pc = "next"
  PROVE  StepsLeft(u) < StepsLeft(t)
<1>1. Files \in Nat /\ t.file \in 1 .. Files /\ u.file \in 1 .. Files
  BY Bounds DEF ThreadState
<1> DEFINE k == Files - t.file
<1>2. k \in Nat /\ Files - (t.file + 1) = k - 1
  BY <1>1
<1>3. Steps(t.pc) \in 1 .. 5 /\ Steps(u.pc) \in 1 .. 5 /\ (t.pc = "next" => Steps(t.pc) = 1)
  BY DEF Steps
<1>4. StepsLeft(t) = 5 * k + Steps(t.pc)
  BY DEF StepsLeft
<1>5. \/ StepsLeft(u) = 0
      \/ StepsLeft(u) = 5 * k + Steps(u.pc) /\ Steps(u.pc) < Steps(t.pc)
      \/ StepsLeft(u) = 5 * (k - 1) + Steps(u.pc) /\ Steps(t.pc) = 1
  BY <1>2, <1>3 DEF StepsLeft
<1> HIDE DEF k
<1> QED
  BY <1>2, <1>3, <1>4, <1>5

\* What a step makes of the thread that takes it, and of the others.
LEMMA PassageStep ==
  ASSUME Types, NEW h \in DOMAIN threads, threads[h].pc \in Passage, ThreadStep(h)
  PROVE  StepsLeft(threads'[h]) < StepsLeft(threads[h])
<1>1. threads[h] \in ThreadState
  BY ThreadFacts DEF Types
<1> USE DEF Types
<1>0. /\ Steps("listen") = 5 /\ Steps("accept") = 4 /\ Steps("send") = 3 /\ Steps("next") = 1
      /\ {"accept", "send", "next"} \subseteq Passage
  BY DEF Steps, Passage
<1>2. ~At(h, "recv") /\ ~At(h, "stop")
  BY DEF At, Passage
<1>3. ASSUME NEW pc \in ThreadPc, Go(h, pc), pc \notin Passage \/ Steps(pc) < Steps(threads[h].pc)
      PROVE  StepsLeft(threads'[h]) < StepsLeft(threads[h])
  <2>1. PICK t : Becomes(h, t) /\ Goes(threads[h], t, pc)
    BY <1>3, GoFacts
  <2>2. threads'[h] = t /\ t \in ThreadState /\ t.file = threads[h].file /\ t.pc = pc
    BY <2>1 DEF Becomes, Goes
  <2> QED
    BY <1>1, <1>3, <2>2, StepsFall
<1>4. ASSUME NEW t \in ThreadState, threads' = [threads EXCEPT ![h] = t], t.pc \in Passage,
             \/ t.file = threads[h].file /\ Steps(t.pc) < Steps(threads[h].pc)
             \/ t.file = threads[h].file + 1 /\ threads[h].pc = "next"
      PROVE  StepsLeft(threads'[h]) < StepsLeft(threads[h])
  <2>1. threads'[h] = t
    BY <1>4, SetThread DEF Becomes
  <2> QED
    BY <1>1, <1>4, <2>1, StepsFall
<1>5. CASE Announce(h)
  <2> DEFINE t == [threads[h] EXCEPT !.pc = "accept", !.lsock = Lowest]
  <2>1. Lowest \in 0 .. Descriptors /\ threads[h].pc = "listen" /\ threads' = [threads EXCEPT ![h] = t]
    BY <1>5, LowestFacts DEF Announce, At
  <2>2. t \in ThreadState /\ t.pc = "accept" /\ t.file = threads[h].file
    BY <1>1, <2>1 DEF ThreadState
  <2> HIDE DEF t
  <2>3. Steps(t.pc) = 4 /\ Steps(threads[h].pc) = 5 /\ t.pc \in Passage
    BY <1>0, <2>1, <2>2
  <2>4. Steps(t.pc) < Steps(threads[h].pc)
    BY <2>3
  <2> QED
    BY <1>4, <2>1, <2>2, <2>3, <2>4
<1>6. CASE AcceptData(h) /\ Lowest # -1
  <2> DEFINE pc == IF Lowest <= 0 THEN "next" ELSE "send"
             t == [threads[h] EXCEPT !.tsock = Lowest, !.pc = pc]
  <2>1. Lowest \in 0 .. Descriptors /\ threads[h].pc = "accept" /\ threads' = [threads EXCEPT ![h] = t]
    BY <1>6, LowestFacts DEF AcceptData, At
  <2>2. pc \in {"next", "send"}
    OBVIOUS
  <2> HIDE DEF pc
  <2>3. t \in ThreadState /\ t.pc = pc /\ t.file = threads[h].file
    BY <1>1, <2>1, <2>2 DEF ThreadState
  <2> HIDE DEF t
  <2>4. Steps(t.pc) \in {1, 3} /\ Steps(threads[h].pc) = 4 /\ t.pc \in Passage
    BY <1>0, <2>1, <2>2, <2>3
  <2>5. Steps(t.pc) < Steps(threads[h].pc)
    BY <2>4
  <2> QED
    BY <1>4, <2>1, <2>3, <2>4, <2>5
<1>7. CASE NextFile(h) /\ threads[h].file # Files
  <2> DEFINE t == [threads[h] EXCEPT !.pc = "listen", !.file = @ + 1]
  <2>1. threads[h].file + 1 \in 1 .. Files
    BY <1>1, <1>7, Bounds DEF ThreadState
  <2>2. threads[h].pc = "next" /\ threads' = [threads EXCEPT ![h] = t]
    BY <1>7 DEF NextFile, At
  <2>3. t \in ThreadState /\ t.pc = "listen" /\ t.file = threads[h].file + 1
    BY <1>1, <2>1 DEF ThreadState
  <2> HIDE DEF t
  <2> QED
    BY <1>4, <2>2, <2>3 DEF Passage
<1>8. CASE AnnounceFails(h) \/ AcceptDataFails(h) \/ SendFileFails(h) \/ (AcceptData(h) /\ Lowest = -1)
  <2>1. Go(h, "next") /\ threads[h].pc \in {"listen", "accept", "send"}
    BY <1>8 DEF AnnounceFails, AcceptDataFails, SendFileFails, AcceptData, At
  <2> QED
    BY <1>3, <2>1 DEF ThreadPc, Steps
<1>9. CASE SendFile(h)
  <2>1. Go(h, "md5") /\ threads[h].pc = "send"
    BY <1>9 DEF SendFile, At
  <2> QED
    BY <1>3, <2>1 DEF ThreadPc, Steps
<1>10. CASE SendMd5(h)
  <2>1. Go(h, "next") /\ threads[h].pc = "md5"
    BY <1>10 DEF SendMd5, At
  <2> QED
    BY <1>3, <2>1 DEF ThreadPc, Steps
<1>11. CASE NextFile(h) /\ threads[h].file = Files
  BY <1>3, <1>11 DEF NextFile, ThreadPc, Passage
<1> QED
  BY <1>2, <1>5, <1>6, <1>7, <1>8, <1>9, <1>10, <1>11 DEF ThreadStep, ReceiveGet, ReceiveBad,
     ReceiveExit, ReceiveShutdown, Receive, StopAccepting, ReceiveNothing, ReceiveFails

\* No step of anybody else touches a thread, its file or its place in it.
LEMMA ThreadStays ==
  ASSUME Types, NEW h \in DOMAIN threads, [Next]_vars, ~ThreadStep(h)
  PROVE  threads'[h] = threads[h]
<1>1. ASSUME NEW g \in DOMAIN threads, ThreadStep(g), g # h PROVE threads'[h] = threads[h]
  <2>1. CASE \E t : threads' = [threads EXCEPT ![g] = t]
    BY <1>1, <2>1
  <2> QED
    BY <1>1, <2>1 DEF ThreadStep, ReceiveGet, ReceiveBad, ReceiveExit, ReceiveShutdown, StopAccepting,
       ReceiveNothing, ReceiveFails, Announce, AnnounceFails, AcceptData, AcceptDataFails, SendFile,
       SendFileFails, SendMd5, NextFile, Go, Finish
<1>2. CASE Spawn
  <2>1. PICK t : threads' = Append(threads, t)
    BY <1>2 DEF Spawn
  <2>2. threads \in Seq(ThreadState) /\ h \in 1 .. Len(threads)
    BY LenProperties DEF Types, ThreadTypes
  <2> QED
    BY <2>1, <2>2
<1>3. CASE Loop \/ Accept \/ AcceptTimesOut \/ Admit
  BY <1>3 DEF Loop, Accept, AcceptTimesOut, Admit
<1>4. ASSUME NEW c \in Client, Connect(c) \/ Reading(c) \/ Leave(c) PROVE threads'[h] = threads[h]
  BY <1>4 DEF Connect, Reading, TakeFile, DataLost, EndOfStream, Leave, Others
<1>5. CASE UNCHANGED <<fds, backlog, Others>> \/ UNCHANGED vars \/ \E p \in Port : Expire(p)
  BY <1>5 DEF Others, vars, Expire
<1> QED
  BY <1>1, <1>2, <1>3, <1>4, <1>5 DEF Next, MainStep

\* A thread that was asked for a directory needs five steps at most for each file: every step of its
\* own brings it nearer to the next command, and nobody else's takes it back, whatever fails
\* and whoever dies (HandleTCPClient and send_file_to_client, server.cpp 129-335).
Hastens ==
  \A h \in DOMAIN threads : threads[h].pc \in Passage =>
    IF ThreadStep(h) THEN StepsLeft(threads'[h]) < StepsLeft(threads[h])
                     ELSE threads'[h] = threads[h]

\* No transfer goes on for ever: with fairness, the thread comes back for a command.
THEOREM TransfersAdvance == Spec => [][Hastens]_vars
<1>1. Init => Types
  BY InitTypes
<1>2. Types /\ [Next]_vars => Types'
  BY NextTypes
<1>3. Types /\ [Next]_vars => [Hastens]_vars
  BY PassageStep, ThreadStays DEF Hastens
<1> QED
  BY <1>1, <1>2, <1>3, PTL DEF Spec
===============================================================================
